----------------------------- MODULE Federation -----------------------------
(***************************************************************************)
(* What two practices exchange besides tasks: node manifests accepted under *)
(* a trusted practice document, transfer contracts and the answers to them, *)
(* the obligations that travel with an accepted transfer, and the answers   *)
(* to corrections.                                                          *)
(*                                                                         *)
(* A transfer's status lives in the event log alone; an obligation is a     *)
(* sequence of revisions, stored with its edges and its event in one        *)
(* transaction.  A call reads, then writes; other calls run in between and  *)
(* any call may die.  The caller brings the practice document it trusts,    *)
(* which may be older than the one in force.                                *)
(***************************************************************************)
EXTENDS Naturals, Sequences, FiniteSets, SequencesExt

CONSTANTS
    Actors,         \* callers of the services
    Transfers,      \* ids of transfer contracts
    Contract,       \* transfer -> its signature and its content
    Manifests,      \* signed node manifests that may be received
    Items,          \* stored objects
    Identifiable,   \* the stored objects classified PARTICIPANT_IDENTIFIABLE
    Adaptations,    \* stored objects an answer may name as its adaptation
    Adaptings,      \* sets of pairs <<adapted, notified>> a correction response may carry
    Derivations,    \* impact edges other services may add: <<source, target>>
    Notifications,  \* received correction notifications
    Notified,       \* notification -> the objects it names
    Keys,           \* key ids of the sending practice
    KeyWindow,      \* key -> [from, until]
    FirstKey,       \* the key of the first practice document
    Work,           \* bound: workloads, each the calls and events that may happen, with how often
    None

\* What makes a signed object fail whoever looks at it.
Defects == {"signer_mismatch", "key_not_declared", "signature_invalid"}
Decisions == {"accepted", "adapted", "rejected", "deferred", "unresolved"}

ASSUME FederationConstants ==
    /\ \A t \in Transfers :
          /\ Contract[t].key \in Keys /\ Contract[t].defects \subseteq Defects
          /\ Contract[t].transferred_objects \subseteq Items
          /\ Contract[t].obligations \in Seq(STRING) /\ Contract[t].caveats \in BOOLEAN
    /\ \A m \in Manifests : m.key \in Keys /\ m.defects \subseteq Defects
    /\ Identifiable \subseteq Items /\ Adaptations \subseteq Items /\ Derivations \subseteq Items \X Items
    /\ \A n \in Notifications : Notified[n] \subseteq Items
    /\ \A pairs \in Adaptings : pairs \subseteq Items \X Items
    /\ FirstKey \in Keys
    /\ None \notin Decisions \cup Defects \cup {"unknown_key", "key_not_valid"}

VARIABLES
    now,          \* the clock
    practice,     \* the sender's practice document in force
    trusted,      \* actor -> the practice document it brings
    revocations,  \* key -> the instant of its recorded revocation, or None
    log,          \* the events
    edges,        \* typed edges: <<source, type, target>>
    responses,    \* the correction responses in the order of their creation
    obligations,  \* the obligations in the order of their creation
    nodes,        \* node -> its registered manifests
    call,         \* actor -> the call it is in, or Idle
    died,         \* the materializations that died: <<transfer, began>>
    work          \* what may still happen, and how often

vars == <<now, practice, trusted, revocations, log, edges, responses, obligations, nodes, call, died, work>>
keyVars == <<practice, trusted, revocations>>
storeVars == <<log, edges, responses, obligations, nodes>>

\* One of the events of the workload is used up.
Use(w) == w \in DOMAIN work /\ work[w] > 0 /\ work' = [work EXCEPT ![w] = @ - 1]

-----------------------------------------------------------------------------
(* Practice documents. *)

Absent == [state |-> "absent", since |-> 0]

\* A first document declares the one key that signed it.
build_self_signed_practice(k) ==
    [version |-> 1,
     keys |-> [j \in Keys |-> IF j = k THEN [state |-> "active", since |-> 1] ELSE Absent]]

\* A descriptor replaces whatever the ring holds for its key. "since" is history: the
\* version that made the key trusted, or that ended the trust in it.
with_descriptor(ring, version, k, state) ==
    [ring EXCEPT ![k] =
        [state |-> state,
         since |-> IF state = "active" <=> @.state = "active" THEN @.since ELSE version]]

\* The prior key is kept as rotated beside its successor, which is active whatever the
\* ring held for it: a key that was rotated or revoked comes back.
rotate(k, successor) ==
    LET next == practice.version + 1
    IN  /\ practice.keys[k].state # "absent"
        /\ Use(<<"rotate">>)
        /\ practice' = [version |-> next,
                        keys |-> with_descriptor(with_descriptor(practice.keys, next, k, "rotated"),
                                                 next, successor, "active")]
        /\ UNCHANGED <<now, trusted, revocations, storeVars, call, died>>

revoke(k) ==
    LET next == practice.version + 1
    IN  /\ practice.keys[k].state # "absent"
        /\ Use(<<"revoke">>)
        /\ practice' = [version |-> next, keys |-> with_descriptor(practice.keys, next, k, "revoked")]
        /\ UNCHANGED <<now, trusted, revocations, storeVars, call, died>>

\* The first report of a key stays.
record_revocation_core(k) ==
    /\ Use(<<"report">>) /\ revocations[k] = None
    /\ revocations' = [revocations EXCEPT ![k] = now]
    /\ UNCHANGED <<now, practice, trusted, storeVars, call, died>>
get_revocation(k) == revocations[k]
trust_revoked_after_creation(signed_at, revoked_at) == revoked_at # None /\ signed_at < revoked_at

\* An operator fetches the document it will bring to its calls.
LoadPractice(a) ==
    /\ trusted[a] # practice /\ Use(<<"load">>)
    /\ trusted' = [trusted EXCEPT ![a] = practice]
    /\ UNCHANGED <<now, practice, revocations, storeVars, call, died>>

Tick == Use(<<"tick">>) /\ now' = now + 1 /\ UNCHANGED <<keyVars, storeVars, call, died>>

-----------------------------------------------------------------------------
(* Trust resolution. *)

\* The key ring of a practice document.
practice_key_ring(p) == p.keys

\* Mutant of is_valid_at: the state of the key is not looked at.
is_in_window(ring, k, at) == ring[k].state # "absent" /\ KeyWindow[k].from <= at /\ at < KeyWindow[k].until

is_valid_at(ring, k, at) == ring[k].state = "active" /\ KeyWindow[k].from <= at /\ at < KeyWindow[k].until

Fails(object, ring, at, check) ==
    \/ check \in object.defects
    \/ check = "unknown_key" /\ ring[object.key].state = "absent"
    \/ check = "key_not_valid" /\ ~is_valid_at(ring, object.key, at)

\* The first check that fails, or None.
FirstFailure(object, ring, at, checks) ==
    LET failing == {i \in DOMAIN checks : Fails(object, ring, at, checks[i])}
    IN  IF failing = {} THEN None ELSE checks[CHOOSE i \in failing : \A j \in failing : i <= j]

resolve_trusted_signer_key == <<"signer_mismatch", "unknown_key", "key_not_valid">>
verify_trusted_signature == <<"signature_invalid">>
resolve_trusted_transfer_key(contract, p, at) ==
    FirstFailure(contract, practice_key_ring(p), at, resolve_trusted_signer_key \o verify_trusted_signature)
resolve_trusted_manifest_key(manifest, p, at) ==
    FirstFailure(manifest, practice_key_ring(p), at,
                 resolve_trusted_signer_key \o <<"key_not_declared">> \o verify_trusted_signature)

-----------------------------------------------------------------------------
(* Reading the log, and the frame of a call. *)

Event(type, about, to) ==
    [type |-> type, about |-> about, to |-> to, copy |-> None, began |-> None, object |-> None]
EventsOf(types, id) == {i \in DOMAIN log : log[i].type \in types /\ log[i].about = id}
LastOf(indexes) == CHOOSE i \in indexes : \A j \in indexes : j <= i

\* An actor that runs no call.
Idle == [op |-> "idle"]

\* Making call w uses it up.
Enter(a, w, c) ==
    /\ call[a] = Idle /\ Use(w)
    /\ call' = [call EXCEPT ![a] = c]
    /\ UNCHANGED <<now, keyVars, storeVars, died>>
Goto(a, c) == call' = [call EXCEPT ![a] = c] /\ UNCHANGED <<now, keyVars, died, work>>
At(a, op) == call[a].op = op

\* A process dies, or its call raises.
Crash(a) ==
    /\ call[a] # Idle /\ Use(<<"crash">>)
    /\ call' = [call EXCEPT ![a] = Idle]
    /\ died' = IF At(a, "materialize") THEN died \cup {<<call[a].t, call[a].began>>} ELSE died
    /\ UNCHANGED <<now, keyVars, storeVars>>

-----------------------------------------------------------------------------
(* Node manifests. *)

\* A manifest whose signer is not trusted leaves only an event with its reason.
receive(a, m) ==
    LET reason == resolve_trusted_manifest_key(m, trusted[a], now)
    IN  Enter(a, <<"receive", m>>,
              IF reason # None
              THEN [op |-> "reject", m |-> m, reason |-> reason]
              ELSE [op |-> "register", m |-> m, read |-> Len(nodes[m.node]), copy |-> trusted[a].version])

_record_manifest_rejected(a) ==
    /\ At(a, "reject")
    /\ log' = Append(log, Event("node_manifest.rejected", call[a].m.node, call[a].reason))
    /\ Goto(a, Idle) /\ UNCHANGED <<edges, responses, obligations, nodes>>

\* The manifest's own revision is the next one, and no other was stored since.
CanRegister(a) ==
    call[a].m.revision = call[a].read + 1 /\ Len(nodes[call[a].m.node]) = call[a].read
register(a) ==
    /\ At(a, "register") /\ CanRegister(a)
    /\ nodes' = [nodes EXCEPT ![call[a].m.node] = Append(@, call[a].m)]
    /\ log' = Append(log, [Event("node_manifest.registered", call[a].m.node, call[a].m.key) EXCEPT !.copy = call[a].copy])
    /\ Goto(a, Idle) /\ UNCHANGED <<edges, responses, obligations>>

-----------------------------------------------------------------------------
(* Transfers. *)

TransferTransitions == {<<"created", "offered">>} \cup {<<"offered", d>> : d \in Decisions}

Exists(t) == EventsOf({"transfer.created"}, t) # {}

_current_status(t) ==
    LET moves == EventsOf({"transfer.offered", "transfer.responded"}, t)
    IN  IF moves = {} THEN "created" ELSE log[LastOf(moves)].to

_ensure_no_participant_identifiable_object(t) == Contract[t].transferred_objects \cap Identifiable = {}

transfer_create(a, t) ==
    /\ _ensure_no_participant_identifiable_object(t)
    /\ Enter(a, <<"create", t>>, [op |-> "create", t |-> t])

RecordCreated(a) ==
    /\ At(a, "create") /\ ~Exists(call[a].t)
    /\ log' = Append(log, Event("transfer.created", call[a].t, "created"))
    /\ Goto(a, Idle) /\ UNCHANGED <<edges, responses, obligations, nodes>>

offer(a, t) ==
    /\ Exists(t) /\ <<_current_status(t), "offered">> \in TransferTransitions
    /\ Enter(a, <<"offer", t>>,
             [op |-> "move", t |-> t, type |-> "transfer.offered", to |-> "offered", copy |-> None,
              began |-> Len(log)])

\* The contract's signature is judged by the document the caller brings; an
\* adaptation names a stored object.
respond(a, t, decision, adapted) ==
    /\ Exists(t)
    /\ resolve_trusted_transfer_key(Contract[t], trusted[a], now) = None
    /\ <<_current_status(t), decision>> \in TransferTransitions
    /\ Enter(a, <<"respond", t, decision>>,
             IF decision = "adapted"
             THEN [op |-> "adapt", t |-> t, object |-> adapted, copy |-> trusted[a].version, began |-> Len(log)]
             ELSE [op |-> "move", t |-> t, type |-> "transfer.responded", to |-> decision,
                   copy |-> trusted[a].version, began |-> Len(log)])

\* The event is appended; nothing compares the status again.
RecordMove(a) ==
    /\ At(a, "move")
    /\ log' = Append(log, [Event(call[a].type, call[a].t, call[a].to) EXCEPT !.copy = call[a].copy, !.began = call[a].began])
    /\ Goto(a, Idle) /\ UNCHANGED <<edges, responses, obligations, nodes>>

\* The edges and the event, in one transaction.
record_edges(new, event) == edges' = edges \cup new /\ log' = Append(log, event)

\* An edge to every transferred object.
_respond_adapted(a) ==
    /\ At(a, "adapt")
    /\ record_edges({<<call[a].object, "adapted_from", o>> : o \in Contract[call[a].t].transferred_objects},
                    [Event("transfer.responded", call[a].t, "adapted") EXCEPT
                        !.copy = call[a].copy, !.began = call[a].began, !.object = call[a].object])
    /\ Goto(a, Idle) /\ UNCHANGED <<responses, obligations, nodes>>

-----------------------------------------------------------------------------
(* Obligations. *)

ObligationTransitions == {<<"open", "resolved">>, <<"open", "deferred">>}
_ACCEPTING_DECISIONS == {"accepted", "adapted"}

Latest(ob) == Last(obligations[ob].revisions)

\* Mutant of _latest_transfer_decision: the first answer counts.
_first_transfer_decision(t) ==
    LET answers == EventsOf({"transfer.responded"}, t)
    IN  IF answers = {} THEN [to |-> None, event |-> None]
        ELSE LET i == CHOOSE j \in answers : \A k \in answers : j <= k IN [to |-> log[i].to, event |-> i]

_latest_transfer_decision(t) ==
    LET answers == EventsOf({"transfer.responded"}, t)
    IN  IF answers = {} THEN [to |-> None, event |-> None]
        ELSE [to |-> log[LastOf(answers)].to, event |-> LastOf(answers)]
_materialized_obligation_ids_for(t) == {ob \in DOMAIN obligations : obligations[ob].transfer = t}

\* What a contract asks for: its stubs, and its caveats as one more duty.
Duties(t) == Contract[t].obligations \o (IF Contract[t].caveats THEN <<"retain_caveat">> ELSE <<>>)

\* The log is read for earlier obligations, then for the decision.
materialize_from_transfer(a, t) ==
    /\ Exists(t) /\ _materialized_obligation_ids_for(t) = {}
    /\ Enter(a, <<"materialize", t>>, [op |-> "decide", t |-> t, began |-> Len(log)])

ReadDecision(a) ==
    LET decision == _latest_transfer_decision(call[a].t)
    IN  /\ At(a, "decide")
        /\ decision.to \in _ACCEPTING_DECISIONS
        /\ Goto(a, IF Duties(call[a].t) = <<>> THEN Idle
                   ELSE [op |-> "materialize", t |-> call[a].t, began |-> call[a].began,
                         trigger |-> decision.event, todo |-> Duties(call[a].t)])
        /\ UNCHANGED storeVars

\* The obligation, its edges and its event, in one transaction.
bind_revision_with_edges(ob, objects, event) ==
    /\ edges' = edges \cup {<<o, "subject_to_obligation", ob>> : o \in objects}
    /\ log' = Append(log, event)

_build_obligation_body(a) ==
    [transfer |-> call[a].t, kind |-> Head(call[a].todo), trigger |-> call[a].trigger,
     began |-> call[a].began, created |-> Len(log) + 1,
     bound_objects |-> Contract[call[a].t].transferred_objects,
     revisions |-> <<[status |-> "open", evidence |-> FALSE, propagated |-> {}]>>]

\* One obligation per duty, each a transaction of its own.
_materialize_one(a) ==
    /\ At(a, "materialize") /\ call[a].todo # <<>>
    /\ obligations' = Append(obligations, _build_obligation_body(a))
    /\ bind_revision_with_edges(Len(obligations) + 1, Contract[call[a].t].transferred_objects,
                                Event("obligation.created", call[a].t, Head(call[a].todo)))
    /\ Goto(a, IF Len(call[a].todo) = 1 THEN Idle ELSE [call[a] EXCEPT !.todo = Tail(@)])
    /\ UNCHANGED <<responses, nodes>>

IMPACT_EDGE_TYPES == {"depends_on", "derived_from", "adapted_from", "uses_source",
                      "transferred_from", "projected_into"}
edges_to(id) == {e \in edges : e[3] = id}
SourcesOf(id) == {e[1] : e \in {f \in edges_to(id) : f[2] \in IMPACT_EDGE_TYPES}}

\* The reference: what lies in every set that holds what builds on a seed or on a member.
Downstream(seeds) ==
    LET Closed(S) == \A o \in seeds \cup S : SourcesOf(o) \subseteq S
    IN  {x \in Items : \A S \in SUBSET Items : Closed(S) => x \in S}

propagate(a, ob) ==
    /\ ob \in DOMAIN obligations
    /\ Enter(a, <<"propagate">>,
             [op |-> "gather", ob |-> ob, read |-> Len(obligations[ob].revisions),
              frontier |-> obligations[ob].bound_objects, visited |-> {}, found |-> {},
              downstream |-> Downstream(obligations[ob].bound_objects)])

\* Mutant of _gather_binding_edges: only the objects that were bound first are asked for.
_gather_once(a) ==
    \E o \in (IF At(a, "gather") THEN call[a].frontier ELSE {}) :
        /\ Goto(a, [call[a] EXCEPT !.frontier = @ \ {o}, !.visited = @ \cup {o}, !.found = @ \cup SourcesOf(o)])
        /\ UNCHANGED storeVars

\* One edges_to query per id, while others add edges.
_gather_binding_edges(a) ==
    \E o \in (IF At(a, "gather") THEN call[a].frontier ELSE {}) :
        /\ Goto(a, [call[a] EXCEPT !.frontier = (@ \ {o}) \cup (SourcesOf(o) \ (call[a].visited \cup {o})),
                                   !.visited = @ \cup {o}, !.found = @ \cup SourcesOf(o)])
        /\ UNCHANGED storeVars

Gathered(a) == At(a, "gather") /\ call[a].frontier = {}
BoundTo(ob) == {e[1] : e \in {f \in edges_to(ob) : f[2] = "subject_to_obligation"}}
Missing(a) == call[a].found \ BoundTo(call[a].ob)

Fresh(ob, read) == Len(obligations[ob].revisions) = read
NextRevision(ob, revision) == obligations' = [obligations EXCEPT ![ob].revisions = Append(@, revision)]

\* Nothing is written when every id found is bound already.
RecordPropagation(a) ==
    /\ Gathered(a)
    /\ LET ob == call[a].ob
           missing == Missing(a)
       IN  /\ missing = {} \/ Fresh(ob, call[a].read)
           /\ IF missing = {} THEN UNCHANGED storeVars
              ELSE /\ NextRevision(ob, [obligations[ob].revisions[call[a].read] EXCEPT !.propagated = call[a].found])
                   /\ bind_revision_with_edges(ob, missing, Event("obligation.propagated", ob, None))
                   /\ UNCHANGED <<responses, nodes>>
           /\ Goto(a, Idle)

\* resolve needs evidence; resolve and defer need an open obligation.
_transition(a, ob, to, evidence) ==
    /\ ob \in DOMAIN obligations
    /\ <<Latest(ob).status, to>> \in ObligationTransitions
    /\ Enter(a, <<to>>, [op |-> "transition", ob |-> ob, read |-> Len(obligations[ob].revisions),
                         row |-> [Latest(ob) EXCEPT !.status = to, !.evidence = evidence]])
resolve(a, ob, evidence) == evidence /\ _transition(a, ob, "resolved", evidence)
defer(a, ob) == _transition(a, ob, "deferred", FALSE)

RecordTransition(a) ==
    /\ At(a, "transition") /\ Fresh(call[a].ob, call[a].read)
    /\ NextRevision(call[a].ob, call[a].row)
    /\ log' = Append(log, Event("obligation.transition", call[a].ob, call[a].row.status))
    /\ Goto(a, Idle) /\ UNCHANGED <<edges, responses, nodes>>

\* A call whose conditions no longer hold raises and writes nothing.
Raise(a) ==
    /\ \/ At(a, "create") /\ Exists(call[a].t)
       \/ At(a, "register") /\ ~CanRegister(a)
       \/ At(a, "decide") /\ _latest_transfer_decision(call[a].t).to \notin _ACCEPTING_DECISIONS
       \/ At(a, "transition") /\ ~Fresh(call[a].ob, call[a].read)
       \/ Gathered(a) /\ Missing(a) # {} /\ ~Fresh(call[a].ob, call[a].read)
    /\ Goto(a, Idle) /\ UNCHANGED storeVars

-----------------------------------------------------------------------------
(* The practice's own answer to a correction another practice notified.     *)

ResponseDecisions == {"accept", "adapt", "reject", "defer"}
_REASON_REQUIRED_DECISIONS == {"reject", "defer"}

\* A reason for a refusal and only then, adaptations for an adaptation and only then.
_reason_required_iff_reject_or_defer(decision, reason) == reason <=> decision \in _REASON_REQUIRED_DECISIONS
_adaptations_required_iff_adapt(decision, adaptations) == adaptations # {} <=> decision = "adapt"

_adaptations_reference_notified_object_ids(n, adaptations) == \A pair \in adaptations : pair[2] \in Notified[n]

\* Mutant of already_responded: nobody remembers.
never_responded(n) == FALSE

\* The caller's predicate, over what is stored.
already_responded(n) == \E i \in DOMAIN responses : responses[i].notification = n

record_response(a, n, decision, reason, adaptations) ==
    /\ ~already_responded(n)
    /\ _reason_required_iff_reject_or_defer(decision, reason)
    /\ _adaptations_required_iff_adapt(decision, adaptations)
    /\ _adaptations_reference_notified_object_ids(n, adaptations)
    /\ Enter(a, <<"response", n>>,
             [op |-> "response", began |-> Len(log),
              notification |-> n, decision |-> decision, adaptations |-> adaptations])

\* The response has a fresh id: its first revision cannot conflict with another one.
RecordResponse(a) ==
    /\ At(a, "response")
    /\ responses' = Append(responses,
                          [notification |-> call[a].notification, decision |-> call[a].decision,
                           adaptations |-> call[a].adaptations, began |-> call[a].began, created |-> Len(log) + 1])
    /\ record_edges({<<pair[1], "corrects", pair[2]>> : pair \in call[a].adaptations},
                    Event("correction.response_recorded", call[a].notification, call[a].decision))
    /\ Goto(a, Idle) /\ UNCHANGED <<obligations, nodes>>

-----------------------------------------------------------------------------
\* Another service derives an object from a stored one.
AddDerivation(d) ==
    /\ <<d[1], "derived_from", d[2]>> \notin edges /\ Use(<<"derive">>)
    /\ edges' = edges \cup {<<d[1], "derived_from", d[2]>>}
    /\ UNCHANGED <<now, keyVars, log, responses, obligations, nodes, call, died>>

-----------------------------------------------------------------------------
Init ==
    /\ now = 0
    /\ practice = build_self_signed_practice(FirstKey)
    /\ trusted = [a \in Actors |-> build_self_signed_practice(FirstKey)]
    /\ revocations = [k \in Keys |-> None]
    /\ log = <<>> /\ edges = {} /\ responses = <<>> /\ obligations = <<>>
    /\ nodes = [n \in {m.node : m \in Manifests} |-> <<>>]
    /\ call = [a \in Actors |-> Idle]
    /\ died = {}
    /\ work \in Work

Next ==
    \/ Tick
    \/ \E k \in Keys : revoke(k) \/ record_revocation_core(k) \/ \E s \in Keys : rotate(k, s)
    \/ \E d \in Derivations : AddDerivation(d)
    \/ \E a \in Actors :
          \/ LoadPractice(a) \/ Crash(a) \/ Raise(a)
          \/ \E m \in Manifests : receive(a, m)
          \/ _record_manifest_rejected(a) \/ register(a)
          \/ \E t \in Transfers :
                \/ transfer_create(a, t) \/ offer(a, t) \/ materialize_from_transfer(a, t)
                \/ \E d \in Decisions, o \in Adaptations : respond(a, t, d, o)
          \/ RecordCreated(a) \/ RecordMove(a) \/ _respond_adapted(a)
          \/ ReadDecision(a) \/ _materialize_one(a)
          \/ \E ob \in DOMAIN obligations : propagate(a, ob) \/ resolve(a, ob, TRUE) \/ defer(a, ob)
          \/ \E n \in Notifications, d \in ResponseDecisions, reason \in BOOLEAN, pairs \in Adaptings :
                record_response(a, n, d, reason, pairs)
          \/ RecordResponse(a)
          \/ _gather_binding_edges(a) \/ RecordPropagation(a) \/ RecordTransition(a)

Spec == Init /\ [][Next]_vars

-----------------------------------------------------------------------------
(* Properties. *)

Document == [version : Nat, keys : [Keys -> [state : {"absent", "active", "rotated", "revoked"}, since : Nat]]]

\* Every variable stays within its type.
TypeOK ==
    /\ now \in Nat
    /\ practice \in Document /\ trusted \in [Actors -> Document]
    /\ \A k \in Keys : revocations[k] \in Nat \cup {None}
    /\ \A i \in DOMAIN log : log[i].copy \in Nat \cup {None}
    /\ \A e \in edges : e[1] \in Items /\ e[3] \in Items \cup DOMAIN obligations
    /\ \A ob \in DOMAIN obligations :
          /\ obligations[ob].transfer \in Transfers /\ obligations[ob].trigger \in DOMAIN log
          /\ \A i \in DOMAIN obligations[ob].revisions :
                obligations[ob].revisions[i] \in
                    [status : {"open", "resolved", "deferred"}, evidence : BOOLEAN, propagated : SUBSET Items]
    /\ died \subseteq Transfers \X Nat

\* TransferService.respond, CapabilityRegistry.receive: whatever was accepted under a
\* key that is rotated or revoked by now was accepted with an older practice document.
RevokedKeysStayRefused ==
    \A i \in DOMAIN log :
        LET e == log[i]
            k == IF e.type = "transfer.responded" THEN Contract[e.about].key ELSE e.to
        IN  e.type \in {"transfer.responded", "node_manifest.registered"} =>
                practice.keys[k].state = "active" \/ e.copy < practice.keys[k].since

\* PostgresKeyRevocationStore: once a revocation is reported, whether an object signed
\* at some instant counts as signed before it never changes.
AnnotationIsSettled ==
    [][\A k \in Keys, signed_at \in 0 .. now :
          get_revocation(k) # None =>
              trust_revoked_after_creation(signed_at, revocations'[k])
                  = trust_revoked_after_creation(signed_at, get_revocation(k))]_vars

\* CapabilityRegistry.register: the number a node signed into its manifest is the
\* revision it is stored under, however registrations race.
ManifestsInOrder == \A n \in DOMAIN nodes : \A i \in DOMAIN nodes[n] : nodes[n][i].revision = i

MovesOf(t) == EventsOf({"transfer.offered", "transfer.responded"}, t)

\* TransferService.respond: an answer follows the offer directly, unless the event
\* between them was appended while the answering call was running.
AnsweredOnceUnlessOverlapping ==
    \A t \in Transfers : \A i \in EventsOf({"transfer.responded"}, t) :
        LET earlier == {j \in MovesOf(t) : j < i}
        IN  earlier # {} /\ (log[LastOf(earlier)].to = "offered" \/ LastOf(earlier) > log[i].began)

\* TransferService._respond_adapted (MRR-FR-082): an adaptation is related to every
\* object of the transfer, whatever dies.
AdaptationKeepsRelations ==
    \A i \in DOMAIN log : log[i].type = "transfer.responded" /\ log[i].to = "adapted" =>
        \A o \in Contract[log[i].about].transferred_objects : <<log[i].object, "adapted_from", o>> \in edges

\* ObligationService.materialize_from_transfer: obligations rest on an accepting answer
\* that no other answer had replaced when the call began.
MaterializedOnTheLatestAnswer ==
    \A ob \in DOMAIN obligations :
        LET o == obligations[ob]
        IN  /\ log[o.trigger].to \in {"accepted", "adapted"}
            /\ \A i \in EventsOf({"transfer.responded"}, o.transfer) : ~(o.trigger < i /\ i <= o.began)

\* materialize_from_transfer is at most once per transfer for calls that do not overlap:
\* the later call had begun before the earlier one stored its first obligation.
MaterializedOnceUnlessOverlapping ==
    \A i, j \in DOMAIN obligations :
        i < j /\ obligations[i].transfer = obligations[j].transfer /\ obligations[i].began # obligations[j].began
            => obligations[j].began < obligations[i].created

DutiesOf(t, began) ==
    {obligations[ob].kind : ob \in {x \in DOMAIN obligations : obligations[x].transfer = t /\ obligations[x].began = began}}

\* materialize_from_transfer (MRR-FR-083): every stub and the caveats travel, unless the
\* call died between two of its transactions.
DutiesTravelUnlessDied ==
    \A ob \in DOMAIN obligations :
        LET t == obligations[ob].transfer
            began == obligations[ob].began
        IN  \/ <<t, began>> \in died
            \/ \E a \in Actors : At(a, "materialize") /\ call[a].t = t /\ call[a].began = began
            \/ DutiesOf(t, began) = ToSet(Duties(t))

\* ObligationService.propagate: a traversal that overlaps with new edges finds all that
\* built on the bound objects when it began, and nothing that does not build on them.
PropagationMissesNothing ==
    \A a \in Actors : Gathered(a) =>
        /\ call[a].downstream \subseteq call[a].found
        /\ call[a].found \subseteq Downstream(obligations[call[a].ob].bound_objects)

\* propagate against propagate: the propagated objects of an obligation only grow, and
\* each of them has its edge.
BindingNeverShrinks ==
    \A ob \in DOMAIN obligations :
        LET r == obligations[ob].revisions
        IN  /\ \A i \in 2 .. Len(r) : r[i - 1].propagated \subseteq r[i].propagated
            /\ Last(r).propagated \cup obligations[ob].bound_objects \subseteq BoundTo(ob)

\* resolve against defer against propagate: revisions follow the lifecycle, and an
\* obligation is resolved on evidence.
ObligationsFollowLifecycle ==
    \A ob \in DOMAIN obligations :
        LET r == obligations[ob].revisions
        IN  /\ \A i \in 2 .. Len(r) :
                  r[i - 1].status = r[i].status \/ <<r[i - 1].status, r[i].status>> \in {<<"open", "resolved">>, <<"open", "deferred">>}
            /\ Last(r).status = "resolved" <=> Last(r).evidence

\* CorrectionImpactService.record_response: one response per notification, for calls that
\* do not overlap: the later one had begun before the earlier one was stored.
RespondedOnceUnlessOverlapping ==
    \A i, j \in DOMAIN responses :
        i < j /\ responses[i].notification = responses[j].notification => responses[j].began < responses[i].created

\* record_response (MRR-FR-084): a local object corrects another only on a stored
\* response that adapts, to a notification that named it.
CorrectsWhatWasNotified ==
    \A e \in edges : e[2] = "corrects" =>
        \E i \in DOMAIN responses :
            responses[i].decision = "adapt" /\ <<e[1], e[3]>> \in responses[i].adaptations
                /\ e[3] \in Notified[responses[i].notification]

\* What is accepted was signed by a key that was trusted in the document the caller
\* brought, manifests are stored under the revision they were signed with, and the
\* mark of a revocation is settled with its first report.
TrustIsSettled == [][RevokedKeysStayRefused' /\ ManifestsInOrder']_vars /\ AnnotationIsSettled

\* A transfer's answer has its effects, on both sides: it follows the offer, an
\* adaptation is related to what was offered, and the duties that travel rest on the
\* answer in force, all of them and once, but for the deaths and overlapping calls the
\* parts name (respond, materialize_from_transfer).
AnswersHaveTheirEffects ==
    /\ TypeOK /\ AnsweredOnceUnlessOverlapping /\ AdaptationKeepsRelations
    /\ MaterializedOnTheLatestAnswer /\ MaterializedOnceUnlessOverlapping /\ DutiesTravelUnlessDied

\* An obligation reaches whatever builds on its objects, although edges are read one
\* id at a time while others are added, and keeps what it has reached through
\* propagations, resolutions and deferrals that race.
ObligationsReachDownstream == PropagationMissesNothing /\ BindingNeverShrinks /\ ObligationsFollowLifecycle

\* A notification is responded to once, but for overlapping calls, and corrects only
\* what it named (record_response).
CorrectionsAreAnswered == RespondedOnceUnlessOverlapping /\ CorrectsWhatWasNotified
=============================================================================
