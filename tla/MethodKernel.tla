---------------------------- MODULE MethodKernel ----------------------------
(* The control plane's governed objects: research scores, node manifests,    *)
(* method profiles, question models, concept charters, method protocols,     *)
(* evidence matrices, method rulings and research decisions. Every service   *)
(* works the same way: it reads the latest revision, checks the lifecycle of *)
(* its kind, and stores the next revision if no other has been stored since. *)
(* An object is a triple <<owner, kind, index>>; a revision keeps its status,*)
(* who stored it and the parts of its body the services look at.             *)
EXTENDS Integers, Sequences, FiniteSets, SynthesisPipeline

CONSTANTS
    Actors,       \* the processes that call the services
    Objects,      \* the ids they may use
    Lookers       \* processes that look accepted profiles up

VARIABLES
    store,    \* object -> its stored revisions, in order
    cmd,      \* actor -> the revision it is about to store, or None
    expired,  \* whether the validity window of the node manifests has passed
    lookup    \* looker -> its pass over the accepted profiles, or None

kernelVars == <<store, cmd, expired, lookup>>

Kind(o) == o[2]
Revision(status, holds, actor) == [status |-> status, holds |-> holds, by |-> actor]

-----------------------------------------------------------------------------
(* Lifecycles. *)

ResearchScoreTransitions ==
    {<<"DRAFT", "IN_REVIEW">>, <<"IN_REVIEW", "APPROVED">>, <<"IN_REVIEW", "REJECTED">>,
     <<"APPROVED", "ACTIVE">>, <<"APPROVED", "SUSPENDED">>,
     <<"ACTIVE", "SUPERSEDED">>, <<"SUPERSEDED", "ARCHIVED">>}
MethodProfileTransitions == {<<"draft", "accepted">>, <<"accepted", "superseded">>}
QuestionModelTransitions == {<<"draft", "accepted">>, <<"accepted", "superseded">>}
ConceptCharterTransitions == {<<"draft", "accepted">>, <<"accepted", "superseded">>}
MethodProtocolTransitions ==
    {<<"draft", "reviewed">>, <<"reviewed", "locked">>, <<"locked", "amended">>,
     <<"locked", "executed">>, <<"amended", "reviewed">>}
EvidenceMatrixTransitions == {<<"draft", "active">>, <<"active", "frozen">>, <<"frozen", "superseded">>}
MethodRulingTransitions == {<<"pending", "issued">>, <<"issued", "superseded">>}

\* Claims have a module of their own; here they only go as far as a run takes them.
ClaimTransitions ==
    {<<"draft", "under_review">>, <<"under_review", "contested">>, <<"under_review", "unsupported">>}

Transitions ==
    [score |-> ResearchScoreTransitions, profile |-> MethodProfileTransitions,
     question |-> QuestionModelTransitions, charter |-> ConceptCharterTransitions,
     protocol |-> MethodProtocolTransitions, matrix |-> EvidenceMatrixTransitions,
     ruling |-> MethodRulingTransitions, claim |-> ClaimTransitions]

InitialStatus ==
    [score |-> "DRAFT", profile |-> "draft", question |-> "draft", charter |-> "draft",
     protocol |-> "draft", matrix |-> "draft", ruling |-> "pending", decision |-> "issued",
     claim |-> "draft", node |-> "registered", bundle |-> "CREATED", source |-> "recorded",
     anchor |-> "recorded", manifest |-> "sealed", crate |-> "sealed"]

-----------------------------------------------------------------------------
(* Reading and storing. *)

Exists(o) == store[o] # <<>>
Latest(o) == store[o][Len(store[o])]

\* A call has read revision `read` and is about to store `row` after it.
Begin(a, o, read, row) ==
    /\ cmd[a] = None
    /\ cmd' = [cmd EXCEPT ![a] = [o |-> o, read |-> read, row |-> row]]
    /\ UNCHANGED <<store, expired, lookup>>

\* The first revision expects that there is none.
Create(a, o, holds) == Begin(a, o, 0, Revision(InitialStatus[Kind(o)], holds, a))

\* A transition the lifecycle allows keeps the rest of the body.
CanMove(o, to, lifecycle) == Exists(o) /\ <<Latest(o).status, to>> \in lifecycle
Move(a, o, to, lifecycle, holds) ==
    /\ CanMove(o, to, lifecycle)
    /\ Begin(a, o, Len(store[o]), Revision(to, holds, a))

\* The stored revision is the next one, or the call fails on a stale read.
Fresh(a) == Len(store[cmd[a].o]) = cmd[a].read
Store(a) ==
    /\ cmd[a] # None /\ Fresh(a)
    /\ store' = [store EXCEPT ![cmd[a].o] = Append(@, cmd[a].row)]
    /\ cmd' = [cmd EXCEPT ![a] = None]
    /\ UNCHANGED <<expired, lookup>>

Refuse(a) ==
    /\ cmd[a] # None /\ ~Fresh(a)
    /\ cmd' = [cmd EXCEPT ![a] = None]
    /\ UNCHANGED <<store, expired, lookup>>

-----------------------------------------------------------------------------
(* Research scores. *)

score_create(a, o) == Kind(o) = "score" /\ Create(a, o, {})

\* A revision keeps the status; its body, approvals included, is the caller's.
score_revise(a, o, holds) ==
    /\ Kind(o) = "score" /\ Exists(o)
    /\ Begin(a, o, Len(store[o]), Revision(Latest(o).status, holds, a))

\* Approval needs an approval in the revision that was read.
score_transition(a, o, to) ==
    /\ Kind(o) = "score"
    /\ CanMove(o, to, ResearchScoreTransitions)
    /\ to = "APPROVED" => "approval" \in Latest(o).holds
    /\ Move(a, o, to, ResearchScoreTransitions, Latest(o).holds)

\* The lifecycle methods, one per target status.
ScoreTargets == {"IN_REVIEW", "APPROVED", "REJECTED", "ACTIVE", "SUSPENDED", "SUPERSEDED", "ARCHIVED"}

ensure_can_start_work(o) == Exists(o) /\ Latest(o).status \in {"APPROVED", "ACTIVE"}

-----------------------------------------------------------------------------
(* The capability registry: a manifest is a revision of its node. *)

\* The manifest carries its own revision number, which must be the next one.
register(a, o, revision, holds) ==
    /\ Kind(o) = "node"
    /\ revision = Len(store[o]) + 1
    /\ Begin(a, o, Len(store[o]), Revision("registered", holds, a))

\* The latest manifest, inside its validity window.
get_current_manifest(o) == Exists(o) /\ ~expired
list_capabilities(o) == IF get_current_manifest(o) THEN Latest(o).holds ELSE {}

Expire == ~expired /\ expired' = TRUE /\ UNCHANGED <<store, cmd, lookup>>

-----------------------------------------------------------------------------
(* The method kernel's services. *)

profile_propose(a, o) == Kind(o) = "profile" /\ Create(a, o, {"capability"})
profile_transition(a, o, to) ==
    Kind(o) = "profile" /\ Move(a, o, to, MethodProfileTransitions, Latest(o).holds)
profile_accept(a, o) == profile_transition(a, o, "accepted")
profile_supersede(a, o) == profile_transition(a, o, "superseded")

question_propose(a, o) == Kind(o) = "question" /\ Create(a, o, {})
question_transition(a, o, to) ==
    Kind(o) = "question" /\ Move(a, o, to, QuestionModelTransitions, Latest(o).holds)

charter_propose(a, o) == Kind(o) = "charter" /\ Create(a, o, {})
charter_transition(a, o, to) ==
    Kind(o) = "charter" /\ Move(a, o, to, ConceptCharterTransitions, Latest(o).holds)

protocol_create(a, o) == Kind(o) = "protocol" /\ Create(a, o, {})
protocol_submit_for_review(a, o) ==
    Kind(o) = "protocol" /\ Move(a, o, "reviewed", MethodProtocolTransitions, Latest(o).holds)
\* The lock is recorded in the body, with its author.
protocol_lock(a, o) ==
    Kind(o) = "protocol" /\ Move(a, o, "locked", MethodProtocolTransitions, Latest(o).holds \cup {"lock"})

matrix_create(a, o) == Kind(o) = "matrix" /\ Create(a, o, {})
matrix_transition(a, o, to) ==
    Kind(o) = "matrix" /\ Move(a, o, to, EvidenceMatrixTransitions, Latest(o).holds)
matrix_freeze(a, o) == matrix_transition(a, o, "frozen")

ruling_create(a, o) == Kind(o) = "ruling" /\ Create(a, o, {})
ruling_transition(a, o, to) ==
    Kind(o) = "ruling" /\ Move(a, o, to, MethodRulingTransitions, Latest(o).holds)

decision_create(a, o) == Kind(o) = "decision" /\ Create(a, o, {})
source_create(a, o) == Kind(o) = "source" /\ Create(a, o, {})
anchor_create(a, o) == Kind(o) = "anchor" /\ Create(a, o, {})

-----------------------------------------------------------------------------
(* Looking accepted profiles up: the log names every profile that was ever   *)
(* accepted, and the latest revision of each is read one at a time.          *)

EverAccepted == {o \in Objects : Kind(o) = "profile" /\ \E i \in DOMAIN store[o] : store[o][i].status = "accepted"}
Accepted(o) == Exists(o) /\ Latest(o).status = "accepted" /\ "capability" \in Latest(o).holds

find_accepted_by_capability(a) ==
    /\ lookup[a] = None
    /\ lookup' = [lookup EXCEPT ![a] = [todo |-> EverAccepted, found |-> {},
                                        began |-> {o \in Objects : Kind(o) = "profile" /\ Accepted(o)}]]
    /\ UNCHANGED <<store, cmd, expired>>

ReadProfile(a) ==
    /\ lookup[a] # None
    /\ \E o \in lookup[a].todo :
        lookup' = [lookup EXCEPT ![a].todo = @ \ {o}, ![a].found = @ \cup {p \in {o} : Accepted(p)}]
    /\ UNCHANGED <<store, cmd, expired>>

ReturnProfiles(a) ==
    /\ lookup[a] # None /\ lookup[a].todo = {}
    /\ lookup' = [lookup EXCEPT ![a] = None]
    /\ UNCHANGED <<store, cmd, expired>>

-----------------------------------------------------------------------------

KernelInit ==
    /\ store = [o \in Objects |-> <<>>]
    /\ cmd = [a \in Actors |-> None]
    /\ expired = FALSE
    /\ lookup = [a \in Lookers |-> None]

\* What an operator may call beside the runs.
KernelCall(a, o) ==
    \/ \E to \in ScoreTargets : score_transition(a, o, to)
    \/ \E holds \in SUBSET {"approval"} : score_revise(a, o, holds)
    \/ \E holds \in SUBSET {"capability"} : register(a, o, Len(store[o]) + 1, holds)
    \/ profile_propose(a, o) \/ profile_accept(a, o) \/ profile_supersede(a, o)
    \/ protocol_submit_for_review(a, o) \/ protocol_lock(a, o)
    \/ matrix_freeze(a, o)

KernelLookup(a) == ReadProfile(a) \/ ReturnProfiles(a)

-----------------------------------------------------------------------------
(* Properties *)

\* Every stored revision follows from the one before it by a transition of its
\* kind's lifecycle; only scores and manifests may repeat a status, by revise and
\* register. Two services that read the same revision cannot both store.
RevisionsFollowLifecycle ==
    \A o \in {x \in Objects : Kind(x) # "bundle"} : \A i \in 2 .. Len(store[o]) :
        LET from == store[o][i - 1].status
            to == store[o][i].status
        IN  \/ Kind(o) \in {"score", "node"} /\ from = to
            \/ Kind(o) \in DOMAIN Transitions /\ <<from, to>> \in Transitions[Kind(o)]

\* A score is approved on a revision that carries an approval: no revise slips in
\* between the approval's check and its revision.
ApprovedOnAnApproval ==
    \A o \in Objects : Kind(o) = "score" =>
        \A i \in 2 .. Len(store[o]) :
            store[o][i].status = "APPROVED" /\ store[o][i - 1].status = "IN_REVIEW"
                => "approval" \in store[o][i - 1].holds

\* A lookup that is about to return misses no profile that was accepted when it
\* began and still is, and returns none that never was accepted.
LookupMissesNothing ==
    \A a \in Lookers : lookup[a] # None /\ lookup[a].todo = {} =>
        /\ {o \in lookup[a].began : Accepted(o)} \subseteq lookup[a].found
        /\ lookup[a].found \subseteq EverAccepted
=============================================================================
