---------------------------- MODULE EvidenceLoop ----------------------------
(* Runs of the evidence loop: a research score is brought to approval, a     *)
(* node registered, inputs stored, a task bundle created, offered and        *)
(* accepted, the task executed, its results persisted, the run manifest      *)
(* recorded and the evidence crate sealed. A run is one process that makes   *)
(* its calls in order and ends at the first that fails; operators use the    *)
(* same services beside it, and it may die between any two steps.            *)
EXTENDS MethodKernel

CONSTANTS
    Loops,       \* the runs
    Operators,   \* people and jobs that call the services meanwhile
    Node,        \* the node the runs execute on
    Touched,     \* the objects operators may touch
    Workloads,   \* the inputs of the runs and the bound on the operators' calls
    Attempts     \* execution attempts

VARIABLES
    plan,       \* run -> its inputs
    run,        \* run -> its state, the calls it has left to make, what it has read
    artifacts,  \* the content-addressed artifact store
    edges,      \* typed edges
    memo,       \* run -> attempt -> the executor's remembered result
    executing,  \* run -> the attempt its executor waits for
    threads,    \* run -> whether a timed out computation is still going on
    answers,    \* run -> what its executor has answered, by attempt
    calls       \* number of calls the operators may still make

vars == <<kernelVars, plan, run, artifacts, edges, memo, executing, threads, answers, calls>>
executorVars == <<memo, executing, threads, answers>>

NodeObject == <<Node, "node", None>>
Own(l, kind) == <<l, kind, None>>
Of(l, kind, i) == <<l, kind, i>>

Call(op, o, arg) == [op |-> op, o |-> o, arg |-> arg]
create(o) == Call("create", o, {})
move(o, to) == Call("move", o, to)
put(l, name) == Call("put", Own(l, "artifact"), <<l, name>>)
edge(o, type, target) == Call("edge", o, <<type, target>>)

Outcomes == {"completed", "failed", "timed_out", "cancelled", "policy_denied", "partial"}
Completed(outcome) == outcome = "completed"
HasOutput(outcome) == outcome \in {"completed", "partial"}

\* What a run is given: its kind, an attempt it may make, and for a synthesis the
\* protocol and the corpus. The ids that are made of it exist.
IsPlan(l, p) ==
    /\ p.kind \in {"local", "synthesis", "establish"}
    /\ p.attempt \in Int /\ (p.attempt >= 1 => p.attempt \in Attempts)
    /\ p.kind # "local" =>
          /\ p.protocol \in Objects /\ Kind(p.protocol) = "protocol"
          /\ p.entries \in Seq(ToSet(p.entries))
          /\ \A e \in ToSet(p.entries) :
                /\ {Of(l, kind, e.id) : kind \in {"source", "anchor"}} \subseteq Objects
                /\ {Of(l, kind, e.analysis) : kind \in {"claim", "ruling", "decision"}} \subseteq Objects

ASSUME EvidenceLoopConstants ==
    /\ Loops \cup Operators \subseteq Actors /\ Loops \cap Operators = {}
    /\ Attempts \subseteq Int /\ None \notin Outcomes
    /\ \A o \in Objects : Kind(o) \in DOMAIN InitialStatus
    /\ Touched \subseteq Objects /\ NodeObject \in Objects
    /\ \A l \in Loops :
          {Own(l, kind) : kind \in {"score", "profile", "question", "charter", "protocol",
                                   "bundle", "matrix", "manifest", "crate"}} \subseteq Objects
    /\ \A w \in Workloads : \A l \in Loops : w.plan[l] # None => IsPlan(l, w.plan[l])

-----------------------------------------------------------------------------
(* The calls of a run, up to the execution. *)

_build_research_score(l) == create(Own(l, "score"))
_add_approval_revision(l) == Call("revise", Own(l, "score"), {"approval"})

\* The score is drafted, submitted, given an approval and, unless approval is
\* withheld, approved and activated.
ScoreCalls(l) ==
    <<_build_research_score(l), move(Own(l, "score"), "IN_REVIEW"), _add_approval_revision(l)>>
        \o (IF plan[l].approve
            THEN <<move(Own(l, "score"), "APPROVED"), move(Own(l, "score"), "ACTIVE")>> ELSE <<>>)

\* The manifest a run registers is always a first revision.
_build_node_manifest == Call("register", NodeObject, 1)

\* A bundle declares its inputs.
_build_task_bundle(l) == Call("bundle", Own(l, "bundle"), {<<l, "input">>})
_build_synthesis_task_bundle(l) ==
    Call("bundle", Own(l, "bundle"),
         {<<l, "corpus">>, <<l, "parameters">>, <<l, "protocol">>}
            \cup (IF plan[l].variations = <<>> THEN {} ELSE {<<l, "variations">>}))

\* Offered by the origin, accepted by the node, executed.
NegotiationCalls(l) ==
    <<Call("advance", Own(l, "bundle"), "OFFERED"), Call("advance", Own(l, "bundle"), "ACCEPTED"),
      Call("execute", Own(l, "bundle"), None)>>

run_local_evidence_loop(l) ==
    ScoreCalls(l) \o <<_build_node_manifest, put(l, "input"), _build_task_bundle(l)>> \o NegotiationCalls(l)

\* The protocol is read once, and what was read goes to the executor as an input.
run_synthesis_evidence_loop(l) ==
    ScoreCalls(l)
        \o <<_build_node_manifest, Call("read protocol", plan[l].protocol, None),
             put(l, "corpus"), put(l, "parameters"), put(l, "protocol")>>
        \o (IF plan[l].variations = <<>> THEN <<>> ELSE <<put(l, "variations")>>)
        \o <<_build_synthesis_task_bundle(l)>> \o NegotiationCalls(l)

_build_method_profile(l) == create(Own(l, "profile"))
_build_question_model(l) == create(Own(l, "question"))
_build_concept_charter(l) == create(Own(l, "charter"))
_build_method_protocol(l) == create(Own(l, "protocol"))
_write_operationalizes_edge(l) == edge(Own(l, "charter"), "operationalizes", Own(l, "question"))

\* A profile is reused if it is accepted, or proposed and accepted for the run.
ProfileCalls(l) ==
    IF plan[l].profile # None THEN <<Call("require accepted", plan[l].profile, None)>>
    ELSE <<_build_method_profile(l), move(Own(l, "profile"), "accepted")>>

\* Question, charter and their edge; then the protocol up to its lock, whose hash
\* the parameters declare.
establish_and_run_synthesis(l) ==
    ProfileCalls(l)
        \o <<_build_question_model(l), move(Own(l, "question"), "accepted"),
             _build_concept_charter(l), move(Own(l, "charter"), "accepted"), _write_operationalizes_edge(l),
             _build_method_protocol(l), move(Own(l, "protocol"), "reviewed"), move(Own(l, "protocol"), "locked")>>
        \o run_synthesis_evidence_loop(l)

FirstCalls(l) ==
    CASE plan[l].kind = "local" -> run_local_evidence_loop(l)
      [] plan[l].kind = "synthesis" -> run_synthesis_evidence_loop(l)
      [] plan[l].kind = "establish" -> establish_and_run_synthesis(l)

-----------------------------------------------------------------------------
(* The calls of a run after the execution. *)

_write_governed_by_protocol_edge(l, o) == edge(o, "governed_by_protocol", plan[l].protocol)

\* Every included row has a source record; only a verified one has an anchor.
RowCalls(l, row) ==
    IF ~row.included THEN <<>>
    ELSE <<create(Of(l, "source", row.entry.id))>>
         \o (IF row.entry.status = "verified" THEN <<create(Of(l, "anchor", row.entry.id))>> ELSE <<>>)

MatrixCalls(l) ==
    <<create(Own(l, "matrix")), move(Own(l, "matrix"), "active"),
      _write_governed_by_protocol_edge(l, Own(l, "matrix"))>>

\* The anchors of the entries a claim names; an entry without one is passed over.
AnchorsOf(l, entries, rows) ==
    {Of(l, "anchor", rows[i].entry.id) :
        i \in {j \in DOMAIN rows : rows[j].entry.id \in entries /\ rows[j].entry.status = "verified"}}

\* Without enough evidence a decision is recorded instead of a claim. A supported
\* claim stays a draft; the others are moved to their status. The claim is ruled on.
AnalysisCalls(l, analysis, rows) ==
    LET a == analysis.analysis
        claim == Of(l, "claim", a)
        ruling == Of(l, "ruling", a)
    IN  IF analysis.outcome = "insufficient_evidence" THEN <<create(Of(l, "decision", a))>>
        ELSE <<Call("create", claim, AnchorsOf(l, analysis.supporting \cup analysis.contradicting, rows))>>
             \o (IF analysis.outcome = "supported" THEN <<>>
                 ELSE <<move(claim, "under_review"), move(claim, analysis.outcome)>>)
             \o <<create(ruling), move(ruling, "issued"), edge(claim, "ruled_by", ruling),
                  _write_governed_by_protocol_edge(l, claim)>>

Output(l) == _run_pipeline(plan[l].params, plan[l].variations, plan[l].entries, FALSE, {})

_persist_synthesis_output(l) ==
    LET output == Output(l)
        analyses == SetToSeq(output.analyses)
    IN  FlattenSeq([i \in DOMAIN output.rows |-> RowCalls(l, output.rows[i])])
        \o MatrixCalls(l)
        \o FlattenSeq([i \in DOMAIN analyses |-> AnalysisCalls(l, analyses[i], output.rows)])
        \o <<move(Own(l, "matrix"), "frozen")>>

\* A manifest takes its state from the result, and names the output's hash if any.
RunManifestRecorder_record(l, outcome) ==
    Call("create", Own(l, "manifest"), {outcome} \cup (IF HasOutput(outcome) THEN {"output"} ELSE {}))

\* A crate of anything but a completed run declares the failure.
EvidenceCrateSealer_seal(l, outcome) ==
    Call("seal", Own(l, "crate"), {outcome} \cup (IF HasOutput(outcome) THEN {"output"} ELSE {})
                                    \cup (IF Completed(outcome) THEN {} ELSE {"failure"}))

\* Mutant of RecordCalls: the output is stored after the crate.
RecordCallsOutputLast(l, outcome) ==
    <<RunManifestRecorder_record(l, outcome), EvidenceCrateSealer_seal(l, outcome), put(l, "output")>>

\* Manifest, output artifact, crate.
RecordCalls(l, outcome) ==
    <<RunManifestRecorder_record(l, outcome)>>
        \o (IF HasOutput(outcome) THEN <<put(l, "output")>> ELSE <<>>)
        \o <<EvidenceCrateSealer_seal(l, outcome)>>

LastCalls(l, outcome) ==
    IF plan[l].kind = "local" THEN RecordCalls(l, outcome)
    ELSE IF Completed(outcome)
    THEN _persist_synthesis_output(l) \o RecordCalls(l, outcome)
         \o <<_write_governed_by_protocol_edge(l, Own(l, "crate"))>>
    ELSE RecordCalls(l, outcome)

-----------------------------------------------------------------------------
(* Making the calls. *)

Ready(l) == run[l].state = "running" /\ run[l].script # <<>> /\ cmd[l] = None /\ executing[l] = None
NextCall(l) == Head(run[l].script)
Advance(l) == run' = [run EXCEPT ![l].script = Tail(@)]
End(l, state) == run' = [run EXCEPT ![l].state = state, ![l].script = <<>>]

\* The two gates of a bundle's creation, read before it is stored.
BundlePermitted(l) ==
    ensure_can_start_work(Own(l, "score")) /\ "capability" \in list_capabilities(NodeObject)

\* A crate is sealed for the manifest of its own execution.
CanSeal(l, c) ==
    /\ Exists(Own(l, "manifest"))
    /\ run[l].outcome \in Latest(Own(l, "manifest")).holds
    /\ plan[l].code_revision

\* Whether the service accepts the call, as far as it can tell from what it reads.
Allowed(l, c) ==
    CASE c.op = "move" -> /\ CanMove(c.o, c.arg, Transitions[Kind(c.o)])
                          /\ c.arg = "APPROVED" => "approval" \in Latest(c.o).holds
      [] c.op = "register" -> c.arg = Len(store[c.o]) + 1
      [] c.op = "bundle" -> BundlePermitted(l)
      [] c.op = "advance" -> Exists(c.o) /\ <<Latest(c.o).status, c.arg>> \in
                                {<<"CREATED", "OFFERED">>, <<"OFFERED", "ACCEPTED">>}
      [] c.op = "read protocol" -> Exists(c.o)
      [] c.op = "require accepted" -> Accepted(c.o)
      [] c.op = "seal" -> CanSeal(l, c)
      [] OTHER -> TRUE

\* A call that stores a revision: the read and the checks, then the write.
StoringCall(l, c) ==
    \/ c.op = "create" /\ Kind(c.o) \in {"claim", "manifest"} /\ Create(l, c.o, c.arg)
    \/ c.op = "create" /\ (\/ score_create(l, c.o) \/ profile_propose(l, c.o) \/ question_propose(l, c.o)
                           \/ charter_propose(l, c.o) \/ protocol_create(l, c.o) \/ matrix_create(l, c.o)
                           \/ ruling_create(l, c.o) \/ decision_create(l, c.o) \/ source_create(l, c.o)
                           \/ anchor_create(l, c.o))
    \/ c.op = "move" /\ (\/ score_transition(l, c.o, c.arg) \/ profile_transition(l, c.o, c.arg)
                         \/ question_transition(l, c.o, c.arg) \/ charter_transition(l, c.o, c.arg)
                         \/ matrix_transition(l, c.o, c.arg) \/ ruling_transition(l, c.o, c.arg)
                         \/ c.arg = "reviewed" /\ protocol_submit_for_review(l, c.o)
                         \/ c.arg = "locked" /\ protocol_lock(l, c.o)
                         \/ Kind(c.o) = "claim" /\ Move(l, c.o, c.arg, ClaimTransitions, Latest(c.o).holds))
    \/ c.op = "revise" /\ score_revise(l, c.o, c.arg)
    \/ c.op = "register" /\ register(l, c.o, c.arg, {"capability"})
    \/ c.op \in {"bundle", "seal"} /\ Create(l, c.o, c.arg)
    \/ c.op = "advance" /\ Begin(l, c.o, Len(store[c.o]), Revision(c.arg, {}, l))

BeginCall(l) ==
    /\ Ready(l) /\ Allowed(l, NextCall(l))
    /\ StoringCall(l, NextCall(l))
    /\ UNCHANGED <<plan, run, artifacts, edges, executorVars, calls>>

CallStored(l) ==
    /\ Store(l) /\ Advance(l)
    /\ UNCHANGED <<plan, artifacts, edges, executorVars, calls>>

CallRefused(l) ==
    /\ Refuse(l) /\ End(l, "aborted")
    /\ UNCHANGED <<plan, artifacts, edges, executorVars, calls>>

CallFails(l) ==
    /\ Ready(l) /\ ~Allowed(l, NextCall(l))
    /\ End(l, "aborted")
    /\ UNCHANGED <<kernelVars, plan, artifacts, edges, executorVars, calls>>

PutArtifact(l) ==
    /\ Ready(l) /\ NextCall(l).op = "put"
    /\ artifacts' = artifacts \cup {NextCall(l).arg} /\ Advance(l)
    /\ UNCHANGED <<kernelVars, plan, edges, executorVars, calls>>

WriteEdge(l) ==
    /\ Ready(l) /\ NextCall(l).op = "edge"
    /\ edges' = edges \cup {<<NextCall(l).o>> \o NextCall(l).arg} /\ Advance(l)
    /\ UNCHANGED <<kernelVars, plan, artifacts, executorVars, calls>>

\* What the run reads of the protocol, and of a profile it is to reuse.
ReadProtocol(l) ==
    /\ Ready(l) /\ NextCall(l).op \in {"read protocol", "require accepted"}
    /\ Allowed(l, NextCall(l))
    /\ IF NextCall(l).op = "read protocol"
       THEN run' = [run EXCEPT ![l].script = Tail(@),
                               ![l].protocol = [status |-> Latest(NextCall(l).o).status,
                                                hash |-> Len(store[NextCall(l).o]),
                                                variations |-> plan[l].declared]]
       ELSE Advance(l)
    /\ UNCHANGED <<kernelVars, plan, artifacts, edges, executorVars, calls>>

\* A run returns when its last call has.
Return(l) ==
    /\ run[l].state = "running" /\ run[l].script = <<>>
    /\ End(l, "returned")
    /\ UNCHANGED <<kernelVars, plan, artifacts, edges, executorVars, calls>>

-----------------------------------------------------------------------------
(* The executor. *)

\* The result is remembered, and answered.
Answer(l, k, outcome) ==
    /\ memo' = [memo EXCEPT ![l][k] = outcome]
    /\ answers' = [answers EXCEPT ![l] = @ \cup {<<k, outcome>>}]

\* The checks made before anything runs. The synthesis needs all its inputs; the
\* reference transform runs on what there is.
Denied(l, permitted, cancelled, missing) ==
    CASE ~permitted -> "policy_denied"
      [] permitted /\ cancelled -> "cancelled"
      [] permitted /\ ~cancelled /\ missing /\ plan[l].kind # "local" -> "failed"
      [] OTHER -> None

execute(l, k, permitted, cancelled, missing) ==
    LET denied == Denied(l, permitted, cancelled, missing)
    IN  IF memo[l][k] # None
        THEN Answer(l, k, memo[l][k]) /\ UNCHANGED <<executing, threads>>
        ELSE IF denied # None THEN Answer(l, k, denied) /\ UNCHANGED <<executing, threads>>
        ELSE /\ executing' = [executing EXCEPT ![l] = [attempt |-> k, missing |-> missing]]
             /\ UNCHANGED <<memo, threads, answers>>

\* The run's own execution. An attempt below 1 is refused; a capability no executor
\* was built for is refused by the dispatch table.
ExecuteTask(l) ==
    /\ Ready(l) /\ NextCall(l).op = "execute"
    /\ plan[l].attempt \in Attempts => memo[l][plan[l].attempt] = None
    /\ IF plan[l].attempt < 1 \/ ~plan[l].dispatched
       THEN End(l, "aborted") /\ UNCHANGED executorVars
       ELSE /\ \E permitted, cancelled \in BOOLEAN :
                    execute(l, plan[l].attempt, permitted, cancelled, plan[l].missing)
            /\ UNCHANGED run
    /\ UNCHANGED <<kernelVars, plan, artifacts, edges, calls>>

\* The same executor asked again for the accepted task, once the run is over.
Reexecute(l, k) ==
    /\ run[l].state \in {"returned", "aborted"} /\ run[l].outcome # None
    /\ executing[l] = None /\ k >= 1
    /\ \E permitted, cancelled, missing \in BOOLEAN : execute(l, k, permitted, cancelled, missing)
    /\ UNCHANGED <<kernelVars, plan, run, artifacts, edges, calls>>

\* The computation ends inside the bound: the pipeline's checks decide.
FutureResult(l) ==
    IF plan[l].kind = "local" THEN {IF executing[l].missing THEN "partial" ELSE "completed", "failed"}
    ELSE {IF PipelineOK(run[l].protocol, plan[l].params, plan[l].variations, plan[l].entries)
          THEN "completed" ELSE "failed"}

FutureDone(l) ==
    /\ executing[l] # None
    /\ \E outcome \in FutureResult(l) : Answer(l, executing[l].attempt, outcome)
    /\ executing' = [executing EXCEPT ![l] = None]
    /\ UNCHANGED <<kernelVars, plan, run, artifacts, edges, threads, calls>>

\* Mutant of FutureTimeout: the result is awaited without a bound.
FutureTimeoutNever(l) == FALSE

\* The wait ends at the bound; the thread cannot be stopped and its result goes
\* nowhere.
FutureTimeout(l) ==
    /\ executing[l] # None
    /\ Answer(l, executing[l].attempt, "timed_out")
    /\ executing' = [executing EXCEPT ![l] = None]
    /\ threads' = [threads EXCEPT ![l] = TRUE]
    /\ UNCHANGED <<kernelVars, plan, run, artifacts, edges, calls>>

AbandonedThreadEnds(l) ==
    /\ threads[l]
    /\ threads' = [threads EXCEPT ![l] = FALSE]
    /\ UNCHANGED <<kernelVars, plan, run, artifacts, edges, memo, executing, answers, calls>>

\* The run takes the answer and goes on with what it calls for.
TakeResult(l) ==
    /\ Ready(l) /\ NextCall(l).op = "execute"
    /\ plan[l].attempt >= 1 /\ memo[l][plan[l].attempt] # None
    /\ LET outcome == memo[l][plan[l].attempt]
       IN  run' = [run EXCEPT ![l].outcome = outcome, ![l].script = LastCalls(l, outcome)]
    /\ UNCHANGED <<kernelVars, plan, artifacts, edges, executorVars, calls>>

-----------------------------------------------------------------------------
(* Starting, dying, and the operators. *)

NoMemory == [k \in Attempts |-> None]

\* A command that cannot reach its database or its directory ends there; otherwise
\* the run begins.
StartRun(l) ==
    /\ run[l].state = "idle" /\ plan[l] # None
    /\ \/ run' = [run EXCEPT ![l].state = "running", ![l].script = FirstCalls(l)]
       \/ run' = [run EXCEPT ![l].state = "unavailable"]
    /\ UNCHANGED <<kernelVars, plan, artifacts, edges, executorVars, calls>>
_run_command(l) == StartRun(l) /\ plan[l].kind = "local"
synthesis_run_command(l) == StartRun(l) /\ plan[l].kind # "local"

\* The process dies: what it was about to store and what its executor remembered
\* are gone.
Crash(l) ==
    /\ run[l].state = "running"
    /\ run' = [run EXCEPT ![l].state = "dead", ![l].script = <<>>, ![l].outcome = None]
    /\ cmd' = [cmd EXCEPT ![l] = None]
    /\ memo' = [memo EXCEPT ![l] = NoMemory]
    /\ executing' = [executing EXCEPT ![l] = None]
    /\ threads' = [threads EXCEPT ![l] = FALSE]
    /\ answers' = [answers EXCEPT ![l] = {}]
    /\ UNCHANGED <<store, expired, lookup, plan, artifacts, edges, calls>>

OperatorCall ==
    /\ calls > 0 /\ calls' = calls - 1
    /\ \/ \E a \in Operators, o \in Touched : KernelCall(a, o)
       \/ \E a \in Lookers : find_accepted_by_capability(a)
    /\ UNCHANGED <<plan, run, artifacts, edges, executorVars>>

OperatorStep ==
    /\ \/ \E a \in Operators : Store(a) \/ Refuse(a)
       \/ \E a \in Lookers : KernelLookup(a)
    /\ UNCHANGED <<plan, run, artifacts, edges, executorVars, calls>>

ManifestExpires ==
    /\ Expire
    /\ UNCHANGED <<plan, run, artifacts, edges, executorVars, calls>>

-----------------------------------------------------------------------------

Init ==
    /\ KernelInit
    /\ \E w \in Workloads : plan = w.plan /\ calls = w.calls
    /\ run = [l \in Loops |-> [state |-> "idle", script |-> <<>>, outcome |-> None, protocol |-> None]]
    /\ artifacts = {} /\ edges = {}
    /\ memo = [l \in Loops |-> NoMemory]
    /\ executing = [l \in Loops |-> None]
    /\ threads = [l \in Loops |-> FALSE]
    /\ answers = [l \in Loops |-> {}]

\* A run's own steps, the bounded wait for its executor included.
RunStep(l) ==
    \/ BeginCall(l) \/ CallStored(l) \/ CallRefused(l) \/ CallFails(l)
    \/ PutArtifact(l) \/ WriteEdge(l) \/ ReadProtocol(l) \/ Return(l)
    \/ ExecuteTask(l) \/ FutureTimeout(l) \/ TakeResult(l)

Next ==
    \/ \E l \in Loops :
        \/ _run_command(l) \/ synthesis_run_command(l) \/ RunStep(l) \/ FutureDone(l) \/ AbandonedThreadEnds(l) \/ Crash(l)
        \/ \E k \in Attempts : Reexecute(l, k)
    \/ OperatorCall \/ OperatorStep
    \/ ManifestExpires

\* A run that has begun goes on. Nothing is assumed of the computation itself.
Spec == Init /\ [][Next]_vars /\ \A l \in Loops : WF_vars(RunStep(l))

-----------------------------------------------------------------------------
(* Properties *)

\* Revisions, runs and remembered results have the shape the code gives them.
TypeOK ==
    /\ \A o \in Objects : \A i \in DOMAIN store[o] :
            store[o][i].by \in Actors /\ (i = 1 => store[o][i].status = InitialStatus[Kind(o)])
    /\ \A a \in Actors : cmd[a] # None => cmd[a].o \in Objects /\ cmd[a].read \in Nat
    /\ \A l \in Loops : /\ run[l].state \in {"idle", "running", "returned", "aborted", "dead", "unavailable"}
                        /\ \A k \in Attempts : memo[l][k] \in Outcomes \cup {None}

Sealed(l) == Exists(Own(l, "crate"))
OutcomeOf(l) == CHOOSE outcome \in Outcomes : outcome \in Latest(Own(l, "crate")).holds

\* A sealed crate stands on a recorded manifest of the same outcome, and every
\* artifact it refers to is stored, wherever the run died (EvidenceCrateSealer.seal
\* and the order of run_local_evidence_loop).
CrateIsBacked ==
    \A l \in Loops : Sealed(l) =>
        /\ Exists(Own(l, "manifest")) /\ OutcomeOf(l) \in Latest(Own(l, "manifest")).holds
        /\ Exists(Own(l, "bundle")) /\ Latest(Own(l, "bundle")).status = "ACCEPTED"
        /\ store[Own(l, "bundle")][1].holds \subseteq artifacts
        /\ "output" \in Latest(Own(l, "crate")).holds => <<l, "output">> \in artifacts
        /\ OutcomeOf(l) = "completed" <=> "failure" \notin Latest(Own(l, "crate")).holds

\* The crate of a completed synthesis names objects that are all there: each
\* analysis has its decision or its claim, the claim's anchors, its issued ruling
\* and both edges, and the matrix is frozen.
CrateIsComplete ==
    \A l \in Loops : Sealed(l) /\ plan[l].kind # "local" /\ OutcomeOf(l) = "completed" =>
        /\ Exists(Own(l, "matrix")) /\ Latest(Own(l, "matrix")).status = "frozen"
        /\ \A analysis \in Output(l).analyses :
            LET a == analysis.analysis
                claim == Of(l, "claim", a)
            IN  IF analysis.outcome = "insufficient_evidence"
                THEN Exists(Of(l, "decision", a)) /\ ~Exists(claim)
                ELSE /\ Exists(claim) /\ \A anchor \in Latest(claim).holds : Exists(anchor)
                     /\ Exists(Of(l, "ruling", a)) /\ Latest(Of(l, "ruling", a)).status = "issued"
                     /\ <<claim, "ruled_by", Of(l, "ruling", a)>> \in edges
                     /\ <<claim, "governed_by_protocol", plan[l].protocol>> \in edges

\* A run that did not complete asserts nothing: no claim, ruling or matrix of it is
\* ever stored.
OnlyCompletedRunsAssert ==
    \A l \in Loops : run[l].outcome \notin {None, "completed"} =>
        \A o \in Objects : o[1] = l /\ Kind(o) \in {"claim", "ruling", "matrix", "decision"} => ~Exists(o)

\* What a synthesis asserts was computed under a protocol that was locked before, in
\* the very revision the parameters declare (_check_protocol_lock).
AssertedUnderTheLock ==
    \A l \in Loops : Exists(Own(l, "matrix")) =>
        \E i \in DOMAIN store[plan[l].protocol] :
            store[plan[l].protocol][i].status = "locked" /\ i = plan[l].params.lock

\* No bundle is created for a score that was never approved.
BundleNeedsApproval ==
    \A l \in Loops : Exists(Own(l, "bundle")) =>
        \E i \in DOMAIN store[Own(l, "score")] : store[Own(l, "score")][i].status = "APPROVED"

\* The executor never gives two answers for one attempt, whatever its gates say the
\* second time and whether or not a timed out computation ends meanwhile.
OneAnswerPerAttempt ==
    \A l \in Loops : \A x, y \in answers[l] : x[1] = y[1] => x[2] = y[2]

\* A run ends, though its computation may never: the wait for it is bounded.
EveryRunEnds == \A l \in Loops : run[l].state = "running" ~> run[l].state # "running"

\* What a run leaves behind is backed, wherever it ended: a sealed crate by all it
\* names, and nothing is asserted by a run that did not complete.
RunsAreBacked == TypeOK /\ CrateIsBacked /\ CrateIsComplete /\ OnlyCompletedRunsAssert

\* Approvals, locks and acceptances hold at the point where they are relied on,
\* although operators revise, suspend and freeze between the check and the use:
\* revisions follow their lifecycles, scores are approved on an approval, bundles are
\* created for approved scores, assertions made under the declared lock, and lookups
\* miss no accepted profile.
WorkIsAuthorized ==
    /\ RevisionsFollowLifecycle /\ ApprovedOnAnApproval /\ BundleNeedsApproval
    /\ AssertedUnderTheLock /\ LookupMissesNothing

\* A run ends with one answer per attempt, even when the computation outlives the
\* bound or the executor is asked again (execute, its memo and its timeout).
RunsEndWithOneAnswer == []OneAnswerPerAttempt /\ EveryRunEnds
=============================================================================
