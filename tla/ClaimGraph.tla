----------------------------- MODULE ClaimGraph -----------------------------
(***************************************************************************)
(* The claim and evidence graph (mrr.services.claim.service) with the two   *)
(* services that act on it from the outside: verification results           *)
(* (mrr.services.verification.service) and the impact analysis of a         *)
(* correction, local or received from another practice                      *)
(* (mrr.services.correction.service).                                       *)
(*                                                                         *)
(* A claim is unsigned, so every lifecycle transition is a new revision,    *)
(* written under optimistic concurrency control in one transaction with its *)
(* event; an edge is written in one transaction with its event and never    *)
(* removed.  A revision therefore carries its event here.  A command runs   *)
(* in a worker as a sequence of separate reads and writes, between any two  *)
(* of which the other workers move, and a worker may crash.                 *)
(***************************************************************************)
EXTENDS Naturals, Sequences, FiniteSets

CONSTANTS
    Workers,        \* sessions that run a command
    Claims,         \* ids of claims
    Causal,         \* the claims whose claim_type is "causal"
    Others,         \* ids of stored objects of other kinds
    Rulings,        \* method rulings: [ruled, profile], the two ceilings of the chain
    Decisions,      \* research decisions
    KillBranch,     \* the decisions whose decision_type is "kill_branch"
    Reviewers,      \* who may sign a verification
    Proposer,       \* the reviewer who proposed the claims
    Executor,       \* the reviewer whose run produced them
    Seeds,          \* affected_objects of the correction, notified_object_ids
    Workloads,      \* bound: what callers ask for, and how often
    None            \* no such thing

VARIABLES
    rev,            \* per claim: its revisions, oldest first
    edges,          \* the typed edges
    verifications,  \* the verification results recorded
    impact,         \* the correction's revisions: the impact_objects of each
    cmd,            \* per worker: the command it is running
    reviewed,       \* history: claims downstream of Seeds when a propagation
                    \* that has since returned began
    driven,         \* history: claims whose failed verification has returned
                    \* having driven the claim's status
    load            \* the workload of this behaviour

vars == <<rev, edges, verifications, impact, cmd, reviewed, driven, load>>

\* The bounds a workload sets.
Procedures == load.procedures          \* the operations that are run
Targets == load.targets                \* the statuses that are asked for
EdgeTypes == load.edge_types           \* the edge types that are asked for
EdgeTargets == load.ends               \* what the edges point to
Created == load.claims                 \* the claims that are created
MaxRevision == load.revisions          \* revisions of one claim
MaxEdges == load.edges                 \* edges in the graph
MaxVerifications == load.verifications \* verification results

Objects == Claims \cup Others

-----------------------------------------------------------------------------
(* The lifecycle *)

Terminal == {"withdrawn", "superseded"}
Nonterminal == {"draft", "under_review", "supported", "contested", "contradicted",
                "unresolved", "unsupported", "review_required", "legacy_unverified"}
States == Terminal \cup Nonterminal

Transitions ==
    {<<"draft", "under_review">>}
    \cup {"under_review"} \X {"supported", "contested", "contradicted", "unresolved", "unsupported"}
    \cup (Nonterminal \ {"review_required"}) \X {"review_required"}
    \cup Nonterminal \X Terminal

\* _CEILING_ASSERTING_STATUSES: the statuses that assert claim language.
Asserting == {"supported", "contested", "contradicted", "unsupported"}

\* _CLAIM_REVIEW_ALREADY_SATISFIED_STATUSES
Satisfied == {"review_required", "withdrawn", "superseded"}

\* The event a requested status is recorded with.
EventType == [under_review |-> "submitted_for_review", supported |-> "supported",
              contested |-> "contested", contradicted |-> "contradicted",
              unresolved |-> "unresolved", unsupported |-> "unsupported",
              review_required |-> "review_required", withdrawn |-> "withdrawn",
              superseded |-> "superseded"]

\* None is no status, a kill_branch decision is a decision, a correction names stored
\* objects, and what callers ask for is within the vocabulary: no method leads to
\* draft or to legacy_unverified.
ASSUME ClaimGraphConstants ==
    /\ None \notin States
    /\ KillBranch \subseteq Decisions
    /\ Seeds \subseteq Objects
    /\ \A asked \in Workloads :
        /\ asked.claims \subseteq Claims
        /\ asked.targets \subseteq DOMAIN EventType
        /\ asked.ends \subseteq Objects \cup Decisions

Exists(c) == rev[c] # <<>>
Latest(c) == rev[c][Len(rev[c])]
Status(c) == IF Exists(c) THEN Latest(c).status ELSE None

-----------------------------------------------------------------------------
(* The claim ceiling and the edge vocabulary *)

CLAIM_CEILING_ORDER == <<"insufficient_evidence", "mechanism_hypothesis", "descriptive",
    "associational_unadjusted", "associational_adjusted", "causal_local", "causal_bounded">>

Rank(ceiling) == CHOOSE i \in 1 .. Len(CLAIM_CEILING_ORDER) : CLAIM_CEILING_ORDER[i] = ceiling

\* ceiling_violation_reason is not None.
CeilingViolated(c, ruling) ==
    \/ Rank(ruling.ruled) > Rank(ruling.profile)
    \/ c \in Causal /\ ruling.ruled \notin {"causal_local", "causal_bounded"}

\* Mutant of GATED_EDGE_TYPES: decided_by is left to the generic edge writers.
GatedRulingOnly == {"ruled_by"}

GATED_EDGE_TYPES == {"ruled_by", "decided_by"}
IMPACT_EDGE_TYPES == {"depends_on", "derived_from", "adapted_from", "uses_source",
                      "transferred_from", "projected_into"}

edges_from(c, type) == {e \in edges : e.source = c /\ e.type = type}
edges_to(id) == {e \in edges : e.target = id}

-----------------------------------------------------------------------------
(* Impact *)

\* One level of compute_impact's search: the targets of the frontier that are not
\* visited yet are visited, and the sources they reach make the next frontier.
next_frontier(links, s) ==
    LET reached == {e \in links : e.target \in s.frontier \ s.visited}
        fresh == {e.source : e \in reached} \ s.impacted
    IN  [impacted |-> s.impacted \cup fresh,
         visited |-> s.visited \cup s.frontier,
         frontier |-> fresh]

\* compute_impact: breadth-first over the impact-typed edges, from target to source.
\* A level that leaves a frontier has used up a link, so there are no more levels
\* than links.
compute_impact(seeds, found) ==
    LET links == {e \in found : e.type \in IMPACT_EDGE_TYPES}
        loop[n \in 0 .. Cardinality(links)] ==
            IF n = 0
            THEN [impacted |-> {}, visited |-> {}, frontier |-> seeds]
            ELSE next_frontier(links, loop[n - 1])
    IN  loop[Cardinality(links)].impacted

\* The reference: what lies in every set that is closed under the impact edges.
Downstream(seeds, graph) ==
    LET Closed(S) == \A e \in graph :
            e.type \in IMPACT_EDGE_TYPES /\ e.target \in seeds \cup S => e.source \in S
    IN  {x \in Objects : \A S \in SUBSET Objects : Closed(S) => x \in S}

-----------------------------------------------------------------------------
(* Commands *)

Idle == [op |-> "none"]

NewCommand(op, step, c) ==
    [op |-> op, step |-> step, claim |-> c, to |-> None, event |-> None,
     evidence |-> {}, verified |-> FALSE, decision |-> None,
     type |-> None, target |-> None, latest |-> 0, status |-> None,
     reviewer |-> None, result |-> None,
     pending |-> {}, visited |-> {}, found |-> {}, todo |-> {}, start |-> {}]

Free(w, op) == cmd[w] = Idle /\ op \in Procedures
At(w, step) == cmd[w] # Idle /\ cmd[w].step = step
Goto(w, command) == cmd' = [cmd EXCEPT ![w] = command]
Return(w) == cmd' = [cmd EXCEPT ![w] = Idle]
NoWrite == UNCHANGED <<rev, edges, verifications, impact, reviewed, driven>>
Raise(w) == Return(w) /\ NoWrite

\* ClaimService.create: revision 1, in draft.
create(c) ==
    /\ ~Exists(c)
    /\ rev' = [rev EXCEPT ![c] = <<[status |-> "draft", from |-> None, event |-> "created",
                                    decision |-> None, evidence |-> {}]>>]
    /\ UNCHANGED <<edges, verifications, impact, cmd, reviewed, driven>>

\* submit_for_review, to_contested, to_contradicted, to_unresolved, to_unsupported,
\* require_review, withdraw and supersede.
transition(w, c, to) ==
    /\ Free(w, "transition")
    /\ Goto(w, [NewCommand("transition", "read", c) EXCEPT !.to = to, !.event = EventType[to]])
    /\ NoWrite

\* to_supported names the evidence, and whether it names any verification.
to_supported(w, c, evidence, verified) ==
    /\ Free(w, "transition")
    /\ Goto(w, [NewCommand("transition", "read", c) EXCEPT
                    !.to = "supported", !.event = EventType["supported"],
                    !.evidence = evidence, !.verified = verified])
    /\ NoWrite

\* apply_kill_condition resolves its decision before anything is written.
apply_kill_condition(w, c, decision) ==
    /\ Free(w, "kill")
    /\ decision \in KillBranch
    /\ Goto(w, [NewCommand("kill", "read", c) EXCEPT
                    !.to = "withdrawn", !.event = "kill_condition_triggered",
                    !.decision = decision, !.type = "decided_by", !.target = decision])
    /\ NoWrite

\* add_evidence_edge and link_related_claim take any edge type that has no gate of
\* its own; add_counterevidence_edge and add_dependency_edge fix it.
AddEdge(w, c, target, type) ==
    /\ Free(w, "edge")
    /\ type \notin GATED_EDGE_TYPES
    /\ Goto(w, [NewCommand("edge", "write_edge", c) EXCEPT !.type = type, !.target = target])
    /\ NoWrite

\* Mutant of attach_ruling: the ceiling is left to the next transition.
attach_ruling_unchecked(w, c, ruling) ==
    /\ Free(w, "rule")
    /\ Exists(c)
    /\ Goto(w, [NewCommand("edge", "write_edge", c) EXCEPT
                    !.type = "ruled_by", !.target = ruling])
    /\ NoWrite

\* attach_ruling writes a ruled_by edge once the ruling passes the ceiling.
attach_ruling(w, c, ruling) ==
    /\ Free(w, "rule")
    /\ Exists(c)
    /\ ~CeilingViolated(c, ruling)
    /\ Goto(w, [NewCommand("edge", "write_edge", c) EXCEPT
                    !.type = "ruled_by", !.target = ruling])
    /\ NoWrite

\* record_verification reads the claim and hands that snapshot to
\* VerificationService.record, whose self-verification gate comes first.
record_verification(w, c, reviewer, result) ==
    /\ Free(w, "verify")
    /\ Exists(c)
    /\ reviewer \notin {Proposer, Executor}
    /\ Goto(w, [NewCommand("verify", "record", c) EXCEPT
                    !.reviewer = reviewer, !.result = result, !.status = Status(c)])
    /\ NoWrite

\* propagate_impact reads the correction; the traversal starts at its seeds.
propagate_impact(w) ==
    /\ Free(w, "propagate")
    /\ Goto(w, [NewCommand("propagate", "gather", None) EXCEPT
                    !.latest = Len(impact), !.pending = Seeds, !.start = edges])
    /\ NoWrite

\* receive_correction_notification, its envelope and notification validated.
receive_correction_notification(w) ==
    /\ Free(w, "receive")
    /\ Goto(w, [NewCommand("receive", "gather", None) EXCEPT
                    !.pending = Seeds, !.start = edges])
    /\ NoWrite

-----------------------------------------------------------------------------
(* ClaimService._transition, from whichever command calls it *)

ReadClaim(w) ==
    LET c == cmd[w].claim IN
    /\ At(w, "read")
    /\ IF Exists(c) /\ <<Status(c), cmd[w].to>> \in Transitions
       THEN /\ Goto(w, [cmd[w] EXCEPT !.latest = Len(rev[c]), !.status = Status(c),
                            !.step = IF cmd[w].to \in Asserting THEN "ceiling" ELSE "write"])
            /\ NoWrite
       ELSE Raise(w)

\* Every ruling attached by now is checked again.
CheckCeiling(w) ==
    /\ At(w, "ceiling")
    /\ IF \E e \in edges_from(cmd[w].claim, "ruled_by") : CeilingViolated(cmd[w].claim, e.target)
       THEN Raise(w)
       ELSE /\ Goto(w, [cmd[w] EXCEPT !.step = IF cmd[w].to = "supported" THEN "support" ELSE "write"])
            /\ NoWrite

\* Each evidence relation needs its supports edge, and the contract neither list empty.
CheckSupport(w) ==
    /\ At(w, "support")
    /\ IF /\ cmd[w].evidence \subseteq {e.target : e \in edges_from(cmd[w].claim, "supports")}
          /\ cmd[w].evidence # {} /\ cmd[w].verified
       THEN Goto(w, [cmd[w] EXCEPT !.step = "write"]) /\ NoWrite
       ELSE Raise(w)

\* The revision the running command writes.
RevisionOf(command) ==
    [status |-> command.to, from |-> command.status, event |-> command.event,
     decision |-> command.decision,
     evidence |-> IF command.to = "supported" THEN command.evidence
                  ELSE rev[command.claim][command.latest].evidence]

\* What follows the transition in the command that asked for it.
AfterTransition(w) ==
    CASE cmd[w].op = "transition" -> /\ Return(w)
                                     /\ UNCHANGED driven
      [] cmd[w].op = "kill" -> /\ Goto(w, [cmd[w] EXCEPT !.step = "write_edge"])
                               /\ UNCHANGED driven
      [] cmd[w].op = "verify" -> /\ Return(w)
                                 /\ driven' = driven \cup {cmd[w].claim}
      [] OTHER -> /\ Goto(w, [cmd[w] EXCEPT !.step = "mark", !.todo = @ \ {cmd[w].claim}])
                  /\ UNCHANGED driven

\* Mutant of WriteRevision: the expected revision is not compared.
WriteRevisionUnchecked(w) ==
    LET c == cmd[w].claim IN
    /\ At(w, "write")
    /\ Len(rev[c]) < MaxRevision
    /\ rev' = [rev EXCEPT ![c] = Append(@, RevisionOf(cmd[w]))]
    /\ AfterTransition(w)
    /\ UNCHANGED <<edges, verifications, impact, reviewed>>

\* record_object_revision_with_event: the expected revision must still be the latest.
WriteRevision(w) ==
    LET c == cmd[w].claim IN
    /\ At(w, "write")
    /\ IF Len(rev[c]) = cmd[w].latest
       THEN /\ Len(rev[c]) < MaxRevision
            /\ rev' = [rev EXCEPT ![c] = Append(@, RevisionOf(cmd[w]))]
            /\ AfterTransition(w)
            /\ UNCHANGED <<edges, verifications, impact, reviewed>>
       ELSE Raise(w)

-----------------------------------------------------------------------------
(* Edges *)

\* _write_edge: the source must exist; nothing about its status is asked.
WriteEdge(w) ==
    /\ At(w, "write_edge")
    /\ IF Exists(cmd[w].claim)
       THEN /\ Cardinality(edges) < MaxEdges
            /\ edges' = edges \cup {[source |-> cmd[w].claim, type |-> cmd[w].type,
                                     target |-> cmd[w].target]}
            /\ Return(w)
            /\ UNCHANGED <<rev, verifications, impact, reviewed, driven>>
       ELSE Raise(w)

-----------------------------------------------------------------------------
(* Verification *)

\* _drive_claim_status_on_failure: the status the snapshot asks for, if any.
DrivenStatus(snapshot) ==
    CASE snapshot = "supported" -> "review_required"
      [] snapshot = "under_review" -> "contested"
      [] OTHER -> None

\* The result is stored; then a failure drives the claim in transactions of its own.
RecordVerification(w) ==
    LET to == DrivenStatus(cmd[w].status) IN
    /\ At(w, "record")
    /\ Cardinality(verifications) < MaxVerifications
    /\ verifications' = verifications \cup {[claim |-> cmd[w].claim, reviewer |-> cmd[w].reviewer,
                                             result |-> cmd[w].result]}
    /\ IF cmd[w].result = "fail" /\ to # None
       THEN Goto(w, [cmd[w] EXCEPT !.to = to, !.event = EventType[to], !.step = "read"])
       ELSE Return(w)
    /\ UNCHANGED <<rev, edges, impact, reviewed, driven>>

-----------------------------------------------------------------------------
(* Impact of a correction *)

\* _gather_impact_edges and _gather_local_impact_edges: one edges_to query per id
\* that is pending and not yet visited.  The code empties its frontier level by
\* level; which pending id is queried next only decides when its edges are read.
Gather(w, id) ==
    LET new == {e \in edges_to(id) : e.type \in IMPACT_EDGE_TYPES}
        visited == cmd[w].visited \cup {id}
    IN  /\ At(w, "gather")
        /\ id \in cmd[w].pending
        /\ Goto(w, [cmd[w] EXCEPT !.visited = visited, !.found = @ \cup new,
                        !.pending = (@ \cup {e.source : e \in new}) \ visited])
        /\ NoWrite

\* Mutant of ComputeImpact: an unchanged impact set is taken to mean that the
\* claims are marked already.
ComputeImpactReturnsEarly(w) ==
    LET impacted == compute_impact(Seeds, cmd[w].found)
        changed == cmd[w].op = "propagate" /\ impacted # impact[cmd[w].latest]
    IN  /\ At(w, "gather")
        /\ cmd[w].pending = {}
        /\ Goto(w, [cmd[w] EXCEPT
                        !.todo = IF changed \/ cmd[w].op = "receive" THEN impacted ELSE {},
                        !.step = IF changed THEN "write_impact" ELSE "mark"])
        /\ NoWrite

\* Mutant of ComputeImpact: the correction is read after the traversal.
ComputeImpactThenRead(w) ==
    LET impacted == compute_impact(Seeds, cmd[w].found)
        changed == cmd[w].op = "propagate" /\ impacted # impact[Len(impact)]
    IN  /\ At(w, "gather")
        /\ cmd[w].pending = {}
        /\ Goto(w, [cmd[w] EXCEPT !.todo = impacted, !.latest = Len(impact),
                        !.step = IF changed THEN "write_impact" ELSE "mark"])
        /\ NoWrite

\* The traversal is done; a local propagation compares the result with the
\* revision it read at the start, a received notification has none to compare.
ComputeImpact(w) ==
    LET impacted == compute_impact(Seeds, cmd[w].found)
        changed == cmd[w].op = "propagate" /\ impacted # impact[cmd[w].latest]
    IN  /\ At(w, "gather")
        /\ cmd[w].pending = {}
        /\ Goto(w, [cmd[w] EXCEPT !.todo = impacted, !.visited = {}, !.found = {},
                        !.step = IF changed THEN "write_impact" ELSE "mark"])
        /\ NoWrite

\* _write_impact_objects, under the correction's own optimistic concurrency control.
WriteImpact(w) ==
    /\ At(w, "write_impact")
    /\ IF Len(impact) = cmd[w].latest
       THEN /\ Len(impact) < MaxRevision
            /\ impact' = Append(impact, cmd[w].todo)
            /\ Goto(w, [cmd[w] EXCEPT !.step = "mark"])
            /\ UNCHANGED <<rev, edges, verifications, reviewed, driven>>
       ELSE Raise(w)

\* _require_review_if_needed, for the next of the impacted ids: a claim that is not
\* yet at least that strict is sent to review_required.
Mark(w, id) ==
    /\ At(w, "mark")
    /\ id \in cmd[w].todo
    /\ Goto(w, IF id \in Claims /\ Exists(id) /\ Status(id) \notin Satisfied
               THEN [cmd[w] EXCEPT !.claim = id, !.to = "review_required",
                         !.event = EventType["review_required"], !.step = "read"]
               ELSE [cmd[w] EXCEPT !.todo = @ \ {id}])
    /\ NoWrite

\* Every impacted id has been seen to; a received notification leaves its event.
FinishImpact(w) ==
    /\ At(w, "mark")
    /\ cmd[w].todo = {}
    /\ reviewed' = reviewed \cup (Downstream(Seeds, cmd[w].start) \cap Claims)
    /\ Return(w)
    /\ UNCHANGED <<rev, edges, verifications, impact, driven>>

\* The process dies; what it has committed stays.
CrashWorker(w) == cmd[w] # Idle /\ Raise(w)

-----------------------------------------------------------------------------

Init ==
    /\ rev = [c \in Claims |-> <<>>]
    /\ edges = {}
    /\ verifications = {}
    /\ impact = <<{}>>
    /\ cmd = [w \in Workers |-> Idle]
    /\ reviewed = {}
    /\ driven = {}
    /\ load \in Workloads

Call(w, c) ==
    \/ \E to \in Targets \ {"supported"} : transition(w, c, to)
    \/ \E evidence \in SUBSET Others, verified \in BOOLEAN :
            "supported" \in Targets /\ to_supported(w, c, evidence, verified)
    \/ \E decision \in Decisions : apply_kill_condition(w, c, decision)
    \/ \E target \in EdgeTargets, type \in EdgeTypes : AddEdge(w, c, target, type)
    \/ \E ruling \in Rulings : attach_ruling(w, c, ruling)
    \/ \E reviewer \in Reviewers, result \in {"pass", "fail", "inconclusive"} :
            record_verification(w, c, reviewer, result)

Step(w) ==
    \/ ReadClaim(w) \/ CheckCeiling(w) \/ CheckSupport(w) \/ WriteRevision(w)
    \/ WriteEdge(w)
    \/ RecordVerification(w)
    \/ \E id \in Objects : Gather(w, id)
    \/ ComputeImpact(w) \/ WriteImpact(w)
    \/ \E id \in Objects : Mark(w, id)
    \/ FinishImpact(w)

Next ==
    /\ UNCHANGED load
    /\ \/ \E c \in Created : create(c)
       \/ \E w \in Workers :
            \/ \E c \in Created : Call(w, c)
            \/ propagate_impact(w)
            \/ receive_correction_notification(w)
            \/ Step(w)
            \/ CrashWorker(w)

Spec == Init /\ [][Next]_vars

-----------------------------------------------------------------------------
(* Properties *)

Edge == [source : Claims, type : EdgeTypes \cup GATED_EDGE_TYPES,
         target : Objects \cup Rulings \cup Decisions]

\* Revisions, edges, results and impact sets have the shape the tables give them.
TypeOK ==
    /\ \A c \in Claims : \A i \in 1 .. Len(rev[c]) :
        /\ rev[c][i].status \in States /\ rev[c][i].from \in States \cup {None}
        /\ rev[c][i].decision \in KillBranch \cup {None}
        /\ rev[c][i].evidence \subseteq Others
    /\ edges \subseteq Edge
    /\ verifications \subseteq [claim : Claims, reviewer : Reviewers,
                               result : {"pass", "fail", "inconclusive"}]
    /\ \A i \in 1 .. Len(impact) : impact[i] \subseteq Objects

\* However the workers of _transition interleave, the stored history of a claim is
\* one path of the lifecycle: each revision starts from the status before it.
RevisionsFollowLifecycle ==
    \A c \in Claims : \A i \in 1 .. Len(rev[c]) :
        IF i = 1 THEN rev[c][1].status = "draft"
        ELSE /\ rev[c][i].from = rev[c][i - 1].status
             /\ <<rev[c][i - 1].status, rev[c][i].status>> \in Transitions

\* to_supported: a supported revision names evidence, and each piece it names has
\* a supports edge from the claim in the graph.
SupportedIsBacked ==
    \A c \in Claims : \A i \in 1 .. Len(rev[c]) :
        rev[c][i].status = "supported" =>
            /\ rev[c][i].evidence # {}
            /\ \A o \in rev[c][i].evidence :
                    [source |-> c, type |-> "supports", target |-> o] \in edges

\* attach_ruling and _transition together: a claim whose status asserts something
\* carries no ruling whose ceiling it exceeds, whichever of the two came first.
AssertedWithinCeiling ==
    \A e \in edges : e.type = "ruled_by" /\ Status(e.source) \in Asserting
                        => ~CeilingViolated(e.source, e.target)

\* apply_kill_condition writes two transactions, the withdrawal first: a decided_by
\* edge stands only beside the withdrawal its kill_branch decision caused.
DecidedByMeansKilled ==
    \A e \in edges : e.type = "decided_by" =>
        /\ e.target \in KillBranch
        /\ Status(e.source) = "withdrawn"
        /\ Latest(e.source).event = "kill_condition_triggered"
        /\ Latest(e.source).decision = e.target

\* propagate_impact and receive_correction_notification: once a call has returned,
\* every claim downstream of the seeds when it began is review_required or
\* stricter, for good, whatever crashed before and whoever runs beside it.
ReviewReachesDownstream == \A c \in reviewed : Status(c) \in Satisfied

\* _write_impact_objects: the recorded impact of a correction only ever grows,
\* although several propagations may race.
ImpactNeverShrinks ==
    \A i, j \in 1 .. Len(impact) : i < j => impact[i] \subseteq impact[j]

\* _gather_impact_edges with compute_impact: a traversal that overlaps with edge
\* writers finds all that was downstream when it began, and nothing that is not
\* downstream when it ends.
ImpactIsDownstream ==
    \A w \in Workers : At(w, "gather") /\ cmd[w].pending = {} =>
        LET impacted == compute_impact(Seeds, cmd[w].found)
        IN  /\ Downstream(Seeds, cmd[w].start) \subseteq impacted
            /\ impacted \subseteq Downstream(Seeds, edges)

\* _drive_claim_status_on_failure: a failed verification that returned having
\* driven the claim keeps it out of supported for good.
DrivenIsNotSupported == \A c \in driven : Status(c) # "supported"

\* What the policy in VerificationService is meant to guarantee: no claim with a
\* failed verification is supported.  The status of a draft is not driven, the
\* snapshot may be stale, and the worker may die between the two writes.
FailedIsNeverSupported ==
    \A v \in verifications : v.result = "fail" => Status(v.claim) # "supported"

\* The status of a claim is earned: its revisions are one path of the lifecycle, a
\* supported one names evidence that is in the graph, and one that asserts something
\* stays under the ceilings of its rulings (_transition, to_supported and
\* attach_ruling, each checking before it writes).
StatusIsEarned == TypeOK /\ RevisionsFollowLifecycle /\ SupportedIsBacked /\ AssertedWithinCeiling

\* The impact of a correction is what was downstream while it was gathered, and a
\* propagation that began earlier and ends later takes nothing from what is recorded
\* (_gather_impact_edges, _write_impact_objects).
ImpactIsKnown == ImpactIsDownstream /\ ImpactNeverShrinks
=============================================================================
