--------------------------- MODULE MCEvidenceLoop ---------------------------
(* A run that establishes its protocol, and one that uses it or runs locally. *)
EXTENDS EvidenceLoop

CONSTANTS l1, l2

Entry(id, analysis, relation, status, family) ==
    [id |-> id, analysis |-> analysis, type |-> "observational", relation |-> relation,
     status |-> status, family |-> family]

\* One analysis that is contested, one that has too little evidence.
MixedCorpus == <<Entry("e1", "a1", "supports", "verified", "f1"),
                 Entry("e2", "a1", "contradicts", "verified", None),
                 Entry("e3", "a2", "supports", "pending", "f1")>>
\* One supported analysis.
SupportedCorpus == <<Entry("e1", "a1", "supports", "verified", "f1")>>

Parameters(lock) ==
    [filter |-> [status |-> VerificationStatuses], rules |-> [supported |-> 1, contested |-> 1],
     min_included_sources |-> 1, lock |-> lock]

LocalPlan == [kind |-> "local", approve |-> TRUE, attempt |-> 1, dispatched |-> TRUE,
              missing |-> FALSE, code_revision |-> TRUE]
Synthesis(kind, owner, entries, lock) ==
    [kind |-> kind, approve |-> TRUE, attempt |-> 1, dispatched |-> TRUE, missing |-> FALSE,
     code_revision |-> TRUE, protocol |-> <<owner, "protocol", None>>, profile |-> None,
     entries |-> entries, params |-> Parameters(lock), variations |-> <<>>, declared |-> {}]

Workload(first, second, n) == [plan |-> [l \in Loops |-> IF l = l1 THEN first ELSE second], calls |-> n]
Established == Synthesis("establish", l1, SupportedCorpus, 3)

\* One run beside an operator, with what can differ in its inputs; two runs that
\* share a protocol and a node.
MCWorkloads ==
    {Workload(p, None, 1) :
        p \in {Synthesis("establish", l1, MixedCorpus, 3),
               [Established EXCEPT !.code_revision = FALSE],
               [LocalPlan EXCEPT !.missing = TRUE], [LocalPlan EXCEPT !.approve = FALSE]}}
        \cup {Workload(p, None, 0) :
                p \in {LocalPlan, [Established EXCEPT !.declared = {"v1"}], [Established EXCEPT !.attempt = 0],
                       [Established EXCEPT !.missing = TRUE], [LocalPlan EXCEPT !.dispatched = FALSE]}}
        \cup {Workload(Established, Synthesis("synthesis", l1, SupportedCorpus, 3), 0)}
        \cup {Workload([Established EXCEPT !.profile = <<l2, "profile", None>>, !.approve = FALSE], None, 3)}

Kinds == {"score", "profile", "question", "charter", "protocol", "matrix", "bundle", "manifest", "crate"}
MCObjects ==
    {<<l, kind, None>> : l \in Loops, kind \in Kinds}
        \cup {<<Node, "node", None>>}
        \cup {<<l, kind, e>> : l \in Loops, kind \in {"source", "anchor"}, e \in {"e1", "e2", "e3"}}
        \cup {<<l, kind, a>> : l \in Loops, kind \in {"claim", "ruling", "decision"}, a \in {"a1", "a2"}}
MCTouched == {<<l1, "score", None>>, <<l2, "profile", None>>, <<l1, "protocol", None>>,
              <<l1, "matrix", None>>, <<Node, "node", None>>}
=============================================================================
