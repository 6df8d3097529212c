---------------------------- MODULE MCClaimGraph ----------------------------
(* Instances of ClaimGraph for TLC. *)
EXTENDS ClaimGraph, TLC

CONSTANTS o1, k1

\* A ruling a causal claim may carry, and one it may not.
MCRulings == {[ruled |-> "causal_local", profile |-> "causal_bounded"],
              [ruled |-> "descriptive", profile |-> "causal_bounded"]}

\* One claim on all its ways through the lifecycle.
Lifecycle(c) ==
    [claims |-> {c}, procedures |-> {"transition", "edge", "rule", "kill", "verify"},
     targets |-> {"under_review", "supported", "contested", "withdrawn"},
     edge_types |-> {"supports", "decided_by"}, ends |-> {o1, k1},
     revisions |-> 4, edges |-> 2, verifications |-> 1]

\* Claims that depend on each other and on a corrected object.
Impact ==
    [claims |-> Claims, procedures |-> {"transition", "edge", "propagate", "receive"},
     targets |-> {"withdrawn"}, edge_types |-> {"depends_on"}, ends |-> Objects,
     revisions |-> 3, edges |-> 2, verifications |-> 0]

\* A claim whose verifications fail.
Failure(c) ==
    [claims |-> {c}, procedures |-> {"transition", "edge", "verify"},
     targets |-> {"under_review", "supported", "contested", "review_required"},
     edge_types |-> {"supports"}, ends |-> {o1}, revisions |-> 4, edges |-> 1, verifications |-> 2]

MCWorkloads == {Lifecycle(c) : c \in Claims} \cup {Impact}
MCFailure == {Failure(c) : c \in Claims}

Symmetry == Permutations(Workers) \cup Permutations(Claims)
=============================================================================
