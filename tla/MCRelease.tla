----------------------------- MODULE MCRelease -----------------------------
(* One crate with claims behind it, and one that cannot be exported. *)
EXTENDS Release

CONSTANTS p1, p2, d1, d2

Body(kind, revision, refs) == [kind |-> kind, revision |-> revision, at |-> 0, refs |-> refs]
Crate(refs, claims, artifacts) ==
    Body("EvidenceCrate", 1, refs) @@ [proposed_claims |-> claims, artifacts |-> artifacts, run_id |-> "run"]
Correction(revision, impact, s) ==
    Body("CorrectionEvent", revision, {})
    @@ [affected_objects |-> {"c2"}, impact_objects |-> impact, severity |-> "critical", status |-> s]
Verification(recommendation) ==
    Body("VerificationResult", 1, {"a1"})
    @@ [target_id |-> "c1", recommendation |-> recommendation, associated |-> {"reviewer"}]
MCFirstStore ==
    [objects |->
        [o \in {"k1"} |-> Crate({"s1", "a1", "c1"}, {"c1"}, {"f1"})]
        @@ [o \in {"k2"} |-> Crate({"c2"}, {"c2"}, {"f2"})]
        @@ [o \in {"c1"} |-> Body("Claim", 1, {"a1"})] @@ [o \in {"c2", "c3"} |-> Body("Claim", 1, {})]
        @@ [o \in {"a1"} |-> Body("EvidenceAnchor", 1, {"s1", "run"})]
        @@ [o \in {"s1"} |-> Body("SourceRecord", 1, {})]
        @@ [o \in {"run"} |-> Body("RunManifest", 1, {}) @@ [associated |-> {"executor"}, used |-> {"artifact1"}]]
        @@ [o \in {"v1"} |-> Verification("accept")],
     edges |-> {<<"c1", "evidenced_by", "a1">>, <<"c1", "depends_on", "c3">>, <<"a1", "derived_from", "s1">>,
                <<"c2", "derived_from", "lost">>},
     log |-> <<[type |-> "claim.created", object |-> "c1"], [type |-> "claim.created", object |-> "c2"],
               [type |-> "verification.recorded", object |-> "v1"]>>]
MCChanges ==
    {[type |-> "claim.revised", object |-> "c1", body |-> Body("Claim", 2, {"a1", "v1"})],
     [type |-> "correction.recorded", object |-> "x1", body |-> Correction(1, {}, "OPEN")],
     [type |-> "correction.impact_assessed", object |-> "x1", body |-> Correction(2, {"c1"}, "OPEN")],
     [type |-> "correction.resolved", object |-> "x1", body |-> Correction(3, {"c1"}, "RESOLVED")],
     [type |-> "verification.recorded", object |-> "v2", body |-> Verification("reject")]}

Public(ids) == [public |-> ids]
Ask(cmd, crate, disclosure, file, output) ==
    [cmd |-> cmd, crate |-> crate, disclosure |-> disclosure, classification |-> file, output |-> output,
     approved_by |-> "person", statement |-> "text", mode |-> "single_human", artifact_root |-> TRUE]
Create(output) == Ask("create", "k1", "internal", None, output)
Supersede(old, output) == Ask("supersede", "k1", "internal", None, output) @@ [supersedes |-> old]
Status(r) == [cmd |-> "status", release |-> r]
Verify(r, dir, file) ==
    [cmd |-> "verify", release |-> r, bundle_dir |-> dir, classification |-> file, artifact_root |-> TRUE]
Report(crate, claims, disclosure, file, output) ==
    [cmd |-> "report", crate |-> crate, claims |-> claims, disclosure |-> disclosure, classification |-> file, output |-> output]
RoCrate(crate, claims, root, output) ==
    [cmd |-> "ro-crate", crate |-> crate, claims |-> claims, artifact_root |-> root, output |-> output]

Once(commands) == [w \in {<<"command", args>> : args \in commands} |-> 1]
Changing(ids) == [w \in {<<"change", c.type, c.object>> : c \in {d \in MCChanges : d.object \in ids}} |-> 1]
Crashing == [w \in {<<"crash">>} |-> 1]
\* Commands that are refused, one at a time beside a release.
Refusals ==
    {[Create(d2) EXCEPT !.approved_by = "agent"], [Create(d2) EXCEPT !.statement = "blank"],
     [Create(d2) EXCEPT !.mode = "dual"], [Create(d2) EXCEPT !.mode = None],
     [Create(d2) EXCEPT !.statement = Unreadable], [Create(d2) EXCEPT !.artifact_root = FALSE],
     [Create(d2) EXCEPT !.disclosure = "public"], [Create(d2) EXCEPT !.classification = Public({})],
     [Create(d2) EXCEPT !.crate = "k2"], [Create(d2) EXCEPT !.crate = "c1"], Supersede("k1", d2), Supersede("unknown", d2),
     Status("k1"), Verify("k1", None, None), Verify("r1", d2, None),
     Report(None, {"c1"}, "public", Unreadable, d2), Report("k2", {}, "internal", None, d1),
     RoCrate("k1", {}, FALSE, d2), RoCrate("k2", {}, TRUE, d2), Report(None, {"k1"}, "internal", None, d2)}
MCWork ==
    {\* corrections, a new claim revision and a new review around an assembly
     Once({Create(d1), Verify("r1", None, None)}) @@ Changing({"x1"}),
     Once({Create(d1), Status("r1")}) @@ Changing({"x1", "v2"}),
     Once({Create(d1), Verify("r1", None, None), Verify("r1", d1, None)}) @@ Changing({"c1", "v2"}) @@ Crashing,
     \* supersession: in turn, in a race, cut short
     Once({Create(d1), Supersede("r1", d2), Status("r1")}) @@ Crashing,
     Once({Create(d1), Supersede("r1", d1), Supersede("r1", d2), Verify("r2", d2, None)}),
     \* public releases are verified with the classification they were made with
     Once({Ask("create", "k1", "public", Public({"c1"}), d1), Verify("r1", None, Public({"c1"})),
           Verify("r1", None, Public({})), Verify("r1", None, None)}),
     \* public bundles and reports beside corrections, with and without their attestation
     Once({Ask("create", "k1", "public", Public({"c1", "k1", "v1"}), d1),
           Report("k1", {}, "public", Public({"c1", "c2", "x1"}), d2)}) @@ Changing({"x1"}),
     Once({Report("k1", {}, "public", Public({"c1", "x1"}), d1), Report(None, {}, "public", Public({"c2", "v1"}), d1)})
         @@ Changing({"x1"}),
     \* reports and exports that meet at one path
     Once({Report("k1", {}, "internal", None, d1), RoCrate("k1", {}, TRUE, d1), RoCrate(None, {}, FALSE, d1)}),
     Once({Report("k1", {}, "internal", None, d1), Create(d1), RoCrate(None, {"c1"}, FALSE, d2)})}
    \cup {Once({Create(d1), refused}) : refused \in Refusals}
MCReleaseIds == <<"r1", "r2", "r3">>
Symmetry == Permutations(Processes)
=============================================================================
