---------------------------- MODULE Publication ----------------------------
(***************************************************************************)
(* What is read out of the store for readers outside it: the claim table    *)
(* and the provenance of a claim, the closure of objects an export carries  *)
(* and its RO-Crate metadata, and the research report with what it redacts. *)
(*                                                                         *)
(* Every operator is a pure reading of a store S, with                      *)
(*   S.objects   id -> the body of its latest revision                      *)
(*   S.edges     typed edges <<source, type, target>>                       *)
(*   S.log       the events, [type, object]                                 *)
(* A body keeps its kind, its revision, the instant it was created and the  *)
(* ids in its declared reference fields (refs).                             *)
(***************************************************************************)
EXTENDS Naturals, Sequences, FiniteSets

Stored(S) == DOMAIN S.objects
Is(S, id, kind) == id \in Stored(S) /\ S.objects[id].kind = kind

\* Everything reached from the roots along next.
Reached(S, roots, next(_)) ==
    LET within[n \in 0 .. Cardinality(Stored(S))] ==
            IF n = 0 THEN roots ELSE LET near == within[n - 1] IN near \cup UNION {next(x) : x \in near}
    IN  within[Cardinality(Stored(S))]

-----------------------------------------------------------------------------
(* Projection: the claim table and the provenance of a claim. *)

_discover_ids_by_event_type(S, type) == {S.log[i].object : i \in {j \in DOMAIN S.log : S.log[j].type = type}}

_read_correction_bodies(S) ==
    {x \in _discover_ids_by_event_type(S, "correction.recorded") : Is(S, x, "CorrectionEvent")}

RESOLVED_CORRECTION_STATUSES == {"RESOLVED", "PARTIALLY_RESOLVED"}
is_unresolved_critical_correction(S, x) ==
    S.objects[x].severity = "critical" /\ S.objects[x].status \notin RESOLVED_CORRECTION_STATUSES
Touched(S, x) == S.objects[x].affected_objects \cup S.objects[x].impact_objects

unresolved_critical_correction_ids_for_claim(S, c) ==
    {x \in _read_correction_bodies(S) : is_unresolved_critical_correction(S, x) /\ c \in Touched(S, x)}

build_claim_table_row(S, c) ==
    [claim |-> c, revision |-> S.objects[c].revision,
     unresolved |-> unresolved_critical_correction_ids_for_claim(S, c)]

build_claim_table(S) ==
    {build_claim_table_row(S, c) :
        c \in {d \in _discover_ids_by_event_type(S, "claim.created") : Is(S, d, "Claim")}}

Hop(source, target, relation, via) == [source |-> source, target |-> target, relation |-> relation, via |-> via]

_field_reference_hops(S, anchor) ==
    {Hop(anchor, t, "field", "field") : t \in S.objects[anchor].refs \cap Stored(S)}

\* Edges whose target is stored; an anchor also names its source and its run.
_outgoing_provenance_hops(S, n) ==
    {Hop(n, e[3], e[2], "edge") : e \in {f \in S.edges : f[1] = n /\ f[3] \in Stored(S)}}
    \cup (IF Is(S, n, "EvidenceAnchor") THEN _field_reference_hops(S, n) ELSE {})

_trace_provenance(S, c) ==
    LET Targets(n) == {h.target : h \in _outgoing_provenance_hops(S, n)}
    IN  UNION {_outgoing_provenance_hops(S, n) : n \in Reached(S, {c}, Targets)}

build_provenance_map(S, c) == [claim |-> c, edges |-> _trace_provenance(S, c)]

-----------------------------------------------------------------------------
(* Export: the closure of a crate or of claims. *)

Refused(reason) == [ok |-> FALSE, reason |-> reason, objects |-> {}, edges |-> {}, artifacts |-> {}]
Closure(objects, edges, artifacts) ==
    [ok |-> TRUE, reason |-> "", objects |-> objects, edges |-> edges, artifacts |-> artifacts]

_discover_verifications_targeting(S, claims) ==
    {v \in _discover_ids_by_event_type(S, "verification.recorded") :
        Is(S, v, "VerificationResult") /\ S.objects[v].target_id \in claims}

ClaimsIn(S, ids) == {c \in ids : Is(S, c, "Claim")}

\* The provenance of the root claims, then the reviews of every claim found.
_resolve_provenance_and_verifications(S, ids, roots, artifacts) ==
    LET hops == UNION {build_provenance_map(S, c).edges : c \in roots}
        found == ids \cup {h.target : h \in hops}
    IN  Closure(found \cup _discover_verifications_targeting(S, ClaimsIn(S, found)), hops, artifacts)

resolve_closure(S, crate) ==
    IF ~Is(S, crate, "EvidenceCrate") THEN Refused("not_a_crate")
    ELSE IF ~(S.objects[crate].refs \subseteq Stored(S)) THEN Refused("object_not_found")
    ELSE IF \E c \in S.objects[crate].proposed_claims : ~Is(S, c, "Claim") THEN Refused("claim_not_found")
    ELSE _resolve_provenance_and_verifications(
             S, {crate} \cup S.objects[crate].refs, S.objects[crate].proposed_claims, S.objects[crate].artifacts)

\* The kinds whose reference fields are followed.
_DECLARED_REFERENCE_FIELDS == {"Claim", "EvidenceAnchor", "VerificationResult"}
_reference_field_urns(S, id) ==
    IF id \in Stored(S) /\ S.objects[id].kind \in _DECLARED_REFERENCE_FIELDS THEN S.objects[id].refs ELSE {}

_resolve_declared_reference_fields(S, ids) == LET Next(id) == _reference_field_urns(S, id) IN Reached(S, ids, Next)

\* The claims the caller names, or every claim of the table.
_resolve_root_claim_ids(S, claims) == IF claims = {} THEN {row.claim : row \in build_claim_table(S)} ELSE claims

resolve_closure_from_claims(S, claims) ==
    LET roots == _resolve_root_claim_ids(S, claims)
        ids == _resolve_declared_reference_fields(S, roots)
    IN  IF roots = {} THEN Refused("no_claims")
        ELSE IF \E c \in roots : ~Is(S, c, "Claim") THEN Refused("not_a_claim")
        ELSE IF ~(ids \subseteq Stored(S)) THEN Refused("object_not_found")
        ELSE _resolve_provenance_and_verifications(S, ids, roots, {})

_fetch_artifact_bytes(held, artifacts) == artifacts \ held

-----------------------------------------------------------------------------
(* RO-Crate metadata with PROV relations. *)

run_manifest_relations(body) == body.associated \cup body.used
verification_result_relations(body) == body.associated \cup {body.target_id} \cup body.refs
evidence_crate_relations(body) == {body.run_id}
prov_relations_for_object(body) ==
    CASE body.kind = "RunManifest" -> run_manifest_relations(body)
      [] body.kind = "VerificationResult" -> verification_result_relations(body)
      [] body.kind = "EvidenceCrate" -> evidence_crate_relations(body)
      [] OTHER -> {}

\* Only edges, never fields, are derivations.
group_derived_from_targets(hops, id) ==
    {h.target : h \in {g \in hops : g.via = "edge" /\ g.relation = "derived_from" /\ g.source = id}}

\* The run that generated the artifacts, when a crate is the root.
artifact_generated_by_relation(S, crate, artifacts) ==
    IF crate \in Stored(S) /\ artifacts # {} THEN {S.objects[crate].run_id} ELSE {}

\* An entity for every exported object and artifact, and a stub for every id
\* that is referred to and not exported.
build_ro_crate_metadata(S, crate, closure) ==
    LET relations == [id \in closure.objects |->
                         prov_relations_for_object(S.objects[id]) \cup group_derived_from_targets(closure.edges, id)]
        generated_by == artifact_generated_by_relation(S, crate, closure.artifacts)
    IN  [parts |-> closure.objects \cup closure.artifacts, relations |-> relations, generated_by |-> generated_by,
         stubs |-> (generated_by \cup UNION {relations[id] : id \in closure.objects}) \ closure.objects]

\* The files of an export: one per object, one per artifact, and the metadata.
build_export_plan(S, closure) ==
    {[path |-> <<"objects", id>>, content |-> [revision |-> S.objects[id].revision]] : id \in closure.objects}
    \cup {[path |-> <<"artifacts", a>>, content |-> [bytes |-> a]] : a \in closure.artifacts}
build_export(S, crate, closure) ==
    build_export_plan(S, closure)
    \cup {[path |-> <<"ro-crate-metadata">>, content |-> build_ro_crate_metadata(S, crate, closure)]}

-----------------------------------------------------------------------------
(* The research report. *)

\* An internal report reads as if everything were attested PUBLIC.
_attestation_for(disclosure, attested) == [everything |-> disclosure = "internal", public |-> attested]
_all_attested_public(ids, attestation) == attestation.everything \/ ids \subseteq attestation.public

_redact(ids, attestation) == IF _all_attested_public(ids, attestation) THEN "shown" ELSE "redacted"

build_public_correction_row(S, x, attestation) ==
    [correction |-> x, revision |-> S.objects[x].revision, touched |-> Touched(S, x),
     unresolved |-> is_unresolved_critical_correction(S, x),
     reason |-> _redact({x} \cup Touched(S, x), attestation)]

\* Mutant of build_public_claim_row: the corrections do not count.
build_public_claim_row_alone(c, unresolved, attestation) == _redact({c}, attestation)

\* An assertion is shown when the claim and what corrects it are attested.
build_public_claim_row(c, unresolved, attestation) == _redact({c} \cup unresolved, attestation)

\* Unresolved critical corrections, redacted or not.
build_public_correction_view(S, attestation) ==
    {row \in {build_public_correction_row(S, x, attestation) : x \in _read_correction_bodies(S)} : row.unresolved}

_corrections_for_closure(rows, closure) == {row \in rows : row.touched \cap closure.objects # {}}

_build_verifications_for_claim(S, c, ids, attestation) ==
    LET matching == {v \in ids : Is(S, v, "VerificationResult") /\ S.objects[v].target_id = c}
    IN  {[verification |-> v, recommendation |-> S.objects[v].recommendation,
          disagreement |-> \E w \in matching : S.objects[w].recommendation # S.objects[v].recommendation,
          findings |-> _redact({v, c}, attestation)] : v \in matching}

_build_known_unknown_rows(id, attestation) == [about |-> id, text |-> _redact({id}, attestation)]

_build_claim_row(S, c, closure, rows, attestation) ==
    LET unresolved == {row.correction : row \in {r \in rows : c \in r.touched}}
    IN  [claim |-> c, revision |-> S.objects[c].revision, unresolved |-> unresolved,
         assertion |-> build_public_claim_row(c, unresolved, attestation),
         known_unknowns |-> _build_known_unknown_rows(c, attestation),
         verifications |-> _build_verifications_for_claim(S, c, closure.objects, attestation)]

\* Corrections named by a release's banner, as far as they can be shown.
_build_release_banner_section(S, banner, attestation) ==
    {build_public_correction_row(S, x, attestation) : x \in banner}

_build_crate_rooted_methods(S, crate, closure) ==
    LET run == {S.objects[k].run_id : k \in crate} IN [run |-> run, run_manifest_included |-> run \subseteq closure.objects]
_build_claim_rooted_methods(S, closure) ==
    [run |-> {id \in closure.objects : Is(S, id, "RunManifest")}, run_manifest_included |-> \E id \in closure.objects : Is(S, id, "RunManifest")]
_build_crate_rooted_header(crate, closure) == [root |-> crate, objects |-> Cardinality(closure.objects)]
_build_claim_rooted_header(closure) == [root |-> {}, objects |-> Cardinality(closure.objects)]

_collect_urns(S, ids) == ids \cup UNION {S.objects[id].refs : id \in ids}

\* The report on a crate's proposed claims, or on every claim of the closure when
\* there is no crate: crate is the set of the crate's id, or empty.
build_report(S, crate, closure, rows, disclosure, attested, banner) ==
    LET crate_rooted == crate # {}
        attestation == _attestation_for(disclosure, attested)
        claims == IF crate_rooted THEN UNION {S.objects[k].proposed_claims : k \in crate} ELSE ClaimsIn(S, closure.objects)
    IN  [header |-> IF crate_rooted THEN _build_crate_rooted_header(crate, closure)
                    ELSE _build_claim_rooted_header(closure),
         methods |-> IF crate_rooted THEN _build_crate_rooted_methods(S, crate, closure)
                     ELSE _build_claim_rooted_methods(S, closure),
         claims |-> {_build_claim_row(S, c, closure, rows, attestation) : c \in claims},
         evidence |-> {id \in closure.objects : Is(S, id, "SourceRecord") \/ Is(S, id, "EvidenceAnchor")},
         corrections |-> rows,
         known_unknowns |-> {_build_known_unknown_rows(k, attestation) : k \in crate},
         provenance |-> UNION {build_provenance_map(S, c).edges : c \in claims},
         source_urns |-> _collect_urns(S, closure.objects) \cup {row.correction : row \in rows}
                             \cup UNION {row.touched : row \in rows},
         disclosure |-> disclosure,
         banner |-> _build_release_banner_section(S, banner, attestation)]

\* The closure is read again for a report.
render(S, crate, disclosure, attested, banner) ==
    LET closure == resolve_closure(S, crate)
        attestation == _attestation_for(disclosure, attested)
    IN  [ok |-> closure.ok,
         report |-> IF closure.ok
                    THEN build_report(S, {crate}, closure,
                             _corrections_for_closure(build_public_correction_view(S, attestation), closure),
                             disclosure, attested, banner)
                    ELSE {}]

render_from_claims(S, claims, disclosure, attested) ==
    LET closure == resolve_closure_from_claims(S, claims)
        attestation == _attestation_for(disclosure, attested)
    IN  [ok |-> closure.ok,
         report |-> IF closure.ok
                    THEN build_report(S, {}, closure,
                             _corrections_for_closure(build_public_correction_view(S, attestation), closure),
                             disclosure, attested, {})
                    ELSE {}]

\* Both renderings carry every section of the model and nothing else.
render_markdown(report) == [format |-> "md", sections |-> report]
render_html(report) == [format |-> "html", sections |-> report]
=============================================================================
