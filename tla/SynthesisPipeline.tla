------------------------- MODULE SynthesisPipeline --------------------------
(* The systematic evidence synthesis: the pure function the node's executor  *)
(* runs on a corpus snapshot under a locked protocol. An entry of the corpus *)
(* is a record [id, analysis, type, relation, status, family]; the text of   *)
(* an entry is left out. Where the code raises, an operator named ...OK is   *)
(* FALSE.                                                                    *)
EXTENDS Integers, FiniteSets, Sequences, SequencesExt

CONSTANT None

VerificationStatuses == {"verified", "unverifiable", "pending"}

\* Parameters without both eligibility rules are refused.
ParametersOK(params) == {"supported", "contested"} \subseteq DOMAIN params.rules

\* The statuses under which a protocol counts as locked.
_LOCK_SATISFYING_STATUSES == {"locked", "amended", "executed"}

-----------------------------------------------------------------------------
(* Independence of sources. *)

\* A source without a family is a family of its own.
family_key(row) == IF row.family # None THEN <<"family", row.family>> ELSE <<"source", row.id>>

\* The number of families among the verified rows.
distinct_independent_source_family_count(rows) ==
    Cardinality({family_key(row) : row \in {r \in rows : r.status = "verified"}})

-----------------------------------------------------------------------------
(* Inclusion, extraction and grouping. *)

\* A filter maps some fields of an entry to the values it allows.
_passes_inclusion_filter(entry, filter) == \A field \in DOMAIN filter : entry[field] \in filter[field]

\* With a model at hand, an answer that is a valid proposal is taken as extracted
\* and every other outcome leaves the entry's own extraction, marked as downgraded.
ExtractionDisposition(entry, assisted, proposals) ==
    IF ~assisted THEN "none"
    ELSE IF entry.id \in proposals THEN "verified" ELSE "downgraded-to-proposal"

\* Every entry becomes a row; none is dropped.
_resolve_corpus_rows(entries, params, assisted, proposals) ==
    [i \in DOMAIN entries |->
        [entry |-> entries[i], included |-> _passes_inclusion_filter(entries[i], params.filter),
         disposition |-> ExtractionDisposition(entries[i], assisted, proposals)]]

IncludedEntries(rows) == {rows[i].entry : i \in {j \in DOMAIN rows : rows[j].included}}

\* The analyses the included rows apply to, and the rows of one of them.
AnalysesOf(rows) == {entry.analysis : entry \in IncludedEntries(rows)}
_group_included_rows_by_analysis(rows, analysis) ==
    {entry \in IncludedEntries(rows) : entry.analysis = analysis}

\* One analysis cannot mix claim types.
GroupsOK(rows) ==
    \A e, f \in IncludedEntries(rows) : e.analysis = f.analysis => e.type = f.type

-----------------------------------------------------------------------------
(* Classification. *)

\* Too few verified sources decide first; then support without enough
\* contradiction, then both sides, and everything else is unsupported.
_classify_analysis(group, params) ==
    LET supporting == distinct_independent_source_family_count({e \in group : e.relation = "supports"})
        contradicting == distinct_independent_source_family_count({e \in group : e.relation = "contradicts"})
    IN  IF Cardinality({e \in group : e.status = "verified"}) < params.min_included_sources
        THEN "insufficient_evidence"
        ELSE IF supporting >= params.rules["supported"] /\ contradicting < params.rules["contested"]
        THEN "supported"
        ELSE IF supporting >= params.rules["contested"] /\ contradicting >= params.rules["contested"]
        THEN "contested" ELSE "unsupported"

\* An insufficient analysis carries a decision and no claim candidate; every other
\* one a candidate with its status and both sides' entries.
_analysis_result_to_dict(analysis, group, params) ==
    LET outcome == _classify_analysis(group, params)
        ids(relation) == {e.id : e \in {f \in group : f.relation = relation}}
    IN  IF outcome = "insufficient_evidence"
        THEN [analysis |-> analysis, outcome |-> outcome, supporting |-> {}, contradicting |-> {}]
        ELSE [analysis |-> analysis, outcome |-> outcome,
              supporting |-> ids("supports"), contradicting |-> ids("contradicts")]

-----------------------------------------------------------------------------
(* Sensitivity variations: the same rows under other parameters. *)

\* A variation may move an entry to another family before it filters again.
_resolve_variation_rows(rows, variation) ==
    [i \in DOMAIN rows |->
        LET e == rows[i].entry
            f == IF e.id \in DOMAIN variation.overrides
                 THEN [e EXCEPT !.family = variation.overrides[e.id]] ELSE e
        IN  [rows[i] EXCEPT !.entry = f, !.included = _passes_inclusion_filter(f, variation.filter)]]

\* Each base analysis is answered under each variation; one that loses all its
\* rows is insufficient and not missing.
_run_sensitivity_variations(rows, analyses, variations) ==
    {[variation |-> v, analysis |-> a,
      outcome |-> LET group == _group_included_rows_by_analysis(_resolve_variation_rows(rows, variations[v]), a)
                  IN  IF group = {} THEN "insufficient_evidence"
                      ELSE _classify_analysis(group, variations[v])] :
        v \in DOMAIN variations, a \in analyses}

\* A variation is filed under its own name, has its own rules, and groups cleanly.
VariationsOK(rows, protocol, variations) ==
    \A v \in DOMAIN variations :
        /\ variations[v].name = v /\ ParametersOK(variations[v])
        /\ variations[v].lock = protocol.hash
        /\ GroupsOK(_resolve_variation_rows(rows, variations[v]))

-----------------------------------------------------------------------------
(* The pipeline. *)

\* Mutant of _check_protocol_lock: the protocol is not checked.
_check_no_lock(protocol, params) == TRUE

\* The protocol read is locked and is the one the parameters were written for.
_check_protocol_lock(protocol, params) ==
    /\ protocol.status \in _LOCK_SATISFYING_STATUSES
    /\ protocol.hash = params.lock

\* The variations supplied are exactly the ones the protocol declares.
_check_sensitivity_variation_coverage(protocol, variations) == protocol.variations = DOMAIN variations

_require_unique_entry_ids(entries) ==
    \A i, j \in DOMAIN entries : entries[i].id = entries[j].id => i = j

\* Whether the pipeline runs to its end, and its output.
PipelineOK(protocol, params, variations, entries) ==
    LET rows == _resolve_corpus_rows(entries, params, FALSE, {})
    IN  /\ ParametersOK(params)
        /\ _check_protocol_lock(protocol, params)
        /\ _check_sensitivity_variation_coverage(protocol, variations)
        /\ _require_unique_entry_ids(entries)
        /\ GroupsOK(rows)
        /\ VariationsOK(rows, protocol, variations)

_run_pipeline(params, variations, entries, assisted, proposals) ==
    LET rows == _resolve_corpus_rows(entries, params, assisted, proposals)
        analyses == AnalysesOf(rows)
    IN  [rows |-> rows,
         analyses |-> {_analysis_result_to_dict(a, _group_included_rows_by_analysis(rows, a), params) : a \in analyses},
         sensitivity |-> _run_sensitivity_variations(rows, analyses, variations)]
=============================================================================
