----------------------------- MODULE Measurement -----------------------------
(***************************************************************************)
(* What the read-only harnesses compute: agreement of two raters, validity  *)
(* of a classifier against a frozen gold standard, reliability of two       *)
(* passes over one corpus, and the audit of citations against a resolution  *)
(* snapshot.                                                                *)
(*                                                                         *)
(* Python's exact fractions are pairs <<numerator, denominator>>, written   *)
(* as the code forms them; None stands for "undefined".  A load gives       *)
(* [exit |-> 0, ...] or the exit code of the command that asked for it.     *)
(***************************************************************************)
EXTENDS Integers, Sequences, SequencesExt, FiniteSets, Functions

CONSTANT None

Total(f) == FoldFunction(LAMBDA a, b : a + b, 0, f)

-----------------------------------------------------------------------------
(* Agreement: ratings are pairs of labels, a matrix counts them. *)

\* Two raters must have rated the same items.
align_ratings(a, b) ==
    IF DOMAIN a # DOMAIN b THEN None ELSE [item \in DOMAIN a |-> [a |-> a[item], b |-> b[item]]]

confusion_matrix(ratings, categories) ==
    LET Index(label) == CHOOSE i \in DOMAIN categories : categories[i] = label
    IN  [i \in DOMAIN categories |-> [j \in DOMAIN categories |->
            Cardinality({item \in DOMAIN ratings : Index(ratings[item].a) = i /\ Index(ratings[item].b) = j})]]

row_marginals(m) == [i \in DOMAIN m |-> Total(m[i])]
col_marginals(m) == [j \in DOMAIN m |-> Total([i \in DOMAIN m |-> m[i][j]])]
total_n(m) == Total(row_marginals(m))
Diagonal(m) == Total([i \in DOMAIN m |-> m[i][i]])

observed_agreement(m) == IF total_n(m) = 0 THEN <<0, 1>> ELSE <<Diagonal(m), total_n(m)>>

Largest(f) == CHOOSE n \in Range(f) : \A k \in Range(f) : k <= n
majority_baseline(m, reference) ==
    IF total_n(m) = 0 THEN <<0, 1>>
    ELSE <<Largest(IF reference = "a" THEN row_marginals(m) ELSE col_marginals(m)), total_n(m)>>

\* (p_o - p_e) / (1 - p_e), over the common denominator n * n.
cohen_kappa(m) ==
    LET n == total_n(m)
        expected == Total([k \in DOMAIN m |-> row_marginals(m)[k] * col_marginals(m)[k]])
    IN  IF n = 0 \/ n * n = expected THEN None ELSE <<Diagonal(m) * n - expected, n * n - expected>>

weighted_kappa(m, weights) ==
    LET n == total_n(m)
        Distance(i, j) == IF i < j THEN j - i ELSE i - j
        Weight(i, j) == IF weights = "linear" THEN Distance(i, j) ELSE Distance(i, j) * Distance(i, j)
        Weighted(F(_, _)) == Total([i \in DOMAIN m |-> Total([j \in DOMAIN m |-> Weight(i, j) * F(i, j)])])
        observed == Weighted(LAMBDA i, j : m[i][j])
        expected == Weighted(LAMBDA i, j : row_marginals(m)[i] * col_marginals(m)[j])
    IN  IF n = 0 \/ expected = 0 THEN None ELSE <<expected - observed * n, expected>>

krippendorff_alpha_nominal(m) ==
    LET coincidence == [c \in DOMAIN m |-> [k \in DOMAIN m |-> m[c][k] + m[k][c]]]
        n_c == [c \in DOMAIN m |-> Total(coincidence[c])]
        n == Total(n_c)
        d_o == n - Diagonal(coincidence)
        d_e == n * n - Total([c \in DOMAIN m |-> n_c[c] * n_c[c]])
    IN  IF n \in {0, 1} \/ d_e = 0 THEN None ELSE <<d_e - d_o * (n - 1), d_e>>

\* Precision is 0 when nothing was predicted, and all three are undefined
\* without support.
per_category_prf(m, reference) ==
    [k \in DOMAIN m |->
        LET hit == m[k][k]
            support == IF reference = "a" THEN row_marginals(m)[k] ELSE col_marginals(m)[k]
            predicted == IF reference = "a" THEN col_marginals(m)[k] ELSE row_marginals(m)[k]
        IN  [support |-> support, true_positive |-> hit, false_positive |-> predicted - hit,
             false_negative |-> support - hit,
             precision |-> IF support = 0 THEN None ELSE IF predicted = 0 THEN <<0, 1>> ELSE <<hit, predicted>>,
             recall |-> IF support = 0 THEN None ELSE <<hit, support>>,
             f1 |-> IF support = 0 THEN None ELSE <<2 * hit, predicted + support>>]]

\* Of the items whose gold label is not "supports", how many the system says support.
false_support_rate(m, categories) ==
    LET others == {i \in DOMAIN categories : categories[i] # "supports"}
        s == CHOOSE i \in DOMAIN categories : i \notin others
        negative == Total([i \in others |-> row_marginals(m)[i]])
    IN  IF others = DOMAIN categories THEN [value |-> None, negative |-> 0, false |-> 0]
        ELSE LET false == Total([i \in others |-> m[i][s]])
             IN  [value |-> IF negative = 0 THEN None ELSE <<false, negative>>, negative |-> negative, false |-> false]

BELOW_POWER_THRESHOLD == 20

-----------------------------------------------------------------------------
(* Validity against a frozen gold standard. *)

SYNTHETIC_PRACTICE == "synthetic"

gold_labels(gold) == [c \in {d.case : d \in {e \in gold.cases : ~e.undecidable}} |->
                         (CHOOSE d \in gold.cases : d.case = c).expected]
undecidable_case_ids(gold) == {d.case : d \in {e \in gold.cases : e.undecidable}}
tie_broken_case_ids(gold) == {d.case : d \in {e \in gold.cases : e.tie # None}}

\* A case is undecidable or labelled, never both, and a tie names another label.
CaseOk(gold, c) ==
    /\ c.undecidable = (c.expected = None)
    /\ c.tie # None => c.tie \in ToSet(gold.categories) /\ c.tie # c.expected
LabelOk(gold, c) == c.undecidable \/ c.expected \in ToSet(gold.categories)

\* Mutant of load_gold_set: the criteria file is not compared with the lock.
load_gold_set_unlocked(file, expected, allow_synthetic, criteria) ==
    CASE file = None \/ file.doc # "gold" -> [exit |-> 2]
      [] expected # None /\ expected # file -> [exit |-> 3]
      [] file.labelled_at <= file.locked_at -> [exit |-> 3]
      [] file.practice = SYNTHETIC_PRACTICE /\ ~allow_synthetic -> [exit |-> 3]
      [] OTHER -> [exit |-> 0, gold |-> file]

\* The frozen hash, the criteria's lock, the order gate, provenance, cases:
\* unreadable input ends with 2, a standard that is none with 3.
load_gold_set(file, expected, allow_synthetic, criteria) ==
    CASE file = None \/ file.doc # "gold" -> [exit |-> 2]
      [] expected # None /\ expected # file -> [exit |-> 3]
      [] Cardinality(ToSet(file.categories)) < 2 -> [exit |-> 2]
      [] criteria # None /\ (file.lock # criteria.version \/ file.locked_at # criteria.locked_at) -> [exit |-> 3]
      [] file.labelled_at <= file.locked_at -> [exit |-> 3]
      [] file.practice = SYNTHETIC_PRACTICE /\ ~allow_synthetic -> [exit |-> 3]
      [] \E c \in file.cases : ~LabelOk(file, c) -> [exit |-> 3]
      [] (\E c \in file.cases : ~CaseOk(file, c)) \/ \A c \in file.cases : c.undecidable -> [exit |-> 2]
      [] OTHER -> [exit |-> 0, gold |-> file]

\* A proposals file carries the predictions of its decided cases.
load_predictions(file) ==
    LET decided == {p \in ToSet(file.proposals) : p.relation # None}
    IN  IF file = None \/ file.doc # "proposals" \/ decided = {} THEN [exit |-> 2]
        ELSE [exit |-> 0, predictions |-> [c \in {p.case : p \in decided} |-> (CHOOSE p \in decided : p.case = c).relation]]

build_gold_validity_report(gold, matrix, ratings) ==
    [doc |-> "validity", gold |-> gold, ratings |-> ratings, n |-> total_n(matrix), matrix |-> matrix,
     observed |-> observed_agreement(matrix), baseline |-> majority_baseline(matrix, "a"),
     kappa |-> cohen_kappa(matrix), linear |-> weighted_kappa(matrix, "linear"),
     quadratic |-> weighted_kappa(matrix, "quadratic"), alpha |-> krippendorff_alpha_nominal(matrix),
     prf |-> per_category_prf(matrix, "a"), false_support |-> false_support_rate(matrix, gold.categories),
     below_power |-> \E i \in DOMAIN matrix : row_marginals(matrix)[i] < BELOW_POWER_THRESHOLD,
     undecidable |-> undecidable_case_ids(gold), ties |-> tie_broken_case_ids(gold)]

\* Predictions for cases the gold leaves undecided are dropped; apart from
\* those both must cover the same cases.
gold_build_report(gold, predictions) ==
    LET scored == Restrict(predictions, DOMAIN predictions \ undecidable_case_ids(gold))
        ratings == align_ratings(gold_labels(gold), scored)
    IN  IF (\E c \in DOMAIN predictions : predictions[c] \notin ToSet(gold.categories)) \/ ratings = None
        THEN [exit |-> 3]
        ELSE [exit |-> 0,
              report |-> build_gold_validity_report(gold, confusion_matrix(ratings, gold.categories), ratings)]

-----------------------------------------------------------------------------
(* Reliability: a corpus beside a blind second pass, joined by a crosswalk. *)

_load_corpus_lookup(corpus) == [e \in {x.entry : x \in corpus.entries} |-> CHOOSE x \in corpus.entries : x.entry = e]
_load_blind_lookup(blind) == blind.verdicts

\* Too few labels of a category, by either rater, and a figure means little.
build_stratum_report(n, ratings, matrix, reference) ==
    [n |-> n, ratings |-> ratings, matrix |-> matrix,
     observed |-> observed_agreement(matrix), baseline |-> majority_baseline(matrix, reference),
     kappa |-> cohen_kappa(matrix), alpha |-> krippendorff_alpha_nominal(matrix),
     linear |-> weighted_kappa(matrix, "linear"), quadratic |-> weighted_kappa(matrix, "quadratic"),
     prf |-> per_category_prf(matrix, reference),
     below_power |-> \E k \in DOMAIN matrix : \/ row_marginals(matrix)[k] < BELOW_POWER_THRESHOLD
                                              \/ col_marginals(matrix)[k] < BELOW_POWER_THRESHOLD]

\* One stratum: every declared item must be in both, under the declared title,
\* with a label the crosswalk maps.
_build_one_stratum(stratum, reference, corpus, blind) ==
    LET items == stratum.items
        In(i) == /\ items[i].entry \in DOMAIN corpus /\ items[i].blind \in DOMAIN blind
                 /\ corpus[items[i].entry].title \in {None, items[i].title}
                 /\ corpus[items[i].entry].relation \in DOMAIN stratum.pipeline_map
                 /\ blind[items[i].blind] \in DOMAIN stratum.blind_map
        labels == [item \in {items[i].blind : i \in DOMAIN items} |->
                      LET i == CHOOSE k \in DOMAIN items : items[k].blind = item /\
                                   \A l \in DOMAIN items : items[l].blind = item => l <= k
                      IN  [a |-> stratum.pipeline_map[corpus[items[i].entry].relation],
                           b |-> stratum.blind_map[blind[items[i].blind]]]]
    IN  IF \E i \in DOMAIN items : ~In(i) THEN None
        ELSE build_stratum_report(Len(items), labels, confusion_matrix(labels, stratum.categories), reference)

agreement_build_report(crosswalk, corpus, blind) ==
    CASE crosswalk = None \/ crosswalk.doc # "crosswalk" \/ corpus = None \/ corpus.doc # "corpus" \/ blind = None
            -> [exit |-> 2]
      [] OTHER ->
         LET strata == [s \in DOMAIN crosswalk.strata |->
                           _build_one_stratum(crosswalk.strata[s], crosswalk.reference,
                                              _load_corpus_lookup(corpus), _load_blind_lookup(blind))]
         IN  IF None \in Range(strata) THEN [exit |-> 3]
             ELSE [exit |-> 0, report |-> [doc |-> "agreement", crosswalk |-> crosswalk, strata |-> strata]]

-----------------------------------------------------------------------------
(* Citation audit.  A title is the sequence of what normalise_title leaves  *)
(* of it, empty when there is none.                                         *)

title_matches(claimed, resolved) ==
    \/ claimed = resolved
    \/ /\ claimed # <<>> /\ resolved # <<>>
       /\ IsPrefix(claimed, resolved) \/ IsPrefix(resolved, claimed)

_is_wellformed(citation) == citation.wellformed

\* None when the snapshot has no resolution for a well-formed citation.
classify_citation(citation, resolution) ==
    CASE ~_is_wellformed(citation) -> "malformed"
      [] resolution = None -> None
      [] resolution.unverifiable -> "unverifiable"
      [] ~resolution.resolved -> "not_found"
      [] citation.title # None /\ ~title_matches(citation.title, resolution.title) -> "title_mismatch"
      [] OTHER -> "resolved"

classify_citations(citations, resolutions) ==
    LET Of(c) == {r \in resolutions : r.citation = c.citation}
    IN  [c \in {citations[i].citation : i \in DOMAIN citations} |->
            LET entry == citations[CHOOSE i \in DOMAIN citations : citations[i].citation = c]
            IN  classify_citation(entry, IF Of(entry) = {} THEN None ELSE CHOOSE r \in Of(entry) : TRUE)]

_parse_manifest(file) == IF file # None /\ file.doc = "manifest" THEN file.citations ELSE None
_parse_snapshot(file) == IF file # None /\ file.doc = "resolutions" THEN [set |-> file.resolutions] ELSE None

citation_build_report(manifest, snapshot) ==
    IF _parse_manifest(manifest) = None \/ _parse_snapshot(snapshot) = None THEN [exit |-> 2]
    ELSE LET verdicts == classify_citations(_parse_manifest(manifest), _parse_snapshot(snapshot).set)
         IN  IF None \in Range(verdicts) THEN [exit |-> 3]
             ELSE [exit |-> 0, report |-> [doc |-> "audit", manifest |-> manifest, snapshot |-> snapshot, verdicts |-> verdicts]]

-----------------------------------------------------------------------------
(* Field observation: the descriptor's hashes gate the audit. *)

check_anchor(declared, actual) == IF declared = actual THEN "anchor_ok" ELSE "anchor_mismatch"
check_and_gate(results) == "anchor_mismatch" \notin results
=============================================================================
