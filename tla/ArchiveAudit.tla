---------------------------- MODULE ArchiveAudit ----------------------------
(***************************************************************************)
(* What the audits of committed evidence compute: whether the references    *)
(* inside an archived database dump resolve, whether the artifacts its      *)
(* anchors name are in the store the dump names, and whether the excerpts   *)
(* of a content snapshot carry the figures and quotations records claim.    *)
(*                                                                         *)
(* A dump is a sequence of rows, one per object revision; a column that is  *)
(* NULL or unreadable is None.  An excerpt is a sequence of pieces, each a  *)
(* run of digits, a mark or a word: [kind, chars].  A result is             *)
(* [exit |-> 0, ...] or the exit code of the command.                       *)
(***************************************************************************)
EXTENDS Integers, Sequences, SequencesExt, FiniteSets, Functions

CONSTANTS
    None,
    Prose,        \* paper or doi -> its abstract, as a sequence of pieces
    SmallLetter   \* capital letter -> its small letter

-----------------------------------------------------------------------------
(* Anchors of the inputs. *)

check_dump_anchor(declared, actual) == IF declared = actual THEN "anchor_ok" ELSE "anchor_mismatch"

\* Every input read must have the declared hash before any of them is parsed.
check_and_gate(inputs, read) ==
    "anchor_mismatch" \notin {check_dump_anchor(inputs[i].sha256, read[i]) : i \in DOMAIN inputs}

-----------------------------------------------------------------------------
(* Dumps. *)

\* None when the block is missing or unterminated, or a row is unreadable.
parse_objects_copy_block(file) ==
    IF file.doc # "dump" THEN None
    ELSE IF \E i \in DOMAIN file.rows : None \in {file.rows[i].id, file.rows[i].kind, file.rows[i].body} THEN None
    ELSE file.rows

RowsOf(objects, kind) == {objects[i] : i \in {j \in DOMAIN objects : objects[j].kind = kind}}
extract_source_records(objects) == {[source |-> o.id] : o \in RowsOf(objects, "SourceRecord")}
extract_evidence_anchors(objects) == {[anchor |-> o.id, source |-> o.body.source] : o \in RowsOf(objects, "EvidenceAnchor")}
\* Every revision of a claim counts.
extract_claims(objects) ==
    {[claim |-> o.id, evidence |-> o.body.evidence, counter |-> o.body.counter] : o \in RowsOf(objects, "Claim")}

check_anchor_links(anchors, sources) ==
    {[anchor |-> a.anchor, source |-> a.source, dangling |-> a.source \notin sources] : a \in anchors}

check_claim_references(claims, anchors) ==
    LET References(c, relation, cited) ==
            {[claim |-> c.claim, anchor |-> a, relation |-> relation, dangling |-> a \notin anchors] : a \in cited}
    IN  UNION {References(c, "evidence", c.evidence) \cup References(c, "counterevidence", c.counter) : c \in claims}

source_coverage(sources, anchors) ==
    {[source |-> s.source, anchored |-> s.source \in {a.source : a \in anchors}] : s \in sources}
anchor_coverage(anchors, claims) ==
    {[anchor |-> a.anchor, referenced |-> a.anchor \in UNION {c.evidence \cup c.counter : c \in claims}] : a \in anchors}

build_dump_anchoring_report(objects) ==
    LET sources == extract_source_records(objects)
        anchors == extract_evidence_anchors(objects)
        claims == extract_claims(objects)
        links == check_anchor_links(anchors, {s.source : s \in sources})
        references == check_claim_references(claims, {a.anchor : a \in anchors})
    IN  [links |-> links, references |-> references,
         sources |-> source_coverage(sources, anchors), anchors |-> anchor_coverage(anchors, claims),
         violations |-> Cardinality({l \in links : l.dangling}) + Cardinality({r \in references : r.dangling})]

\* The gate, then every dump, from the bytes that were hashed.
anchoring_build_report(inputs, read) ==
    LET parsed == [i \in DOMAIN read |-> parse_objects_copy_block(read[i])]
    IN  IF ~check_and_gate(inputs, read) \/ None \in Range(parsed) THEN [exit |-> 3]
        ELSE [exit |-> 0, report |-> [doc |-> "anchoring", inputs |-> inputs, read |-> read,
                                      dumps |-> [i \in DOMAIN parsed |-> build_dump_anchoring_report(parsed[i])]]]

-----------------------------------------------------------------------------
(* Artifacts. *)

\* A manifest's reference names a root exactly when it is recorded.
extract_run_manifest_store_references(objects) == {[run |-> o.id, root |-> o.body.root] : o \in RowsOf(objects, "RunManifest")}

extract_artifact_anchors(objects) ==
    {[anchor |-> o.id, hash |-> o.body.hash] : o \in {x \in RowsOf(objects, "EvidenceAnchor") : x.body.hash # None}}

\* The manifests must agree whether a root is recorded, and which.
resolve_dump_store_root(manifests) ==
    LET roots == {m.root : m \in manifests}
    IN  IF Cardinality(roots) > 1 THEN [ok |-> FALSE]
        ELSE [ok |-> TRUE, root |-> IF roots = {} THEN None ELSE CHOOSE r \in roots : TRUE]

check_artifact_presence(anchor, root, exists, actual) ==
    [anchor |-> anchor.anchor, hash |-> anchor.hash,
     status |-> CASE root = None -> "store_reference_not_recorded"
                  [] root # None /\ ~exists -> "artifact_missing"
                  [] root # None /\ exists /\ actual # anchor.hash -> "artifact_hash_mismatch"
                  [] OTHER -> "artifact_present"]

\* Missing and altered artifacts are violations, an unrecorded store is not.
build_artifact_presence_report(dump, root, verdicts) ==
    [doc |-> "artifacts", dump |-> dump, root |-> root, verdicts |-> verdicts,
     violations |-> Cardinality({v \in verdicts : v.status \in {"artifact_missing", "artifact_hash_mismatch"}})]

-----------------------------------------------------------------------------
(* Figures and quotations. *)

Width(text, from, to) == FoldLeft(LAMBDA sum, piece : sum + Len(piece.chars), 0, SubSeq(text, from, to))
lower(chars) == [i \in DOMAIN chars |-> IF chars[i] \in DOMAIN SmallLetter THEN SmallLetter[chars[i]] ELSE chars[i]]
\* The characters of a text, in small letters.
Characters(text) == lower(FlattenSeq([i \in DOMAIN text |-> text[i].chars]))

\* Runs of digits joined by a comma before three digits, and by one dot.
find_numerals(text) ==
    LET runs == SelectSeq([i \in DOMAIN text |-> i], LAMBDA i : text[i].kind = "digits")
        Joined(numeral, i, mark) == numeral.last = i - 2 /\ text[i - 1].kind = "mark" /\ text[i - 1].chars = <<mark>>
        Extend(found, i) ==
            LET start == Append(found, [value |-> text[i].chars, start |-> Width(text, 1, i - 1), end |-> Width(text, 1, i),
                                        last |-> i, decimal |-> FALSE])
                through == Width(text, 1, i)
                numeral == Last(found)
            IN  IF found = <<>> THEN start
                ELSE IF Joined(numeral, i, ",") /\ Len(text[i].chars) = 3
                THEN Append(Front(found), [numeral EXCEPT !.value = @ \o text[i].chars, !.last = i, !.end = through])
                ELSE IF Joined(numeral, i, ".") /\ ~numeral.decimal
                THEN Append(Front(found), [numeral EXCEPT !.value = Append(@, ".") \o text[i].chars, !.last = i, !.end = through, !.decimal = TRUE])
                ELSE start
    IN  FoldLeft(Extend, <<>>, runs)

\* Wherever the term begins, inside a word or across words: "accurat" is in "Accuracy".
find_term_occurrences(term, text) ==
    LET chars == Characters(text)
    IN  {[start |-> k, end |-> k + Len(term)] :
            k \in {j \in 0 .. Len(chars) - Len(term) : term # <<>> /\ SubSeq(chars, j + 1, j + Len(term)) = lower(term)}}

_char_gap(a, b) == IF a.end <= b.start THEN b.start - a.end ELSE IF b.end <= a.start THEN a.start - b.end ELSE 0

_all_anchors_within_window(numeral, terms, window, text) ==
    \A term \in terms : \E at \in find_term_occurrences(term, text) : _char_gap(numeral, at) <= window

\* All tokens, each beside all terms.
evaluate_figure_claim(claim, window, text) ==
    LET numerals == ToSet(find_numerals(text))
        Hit(token) == \E n \in numerals : n.value = token /\ _all_anchors_within_window(n, claim.terms, window, text)
    IN  IF text # None /\ \A token \in claim.tokens : Hit(token)
        THEN "figure_supported_in_excerpt" ELSE "figure_absent_from_checked_excerpt"

\* difflib: here the share of equal words, in percent.
SequenceMatcher_ratio(quote, window) ==
    (100 * Cardinality({i \in DOMAIN quote \cap DOMAIN window : quote[i] = window[i]})) \div Len(quote)

\* Verbatim, else in the best window of as many words, else absent.
evaluate_quotation_claim(claim, threshold, text) ==
    LET quote == [i \in DOMAIN claim.text |-> lower(claim.text[i])]
        words == [i \in DOMAIN text |-> lower(text[i].chars)]
        Window(i) == SubSeq(words, i, IF i + Len(quote) - 1 < Len(words) THEN i + Len(quote) - 1 ELSE Len(words))
        last == IF Len(words) > Len(quote) THEN Len(words) - Len(quote) + 1 ELSE 1
    IN  CASE text = None \/ quote = <<>> \/ text = <<>> -> "quotation_absent_from_checked_excerpt"
          [] OTHER -> IF find_term_occurrences(FlattenSeq(quote), text) # {} THEN "quotation_verbatim"
                      ELSE IF \E i \in 1..last : SequenceMatcher_ratio(quote, Window(i)) >= threshold THEN "quotation_altered"
                      ELSE "quotation_absent_from_checked_excerpt"

build_exclusion_verdict(claim) == "claim_excluded"

\* A threshold outside (0, 1] or a kind nobody knows makes the manifest unusable.
_parse_claims_manifest(file) ==
    IF file.doc # "claims" \/ file.threshold \notin 1..100 THEN None
    ELSE IF \E c \in file.claims : c.kind \notin {"figure", "quotation", "excluded"} THEN None
    ELSE file

\* The text of an available excerpt, None of another.
ExcerptText(e) == Prose[IF e.asked.arxiv = None THEN e.asked.doi ELSE e.text.base]
_parse_content_snapshot(file) ==
    IF file.doc # "snapshot" THEN None
    ELSE [c \in {e.citation : e \in file.excerpts} |->
             LET e == CHOOSE x \in file.excerpts : x.citation = c IN IF e.available THEN ExcerptText(e) ELSE None]

\* Only an altered quotation is a violation; absence is an observation.
build_support_audit_report(inputs, read, excerpts, verdicts) ==
    LET Counted(statuses) == Cardinality({v \in verdicts : v.status \in statuses})
    IN  [doc |-> "support", inputs |-> inputs, read |-> read, excerpts |-> excerpts, verdicts |-> verdicts,
         violations |-> Counted({"quotation_altered"}),
         observations |-> Counted({"figure_absent_from_checked_excerpt", "quotation_absent_from_checked_excerpt"})]

\* An excluded claim needs no excerpt; another without an entry ends the audit.
support_build_report(inputs, read) ==
    LET manifest == _parse_claims_manifest(read[1])
        excerpts == _parse_content_snapshot(read[2])
        Verdict(c) == CASE c.kind = "figure" -> evaluate_figure_claim(c, manifest.window, excerpts[c.citation])
                        [] c.kind = "quotation" -> evaluate_quotation_claim(c, manifest.threshold, excerpts[c.citation])
                        [] OTHER -> build_exclusion_verdict(c)
    IN  IF ~check_and_gate(inputs, read) THEN [exit |-> 3]
        ELSE IF None \in {manifest, excerpts} THEN [exit |-> 2]
        ELSE IF \E c \in manifest.claims : c.kind # "excluded" /\ c.citation \notin DOMAIN excerpts THEN [exit |-> 2]
        ELSE [exit |-> 0, report |-> build_support_audit_report(inputs, read, excerpts,
                                          {[claim |-> c, status |-> Verdict(c)] : c \in manifest.claims})]
=============================================================================
