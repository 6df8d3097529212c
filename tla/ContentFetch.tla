---------------------------- MODULE ContentFetch ----------------------------
(***************************************************************************)
(* scripts/fetch_source_content.py: the abstracts of a manifest's           *)
(* citations.  A request is a record [url, ids] or [url, doi]; the answer   *)
(* of the service is a record whose kind says what came back.  A result is  *)
(* [ok |-> TRUE, value |-> ...] or [ok |-> FALSE, error |-> ..., code |-> n].*)
(* A hash stands for what was hashed.                                       *)
(***************************************************************************)
EXTENDS Naturals, Sequences, SequencesExt

CONSTANT None

Value(v) == [ok |-> TRUE, value |-> v]
Raise(error) == [ok |-> FALSE, error |-> error, code |-> 0]

ALLOWED_HOSTS == {"export.arxiv.org", "api.crossref.org"}
ARXIV_QUERY_URL == [scheme |-> "https", host |-> "export.arxiv.org"]
CROSSREF_WORKS_URL == [scheme |-> "https", host |-> "api.crossref.org"]
_REDIRECT_STATUS_CODES == {301, 302, 303, 307, 308}

_check_allowlisted(url) == url.scheme = "https" /\ url.host \in ALLOWED_HOSTS

\* No redirect handler: a 3xx answer is an HTTPError like any other.
_NoRedirectHandler(answer) == answer.kind = "http" /\ answer.code \in _REDIRECT_STATUS_CODES

\* A service that cannot be reached raises URLError, which nobody catches.
_open_url(url, answer) ==
    CASE ~_check_allowlisted(url)     -> Raise("EgressRefusedError")
      [] _NoRedirectHandler(answer)   -> Raise("RedirectRefusedError")
      [] answer.kind = "http"         -> [Raise("HTTPError") EXCEPT !.code = answer.code]
      [] answer.kind = "unreachable"  -> Raise("URLError")
      [] answer.kind = "too_large"    -> Raise("ResponseTooLargeError")
      [] OTHER                        -> Value(answer)

\* An abstract is absent, blank, only a title block, or text.
strip_jats_tags(abstract) == IF abstract = "title_only" THEN "blank" ELSE abstract
_normalize_excerpt_whitespace(abstract) == IF abstract = "blank" THEN "" ELSE abstract
Usable(abstract) == abstract \notin {"absent", ""}

_refuse_if_dtd_declared(body) == body.kind = "dtd"
_has_version_suffix(id) == id.version # 0
_arxiv_base_id(id) == id.base

\* Mutant of _match_arxiv_entry: any version will do.
_match_arxiv_base(requested, entries) ==
    LET hits == SelectSeq(entries, LAMBDA e : _arxiv_base_id(e.id) = requested.base)
    IN  IF hits = <<>> THEN None ELSE Head(hits)

\* A versioned id asks for exactly that version.
_match_arxiv_entry(requested, entries) ==
    LET hits == SelectSeq(entries, LAMBDA e :
                    IF _has_version_suffix(requested) THEN e.id = requested ELSE _arxiv_base_id(e.id) = requested.base)
    IN  IF hits = <<>> THEN None ELSE Head(hits)

Available(text) == [available |-> TRUE, text |-> text, reason |-> None]
Unavailable(reason) == [available |-> FALSE, text |-> None, reason |-> reason]

\* One result per requested id, in order.
parse_arxiv_summaries(body, requested_ids) ==
    IF _refuse_if_dtd_declared(body) THEN Raise("XmlDtdRefusedError")
    ELSE IF body.kind # "atom" THEN Raise("UpstreamRefusedError")
    ELSE LET entries == SelectSeq(body.entries, LAMBDA e : e.id # None)
             Result(requested) ==
                 LET match == _match_arxiv_entry(requested, entries)
                 IN  CASE match = None -> Unavailable("arxiv_entry_not_found")
                       [] match # None /\ ~Usable(_normalize_excerpt_whitespace(match.summary))
                              -> Unavailable("arxiv_summary_absent")
                       [] OTHER -> Available(match.id)
         IN  Value([i \in DOMAIN requested_ids |-> Result(requested_ids[i])])

fetch_arxiv_batch(requested_ids, answer) ==
    LET raw == _open_url(ARXIV_QUERY_URL, answer)
    IN  CASE raw.ok -> parse_arxiv_summaries(raw.value, requested_ids)
          [] ~raw.ok /\ raw.error = "HTTPError" -> Raise("UpstreamRefusedError")
          [] OTHER -> raw

parse_crossref_abstract(body, doi) ==
    IF body.kind # "json" THEN Raise("UpstreamRefusedError")
    ELSE Value(IF Usable(_normalize_excerpt_whitespace(strip_jats_tags(body.abstract)))
               THEN Available(doi) ELSE Unavailable("crossref_abstract_absent"))

\* A 404 is an answer, any other status a refusal.
fetch_crossref_abstract(doi, answer) ==
    LET raw == _open_url(CROSSREF_WORKS_URL, answer)
    IN  CASE raw.ok -> parse_crossref_abstract(raw.value, doi)
          [] ~raw.ok /\ raw.code = 404 -> Value(Unavailable("crossref_work_not_found"))
          [] ~raw.ok /\ raw.code # 404 /\ raw.error = "HTTPError" -> Raise("UpstreamRefusedError")
          [] OTHER -> raw

\* The citations of a manifest file, None when it cannot be read.
read_manifest(file) == IF file # None /\ file.doc = "manifest" THEN file.citations ELSE None

\* Every citation has a resolver; arXiv first.
group_by_resolver(citations) ==
    [ok |-> \A i \in DOMAIN citations : citations[i].arxiv # None \/ citations[i].doi # None,
     arxiv |-> SelectSeq(citations, LAMBDA c : c.arxiv # None),
     doi |-> SelectSeq(citations, LAMBDA c : c.arxiv = None /\ c.doi # None)]

_excerpt_sha256(text) == text
_excerpt_record_to_dict(citation, result) ==
    [citation |-> citation.citation, available |-> result.available, text |-> result.text,
     sha256 |-> _excerpt_sha256(result.text), reason |-> result.reason]

\* The records come sorted by citation id: a set.
build_snapshot_document(fetched_on, records) ==
    [doc |-> "snapshot", fetched_on |-> fetched_on, excerpts |-> ToSet(records)]
=============================================================================
