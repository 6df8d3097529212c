--------------------------- MODULE ResolutionFetch ---------------------------
(***************************************************************************)
(* scripts/fetch_citation_resolutions.py: does the source of each citation  *)
(* of a manifest exist, and under which title.  The requests, answers and   *)
(* results are those of ContentFetch, which repeats this script's egress    *)
(* code.                                                                    *)
(***************************************************************************)
EXTENDS Naturals, Sequences, SequencesExt

CONSTANT None

Value(v) == [ok |-> TRUE, value |-> v]
Raise(error) == [ok |-> FALSE, error |-> error, code |-> 0]

ALLOWED_HOSTS == {"export.arxiv.org", "api.crossref.org"}
ARXIV_QUERY_URL == [scheme |-> "https", host |-> "export.arxiv.org"]
CROSSREF_WORKS_URL == [scheme |-> "https", host |-> "api.crossref.org"]
_REDIRECT_STATUS_CODES == {301, 302, 303, 307, 308}

_check_allowlisted(url) == url.scheme = "https" /\ url.host \in ALLOWED_HOSTS
_NoRedirectHandler(answer) == answer.kind = "http" /\ answer.code \in _REDIRECT_STATUS_CODES

_open_url(url, answer) ==
    CASE ~_check_allowlisted(url)     -> Raise("EgressRefusedError")
      [] _NoRedirectHandler(answer)   -> Raise("RedirectRefusedError")
      [] answer.kind = "http"         -> [Raise("HTTPError") EXCEPT !.code = answer.code]
      [] answer.kind = "unreachable"  -> Raise("URLError")
      [] answer.kind = "too_large"    -> Raise("ResponseTooLargeError")
      [] OTHER                        -> Value(answer)

_refuse_if_dtd_declared(body) == body.kind = "dtd"
_has_version_suffix(id) == id.version # 0
_arxiv_base_id(id) == id.base

_match_arxiv_entry(requested, entries) ==
    LET hits == SelectSeq(entries, LAMBDA e :
                    IF _has_version_suffix(requested) THEN e.id = requested ELSE _arxiv_base_id(e.id) = requested.base)
    IN  IF hits = <<>> THEN None ELSE Head(hits)

Resolved(title) == [resolved |-> TRUE, title |-> title]
NotFound == [resolved |-> FALSE, title |-> None]

parse_arxiv_atom(body, requested_ids) ==
    IF _refuse_if_dtd_declared(body) THEN Raise("XmlDtdRefusedError")
    ELSE IF body.kind # "atom" THEN Raise("UpstreamRefusedError")
    ELSE LET entries == SelectSeq(body.entries, LAMBDA e : e.id # None)
             Result(requested) ==
                 LET match == _match_arxiv_entry(requested, entries)
                 IN  IF match = None THEN NotFound ELSE Resolved(match.title)
         IN  Value([i \in DOMAIN requested_ids |-> Result(requested_ids[i])])

fetch_arxiv_batch(requested_ids, answer) ==
    LET raw == _open_url(ARXIV_QUERY_URL, answer)
    IN  CASE raw.ok -> parse_arxiv_atom(raw.value, requested_ids)
          [] ~raw.ok /\ raw.error = "HTTPError" -> Raise("UpstreamRefusedError")
          [] OTHER -> raw

\* Volume, page, date and author are display text and left out.
parse_crossref_work(body, doi) ==
    IF body.kind # "json" THEN Raise("UpstreamRefusedError") ELSE Value(Resolved(body.title))

fetch_crossref_work(doi, answer) ==
    LET raw == _open_url(CROSSREF_WORKS_URL, answer)
    IN  CASE raw.ok -> parse_crossref_work(raw.value, doi)
          [] ~raw.ok /\ raw.code = 404 -> Value(NotFound)
          [] ~raw.ok /\ raw.code # 404 /\ raw.error = "HTTPError" -> Raise("UpstreamRefusedError")
          [] OTHER -> raw

read_manifest(file) == IF file # None /\ file.doc = "manifest" THEN file.citations ELSE None

group_by_resolver(citations) ==
    [ok |-> \A i \in DOMAIN citations : citations[i].arxiv # None \/ citations[i].doi # None,
     arxiv |-> SelectSeq(citations, LAMBDA c : c.arxiv # None),
     doi |-> SelectSeq(citations, LAMBDA c : c.arxiv = None /\ c.doi # None)]

\* The script never writes the hand-made flag "unverifiable".
_resolution_record_to_dict(citation, result) ==
    [citation |-> citation.citation, resolved |-> result.resolved, title |-> result.title, unverifiable |-> FALSE]

build_snapshot_document(fetched_on, records) ==
    [doc |-> "resolutions", fetched_on |-> fetched_on, resolutions |-> ToSet(records)]
=============================================================================
