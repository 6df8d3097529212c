-------------------------- MODULE LiteratureChannel --------------------------
(***************************************************************************)
(* The literature channel and the harnesses beside it, as commands over     *)
(* files: the nightly field watch, the draw of a batch, the fetch of its    *)
(* abstracts, the blind commission, the model's classification, the corpus; *)
(* the fetch of citation resolutions and their audit, the anchored field    *)
(* observation, the measurement against the gold standard and of agreement. *)
(*                                                                         *)
(* A command is a process: it looks whether its output exists, reads files, *)
(* asks services, and writes.  Some outputs are moved into place, others    *)
(* are written in place and are torn when the process dies on the way.      *)
(* Meanwhile papers appear and are revised, and people edit files.          *)
(***************************************************************************)
EXTENDS Measurement, TLC

CONSTANTS
    Processes,
    Papers,       \* the papers that may appear on arXiv, sorted by id: a sequence
    About,        \* paper -> [old, fits, summary, title, queries]: what a search and a fetch find
    Works,        \* doi -> [abstract, title]: the works Crossref knows
    FirstArxiv,   \* the papers already on arXiv, in order of submission
    Queries,      \* the frozen searches, a sequence
    MaxResults,   \* how many results, newest first, a search returns
    HashOrder,    \* salt -> the papers in the order of sha256(salt + id)
    FirstDisk,    \* the files in the repository; its domain are all paths
    Prose,        \* paper or doi -> its abstract, as a sequence of pieces
    SmallLetter,  \* capital letter -> its small letter
    BlobPath,     \* artifact store -> hash -> the path of that artifact
    MaxRepairs, MaxRetries,
    MinIncluded,  \* the least number of entries of a corpus
    Work          \* bound: workloads, each what may happen and how often

ASSUME ChannelConstants ==
    /\ IsInjective(Papers) /\ ToSet(FirstArxiv) \subseteq ToSet(Papers)
    /\ DOMAIN About = ToSet(Papers)
    /\ MaxResults \in Nat \ {0} /\ MaxRepairs \in Nat /\ MaxRetries \in Nat /\ MinIncluded \in Nat
    /\ \A salt \in DOMAIN HashOrder : ToSet(HashOrder[salt]) = ToSet(Papers) /\ IsInjective(HashOrder[salt])

C == INSTANCE ContentFetch
R == INSTANCE ResolutionFetch
M == INSTANCE ModelAdapter
A == INSTANCE ArchiveAudit

VARIABLES
    arxiv,     \* [published: sequence of papers, version: paper -> its latest version]
    disk,      \* path -> the document there, or None
    call,      \* process -> the command it runs, or None
    outcomes,  \* what became of the commands
    work

vars == <<arxiv, disk, call, outcomes, work>>

Use(w) == w \in DOMAIN work /\ work[w] > 0 /\ work' = [work EXCEPT ![w] = @ - 1]
Torn == [doc |-> "torn"]
Is(path, doc) == disk[path] # None /\ disk[path].doc = doc

At(p, op) == call[p] # None /\ call[p].op = op
Goto(p, c) == call' = [call EXCEPT ![p] = c]
Exit(p, code) ==
    /\ Goto(p, None)
    /\ outcomes' = Append(outcomes, [args |-> call[p].args, exit |-> code, op |-> call[p].op, seen |-> call[p].seen,
                                     since |-> call[p].since, got |-> call[p].got])
\* A command starts: code is the exit code of its first checks.
Begin(p, args, code, op, got) ==
    LET started == [op |-> op, args |-> args, seen |-> Len(outcomes), since |-> arxiv, got |-> got]
    IN  /\ call[p] = None /\ Use(<<"command", args>>)
        /\ IF code = 0 THEN Goto(p, started) /\ UNCHANGED outcomes
           ELSE /\ outcomes' = Append(outcomes, [args |-> args, exit |-> code, op |-> op, seen |-> Len(outcomes),
                                                 since |-> arxiv, got |-> got])
                /\ UNCHANGED call
        /\ UNCHANGED <<arxiv, disk>>
Continue(p, op, got) == Goto(p, [call[p] EXCEPT !.op = op, !.got = got]) /\ UNCHANGED outcomes
\* A command that computes one document from files, or ends with a code.
Compute(p, op, next, result) ==
    /\ At(p, op) /\ UNCHANGED <<arxiv, disk, work>>
    /\ IF result.exit = 0 THEN Continue(p, next, [docs |-> <<[path |-> call[p].args.output, doc |-> result.report]>>])
       ELSE Exit(p, result.exit)

-----------------------------------------------------------------------------
(* The world. *)

Publish(paper) ==
    /\ paper \notin ToSet(arxiv.published) /\ Use(<<"publish", paper>>)
    /\ arxiv' = [arxiv EXCEPT !.published = Append(@, paper)]
    /\ UNCHANGED <<disk, call, outcomes>>

Revise(paper) ==
    /\ paper \in ToSet(arxiv.published) /\ Use(<<"revise", paper>>)
    /\ arxiv' = [arxiv EXCEPT !.version[paper] = @ + 1]
    /\ UNCHANGED <<disk, call, outcomes>>

\* Somebody commits another file at a path.
Edit(path, doc) ==
    /\ Use(<<"edit", path, doc>>)
    /\ disk' = [disk EXCEPT ![path] = doc]
    /\ outcomes' = Append(outcomes, [args |-> [cmd |-> "edit", output |-> path], exit |-> 0, op |-> "edit",
                                     seen |-> Len(outcomes), since |-> arxiv, got |-> None])
    /\ UNCHANGED <<arxiv, call>>

\* A command's process dies.
Crash(p) ==
    /\ call[p] # None /\ Use(<<"crash">>)
    /\ Exit(p, 137)
    /\ UNCHANGED <<arxiv, disk>>

\* arXiv answers a batch with the entries it has: of the version asked for,
\* or of the latest.
Entry(id) ==
    LET version == IF id.version = 0 THEN arxiv.version[id.base] ELSE id.version
    IN  [id |-> [base |-> id.base, version |-> version], summary |-> About[id.base].summary, title |-> About[id.base].title]
Exists(world, id) == id.base \in ToSet(world.published) /\ id.version <= world.version[id.base]
ArxivAnswer(ids) ==
    LET known == SelectSeq(ids, LAMBDA id : Exists(arxiv, id))
    IN  [kind |-> "atom", entries |-> [i \in DOMAIN known |-> Entry(known[i])]]
CrossrefAnswer(doi) ==
    IF doi \in DOMAIN Works THEN [kind |-> "json"] @@ Works[doi] ELSE [kind |-> "http", code |-> 404]
\* Or something goes wrong.
ServiceAnswers(answer) ==
    {[answer |-> answer, w |-> None]} \cup {[answer |-> w[2], w |-> w] : w \in {v \in DOMAIN work : v[1] = "net"}}
Answered(choice) == IF choice.w = None THEN UNCHANGED work ELSE Use(choice.w)

-----------------------------------------------------------------------------
(* Writing. *)

\* write_text in place: the file is opened, and thereby emptied.
OpenForWriting(p) ==
    /\ At(p, "write")
    /\ disk' = [disk EXCEPT ![Head(call[p].got.docs).path] = Torn]
    /\ Continue(p, "fill", call[p].got)
    /\ UNCHANGED <<arxiv, work>>

FillFile(p) ==
    LET docs == call[p].got.docs
    IN  /\ At(p, "fill") /\ UNCHANGED <<arxiv, work>>
        /\ disk' = [disk EXCEPT ![Head(docs).path] = Head(docs).doc]
        /\ IF Len(docs) = 1 THEN Exit(p, 0) ELSE Continue(p, "write", [call[p].got EXCEPT !.docs = Tail(docs)])

\* A finished temporary file is moved over whatever is there by now.
_write_atomically(p) ==
    LET file == Head(call[p].got.docs)
    IN  /\ At(p, "replace") /\ UNCHANGED <<arxiv, work>>
        /\ disk' = [disk EXCEPT ![file.path] = file.doc]
        /\ Exit(p, 0)

-----------------------------------------------------------------------------
(* The field watch. *)

passes_inclusion(paper) == About[paper].fits

\* The searches and the register are read once, at the start.
watch_field_run(p, args) ==
    /\ args.cmd = "watch"
    /\ Begin(p, args, IF Is(args.register, "register") THEN 0 ELSE 1, "search",
             IF Is(args.register, "register") THEN [query |-> 1, found |-> {}, known |-> disk[args.register].ids]
             ELSE [query |-> 0])

\* The newest results of one search.
SearchAnswer(query) ==
    LET hits == SelectSeq(arxiv.published, LAMBDA paper : query \in About[paper].queries)
    IN  [kind |-> "atom", entries |-> SubSeq(hits, IF Len(hits) > MaxResults THEN Len(hits) - MaxResults + 1 ELSE 1, Len(hits))]

\* The opener refuses every redirect, other statuses and timeouts raise.
_open(answer) ==
    CASE answer.kind = "http" /\ answer.code \in {301, 302, 303, 307, 308} -> "EgressRefusedError"
      [] answer.kind = "unreachable" \/ (answer.kind = "http" /\ answer.code \notin {301, 302, 303, 307, 308}) -> "URLError"
      [] OTHER -> "payload"

\* None when the payload declares a DTD, is cut at the size limit, or is no XML.
parse_atom(answer) == IF answer.kind = "atom" THEN ToSet(answer.entries) ELSE None

\* Mutant of _search: a search that failed found nothing.
_search_forgiving(answer) ==
    [exit |-> 0, entries |-> IF parse_atom(answer) = None THEN {} ELSE parse_atom(answer)]

\* A redirect is refused, every other failure ends the sweep.
_search(answer) ==
    CASE _open(answer) = "EgressRefusedError" -> [exit |-> 3]
      [] _open(answer) = "payload" /\ parse_atom(answer) # None -> [exit |-> 0, entries |-> parse_atom(answer)]
      [] OTHER -> [exit |-> 2]

\* One search of the sweep: new, not too old, and fitting the subject.
Sweep(p) ==
    LET got == call[p].got
    IN  /\ At(p, "search") /\ UNCHANGED <<arxiv, disk>>
        /\ \E choice \in ServiceAnswers(SearchAnswer(Queries[got.query])) :
              LET result == _search(choice.answer)
                  new == {e \in result.entries : e \notin got.known /\ ~About[e].old /\ passes_inclusion(e)}
              IN  /\ Answered(choice)
                  /\ IF result.exit # 0 THEN Exit(p, result.exit)
                     ELSE Continue(p, IF got.query = Len(Queries) THEN "observe" ELSE "search",
                                   [got EXCEPT !.query = @ + 1, !.found = @ \cup new])

\* Nothing new writes nothing; otherwise the observation, then the register.
WriteObservation(p) ==
    LET got == call[p].got
        args == call[p].args
    IN  /\ At(p, "observe") /\ UNCHANGED <<arxiv, disk, work>>
        /\ IF got.found = {} \/ args.dry_run THEN Exit(p, 0)
           ELSE IF disk[args.output] # None THEN Exit(p, 3)
           ELSE Continue(p, "write", got @@ [docs |->
                    <<[path |-> args.output, doc |-> [doc |-> "observation", new |-> got.found]],
                      [path |-> args.register, doc |-> [doc |-> "register", ids |-> got.known \cup got.found]]>>])

-----------------------------------------------------------------------------
(* The draw of a batch. *)

read_pool(pool) == {c.arxiv : c \in {d \in pool.candidates : ~d.drawn}}

read_observation(observation) == observation.new

\* The first `size` candidates in the order of sha256(salt + id).
draw(candidates, salt, size) ==
    IF size < 1 \/ Cardinality(candidates) < size THEN None
    ELSE SubSeq(SelectSeq(HashOrder[salt], LAMBDA paper : paper \in candidates), 1, size)

build_manifest(drawn) ==
    [doc |-> "manifest", drawn |-> TRUE,
     citations |-> [i \in DOMAIN drawn |-> [citation |-> drawn[i], arxiv |-> [base |-> drawn[i], version |-> 0], doi |-> None,
                                            title |-> About[drawn[i]].title, wellformed |-> TRUE]]]

draw_backlog_run(p, args) ==
    /\ args.cmd = "draw"
    /\ Begin(p, args, IF disk[args.output] # None THEN 3 ELSE 0, "draw", None)

\* From the pool a sample, from an observation everything.
DrawBatch(p) ==
    LET args == call[p].args
        source == disk[args.source]
        drawn == IF source.doc = "pool" THEN draw(read_pool(source), args.batch, args.size)
                 ELSE SelectSeq(Papers, LAMBDA paper : paper \in read_observation(source))
    IN  Compute(p, "draw", "replace",
                CASE source = None -> [exit |-> 2]
                  [] source # None /\ source.doc \notin {"pool", "observation"} -> [exit |-> 2]
                  [] source # None /\ source.doc \in {"pool", "observation"} /\ drawn \in {None, <<>>} -> [exit |-> 3]
                  [] OTHER -> [exit |-> 0, report |-> build_manifest(drawn)])

-----------------------------------------------------------------------------
(* The two fetches: one batch for arXiv, then one request per DOI. *)

FetchBegins(p, args, conflict, citations, groups) ==
    Begin(p, args,
          CASE disk[args.output] # None -> conflict
            [] citations = None -> 2
            [] citations # None /\ ~groups.ok -> 3
            [] OTHER -> 0,
          "fetch",
          IF citations = None THEN None
          ELSE [batch |-> groups.arxiv, dois |-> groups.doi, records |-> <<>>])

content_main(p, args) ==
    args.cmd = "fetch" /\ LET citations == C!read_manifest(disk[args.manifest])
                          IN  FetchBegins(p, args, 3, citations, C!group_by_resolver(citations))
resolution_main(p, args) ==
    args.cmd = "resolve" /\ LET citations == R!read_manifest(disk[args.manifest])
                            IN  FetchBegins(p, args, 1, citations, R!group_by_resolver(citations))

\* Typed refusals are caught, URLError is not.
FetchExit(error) == IF error = "URLError" THEN 1 ELSE 3

\* One request: FromArxiv and FromCrossref read its answer, ToRecord renders a
\* result, ToDocument the snapshot.
Request(p, cmd, FromArxiv(_, _), FromCrossref(_, _), ToRecord(_, _), ToDocument(_)) ==
    LET got == call[p].got
        batch == got.batch # <<>>
        asked == IF batch THEN got.batch ELSE <<Head(got.dois)>>
        ids == [i \in DOMAIN asked |-> asked[i].arxiv]
        truth == IF batch THEN ArxivAnswer(ids) ELSE CrossrefAnswer(asked[1].doi)
    IN  /\ At(p, "fetch") /\ call[p].args.cmd = cmd /\ UNCHANGED <<arxiv, disk>>
        /\ IF ~batch /\ got.dois = <<>>
           THEN /\ Continue(p, "write", [docs |-> <<[path |-> call[p].args.output, doc |-> ToDocument(got.records)]>>])
                /\ UNCHANGED work
           ELSE \E choice \in ServiceAnswers(truth) :
                   LET result == IF batch THEN FromArxiv(ids, choice.answer) ELSE FromCrossref(asked[1].doi, choice.answer)
                       records == [i \in DOMAIN asked |-> ToRecord(asked[i], IF batch THEN result.value[i] ELSE result.value)]
                   IN  /\ Answered(choice)
                       /\ IF result.ok
                          THEN Continue(p, "fetch", [batch |-> <<>>, dois |-> IF batch THEN got.dois ELSE Tail(got.dois),
                                                     records |-> got.records \o records])
                          ELSE Exit(p, FetchExit(result.error))

\* manifest is the path the document names; since is history.
fetch_all_excerpts(p) ==
    Request(p, "fetch", C!fetch_arxiv_batch, C!fetch_crossref_abstract,
            LAMBDA c, result : C!_excerpt_record_to_dict(c, result) @@ [asked |-> [arxiv |-> c.arxiv, doi |-> c.doi]],
            LAMBDA records : C!build_snapshot_document("date", records) @@ [manifest |-> call[p].args.manifest])
resolve_all(p) ==
    Request(p, "resolve", R!fetch_arxiv_batch, R!fetch_crossref_work, R!_resolution_record_to_dict,
            LAMBDA records : R!build_snapshot_document("date", records) @@ [since |-> call[p].since])

-----------------------------------------------------------------------------
(* The blind commission. *)

\* This channel anchors against arXiv only.
load_manifest(file) ==
    IF file = None \/ file.doc # "manifest" \/ file.citations = <<>> THEN None
    ELSE IF \E i \in DOMAIN file.citations : file.citations[i].arxiv = None THEN None
    ELSE file.citations

\* Anchored and unanchored citations; a text whose hash differs is refused.
load_snapshot(file) ==
    IF file = None \/ file.doc # "snapshot" THEN None
    ELSE IF \E e \in file.excerpts : e.available /\ e.sha256 # e.text THEN None
    ELSE [anchored |-> [c \in {e.citation : e \in {f \in file.excerpts : f.available}} |->
                           (CHOOSE e \in file.excerpts : e.citation = c).text],
          unanchored |-> {e.citation : e \in {f \in file.excerpts : ~f.available}}]

\* A case holds the excerpt and the claim and no answer.  In what a command
\* writes, from (its arguments) and seen (when it began) are history.
build_commission(citations, anchored, criteria, claim) ==
    LET cited == SelectSeq(citations, LAMBDA c : c.citation \in DOMAIN anchored)
    IN  [doc |-> "commission", criteria |-> criteria.version, answers |-> FALSE,
         cases |-> [i \in DOMAIN cited |-> [case |-> cited[i].citation, claim |-> claim, excerpt |-> anchored[cited[i].citation]]]]

run_commission_command(p, args) ==
    /\ args.cmd = "commission"
    /\ Begin(p, args, IF disk[args.output] # None THEN 3 ELSE 0, "commission", None)

BuildCommission(p) ==
    LET args == call[p].args
        citations == load_manifest(disk[args.manifest])
        snapshot == load_snapshot(disk[args.snapshot])
        document == build_commission(citations, snapshot.anchored, disk[args.criteria], args.claim)
    IN  Compute(p, "commission", "replace",
                CASE citations = None \/ snapshot = None \/ ~Is(args.criteria, "criteria") -> [exit |-> 2]
                  [] OTHER -> IF document.cases = <<>> THEN [exit |-> 3] ELSE [exit |-> 0, report |-> document @@ [from |-> args, seen |-> call[p].seen]])

-----------------------------------------------------------------------------
(* Classification. *)

RELATION_CATEGORIES == <<"supports", "contradicts", "qualifies", "contextualizes">>

load_criteria(file) == file # None /\ file.doc = "criteria"
\* A commission that carries answers is refused, an unreadable one cannot be used.
load_cases(file) == IF file = None \/ file.doc # "commission" THEN 2 ELSE IF file.answers THEN 3 ELSE 0

_require_api_key(args) == args.key

\* No adapter, or no model name.
_build_adapter(args) == IF args.adapter = "gemini" /\ args.model # None THEN 0 ELSE 2

run_relations_command(p, args) ==
    /\ args.cmd = "classify"
    /\ Begin(p, args,
             CASE disk[args.output] # None -> 3
               [] ~load_criteria(disk[args.criteria]) -> 2
               [] load_cases(disk[args.cases]) # 0 -> load_cases(disk[args.cases])
               [] OTHER -> _build_adapter(args),
             "classify",
             [criteria |-> disk[args.criteria], commission |-> disk[args.cases], attempts |-> <<>>, heard |-> <<>>,
              retries |-> 0, proposals |-> <<>>])

\* Mutant of NO_ANSWER_STATUSES: a refusal is asked again.
NO_GOOD_ANSWER_STATUSES == {"error", "timed_out", "refused", "content_filtered"}

NO_ANSWER_STATUSES == {"error", "timed_out"}

\* Only the last round's attempts are kept; heard is history.
RelationProposal(case, status, verdict, attempts, retries, heard) ==
    [case |-> case, status |-> status, attempts |-> attempts, retries |-> retries, heard |-> heard,
     rationale |-> verdict # None /\ verdict.rationale,
     undecidable |-> verdict # None /\ verdict.relation = "undecidable",
     relation |-> IF verdict # None /\ verdict.relation # "undecidable" THEN verdict.relation ELSE None]

\* A proposal without a reason is no proposal: the model's answer passed the
\* schema, the record refuses it, and the whole run with it.
_check_shape(verdict) == verdict.rationale

\* One call of the model for the case in hand; the key is looked up per call.
_classify_one(p) ==
    LET got == call[p].got
        cases == got.commission.cases
        case == cases[Len(got.proposals) + 1]
    IN  /\ At(p, "classify") /\ Len(got.proposals) < Len(cases) /\ UNCHANGED <<arxiv, disk>>
        /\ IF ~_require_api_key(call[p].args) THEN Exit(p, 1) /\ UNCHANGED work
           ELSE \E w \in {v \in DOMAIN work : v[1] = "model"} :
              LET outcome == M!invoke("raw_permitted", w[2])
                  attempts == Append(got.attempts, outcome.status)
                  heard == Append(got.heard, outcome.status)
                  status == M!generate_structured(outcome, Len(attempts), MaxRepairs)
                  verdict == IF status = "proposal" THEN outcome.text ELSE None
              IN  /\ Use(w)
                  /\ CASE status = "repair" -> Continue(p, "classify", [got EXCEPT !.attempts = attempts, !.heard = heard])
                       [] status \in NO_ANSWER_STATUSES /\ got.retries < MaxRetries ->
                             Continue(p, "classify", [got EXCEPT !.attempts = <<>>, !.heard = heard, !.retries = @ + 1])
                       [] status = "proposal" /\ ~_check_shape(verdict) -> Exit(p, 3)
                       [] OTHER ->
                             Continue(p, "classify",
                                [got EXCEPT !.attempts = <<>>, !.heard = <<>>, !.retries = 0,
                                    !.proposals = Append(@, RelationProposal(case.case, status, verdict, attempts, got.retries, heard))])

failed_case_ids(proposals) == {i \in DOMAIN proposals : proposals[i].status # "proposal"}

\* All cases are answered, or nothing is written.
classify(p) ==
    LET got == call[p].got
        proposals == got.proposals
    IN  /\ At(p, "classify") /\ Len(proposals) = Len(got.commission.cases) /\ UNCHANGED <<arxiv, disk, work>>
        /\ IF failed_case_ids(proposals) # {} \/ ~IsInjective([i \in DOMAIN proposals |-> proposals[i].case])
           THEN Exit(p, 3)
           ELSE Continue(p, "replace", [docs |-> <<[path |-> call[p].args.output,
                    doc |-> [doc |-> "proposals", commission |-> got.commission, criteria |-> got.criteria.version,
                             proposals |-> proposals, from |-> call[p].args, seen |-> call[p].seen]]>>])

-----------------------------------------------------------------------------
(* The corpus. *)

load_proposals(file) ==
    IF file = None \/ file.doc # "proposals" THEN None
    ELSE [c \in {file.proposals[i].case : i \in DOMAIN file.proposals} |->
             file.proposals[CHOOSE i \in DOMAIN file.proposals : file.proposals[i].case = c]]

\* Unanchored sources are skipped, a source without a proposal or a relation
\* without a reason is refused, an undecided source is listed.
build_entries(citations, snapshot, proposals) ==
    LET read == {c \in ToSet(citations) : c.citation \in DOMAIN snapshot.anchored \ snapshot.unanchored}
        decided == {c \in read : proposals[c.citation].relation # None}
    IN  IF {c.citation : c \in read} \subseteq DOMAIN proposals /\ \A c \in decided : proposals[c.citation].rationale
        THEN [ok |-> TRUE, undecidable |-> {c.citation : c \in read \ decided},
              entries |-> {[entry |-> c.citation, relation |-> proposals[c.citation].relation, title |-> c.title,
                            excerpt |-> snapshot.anchored[c.citation]] : c \in decided}]
        ELSE [ok |-> FALSE]

run_build_command(p, args) ==
    /\ args.cmd = "build"
    /\ Begin(p, args, IF disk[args.output] # None THEN 3 ELSE 0, "build", None)

BuildEntries(p) ==
    LET args == call[p].args
        citations == load_manifest(disk[args.manifest])
        snapshot == load_snapshot(disk[args.snapshot])
        proposals == load_proposals(disk[args.proposals])
        built == build_entries(citations, snapshot, proposals)
    IN  /\ At(p, "build") /\ UNCHANGED <<arxiv, disk, work>>
        /\ CASE citations = None \/ snapshot = None \/ proposals = None -> Exit(p, 2)
             [] OTHER ->
                IF ~built.ok \/ Cardinality(built.entries) < MinIncluded THEN Exit(p, 3)
                ELSE Continue(p, "pin", [doc |-> "corpus", entries |-> built.entries, undecidable |-> built.undecidable,
                                         unverifiable |-> snapshot.unanchored, drawn |-> Len(citations),
                                         proposals |-> disk[args.proposals], snapshot |-> disk[args.snapshot],
                                         manifest |-> disk[args.manifest], from |-> args, seen |-> call[p].seen])

\* The siblings name the inputs by hash: the files are read a second time.
build_siblings(p) ==
    /\ At(p, "pin") /\ UNCHANGED <<arxiv, disk, work>>
    /\ Continue(p, "move", call[p].got @@ [pinned |-> [manifest |-> disk[call[p].args.manifest],
                                                      snapshot |-> disk[call[p].args.snapshot]]])

\* The finished directory is moved into place; over another it cannot be.
MoveCorpus(p) ==
    /\ At(p, "move") /\ UNCHANGED <<arxiv, work>>
    /\ IF disk[call[p].args.output] # None THEN Exit(p, 1) /\ UNCHANGED disk
       ELSE disk' = [disk EXCEPT ![call[p].args.output] = call[p].got] /\ Exit(p, 0)

-----------------------------------------------------------------------------
(* The read-only harnesses. *)

Harness(p, args, cmd) ==
    args.cmd = cmd /\ Begin(p, args, IF disk[args.output] # None THEN 3 ELSE 0, cmd, None)

run_gold_command(p, args) == Harness(p, args, "gold")
run_agreement_command(p, args) == Harness(p, args, "agreement")
citation_audit_run_command(p, args) == Harness(p, args, "audit")
field_observation_run_command(p, args) == Harness(p, args, "observe_field")

\* proposals and from are history.
MeasureGold(p) ==
    LET args == call[p].args
        gold == load_gold_set(disk[args.gold], args.expected, args.allow_synthetic,
                              IF args.criteria = None THEN None ELSE disk[args.criteria])
        predictions == load_predictions(disk[args.predictions])
        built == gold_build_report(gold.gold, predictions.predictions)
    IN  Compute(p, "gold", "replace",
                IF gold.exit # 0 THEN gold
                ELSE IF predictions.exit # 0 THEN predictions
                ELSE IF built.exit # 0 THEN built
                ELSE [exit |-> 0, report |-> built.report @@ [proposals |-> disk[args.predictions], from |-> args]])

MeasureAgreement(p) ==
    LET args == call[p].args
    IN  Compute(p, "agreement", "replace", agreement_build_report(disk[args.crosswalk], disk[args.corpus], disk[args.blind]))

AuditCitations(p) ==
    LET args == call[p].args
    IN  Compute(p, "audit", "replace", citation_build_report(disk[args.manifest], disk[args.snapshot]))

_parse_descriptor(file) == IF file # None /\ file.doc = "descriptor" THEN file ELSE None

\* A hash stands for the bytes; a file that is not there cannot be hashed.
_hash_file(path) == disk[path]

\* Both inputs are hashed and compared with what the descriptor declares.
CheckAnchors(p) ==
    LET batch == _parse_descriptor(disk[call[p].args.batch])
        Hash(role) == _hash_file(batch[role].path)
    IN  /\ At(p, "observe_field") /\ UNCHANGED <<arxiv, disk, work>>
        /\ IF batch = None THEN Exit(p, 2)
           ELSE IF None \in {Hash("manifest"), Hash("snapshot")} THEN Exit(p, 2)
           ELSE IF check_and_gate({check_anchor(batch[role].sha256, Hash(role)) : role \in {"manifest", "snapshot"}})
           THEN Continue(p, "observe_audit", batch)
           ELSE Exit(p, 3)

\* The audit reads the files again.
ObserveField(p) ==
    LET batch == call[p].got
        audit == citation_build_report(disk[batch.manifest.path], disk[batch.snapshot.path])
    IN  Compute(p, "observe_audit", "replace",
                IF audit.exit # 0 THEN [exit |-> 3]
                ELSE [exit |-> 0, report |-> [audit.report EXCEPT !.doc = "field"] @@ [batch |-> batch, seen |-> call[p].seen]])

-----------------------------------------------------------------------------
(* The audits of committed evidence. *)

anchoring_run_command(p, args) == Harness(p, args, "anchoring")
support_run_command(p, args) == Harness(p, args, "support")
artifacts_run_command(p, args) == Harness(p, args, "artifacts")

\* The descriptor's inputs, in order; at least one must be declared.
_parse_batch_descriptor(file, audit) ==
    IF file = None \/ file.doc # "batch" THEN None
    ELSE IF file.audit # audit \/ file.inputs = <<>> THEN None
    ELSE file.inputs

ParseBatch(p) ==
    LET args == call[p].args
        inputs == _parse_batch_descriptor(disk[args.batch], args.cmd)
    IN  /\ (At(p, "anchoring") \/ At(p, "support")) /\ UNCHANGED <<arxiv, disk, work>>
        /\ IF inputs = None THEN Exit(p, 2) ELSE Continue(p, "read", [inputs |-> inputs, read |-> <<>>])

\* The inputs are read one after the other, each once.
ReadInput(p) ==
    LET got == call[p].got
        file == disk[got.inputs[Len(got.read) + 1].path]
    IN  /\ At(p, "read") /\ Len(got.read) < Len(got.inputs) /\ UNCHANGED <<arxiv, disk, work>>
        /\ IF file = None THEN Exit(p, 2) ELSE Continue(p, "read", [got EXCEPT !.read = Append(@, file)])

ReadAll(p, cmd) == At(p, "read") /\ call[p].args.cmd = cmd /\ Len(call[p].got.read) = Len(call[p].got.inputs)
AuditAnchoring(p) ==
    ReadAll(p, "anchoring") /\ Compute(p, "read", "replace", A!anchoring_build_report(call[p].got.inputs, call[p].got.read))

\* Mutant of AuditSupport: the snapshot is read again for the evaluation.
AuditSupportOfNow(p) ==
    LET got == call[p].got
        now == [got.read EXCEPT ![2] = disk[got.inputs[2].path]]
        report == A!support_build_report([i \in DOMAIN got.inputs |-> [got.inputs[i] EXCEPT !.sha256 = now[i]]], now)
    IN  /\ ReadAll(p, "support")
        /\ Compute(p, "read", "replace",
                   IF ~A!check_and_gate(got.inputs, got.read) \/ None \in ToSet(now) THEN [exit |-> 3]
                   ELSE IF report.exit # 0 THEN report ELSE [report EXCEPT !.report.inputs = got.inputs])

AuditSupport(p) ==
    ReadAll(p, "support")
    /\ Compute(p, "read", "replace", A!support_build_report(call[p].got.inputs, call[p].got.read))

\* The dump names its store; a dump whose manifests disagree is refused.
ReadDump(p) ==
    LET args == call[p].args
        objects == A!parse_objects_copy_block(disk[args.dump])
        store == A!resolve_dump_store_root(A!extract_run_manifest_store_references(objects))
    IN  /\ At(p, "artifacts") /\ UNCHANGED <<arxiv, disk, work>>
        /\ IF disk[args.dump] = None THEN Exit(p, 2)
           ELSE IF objects = None THEN Exit(p, 3)
           ELSE IF ~store.ok THEN Exit(p, 3)
           ELSE Continue(p, "look", [dump |-> disk[args.dump], root |-> store.root, verdicts |-> {},
                                     anchors |-> SetToSeq(A!extract_artifact_anchors(objects))])

derive_blob_path(root, hash) == BlobPath[root][hash]
Judged(got, exists, actual) ==
    [got EXCEPT !.anchors = Tail(@), !.verdicts = @ \cup {A!check_artifact_presence(Head(got.anchors), got.root, exists, actual)}]

\* One artifact after the other: is it a file ...
IsFile(p) ==
    LET got == call[p].got
        path == derive_blob_path(got.root, Head(got.anchors).hash)
    IN  /\ At(p, "look") /\ got.anchors # <<>> /\ UNCHANGED <<arxiv, disk, work>>
        /\ IF got.root = None THEN Continue(p, "look", Judged(got, FALSE, None))
           ELSE IF disk[path] = None THEN Continue(p, "look", Judged(got, FALSE, None))
           ELSE Continue(p, "hash", got)

\* ... and what does it hold; if it is gone by now, nobody catches the error.
HashFile(p) ==
    LET got == call[p].got
        file == disk[derive_blob_path(got.root, Head(got.anchors).hash)]
    IN  /\ At(p, "hash") /\ UNCHANGED <<arxiv, disk, work>>
        /\ IF file = None THEN Exit(p, 1) ELSE Continue(p, "look", Judged(got, TRUE, file.content))

AuditArtifacts(p) ==
    LET got == call[p].got
    IN  /\ At(p, "look") /\ got.anchors = <<>>
        /\ Compute(p, "look", "replace",
                   [exit |-> 0, report |-> A!build_artifact_presence_report(got.dump, got.root, got.verdicts) @@ [seen |-> call[p].seen]])

-----------------------------------------------------------------------------
Init ==
    /\ arxiv = [published |-> FirstArxiv, version |-> [paper \in ToSet(Papers) |-> 1]]
    /\ disk = FirstDisk
    /\ call = [p \in Processes |-> None]
    /\ outcomes = <<>>
    /\ work \in Work

Commands == {w[2] : w \in {v \in DOMAIN work : v[1] = "command"}}

Next ==
    \/ \E paper \in ToSet(Papers) : Publish(paper) \/ Revise(paper)
    \/ \E w \in {v \in DOMAIN work : v[1] = "edit"} : Edit(w[2], w[3])
    \/ \E p \in Processes :
          \/ \E args \in Commands :
                \/ watch_field_run(p, args) \/ draw_backlog_run(p, args) \/ content_main(p, args)
                \/ resolution_main(p, args) \/ run_commission_command(p, args) \/ run_relations_command(p, args)
                \/ run_build_command(p, args) \/ run_gold_command(p, args) \/ run_agreement_command(p, args)
                \/ citation_audit_run_command(p, args) \/ field_observation_run_command(p, args)
                \/ anchoring_run_command(p, args) \/ support_run_command(p, args) \/ artifacts_run_command(p, args)
          \/ Sweep(p) \/ WriteObservation(p) \/ DrawBatch(p) \/ fetch_all_excerpts(p) \/ resolve_all(p)
          \/ BuildCommission(p) \/ _classify_one(p) \/ classify(p) \/ BuildEntries(p) \/ build_siblings(p)
          \/ MoveCorpus(p) \/ MeasureGold(p) \/ MeasureAgreement(p) \/ AuditCitations(p) \/ CheckAnchors(p)
          \/ ParseBatch(p) \/ ReadInput(p) \/ AuditAnchoring(p) \/ AuditSupport(p)
          \/ ReadDump(p) \/ IsFile(p) \/ HashFile(p) \/ AuditArtifacts(p)
          \/ ObserveField(p) \/ OpenForWriting(p) \/ FillFile(p) \/ _write_atomically(p) \/ Crash(p)

Spec == Init /\ [][Next]_vars

-----------------------------------------------------------------------------
(* Properties. *)

OnDisk(doc) == {disk[path] : path \in {q \in DOMAIN disk : Is(q, doc)}}
\* Of two ended commands, the one that ended later began before the other ended.
Overlap(i, j) == outcomes[IF i < j THEN j ELSE i].seen < IF i < j THEN i ELSE j
\* Somebody wrote, or is about to write, at a path after k commands had ended.
TouchedSince(path, k) ==
    \/ \E i \in DOMAIN outcomes : i > k /\ outcomes[i].args.output = path
    \/ \E p \in Processes : call[p] # None /\ call[p].args.output = path
Watches == {i \in DOMAIN outcomes : outcomes[i].args.cmd = "watch"}
Reported(i) == IF outcomes[i].exit = 0 /\ ~outcomes[i].args.dry_run THEN outcomes[i].got.found ELSE {}

\* Files hold the documents their readers expect, commands end with the exit
\* codes their callers know.
TypeOK ==
    /\ IsInjective(arxiv.published) /\ ToSet(arxiv.published) \subseteq ToSet(Papers)
    /\ DOMAIN disk = DOMAIN FirstDisk
    /\ \A path \in DOMAIN disk : disk[path] # None => "doc" \in DOMAIN disk[path]
    /\ \A p \in Processes : call[p] # None => call[p].seen <= Len(outcomes)
    /\ \A i \in DOMAIN outcomes : outcomes[i].exit \in {0, 1, 2, 3, 137}

\* A watch that ends well has seen the whole field: a fitting paper that was on
\* arXiv when the sweep began and that some search still returns was known or
\* is reported.  An exit 0 without an observation means a quiet field and never
\* a search that failed (watch_field.py, _search and run).
SilenceMeansQuiet ==
    \A i \in Watches :
        outcomes[i].exit = 0 =>
            \A paper \in ToSet(outcomes[i].since.published) :
                LET Hits(q) == {h \in ToSet(arxiv.published) : q \in About[h].queries}
                IN  /\ ~About[paper].old /\ passes_inclusion(paper)
                    /\ \E q \in About[paper].queries : q \in ToSet(Queries) /\ Cardinality(Hits(q)) <= MaxResults
                    => paper \in outcomes[i].got.known \cup outcomes[i].got.found

\* A paper is reported by two successful watches only when one of them
\* overlapped another watch: the register written last then lacks what the
\* other wrote (watch_field.py, run writes the observation and the register).
ReportedOnceUnlessOverlapping ==
    \A i, j \in Watches :
        /\ i < j /\ outcomes[i].args.register = outcomes[j].args.register
        /\ Reported(i) \cap Reported(j) # {}
        => \E k \in Watches \ {i} : Overlap(i, k)

\* The blind commission's material never comes back as evidence: neither a
\* drawn manifest nor a corpus holds a candidate the pool marks as drawn,
\* whether it comes from the pool or through the watch (draw_backlog.py,
\* read_pool; watch_field.py, the register holds the whole pool).
StandardNeverBecomesEvidence ==
    LET standard == {c.arxiv : c \in UNION {{d \in pool.candidates : d.drawn} : pool \in OnDisk("pool")}}
        drawn == UNION {{c.citation : c \in ToSet(m.citations)} : m \in {n \in OnDisk("manifest") : n.drawn}}
        included == UNION {{e.entry : e \in c.entries} : c \in OnDisk("corpus")}
    IN  standard \cap (drawn \cup included) = {}

\* Committed files are written once: two commands succeed on one output only
\* when they overlapped, so that both found it free.
CommittedFilesWrittenOnceUnlessOverlapping ==
    LET writes == {i \in DOMAIN outcomes : /\ outcomes[i].exit = 0 /\ outcomes[i].args.cmd # "edit"
                                           /\ i \in Watches => Reported(i) # {}}
    IN  \A i, j \in writes : i < j /\ outcomes[i].args.output = outcomes[j].args.output => Overlap(i, j)

\* Every anchored excerpt is the text of the source and of the version its
\* citation names, whatever else the answer to the batch holds
\* (fetch_source_content.py, _match_arxiv_entry).
ExcerptIsOfItsCitation ==
    \A snapshot \in OnDisk("snapshot") : \A e \in snapshot.excerpts :
        e.available => IF e.asked.arxiv = None THEN e.text = e.asked.doi
                       ELSE e.text.base = e.asked.arxiv.base /\ e.asked.arxiv.version \in {0, e.text.version}

\* A model that answered is not asked again until it says something else: a
\* refusal or a filtered answer is the last word heard in a case, an answer
\* outside the schema is repaired a bounded number of times, and only silence
\* is retried, also a bounded number of times (relation_service.py,
\* _classify_one; structured_generation.py, generate_structured).
AnswersAreNotShopped ==
    LET Fair(heard, retries) ==
            LET silent == {i \in DOMAIN heard : heard[i] \in {"error", "timed_out"}}
            IN  /\ \A i \in DOMAIN heard : heard[i] \in {"refused", "content_filtered"} => i = Len(heard)
                /\ retries <= MaxRetries
                /\ Cardinality(DOMAIN heard \ silent) <= (MaxRepairs + 1) * (retries + 1)
                /\ \A i, j \in DOMAIN heard : i <= j /\ i..j \cap silent = {} => j - i <= MaxRepairs
    IN  /\ \A p \in Processes : At(p, "classify") => Fair(call[p].got.heard, call[p].got.retries)
        /\ \A set \in OnDisk("proposals") : \A q \in ToSet(set.proposals) : Fair(q.heard, q.retries)

\* A proposals file answers every case of its commission exactly once, or does
\* not exist (relation_service.py, classify).
ProposalsAreComplete ==
    \A set \in OnDisk("proposals") :
        /\ [i \in DOMAIN set.proposals |-> set.proposals[i].case]
             = [i \in DOMAIN set.commission.cases |-> set.commission.cases[i].case]
        /\ \A q \in ToSet(set.proposals) : q.undecidable # (q.relation # None)

\* No source vanishes between the draw and the corpus: each citation is an
\* entry, undecidable or unverifiable, provided that the snapshot is one of
\* this manifest (corpus_builder.py, build_entries, skips a citation the
\* snapshot does not know).
NothingIsLost ==
    \A c \in OnDisk("corpus") :
        {e.citation : e \in c.snapshot.excerpts} = {m.citation : m \in ToSet(c.manifest.citations)}
        => /\ {e.entry : e \in c.entries} \cup c.undecidable \cup c.unverifiable
                = {m.citation : m \in ToSet(c.manifest.citations)}
           /\ c.drawn = Cardinality(c.entries) + Cardinality(c.undecidable) + Cardinality(c.unverifiable)

\* A relation stands beside the text it was read from: proposals and excerpts
\* are joined by case id alone, so this needs a build over the snapshot the
\* commission was made of, and nobody touching that file in between
\* (corpus_builder.py, build_entries).
EntryIsReadFromItsExcerpt ==
    \A c \in OnDisk("corpus") :
        LET commission == c.proposals.commission
        IN  /\ commission.from.snapshot = c.from.snapshot
            /\ ~TouchedSince(c.from.snapshot, commission.seen)
            => \A e \in c.entries : \E case \in ToSet(commission.cases) :
                   case.case = e.entry /\ case.excerpt = e.excerpt

\* The hashes a corpus publishes are those of the files it was built from,
\* though the files are read once to build and once more to hash, unless
\* somebody wrote there meanwhile (literature_main.py, run_build_command).
PinnedIsWhatWasRead ==
    \A c \in OnDisk("corpus") : \A input \in {"manifest", "snapshot"} :
        ~TouchedSince(c.from[input], c.seen) => c.pinned[input] = c[input]

\* Labels and predictions of a measurement that checked the lock were made
\* under the same criteria, unless the criteria were changed after the
\* classification began: the predictions' own criteria are never compared
\* (gold_service.py, load_gold_set and load_predictions).
MeasuredUnderOneCriteria ==
    \A report \in OnDisk("validity") :
        /\ report.from.criteria # None /\ report.from.criteria = report.proposals.from.criteria
        /\ ~TouchedSince(report.from.criteria, report.proposals.seen)
        => report.gold.lock = report.proposals.criteria

Pairs(ratings) == (DOMAIN ratings) \X (DOMAIN ratings)
Count(ratings, P(_, _)) == Cardinality({pair \in Pairs(ratings) : P(ratings[pair[1]], ratings[pair[2]])})
\* The statistics of a matrix, from the ratings alone: chance agreement of
\* kappa is how often a label of a meets one of b, of alpha how often two of
\* all labels meet.
SameAs(x, y) == (x = None) = (y = None) /\ (x # None => x[1] * y[2] = y[1] * x[2])
MatchesRatings(stats, ratings, categories, reference) ==
    LET n == Cardinality(DOMAIN ratings)
        agree == Cardinality({i \in DOMAIN ratings : ratings[i].a = ratings[i].b})
        chance == Count(ratings, LAMBDA x, y : x.a = y.b)
        pooled == Count(ratings, LAMBDA x, y : x.a = y.a) + Count(ratings, LAMBDA x, y : x.b = y.b) + 2 * chance
        Of(k, side) == {i \in DOMAIN ratings : ratings[i][side] = categories[k]}
        other == IF reference = "a" THEN "b" ELSE "a"
    IN  /\ SameAs(stats.observed, <<agree, n>>)
        /\ SameAs(stats.kappa, IF n * n = chance THEN None ELSE <<agree * n - chance, n * n - chance>>)
        /\ SameAs(stats.alpha, IF 4 * n * n = pooled THEN None
                               ELSE <<4 * n * n - pooled - 2 * (n - agree) * (2 * n - 1), 4 * n * n - pooled>>)
        /\ \A k \in DOMAIN categories :
              /\ SameAs(stats.prf[k].recall, IF Of(k, reference) = {} THEN None
                    ELSE <<Cardinality(Of(k, reference) \cap Of(k, other)), Cardinality(Of(k, reference))>>)
              /\ stats.baseline[1] >= Cardinality(Of(k, reference))
\* What a report says is what its ratings say: agreement, kappa and alpha,
\* recall per category and the rate of false support equal their definitions
\* over the rated items, and a validity report rates every case the gold
\* standard decides and no other (agreement.py; gold_service.py and
\* validation/service.py, build_report).
StatisticsMatchTheRatings ==
    /\ \A report \in OnDisk("validity") :
          LET ratings == report.ratings
              negative == {i \in DOMAIN ratings : ratings[i].a # "supports"}
              false == {i \in negative : ratings[i].b = "supports"}
          IN  /\ DOMAIN ratings = {c.case : c \in {d \in report.gold.cases : d.expected # None}}
              /\ MatchesRatings(report, ratings, report.gold.categories, "a")
              /\ report.false_support.false = Cardinality(false)
              /\ report.false_support.negative = Cardinality(negative)
    /\ \A report \in OnDisk("agreement") : \A s \in DOMAIN report.strata :
          MatchesRatings(report.strata[s], report.strata[s].ratings, report.crosswalk.strata[s].categories, report.crosswalk.reference)

\* An audit accuses no citation wrongly: what it calls not found did not exist
\* when the fetch of the resolutions began, whatever the services answered
\* (fetch_citation_resolutions.py, fetch_arxiv_batch; domain/citation_audit.py).
NotFoundMeansNotThere ==
    \A report \in OnDisk("audit") \cup OnDisk("field") : \A c \in ToSet(report.manifest.citations) :
        report.verdicts[c.citation] = "not_found" =>
            IF c.arxiv # None THEN ~Exists(report.snapshot.since, c.arxiv) ELSE c.doi \notin DOMAIN Works

\* A field observation is about the files its batch anchors, although they are
\* read again after they were hashed, unless somebody wrote there meanwhile
\* (field_observation/service.py, build_report).
ObservationIsAnchored ==
    \A report \in OnDisk("field") : \A role \in {"manifest", "snapshot"} :
        ~TouchedSince(report.batch[role].path, report.seen) => report[role] = report.batch[role].sha256

\* The audits that hash and parse one reading need no such exception: whatever
\* is written meanwhile, each input a verdict rests on has the declared hash
\* (anchoring_integrity/service.py and support_audit/service.py, build_report).
AuditedBytesAreDeclared ==
    \A report \in OnDisk("anchoring") \cup OnDisk("support") :
        Len(report.read) = Len(report.inputs) /\ \A i \in DOMAIN report.inputs : report.read[i] = report.inputs[i].sha256

\* A dump without violations is closed: whatever a revision of a claim cites,
\* for it or against it, is an archived anchor of an archived source
\* (domain/anchoring_integrity.py, check_anchor_links, check_claim_references).
CleanArchiveIsClosed ==
    \A report \in OnDisk("anchoring") : \A i \in DOMAIN report.dumps :
        report.dumps[i].violations = 0 =>
            LET rows == ToSet(report.read[i].rows)
                Row(kind, id) == {r \in rows : r.kind = kind /\ r.id = id}
            IN  \A c \in {r \in rows : r.kind = "Claim"} : \A a \in c.body.evidence \cup c.body.counter :
                    /\ Row("EvidenceAnchor", a) # {}
                    /\ \A anchor \in Row("EvidenceAnchor", a) : Row("SourceRecord", anchor.body.source) # {}

\* An artifact is looked up in the store its own runs wrote to: all manifests
\* of the dump name that store or none does, and unless somebody wrote at its
\* path, present, altered and missing is what it is (domain/artifact_presence.py,
\* resolve_dump_store_root; artifact_presence/service.py, build_report).
PresenceIsOfTheNamedStore ==
    \A report \in OnDisk("artifacts") :
        /\ \A r \in {x \in ToSet(report.dump.rows) : x.kind = "RunManifest"} : r.body.root = report.root
        /\ report.root # None => \A v \in report.verdicts :
              LET path == derive_blob_path(report.root, v.hash)
              IN  ~TouchedSince(path, report.seen) =>
                    v.status = CASE disk[path] = None -> "artifact_missing"
                                 [] OTHER -> IF disk[path].content = v.hash THEN "artifact_present" ELSE "artifact_hash_mismatch"

\* A figure is found in an excerpt only as a whole number beside all that the
\* claim says it counts: never as a group of digits of a longer number, such
\* as 42 in 42,000 or 4 in 79.4, and never alone when the claim names terms
\* (domain/support_audit.py, find_numerals and evaluate_figure_claim).
FiguresAreWholeNumbers ==
    \A report \in OnDisk("support") :
        \A v \in {w \in report.verdicts : w.claim.kind = "figure" /\ w.status = "figure_supported_in_excerpt"} :
            LET text == report.excerpts[v.claim.citation]
                Mark(i, mark) == i \in DOMAIN text /\ text[i].kind = "mark" /\ text[i].chars = <<mark>>
                Digits(i) == i \in DOMAIN text /\ text[i].kind = "digits"
                Written(i, j) == FoldLeft(LAMBDA all, piece : IF piece.chars = <<",">> THEN all ELSE all \o piece.chars,
                                          <<>>, SubSeq(text, i, j))
                Unbroken(i, j) == \A k \in i..j : IF (k - i) % 2 = 0 THEN Digits(k) ELSE Mark(k, ",") \/ Mark(k, ".")
                Dotted(i, j) == \E k \in i..j : Mark(k, ".")
                Whole(i, j) ==
                    /\ ~(Mark(j + 1, ",") /\ Digits(j + 2) /\ Len(text[j + 2].chars) = 3)
                    /\ ~(Mark(i - 1, ",") /\ Digits(i - 2) /\ Len(text[i].chars) = 3)
                    /\ Mark(j + 1, ".") /\ Digits(j + 2) => Dotted(i, j)
                    /\ Mark(i - 1, ".") /\ Digits(i - 2) => \E h \in DOMAIN text : Unbroken(h, i - 2) /\ Dotted(h, i - 2)
                chars == A!Characters(text)
                window == report.read[1].window
                Near(i, j, term) ==
                    \E k \in 1 .. Len(chars) - Len(term) + 1 :
                        /\ SubSeq(chars, k, k + Len(term) - 1) = A!lower(term)
                        /\ k - A!Width(text, 1, j) - 1 <= window /\ A!Width(text, 1, i - 1) - (k + Len(term) - 1) <= window
            IN  \A token \in v.claim.tokens : \E i, j \in DOMAIN text :
                    /\ i <= j /\ Unbroken(i, j) /\ Digits(j) /\ Written(i, j) = token /\ Whole(i, j)
                    /\ \A term \in v.claim.terms : Near(i, j, term)

\* The nightly watch: a quiet report means a quiet field, nothing is reported twice
\* but by overlapping watches, and the gold standard's papers never come back.
WatchesAreHonest == SilenceMeansQuiet /\ ReportedOnceUnlessOverlapping /\ StandardNeverBecomesEvidence

\* From the draw to the corpus each file holds what it says of what it names: excerpts
\* are of their citations, relations are read from their excerpts, no source is lost,
\* hashes are of what was read, and committed files are written once.
EntriesAreAnchored ==
    /\ TypeOK /\ ExcerptIsOfItsCitation /\ EntryIsReadFromItsExcerpt /\ NothingIsLost
    /\ PinnedIsWhatWasRead /\ CommittedFilesWrittenOnceUnlessOverlapping

\* The model's answers are taken as they come: none is asked for again until it suits,
\* and a file of proposals has one for every case.
ModelIsNotShopped == AnswersAreNotShopped /\ ProposalsAreComplete

\* Measurements are of one thing: the statistics are those of the ratings, made under
\* the criteria of the lock.
MeasurementsMatchTheRatings == StatisticsMatchTheRatings /\ MeasuredUnderOneCriteria

\* Audits speak of the files they name and accuse nobody wrongly, although services
\* fail and files are edited between hash and use.
AuditsSpeakOfWhatTheyName ==
    /\ NotFoundMeansNotThere /\ ObservationIsAnchored /\ AuditedBytesAreDeclared
    /\ CleanArchiveIsClosed /\ PresenceIsOfTheNamedStore /\ FiguresAreWholeNumbers
=============================================================================
