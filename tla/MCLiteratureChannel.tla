------------------------ MODULE MCLiteratureChannel ------------------------
(* A pool of three papers, one of them in the gold standard, two papers to  *)
(* come, and files at every stage of the channel.                           *)
EXTENDS LiteratureChannel

CONSTANTS p1, p2

Paper(summary, queries) == [old |-> FALSE, fits |-> TRUE, summary |-> summary, title |-> <<"a">>, queries |-> queries]
MCPapers == <<"gold", "a", "b", "new", "blank">>
MCAbout ==
    [p \in {"gold", "a"} |-> Paper("text", {"q1"})] @@ [p \in {"b"} |-> [Paper("text", {"q2"}) EXCEPT !.title = <<"b">>]]
    @@ [p \in {"new"} |-> Paper("text", {"q1"})] @@ [p \in {"blank"} |-> Paper("blank", {"q2"})]
MCWorks == [doi \in {"d1"} |-> [abstract |-> "text", title |-> <<"a", "b">>]]
                @@ [doi \in {"d2"} |-> [abstract |-> "title_only", title |-> <<"c">>]]
MCHashOrder == [salt \in {"b1"} |-> <<"gold", "a", "b", "new", "blank">>] @@ [salt \in {"b2"} |-> <<"blank", "gold", "new", "a", "b">>]

\* Documents.
Id(base, version) == [base |-> base, version |-> version]
Cite(citation, id, doi, title) ==
    [citation |-> citation, arxiv |-> id, doi |-> doi, title |-> title, wellformed |-> TRUE]
Manifest(citations) == [doc |-> "manifest", drawn |-> FALSE, citations |-> citations]
Versions == Manifest(<<Cite("a2", Id("a", 2), None, <<"a">>), Cite("a1", Id("a", 1), None, <<"x">>),
                       Cite("n", Id("new", 0), None, None), Cite("w", None, "d1", <<"a">>),
                       Cite("u", None, "d3", None)>>)
Drawn == build_manifest(<<"a", "b">>)
First(version) == [published |-> <<"gold", "a", "b">>, version |-> [p \in ToSet(MCPapers) |-> version]]
Excerpt(c, text) ==
    [citation |-> c, available |-> text # None, text |-> text, sha256 |-> text, reason |-> None, asked |-> [arxiv |-> Id(c, 0), doi |-> None]]
Snapshot(excerpts) == [doc |-> "snapshot", fetched_on |-> "date", excerpts |-> excerpts, manifest |-> "m1"]
Snapped == Snapshot({Excerpt("a", Id("a", 1)), Excerpt("b", Id("b", 1))})
Criteria(version) == [doc |-> "criteria", version |-> version, locked_at |-> version]
Case(c) == [case |-> c, claim |-> "claim", excerpt |-> Id(c, 1)]
Commission(cases) ==
    [doc |-> "commission", criteria |-> 1, answers |-> FALSE, cases |-> cases, seen |-> 0,
     from |-> [cmd |-> "commission", manifest |-> "m1", snapshot |-> "s1", criteria |-> "cr", claim |-> "claim", output |-> "c1"]]
Commissioned == Commission(<<Case("a"), Case("b")>>)
Proposal(c, relation) ==
    [case |-> c, status |-> "proposal", attempts |-> <<"completed">>, retries |-> 0, heard |-> <<"completed">>,
     rationale |-> TRUE, undecidable |-> relation = None, relation |-> relation]
Proposals(first, second) ==
    [doc |-> "proposals", commission |-> Commissioned, criteria |-> 1, seen |-> 0,
     proposals |-> <<Proposal("a", first), Proposal("b", second)>>,
     from |-> [cmd |-> "classify", cases |-> "c1", criteria |-> "cr", output |-> "p1"]]
GoldCase(c, expected) == [case |-> c, undecidable |-> expected = None, expected |-> expected, tie |-> None]
Gold(lock) ==
    [doc |-> "gold", categories |-> RELATION_CATEGORIES, lock |-> lock, locked_at |-> lock, labelled_at |-> 3,
     practice |-> "practice",
     cases |-> {GoldCase("a", "supports"), GoldCase("b", "qualifies"), GoldCase("c", None)}]
Corpus ==
    [doc |-> "corpus", undecidable |-> {}, unverifiable |-> {}, drawn |-> 2, proposals |-> Proposals("supports", "qualifies"),
     snapshot |-> Snapped, manifest |-> Drawn, seen |-> 0,
     from |-> [cmd |-> "build", manifest |-> "m1", snapshot |-> "s1", proposals |-> "p1", output |-> "k1"],
     pinned |-> [manifest |-> Drawn, snapshot |-> Snapped],
     entries |-> {[entry |-> "a", relation |-> "supports", title |-> <<"a">>, excerpt |-> Id("a", 1)],
                  [entry |-> "b", relation |-> "qualifies", title |-> <<"b">>, excerpt |-> Id("b", 1)]}]
Same == [r \in ToSet(RELATION_CATEGORIES) |-> r]
Stratum(items) == [items |-> items, categories |-> RELATION_CATEGORIES, pipeline_map |-> Same, blind_map |-> Same]
Item(entry, blind) == [entry |-> entry, blind |-> blind, title |-> MCAbout[entry].title]
Crosswalk(reference) ==
    [doc |-> "crosswalk", reference |-> reference, strata |-> [s \in {"all"} |-> Stratum(<<Item("a", "x"), Item("b", "y")>>)]]
Blind(x, y) == [doc |-> "blind", verdicts |-> [i \in {"x"} |-> x] @@ [i \in {"y"} |-> y]]
Resolutions ==
    [doc |-> "resolutions", fetched_on |-> "date", since |-> First(1),
     resolutions |-> {[citation |-> c, resolved |-> TRUE, title |-> MCAbout[c].title, unverifiable |-> FALSE] : c \in {"a", "b"}}]
Anchored(path, doc) == [path |-> path, sha256 |-> doc]
Descriptor == [doc |-> "descriptor", manifest |-> Anchored("m1", Drawn), snapshot |-> Anchored("r1", Resolutions)]
\* Evidence: dumps of one claim, its anchors and sources, artifacts, and claims of a record.
Row(id, kind, body) == [id |-> id, kind |-> kind, body |-> body]
ClaimRow(evidence, counter) == Row("claim", "Claim", [evidence |-> evidence, counter |-> counter])
AnchorRow(id, source, hash) == Row(id, "EvidenceAnchor", [source |-> source, hash |-> hash])
RunRow(id, root) == Row(id, "RunManifest", [root |-> root])
Dump(rows) == [doc |-> "dump", rows |-> rows]
Closed == Dump(<<Row("src", "SourceRecord", [title |-> "t"]), AnchorRow("n1", "src", "h1"), AnchorRow("n2", "src", "h2"),
                 ClaimRow({"n1"}, {}), ClaimRow({"n1"}, {"n2"}), RunRow("run", "store")>>)
Open == Dump(<<AnchorRow("n1", "src", None), ClaimRow({}, {"n1"}), ClaimRow({}, {"n2"})>>)
Against == Dump(<<Row("src", "SourceRecord", [title |-> "t"]), AnchorRow("n1", "src", "h1"), ClaimRow({"n1"}, {"gone"}),
                  RunRow("run", "store"), RunRow("other", "store2")>>)
MCBlobPath == [root \in {"store", "store2"} |-> [h \in {"h1"} |-> root] @@ [h \in {"h2"} |-> "blob2"]]
Blob(hash) == [doc |-> "blob", content |-> hash]
Input(path, doc) == [path |-> path, sha256 |-> doc]
Batch(audit, inputs) == [doc |-> "batch", audit |-> audit, inputs |-> inputs]
N(digits) == [kind |-> "digits", chars |-> digits]
Sign(sign) == [kind |-> "mark", chars |-> <<sign>>]
Word(word) == [kind |-> "word", chars |-> word]
MCSmallLetter == [l \in {"L"} |-> "l"]
\* "Loss 79.4 42,000used1.2.3": a term is in a word as a stem, capitals or not.
Loss == Word(<<"L", "o", "s", "s">>)
MCProse ==
    [p \in {"a"} |-> <<Loss, Sign(" "), N(<<"7", "9">>), Sign("."), N(<<"4">>), Sign(" "), N(<<"4", "2">>), Sign(","),
                       N(<<"0", "0", "0">>), Word(<<"u", "s", "e", "d">>), N(<<"1">>), Sign("."), N(<<"2">>), Sign("."), N(<<"3">>)>>]
    @@ [p \in {"gold", "b", "new", "blank", "d1", "d2"} |-> <<Loss>>]
Figure(id, tokens, terms) == [claim |-> id, citation |-> "a", kind |-> "figure", tokens |-> tokens, terms |-> terms]
Quote(id, citation, text) == [claim |-> id, citation |-> citation, kind |-> "quotation", text |-> text]
RecordClaims ==
    [doc |-> "claims", window |-> 4, threshold |-> 50,
     claims |-> {Figure("f1", {<<"7", "9", ".", "4">>}, {<<"l", "o", "s">>}), Figure("f2", {<<"4", "2", "0", "0", "0">>}, {<<"u", "s">>}),
                 Figure("f3", {<<"4", "2">>, <<"4">>}, {}), Figure("f4", {<<"3">>}, {}), Figure("f5", {<<"1", ".", "2">>}, {<<"L", "o">>}),
                 Figure("f6", {<<"7", "9", ".", "4">>, <<"4", "2", "0", "0", "0">>}, {<<"s">>}),
                 Quote("q1", "a", <<<<"l", "o", "s", "s">>, <<" ">>>>), Quote("q2", "b", <<<<"g">>>>),
                 Quote("q3", "a", <<<<"g">>, <<" ">>>>),
                 [claim |-> "x", citation |-> "nowhere", kind |-> "excluded"]}]
Pool == [doc |-> "pool", candidates |-> {[arxiv |-> "gold", drawn |-> TRUE], [arxiv |-> "a", drawn |-> FALSE],
                                         [arxiv |-> "b", drawn |-> FALSE]}]

Free == {"m2", "m3", "s2", "c2", "p2", "k2", "o1", "o2", "out", "r2", "store2", "out2"}
MCFirstDisk ==
    [path \in Free |-> None]
    @@ [path \in {"d1"} |-> Closed] @@ [path \in {"d2"} |-> Open] @@ [path \in {"d3"} |-> Against]
    @@ [path \in {"ab"} |-> Batch("anchoring", <<Input("d1", Closed), Input("d2", Open)>>)]
    @@ [path \in {"ab3"} |-> Batch("anchoring", <<Input("d3", Against)>>)]
    @@ [path \in {"sb"} |-> Batch("support", <<Input("cl", RecordClaims), Input("s1", Snapped)>>)]
    @@ [path \in {"s3"} |-> Snapshot({})] @@ [path \in {"cl"} |-> RecordClaims] @@ [path \in {"store"} |-> Blob("h1")] @@ [path \in {"blob2"} |-> Blob("rot")]
    @@ [path \in {"seen"} |-> [doc |-> "register", ids |-> {"gold", "a", "b"}]] @@ [path \in {"pool"} |-> Pool]
    @@ [path \in {"m1"} |-> Drawn] @@ [path \in {"mv"} |-> Versions] @@ [path \in {"s1"} |-> Snapped]
    @@ [path \in {"cr"} |-> Criteria(1)] @@ [path \in {"c1"} |-> Commissioned]
    @@ [path \in {"leaky"} |-> [Commissioned EXCEPT !.answers = TRUE]]
    @@ [path \in {"p1"} |-> Proposals("supports", "qualifies")] @@ [path \in {"p3"} |-> Proposals("supports", "supports")]
    @@ [path \in {"p4"} |-> Proposals("qualifies", None)]
    @@ [path \in {"g1"} |-> Gold(1)] @@ [path \in {"g2"} |-> Gold(2)] @@ [path \in {"k1"} |-> Corpus]
    @@ [path \in {"xa"} |-> Crosswalk("a")] @@ [path \in {"xb"} |-> Crosswalk("b")]
    @@ [path \in {"bl"} |-> Blind("supports", "contradicts")] @@ [path \in {"r1"} |-> Resolutions]
    @@ [path \in {"batch"} |-> Descriptor]

\* Commands.
Watch(output) == [cmd |-> "watch", register |-> "seen", output |-> output, dry_run |-> FALSE]
Draw(source, batch, output) == [cmd |-> "draw", source |-> source, batch |-> batch, size |-> 1, output |-> output]
Fetch(manifest, output) == [cmd |-> "fetch", manifest |-> manifest, output |-> output]
Resolve(manifest, output) == [cmd |-> "resolve", manifest |-> manifest, output |-> output]
Commissioning(manifest, snapshot) ==
    [cmd |-> "commission", manifest |-> manifest, snapshot |-> snapshot, criteria |-> "cr", claim |-> "claim", output |-> "c2"]
Classify(cases) ==
    [cmd |-> "classify", cases |-> cases, criteria |-> "cr", output |-> "p2", adapter |-> "gemini", model |-> "model", key |-> TRUE]
Build(manifest, snapshot, proposals) ==
    [cmd |-> "build", manifest |-> manifest, snapshot |-> snapshot, proposals |-> proposals, output |-> "k2"]
Measure(gold, predictions, criteria) ==
    [cmd |-> "gold", gold |-> gold, expected |-> None, allow_synthetic |-> FALSE, criteria |-> criteria,
     predictions |-> predictions, output |-> "out"]
Agree(crosswalk) == [cmd |-> "agreement", crosswalk |-> crosswalk, corpus |-> "k1", blind |-> "bl", output |-> "out"]
Audit(manifest, snapshot) == [cmd |-> "audit", manifest |-> manifest, snapshot |-> snapshot, output |-> "out"]
AuditBatch(cmd, batch) == [cmd |-> cmd, batch |-> batch, output |-> "out"]
Artifacts(dump) == [cmd |-> "artifacts", dump |-> dump, output |-> "out2"]
Observe == [cmd |-> "observe_field", batch |-> "batch", output |-> "out"]

Once(commands) == [w \in {<<"command", args>> : args \in commands} |-> 1]
Does(kind, things) == [w \in {<<kind, x>> : x \in things} |-> 1]
Crashing == [w \in {<<"crash">>} |-> 1]
Editing(path, doc) == [w \in {<<"edit", path, doc>>} |-> 1]
Failing(kinds) == Does("net", {[kind |-> k] : k \in kinds})
Http(codes) == Does("net", {[kind |-> "http", code |-> c] : c \in codes})
Verdict(relation) == [kind |-> "text", verdict |-> [valid |-> relation # None, relation |-> relation, rationale |-> TRUE, tie |-> None]]
Says(kinds) == Does("model", {[kind |-> k] : k \in kinds})
Answering(relations) == [w \in {<<"model", Verdict(r)>> : r \in relations} |-> 2]

MCWork ==
    {\* watches in turn, side by side, failing and dying
     Once({Watch("o1"), Watch("o2")}) @@ Does("publish", {"new", "blank"}),
     Once({Watch("o1"), Watch("o2")}) @@ Does("publish", {"new"}) @@ Crashing @@ Failing({"unreachable"}),
     Once({Watch("o1"), [Watch("o2") EXCEPT !.dry_run = TRUE], [Watch("o1") EXCEPT !.register = "m2"]})
         @@ Does("publish", {"new"}) @@ Http({302}),
     \* batches, from the pool and from an observation
     Once({Draw("pool", "b1", "m2"), Draw("pool", "b2", "m3"), Draw("seen", "b1", "m2")}),
     Once({Watch("o1"), Draw("o1", "b1", "m2"), Draw("pool", "b1", "m2")}) @@ Does("publish", {"new"}),
     \* excerpts, two versions of one paper among them
     Once({Fetch("mv", "s2")}) @@ Does("revise", {"a"}) @@ Crashing @@ Failing({"unreachable", "garbled", "dtd", "too_large"})
         @@ Http({302, 404, 500}),
     Once({Fetch("mv", "s2"), Fetch("m1", "s2"), Commissioning("m1", "s2")}) @@ Does("revise", {"a"}),
     \* from a batch to its corpus
     Once({Draw("pool", "b1", "m2"), Fetch("m2", "s2"), Commissioning("m2", "s2")}),
     Once({Fetch("m1", "s2"), Commissioning("m1", "s2"), Classify("c2"), Build("m1", "s2", "p2")}) @@ Answering({"supports"}),
     \* resolutions and their audit
     Once({Resolve("mv", "r2"), Audit("mv", "r2")}) @@ Does("revise", {"a"}) @@ Does("publish", {"new"})
         @@ Failing({"unreachable", "garbled"}) @@ Http({302, 500}),
     Once({Observe, Audit("m1", "r1"), Audit("mv", "r1")}) @@ Editing("m1", Manifest(<<Cite("a", Id("a", 0), None, <<"x">>)>>)),
     Once({Observe}) @@ Editing("batch", [Descriptor EXCEPT !.manifest = Anchored("mv", Drawn)]) @@ Editing("r1", None),
     \* classification
     Once({Classify("c1")}) @@ Answering({"supports", None}) @@ Says({"timeout", "empty", "safety", "no_usage"}) @@ Crashing,
     Once({Classify("c1"), Build("m1", "s1", "p2")}) @@ Answering({"undecidable", "supports"})
         @@ Does("model", {[kind |-> "http", code |-> 500]}),
     Once({Classify("leaky"), [Classify("c1") EXCEPT !.key = FALSE], [Classify("c1") EXCEPT !.model = None], Classify("m1")})
         @@ Does("model", {[Verdict("supports") EXCEPT !.verdict.rationale = FALSE]}),
     \* the corpus and its inputs
     Once({Build("m1", "s1", "p1"), Build("m1", "s1", "p4"), Build("mv", "s1", "p1")}),
     Once({Build("m1", "s1", "p1"), Commissioning("m1", "s1")})
         @@ Editing("s1", Snapshot({Excerpt("a", Id("a", 2)), Excerpt("b", None)})) @@ Crashing,
     Once({Build("m1", "s1", "p1")}) @@ Editing("p1", [Proposals("supports", "qualifies") EXCEPT
                !.commission = Commission(<<Case("a")>>), !.proposals = <<Proposal("a", "supports")>>]),
     \* the archive, its artifacts and a record's claims
     Once({AuditBatch("anchoring", "ab"), AuditBatch("anchoring", "ab3")}) @@ Editing("d1", Open) @@ Editing("d2", Torn),
     Once({AuditBatch("support", "sb"), AuditBatch("support", "ab")})
         @@ Editing("s1", Snapshot({Excerpt("a", None), Excerpt("b", Id("b", 1))})) @@ Editing("cl", None),
     Once({AuditBatch("support", "sb")}) @@ Editing("sb", Batch("support", <<Input("cl", RecordClaims), Input("s3", Snapshot({}))>>))
         @@ Editing("cl", [RecordClaims EXCEPT !.threshold = 0]) @@ Editing("sb", Batch("support",
                <<Input("cl", [RecordClaims EXCEPT !.threshold = 0]), Input("s1", Snapped)>>)),
     Once({Artifacts("d1"), Artifacts("d2"), Artifacts("d3")}) @@ Editing("store", None) @@ Editing("blob2", Blob("h2")),
     Once({Artifacts("d1"), Artifacts("m2"), Artifacts("cl")}) @@ Editing("store", None),
     \* measurements
     Once({Measure("g1", "p1", "cr"), Measure("g2", "p1", "cr"), Measure("g1", "p3", None), Agree("xa"), Agree("xb")}),
     Once({Measure("g2", "p1", "cr"), Measure("g1", "p4", "cr"), Measure("g1", "m1", None)}) @@ Editing("cr", Criteria(2)),
     Once({[Measure("g1", "p1", None) EXCEPT !.expected = Gold(2)], Measure("g1", "p1", None)})
         @@ Editing("g1", [Gold(1) EXCEPT !.practice = SYNTHETIC_PRACTICE]) @@ Editing("g1", [Gold(1) EXCEPT !.labelled_at = 1])}
MCFirstArxiv == <<"gold", "a", "b">>
MCQueries == <<"q1", "q2">>
Symmetry == Permutations(Processes)
=============================================================================
