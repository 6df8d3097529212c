------------------------------- MODULE Release -------------------------------
(***************************************************************************)
(* `mrr release`, `mrr report` and `mrr export`: what is read out of the    *)
(* store is put on disk, a human's approval is recorded as a release, a new *)
(* release supersedes an old one, and a reader asks for a release's status  *)
(* or verifies its bundle.                                                  *)
(*                                                                         *)
(* A command is a process: it checks its arguments, reads the store several *)
(* times, commits one record per transaction and moves a finished directory *)
(* or file into place.  Between two of its steps other commands run, claims *)
(* and corrections are revised, and the process may die.  The instant of a  *)
(* write is its place in the log.                                           *)
(***************************************************************************)
EXTENDS Publication, SequencesExt, TLC

CONSTANTS
    Processes,
    FirstStore,    \* the objects and edges a practice starts with
    Changes,       \* what other services may write: records [type, object, body]
    Held,          \* the artifacts whose bytes are in the store
    Outputs,       \* paths a command may be told to write
    ReleaseIds,    \* bound: the ids of releases, in the order they are given out
    Work,          \* bound: workloads, each the commands and changes that may happen, with how often
    Unreadable,    \* a file that cannot be read or parsed
    None

\* The events and the kind of object that only these commands write.
ReleaseEvents == {"release.approved", "release.superseded"}
\* The commands that write to a path.
Writing == {"create", "supersede", "report", "ro-crate"}

ASSUME ReleaseConstants ==
    /\ ReleaseIds \in Seq(ToSet(ReleaseIds)) /\ IsInjective(ReleaseIds)
    /\ ToSet(ReleaseIds) \cap DOMAIN FirstStore.objects = {}
    /\ FirstStore.log \in Seq([type : STRING \ ReleaseEvents, object : DOMAIN FirstStore.objects])
    /\ \A id \in DOMAIN FirstStore.objects : FirstStore.objects[id].kind # "ReleaseRecord"
    /\ \A change \in Changes :
          /\ change.type \in STRING \ ReleaseEvents /\ change.object \notin ToSet(ReleaseIds)
          /\ {"kind", "revision", "at"} \subseteq DOMAIN change.body
          /\ change.body.kind # "ReleaseRecord"
    /\ \A workload \in Work : \A w \in DOMAIN workload : (w[1] = "command" /\ w[2].cmd \in Writing) => w[2].output \in Outputs
    /\ None \notin Outputs

\* Crates, anchors and reviews have one revision. A crate refers to the claims it
\* proposes, and evidence refers to no release: a release has a fresh id.
WrittenOnce == {"EvidenceCrate", "EvidenceAnchor", "VerificationResult"}
Refers(body) ==
    /\ body.kind \in {"EvidenceCrate", "EvidenceAnchor"} =>
          "refs" \in DOMAIN body /\ body.refs \cap ToSet(ReleaseIds) = {}
    /\ body.kind = "EvidenceCrate" => "proposed_claims" \in DOMAIN body /\ body.proposed_claims \subseteq body.refs

\* What the services that write claims, evidence and corrections keep to.
ASSUME StoreConventions ==
    /\ IsFiniteSet(DOMAIN FirstStore.objects)
    /\ \A e \in FirstStore.edges : e[3] \notin ToSet(ReleaseIds)
    /\ \A id \in DOMAIN FirstStore.objects :
          /\ FirstStore.objects[id].revision \in Nat \ {0} /\ FirstStore.objects[id].at \in 0 .. Len(FirstStore.log)
          /\ Refers(FirstStore.objects[id])
    /\ \A i \in DOMAIN FirstStore.log : FirstStore.log[i].type = "verification.recorded" =>
          FirstStore.objects[FirstStore.log[i].object].kind = "VerificationResult"
    /\ \A change \in Changes :
          /\ change.body.kind \in WrittenOnce => change.body.revision = 1
          /\ change.type = "verification.recorded" => change.body.kind = "VerificationResult"
          /\ Refers(change.body)
          /\ change.object \in DOMAIN FirstStore.objects => change.body.kind = FirstStore.objects[change.object].kind
          /\ \A other \in Changes : other.object = change.object => other.body.kind = change.body.kind

VARIABLES
    objects, edges, log,   \* the store
    disk,                  \* path -> what is there
    call,                  \* process -> the command it runs, or Idle
    outcomes,              \* what the finished commands told their callers
    work

vars == <<objects, edges, log, disk, call, outcomes, work>>
Store == [objects |-> objects, edges |-> edges, log |-> log]

Use(w) == w \in DOMAIN work /\ work[w] > 0 /\ work' = [work EXCEPT ![w] = @ - 1]
Now == Len(log) + 1

\* One revision and its event.
Commit(id, body, type) ==
    /\ objects' = [x \in DOMAIN objects \cup {id} |-> IF x = id THEN body ELSE objects[x]]
    /\ log' = Append(log, [type |-> type, object |-> id])

\* A process that runs no command, and a path where nothing is.
Idle == [op |-> "idle"]
Free == [kind |-> "free", files |-> {}]

At(p, op) == call[p].op = op
Goto(p, c) == call' = [call EXCEPT ![p] = c]
\* A command ends with an exit code.
Exit(p, outcome) == Goto(p, Idle) /\ outcomes' = Append(outcomes, outcome)
Outcome(p, exit) ==
    [args |-> call[p].args, exit |-> exit, release |-> call[p].release, began |-> call[p].began, seen |-> call[p].seen]
\* The outcome of a command that ends in one step.
Told(args, exit, release) ==
    [args |-> args, exit |-> exit, release |-> release, began |-> Len(log), seen |-> Len(outcomes)]

storeVars == <<objects, edges, log>>

\* Other services revise claims and record, assess and resolve corrections.
record_object_revision_with_event(change) ==
    /\ Use(<<"change", change.type, change.object>>)
    /\ IF change.object \in DOMAIN objects THEN change.body.revision = objects[change.object].revision + 1
       ELSE change.body.revision = 1
    /\ Commit(change.object, [change.body EXCEPT !.at = Now], change.type)
    /\ UNCHANGED <<edges, disk, call, outcomes>>

\* A process dies: its call is forgotten, what it committed or moved stays.
Crash(p) ==
    /\ call[p] # Idle /\ Use(<<"crash">>)
    /\ Goto(p, Idle)
    /\ UNCHANGED <<storeVars, disk, outcomes>>

-----------------------------------------------------------------------------
(* Manifests. *)

EXCLUDED_FILENAMES == {<<"release-manifest">>, <<"release-record">>}

\* A hash stands for the bytes it was computed from.
compute_root_hash(files) == files

compute_bundle_manifest(dir) ==
    LET files == {f \in dir : f.path \notin EXCLUDED_FILENAMES}
    IN  [files |-> files, root_hash |-> compute_root_hash(files)]

\* Directories: a file or a non-empty directory is in the way.
output_path_conflict(path) == disk[path] # Free

output_file_conflict(path) == disk[path] # Free

-----------------------------------------------------------------------------
(* Arguments. *)

\* An unreadable or ill-typed file is refused as a whole.
_load_classification_file(file) == [ok |-> file # Unreadable, public |-> IF file = Unreadable THEN {} ELSE file.public]

\* public asks for a classification file and internal forbids one.
DisclosureArgumentsOk(disclosure, file) ==
    /\ (disclosure = "public") = (file # None)
    /\ file # None => _load_classification_file(file).ok
Attested(file) == IF file = None THEN {} ELSE _load_classification_file(file).public

\* The exit code of the checks made before anything is read, 0 when they pass.
ReleaseArguments(args) ==
    CASE output_path_conflict(args.output) -> 3
      [] args.approved_by = None \/ args.statement = None \/ args.mode = None -> 3
      [] args.statement = Unreadable -> 2
      [] ~DisclosureArgumentsOk(args.disclosure, args.classification) -> 2
      [] ~args.artifact_root -> 2
      [] OTHER -> 0

Begin(p, w, args, code, op) ==
    /\ call[p] = Idle /\ Use(w)
    /\ IF code # 0
       THEN /\ outcomes' = Append(outcomes, Told(args, code, None))
            /\ UNCHANGED call
       ELSE /\ Goto(p, [op |-> op, args |-> args, release |-> None, began |-> Len(log), seen |-> Len(outcomes),
                        files |-> {}, read |-> 0])
            /\ UNCHANGED outcomes
    /\ UNCHANGED <<storeVars, disk>>

_run_create_command(p, args) ==
    args.cmd = "create" /\ Begin(p, <<"command", args>>, args, ReleaseArguments(args), "export")
\* Any id may be named, stored or not; the id of a release is generated with it.
_run_supersede_command(p, args) ==
    /\ args.cmd = "supersede"
    /\ args.supersedes \in ToSet(ReleaseIds) => args.supersedes \in DOMAIN objects
    /\ Begin(p, <<"command", args>>, args, ReleaseArguments(args), "export")

-----------------------------------------------------------------------------
(* Assembling a bundle and recording its release. *)

\* The export into the temporary directory.
export(p) ==
    LET args == call[p].args
        closure == resolve_closure(Store, args.crate)
    IN  /\ At(p, "export")
        /\ UNCHANGED <<storeVars, work>>
        /\ IF ~closure.ok \/ _fetch_artifact_bytes(Held, closure.artifacts) # {} \/ output_path_conflict(args.output)
           THEN Exit(p, Outcome(p, 3)) /\ UNCHANGED disk
           ELSE /\ Goto(p, [call[p] EXCEPT !.op = "report",
                               !.files = {[path |-> <<"ro-crate">> \o f.path, content |-> f.content] :
                                             f \in build_export(Store, args.crate, closure)}])
                /\ UNCHANGED <<disk, outcomes>>

ReportFiles(S, args) ==
    LET report == render(S, args.crate, args.disclosure, Attested(args.classification), {}).report
    IN  {[path |-> <<"report.md">>, content |-> render_markdown(report)],
         [path |-> <<"report.html">>, content |-> render_html(report)]}

\* The report reads the store once more.
AssembleReport(p) ==
    LET args == call[p].args
    IN  /\ At(p, "report")
        /\ UNCHANGED <<storeVars, disk, work>>
        /\ IF ~render(Store, args.crate, args.disclosure, {}, {}).ok
           THEN Exit(p, Outcome(p, 3))
           ELSE /\ Goto(p, [call[p] EXCEPT !.op = "create", !.files = @ \cup ReportFiles(Store, args)])
                /\ UNCHANGED outcomes

\* Who may approve, and how.
Approved(args) ==
    /\ args.approved_by = "person"
    /\ args.statement # "blank"
    /\ args.mode = "single_human"

\* began and classification are history: the record does not keep them.
_release_record_to_stored_object(p) ==
    [kind |-> "ReleaseRecord", revision |-> 1, at |-> Now, status |-> "released", superseded_by |-> None,
     crate |-> call[p].args.crate, disclosure |-> call[p].args.disclosure,
     bundle |-> compute_bundle_manifest(call[p].files), refs |-> {},
     began |-> call[p].began, classification |-> call[p].args.classification]

Given == Cardinality(_discover_ids_by_event_type(Store, "release.approved"))
NextRelease == ReleaseIds[Given + 1]

\* The release and its approval, in one transaction.
create(p) ==
    /\ At(p, "create") /\ UNCHANGED <<edges, disk, work>>
    /\ IF Approved(call[p].args) /\ Is(Store, call[p].args.crate, "EvidenceCrate")
       THEN /\ Given < Len(ReleaseIds)
            /\ Commit(NextRelease, _release_record_to_stored_object(p), "release.approved")
            /\ Goto(p, [call[p] EXCEPT !.op = "finalize", !.release = NextRelease])
            /\ UNCHANGED outcomes
       ELSE Exit(p, Outcome(p, 3)) /\ UNCHANGED <<objects, log>>

\* Mutant of Place: what is in the way is replaced.
PlaceAnyway(path, files, ok, failed) == disk' = [disk EXCEPT ![path] = [kind |-> "dir", files |-> files]] /\ ok

\* A directory is moved into place unless something has appeared there.
Place(path, files, ok, failed) ==
    IF disk[path] = Free THEN disk' = [disk EXCEPT ![path] = [kind |-> "dir", files |-> files]] /\ ok
    ELSE UNCHANGED disk /\ failed

\* The manifest and the record are added and the directory is moved; on
\* failure the release stays recorded and the directory is removed.
assemble_and_release(p) ==
    LET args == call[p].args
        bundle == call[p].files \cup {[path |-> f, content |-> [release |-> call[p].release]] : f \in EXCLUDED_FILENAMES}
    IN  /\ At(p, "finalize") /\ UNCHANGED <<storeVars, work>>
        /\ Place(args.output, bundle,
                 IF args.cmd = "supersede"
                 THEN Goto(p, [call[p] EXCEPT !.op = "read_old"]) /\ UNCHANGED outcomes
                 ELSE Exit(p, Outcome(p, 0)),
                 Exit(p, Outcome(p, 3)))

-----------------------------------------------------------------------------
(* Supersession: a second transaction, after the new release. *)

ReleaseTransitions == {<<"released", "superseded">>}

\* Mutant of supersede: the old release's status is not looked at.
supersede_again(p) ==
    LET old == call[p].args.supersedes
    IN  /\ At(p, "read_old") /\ UNCHANGED <<storeVars, disk, work>>
        /\ IF old # call[p].release /\ Is(Store, old, "ReleaseRecord") /\ objects[call[p].release].status = "released"
           THEN Goto(p, [call[p] EXCEPT !.op = "write_old", !.read = objects[old].revision]) /\ UNCHANGED outcomes
           ELSE Exit(p, Outcome(p, 3))

\* Both releases are read; a refusal leaves the new release beside the old.
supersede(p) ==
    LET old == call[p].args.supersedes
    IN  /\ At(p, "read_old") /\ UNCHANGED <<storeVars, disk, work>>
        /\ IF /\ old # call[p].release
              /\ Is(Store, old, "ReleaseRecord")
              /\ <<objects[old].status, "superseded">> \in ReleaseTransitions
              /\ objects[call[p].release].status = "released"
           THEN Goto(p, [call[p] EXCEPT !.op = "write_old", !.read = objects[old].revision]) /\ UNCHANGED outcomes
           ELSE Exit(p, Outcome(p, 3))

\* The old release's next revision, if no other was written since.
create_and_supersede(p) ==
    LET old == call[p].args.supersedes
    IN  /\ At(p, "write_old") /\ UNCHANGED <<edges, disk, work>>
        /\ IF objects[old].revision = call[p].read
           THEN /\ Commit(old, [objects[old] EXCEPT !.status = "superseded", !.superseded_by = call[p].release,
                                                    !.revision = call[p].read + 1, !.at = Now], "release.superseded")
                /\ Exit(p, Outcome(p, 0))
           ELSE Exit(p, Outcome(p, 3)) /\ UNCHANGED <<objects, log>>

-----------------------------------------------------------------------------
(* The status of a release. *)

exported_object_urns(files) == {f.path[3] : f \in {g \in files : Len(g.path) = 3 /\ g.path[2] = "objects"}}

\* Mutant of _correction_object_ids: what the impact reached does not count.
_affected_object_ids(S, x) == S.objects[x].affected_objects

_correction_object_ids(S, x) == S.objects[x].affected_objects \cup S.objects[x].impact_objects

\* Corrections last revised after the release that touch what it shipped.
_affecting_corrections(S, r) ==
    {x \in _read_correction_bodies(S) :
        /\ S.objects[x].at > S.objects[r].at
        /\ _correction_object_ids(S, x) \cap exported_object_urns(S.objects[r].bundle.files) # {}}

_has_duplicate_unsuperseded_releases(S, crate) ==
    Cardinality({r \in _discover_ids_by_event_type(S, "release.approved") :
                    S.objects[r].crate = crate /\ S.objects[r].status # "superseded"}) > 1

compute_release_banner(S, r, duplicate) ==
    LET superseded == S.objects[r].status = "superseded"
        affecting == IF superseded THEN {} ELSE _affecting_corrections(S, r)
    IN  [verdict |-> IF superseded THEN "superseded"
                     ELSE IF affecting # {} THEN "corrections_affect_this_release" ELSE "current",
         superseded_by |-> S.objects[r].superseded_by, affecting |-> affecting, duplicate |-> duplicate]

\* The banner a reader is given.
status(S, r) == compute_release_banner(S, r, _has_duplicate_unsuperseded_releases(S, S.objects[r].crate))

_run_status_command(p, args) ==
    /\ args.cmd = "status" /\ call[p] = Idle /\ Use(<<"command", args>>)
    /\ outcomes' = Append(outcomes,
           IF Is(Store, args.release, "ReleaseRecord")
           THEN [args |-> args, exit |-> 0, release |-> args.release, began |-> Len(log), seen |-> Len(outcomes),
                 banner |-> status(Store, args.release)]
           ELSE Told(args, 3, None))
    /\ UNCHANGED <<storeVars, disk, call>>

-----------------------------------------------------------------------------
(* Verification of a bundle. *)

_diff_files(stored, actual) ==
    LET Paths(files) == {f.path : f \in files}
    IN  [extra |-> Paths(actual) \ Paths(stored), missing |-> Paths(stored) \ Paths(actual),
         changed |-> {f.path : f \in {g \in stored \ actual : g.path \in Paths(actual)}}]
NoDiffs == [extra |-> {}, missing |-> {}, changed |-> {}]

verify_bundle_dir(S, r, dir) ==
    LET manifest == compute_bundle_manifest(dir)
    IN  _diff_files(S.objects[r].bundle.files, manifest.files) = NoDiffs
        /\ manifest.root_hash = S.objects[r].bundle.root_hash

\* The bundle is built again from the store as it is now.
verify_rebuild(S, r, file) ==
    LET body == S.objects[r]
        closure == resolve_closure(S, body.crate)
        files == {[path |-> <<"ro-crate">> \o f.path, content |-> f.content] : f \in build_export(S, body.crate, closure)}
                 \cup ReportFiles(S, [crate |-> body.crate, disclosure |-> body.disclosure, classification |-> file])
    IN  _diff_files(body.bundle.files, files) = NoDiffs

\* Refused arguments, a mismatch and a match.
_run_verify_command(p, args) ==
    LET known == Is(Store, args.release, "ReleaseRecord")
        matched == IF args.bundle_dir # None THEN verify_bundle_dir(Store, args.release, disk[args.bundle_dir].files)
                   ELSE verify_rebuild(Store, args.release, args.classification)
        exit == CASE args.bundle_dir # None /\ (disk[args.bundle_dir] = Free \/ args.classification # None) -> 2
                  [] args.bundle_dir = None /\ ~args.artifact_root -> 2
                  [] ~known -> 3
                  [] args.bundle_dir = None
                        /\ ~DisclosureArgumentsOk(objects[args.release].disclosure, args.classification) -> 2
                  [] OTHER -> IF matched THEN 0 ELSE 3
    IN  /\ args.cmd = "verify" /\ call[p] = Idle /\ Use(<<"command", args>>)
        /\ outcomes' = Append(outcomes, Told(args, exit, IF known THEN args.release ELSE None))
        /\ UNCHANGED <<storeVars, disk, call>>

-----------------------------------------------------------------------------
(* `mrr report render` and `mrr export ro-crate`. *)

report_main_run_command(p, args) ==
    args.cmd = "report"
    /\ Begin(p, <<"command", args>>, args,
             CASE output_file_conflict(args.output) -> 3
               [] ~DisclosureArgumentsOk(args.disclosure, args.classification) -> 2
               [] OTHER -> 0,
             "render")

\* The report on a crate, or on claims.
RenderReport(p) ==
    LET args == call[p].args
        rendered == IF args.crate # None
                    THEN render(Store, args.crate, args.disclosure, Attested(args.classification), {})
                    ELSE render_from_claims(Store, args.claims, args.disclosure, Attested(args.classification))
    IN  /\ At(p, "render") /\ UNCHANGED <<storeVars, disk, work>>
        /\ IF rendered.ok
           THEN /\ Goto(p, [call[p] EXCEPT !.op = "replace",
                               !.files = {[path |-> <<"report.md">>, content |-> render_markdown(rendered.report)]}])
                /\ UNCHANGED outcomes
           ELSE Exit(p, Outcome(p, 3))

\* A file is moved over a file that has appeared there, never over a directory.
WriteReport(p) ==
    LET output == call[p].args.output
    IN  /\ At(p, "replace") /\ UNCHANGED <<storeVars, work>>
        /\ IF disk[output].kind = "dir"
           THEN Exit(p, Outcome(p, 1)) /\ UNCHANGED disk
           ELSE Exit(p, Outcome(p, 0)) /\ disk' = [disk EXCEPT ![output] = [kind |-> "file", files |-> call[p].files]]

\* Artifacts are fetched for a crate and never for claims.
export_main_run_command(p, args) ==
    args.cmd = "ro-crate"
    /\ Begin(p, <<"command", args>>, args,
             CASE output_path_conflict(args.output) -> 3
               [] (args.crate # None) # args.artifact_root -> 2
               [] OTHER -> 0,
             "closure")

ExportClosure(args) ==
    IF args.crate # None THEN resolve_closure(Store, args.crate) ELSE resolve_closure_from_claims(Store, args.claims)

_write_closure(p) ==
    LET args == call[p].args
        closure == ExportClosure(args)
    IN  /\ At(p, "closure") /\ UNCHANGED <<storeVars, disk, work>>
        /\ IF closure.ok /\ _fetch_artifact_bytes(Held, closure.artifacts) = {} /\ ~output_path_conflict(args.output)
           THEN /\ Goto(p, [call[p] EXCEPT !.op = "move", !.files = build_export(Store, args.crate, closure)])
                /\ UNCHANGED outcomes
           ELSE Exit(p, Outcome(p, 3))

_write_export(p) ==
    /\ At(p, "move") /\ UNCHANGED <<storeVars, work>>
    /\ Place(call[p].args.output, call[p].files, Exit(p, Outcome(p, 0)), Exit(p, Outcome(p, 3)))

-----------------------------------------------------------------------------
Init ==
    /\ objects = FirstStore.objects /\ edges = FirstStore.edges /\ log = FirstStore.log
    /\ disk = [path \in Outputs |-> Free]
    /\ call = [p \in Processes |-> Idle]
    /\ outcomes = <<>>
    /\ work \in Work

Commands == {w[2] : w \in {v \in DOMAIN work : v[1] = "command"}}

Next ==
    \/ \E change \in Changes : record_object_revision_with_event(change)
    \/ \E p \in Processes :
          \/ \E args \in Commands :
                \/ _run_create_command(p, args) \/ _run_supersede_command(p, args)
                \/ _run_status_command(p, args) \/ _run_verify_command(p, args)
                \/ report_main_run_command(p, args) \/ export_main_run_command(p, args)
          \/ export(p) \/ AssembleReport(p) \/ create(p) \/ assemble_and_release(p)
          \/ supersede(p) \/ create_and_supersede(p)
          \/ RenderReport(p) \/ WriteReport(p) \/ _write_closure(p) \/ _write_export(p)
          \/ Crash(p)

Spec == Init /\ [][Next]_vars

-----------------------------------------------------------------------------
(* Properties. *)

Releases == {r \in ToSet(ReleaseIds) : Is(Store, r, "ReleaseRecord")}
\* The parts of a bundle.
Shipped(r) == exported_object_urns(objects[r].bundle.files)
ReportOf(files) == (CHOOSE f \in files : f.path = <<"report.md">>).content.sections
GivenAs(r) == CHOOSE i \in DOMAIN ReleaseIds : ReleaseIds[i] = r
\* Somebody else wrote to the store between two instants.
Moved(from, to) ==
    \E i \in from + 1 .. to : log[i].type \notin {"release.approved", "release.superseded"}

\* Every record, call and outcome has the shape the commands give it.
TypeOK ==
    /\ DOMAIN log = 1 .. Len(log)
    /\ \A i \in DOMAIN log : log[i].object \in DOMAIN objects
    /\ \A path \in Outputs : disk[path] = Free \/ disk[path].kind \in {"dir", "file"}
    /\ \A p \in Processes : call[p] = Idle \/ call[p].release \in ToSet(ReleaseIds) \cup {None}
    /\ \A i \in DOMAIN outcomes : outcomes[i].exit \in 0 .. 3

\* A release bundle on disk has a recorded, approved release whose manifest it
\* still matches, whatever died on the way (assemble_and_release persists
\* before it finalizes, bundle.py:221-246).
BundlesAreApproved ==
    \A path \in Outputs : \A f \in disk[path].files : f.path = <<"release-record">> =>
        /\ f.content.release \in Releases
        /\ verify_bundle_dir(Store, f.content.release, disk[path].files)

\* A finished directory is never replaced or written into ("refusing to write
\* over or into it"), even by a command that found the path free.
BundlesNeverReplaced ==
    [][\A path \in Outputs : disk[path].kind = "dir" => disk'[path] = disk[path]]_vars

\* Of two commands told to write the same path only one succeeds, unless the
\* second began before the first had ended.
OutputsWrittenOnceUnlessOverlapping ==
    \A i, j \in DOMAIN outcomes :
        (/\ i < j /\ outcomes[i].exit = 0 /\ outcomes[j].exit = 0
         /\ outcomes[i].args.cmd \in Writing /\ outcomes[j].args.cmd \in Writing
         /\ outcomes[i].args.output = outcomes[j].args.output) => outcomes[j].seen < i

\* A command that exits 0 has its bundle on disk and its release recorded, and
\* the release it was told to supersede names it as successor, from then on.
SuccessIsComplete ==
    \A i \in DOMAIN outcomes :
        LET o == outcomes[i]
        IN  (o.exit = 0 /\ o.args.cmd \in {"create", "supersede"}) =>
                /\ o.release \in Releases
                /\ [path |-> <<"release-record">>, content |-> [release |-> o.release]] \in disk[o.args.output].files
                /\ o.args.cmd = "supersede" => objects[o.args.supersedes].superseded_by = o.release

\* However a supersession was cut short, no two releases of one crate are both
\* reported as current without the duplicate_unsuperseded_releases anomaly.
AtMostOneCleanReleasePerCrate ==
    \A r, q \in Releases :
        (r # q /\ objects[r].crate = objects[q].crate) =>
            \E one \in {r, q} : status(Store, one).verdict = "superseded" \/ status(Store, one).duplicate

\* A superseded release names a successor that was approved after it, so the
\* chain of successors ends; and it was superseded once.
SupersededByYounger ==
    \A r \in Releases :
        /\ objects[r].status = "superseded" => objects[r].superseded_by \in {q \in Releases : GivenAs(r) < GivenAs(q)}
        /\ Cardinality({i \in DOMAIN log : log[i] = [type |-> "release.superseded", object |-> r]}) <= 1

\* A rebuild differs from a release only if the store was written since its
\* assembly began, or another classification was brought.
MismatchHasACause ==
    \A i \in DOMAIN outcomes :
        LET o == outcomes[i]
        IN  (o.args.cmd = "verify" /\ o.exit = 3 /\ o.release # None /\ o.args.bundle_dir = None) =>
                \/ Moved(objects[o.release].began, o.began)
                \/ o.args.classification # objects[o.release].classification

\* An unresolved critical correction that touches what a release shipped is in
\* its report or on its banner.  The banner looks at corrections later than
\* the record, the report was written before it (MRR-FR-104).
CorrectionShown(r, x) ==
    \/ x \in {row.correction : row \in ReportOf(objects[r].bundle.files).corrections}
    \/ x \in status(Store, r).affecting
MustBeShown(r, x) ==
    /\ objects[r].status = "released"
    /\ is_unresolved_critical_correction(Store, x)
    /\ Touched(Store, x) \cap Shipped(r) # {}

\* It is so, unless the correction was last written while the release was
\* being assembled.
OmittedOnlyWhileAssembling ==
    \A r \in Releases, x \in _read_correction_bodies(Store) :
        MustBeShown(r, x) =>
            CorrectionShown(r, x) \/ (objects[r].began < objects[x].at /\ objects[x].at < objects[r].at)

\* The report of a bundle and its RO-Crate were read at different instants;
\* unless the store was written in between, the report cites only what is
\* shipped, at the revision that is shipped, and shows every review of a claim
\* that is shipped.
BundleIsConsistentUnlessStoreMoved ==
    \A r \in Releases :
        LET files == objects[r].bundle.files
            sections == ReportOf(files)
        IN  Moved(objects[r].began, objects[r].at - 1) \/
            /\ sections.evidence \subseteq Shipped(r)
            /\ {h.target : h \in sections.provenance} \subseteq Shipped(r)
            /\ \A row \in sections.claims :
                  /\ [path |-> <<"ro-crate", "objects", row.claim>>, content |-> [revision |-> row.revision]] \in files
                  /\ \A v \in Shipped(r) :
                        (Is(Store, v, "VerificationResult") /\ objects[v].target_id = row.claim)
                            => v \in {w.verification : w \in row.verifications}
                  /\ \A v \in _discover_ids_by_event_type([Store EXCEPT !.log = SubSeq(log, 1, objects[r].began)],
                                                         "verification.recorded") :
                        objects[v].target_id = row.claim => v \in Shipped(r)

\* The arguments a report on disk was written under, and when its command began: a
\* bundle names its release, a file is from the last command that wrote the path.
ReportPaths == {<<"report.md">>, <<"report.html">>}
WroteReport(o, path) == o.exit = 0 /\ o.args.cmd = "report" /\ o.args.output = path
LastReport(path) ==
    CHOOSE i \in DOMAIN outcomes : /\ WroteReport(outcomes[i], path)
                                  /\ \A j \in DOMAIN outcomes : WroteReport(outcomes[j], path) => j <= i
Request(path) ==
    IF disk[path].kind = "dir"
    THEN objects[(CHOOSE f \in disk[path].files : f.path = <<"release-record">>).content.release]
    ELSE LET o == outcomes[LastReport(path)]
         IN  [disclosure |-> o.args.disclosure, classification |-> o.args.classification, began |-> o.began]

\* Every text of a report is shown only if all it depends on is attested PUBLIC, and
\* a claim depends on whatever corrected it before the command began.
FailClosed(sections, attested, began) ==
    /\ \A row \in sections.claims :
          /\ {x \in unresolved_critical_correction_ids_for_claim(Store, row.claim) : objects[x].at <= began}
                \subseteq row.unresolved \cap {x.correction : x \in sections.corrections}
          /\ row.assertion = "shown" => {row.claim} \cup row.unresolved \subseteq attested
          /\ row.known_unknowns.text = "shown" => row.claim \in attested
          /\ \A v \in row.verifications : v.findings = "shown" => {v.verification, row.claim} \subseteq attested
    /\ \A x \in sections.corrections : x.reason = "shown" => {x.correction} \cup x.touched \subseteq attested
    /\ \A u \in sections.known_unknowns : u.text = "shown" => u.about \in attested

\* What commands leave on disk: bundles are approved and match their record, success
\* means that bundle and record are there, two commands take one path only when they
\* overlap, and a finished directory is never touched again, wherever a command died
\* (assemble_and_release, create_and_supersede).
OutputsAreApproved ==
    /\ [](TypeOK /\ BundlesAreApproved /\ SuccessIsComplete /\ OutputsWrittenOnceUnlessOverlapping)
    /\ BundlesNeverReplaced

\* The releases of a crate form one line, however supersessions race or are cut short
\* between their two transactions.
SupersessionIsALine == AtMostOneCleanReleasePerCrate /\ SupersededByYounger

\* A bundle shows the store as it was while it was assembled, corrections included:
\* what it omits or what a rebuild finds different was written meanwhile or later.
BundlesShowTheStore ==
    OmittedOnlyWhileAssembling /\ BundleIsConsistentUnlessStoreMoved /\ MismatchHasACause

\* No public report, as a file or in a bundle, shows a text unless all it depends on was
\* attested PUBLIC to the command that wrote it.  A claim depends on itself and on every
\* unresolved critical correction that touched it when the command began, and these are
\* listed whether or not their own text may be shown (build_public_claim_row and
\* build_public_correction_row; MRR-FR-095 outranks redaction).
PublicReportsAreFailClosed ==
    \A path \in Outputs : \A f \in disk[path].files : f.path \in ReportPaths =>
        LET asked == Request(path)
        IN  asked.disclosure = "public" =>
                FailClosed(f.content.sections, Attested(asked.classification), asked.began)
=============================================================================
