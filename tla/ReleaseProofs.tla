---------------------------- MODULE ReleaseProofs ----------------------------
(***************************************************************************)
(* Theorems about Release, for any processes, outputs, ids of releases,     *)
(* first store and workload, and whatever other services write.             *)
(***************************************************************************)
EXTENDS Release, FiniteSetTheorems, SequenceTheorems, WellFoundedInduction, TLAPS

-----------------------------------------------------------------------------
(* The inductive invariant: types *)

\* What a workload lets the callers ask for.
Asked == {w[2] : w \in {v \in UNION {DOMAIN x : x \in Work} : v[1] = "command"}}

Assembling == {"export", "report", "create", "finalize", "read_old", "write_old"}
Rendering == {"render", "replace"}
Exporting == {"closure", "move"}

Typed ==
    /\ log \in Seq(ToSet(log)) /\ \A i \in DOMAIN log : log[i].object \in DOMAIN objects
    /\ outcomes \in Seq(ToSet(outcomes))
    /\ DOMAIN disk = Outputs
    /\ \A path \in Outputs : disk[path] = Free \/ disk[path].kind \in {"dir", "file"}
    /\ DOMAIN call = Processes
    /\ Commands \subseteq Asked

-----------------------------------------------------------------------------
(* The inductive invariant: releases *)

\* The first n ids of releases.
FirstIds(n) == {ReleaseIds[i] : i \in 1 .. n}

\* The ids given out are the first ones, and only releases have them.
GivenInv ==
    /\ Given \in 0 .. Len(ReleaseIds)
    /\ _discover_ids_by_event_type(Store, "release.approved") = FirstIds(Given)
    /\ \A r \in ToSet(ReleaseIds) : r \in DOMAIN objects <=> r \in FirstIds(Given)
    /\ \A id \in DOMAIN objects : objects[id].kind = "ReleaseRecord" <=> id \in ToSet(ReleaseIds)

IsRecord(x) ==
    /\ x = [kind |-> "ReleaseRecord", revision |-> x.revision, at |-> x.at, status |-> x.status,
            superseded_by |-> x.superseded_by, crate |-> x.crate, disclosure |-> x.disclosure, bundle |-> x.bundle,
            refs |-> x.refs, began |-> x.began, classification |-> x.classification]
    /\ x.revision \in Nat
    /\ x.status \in {"released", "superseded"}

\* A release was superseded once, by a younger one.
LineInv ==
    /\ \A r \in Releases :
          /\ IsRecord(objects[r])
          /\ objects[r].status = "superseded" =>
                objects[r].superseded_by \in Releases /\ GivenAs(r) < GivenAs(objects[r].superseded_by)
    /\ \A i \in DOMAIN log : log[i].type = "release.superseded" =>
          log[i].object \in Releases /\ objects[log[i].object].status = "superseded"
    /\ \A i, j \in DOMAIN log :
          (log[i].type = "release.superseded" /\ log[j].type = "release.superseded" /\ log[i].object = log[j].object) => i = j

-----------------------------------------------------------------------------
(* The inductive invariant: what is on disk and what the callers were told *)

NoReleaseFiles(files) == \A f \in files : f.path \notin EXCLUDED_FILENAMES
RecordFile(r) == [path |-> <<"release-record">>, content |-> [release |-> r]]
\* The path holds the finished bundle of release r.
Finished(path, r) == disk[path].kind = "dir" /\ RecordFile(r) \in disk[path].files

DiskInv ==
    \A path \in Outputs : \A f \in disk[path].files : f.path = <<"release-record">> =>
        /\ f.content.release \in Releases
        /\ objects[f.content.release].bundle = compute_bundle_manifest(disk[path].files)

Wrote(o) == o.exit = 0 /\ o.args.cmd \in Writing
\* A command that began when n outcomes were told found its path free.
FoundFree(args, n) == \A i \in 1 .. n : Wrote(outcomes[i]) => outcomes[i].args.output # args.output

Outcomes(o, i) ==
    /\ o.args \in Asked /\ o.exit \in 0 .. 3 /\ o.seen \in 0 .. i - 1
    /\ Wrote(o) =>
          /\ disk[o.args.output] # Free /\ FoundFree(o.args, o.seen)
          /\ o.args.cmd \in {"create", "supersede"} => o.release \in Releases /\ Finished(o.args.output, o.release)
          /\ o.args.cmd = "supersede" =>
                /\ o.args.supersedes \in Releases
                /\ objects[o.args.supersedes].status = "superseded" /\ objects[o.args.supersedes].superseded_by = o.release

-----------------------------------------------------------------------------
(* The inductive invariant: what a command holds *)

IsCall(c) ==
    /\ c = [op |-> c.op, args |-> c.args, release |-> c.release, began |-> c.began, seen |-> c.seen,
            files |-> c.files, read |-> c.read]
    /\ c.args \in Asked /\ c.release \in ToSet(ReleaseIds) \cup {None}
    /\ \/ c.op \in Assembling /\ c.args.cmd \in {"create", "supersede"}
       \/ c.op \in Rendering /\ c.args.cmd = "report"
       \/ c.op \in Exporting /\ c.args.cmd = "ro-crate"
    /\ c.op \in {"read_old", "write_old"} => c.args.cmd = "supersede"

\* The release it was told to supersede, if that is the id of one, was there before it.
OldIsStored(args) ==
    (args.cmd = "supersede" /\ args.supersedes \in ToSet(ReleaseIds)) => args.supersedes \in DOMAIN objects

HoldsRelease(c) ==
    /\ OldIsStored(c.args)
    /\ c.op \in {"finalize", "read_old", "write_old"} =>
          /\ c.release \in Releases
          /\ (c.args.cmd = "supersede" /\ c.args.supersedes \in ToSet(ReleaseIds)) =>
                GivenAs(c.args.supersedes) < GivenAs(c.release)
    /\ c.op = "finalize" => objects[c.release].bundle = compute_bundle_manifest(c.files)
    /\ c.op \in {"read_old", "write_old"} => Finished(c.args.output, c.release)
    /\ c.op = "write_old" =>
          /\ c.args.supersedes \in Releases /\ c.read \in Nat /\ c.read <= objects[c.args.supersedes].revision
          /\ c.read = objects[c.args.supersedes].revision => objects[c.args.supersedes].status = "released"

Holds(c) ==
    c # Idle =>
        /\ IsCall(c) /\ HoldsRelease(c) /\ NoReleaseFiles(c.files)
        /\ c.seen \in 0 .. Len(outcomes) /\ FoundFree(c.args, c.seen)

IInv ==
    /\ Typed /\ GivenInv /\ LineInv /\ DiskInv
    /\ \A i \in DOMAIN outcomes : Outcomes(outcomes[i], i)
    /\ \A p \in Processes : Holds(call[p])

-----------------------------------------------------------------------------
(* Data *)

LEMMA AppendedTo ==
    ASSUME NEW s, s \in Seq(ToSet(s)), NEW x
    PROVE  /\ Append(s, x) \in Seq(ToSet(Append(s, x))) /\ Len(s) \in Nat /\ Len(Append(s, x)) = Len(s) + 1
           /\ DOMAIN s = 1 .. Len(s) /\ DOMAIN Append(s, x) = 1 .. Len(s) + 1
           /\ Append(s, x)[Len(s) + 1] = x /\ \A i \in 1 .. Len(s) : Append(s, x)[i] = s[i]
  <1>1. PICK S : S = ToSet(s) \cup {x}
    OBVIOUS
  <1>2. s \in Seq(S) /\ x \in S
    BY <1>1
  <1>3. PICK t : t = Append(s, x)
    OBVIOUS
  <1>4. /\ t \in Seq(S) /\ Len(s) \in Nat /\ Len(t) = Len(s) + 1
        /\ DOMAIN s = 1 .. Len(s) /\ DOMAIN t = 1 .. Len(s) + 1
        /\ t[Len(s) + 1] = x /\ \A i \in 1 .. Len(s) : t[i] = s[i]
    BY <1>2, <1>3
  <1>5. t \in Seq(ToSet(t))
    <2>1. \A i \in 1 .. Len(t) : t[i] \in ToSet(t)
      BY <1>4 DEF ToSet
    <2> QED
      BY <1>4, <2>1
  <1> QED
    BY <1>3, <1>4, <1>5

\* An id is given as often as its place says, and the first n ids are n.
LEMMA GivenAsIs ==
    ASSUME NEW i \in 1 .. Len(ReleaseIds)
    PROVE  GivenAs(ReleaseIds[i]) = i
  BY ReleaseConstants DEF GivenAs, IsInjective

LEMMA FirstIdsAre ==
    ASSUME NEW n \in 0 .. Len(ReleaseIds)
    PROVE  /\ IsFiniteSet(FirstIds(n)) /\ Cardinality(FirstIds(n)) = n
           /\ FirstIds(n) \subseteq ToSet(ReleaseIds)
           /\ n < Len(ReleaseIds) => /\ FirstIds(n + 1) = FirstIds(n) \cup {ReleaseIds[n + 1]}
                                     /\ ReleaseIds[n + 1] \in ToSet(ReleaseIds) \ FirstIds(n)
                                     /\ \A r \in FirstIds(n) : GivenAs(r) < GivenAs(ReleaseIds[n + 1])
  <1>0. /\ Len(ReleaseIds) \in Nat /\ DOMAIN ReleaseIds = 1 .. Len(ReleaseIds)
        /\ \A i, j \in 1 .. Len(ReleaseIds) : ReleaseIds[i] = ReleaseIds[j] => i = j
    BY ReleaseConstants DEF IsInjective
  <1>1. IsFiniteSet(FirstIds(n)) /\ Cardinality(FirstIds(n)) = n
    <2> DEFINE f == [i \in 1 .. n |-> ReleaseIds[i]]
    <2>1. f \in Bijection(1 .. n, FirstIds(n))
      BY <1>0 DEF Bijection, Injection, Surjection, FirstIds, IsInjective
    <2>2. IsFiniteSet(1 .. n) /\ Cardinality(1 .. n) = n
      BY FS_Interval, <1>0
    <2> QED
      BY <2>1, <2>2, FS_Bijection DEF ExistsBijection
  <1>2. FirstIds(n) \subseteq ToSet(ReleaseIds)
    BY <1>0 DEF FirstIds, ToSet
  <1>3. ASSUME n < Len(ReleaseIds)
        PROVE  /\ FirstIds(n + 1) = FirstIds(n) \cup {ReleaseIds[n + 1]}
               /\ ReleaseIds[n + 1] \in ToSet(ReleaseIds) \ FirstIds(n)
               /\ \A r \in FirstIds(n) : GivenAs(r) < GivenAs(ReleaseIds[n + 1])
    <2>1. n + 1 \in 1 .. Len(ReleaseIds) /\ n \in Nat
      BY <1>0, <1>3
    <2>2. FirstIds(n + 1) = FirstIds(n) \cup {ReleaseIds[n + 1]}
      BY <2>1 DEF FirstIds
    <2>3. ReleaseIds[n + 1] \in ToSet(ReleaseIds) \ FirstIds(n)
      BY <1>0, <2>1 DEF FirstIds, ToSet
    <2>4. \A i \in 1 .. n : GivenAs(ReleaseIds[i]) = i /\ i < n + 1
      BY <1>0, <2>1, GivenAsIs
    <2>5. GivenAs(ReleaseIds[n + 1]) = n + 1
      BY <2>1, GivenAsIs
    <2> QED
      BY <2>2, <2>3, <2>4, <2>5 DEF FirstIds
  <1> QED
    BY <1>1, <1>2, <1>3

\* One revision and its event: what is stored under other ids stays.
LEMMA Committed ==
    ASSUME Typed, NEW id, NEW body, NEW type, Commit(id, body, type)
    PROVE  /\ DOMAIN objects' = DOMAIN objects \cup {id} /\ objects'[id] = body
           /\ \A x \in DOMAIN objects : x # id => objects'[x] = objects[x]
           /\ Len(log) \in Nat /\ DOMAIN log = 1 .. Len(log) /\ DOMAIN log' = 1 .. Len(log) + 1
           /\ log'[Len(log) + 1].type = type /\ log'[Len(log) + 1].object = id
           /\ log' \in Seq(ToSet(log'))
           /\ \A i \in 1 .. Len(log) : log'[i] = log[i]
  <1>1. objects' = [x \in DOMAIN objects \cup {id} |-> IF x = id THEN body ELSE objects[x]]
    BY DEF Commit
  <1>2. PICK e : e = [type |-> type, object |-> id]
    OBVIOUS
  <1>3. log' = Append(log, e)
    BY <1>2 DEF Commit
  <1>4. PICK s : s = log
    OBVIOUS
  <1>5. s \in Seq(ToSet(s))
    BY <1>4 DEF Typed
  <1>6. PICK t : t = Append(s, e)
    OBVIOUS
  <1>8. /\ t \in Seq(ToSet(t)) /\ Len(s) \in Nat /\ DOMAIN s = 1 .. Len(s) /\ DOMAIN t = 1 .. Len(s) + 1
        /\ t[Len(s) + 1] = e /\ \A i \in 1 .. Len(s) : t[i] = s[i]
    BY <1>5, <1>6, AppendedTo
  <1>9. log' = t /\ log = s
    BY <1>3, <1>4, <1>6
  <1>7. log' \in Seq(ToSet(log'))
    BY <1>8, <1>9
  <1> QED
    BY <1>1, <1>2, <1>7, <1>8, <1>9

-----------------------------------------------------------------------------
(* What a step does *)

\* A release is recorded; an old release is superseded.
Approves(p) ==
    /\ create(p) /\ At(p, "create") /\ Given < Len(ReleaseIds)
    /\ Commit(NextRelease, _release_record_to_stored_object(p), "release.approved")
    /\ Goto(p, [call[p] EXCEPT !.op = "finalize", !.release = NextRelease])
    /\ UNCHANGED outcomes
Supersedes(p) ==
    LET old == call[p].args.supersedes
    IN  /\ create_and_supersede(p) /\ At(p, "write_old") /\ objects[old].revision = call[p].read
        /\ Commit(old, [objects[old] EXCEPT !.status = "superseded", !.superseded_by = call[p].release,
                                            !.revision = call[p].read + 1, !.at = Now], "release.superseded")
        /\ Exit(p, Outcome(p, 0))

\* A command begins, is answered at once, or goes on.
Begins(p) ==
    \E args \in Commands :
        \/ _run_create_command(p, args) \/ _run_supersede_command(p, args)
        \/ report_main_run_command(p, args) \/ export_main_run_command(p, args)
Asks(p) == \E args \in Commands : _run_status_command(p, args) \/ _run_verify_command(p, args)
GoesOn(p) ==
    \/ export(p) \/ AssembleReport(p) \/ create(p) \/ assemble_and_release(p)
    \/ supersede(p) \/ create_and_supersede(p)
    \/ RenderReport(p) \/ WriteReport(p) \/ _write_closure(p) \/ _write_export(p)

StoreStep ==
    \/ UNCHANGED <<objects, log>>
    \/ \E change \in Changes : record_object_revision_with_event(change)
    \/ \E p \in Processes : Approves(p) \/ Supersedes(p)
\* What a finished command moves into place.
Bundle(c) == c.files \cup {[path |-> f, content |-> [release |-> c.release]] : f \in EXCLUDED_FILENAMES}
Moves(c, kind, files) ==
    \/ c.op = "replace" /\ kind = "file" /\ files = c.files
    \/ c.op = "move" /\ kind = "dir" /\ files = c.files
    \/ c.op = "finalize" /\ kind = "dir" /\ files = Bundle(c)
MovedTo(p, path, kind, files) ==
    /\ Moves(call[p], kind, files)
    /\ kind = "file" => disk[path].kind # "dir"
    /\ kind = "dir" => disk[path] = Free
    /\ disk' = [disk EXCEPT ![path] = [kind |-> kind, files |-> files]]
DiskStep == UNCHANGED disk \/ \E p \in Processes : \E path, kind, files : MovedTo(p, path, kind, files)
ToldStep == UNCHANGED outcomes \/ \E o : outcomes' = Append(outcomes, o)
WorkStep == DOMAIN work' = DOMAIN work

CallStep(p) == UNCHANGED call \/ \E c : call' = [call EXCEPT ![p] = c]

\* What a step of process p leaves alone.
Frame(p) == StoreStep /\ DiskStep /\ ToldStep /\ WorkStep /\ UNCHANGED edges /\ CallStep(p)

LEMMA BeginsFrame ==
    ASSUME NEW p \in Processes, Begins(p)
    PROVE  /\ Frame(p) /\ UNCHANGED <<storeVars, disk>>
           /\ UNCHANGED outcomes \/ UNCHANGED call
  <1>1. PICK args, code, op : Begin(p, <<"command", args>>, args, code, op)
    BY DEF Begins, _run_create_command, _run_supersede_command, report_main_run_command, export_main_run_command
  <1> QED
    BY <1>1 DEF Frame, CallStep, Begin, Use, Goto, StoreStep, DiskStep, ToldStep, WorkStep, storeVars

LEMMA AsksFrame ==
    ASSUME NEW p \in Processes, Asks(p)
    PROVE  Frame(p) /\ UNCHANGED <<storeVars, disk, call>>
  <1>1. PICK args \in Commands : _run_status_command(p, args) \/ _run_verify_command(p, args)
    BY DEF Asks
  <1>2. UNCHANGED <<storeVars, disk, call>> /\ WorkStep /\ ToldStep
    BY <1>1 DEF _run_status_command, _run_verify_command, Use, WorkStep, ToldStep
  <1> QED
    BY <1>2 DEF Frame, CallStep, StoreStep, DiskStep, storeVars

LEMMA GoesOnFrame ==
    ASSUME NEW p \in Processes, GoesOn(p)
    PROVE  Frame(p)
  <1>1. CASE export(p) \/ AssembleReport(p) \/ RenderReport(p) \/ _write_closure(p) \/ supersede(p)
    BY <1>1 DEF export, AssembleReport, RenderReport, _write_closure, supersede,
                Exit, Goto, storeVars, StoreStep, DiskStep, ToldStep, WorkStep, CallStep, Frame
  <1>2. CASE create(p)
    BY <1>2 DEF create, Approves, Exit, Goto, StoreStep, DiskStep, ToldStep, WorkStep, CallStep, Frame
  <1>3. CASE create_and_supersede(p)
    BY <1>3 DEF create_and_supersede, Supersedes, Exit, Goto, StoreStep, DiskStep, ToldStep, WorkStep, CallStep, Frame
  <1>4. ASSUME UNCHANGED <<storeVars, work>>, ToldStep, CallStep(p), DiskStep
        PROVE  Frame(p)
    BY <1>4 DEF storeVars, StoreStep, WorkStep, Frame
  <1>5. CASE assemble_and_release(p)
    <2>1. UNCHANGED <<storeVars, work>> /\ ToldStep /\ CallStep(p) /\ At(p, "finalize")
      BY <1>5 DEF assemble_and_release, Place, Exit, Goto, ToldStep, CallStep
    <2>2. PICK path, files : path = call[p].args.output /\ files = Bundle(call[p])
      OBVIOUS
    <2>3. \/ UNCHANGED disk
          \/ disk[path] = Free /\ disk' = [disk EXCEPT ![path] = [kind |-> "dir", files |-> files]]
      BY <1>5, <2>2 DEF assemble_and_release, Place, Bundle
    <2>4. Moves(call[p], "dir", files)
      BY <2>1, <2>2 DEF Moves, At
    <2>5. UNCHANGED disk \/ MovedTo(p, path, "dir", files)
      BY <2>3, <2>4 DEF MovedTo
    <2> QED
      BY <1>4, <2>1, <2>5 DEF DiskStep
  <1>6. CASE WriteReport(p)
    <2>1. UNCHANGED <<storeVars, work>> /\ ToldStep /\ CallStep(p) /\ At(p, "replace")
      BY <1>6 DEF WriteReport, Exit, Goto, ToldStep, CallStep
    <2>2. PICK path, files : path = call[p].args.output /\ files = call[p].files
      OBVIOUS
    <2>3. \/ UNCHANGED disk
          \/ disk[path].kind # "dir" /\ disk' = [disk EXCEPT ![path] = [kind |-> "file", files |-> files]]
      BY <1>6, <2>2 DEF WriteReport
    <2>4. Moves(call[p], "file", files)
      BY <2>1, <2>2 DEF Moves, At
    <2>5. UNCHANGED disk \/ MovedTo(p, path, "file", files)
      BY <2>3, <2>4 DEF MovedTo
    <2> QED
      BY <1>4, <2>1, <2>5 DEF DiskStep
  <1>7. CASE _write_export(p)
    <2>1. UNCHANGED <<storeVars, work>> /\ ToldStep /\ CallStep(p) /\ At(p, "move")
      BY <1>7 DEF _write_export, Place, Exit, Goto, ToldStep, CallStep
    <2>2. PICK path, files : path = call[p].args.output /\ files = call[p].files
      OBVIOUS
    <2>3. \/ UNCHANGED disk
          \/ disk[path] = Free /\ disk' = [disk EXCEPT ![path] = [kind |-> "dir", files |-> files]]
      BY <1>7, <2>2 DEF _write_export, Place
    <2>4. Moves(call[p], "dir", files)
      BY <2>1, <2>2 DEF Moves, At
    <2>5. UNCHANGED disk \/ MovedTo(p, path, "dir", files)
      BY <2>3, <2>4 DEF MovedTo
    <2> QED
      BY <1>4, <2>1, <2>5 DEF DiskStep
  <1> QED
    BY <1>1, <1>2, <1>3, <1>5, <1>6, <1>7 DEF GoesOn

LEMMA Steps ==
    ASSUME [Next]_vars
    PROVE  \/ UNCHANGED vars
           \/ \E change \in Changes : record_object_revision_with_event(change)
           \/ \E p \in Processes : Begins(p) \/ Asks(p) \/ GoesOn(p) \/ Crash(p)
  BY DEF Next, Begins, Asks, GoesOn

LEMMA Only ==
    ASSUME [Next]_vars
    PROVE  /\ StoreStep /\ DiskStep /\ ToldStep /\ WorkStep /\ UNCHANGED edges
           /\ UNCHANGED call \/ \E p \in Processes : CallStep(p)
  <1>1. CASE UNCHANGED vars
    BY <1>1 DEF vars, StoreStep, DiskStep, ToldStep, WorkStep
  <1>2. CASE \E change \in Changes : record_object_revision_with_event(change)
    BY <1>2 DEF record_object_revision_with_event, Use, StoreStep, DiskStep, ToldStep, WorkStep
  <1>3. CASE \E p \in Processes : Begins(p) \/ Asks(p) \/ GoesOn(p)
    BY <1>3, BeginsFrame, AsksFrame, GoesOnFrame DEF Frame
  <1>4. CASE \E p \in Processes : Crash(p)
    BY <1>4 DEF Crash, Use, Goto, storeVars, StoreStep, DiskStep, ToldStep, WorkStep, CallStep
  <1> QED
    BY <1>1, <1>2, <1>3, <1>4, Steps

-----------------------------------------------------------------------------
(* The store *)

\* What is stored stays, and a release changes once.
Evolves ==
    /\ DOMAIN objects \subseteq DOMAIN objects'
    /\ \A r \in Releases :
          /\ r \in Releases' /\ objects'[r].bundle = objects[r].bundle
          /\ \/ objects'[r] = objects[r]
             \/ /\ objects[r].status = "released" /\ objects'[r].status = "superseded"
                /\ objects'[r].revision = objects[r].revision + 1

\* The releases are the objects that have one of the ids.
ReleasesAre ==
    GivenInv => /\ \A r : r \in Releases <=> r \in ToSet(ReleaseIds) /\ r \in DOMAIN objects
                /\ Releases = FirstIds(Given)

LEMMA WhichReleases == ReleasesAre
  <1> SUFFICES ASSUME GivenInv
               PROVE  /\ \A r : r \in Releases <=> r \in ToSet(ReleaseIds) /\ r \in DOMAIN objects
                      /\ Releases = FirstIds(Given)
    BY DEF ReleasesAre
  <1>1. \A r : r \in Releases <=> r \in ToSet(ReleaseIds) /\ r \in DOMAIN objects
    BY DEF GivenInv, Releases, Is, Stored, Store
  <1>2. FirstIds(Given) \subseteq ToSet(ReleaseIds)
    BY FirstIdsAre DEF GivenInv
  <1> QED
    BY <1>1, <1>2 DEF GivenInv

Discovered(type) == _discover_ids_by_event_type(Store, type)

LEMMA Changed ==
    ASSUME Typed, NEW change \in Changes, record_object_revision_with_event(change)
    PROVE  \E body : /\ Commit(change.object, body, change.type)
                     /\ body.kind # "ReleaseRecord" /\ change.object \notin ToSet(ReleaseIds)
                     /\ change.type \notin ReleaseEvents
  <1>1. PICK body : body = [change.body EXCEPT !.at = Now]
    OBVIOUS
  <1>2. body.kind = change.body.kind
    BY <1>1, ReleaseConstants
  <1> QED
    BY <1>1, <1>2, ReleaseConstants DEF record_object_revision_with_event

\* The ids of one type of event after a commit.
LEMMA DiscoveredNext ==
    ASSUME Typed, NEW id, NEW body, NEW type, Commit(id, body, type), NEW t
    PROVE  Discovered(t)' = IF t = type THEN Discovered(t) \cup {id} ELSE Discovered(t)
  <1>1. /\ Len(log) \in Nat /\ DOMAIN log = 1 .. Len(log) /\ DOMAIN log' = 1 .. Len(log) + 1
        /\ log'[Len(log) + 1].type = type /\ log'[Len(log) + 1].object = id
        /\ \A i \in 1 .. Len(log) : log'[i] = log[i]
    BY Committed
  <1>2. Discovered(t) = {log[i].object : i \in {j \in DOMAIN log : log[j].type = t}}
    BY DEF Discovered, _discover_ids_by_event_type, Store
  <1>3. Discovered(t)' = {log'[i].object : i \in {j \in DOMAIN log' : log'[j].type = t}}
    BY DEF Discovered, _discover_ids_by_event_type, Store
  <1>4. PICK n : n = Len(log)
    OBVIOUS
  <1>5. DOMAIN log' = DOMAIN log \cup {n + 1} /\ n + 1 \notin DOMAIN log
    BY <1>1, <1>4
  <1>6. CASE t = type
    <2>1. Discovered(t)' \subseteq Discovered(t) \cup {id}
      BY <1>1, <1>2, <1>3, <1>4, <1>5
    <2>2. Discovered(t) \cup {id} \subseteq Discovered(t)'
      BY <1>1, <1>2, <1>3, <1>4, <1>5, <1>6
    <2> QED
      BY <1>6, <2>1, <2>2
  <1>7. CASE t # type
    <2>1. Discovered(t)' \subseteq Discovered(t)
      BY <1>1, <1>2, <1>3, <1>4, <1>5, <1>7
    <2>2. Discovered(t) \subseteq Discovered(t)'
      BY <1>1, <1>2, <1>3, <1>4, <1>5
    <2> QED
      BY <1>7, <2>1, <2>2
  <1> QED
    BY <1>6, <1>7

LEMMA StoreKept ==
    ASSUME Typed, GivenInv, LineInv, UNCHANGED <<objects, log>>, UNCHANGED edges
    PROVE  GivenInv' /\ LineInv' /\ Evolves
  <1>1. Given' = Given /\ Releases' = Releases /\ UNCHANGED Discovered("release.approved")
    BY DEF Given, Releases, Discovered, Store
  <1> QED
    BY <1>1 DEF GivenInv, LineInv, Evolves, Discovered

LEMMA ChangeKeeps ==
    ASSUME Typed, GivenInv, LineInv, NEW change \in Changes, record_object_revision_with_event(change)
    PROVE  GivenInv' /\ LineInv' /\ Evolves
  <1>1. PICK id, type, body : /\ Commit(id, body, type) /\ id = change.object /\ type = change.type
                              /\ body.kind # "ReleaseRecord" /\ id \notin ToSet(ReleaseIds)
                              /\ type \notin ReleaseEvents
    BY Changed
  <1>2. /\ DOMAIN objects' = DOMAIN objects \cup {id} /\ objects'[id] = body
        /\ \A x \in DOMAIN objects : x # id => objects'[x] = objects[x]
        /\ Len(log) \in Nat /\ DOMAIN log = 1 .. Len(log) /\ DOMAIN log' = 1 .. Len(log) + 1
        /\ log'[Len(log) + 1].type = type
        /\ \A i \in 1 .. Len(log) : log'[i] = log[i]
    BY <1>1, Committed
  <1>3. Discovered("release.approved")' = Discovered("release.approved")
    <2>1. type # "release.approved"
      BY <1>1 DEF ReleaseEvents
    <2> QED
      BY <1>1, <2>1, DiscoveredNext
  <1>4. Given' = Given
    BY <1>3 DEF Given, Discovered
  <1>5. GivenInv'
    BY <1>1, <1>2, <1>3, <1>4 DEF GivenInv, Discovered
  <1>6. Releases' = Releases /\ \A r \in Releases : objects'[r] = objects[r]
    <2>1. \A r \in ToSet(ReleaseIds) : r \in DOMAIN objects' <=> r \in DOMAIN objects
      BY <1>1, <1>2
    <2>2. \A r \in DOMAIN objects : r \in ToSet(ReleaseIds) => objects'[r] = objects[r]
      BY <1>1, <1>2
    <2> QED
      BY <2>1, <2>2 DEF Releases, Is, Stored, Store
  <1>7. LineInv'
    <2>1. \A i \in DOMAIN log' : log'[i].type = "release.superseded" => i \in DOMAIN log /\ log'[i] = log[i]
      BY <1>1, <1>2 DEF ReleaseEvents
    <2> QED
      BY <1>6, <2>1 DEF LineInv
  <1> QED
    BY <1>2, <1>5, <1>6, <1>7 DEF Evolves

LEMMA ApprovalKeeps ==
    ASSUME Typed, GivenInv, LineInv, NEW p \in Processes, Approves(p)
    PROVE  /\ GivenInv' /\ LineInv' /\ Evolves
           /\ NextRelease \in Releases' \ DOMAIN objects
           /\ objects'[NextRelease].bundle = compute_bundle_manifest(call[p].files)
           /\ \A r \in Releases : GivenAs(r) < GivenAs(NextRelease)
  <1>1. PICK n : n = Given
    OBVIOUS
  <1>2. n \in 0 .. Len(ReleaseIds) /\ n < Len(ReleaseIds) /\ Releases = FirstIds(n)
    BY <1>1, WhichReleases DEF GivenInv, Approves, ReleasesAre
  <1>3. PICK id, body : /\ id = NextRelease /\ body = _release_record_to_stored_object(p)
                        /\ Commit(id, body, "release.approved")
    BY DEF Approves
  <1>4. id = ReleaseIds[n + 1]
    BY <1>1, <1>3 DEF NextRelease
  <1>5. /\ FirstIds(n + 1) = FirstIds(n) \cup {id} /\ id \in ToSet(ReleaseIds) \ FirstIds(n)
        /\ \A r \in FirstIds(n) : GivenAs(r) < GivenAs(id)
        /\ Cardinality(FirstIds(n + 1)) = n + 1 /\ n + 1 \in 0 .. Len(ReleaseIds)
    <2>1. n + 1 \in 0 .. Len(ReleaseIds)
      BY <1>2
    <2> QED
      BY <1>2, <1>4, <2>1, FirstIdsAre
  <1>6. id \notin DOMAIN objects
    BY <1>1, <1>5 DEF GivenInv
  <1>7. /\ DOMAIN objects' = DOMAIN objects \cup {id} /\ objects'[id] = body
        /\ \A x \in DOMAIN objects : x # id => objects'[x] = objects[x]
        /\ Len(log) \in Nat /\ DOMAIN log = 1 .. Len(log) /\ DOMAIN log' = 1 .. Len(log) + 1
        /\ log'[Len(log) + 1].type = "release.approved"
        /\ \A i \in 1 .. Len(log) : log'[i] = log[i]
    BY <1>3, Committed
  <1>8. /\ IsRecord(body) /\ body.kind = "ReleaseRecord" /\ body.status = "released"
        /\ body.bundle = compute_bundle_manifest(call[p].files)
    BY <1>3 DEF _release_record_to_stored_object, IsRecord
  <1>9. Discovered("release.approved")' = FirstIds(n + 1) /\ Given' = n + 1
    <2>1. Discovered("release.approved")' = Discovered("release.approved") \cup {id}
      BY <1>3, DiscoveredNext
    <2>2. Discovered("release.approved") = FirstIds(n)
      BY <1>1 DEF GivenInv, Discovered
    <2> QED
      BY <1>5, <2>1, <2>2 DEF Given, Discovered
  <1>10. GivenInv'
    BY <1>1, <1>5, <1>6, <1>7, <1>8, <1>9 DEF GivenInv, Discovered
  <1>11. /\ Releases' = Releases \cup {id} /\ id \notin Releases
         /\ \A r \in Releases : r \in DOMAIN objects /\ objects'[r] = objects[r]
    <2>1. Releases' = FirstIds(n + 1)
      <3>1. ReleasesAre'
        BY WhichReleases, PTL
      <3> QED
        BY <1>9, <1>10, <3>1 DEF ReleasesAre
    <2>2. \A r \in Releases : r \in DOMAIN objects
      BY DEF Releases, Is, Stored, Store
    <2> QED
      BY <1>2, <1>5, <1>6, <1>7, <2>1, <2>2
  <1>12. LineInv'
    <2>1. \A i \in DOMAIN log' : log'[i].type = "release.superseded" => i \in DOMAIN log /\ log'[i] = log[i]
      BY <1>7
    <2>2. \A r \in Releases' : r \in Releases \/ (r = id /\ objects'[r] = body)
      BY <1>7, <1>11
    <2> QED
      BY <1>8, <1>11, <2>1, <2>2 DEF LineInv
  <1> QED
    BY <1>2, <1>3, <1>5, <1>6, <1>7, <1>8, <1>10, <1>11, <1>12 DEF Evolves

\* The next revision of a release, field by field.
NextBody(x, by, revision, at) ==
    [x EXCEPT !.status = "superseded", !.superseded_by = by, !.revision = revision, !.at = at]
SupersededBody(x, by, revision, at) ==
    [kind |-> "ReleaseRecord", revision |-> revision, at |-> at, status |-> "superseded",
     superseded_by |-> by, crate |-> x.crate, disclosure |-> x.disclosure, bundle |-> x.bundle,
     refs |-> x.refs, began |-> x.began, classification |-> x.classification]

LEMMA RecordSuperseded ==
    ASSUME NEW x, IsRecord(x), NEW by, NEW revision, NEW at
    PROVE  NextBody(x, by, revision, at) = SupersededBody(x, by, revision, at)
  <1> PICK body : body = NextBody(x, by, revision, at)
    OBVIOUS
  <1>0. x = [kind |-> "ReleaseRecord", revision |-> x.revision, at |-> x.at, status |-> x.status,
             superseded_by |-> x.superseded_by, crate |-> x.crate, disclosure |-> x.disclosure, bundle |-> x.bundle,
             refs |-> x.refs, began |-> x.began, classification |-> x.classification]
    BY DEF IsRecord
  <1>1. PICK x1 : x1 = [x EXCEPT !.status = "superseded"]
    OBVIOUS
  <1>2. x1 = [kind |-> "ReleaseRecord", revision |-> x.revision, at |-> x.at, status |-> "superseded",
            superseded_by |-> x.superseded_by, crate |-> x.crate, disclosure |-> x.disclosure, bundle |-> x.bundle,
            refs |-> x.refs, began |-> x.began, classification |-> x.classification]
    BY <1>0, <1>1
  <1>3. PICK x2 : x2 = [x1 EXCEPT !.superseded_by = by]
    OBVIOUS
  <1>4. x2 = [kind |-> "ReleaseRecord", revision |-> x.revision, at |-> x.at, status |-> "superseded",
            superseded_by |-> by, crate |-> x.crate, disclosure |-> x.disclosure, bundle |-> x.bundle,
            refs |-> x.refs, began |-> x.began, classification |-> x.classification]
    BY <1>2, <1>3
  <1>5. PICK x3 : x3 = [x2 EXCEPT !.revision = revision]
    OBVIOUS
  <1>6. x3 = [kind |-> "ReleaseRecord", revision |-> revision, at |-> x.at, status |-> "superseded",
            superseded_by |-> by, crate |-> x.crate, disclosure |-> x.disclosure, bundle |-> x.bundle,
            refs |-> x.refs, began |-> x.began, classification |-> x.classification]
    BY <1>4, <1>5
  <1>7. body = [x3 EXCEPT !.at = at]
    BY <1>1, <1>3, <1>5 DEF NextBody
  <1> QED
    BY <1>6, <1>7 DEF SupersededBody

LEMMA SupersessionKeeps ==
    ASSUME Typed, GivenInv, LineInv, NEW p \in Processes, Supersedes(p), Holds(call[p])
    PROVE  /\ GivenInv' /\ LineInv' /\ Evolves
           /\ objects'[call[p].args.supersedes].status = "superseded"
           /\ objects'[call[p].args.supersedes].superseded_by = call[p].release
  <1>1. PICK c : c = call[p] /\ c.op = "write_old" /\ Holds(c)
    BY DEF Supersedes, At
  <1>2. PICK old : old = c.args.supersedes
    OBVIOUS
  <1>3. c # Idle
    BY <1>1 DEF Idle
  <1>4. IsCall(c) /\ HoldsRelease(c)
    BY <1>1, <1>3 DEF Holds
  <1>5. /\ old \in Releases /\ c.release \in Releases /\ old \in ToSet(ReleaseIds)
        /\ objects[old].revision = c.read /\ objects[old].status = "released"
        /\ GivenAs(old) < GivenAs(c.release)
    <2>1. c.args.cmd = "supersede" /\ c.args.supersedes \in Releases
      BY <1>1, <1>4 DEF IsCall, HoldsRelease
    <2>2. old \in ToSet(ReleaseIds)
      BY <1>2, <2>1 DEF Releases
    <2>3. objects[old].revision = c.read
      BY <1>1, <1>2 DEF Supersedes
    <2> QED
      BY <1>1, <1>2, <1>4, <2>1, <2>2, <2>3 DEF HoldsRelease
  <1>6. PICK x : x = objects[old] /\ IsRecord(x)
    BY <1>5 DEF LineInv
  <1>7. PICK body : body = NextBody(x, c.release, c.read + 1, Now)
    OBVIOUS
  <1>8. Commit(old, body, "release.superseded")
    BY <1>1, <1>2, <1>6, <1>7 DEF Supersedes, NextBody
  <1>9. body = [kind |-> "ReleaseRecord", revision |-> c.read + 1, at |-> Now, status |-> "superseded",
                superseded_by |-> c.release, crate |-> x.crate, disclosure |-> x.disclosure, bundle |-> x.bundle,
                refs |-> x.refs, began |-> x.began, classification |-> x.classification]
    <2>1. body = SupersededBody(x, c.release, c.read + 1, Now)
      BY <1>6, <1>7, RecordSuperseded, Zenon
    <2> QED
      BY <2>1 DEF SupersededBody
  <1>10. /\ IsRecord(body) /\ body.status = "superseded" /\ body.superseded_by = c.release
         /\ body.bundle = x.bundle /\ body.revision = x.revision + 1 /\ body.kind = "ReleaseRecord"
    <2>1. x.revision = c.read /\ x.revision \in Nat
      BY <1>5, <1>6 DEF IsRecord
    <2> QED
      BY <1>9, <2>1 DEF IsRecord
  <1>11. /\ DOMAIN objects' = DOMAIN objects \cup {old} /\ objects'[old] = body
         /\ \A o \in DOMAIN objects : o # old => objects'[o] = objects[o]
         /\ Len(log) \in Nat /\ DOMAIN log = 1 .. Len(log) /\ DOMAIN log' = 1 .. Len(log) + 1
         /\ log'[Len(log) + 1].type = "release.superseded" /\ log'[Len(log) + 1].object = old
         /\ \A i \in 1 .. Len(log) : log'[i] = log[i]
    BY <1>8, Committed
  <1>12. old \in DOMAIN objects /\ \A r \in Releases : r \in DOMAIN objects
    BY <1>5 DEF Releases, Is, Stored, Store
  <1>13. Discovered("release.approved")' = Discovered("release.approved")
    BY <1>8, DiscoveredNext
  <1>14. Given' = Given
    BY <1>13 DEF Given, Discovered
  <1>15. GivenInv'
    BY <1>5, <1>10, <1>11, <1>12, <1>13, <1>14 DEF GivenInv, Discovered
  <1>16. /\ \A r \in Releases : r # old => objects'[r] = objects[r]
         /\ \A r : r \in Releases' <=> r \in Releases
    <2>1. ReleasesAre /\ ReleasesAre'
      BY WhichReleases, PTL
    <2> QED
      BY <1>11, <1>12, <1>15, <2>1 DEF ReleasesAre
  <1>17. LineInv'
    <2>1. PICK n : n = Len(log) + 1
      OBVIOUS
    <2>2. \A i \in DOMAIN log : log[i].type = "release.superseded" => log[i].object # old
      BY <1>5 DEF LineInv
    <2>3. \A i \in DOMAIN log' : \/ i \in DOMAIN log /\ log'[i] = log[i]
                                 \/ i = n /\ log'[i].object = old
      BY <1>11, <2>1
    <2>4. \A r \in Releases' :
             /\ IsRecord(objects'[r])
             /\ objects'[r].status = "superseded" =>
                   objects'[r].superseded_by \in Releases' /\ GivenAs(r) < GivenAs(objects'[r].superseded_by)
      BY <1>5, <1>10, <1>11, <1>16 DEF LineInv
    <2>5. \A i \in DOMAIN log' : log'[i].type = "release.superseded" =>
             log'[i].object \in Releases' /\ objects'[log'[i].object].status = "superseded"
      BY <1>5, <1>10, <1>11, <1>16, <2>2, <2>3 DEF LineInv
    <2>6. \A i, j \in DOMAIN log' :
             (log'[i].type = "release.superseded" /\ log'[j].type = "release.superseded" /\ log'[i].object = log'[j].object) => i = j
      BY <2>2, <2>3 DEF LineInv
    <2> QED
      BY <2>4, <2>5, <2>6 DEF LineInv
  <1>18. Evolves
    <2>1. objects'[old].bundle = objects[old].bundle /\ objects'[old].revision = objects[old].revision + 1
      BY <1>6, <1>10, <1>11
    <2> QED
      BY <1>5, <1>10, <1>11, <1>16, <2>1 DEF Evolves
  <1> QED
    BY <1>1, <1>2, <1>10, <1>11, <1>15, <1>17, <1>18

LEMMA StoreEvolves ==
    ASSUME IInv, [Next]_vars
    PROVE  GivenInv' /\ LineInv' /\ Evolves
  <1>1. Typed /\ GivenInv /\ LineInv /\ \A p \in Processes : Holds(call[p])
    BY DEF IInv
  <1>2. StoreStep /\ UNCHANGED edges
    BY Only
  <1> QED
    BY <1>1, <1>2, StoreKept, ChangeKeeps, ApprovalKeeps, SupersessionKeeps DEF StoreStep

-----------------------------------------------------------------------------
(* The disk and what the callers were told *)

DiskKept ==
    /\ DOMAIN disk' = Outputs
    /\ \A path \in Outputs :
          /\ disk'[path] = Free \/ disk'[path].kind \in {"dir", "file"}
          /\ disk[path].kind = "dir" => disk'[path] = disk[path]
          /\ disk[path] # Free => disk'[path] # Free

LEMMA DiskEvolves ==
    ASSUME Typed, DiskStep
    PROVE  /\ DiskKept
           /\ \A path \in Outputs : \/ disk'[path] = disk[path]
                                    \/ \E p \in Processes : \E kind, files :
                                          Moves(call[p], kind, files) /\ disk'[path] = [kind |-> kind, files |-> files]
  <1>1. CASE UNCHANGED disk
    BY <1>1 DEF Typed, DiskKept
  <1>2. ASSUME NEW p \in Processes, NEW path, NEW kind, NEW files, MovedTo(p, path, kind, files)
        PROVE  /\ DiskKept
               /\ \A o \in Outputs : \/ disk'[o] = disk[o]
                                     \/ \E q \in Processes : \E k, f : Moves(call[q], k, f) /\ disk'[o] = [kind |-> k, files |-> f]
    <2>1. kind \in {"dir", "file"}
      BY <1>2 DEF Moves, MovedTo
    <2>2. PICK new : new = [kind |-> kind, files |-> files]
      OBVIOUS
    <2>3. new # Free /\ new.kind \in {"dir", "file"} /\ Free.kind = "free"
      BY <2>1, <2>2 DEF Free
    <2>4. \A o \in Outputs : disk'[o] = disk[o] \/ (o = path /\ disk'[o] = new)
      BY <1>2, <2>2 DEF Typed, MovedTo
    <2>5. disk[path].kind # "dir"
      BY <1>2, <2>1, <2>3 DEF MovedTo
    <2>6. DiskKept
      BY <1>2, <2>3, <2>4, <2>5 DEF Typed, DiskKept, MovedTo
    <2>7. ASSUME NEW o \in Outputs, disk'[o] # disk[o]
          PROVE  \E q \in Processes : \E k, f : Moves(call[q], k, f) /\ disk'[o] = [kind |-> k, files |-> f]
      BY <1>2, <2>2, <2>4, <2>7 DEF MovedTo
    <2> QED
      BY <2>6, <2>7
  <1> QED
    BY <1>1, <1>2 DEF DiskStep

ToldKept ==
    /\ outcomes' \in Seq(ToSet(outcomes'))
    /\ Len(outcomes) \in Nat /\ Len(outcomes') \in Nat /\ Len(outcomes) <= Len(outcomes')
    /\ DOMAIN outcomes = 1 .. Len(outcomes) /\ DOMAIN outcomes' = 1 .. Len(outcomes')
    /\ \A i \in DOMAIN outcomes : outcomes'[i] = outcomes[i]

LEMMA Told1 ==
    ASSUME Typed, NEW o, outcomes' = Append(outcomes, o)
    PROVE  ToldKept /\ Len(outcomes') = Len(outcomes) + 1 /\ outcomes'[Len(outcomes')] = o
  <1>1. PICK s : s = outcomes
    OBVIOUS
  <1>2. s \in Seq(ToSet(s))
    BY <1>1 DEF Typed
  <1>3. PICK t : t = Append(s, o)
    OBVIOUS
  <1>4. /\ t \in Seq(ToSet(t)) /\ Len(s) \in Nat /\ Len(t) = Len(s) + 1
        /\ DOMAIN s = 1 .. Len(s) /\ DOMAIN t = 1 .. Len(s) + 1
        /\ t[Len(s) + 1] = o /\ \A i \in 1 .. Len(s) : t[i] = s[i]
    BY <1>2, <1>3, AppendedTo
  <1>5. outcomes = s /\ outcomes' = t
    BY <1>1, <1>3
  <1>6. Len(outcomes') = Len(outcomes) + 1 /\ outcomes'[Len(outcomes')] = o
    BY <1>4, <1>5
  <1>7. outcomes' \in Seq(ToSet(outcomes'))
    BY <1>4, <1>5
  <1>8. /\ Len(outcomes) \in Nat /\ Len(outcomes') \in Nat /\ Len(outcomes) <= Len(outcomes')
        /\ DOMAIN outcomes = 1 .. Len(outcomes) /\ DOMAIN outcomes' = 1 .. Len(outcomes')
        /\ \A i \in DOMAIN outcomes : outcomes'[i] = outcomes[i]
    BY <1>4, <1>5
  <1> QED
    BY <1>6, <1>7, <1>8 DEF ToldKept

LEMMA ToldEvolves ==
    ASSUME Typed, ToldStep
    PROVE  ToldKept
  <1>1. CASE UNCHANGED outcomes
    <2>1. PICK s : s = outcomes /\ s \in Seq(ToSet(s))
      BY DEF Typed
    <2>2. Len(s) \in Nat /\ DOMAIN s = 1 .. Len(s)
      BY <2>1
    <2> QED
      BY <1>1, <2>1, <2>2 DEF ToldKept
  <1> QED
    BY <1>1, Told1 DEF ToldStep

LEMMA TypedKept ==
    ASSUME IInv, [Next]_vars
    PROVE  Typed' /\ Evolves /\ DiskKept /\ ToldKept
  <1>1. Typed /\ StoreStep /\ DiskStep /\ ToldStep /\ WorkStep /\ Evolves
    BY Only, StoreEvolves DEF IInv
  <1>2. DiskKept /\ ToldKept
    BY <1>1, DiskEvolves, ToldEvolves
  <1>3. log' \in Seq(ToSet(log')) /\ \A i \in DOMAIN log' : log'[i].object \in DOMAIN objects'
    <2>1. CASE UNCHANGED <<objects, log>>
      BY <1>1, <2>1 DEF Typed
    <2>2. ASSUME NEW id, NEW body, NEW type, Commit(id, body, type)
          PROVE  log' \in Seq(ToSet(log')) /\ \A i \in DOMAIN log' : log'[i].object \in DOMAIN objects'
      <3>1. /\ DOMAIN objects' = DOMAIN objects \cup {id}
            /\ Len(log) \in Nat /\ DOMAIN log = 1 .. Len(log) /\ DOMAIN log' = 1 .. Len(log) + 1
            /\ log'[Len(log) + 1].object = id
            /\ log' \in Seq(ToSet(log'))
            /\ \A i \in 1 .. Len(log) : log'[i] = log[i]
        BY <1>1, <2>2, Committed
      <3> QED
        BY <1>1, <3>1 DEF Typed
    <2>3. \/ UNCHANGED <<objects, log>>
          \/ \E id, body, type : Commit(id, body, type)
      BY <1>1 DEF StoreStep, Approves, Supersedes, record_object_revision_with_event
    <2> QED
      BY <2>1, <2>2, <2>3
  <1>4. DOMAIN call' = Processes
    BY <1>1, Only DEF Typed, CallStep
  <1>5. Commands' \subseteq Asked
    BY <1>1 DEF Typed, Commands, WorkStep
  <1> QED
    BY <1>1, <1>2, <1>3, <1>4, <1>5 DEF Typed, DiskKept, ToldKept

-----------------------------------------------------------------------------
(* What survives a step *)

LEMMA AskedOutputs ==
    ASSUME NEW args \in Asked, args.cmd \in Writing
    PROVE  args.output \in Outputs
  BY ReleaseConstants DEF Asked

LEMMA FinishedKept ==
    ASSUME DiskKept, NEW path \in Outputs, NEW r, Finished(path, r)
    PROVE  Finished(path, r)'
  BY DEF DiskKept, Finished

LEMMA FoundFreeKept ==
    ASSUME ToldKept, NEW args, NEW n \in 0 .. Len(outcomes), FoundFree(args, n)
    PROVE  FoundFree(args, n)'
  BY DEF ToldKept, FoundFree, Wrote

LEMMA HoldsKept ==
    ASSUME IInv, [Next]_vars, NEW c, Holds(c)
    PROVE  Holds(c)'
  <1> SUFFICES ASSUME c # Idle
               PROVE  (IsCall(c) /\ HoldsRelease(c) /\ NoReleaseFiles(c.files)
                       /\ c.seen \in 0 .. Len(outcomes) /\ FoundFree(c.args, c.seen))'
    BY DEF Holds
  <1>1. Evolves /\ DiskKept /\ ToldKept
    BY TypedKept
  <1>2. /\ IsCall(c) /\ HoldsRelease(c) /\ NoReleaseFiles(c.files)
        /\ c.seen \in 0 .. Len(outcomes) /\ FoundFree(c.args, c.seen)
    BY DEF Holds
  <1>3. c.seen \in 0 .. Len(outcomes') /\ FoundFree(c.args, c.seen)'
    BY <1>1, <1>2, FoundFreeKept DEF ToldKept
  <1>4. c.args.output \in Outputs
    BY <1>2, AskedOutputs DEF IsCall, Writing
  <1>5. HoldsRelease(c)'
    <2>1. OldIsStored(c.args)'
      BY <1>1, <1>2 DEF HoldsRelease, OldIsStored, Evolves
    <2>2. c.op \in {"finalize", "read_old", "write_old"} =>
             /\ c.release \in Releases /\ c.release \in Releases'
             /\ (c.args.cmd = "supersede" /\ c.args.supersedes \in ToSet(ReleaseIds)) =>
                   GivenAs(c.args.supersedes) < GivenAs(c.release)
      BY <1>1, <1>2 DEF HoldsRelease, Evolves
    <2>3. c.op = "finalize" => objects'[c.release].bundle = compute_bundle_manifest(c.files)
      BY <1>1, <1>2, <2>2 DEF HoldsRelease, Evolves
    <2>4. c.op \in {"read_old", "write_old"} => Finished(c.args.output, c.release)'
      BY <1>1, <1>2, <1>4, FinishedKept DEF HoldsRelease
    <2>5. ASSUME c.op = "write_old"
          PROVE  /\ c.args.supersedes \in Releases' /\ c.read \in Nat
                 /\ c.read <= objects'[c.args.supersedes].revision
                 /\ c.read = objects'[c.args.supersedes].revision => objects'[c.args.supersedes].status = "released"
      <3>1. PICK old : old = c.args.supersedes
        OBVIOUS
      <3>2. /\ old \in Releases /\ c.read \in Nat /\ c.read <= objects[old].revision
            /\ c.read = objects[old].revision => objects[old].status = "released"
        BY <1>2, <2>5, <3>1 DEF HoldsRelease
      <3>3. objects[old].revision \in Nat
        BY <3>2 DEF IInv, LineInv, IsRecord
      <3>4. old \in Releases'
        BY <1>1, <3>2 DEF Evolves
      <3>5. \/ objects'[old] = objects[old]
            \/ objects'[old].revision = objects[old].revision + 1
        BY <1>1, <3>2 DEF Evolves
      <3> QED
        BY <3>1, <3>2, <3>3, <3>4, <3>5
    <2> QED
      BY <2>1, <2>2, <2>3, <2>4, <2>5 DEF HoldsRelease
  <1> QED
    BY <1>2, <1>3, <1>5 DEF IsCall, NoReleaseFiles

LEMMA OutcomesKept ==
    ASSUME IInv, [Next]_vars, NEW i \in DOMAIN outcomes, NEW o, o = outcomes[i], Outcomes(o, i)
    PROVE  Outcomes(o, i)'
  <1>1. Evolves /\ DiskKept /\ ToldKept
    BY TypedKept
  <1>2. i \in 1 .. Len(outcomes) /\ Len(outcomes) \in Nat
    BY <1>1 DEF ToldKept
  <1>3. o.args \in Asked /\ o.exit \in 0 .. 3 /\ o.seen \in 0 .. i - 1
    BY DEF Outcomes
  <1>4. ASSUME Wrote(o)
        PROVE  /\ disk'[o.args.output] # Free /\ FoundFree(o.args, o.seen)'
               /\ o.args.cmd \in {"create", "supersede"} => o.release \in Releases' /\ Finished(o.args.output, o.release)'
               /\ o.args.cmd = "supersede" =>
                     /\ o.args.supersedes \in Releases' /\ objects'[o.args.supersedes].status = "superseded"
                     /\ objects'[o.args.supersedes].superseded_by = o.release
    <2>1. o.args.output \in Outputs
      BY <1>3, <1>4, AskedOutputs DEF Wrote
    <2>2. disk'[o.args.output] # Free
      BY <1>1, <1>4, <2>1 DEF Outcomes, DiskKept
    <2>3. FoundFree(o.args, o.seen)'
      <3>1. o.seen \in 0 .. Len(outcomes) /\ FoundFree(o.args, o.seen)
        BY <1>2, <1>3, <1>4 DEF Outcomes
      <3> QED
        BY <1>1, <3>1, FoundFreeKept
    <2>4. o.args.cmd \in {"create", "supersede"} => o.release \in Releases' /\ Finished(o.args.output, o.release)'
      BY <1>1, <1>4, <2>1, FinishedKept DEF Outcomes, Evolves
    <2>5. ASSUME o.args.cmd = "supersede"
          PROVE  /\ o.args.supersedes \in Releases' /\ objects'[o.args.supersedes].status = "superseded"
                 /\ objects'[o.args.supersedes].superseded_by = o.release
      <3>1. PICK old : old = o.args.supersedes
        OBVIOUS
      <3>2. old \in Releases /\ objects[old].status = "superseded" /\ objects[old].superseded_by = o.release
        BY <1>4, <2>5, <3>1 DEF Outcomes
      <3>3. old \in Releases' /\ objects'[old] = objects[old]
        BY <1>1, <3>2 DEF Evolves
      <3> QED
        BY <3>1, <3>2, <3>3
    <2> QED
      BY <2>2, <2>3, <2>4, <2>5
  <1> QED
    BY <1>3, <1>4 DEF Outcomes, Wrote

LEMMA DiskInvKept ==
    ASSUME IInv, [Next]_vars
    PROVE  DiskInv'
  <1>1. Evolves /\ DiskStep /\ Typed
    BY TypedKept, Only DEF IInv
  <1>2. ASSUME NEW path \in Outputs, NEW f \in disk'[path].files, f.path = <<"release-record">>
        PROVE  /\ f.content.release \in Releases'
               /\ objects'[f.content.release].bundle = compute_bundle_manifest(disk'[path].files)
    <2>1. CASE disk'[path] = disk[path]
      BY <1>1, <1>2, <2>1 DEF IInv, DiskInv, Evolves
    <2>2. CASE disk'[path] # disk[path]
      <3>1. PICK p, kind, files : p \in Processes /\ Moves(call[p], kind, files) /\ disk'[path] = [kind |-> kind, files |-> files]
        BY <1>1, <2>2, DiskEvolves
      <3>2. PICK c : c = call[p]
        OBVIOUS
      <3>3. Holds(c) /\ c # Idle
        BY <3>1, <3>2 DEF IInv, Moves, Idle
      <3>4. f \in files /\ f \notin c.files
        <4>1. f \in files
          BY <3>1
        <4>2. f.path \in EXCLUDED_FILENAMES
          BY <1>2 DEF EXCLUDED_FILENAMES
        <4> QED
          BY <3>3, <4>1, <4>2 DEF Holds, NoReleaseFiles
      <3>5. c.op = "finalize" /\ files = Bundle(c)
        BY <3>1, <3>2, <3>4 DEF Moves
      <3>6. f.content.release = c.release
        BY <3>4, <3>5 DEF Bundle
      <3>7. c.release \in Releases /\ objects[c.release].bundle = compute_bundle_manifest(c.files)
        BY <3>3, <3>5 DEF Holds, HoldsRelease
      <3>8. compute_bundle_manifest(files) = compute_bundle_manifest(c.files)
        <4>1. \A g \in files : g.path \notin EXCLUDED_FILENAMES => g \in c.files
          BY <3>5 DEF Bundle
        <4>2. c.files \subseteq files
          BY <3>5 DEF Bundle
        <4>3. {g \in files : g.path \notin EXCLUDED_FILENAMES} = {g \in c.files : g.path \notin EXCLUDED_FILENAMES}
          BY <4>1, <4>2
        <4> QED
          BY <4>3 DEF compute_bundle_manifest
      <3>9. c.release \in Releases' /\ objects'[c.release].bundle = compute_bundle_manifest(disk'[path].files)
        BY <1>1, <3>1, <3>7, <3>8 DEF Evolves
      <3> QED
        BY <3>6, <3>9
    <2> QED
      BY <2>1, <2>2
  <1> QED
    BY <1>2 DEF DiskInv

-----------------------------------------------------------------------------
(* What a command holds after its own step *)

\* What process p goes on with holds, and so does what its caller is told.
Fits(p) ==
    /\ UNCHANGED call \/ \E c : call' = [call EXCEPT ![p] = c] /\ Holds(c)'
    /\ \/ UNCHANGED outcomes
       \/ \E o, n : outcomes' = Append(outcomes, o) /\ n = Len(outcomes) + 1 /\ Outcomes(o, n)'

LEMMA IdleHolds == Holds(Idle) /\ Holds(Idle)'
  BY DEF Holds

LEMMA CallIs ==
    ASSUME IInv, NEW p \in Processes, NEW c, c = call[p], c.op # "idle"
    PROVE  /\ c # Idle /\ IsCall(c) /\ HoldsRelease(c) /\ NoReleaseFiles(c.files)
           /\ c.seen \in 0 .. Len(outcomes) /\ FoundFree(c.args, c.seen)
           /\ c.args.cmd \in Writing /\ c.args.output \in Outputs
  <1>1. c # Idle /\ Holds(c)
    BY DEF IInv, Idle
  <1>2. IsCall(c)
    BY <1>1 DEF Holds
  <1>3. c.args.cmd \in Writing
    BY <1>2 DEF IsCall, Writing
  <1> QED
    BY <1>1, <1>2, <1>3, AskedOutputs DEF Holds, IsCall

\* The calls a command goes on with, field by field.
LEMMA NextCall ==
    ASSUME NEW c, IsCall(c), NEW v, NEW d, d = [c EXCEPT !.op = v]
    PROVE  d = [op |-> v, args |-> c.args, release |-> c.release, began |-> c.began, seen |-> c.seen,
                files |-> c.files, read |-> c.read]
  <1>1. c = [op |-> c.op, args |-> c.args, release |-> c.release, began |-> c.began, seen |-> c.seen,
             files |-> c.files, read |-> c.read]
    BY DEF IsCall
  <1> QED
    BY <1>1

\* A command that ends: success must be complete, failure is always told.
LEMMA ToldFits ==
    ASSUME IInv, [Next]_vars, NEW p \in Processes, NEW c, c = call[p], c.op # "idle",
           NEW exit \in 0 .. 3, Exit(p, Outcome(p, exit)),
           exit = 0 =>
              /\ disk'[c.args.output] # Free
              /\ c.args.cmd \in {"create", "supersede"} => c.release \in Releases' /\ Finished(c.args.output, c.release)'
              /\ c.args.cmd = "supersede" =>
                    /\ c.args.supersedes \in Releases' /\ objects'[c.args.supersedes].status = "superseded"
                    /\ objects'[c.args.supersedes].superseded_by = c.release
    PROVE  Fits(p)
  <1>1. PICK o : o = Outcome(p, exit)
    OBVIOUS
  <1>2. o = [args |-> c.args, exit |-> exit, release |-> c.release, began |-> c.began, seen |-> c.seen]
    BY <1>1 DEF Outcome
  <1>3. PICK n : n = Len(outcomes) + 1
    OBVIOUS
  <1>4. ToldKept
    BY TypedKept
  <1>5. IsCall(c) /\ c.seen \in 0 .. Len(outcomes) /\ FoundFree(c.args, c.seen)
    BY CallIs
  <1>6. FoundFree(c.args, c.seen)'
    BY <1>4, <1>5, FoundFreeKept
  <1>7. o.args \in Asked /\ o.exit \in 0 .. 3 /\ o.seen \in 0 .. n - 1
    <2>1. Len(outcomes) \in Nat
      BY <1>4 DEF ToldKept
    <2> QED
      BY <1>2, <1>3, <1>5, <2>1 DEF IsCall
  <1>8. Outcomes(o, n)'
    <2>1. (Wrote(o))' = Wrote(o) /\ (Wrote(o) => exit = 0)
      BY <1>2 DEF Wrote
    <2> QED
      BY <1>2, <1>6, <1>7, <2>1 DEF Outcomes
  <1>9. call' = [call EXCEPT ![p] = Idle] /\ outcomes' = Append(outcomes, o)
    BY <1>1 DEF Exit, Goto
  <1> QED
    BY <1>3, <1>8, <1>9, IdleHolds DEF Fits

\* A command that goes on.
LEMMA GoesOnFits ==
    ASSUME IInv, [Next]_vars, NEW p \in Processes, NEW c, c = call[p], c.op # "idle",
           NEW op, NEW release, NEW files, NEW read, NEW d,
           d = [op |-> op, args |-> c.args, release |-> release, began |-> c.began, seen |-> c.seen,
                files |-> files, read |-> read],
           Goto(p, d), UNCHANGED outcomes, IsCall(d), HoldsRelease(d)', NoReleaseFiles(files)
    PROVE  Fits(p)
  <1>1. c.seen \in 0 .. Len(outcomes) /\ FoundFree(c.args, c.seen)
    BY CallIs
  <1>2. ToldKept
    BY TypedKept
  <1>3. FoundFree(c.args, c.seen)' /\ c.seen \in 0 .. Len(outcomes')
    BY <1>1, <1>2, FoundFreeKept
  <1>4. d.seen = c.seen /\ d.args = c.args /\ d.files = files
    OBVIOUS
  <1>5. Holds(d)'
    BY <1>3, <1>4 DEF Holds, NoReleaseFiles, IsCall
  <1> QED
    BY <1>5 DEF Fits, Goto

LEMMA BeginFits ==
    ASSUME IInv, [Next]_vars, NEW p \in Processes, NEW args \in Commands, NEW code \in 0 .. 3, NEW op,
           Begin(p, <<"command", args>>, args, code, op),
           \/ op = "export" /\ args.cmd \in {"create", "supersede"}
           \/ op = "render" /\ args.cmd = "report"
           \/ op = "closure" /\ args.cmd = "ro-crate",
           code = 0 => disk[args.output] = Free,
           OldIsStored(args)
    PROVE  Fits(p)
  <1>1. args \in Asked /\ Evolves /\ ToldKept
    BY TypedKept DEF IInv, Typed
  <1>2. Len(outcomes) \in Nat
    BY <1>1 DEF ToldKept
  <1>3. CASE code # 0
    <2>1. PICK o : o = Told(args, code, None)
      OBVIOUS
    <2>2. o = [args |-> args, exit |-> code, release |-> None, began |-> Len(log), seen |-> Len(outcomes)]
      BY <2>1 DEF Told
    <2>3. PICK n : n = Len(outcomes) + 1
      OBVIOUS
    <2>4. Outcomes(o, n)'
      BY <1>1, <1>2, <1>3, <2>2, <2>3 DEF Outcomes, Wrote
    <2>5. UNCHANGED call /\ outcomes' = Append(outcomes, o)
      BY <1>3, <2>1 DEF Begin
    <2> QED
      BY <2>3, <2>4, <2>5 DEF Fits
  <1>4. CASE code = 0
    <2>1. PICK n : n = Len(outcomes)
      OBVIOUS
    <2>2. PICK d : d = [op |-> op, args |-> args, release |-> None, began |-> Len(log), seen |-> n,
                        files |-> {}, read |-> 0]
      OBVIOUS
    <2>3. IsCall(d)
      BY <1>1, <2>2 DEF IsCall, Assembling, Rendering, Exporting
    <2>4. HoldsRelease(d)' /\ NoReleaseFiles(d.files)
      <3>1. OldIsStored(d.args)'
        BY <1>1, <2>2 DEF OldIsStored, Evolves
      <3> QED
        BY <2>2, <3>1 DEF HoldsRelease, NoReleaseFiles
    <2>5. FoundFree(d.args, d.seen)
      <3>1. args.output \in Outputs /\ disk[args.output] = Free
        BY <1>1, <1>4, AskedOutputs DEF Writing
      <3>2. \A i \in 1 .. n : Wrote(outcomes[i]) => disk[outcomes[i].args.output] # Free
        <4>1. \A i \in 1 .. n : i \in DOMAIN outcomes
          BY <1>1, <2>1 DEF ToldKept
        <4> QED
          BY <4>1 DEF IInv, Outcomes
      <3> QED
        BY <2>2, <3>1, <3>2 DEF FoundFree
    <2>6. d.seen \in 0 .. Len(outcomes) /\ d.seen = n
      BY <1>2, <2>1, <2>2
    <2>7. FoundFree(d.args, d.seen)' /\ d.seen \in 0 .. Len(outcomes')
      BY <1>1, <2>5, <2>6, FoundFreeKept DEF ToldKept
    <2>8. Holds(d)'
      BY <2>3, <2>4, <2>7 DEF Holds, IsCall, NoReleaseFiles
    <2>9. call' = [call EXCEPT ![p] = d] /\ UNCHANGED outcomes
      BY <1>4, <2>1, <2>2 DEF Begin, Goto
    <2> QED
      BY <2>8, <2>9 DEF Fits
  <1> QED
    BY <1>3, <1>4

LEMMA BeginsFit ==
    ASSUME IInv, [Next]_vars, NEW p \in Processes, Begins(p)
    PROVE  Fits(p)
  <1>1. PICK args \in Commands :
           \/ _run_create_command(p, args) \/ _run_supersede_command(p, args)
           \/ report_main_run_command(p, args) \/ export_main_run_command(p, args)
    BY DEF Begins
  <1>2. CASE _run_create_command(p, args) \/ _run_supersede_command(p, args)
    <2>1. PICK code : code = ReleaseArguments(args)
      OBVIOUS
    <2>2. code \in 0 .. 3 /\ (code = 0 => disk[args.output] = Free)
      BY <2>1 DEF ReleaseArguments, output_path_conflict
    <2>3. /\ Begin(p, <<"command", args>>, args, code, "export") /\ args.cmd \in {"create", "supersede"}
          /\ OldIsStored(args)
      BY <1>2, <2>1 DEF _run_create_command, _run_supersede_command, OldIsStored
    <2> QED
      BY <2>2, <2>3, BeginFits
  <1>3. CASE report_main_run_command(p, args)
    <2>1. PICK code : /\ Begin(p, <<"command", args>>, args, code, "render")
                      /\ code = CASE output_file_conflict(args.output) -> 3
                                  [] ~DisclosureArgumentsOk(args.disclosure, args.classification) -> 2
                                  [] OTHER -> 0
      BY <1>3 DEF report_main_run_command
    <2>2. code \in 0 .. 3 /\ (code = 0 => disk[args.output] = Free)
      BY <2>1 DEF output_file_conflict
    <2>3. args.cmd = "report" /\ OldIsStored(args)
      BY <1>3 DEF report_main_run_command, OldIsStored
    <2> QED
      BY <2>1, <2>2, <2>3, BeginFits
  <1>4. CASE export_main_run_command(p, args)
    <2>1. PICK code : /\ Begin(p, <<"command", args>>, args, code, "closure")
                      /\ code = CASE output_path_conflict(args.output) -> 3
                                  [] (args.crate # None) # args.artifact_root -> 2
                                  [] OTHER -> 0
      BY <1>4 DEF export_main_run_command
    <2>2. code \in 0 .. 3 /\ (code = 0 => disk[args.output] = Free)
      BY <2>1 DEF output_path_conflict
    <2>3. args.cmd = "ro-crate" /\ OldIsStored(args)
      BY <1>4 DEF export_main_run_command, OldIsStored
    <2> QED
      BY <2>1, <2>2, <2>3, BeginFits
  <1> QED
    BY <1>1, <1>2, <1>3, <1>4

LEMMA AsksFit ==
    ASSUME IInv, [Next]_vars, NEW p \in Processes, Asks(p)
    PROVE  Fits(p)
  <1>1. PICK args \in Commands : _run_status_command(p, args) \/ _run_verify_command(p, args)
    BY DEF Asks
  <1>2. args \in Asked /\ ToldKept
    BY TypedKept DEF IInv, Typed
  <1>3. PICK n : n = Len(outcomes) + 1
    OBVIOUS
  <1>4. UNCHANGED call
    BY AsksFrame
  <1>5. ASSUME NEW o, o.args = args, o.exit \in 0 .. 3, o.seen = Len(outcomes), args.cmd \in {"status", "verify"},
               outcomes' = Append(outcomes, o)
        PROVE  Fits(p)
    <2>1. Outcomes(o, n)'
      <3>1. Len(outcomes) \in Nat
        BY <1>2 DEF ToldKept
      <3>2. ~Wrote(o) /\ ~(Wrote(o))'
        BY <1>5 DEF Wrote, Writing
      <3> QED
        BY <1>2, <1>3, <1>5, <3>1, <3>2 DEF Outcomes
    <2> QED
      BY <1>3, <1>4, <1>5, <2>1 DEF Fits
  <1>6. CASE _run_status_command(p, args)
    <2>1. PICK o : /\ outcomes' = Append(outcomes, o)
                   /\ \/ o = [args |-> args, exit |-> 0, release |-> args.release, began |-> Len(log), seen |-> Len(outcomes),
                              banner |-> status(Store, args.release)]
                      \/ o = Told(args, 3, None)
      BY <1>6 DEF _run_status_command
    <2>2. o.args = args /\ o.exit \in 0 .. 3 /\ o.seen = Len(outcomes)
      BY <2>1 DEF Told
    <2>3. args.cmd = "status"
      BY <1>6 DEF _run_status_command
    <2> QED
      BY <1>5, <2>1, <2>2, <2>3
  <1>7. CASE _run_verify_command(p, args)
    <2>1. PICK o, exit, release : outcomes' = Append(outcomes, o) /\ o = Told(args, exit, release) /\ exit \in 0 .. 3
      BY <1>7 DEF _run_verify_command
    <2>2. o.args = args /\ o.exit \in 0 .. 3 /\ o.seen = Len(outcomes)
      BY <2>1 DEF Told
    <2>3. args.cmd = "verify"
      BY <1>7 DEF _run_verify_command
    <2> QED
      BY <1>5, <2>1, <2>2, <2>3
  <1> QED
    BY <1>1, <1>6, <1>7

LEMMA Joined ==
    ASSUME NEW S, NEW s \in Seq(S), NEW a \in S
    PROVE  Len(<<a>> \o s) = Len(s) + 1
  <1>1. <<a>> \in Seq(S) /\ Len(<<a>>) = 1
    OBVIOUS
  <1>2. PICK t : t = <<a>>
    OBVIOUS
  <1>3. Len(t \o s) = Len(s) + 1
    BY <1>1, <1>2, ConcatProperties
  <1> QED
    BY <1>2, <1>3

\* No file that an export or a report writes has the name of a release file.
LEMMA FilesAreOthers ==
    /\ \A S, crate, closure : /\ NoReleaseFiles(build_export(S, crate, closure))
                              /\ NoReleaseFiles({[path |-> <<"ro-crate">> \o f.path, content |-> f.content] :
                                                    f \in build_export(S, crate, closure)})
    /\ \A S, args : NoReleaseFiles(ReportFiles(S, args))
    /\ \A content : NoReleaseFiles({[path |-> <<"report.md">>, content |-> content]})
  <1>1. ASSUME NEW S, NEW crate, NEW closure, NEW f \in build_export(S, crate, closure)
        PROVE  \/ \E id : f.path = <<"objects", id>>
               \/ \E a : f.path = <<"artifacts", a>>
               \/ f.path = <<"ro-crate-metadata">>
    BY <1>1 DEF build_export, build_export_plan
  <1>2. \A path : Len(path) = 2 => path \notin EXCLUDED_FILENAMES
    <2>1. \A path \in EXCLUDED_FILENAMES : Len(path) = 1
      BY DEF EXCLUDED_FILENAMES
    <2> QED
      BY <2>1
  <1>3. \A path : Len(path) = 3 => path \notin EXCLUDED_FILENAMES
    <2>1. \A path \in EXCLUDED_FILENAMES : Len(path) = 1
      BY DEF EXCLUDED_FILENAMES
    <2> QED
      BY <2>1
  <1>4. \A x, y : Len(<<x, y>>) = 2
    OBVIOUS
  <1>5. \A x, y : Len(<<"ro-crate">> \o <<x, y>>) = 3
    <2> SUFFICES ASSUME NEW x, NEW y
                 PROVE  Len(<<"ro-crate">> \o <<x, y>>) = 3
      OBVIOUS
    <2>1. PICK S : S = {"ro-crate", x, y}
      OBVIOUS
    <2>2. <<x, y>> \in Seq(S) /\ Len(<<x, y>>) = 2 /\ "ro-crate" \in S
      BY <2>1
    <2>3. PICK s : s = <<x, y>>
      OBVIOUS
    <2>4. Len(<<"ro-crate">> \o s) = Len(s) + 1
      BY <2>2, <2>3, Joined
    <2> QED
      BY <2>2, <2>3, <2>4
  <1>6. /\ <<"ro-crate-metadata">> \notin EXCLUDED_FILENAMES
        /\ Len(<<"ro-crate">> \o <<"ro-crate-metadata">>) = 2
    <2>1. <<"ro-crate-metadata">> \notin EXCLUDED_FILENAMES
      BY DEF EXCLUDED_FILENAMES
    <2>2. PICK S : S = {"ro-crate", "ro-crate-metadata"}
      OBVIOUS
    <2>3. PICK s : s = <<"ro-crate-metadata">>
      OBVIOUS
    <2>4. s \in Seq(S) /\ Len(s) = 1 /\ "ro-crate" \in S
      BY <2>2, <2>3
    <2>5. Len(<<"ro-crate">> \o s) = Len(s) + 1
      BY <2>4, Joined
    <2> QED
      BY <2>1, <2>3, <2>4, <2>5
  <1>7. ASSUME NEW S, NEW crate, NEW closure, NEW f \in build_export(S, crate, closure)
        PROVE  f.path \notin EXCLUDED_FILENAMES /\ <<"ro-crate">> \o f.path \notin EXCLUDED_FILENAMES
    BY <1>1, <1>2, <1>3, <1>4, <1>5, <1>6, <1>7
  <1>8. ASSUME NEW S, NEW crate, NEW closure
        PROVE  NoReleaseFiles(build_export(S, crate, closure))
    BY <1>7 DEF NoReleaseFiles
  <1>9. ASSUME NEW S, NEW crate, NEW closure
        PROVE  NoReleaseFiles({[path |-> <<"ro-crate">> \o f.path, content |-> f.content] :
                                  f \in build_export(S, crate, closure)})
    <2> SUFFICES ASSUME NEW f \in build_export(S, crate, closure)
                 PROVE  [path |-> <<"ro-crate">> \o f.path, content |-> f.content].path \notin EXCLUDED_FILENAMES
      BY DEF NoReleaseFiles
    <2> QED
      BY <1>7
  <1>10. <<"report.md">> \notin EXCLUDED_FILENAMES /\ <<"report.html">> \notin EXCLUDED_FILENAMES
    BY DEF EXCLUDED_FILENAMES
  <1>11. \A S, args : NoReleaseFiles(ReportFiles(S, args))
    BY <1>10 DEF NoReleaseFiles, ReportFiles
  <1>12. \A content : NoReleaseFiles({[path |-> <<"report.md">>, content |-> content]})
    BY <1>10 DEF NoReleaseFiles
  <1> QED
    BY <1>8, <1>9, <1>11, <1>12

\* A command that goes on with the files it has read, before its release.
LEMMA FilesFit ==
    ASSUME IInv, [Next]_vars, NEW p \in Processes, NEW c, c = call[p], c.op # "idle",
           NEW op, NEW files, Goto(p, [c EXCEPT !.op = op, !.files = files]), UNCHANGED outcomes, NoReleaseFiles(files),
           \/ c.op \in Assembling /\ op \in {"report", "create"}
           \/ c.op \in Rendering /\ op = "replace"
           \/ c.op \in Exporting /\ op = "move"
    PROVE  Fits(p)
  <1>1. PICK d : d = [op |-> op, args |-> c.args, release |-> c.release, began |-> c.began, seen |-> c.seen,
                      files |-> files, read |-> c.read]
    OBVIOUS
  <1>2. IsCall(c) /\ HoldsRelease(c)
    BY CallIs
  <1>3. [c EXCEPT !.op = op, !.files = files] = d
    <2>1. PICK e : e = [c EXCEPT !.op = op]
      OBVIOUS
    <2>2. e = [op |-> op, args |-> c.args, release |-> c.release, began |-> c.began, seen |-> c.seen,
               files |-> c.files, read |-> c.read]
      BY <1>2, <2>1, NextCall
    <2>3. [e EXCEPT !.files = files] = d
      BY <1>1, <2>2
    <2> QED
      BY <2>1, <2>3
  <1>4. Goto(p, d)
    BY <1>3 DEF Goto
  <1>5. IsCall(d)
    BY <1>1, <1>2 DEF IsCall, Assembling, Rendering, Exporting
  <1>6. HoldsRelease(d)'
    <2>1. Evolves
      BY TypedKept
    <2>2. d.op \notin {"finalize", "read_old", "write_old"} /\ d.args = c.args
      BY <1>1
    <2>3. OldIsStored(d.args)'
      BY <1>2, <2>1, <2>2 DEF HoldsRelease, OldIsStored, Evolves
    <2> QED
      BY <2>2, <2>3 DEF HoldsRelease
  <1> QED
    BY <1>1, <1>4, <1>5, <1>6, GoesOnFits

LEMMA ExportFits ==
    ASSUME IInv, [Next]_vars, NEW p \in Processes, export(p)
    PROVE  Fits(p)
  <1>1. PICK c : c = call[p] /\ c.op = "export"
    BY DEF export, At
  <1>2. CASE Exit(p, Outcome(p, 3))
    BY <1>1, <1>2, ToldFits
  <1>3. ASSUME NEW files, NoReleaseFiles(files), Goto(p, [c EXCEPT !.op = "report", !.files = files]), UNCHANGED outcomes
        PROVE  Fits(p)
    BY <1>1, <1>3, FilesFit DEF Assembling
  <1>4. \/ Exit(p, Outcome(p, 3))
        \/ \E files : NoReleaseFiles(files) /\ Goto(p, [c EXCEPT !.op = "report", !.files = files]) /\ UNCHANGED outcomes
    BY <1>1, FilesAreOthers DEF export
  <1> QED
    BY <1>2, <1>3, <1>4

LEMMA AssembleReportFits ==
    ASSUME IInv, [Next]_vars, NEW p \in Processes, AssembleReport(p)
    PROVE  Fits(p)
  <1>1. PICK c : c = call[p] /\ c.op = "report"
    BY DEF AssembleReport, At
  <1>2. CASE Exit(p, Outcome(p, 3))
    BY <1>1, <1>2, ToldFits
  <1>3. ASSUME NEW files, NoReleaseFiles(files), Goto(p, [c EXCEPT !.op = "create", !.files = files]), UNCHANGED outcomes
        PROVE  Fits(p)
    BY <1>1, <1>3, FilesFit DEF Assembling
  <1>4. \/ Exit(p, Outcome(p, 3))
        \/ \E files : NoReleaseFiles(files) /\ Goto(p, [c EXCEPT !.op = "create", !.files = files]) /\ UNCHANGED outcomes
    <2>1. NoReleaseFiles(c.files \cup ReportFiles(Store, c.args))
      BY <1>1, CallIs, FilesAreOthers DEF NoReleaseFiles
    <2> QED
      BY <1>1, <2>1 DEF AssembleReport
  <1> QED
    BY <1>2, <1>3, <1>4

LEMMA CreateFits ==
    ASSUME IInv, [Next]_vars, NEW p \in Processes, create(p)
    PROVE  Fits(p)
  <1>1. PICK c : c = call[p] /\ c.op = "create"
    BY DEF create, At
  <1>2. IsCall(c) /\ HoldsRelease(c) /\ c.args.cmd \in {"create", "supersede"} /\ NoReleaseFiles(c.files)
    BY <1>1, CallIs DEF IsCall, Rendering, Exporting
  <1>3. CASE Exit(p, Outcome(p, 3))
    BY <1>1, <1>3, ToldFits
  <1>4. CASE Approves(p)
    <2>1. PICK r : r = NextRelease
      OBVIOUS
    <2>2. PICK d : d = [op |-> "finalize", args |-> c.args, release |-> r, began |-> c.began, seen |-> c.seen,
                        files |-> c.files, read |-> c.read]
      OBVIOUS
    <2>3. Goto(p, d) /\ UNCHANGED outcomes
      <3>1. [c EXCEPT !.op = "finalize", !.release = r] = d
        <4>1. PICK e : e = [c EXCEPT !.op = "finalize"]
          OBVIOUS
        <4>2. e = [op |-> "finalize", args |-> c.args, release |-> c.release, began |-> c.began, seen |-> c.seen,
                   files |-> c.files, read |-> c.read]
          BY <1>2, <4>1, NextCall
        <4>3. [e EXCEPT !.release = r] = d
          BY <2>2, <4>2
        <4> QED
          BY <4>1, <4>3
      <3> QED
        BY <1>1, <1>4, <2>1, <3>1 DEF Approves, Goto
    <2>4. /\ Evolves /\ r \in Releases' /\ objects'[r].bundle = compute_bundle_manifest(c.files)
          /\ \A q \in Releases : GivenAs(q) < GivenAs(r)
      BY <1>1, <1>4, <2>1, ApprovalKeeps DEF IInv
    <2>5. IsCall(d)
      BY <1>2, <2>2, <2>4 DEF IsCall, Assembling, Releases
    <2>6. HoldsRelease(d)'
      <3>1. OldIsStored(c.args) /\ OldIsStored(c.args)'
        BY <1>2, <2>4 DEF HoldsRelease, OldIsStored, Evolves
      <3>2. (c.args.cmd = "supersede" /\ c.args.supersedes \in ToSet(ReleaseIds)) => c.args.supersedes \in Releases
        BY <3>1, WhichReleases DEF IInv, ReleasesAre, OldIsStored
      <3> QED
        BY <2>2, <2>4, <3>1, <3>2 DEF HoldsRelease, Evolves
    <2> QED
      BY <1>1, <1>2, <2>2, <2>3, <2>5, <2>6, GoesOnFits
  <1> QED
    BY <1>1, <1>3, <1>4 DEF create, Approves

LEMMA RenderReportFits ==
    ASSUME IInv, [Next]_vars, NEW p \in Processes, RenderReport(p)
    PROVE  Fits(p)
  <1>1. PICK c : c = call[p] /\ c.op = "render"
    BY DEF RenderReport, At
  <1>2. CASE Exit(p, Outcome(p, 3))
    BY <1>1, <1>2, ToldFits
  <1>3. ASSUME NEW files, NoReleaseFiles(files), Goto(p, [c EXCEPT !.op = "replace", !.files = files]), UNCHANGED outcomes
        PROVE  Fits(p)
    BY <1>1, <1>3, FilesFit DEF Rendering
  <1>4. \/ Exit(p, Outcome(p, 3))
        \/ \E files : NoReleaseFiles(files) /\ Goto(p, [c EXCEPT !.op = "replace", !.files = files]) /\ UNCHANGED outcomes
    BY <1>1, FilesAreOthers DEF RenderReport
  <1> QED
    BY <1>2, <1>3, <1>4

LEMMA WriteClosureFits ==
    ASSUME IInv, [Next]_vars, NEW p \in Processes, _write_closure(p)
    PROVE  Fits(p)
  <1>1. PICK c : c = call[p] /\ c.op = "closure"
    BY DEF _write_closure, At
  <1>2. CASE Exit(p, Outcome(p, 3))
    BY <1>1, <1>2, ToldFits
  <1>3. ASSUME NEW files, NoReleaseFiles(files), Goto(p, [c EXCEPT !.op = "move", !.files = files]), UNCHANGED outcomes
        PROVE  Fits(p)
    BY <1>1, <1>3, FilesFit DEF Exporting
  <1>4. \/ Exit(p, Outcome(p, 3))
        \/ \E files : NoReleaseFiles(files) /\ Goto(p, [c EXCEPT !.op = "move", !.files = files]) /\ UNCHANGED outcomes
    BY <1>1, FilesAreOthers DEF _write_closure
  <1> QED
    BY <1>2, <1>3, <1>4

\* A path that was free holds the directory that was moved there.
LEMMA Placed ==
    ASSUME Typed, NEW path \in Outputs, NEW kind \in {"dir", "file"}, NEW files,
           disk' = [disk EXCEPT ![path] = [kind |-> kind, files |-> files]]
    PROVE  disk'[path] = [kind |-> kind, files |-> files] /\ disk'[path] # Free
  BY DEF Typed, Free

LEMMA WriteExportFits ==
    ASSUME IInv, [Next]_vars, NEW p \in Processes, _write_export(p)
    PROVE  Fits(p)
  <1>1. PICK c : c = call[p] /\ c.op = "move"
    BY DEF _write_export, At
  <1>2. c.args.output \in Outputs /\ c.args.cmd = "ro-crate"
    BY <1>1, CallIs DEF IsCall, Assembling, Rendering
  <1>3. CASE Exit(p, Outcome(p, 3))
    BY <1>1, <1>3, ToldFits
  <1>4. ASSUME Exit(p, Outcome(p, 0)), disk' = [disk EXCEPT ![c.args.output] = [kind |-> "dir", files |-> c.files]]
        PROVE  Fits(p)
    <2>1. disk'[c.args.output] # Free
      BY <1>2, <1>4, Placed DEF IInv
    <2> QED
      BY <1>1, <1>2, <1>4, <2>1, ToldFits
  <1> QED
    BY <1>1, <1>3, <1>4 DEF _write_export, Place

LEMMA WriteReportFits ==
    ASSUME IInv, [Next]_vars, NEW p \in Processes, WriteReport(p)
    PROVE  Fits(p)
  <1>1. PICK c : c = call[p] /\ c.op = "replace"
    BY DEF WriteReport, At
  <1>2. c.args.output \in Outputs /\ c.args.cmd = "report"
    BY <1>1, CallIs DEF IsCall, Assembling, Exporting
  <1>3. CASE Exit(p, Outcome(p, 1))
    BY <1>1, <1>3, ToldFits
  <1>4. ASSUME Exit(p, Outcome(p, 0)), disk' = [disk EXCEPT ![c.args.output] = [kind |-> "file", files |-> c.files]]
        PROVE  Fits(p)
    <2>1. disk'[c.args.output] # Free
      BY <1>2, <1>4, Placed DEF IInv
    <2> QED
      BY <1>1, <1>2, <1>4, <2>1, ToldFits
  <1> QED
    BY <1>1, <1>3, <1>4 DEF WriteReport

LEMMA AssembleAndReleaseFits ==
    ASSUME IInv, [Next]_vars, NEW p \in Processes, assemble_and_release(p)
    PROVE  Fits(p)
  <1>1. PICK c : c = call[p] /\ c.op = "finalize"
    BY DEF assemble_and_release, At
  <1>2. /\ IsCall(c) /\ HoldsRelease(c) /\ NoReleaseFiles(c.files)
        /\ c.args.output \in Outputs /\ c.args.cmd \in {"create", "supersede"} /\ c.release \in Releases
    BY <1>1, CallIs DEF IsCall, Rendering, Exporting, HoldsRelease
  <1>3. PICK bundle : bundle = Bundle(c)
    OBVIOUS
  <1>4. \/ Exit(p, Outcome(p, 3))
        \/ /\ disk' = [disk EXCEPT ![c.args.output] = [kind |-> "dir", files |-> bundle]]
           /\ \/ c.args.cmd = "supersede" /\ Goto(p, [c EXCEPT !.op = "read_old"]) /\ UNCHANGED outcomes
              \/ c.args.cmd # "supersede" /\ Exit(p, Outcome(p, 0))
    BY <1>1, <1>3 DEF assemble_and_release, Place, Bundle
  <1>5. CASE Exit(p, Outcome(p, 3))
    BY <1>1, <1>5, ToldFits
  <1>6. ASSUME disk' = [disk EXCEPT ![c.args.output] = [kind |-> "dir", files |-> bundle]]
        PROVE  disk'[c.args.output] # Free /\ Finished(c.args.output, c.release)' /\ c.release \in Releases'
    <2>1. disk'[c.args.output] = [kind |-> "dir", files |-> bundle] /\ disk'[c.args.output] # Free
      BY <1>2, <1>6, Placed DEF IInv
    <2>2. RecordFile(c.release) \in bundle
      BY <1>3 DEF Bundle, RecordFile, EXCLUDED_FILENAMES
    <2>3. Finished(c.args.output, c.release)'
      BY <2>1, <2>2 DEF Finished, RecordFile
    <2>4. c.release \in Releases'
      BY <1>2, TypedKept DEF Evolves
    <2> QED
      BY <2>1, <2>3, <2>4
  <1>7. ASSUME disk' = [disk EXCEPT ![c.args.output] = [kind |-> "dir", files |-> bundle]],
               c.args.cmd # "supersede", Exit(p, Outcome(p, 0))
        PROVE  Fits(p)
    BY <1>1, <1>6, <1>7, ToldFits
  <1>8. ASSUME disk' = [disk EXCEPT ![c.args.output] = [kind |-> "dir", files |-> bundle]],
               c.args.cmd = "supersede", Goto(p, [c EXCEPT !.op = "read_old"]), UNCHANGED outcomes
        PROVE  Fits(p)
    <2>1. PICK d : d = [c EXCEPT !.op = "read_old"]
      OBVIOUS
    <2>2. d = [op |-> "read_old", args |-> c.args, release |-> c.release, began |-> c.began, seen |-> c.seen,
               files |-> c.files, read |-> c.read]
      BY <1>2, <2>1, NextCall
    <2>3. Goto(p, d)
      BY <1>8, <2>1 DEF Goto
    <2>4. IsCall(d)
      BY <1>2, <1>8, <2>2 DEF IsCall, Assembling
    <2>5. HoldsRelease(d)'
      <3>1. /\ d.op = "read_old" /\ d.args = c.args /\ d.release = c.release
            /\ d.files = c.files /\ d.read = c.read
        BY <2>2
      <3>2. OldIsStored(c.args)'
        BY <1>2, TypedKept DEF HoldsRelease, OldIsStored, Evolves
      <3>3. c.args.supersedes \in ToSet(ReleaseIds) => GivenAs(c.args.supersedes) < GivenAs(c.release)
        BY <1>1, <1>2, <1>8 DEF HoldsRelease
      <3> QED
        BY <1>6, <1>8, <3>1, <3>2, <3>3 DEF HoldsRelease
    <2> QED
      BY <1>1, <1>2, <1>8, <2>2, <2>3, <2>4, <2>5, GoesOnFits
  <1> QED
    BY <1>4, <1>5, <1>7, <1>8

LEMMA SupersedeFits ==
    ASSUME IInv, [Next]_vars, NEW p \in Processes, supersede(p)
    PROVE  Fits(p)
  <1>1. PICK c : c = call[p] /\ c.op = "read_old"
    BY DEF supersede, At
  <1>2. /\ IsCall(c) /\ HoldsRelease(c) /\ NoReleaseFiles(c.files) /\ c.args.output \in Outputs
        /\ c.args.cmd = "supersede" /\ c.release \in Releases /\ Finished(c.args.output, c.release)
    BY <1>1, CallIs DEF IsCall, HoldsRelease
  <1>3. CASE Exit(p, Outcome(p, 3))
    BY <1>1, <1>3, ToldFits
  <1>4. PICK old : old = c.args.supersedes
    OBVIOUS
  <1>5. PICK read : read = objects[old].revision
    OBVIOUS
  <1>6. ASSUME Is(Store, old, "ReleaseRecord"), objects[old].status = "released",
               Goto(p, [c EXCEPT !.op = "write_old", !.read = read]), UNCHANGED outcomes
        PROVE  Fits(p)
    <2>1. PICK d : d = [op |-> "write_old", args |-> c.args, release |-> c.release, began |-> c.began, seen |-> c.seen,
                        files |-> c.files, read |-> read]
      OBVIOUS
    <2>2. Goto(p, d)
      <3>1. PICK e : e = [c EXCEPT !.op = "write_old"]
        OBVIOUS
      <3>2. e = [op |-> "write_old", args |-> c.args, release |-> c.release, began |-> c.began, seen |-> c.seen,
                 files |-> c.files, read |-> c.read]
        BY <1>2, <3>1, NextCall
      <3>3. [e EXCEPT !.read = read] = d
        BY <2>1, <3>2
      <3>4. [c EXCEPT !.op = "write_old", !.read = read] = d
        BY <3>1, <3>3
      <3> QED
        BY <1>6, <3>4 DEF Goto
    <2>3. IsCall(d)
      BY <1>2, <2>1 DEF IsCall, Assembling
    <2>4. old \in ToSet(ReleaseIds) /\ old \in Releases /\ GivenAs(old) < GivenAs(c.release)
      <3>1. old \in DOMAIN objects /\ old \in ToSet(ReleaseIds)
        BY <1>6 DEF IInv, GivenInv, Is, Stored, Store
      <3>2. old \in Releases
        BY <3>1, WhichReleases DEF IInv, ReleasesAre
      <3> QED
        BY <1>1, <1>2, <1>4, <3>1, <3>2 DEF HoldsRelease
    <2>5. read \in Nat
      BY <1>5, <2>4 DEF IInv, LineInv, IsRecord
    <2>6. HoldsRelease(d)
      <3>1. /\ d.op = "write_old" /\ d.args = c.args /\ d.release = c.release
            /\ d.files = c.files /\ d.read = read
        BY <2>1
      <3>2. OldIsStored(c.args)
        BY <1>2 DEF HoldsRelease
      <3> QED
        BY <1>2, <1>4, <1>5, <1>6, <2>4, <2>5, <3>1, <3>2 DEF HoldsRelease
    <2>7. UNCHANGED <<objects, log, edges, disk, outcomes>>
      BY <1>6 DEF supersede, storeVars
    <2>8. HoldsRelease(d)'
      BY <2>6, <2>7 DEF HoldsRelease, OldIsStored, Releases, Is, Stored, Store, Finished
    <2> QED
      BY <1>1, <1>2, <1>6, <2>1, <2>2, <2>3, <2>8, GoesOnFits
  <1>7. \/ Exit(p, Outcome(p, 3))
        \/ /\ Is(Store, old, "ReleaseRecord") /\ objects[old].status = "released"
           /\ Goto(p, [c EXCEPT !.op = "write_old", !.read = read]) /\ UNCHANGED outcomes
    BY <1>1, <1>4, <1>5 DEF supersede, ReleaseTransitions
  <1> QED
    BY <1>3, <1>6, <1>7

LEMMA CreateAndSupersedeFits ==
    ASSUME IInv, [Next]_vars, NEW p \in Processes, create_and_supersede(p)
    PROVE  Fits(p)
  <1>1. PICK c : c = call[p] /\ c.op = "write_old"
    BY DEF create_and_supersede, At
  <1>2. /\ c.args.cmd = "supersede" /\ c.release \in Releases /\ Finished(c.args.output, c.release)
        /\ c.args.supersedes \in Releases /\ c.args.output \in Outputs
    BY <1>1, CallIs DEF IsCall, HoldsRelease
  <1>3. CASE Exit(p, Outcome(p, 3))
    BY <1>1, <1>3, ToldFits
  <1>4. CASE Supersedes(p)
    <2>1. /\ objects'[c.args.supersedes].status = "superseded"
          /\ objects'[c.args.supersedes].superseded_by = c.release
      <3>1. Typed /\ GivenInv /\ LineInv /\ Holds(call[p])
        BY DEF IInv
      <3> QED
        BY <1>1, <1>4, <3>1, SupersessionKeeps
    <2>2. c.args.supersedes \in Releases' /\ c.release \in Releases' /\ DiskKept
      BY <1>2, TypedKept DEF Evolves
    <2>3. Finished(c.args.output, c.release)'
      BY <1>2, <2>2, FinishedKept
    <2>4. disk'[c.args.output] # Free
      BY <2>3 DEF Finished, Free
    <2>5. Exit(p, Outcome(p, 0))
      BY <1>4 DEF Supersedes
    <2> QED
      BY <1>1, <2>1, <2>2, <2>3, <2>4, <2>5, ToldFits
  <1> QED
    BY <1>1, <1>3, <1>4 DEF create_and_supersede, Supersedes

LEMMA GoesOnFit ==
    ASSUME IInv, [Next]_vars, NEW p \in Processes, GoesOn(p)
    PROVE  Fits(p)
  BY ExportFits, AssembleReportFits, CreateFits, AssembleAndReleaseFits, SupersedeFits, CreateAndSupersedeFits,
     RenderReportFits, WriteReportFits, WriteClosureFits, WriteExportFits DEF GoesOn

LEMMA CrashFits ==
    ASSUME IInv, [Next]_vars, NEW p \in Processes, Crash(p)
    PROVE  Fits(p)
  BY IdleHolds DEF Fits, Crash, Goto

-----------------------------------------------------------------------------
(* The invariant *)

LEMMA InvStep == IInv /\ [Next]_vars => IInv'
  <1> SUFFICES ASSUME IInv, [Next]_vars
               PROVE  IInv'
    OBVIOUS
  <1>1. Typed' /\ GivenInv' /\ LineInv' /\ DiskInv' /\ ToldKept
    BY TypedKept, StoreEvolves, DiskInvKept
  <1>2. \/ UNCHANGED <<call, outcomes>>
        \/ \E p \in Processes : Fits(p)
    <2>1. ASSUME NEW change \in Changes, record_object_revision_with_event(change)
          PROVE  UNCHANGED <<call, outcomes>>
      BY <2>1 DEF record_object_revision_with_event
    <2> QED
      BY <2>1, Steps, BeginsFit, AsksFit, GoesOnFit, CrashFits DEF vars
  <1>3. \A c : Holds(c) => Holds(c)'
    BY HoldsKept
  <1>4. ASSUME NEW p \in Processes
        PROVE  Holds(call[p])'
    <2>1. PICK d : d = call'[p]
      OBVIOUS
    <2>2. PICK c : c = call[p] /\ Holds(c)
      BY DEF IInv
    <2>3. d = c \/ Holds(d)'
      BY <1>2, <2>1, <2>2 DEF Fits, IInv, Typed
    <2>4. Holds(d)'
      BY <1>3, <2>2, <2>3
    <2> QED
      BY <2>1, <2>4
  <1>5. ASSUME NEW i \in DOMAIN outcomes'
        PROVE  Outcomes(outcomes[i], i)'
    <2>1. PICK q : q = outcomes'[i]
      OBVIOUS
    <2>2. CASE i \in DOMAIN outcomes
      <3>1. q = outcomes[i] /\ Outcomes(q, i)
        BY <1>1, <2>1, <2>2 DEF ToldKept, IInv
      <3>2. Outcomes(q, i)'
        BY <2>2, <3>1, OutcomesKept
      <3> QED
        BY <2>1, <3>2
    <2>3. CASE i \notin DOMAIN outcomes
      <3>1. PICK o, n : outcomes' = Append(outcomes, o) /\ n = Len(outcomes) + 1 /\ Outcomes(o, n)'
        BY <1>2, <2>3 DEF Fits
      <3>2. Len(outcomes') = Len(outcomes) + 1 /\ outcomes'[Len(outcomes')] = o
        BY <3>1, Told1 DEF IInv
      <3>3. i = n
        BY <1>1, <2>3, <3>1, <3>2 DEF ToldKept
      <3>4. q = o
        BY <2>1, <3>1, <3>2, <3>3
      <3> QED
        BY <2>1, <3>1, <3>3, <3>4
    <2> QED
      BY <2>2, <2>3
  <1> QED
    BY <1>1, <1>4, <1>5 DEF IInv

LEMMA InitHolds == Init => IInv
  <1> SUFFICES ASSUME Init
               PROVE  IInv
    OBVIOUS
  <1>1. objects = FirstStore.objects /\ log = FirstStore.log /\ outcomes = <<>>
    BY DEF Init
  <1>2. PICK s : s = FirstStore.log
    OBVIOUS
  <1>3. PICK S : S = [type : STRING \ ReleaseEvents, object : DOMAIN FirstStore.objects]
    OBVIOUS
  <1>4. s \in Seq(S) /\ \A e \in S : e.type \notin ReleaseEvents /\ e.object \in DOMAIN FirstStore.objects
    BY <1>2, <1>3, ReleaseConstants
  <1>5. s \in Seq(ToSet(s)) /\ \A i \in DOMAIN s : s[i] \in S
    <2>1. Len(s) \in Nat /\ DOMAIN s = 1 .. Len(s) /\ \A i \in 1 .. Len(s) : s[i] \in S /\ s[i] \in ToSet(s)
      BY <1>4 DEF ToSet
    <2> QED
      BY <1>4, <2>1
  <1>6. \A i \in DOMAIN log : log[i].type \notin ReleaseEvents /\ log[i].object \in DOMAIN objects
    BY <1>1, <1>2, <1>4, <1>5
  <1>7. Typed
    <2>1. log \in Seq(ToSet(log))
      BY <1>1, <1>2, <1>5
    <2>2. outcomes \in Seq(ToSet(outcomes))
      BY <1>1
    <2>3. Commands \subseteq Asked
      BY DEF Init, Commands, Asked
    <2> QED
      BY <1>6, <2>1, <2>2, <2>3 DEF Typed, Init
  <1>8. Discovered("release.approved") = {}
    BY <1>6 DEF Discovered, _discover_ids_by_event_type, Store, ReleaseEvents
  <1>9. Given = 0 /\ FirstIds(0) = {}
    <2>1. Given = 0
      BY <1>8, FS_EmptySet DEF Given, Discovered
    <2>2. FirstIds(0) = {}
      BY DEF FirstIds
    <2> QED
      BY <2>1, <2>2
  <1>10. ToSet(ReleaseIds) \cap DOMAIN objects = {} /\ \A id \in DOMAIN objects : objects[id].kind # "ReleaseRecord"
    BY <1>1, ReleaseConstants
  <1>11. GivenInv
    <2>1. Given \in 0 .. Len(ReleaseIds)
      BY <1>9, ReleaseConstants
    <2>2. _discover_ids_by_event_type(Store, "release.approved") = FirstIds(Given)
      BY <1>8, <1>9 DEF Discovered
    <2>3. \A r \in ToSet(ReleaseIds) : r \notin DOMAIN objects /\ r \notin FirstIds(Given)
      BY <1>9, <1>10
    <2> QED
      BY <1>10, <2>1, <2>2, <2>3 DEF GivenInv
  <1>12. LineInv
    <2>1. Releases = {}
      BY <1>10 DEF Releases, Is, Stored, Store
    <2> QED
      BY <1>6, <2>1 DEF LineInv, ReleaseEvents
  <1>13. DiskInv
    <2>1. \A path \in Outputs : disk[path].files = {}
      BY DEF Init, Free
    <2> QED
      BY <2>1 DEF DiskInv
  <1>14. DOMAIN outcomes = {}
    BY <1>1
  <1>15. \A p \in Processes : Holds(call[p])
    BY DEF Init, Holds
  <1> QED
    BY <1>7, <1>11, <1>12, <1>13, <1>14, <1>15 DEF IInv

LEMMA Invariance == Spec => []IInv
  BY InitHolds, InvStep, PTL DEF Spec

-----------------------------------------------------------------------------
(* What is exported *)

LEMMA ClosureFields ==
    \A x, y, z : Closure(x, y, z).objects = x /\ Closure(x, y, z).edges = y /\ Closure(x, y, z).artifacts = z
  BY Zenon DEF Closure

LEMMA WithProvenance ==
    ASSUME NEW S, NEW ids, NEW roots, NEW artifacts, NEW closure,
           closure = _resolve_provenance_and_verifications(S, ids, roots, artifacts), ids \subseteq Stored(S)
    PROVE  closure.objects \subseteq Stored(S)
  <1>1. PICK hops : hops = UNION {build_provenance_map(S, c).edges : c \in roots}
    OBVIOUS
  <1>2. \A n : \A h \in _outgoing_provenance_hops(S, n) : h.target \in Stored(S)
    <2> SUFFICES ASSUME NEW n, NEW h \in _outgoing_provenance_hops(S, n) PROVE h.target \in Stored(S)
      OBVIOUS
    <2>1. \/ \E t \in Stored(S) : h = Hop(n, t, "field", "field")
          \/ \E e \in S.edges : e[3] \in Stored(S) /\ h = Hop(n, e[3], e[2], "edge")
      BY DEF _outgoing_provenance_hops, _field_reference_hops
    <2> QED
      BY <2>1 DEF Hop
  <1>3. \A h \in hops : h.target \in Stored(S)
    <2>1. \A c : build_provenance_map(S, c).edges = _trace_provenance(S, c)
      BY DEF build_provenance_map
    <2>2. \A c : \A h \in _trace_provenance(S, c) : \E n : h \in _outgoing_provenance_hops(S, n)
      BY DEF _trace_provenance
    <2> QED
      BY <1>1, <1>2, <2>1, <2>2
  <1>4. PICK found : found = ids \cup {h.target : h \in hops}
    OBVIOUS
  <1>5. found \subseteq Stored(S)
    BY <1>3, <1>4
  <1>6. PICK reviews : reviews = _discover_verifications_targeting(S, ClaimsIn(S, found))
    OBVIOUS
  <1>7. reviews \subseteq Stored(S)
    BY <1>6 DEF _discover_verifications_targeting, Is
  <1>8. closure = Closure(found \cup reviews, hops, artifacts)
    BY <1>1, <1>4, <1>6 DEF _resolve_provenance_and_verifications
  <1> QED
    BY <1>5, <1>7, <1>8, ClosureFields

\* What the closure of a crate holds is stored.
LEMMA CrateClosure ==
    ASSUME NEW S, NEW crate, NEW closure, closure = resolve_closure(S, crate), closure.ok
    PROVE  closure.objects \subseteq Stored(S)
  <1>1. Is(S, crate, "EvidenceCrate") /\ S.objects[crate].refs \subseteq Stored(S)
    BY DEF resolve_closure, Refused
  <1>2. closure = _resolve_provenance_and_verifications(
            S, {crate} \cup S.objects[crate].refs, S.objects[crate].proposed_claims, S.objects[crate].artifacts)
    BY DEF resolve_closure, Refused
  <1>3. {crate} \cup S.objects[crate].refs \subseteq Stored(S)
    BY <1>1 DEF Is
  <1> QED
    BY <1>2, <1>3, WithProvenance

-----------------------------------------------------------------------------
(* A second invariant: what bundles show *)

Reviews(S) == _discover_ids_by_event_type(S, "verification.recorded")

\* Evidence is written once and refers to no release; what is recorded as a review is one.
Fixed(S) ==
    /\ IsFiniteSet(Stored(S))
    /\ \A id \in Stored(S) : Refers(S.objects[id]) /\ (id \in ToSet(ReleaseIds) => S.objects[id].kind = "ReleaseRecord")
    /\ \A e \in S.edges : e[3] \notin ToSet(ReleaseIds)
    /\ \A v \in Reviews(S) : Is(S, v, "VerificationResult")

\* Whatever evidence S holds is in T, with what it refers to.
Below(S, T) ==
    /\ S.edges = T.edges
    /\ \A id \in Stored(S) \ ToSet(ReleaseIds) :
          /\ id \in Stored(T) /\ T.objects[id].kind = S.objects[id].kind
          /\ S.objects[id].kind \in WrittenOnce => T.objects[id] = S.objects[id]
    /\ Reviews(S) \subseteq Reviews(T)

\* S and T differ in their releases only.
Alike(S, T) ==
    /\ Below(S, T) /\ Below(T, S)
    /\ \A id \in Stored(S) \ ToSet(ReleaseIds) : T.objects[id] = S.objects[id]
    /\ _read_correction_bodies(S) = _read_correction_bodies(T)

\* An id keeps its kind, no two revisions in force were written at one instant.
ObjectsInv ==
    /\ Fixed(Store)
    /\ \A id \in DOMAIN objects :
          /\ objects[id].revision \in Nat \ {0} /\ objects[id].at \in 0 .. Len(log)
          /\ \A change \in Changes : change.object = id => change.body.kind = objects[id].kind
    /\ \A r \in Releases : \A id \in DOMAIN objects : id # r => objects[id].at # objects[r].at

\* The files of a bundle that is read from S at one instant.
Exported(S, crate) ==
    {[path |-> <<"ro-crate">> \o f.path, content |-> f.content] : f \in build_export(S, crate, resolve_closure(S, crate))}
BundleFiles(S, x) == Exported(S, x.crate) \cup ReportFiles(S, x)

\* The report shows the unresolved critical corrections that were there when its
\* assembly began and touch what is shipped.
Shows(files, began) ==
    \A x \in _read_correction_bodies(Store) :
        /\ is_unresolved_critical_correction(Store, x)
        /\ Touched(Store, x) \cap exported_object_urns(files) # {}
        /\ objects[x].at <= began
        => x \in {row.correction : row \in ReportOf(files).corrections}

\* The report cites what is shipped.
Consistent(files, began) ==
    LET sections == ReportOf(files)
        shipped == exported_object_urns(files)
    IN  /\ sections.evidence \subseteq shipped
        /\ {h.target : h \in sections.provenance} \subseteq shipped
        /\ \A row \in sections.claims :
              /\ [path |-> <<"ro-crate", "objects", row.claim>>, content |-> [revision |-> row.revision]] \in files
              /\ \A v \in shipped :
                    (Is(Store, v, "VerificationResult") /\ objects[v].target_id = row.claim)
                        => v \in {w.verification : w \in row.verifications}
              /\ \A v \in _discover_ids_by_event_type([Store EXCEPT !.log = SubSeq(log, 1, began)], "verification.recorded") :
                    objects[v].target_id = row.claim => v \in shipped

\* A command holds what it has read; while only releases are written, it would read
\* the same again.
Reads(c) ==
    /\ c # Idle => c.began \in 0 .. Len(log)
    /\ c.op \in {"report", "create"} =>
          /\ resolve_closure(Store, c.args.crate).ok
          /\ exported_object_urns(c.files) \subseteq resolve_closure(Store, c.args.crate).objects
          /\ ~Moved(c.began, Len(log)) =>
                c.files = IF c.op = "report" THEN Exported(Store, c.args.crate) ELSE BundleFiles(Store, c.args)
    /\ c.op = "report" => \A f \in c.files : f.path # <<"report.md">>
    /\ c.op = "create" => Shows(c.files, c.began)

ReleaseShows(x) ==
    /\ x.began \in 0 .. x.at - 1 /\ resolve_closure(Store, x.crate).ok
    /\ exported_object_urns(x.bundle.files) \subseteq Stored(Store)
    /\ ~Moved(x.began, Len(log)) => x.bundle.files = BundleFiles(Store, x)
    /\ Moved(x.began, x.at - 1) \/ Consistent(x.bundle.files, x.began)
    /\ Shows(x.bundle.files, x.began)

\* A rebuild that was found different had a cause.
ToldWhy(o) ==
    (o.args.cmd = "verify" /\ o.exit = 3 /\ o.release # None /\ o.args.bundle_dir = None) =>
        /\ o.release \in Releases /\ o.began \in 0 .. Len(log)
        /\ \/ Moved(objects[o.release].began, o.began)
           \/ o.args.classification # objects[o.release].classification

BInv ==
    /\ ObjectsInv
    /\ \A p \in Processes : Reads(call[p])
    /\ \A r \in Releases : ReleaseShows(objects[r])
    /\ \A i \in DOMAIN outcomes : ToldWhy(outcomes[i])

-----------------------------------------------------------------------------
(* What is reached from a claim *)

\* Every nonempty set of naturals has a least element.
LEMMA LeastNatural ==
    ASSUME NEW T, T \subseteq Nat, T # {}
    PROVE  \E n \in T : \A m \in T : n <= m
  <1>1. IsWellFoundedOn(OpToRel(<, Nat), Nat)
    BY NatLessThanWellFounded
  <1>2. PICK x \in T : \A y \in T : ~ (<<y, x>> \in OpToRel(<, Nat))
    BY <1>1, WFMin
  <1>3. \A y \in Nat, z \in Nat : y < z => <<y, z>> \in OpToRel(<, Nat)
    BY DEF OpToRel
  <1>4. \A y \in T : ~(y < x)
    BY <1>2, <1>3, Zenon
  <1> QED
    BY <1>4

\* A set that holds 0, and the successor of each of its numbers below N, holds 0 .. N.
LEMMA ZeroUpTo ==
    ASSUME NEW N \in Nat, NEW P,
           0 \in P, \A n \in 0 .. N : n \in P /\ n < N => n + 1 \in P
    PROVE  0 .. N \subseteq P
  <1> DEFINE T == 0 .. N \ P
  <1> SUFFICES ASSUME T # {} PROVE FALSE
    OBVIOUS
  <1>1. T \subseteq Nat
    OBVIOUS
  <1> HIDE DEF T
  <1>2. PICK n \in T : \A m \in T : n <= m
    BY <1>1, LeastNatural
  <1> USE DEF T
  <1>3. n # 0 /\ n - 1 \in 0 .. N /\ n - 1 < N
    BY <1>2
  <1>4. n - 1 \in P
    BY <1>2, <1>3
  <1> QED
    BY <1>2, <1>3, <1>4

Targets(S, n) == {h.target : h \in _outgoing_provenance_hops(S, n)}
OneFurther(S, W) == W \cup UNION {Targets(S, n) : n \in W}
ClosedIn(S, W) == \A n \in W : Targets(S, n) \subseteq W

\* f is the table of Reached up to N: what is at most so many hops from c.
IsReaching(f, S, c, N) ==
    f = [n \in 0 .. N |-> IF n = 0 THEN {c} ELSE OneFurther(S, f[n - 1])]

\* The table of Reached exists.
LEMMA ReachingExists ==
    ASSUME NEW S, NEW c, NEW N \in Nat
    PROVE  \E f : IsReaching(f, S, c, N)
  <1> DEFINE P == {m \in 0 .. N : \E f : IsReaching(f, S, c, m)}
  <1>1. 0 \in P
    <2> DEFINE f == [n \in 0 .. 0 |-> {c}]
    <2>1. IsReaching(f, S, c, 0)
      BY DEF IsReaching
    <2> HIDE DEF f
    <2> QED
      BY <2>1
  <1>2. \A m \in 0 .. N : m \in P /\ m < N => m + 1 \in P
    <2> SUFFICES ASSUME NEW m \in 0 .. N, m \in P, m < N PROVE m + 1 \in P
      OBVIOUS
    <2>1. PICK f : IsReaching(f, S, c, m)
      OBVIOUS
    <2> DEFINE g == [n \in 0 .. m + 1 |-> IF n = m + 1 THEN OneFurther(S, f[m]) ELSE f[n]]
    <2>2. \A n \in 0 .. m + 1 : g[n] = IF n = 0 THEN {c} ELSE OneFurther(S, g[n - 1])
      <3> TAKE n \in 0 .. m + 1
      <3>1. CASE n = 0
        BY <3>1, <2>1 DEF IsReaching
      <3>2. CASE n = m + 1
        BY <3>2
      <3>3. CASE n \in 1 .. m
        <4>1. \A k \in 0 .. m : f[k] = IF k = 0 THEN {c} ELSE OneFurther(S, f[k - 1])
          BY <2>1, Zenon DEF IsReaching
        <4>2. n \in 0 .. m /\ n # 0
          BY <3>3
        <4>3. f[n] = OneFurther(S, f[n - 1])
          BY <4>1, <4>2
        <4>4. n # m + 1 /\ n - 1 # m + 1 /\ n - 1 \in 0 .. m + 1
          BY <3>3
        <4> QED
          BY <4>2, <4>3, <4>4
      <3> QED
        BY <3>1, <3>2, <3>3
    <2>3. IsReaching(g, S, c, m + 1)
      BY <2>2 DEF IsReaching
    <2> HIDE DEF g
    <2>4. m + 1 \in 0 .. N
      OBVIOUS
    <2> QED
      BY <2>3, <2>4
  <1>3. 0 .. N \subseteq P
    <2> HIDE DEF P
    <2> QED
      BY <1>1, <1>2, ZeroUpTo
  <1> QED
    BY <1>3

\* What holds of every level: all of it is stored and in every closed set that holds c,
\* and a level that is not closed has grown as often as it could.
Level(W, n, S, c) ==
    /\ c \in W /\ W \subseteq Stored(S)
    /\ \A X : c \in X /\ ClosedIn(S, X) => W \subseteq X
    /\ ClosedIn(S, W) \/ Cardinality(W) >= n + 1

\* Hops lead to what is stored.
LEMMA TargetsStored ==
    ASSUME NEW S, NEW n
    PROVE  Targets(S, n) \subseteq Stored(S)
  <1> SUFFICES ASSUME NEW h \in _outgoing_provenance_hops(S, n) PROVE h.target \in Stored(S)
    BY DEF Targets
  <1>1. CASE h \in _field_reference_hops(S, n)
    <2>1. PICK t \in Stored(S) : h = Hop(n, t, "field", "field")
      BY <1>1 DEF _field_reference_hops
    <2> QED
      BY <2>1 DEF Hop
  <1>2. CASE \E e \in S.edges : e[3] \in Stored(S) /\ h = Hop(n, e[3], e[2], "edge")
    BY <1>2 DEF Hop
  <1> QED
    BY <1>1, <1>2 DEF _outgoing_provenance_hops

\* One hop further the same holds, or nothing is new.
LEMMA LevelNext ==
    ASSUME NEW S, NEW c, IsFiniteSet(Stored(S)), NEW n \in Nat, NEW W, Level(W, n, S, c)
    PROVE  Level(OneFurther(S, W), n + 1, S, c)
  <1> PICK V : V = OneFurther(S, W)
    OBVIOUS
  <1>1. c \in V /\ W \subseteq V /\ V \subseteq Stored(S)
    BY TargetsStored DEF OneFurther, Level
  <1>2. ASSUME NEW X, c \in X, ClosedIn(S, X) PROVE V \subseteq X
    BY <1>2 DEF OneFurther, Level, ClosedIn
  <1>3. CASE ClosedIn(S, W)
    <2>1. V = W
      BY <1>3 DEF OneFurther, ClosedIn
    <2> QED
      BY <1>1, <1>2, <1>3, <2>1 DEF Level
  <1>4. CASE ~ClosedIn(S, W)
    <2>1. PICK x \in V : x \notin W
      BY <1>4 DEF OneFurther, ClosedIn
    <2>2. IsFiniteSet(W) /\ IsFiniteSet(V)
      BY <1>1, FS_Subset DEF Level
    <2>3. IsFiniteSet(W \cup {x}) /\ Cardinality(W \cup {x}) = Cardinality(W) + 1
      BY <2>1, <2>2, FS_AddElement
    <2>4. W \cup {x} \subseteq V
      BY <1>1, <2>1
    <2>5. Cardinality(W \cup {x}) <= Cardinality(V)
      BY <2>2, <2>4, FS_Subset
    <2>6. Cardinality(W) \in Nat /\ Cardinality(V) \in Nat
      BY <2>2, FS_CardinalityType
    <2>7. Cardinality(W) >= n + 1
      BY <1>4 DEF Level
    <2>8. Cardinality(V) >= n + 1 + 1
      BY <2>3, <2>5, <2>6, <2>7
    <2> QED
      BY <1>1, <1>2, <2>8 DEF Level
  <1> QED
    BY <1>3, <1>4

\* What Reached returns.
IsFrom(W, S, c) ==
    /\ c \in W /\ W \subseteq Stored(S) /\ ClosedIn(S, W)
    /\ \A X : c \in X /\ ClosedIn(S, X) => W \subseteq X
    /\ _trace_provenance(S, c) = UNION {_outgoing_provenance_hops(S, n) : n \in W}

\* What Reached returns is closed: the bound is never met early.
LEMMA FromExists ==
    ASSUME NEW S, NEW c, IsFiniteSet(Stored(S)), c \in Stored(S)
    PROVE  \E W : IsFrom(W, S, c)
  <1> PICK N : N = Cardinality(Stored(S)) /\ N \in Nat
    BY FS_CardinalityType
  <1> DEFINE g == CHOOSE f : IsReaching(f, S, c, N)
  <1>1. IsReaching(g, S, c, N)
    BY ReachingExists
  <1>2. _trace_provenance(S, c) = UNION {_outgoing_provenance_hops(S, n) : n \in g[N]}
    BY DEF _trace_provenance, Reached, IsReaching, OneFurther, Targets
  <1> HIDE DEF g
  <1>3. PICK P : P = {n \in 0 .. N : Level(g[n], n, S, c)}
    OBVIOUS
  <1>4. 0 \in P
    <2>1. g[0] = {c}
      BY <1>1 DEF IsReaching
    <2>2. Cardinality({c}) = 1
      BY FS_Singleton
    <2>3. Level({c}, 0, S, c)
      BY <2>2 DEF Level
    <2> QED
      BY <1>3, <2>1, <2>3
  <1>5. ASSUME NEW n \in 0 .. N, n \in P, n < N PROVE n + 1 \in P
    <2> PICK m : m = n + 1
      OBVIOUS
    <2>0. \A k \in 0 .. N : g[k] = IF k = 0 THEN {c} ELSE OneFurther(S, g[k - 1])
      BY <1>1, Zenon DEF IsReaching
    <2>5. m \in 0 .. N /\ m # 0 /\ m - 1 = n
      BY <1>5
    <2>1. g[n + 1] = OneFurther(S, g[n])
      BY <2>0, <2>5
    <2>2. Level(g[n], n, S, c) /\ n \in Nat
      BY <1>3, <1>5
    <2>3. Level(OneFurther(S, g[n]), n + 1, S, c)
      BY <2>2, LevelNext
    <2>4. n + 1 \in 0 .. N
      BY <1>5
    <2> QED
      BY <1>3, <2>1, <2>3, <2>4
  <1>6. N \in P
    BY <1>4, <1>5, ZeroUpTo
  <1>7. PICK W : W = g[N] /\ Level(W, N, S, c)
    BY <1>3, <1>6
  <1>8. ClosedIn(S, W)
    <2>1. IsFiniteSet(W) /\ Cardinality(W) <= N
      BY <1>7, FS_Subset DEF Level
    <2>2. Cardinality(W) \in Nat
      BY <2>1, FS_CardinalityType
    <2>3. ~(Cardinality(W) >= N + 1)
      BY <2>1, <2>2
    <2> QED
      BY <1>7, <2>3 DEF Level
  <1>9. IsFrom(W, S, c)
    BY <1>2, <1>7, <1>8 DEF Level, IsFrom
  <1> QED
    BY <1>9

\* Whoever reads more, reaches more.
LEMMA FromGrows ==
    ASSUME NEW S, NEW T, NEW c, NEW W, NEW V, IsFrom(W, S, c), IsFrom(V, T, c),
           \A n : Targets(S, n) \subseteq Targets(T, n)
    PROVE  W \subseteq V
  <1>1. c \in V /\ ClosedIn(S, V)
    BY DEF IsFrom, ClosedIn
  <1> QED
    BY <1>1 DEF IsFrom

\* Whoever reads more finds the hops it found before.
LEMMA HopsGrow ==
    ASSUME NEW S, NEW T, Fixed(S), Fixed(T), Below(S, T), NEW n
    PROVE  _outgoing_provenance_hops(S, n) \subseteq _outgoing_provenance_hops(T, n)
  <1>1. ASSUME NEW e \in S.edges, e[3] \in Stored(S) PROVE e \in T.edges /\ e[3] \in Stored(T)
    BY <1>1 DEF Fixed, Below
  <1>2. {Hop(n, e[3], e[2], "edge") : e \in {f \in S.edges : f[1] = n /\ f[3] \in Stored(S)}}
        \subseteq {Hop(n, e[3], e[2], "edge") : e \in {f \in T.edges : f[1] = n /\ f[3] \in Stored(T)}}
    BY <1>1
  <1>3. ASSUME Is(S, n, "EvidenceAnchor")
        PROVE  Is(T, n, "EvidenceAnchor") /\ _field_reference_hops(S, n) \subseteq _field_reference_hops(T, n)
    <2>1. n \in Stored(S) \ ToSet(ReleaseIds) /\ S.objects[n].kind = "EvidenceAnchor"
      BY <1>3 DEF Is, Fixed
    <2>2. n \in Stored(T) /\ T.objects[n] = S.objects[n]
      BY <2>1 DEF Below, WrittenOnce
    <2>3. S.objects[n].refs \cap ToSet(ReleaseIds) = {}
      BY <2>1 DEF Fixed, Refers
    <2>4. S.objects[n].refs \cap Stored(S) \subseteq T.objects[n].refs \cap Stored(T)
      BY <2>2, <2>3 DEF Below
    <2> QED
      BY <2>1, <2>2, <2>4 DEF Is, _field_reference_hops
  <1> QED
    BY <1>2, <1>3 DEF _outgoing_provenance_hops

\* So a trace only grows.
LEMMA TracesGrow ==
    ASSUME NEW S, NEW T, Fixed(S), Fixed(T), Below(S, T), NEW c, c \in Stored(S), c \in Stored(T)
    PROVE  _trace_provenance(S, c) \subseteq _trace_provenance(T, c)
  <1>1. PICK W : IsFrom(W, S, c)
    BY FromExists DEF Fixed
  <1>2. PICK V : IsFrom(V, T, c)
    BY FromExists DEF Fixed
  <1>3. \A n : Targets(S, n) \subseteq Targets(T, n)
    BY HopsGrow DEF Targets
  <1>4. W \subseteq V
    BY <1>1, <1>2, <1>3, FromGrows
  <1>5. \A n : _outgoing_provenance_hops(S, n) \subseteq _outgoing_provenance_hops(T, n)
    BY HopsGrow
  <1> QED
    BY <1>1, <1>2, <1>4, <1>5 DEF IsFrom

\* No hop leads to a release.
LEMMA HopsLeadElsewhere ==
    ASSUME NEW S, Fixed(S), NEW c, NEW h \in _trace_provenance(S, c)
    PROVE  h.target \in Stored(S) \ ToSet(ReleaseIds)
  <1>1. PICK n : h \in _outgoing_provenance_hops(S, n)
    BY DEF _trace_provenance
  <1>2. CASE Is(S, n, "EvidenceAnchor") /\ h \in _field_reference_hops(S, n)
    <2>1. PICK t \in S.objects[n].refs \cap Stored(S) : h = Hop(n, t, "field", "field")
      BY <1>2 DEF _field_reference_hops
    <2>2. t \notin ToSet(ReleaseIds)
      BY <1>2, <2>1 DEF Is, Fixed, Refers
    <2> QED
      BY <2>1, <2>2 DEF Hop
  <1>3. CASE \E e \in S.edges : e[3] \in Stored(S) /\ h = Hop(n, e[3], e[2], "edge")
    BY <1>3 DEF Hop, Fixed
  <1> QED
    BY <1>1, <1>2, <1>3 DEF _outgoing_provenance_hops

\* The claims and objects of a closure, one by one.
HopsOf(S, roots) == UNION {build_provenance_map(S, c).edges : c \in roots}
FoundBy(S, ids, roots) == ids \cup {h.target : h \in HopsOf(S, roots)}
ReviewsOf(S, ids, roots) == _discover_verifications_targeting(S, ClaimsIn(S, FoundBy(S, ids, roots)))

\* A closure, part by part.
LEMMA ProvenanceIs ==
    ASSUME NEW S, NEW ids, NEW roots, NEW artifacts
    PROVE  /\ _resolve_provenance_and_verifications(S, ids, roots, artifacts)
                  = Closure(FoundBy(S, ids, roots) \cup ReviewsOf(S, ids, roots), HopsOf(S, roots), artifacts)
           /\ _resolve_provenance_and_verifications(S, ids, roots, artifacts).ok
           /\ _resolve_provenance_and_verifications(S, ids, roots, artifacts).objects
                  = FoundBy(S, ids, roots) \cup ReviewsOf(S, ids, roots)
           /\ _resolve_provenance_and_verifications(S, ids, roots, artifacts).edges = HopsOf(S, roots)
  <1>1. _resolve_provenance_and_verifications(S, ids, roots, artifacts)
            = Closure(FoundBy(S, ids, roots) \cup ReviewsOf(S, ids, roots), HopsOf(S, roots), artifacts)
    BY DEF _resolve_provenance_and_verifications, FoundBy, ReviewsOf, HopsOf
  <1>2. \A x, y, z : Closure(x, y, z).ok
    BY Zenon DEF Closure
  <1>3. PICK closure, x, y : /\ closure = _resolve_provenance_and_verifications(S, ids, roots, artifacts)
                             /\ x = FoundBy(S, ids, roots) \cup ReviewsOf(S, ids, roots) /\ y = HopsOf(S, roots)
    OBVIOUS
  <1>4. closure = Closure(x, y, artifacts)
    BY <1>1, <1>3, Zenon
  <1>5. Closure(x, y, artifacts).ok
    BY <1>2, Zenon
  <1>6. closure.ok
    BY <1>4, <1>5, Zenon
  <1>7. closure.objects = x /\ closure.edges = y
    BY <1>4, ClosureFields
  <1> QED
    BY <1>1, <1>3, <1>6, <1>7, Zenon

\* Ids that are stored and are not of releases.
Plain(S, ids) == ids \subseteq Stored(S) \ ToSet(ReleaseIds)

\* No closure holds a release.
LEMMA ProvenanceIsPlain ==
    ASSUME NEW S, Fixed(S), NEW ids, NEW roots, Plain(S, ids)
    PROVE  Plain(S, FoundBy(S, ids, roots)) /\ Plain(S, ReviewsOf(S, ids, roots))
  <1>1. Plain(S, FoundBy(S, ids, roots))
    BY HopsLeadElsewhere DEF FoundBy, HopsOf, build_provenance_map, Plain
  <1>2. \A v \in ReviewsOf(S, ids, roots) : Is(S, v, "VerificationResult")
    BY DEF ReviewsOf, _discover_verifications_targeting
  <1>3. Plain(S, ReviewsOf(S, ids, roots))
    BY <1>2 DEF Is, Fixed, Plain
  <1> QED
    BY <1>1, <1>3

\* Added evidence adds to a closure, and changes nothing of it.
LEMMA ProvenanceGrows ==
    ASSUME NEW S, NEW T, Fixed(S), Fixed(T), Below(S, T), NEW ids, NEW roots, Plain(S, ids), Plain(S, roots)
    PROVE  /\ HopsOf(S, roots) \subseteq HopsOf(T, roots)
           /\ FoundBy(S, ids, roots) \subseteq FoundBy(T, ids, roots)
           /\ ReviewsOf(S, ids, roots) \subseteq ReviewsOf(T, ids, roots)
  <1>1. ASSUME NEW c \in roots PROVE build_provenance_map(S, c).edges \subseteq build_provenance_map(T, c).edges
    <2>1. c \in Stored(S) /\ c \in Stored(T)
      BY DEF Plain, Below
    <2> QED
      BY <2>1, TracesGrow DEF build_provenance_map
  <1>2. HopsOf(S, roots) \subseteq HopsOf(T, roots)
    BY <1>1 DEF HopsOf
  <1>3. FoundBy(S, ids, roots) \subseteq FoundBy(T, ids, roots)
    BY <1>2 DEF FoundBy
  <1>4. ASSUME NEW c, c \in ClaimsIn(S, FoundBy(S, ids, roots)) PROVE c \in ClaimsIn(T, FoundBy(T, ids, roots))
    <2>1. c \in FoundBy(S, ids, roots) /\ Is(S, c, "Claim")
      BY <1>4 DEF ClaimsIn
    <2>2. c \in Stored(S) \ ToSet(ReleaseIds)
      BY <2>1 DEF Is, Fixed
    <2>3. Is(T, c, "Claim")
      BY <2>1, <2>2 DEF Is, Below
    <2> QED
      BY <1>3, <2>1, <2>3 DEF ClaimsIn
  <1>5. ASSUME NEW v, v \in ReviewsOf(S, ids, roots) PROVE v \in ReviewsOf(T, ids, roots)
    <2>1. v \in Reviews(S) /\ Is(S, v, "VerificationResult") /\ S.objects[v].target_id \in ClaimsIn(S, FoundBy(S, ids, roots))
      BY <1>5 DEF ReviewsOf, _discover_verifications_targeting, Reviews
    <2>2. v \in Stored(S) \ ToSet(ReleaseIds)
      BY <2>1 DEF Is, Fixed
    <2>3. v \in Reviews(T) /\ v \in Stored(T) /\ T.objects[v] = S.objects[v]
      BY <2>1, <2>2 DEF Is, Below, WrittenOnce
    <2> QED
      BY <1>4, <2>1, <2>3 DEF ReviewsOf, _discover_verifications_targeting, Reviews, Is
  <1> QED
    BY <1>2, <1>3, <1>5

\* The closure of a crate that can be exported.
Exportable(S, crate) ==
    /\ Is(S, crate, "EvidenceCrate")
    /\ S.objects[crate].refs \subseteq Stored(S)
    /\ \A c \in S.objects[crate].proposed_claims : Is(S, c, "Claim")
IdsOf(S, crate) == {crate} \cup S.objects[crate].refs

\* A crate resolves exactly when it is exportable.
LEMMA ClosureIs ==
    ASSUME NEW S, NEW crate
    PROVE  /\ resolve_closure(S, crate).ok <=> Exportable(S, crate)
           /\ Exportable(S, crate) =>
                 resolve_closure(S, crate) =
                     _resolve_provenance_and_verifications(
                         S, IdsOf(S, crate), S.objects[crate].proposed_claims, S.objects[crate].artifacts)
  <1>1. \A reason : ~Refused(reason).ok
    BY DEF Refused
  <1>2. CASE Exportable(S, crate)
    <2>1. resolve_closure(S, crate) =
              _resolve_provenance_and_verifications(
                  S, IdsOf(S, crate), S.objects[crate].proposed_claims, S.objects[crate].artifacts)
      BY <1>2 DEF Exportable, resolve_closure, IdsOf
    <2>2. PICK ids, roots, artifacts : /\ ids = IdsOf(S, crate) /\ roots = S.objects[crate].proposed_claims
                                       /\ artifacts = S.objects[crate].artifacts
      OBVIOUS
    <2>3. _resolve_provenance_and_verifications(S, ids, roots, artifacts).ok
      BY ProvenanceIs
    <2>4. resolve_closure(S, crate).ok
      BY <2>1, <2>2, <2>3, Zenon
    <2> QED
      BY <1>2, <2>1, <2>4, Zenon
  <1>3. CASE ~Exportable(S, crate)
    <2>1. \E reason : resolve_closure(S, crate) = Refused(reason)
      BY <1>3 DEF Exportable, resolve_closure
    <2> QED
      BY <1>1, <1>3, <2>1
  <1> QED
    BY <1>2, <1>3

\* What an exportable crate names.
LEMMA CrateNames ==
    ASSUME NEW S, Fixed(S), NEW crate, Exportable(S, crate)
    PROVE  Plain(S, IdsOf(S, crate)) /\ Plain(S, S.objects[crate].proposed_claims)
           /\ S.objects[crate].proposed_claims \subseteq IdsOf(S, crate)
  <1>1. crate \in Stored(S) \ ToSet(ReleaseIds) /\ S.objects[crate].kind = "EvidenceCrate"
    BY DEF Exportable, Is, Fixed
  <1>2. S.objects[crate].refs \cap ToSet(ReleaseIds) = {} /\ S.objects[crate].proposed_claims \subseteq S.objects[crate].refs
    BY <1>1 DEF Fixed, Refers
  <1> QED
    BY <1>1, <1>2 DEF Exportable, Plain, IdsOf

\* An exportable crate stays exportable.
LEMMA ExportableGrows ==
    ASSUME NEW S, NEW T, Fixed(S), Fixed(T), Below(S, T), NEW crate, Exportable(S, crate)
    PROVE  Exportable(T, crate) /\ T.objects[crate] = S.objects[crate]
  <1>1. Plain(S, IdsOf(S, crate)) /\ Plain(S, S.objects[crate].proposed_claims)
    BY CrateNames
  <1>2. crate \in Stored(S) \ ToSet(ReleaseIds) /\ S.objects[crate].kind = "EvidenceCrate"
    BY <1>1 DEF Exportable, Is, Plain, IdsOf
  <1>3. crate \in Stored(T) /\ T.objects[crate] = S.objects[crate]
    BY <1>2 DEF Below, WrittenOnce
  <1>4. S.objects[crate].refs \subseteq Stored(T)
    BY <1>1 DEF Plain, IdsOf, Below
  <1>5. \A c \in S.objects[crate].proposed_claims : Is(T, c, "Claim")
    BY <1>1 DEF Plain, Exportable, Is, Below
  <1> QED
    BY <1>2, <1>3, <1>4, <1>5 DEF Exportable, Is

\* Evidence that is added can only add to a closure.
LEMMA ClosureGrows ==
    ASSUME NEW S, NEW T, Fixed(S), Fixed(T), Below(S, T), NEW crate, resolve_closure(S, crate).ok
    PROVE  /\ resolve_closure(T, crate).ok
           /\ resolve_closure(S, crate).objects \subseteq resolve_closure(T, crate).objects
           /\ resolve_closure(S, crate).edges \subseteq resolve_closure(T, crate).edges
  <1>1. Exportable(S, crate) /\ Exportable(T, crate) /\ T.objects[crate] = S.objects[crate]
    BY ClosureIs, ExportableGrows
  <1>2. PICK ids, roots, artifacts : /\ ids = IdsOf(S, crate) /\ roots = S.objects[crate].proposed_claims
                                     /\ artifacts = S.objects[crate].artifacts
    OBVIOUS
  <1>3. /\ resolve_closure(S, crate) = _resolve_provenance_and_verifications(S, ids, roots, artifacts)
        /\ resolve_closure(T, crate) = _resolve_provenance_and_verifications(T, ids, roots, artifacts)
    BY <1>1, <1>2, ClosureIs DEF IdsOf
  <1>4. Plain(S, ids) /\ Plain(S, roots)
    BY <1>1, <1>2, CrateNames
  <1>5. /\ HopsOf(S, roots) \subseteq HopsOf(T, roots)
        /\ FoundBy(S, ids, roots) \subseteq FoundBy(T, ids, roots)
        /\ ReviewsOf(S, ids, roots) \subseteq ReviewsOf(T, ids, roots)
    BY <1>4, ProvenanceGrows
  <1>8. PICK s, t : /\ s = _resolve_provenance_and_verifications(S, ids, roots, artifacts)
                    /\ t = _resolve_provenance_and_verifications(T, ids, roots, artifacts)
    OBVIOUS
  <1>9. /\ s.objects = FoundBy(S, ids, roots) \cup ReviewsOf(S, ids, roots) /\ s.edges = HopsOf(S, roots)
        /\ t.objects = FoundBy(T, ids, roots) \cup ReviewsOf(T, ids, roots) /\ t.edges = HopsOf(T, roots)
    BY <1>8, ProvenanceIs
  <1>10. resolve_closure(S, crate) = s /\ resolve_closure(T, crate) = t
    BY <1>3, <1>8, Zenon
  <1>6. /\ resolve_closure(S, crate).objects = FoundBy(S, ids, roots) \cup ReviewsOf(S, ids, roots)
        /\ resolve_closure(S, crate).edges = HopsOf(S, roots)
    BY <1>9, <1>10, Zenon
  <1>7. /\ resolve_closure(T, crate).ok
        /\ resolve_closure(T, crate).objects = FoundBy(T, ids, roots) \cup ReviewsOf(T, ids, roots)
        /\ resolve_closure(T, crate).edges = HopsOf(T, roots)
    BY <1>1, <1>9, <1>10, ClosureIs, Zenon
  <1> QED
    BY <1>5, <1>6, <1>7

\* Stores alike resolve a crate alike.
LEMMA ClosureSame ==
    ASSUME NEW S, NEW T, Fixed(S), Fixed(T), Below(S, T), Below(T, S), NEW crate, resolve_closure(S, crate).ok
    PROVE  resolve_closure(T, crate) = resolve_closure(S, crate)
  <1>1. Exportable(S, crate) /\ Exportable(T, crate) /\ T.objects[crate] = S.objects[crate]
    BY ClosureIs, ExportableGrows
  <1>2. PICK ids, roots, artifacts : /\ ids = IdsOf(S, crate) /\ roots = S.objects[crate].proposed_claims
                                     /\ artifacts = S.objects[crate].artifacts
    OBVIOUS
  <1>3. /\ resolve_closure(S, crate) = _resolve_provenance_and_verifications(S, ids, roots, artifacts)
        /\ resolve_closure(T, crate) = _resolve_provenance_and_verifications(T, ids, roots, artifacts)
    BY <1>1, <1>2, ClosureIs DEF IdsOf
  <1>4. Plain(S, ids) /\ Plain(S, roots) /\ Plain(T, ids) /\ Plain(T, roots)
    BY <1>1, <1>2, CrateNames DEF IdsOf
  <1>6. /\ HopsOf(S, roots) \subseteq HopsOf(T, roots)
        /\ FoundBy(S, ids, roots) \subseteq FoundBy(T, ids, roots)
        /\ ReviewsOf(S, ids, roots) \subseteq ReviewsOf(T, ids, roots)
    BY <1>4, ProvenanceGrows
  <1>7. /\ HopsOf(T, roots) \subseteq HopsOf(S, roots)
        /\ FoundBy(T, ids, roots) \subseteq FoundBy(S, ids, roots)
        /\ ReviewsOf(T, ids, roots) \subseteq ReviewsOf(S, ids, roots)
    BY <1>4, ProvenanceGrows
  <1>5. /\ HopsOf(S, roots) = HopsOf(T, roots)
        /\ FoundBy(S, ids, roots) = FoundBy(T, ids, roots)
        /\ ReviewsOf(S, ids, roots) = ReviewsOf(T, ids, roots)
    BY <1>6, <1>7
  <1>8. /\ resolve_closure(S, crate) = Closure(FoundBy(S, ids, roots) \cup ReviewsOf(S, ids, roots), HopsOf(S, roots), artifacts)
        /\ resolve_closure(T, crate) = Closure(FoundBy(T, ids, roots) \cup ReviewsOf(T, ids, roots), HopsOf(T, roots), artifacts)
    BY <1>3, ProvenanceIs, Zenon
  <1> QED
    BY <1>5, <1>8, Zenon

-----------------------------------------------------------------------------
(* Stores that differ in their releases read the same *)

LEMMA InPath ==
    ASSUME NEW x, NEW y
    PROVE  <<"ro-crate">> \o <<x, y>> = <<"ro-crate", x, y>>
  <1> PICK S : S = {"ro-crate", x, y}
    OBVIOUS
  <1> PICK s : s = <<"ro-crate">>
    OBVIOUS
  <1> PICK t : t = <<x, y>>
    OBVIOUS
  <1> PICK u : u = <<"ro-crate", x, y>>
    OBVIOUS
  <1>1. s \in Seq(S) /\ Len(s) = 1 /\ s[1] = "ro-crate"
    OBVIOUS
  <1>2. t \in Seq(S) /\ Len(t) = 2 /\ t[1] = x /\ t[2] = y
    OBVIOUS
  <1>3. u \in Seq(S) /\ Len(u) = 3 /\ u[1] = "ro-crate" /\ u[2] = x /\ u[3] = y
    OBVIOUS
  <1>4. /\ s \o t \in Seq(S) /\ Len(s \o t) = 3
        /\ \A i \in 1 .. 3 : (s \o t)[i] = IF i <= 1 THEN s[i] ELSE t[i - 1]
    BY <1>1, <1>2, ConcatProperties
  <1>5. (s \o t)[1] = "ro-crate" /\ (s \o t)[2] = x /\ (s \o t)[3] = y
    BY <1>1, <1>2, <1>4
  <1>6. \A i \in 1 .. 3 : i = 1 \/ i = 2 \/ i = 3
    OBVIOUS
  <1>7. \A i \in 1 .. 3 : (s \o t)[i] = u[i]
    BY <1>3, <1>5, <1>6
  <1>8. s \o t = u
    BY <1>3, <1>4, <1>7, SeqEqual
  <1> QED
    BY <1>8

MetadataPath == <<"ro-crate">> \o <<"ro-crate-metadata">>
LEMMA MetadataPathIs == Len(MetadataPath) = 2
  <1>1. PICK S : S = {"ro-crate", "ro-crate-metadata"}
    OBVIOUS
  <1>2. PICK s : s = <<"ro-crate-metadata">>
    OBVIOUS
  <1>3. s \in Seq(S) /\ Len(s) = 1 /\ "ro-crate" \in S
    BY <1>1, <1>2
  <1>4. Len(<<"ro-crate">> \o s) = Len(s) + 1
    BY <1>3, Joined
  <1> QED
    BY <1>2, <1>3, <1>4 DEF MetadataPath

\* What an export of a closure writes, file by file.
ObjectFile(S, id) == [path |-> <<"ro-crate", "objects", id>>, content |-> [revision |-> S.objects[id].revision]]
ArtifactFile(a) == [path |-> <<"ro-crate", "artifacts", a>>, content |-> [bytes |-> a]]
MetadataFile(m) == [path |-> MetadataPath, content |-> m]
ExportFiles(S, crate, closure) ==
    {ObjectFile(S, id) : id \in closure.objects} \cup {ArtifactFile(a) : a \in closure.artifacts}
    \cup {MetadataFile(build_ro_crate_metadata(S, crate, closure))}

\* The files of an export are those of its closure.
LEMMA ExportedAre ==
    ASSUME NEW S, NEW crate, NEW closure, closure = resolve_closure(S, crate)
    PROVE  Exported(S, crate) = ExportFiles(S, crate, closure)
  <1> PICK m : m = build_ro_crate_metadata(S, crate, closure)
    OBVIOUS
  <1> DEFINE Under(f) == [path |-> <<"ro-crate">> \o f.path, content |-> f.content]
             O(id) == [path |-> <<"objects", id>>, content |-> [revision |-> S.objects[id].revision]]
             A(a) == [path |-> <<"artifacts", a>>, content |-> [bytes |-> a]]
             M == [path |-> <<"ro-crate-metadata">>, content |-> m]
  <1>1. Exported(S, crate) = {Under(f) : f \in {O(id) : id \in closure.objects} \cup {A(a) : a \in closure.artifacts} \cup {M}}
    BY DEF Exported, build_export, build_export_plan
  <1>2. \A id : Under(O(id)) = ObjectFile(S, id)
    <2> TAKE id
    <2>1. PICK o, revision : o = O(id) /\ revision = [revision |-> S.objects[id].revision]
      OBVIOUS
    <2>2. o.path = <<"objects", id>> /\ o.content = revision
      BY <2>1
    <2>3. <<"ro-crate">> \o o.path = <<"ro-crate", "objects", id>>
      BY <2>2, InPath
    <2>4. [path |-> <<"ro-crate">> \o o.path, content |-> o.content] = ObjectFile(S, id)
      BY <2>1, <2>2, <2>3, Zenon DEF ObjectFile
    <2> QED
      BY <2>1, <2>4, Zenon
  <1>3. \A a : Under(A(a)) = ArtifactFile(a)
    <2> TAKE a
    <2>1. PICK o, bytes : o = A(a) /\ bytes = [bytes |-> a]
      OBVIOUS
    <2>2. o.path = <<"artifacts", a>> /\ o.content = bytes
      BY <2>1
    <2>3. <<"ro-crate">> \o o.path = <<"ro-crate", "artifacts", a>>
      BY <2>2, InPath
    <2>4. [path |-> <<"ro-crate">> \o o.path, content |-> o.content] = ArtifactFile(a)
      BY <2>1, <2>2, <2>3, Zenon DEF ArtifactFile
    <2> QED
      BY <2>1, <2>4, Zenon
  <1>4. Under(M) = MetadataFile(m)
    <2>1. M.path = <<"ro-crate-metadata">> /\ M.content = m
      OBVIOUS
    <2> QED
      BY <2>1, Zenon DEF MetadataFile, MetadataPath
  <1> HIDE DEF Under, O, A, M
  <1>5. ASSUME NEW f PROVE f \in Exported(S, crate) <=> f \in ExportFiles(S, crate, closure)
    <2>1. f \in Exported(S, crate) <=> \/ \E id \in closure.objects : f = Under(O(id))
                                       \/ \E a \in closure.artifacts : f = Under(A(a))
                                       \/ f = Under(M)
      BY <1>1
    <2> QED
      BY <2>1, <1>2, <1>3, <1>4 DEF ExportFiles
  <1> QED
    BY <1>5

\* A bundle ships the objects of its closure.
LEMMA ShippedAre ==
    ASSUME NEW S, NEW crate, NEW closure, closure = resolve_closure(S, crate), NEW x, x.crate = crate
    PROVE  /\ exported_object_urns(Exported(S, crate)) = closure.objects
           /\ exported_object_urns(BundleFiles(S, x)) = closure.objects
  <1>1. Exported(S, crate) = ExportFiles(S, crate, closure)
    BY ExportedAre
  <1>2. ASSUME NEW id
        PROVE  /\ Len(ObjectFile(S, id).path) = 3 /\ ObjectFile(S, id).path[2] = "objects" /\ ObjectFile(S, id).path[3] = id
               /\ ArtifactFile(id).path[2] # "objects"
    BY DEF ObjectFile, ArtifactFile
  <1>3. \A m : Len(MetadataFile(m).path) = 2
    BY MetadataPathIs DEF MetadataFile
  <1>4. \A f \in ReportFiles(S, x) : Len(f.path) = 1
    BY DEF ReportFiles
  <1>5. exported_object_urns(ExportFiles(S, crate, closure)) = closure.objects
    <2>1. ASSUME NEW id \in closure.objects PROVE id \in exported_object_urns(ExportFiles(S, crate, closure))
      <3>1. PICK f : f = ObjectFile(S, id)
        OBVIOUS
      <3>2. f \in ExportFiles(S, crate, closure) /\ Len(f.path) = 3 /\ f.path[2] = "objects" /\ f.path[3] = id
        BY <3>1, <1>2 DEF ExportFiles
      <3> QED
        BY <3>2 DEF exported_object_urns
    <2>2. ASSUME NEW f \in ExportFiles(S, crate, closure), Len(f.path) = 3, f.path[2] = "objects"
          PROVE  f.path[3] \in closure.objects
      BY <2>2, <1>2, <1>3 DEF ExportFiles
    <2> QED
      BY <2>1, <2>2 DEF exported_object_urns
  <1>6. exported_object_urns(BundleFiles(S, x)) = exported_object_urns(Exported(S, crate))
    BY <1>4 DEF BundleFiles, exported_object_urns
  <1> QED
    BY <1>1, <1>5, <1>6

\* What the report of a bundle is.
ReportIn(S, x) == render(S, x.crate, x.disclosure, Attested(x.classification), {}).report

\* An export has no report of its own.
LEMMA NoReportYet ==
    ASSUME NEW S, NEW crate, NEW f \in Exported(S, crate)
    PROVE  f.path # <<"report.md">> /\ f.path # <<"report.html">>
  <1>1. PICK closure : f \in ExportFiles(S, crate, closure)
    BY ExportedAre
  <1>2. Len(f.path) # 1
    BY <1>1, MetadataPathIs DEF ExportFiles, ObjectFile, ArtifactFile, MetadataFile
  <1>3. Len(<<"report.md">>) = 1 /\ Len(<<"report.html">>) = 1
    OBVIOUS
  <1> QED
    BY <1>2, <1>3

LEMMA ReportInBundle ==
    ASSUME NEW S, NEW x, NEW exported, \A f \in exported : f.path # <<"report.md">>
    PROVE  ReportOf(exported \cup ReportFiles(S, x)) = ReportIn(S, x)
  <1> PICK report : report = ReportIn(S, x)
    OBVIOUS
  <1> PICK files : files = exported \cup ReportFiles(S, x)
    OBVIOUS
  <1> DEFINE md == [path |-> <<"report.md">>, content |-> render_markdown(report)]
             html == [path |-> <<"report.html">>, content |-> render_html(report)]
  <1>1. files = exported \cup {md, html}
    BY DEF ReportFiles, ReportIn
  <1>2. md.path = <<"report.md">> /\ html.path # <<"report.md">>
    OBVIOUS
  <1>3. md.content.sections = report
    BY DEF render_markdown
  <1> HIDE DEF md, html
  <1>4. \A f \in files : f.path = <<"report.md">> <=> f = md
    BY <1>1, <1>2
  <1>5. (CHOOSE f \in files : f.path = <<"report.md">>) = md
    BY <1>1, <1>4
  <1> QED
    BY <1>3, <1>5 DEF ReportOf

\* What the closure of a crate holds.
LEMMA ClosureIsPlain ==
    ASSUME NEW S, Fixed(S), NEW crate, NEW closure, closure = resolve_closure(S, crate), closure.ok
    PROVE  /\ Plain(S, closure.objects) /\ Exportable(S, crate)
           /\ {crate} \cup S.objects[crate].refs \subseteq closure.objects
           /\ Plain(S, S.objects[crate].proposed_claims) /\ S.objects[crate].proposed_claims \subseteq closure.objects
           /\ closure.edges = HopsOf(S, S.objects[crate].proposed_claims)
           /\ {h.target : h \in closure.edges} \subseteq closure.objects
           /\ \A v \in Reviews(S) : (Is(S, v, "VerificationResult") /\ S.objects[v].target_id \in S.objects[crate].proposed_claims)
                  => v \in closure.objects
  <1>1. Exportable(S, crate)
    BY ClosureIs
  <1>2. PICK ids, roots, artifacts : /\ ids = IdsOf(S, crate) /\ roots = S.objects[crate].proposed_claims
                                     /\ artifacts = S.objects[crate].artifacts
    OBVIOUS
  <1>3. closure = _resolve_provenance_and_verifications(S, ids, roots, artifacts)
    BY <1>1, <1>2, ClosureIs, Zenon
  <1>4. closure.objects = FoundBy(S, ids, roots) \cup ReviewsOf(S, ids, roots) /\ closure.edges = HopsOf(S, roots)
    BY <1>3, ProvenanceIs
  <1>5. Plain(S, ids) /\ Plain(S, roots) /\ roots \subseteq ids
    BY <1>1, <1>2, CrateNames
  <1>6. Plain(S, FoundBy(S, ids, roots)) /\ Plain(S, ReviewsOf(S, ids, roots))
    BY <1>5, ProvenanceIsPlain
  <1>7. Plain(S, closure.objects)
    BY <1>4, <1>6 DEF Plain
  <1>8. ids \subseteq closure.objects
    BY <1>4 DEF FoundBy
  <1>9. {h.target : h \in closure.edges} \subseteq closure.objects
    BY <1>4 DEF FoundBy
  <1>10. ASSUME NEW v \in Reviews(S), Is(S, v, "VerificationResult"), S.objects[v].target_id \in roots
         PROVE  v \in closure.objects
    <2>1. S.objects[v].target_id \in ClaimsIn(S, FoundBy(S, ids, roots))
      BY <1>1, <1>2, <1>5, <1>10 DEF ClaimsIn, FoundBy, Exportable
    <2>2. v \in ReviewsOf(S, ids, roots)
      BY <1>10, <2>1 DEF ReviewsOf, _discover_verifications_targeting, Reviews
    <2> QED
      BY <1>4, <2>2
  <1> QED
    BY <1>1, <1>2, <1>4, <1>5, <1>7, <1>8, <1>9, <1>10 DEF IdsOf

\* Stores alike export alike.
LEMMA ExportSame ==
    ASSUME NEW S, NEW T, Fixed(S), Fixed(T), Alike(S, T), NEW crate, resolve_closure(S, crate).ok
    PROVE  Exported(T, crate) = Exported(S, crate)
  <1>1. PICK closure : closure = resolve_closure(S, crate) /\ closure.ok
    OBVIOUS
  <1>2. closure = resolve_closure(T, crate)
    BY <1>1, ClosureSame DEF Alike
  <1>3. Plain(S, closure.objects) /\ Exportable(S, crate) /\ crate \in closure.objects
    BY <1>1, ClosureIsPlain
  <1>4. \A id \in closure.objects : T.objects[id] = S.objects[id] /\ id \in Stored(T) /\ id \in Stored(S)
    BY <1>3 DEF Plain, Alike, Below
  <1>5. build_ro_crate_metadata(S, crate, closure) = build_ro_crate_metadata(T, crate, closure)
    <2> PICK objects_ : objects_ = closure.objects
      OBVIOUS
    <2> PICK hops : hops = closure.edges
      OBVIOUS
    <2> DEFINE R(X) == [id \in objects_ |-> prov_relations_for_object(X.objects[id]) \cup group_derived_from_targets(hops, id)]
               G(X) == artifact_generated_by_relation(X, crate, closure.artifacts)
    <2>1. R(S) = R(T)
      BY <1>4
    <2>2. G(S) = G(T)
      BY <1>3, <1>4 DEF artifact_generated_by_relation
    <2>3. \A X : build_ro_crate_metadata(X, crate, closure) =
              [parts |-> objects_ \cup closure.artifacts, relations |-> R(X), generated_by |-> G(X),
               stubs |-> (G(X) \cup UNION {R(X)[id] : id \in objects_}) \ objects_]
      BY DEF build_ro_crate_metadata
    <2> HIDE DEF R, G
    <2> QED
      BY <2>1, <2>2, <2>3
  <1>6. \A id \in closure.objects : ObjectFile(S, id) = ObjectFile(T, id)
    BY <1>4 DEF ObjectFile
  <1>7. ExportFiles(S, crate, closure) = ExportFiles(T, crate, closure)
    BY <1>5, <1>6 DEF ExportFiles
  <1> QED
    BY <1>1, <1>2, <1>7, ExportedAre

\* The provenance of claims that both stores hold.
LEMMA MapSame ==
    ASSUME NEW S, NEW T, Fixed(S), Fixed(T), Alike(S, T), NEW c, c \in Stored(S), c \in Stored(T)
    PROVE  build_provenance_map(S, c).edges = build_provenance_map(T, c).edges
  <1>1. _trace_provenance(S, c) \subseteq _trace_provenance(T, c)
    BY TracesGrow DEF Alike
  <1>2. _trace_provenance(T, c) \subseteq _trace_provenance(S, c)
    BY TracesGrow DEF Alike
  <1>3. _trace_provenance(S, c) = _trace_provenance(T, c)
    BY <1>1, <1>2
  <1>4. \A X : build_provenance_map(X, c).edges = _trace_provenance(X, c)
    BY DEF build_provenance_map
  <1> QED
    BY <1>3, <1>4

\* Stores alike show the same corrections.
LEMMA CorrectionsSame ==
    ASSUME NEW S, NEW T, Fixed(S), Alike(S, T), NEW attestation
    PROVE  build_public_correction_view(S, attestation) = build_public_correction_view(T, attestation)
  <1>1. PICK X : X = _read_correction_bodies(S) /\ X = _read_correction_bodies(T)
    BY DEF Alike
  <1>2. \A x \in X : Is(S, x, "CorrectionEvent")
    BY <1>1 DEF _read_correction_bodies
  <1>3. \A x \in X : T.objects[x] = S.objects[x]
    BY <1>2 DEF Is, Fixed, Alike
  <1>4. \A x \in X : build_public_correction_row(S, x, attestation) = build_public_correction_row(T, x, attestation)
    BY <1>3 DEF build_public_correction_row, Touched, is_unresolved_critical_correction
  <1> QED
    BY <1>1, <1>4 DEF build_public_correction_view

\* Stores alike render the same report.
LEMMA RenderSame ==
    ASSUME NEW S, NEW T, Fixed(S), Fixed(T), Alike(S, T), NEW crate, resolve_closure(S, crate).ok, NEW disclosure, NEW attested
    PROVE  render(T, crate, disclosure, attested, {}) = render(S, crate, disclosure, attested, {})
  <1>1. PICK closure : closure = resolve_closure(S, crate) /\ closure.ok
    OBVIOUS
  <1>2. closure = resolve_closure(T, crate)
    BY <1>1, ClosureSame DEF Alike
  <1>3. PICK claims, ids : claims = S.objects[crate].proposed_claims /\ ids = closure.objects
    OBVIOUS
  <1>4. Plain(S, ids) /\ claims \subseteq ids /\ crate \in ids
    BY <1>1, <1>3, ClosureIsPlain
  <1>5. \A id \in ids : T.objects[id] = S.objects[id] /\ id \in Stored(T) /\ id \in Stored(S)
    BY <1>4 DEF Plain, Alike, Below
  <1>6. PICK attestation : attestation = _attestation_for(disclosure, attested)
    OBVIOUS
  <1>7. build_public_correction_view(S, attestation) = build_public_correction_view(T, attestation)
    BY CorrectionsSame
  <1>8. PICK rows : rows = _corrections_for_closure(build_public_correction_view(S, attestation), closure)
    OBVIOUS
  <1>9. \A kind : \A id \in ids : Is(S, id, kind) <=> Is(T, id, kind)
    BY <1>5 DEF Is
  <1>10. ASSUME NEW c \in claims
         PROVE  _build_claim_row(S, c, closure, rows, attestation) = _build_claim_row(T, c, closure, rows, attestation)
    <2>1. _build_verifications_for_claim(S, c, ids, attestation) = _build_verifications_for_claim(T, c, ids, attestation)
      <3>1. PICK matching : matching = {v \in ids : Is(S, v, "VerificationResult") /\ S.objects[v].target_id = c}
        OBVIOUS
      <3>2. matching = {v \in ids : Is(T, v, "VerificationResult") /\ T.objects[v].target_id = c}
        BY <1>5, <1>9, <3>1
      <3> DEFINE V(X, v) == [verification |-> v, recommendation |-> X.objects[v].recommendation,
                             disagreement |-> \E w \in matching : X.objects[w].recommendation # X.objects[v].recommendation,
                             findings |-> _redact({v, c}, attestation)]
      <3>3. \A v \in matching : V(S, v) = V(T, v)
        BY <1>5, <3>1
      <3>4. /\ _build_verifications_for_claim(S, c, ids, attestation) = {V(S, v) : v \in matching}
            /\ _build_verifications_for_claim(T, c, ids, attestation) = {V(T, v) : v \in matching}
        BY <3>1, <3>2 DEF _build_verifications_for_claim
      <3> HIDE DEF V
      <3> QED
        BY <3>3, <3>4
    <2>2. S.objects[c].revision = T.objects[c].revision
      BY <1>4, <1>5
    <2> QED
      BY <1>3, <2>1, <2>2, Zenon DEF _build_claim_row
  <1>11. \A X : X.objects[crate].proposed_claims = claims =>
            build_report(X, {crate}, closure, rows, disclosure, attested, {}) =
                [header |-> _build_crate_rooted_header({crate}, closure),
                 methods |-> _build_crate_rooted_methods(X, {crate}, closure),
                 claims |-> {_build_claim_row(X, c, closure, rows, attestation) : c \in claims},
                 evidence |-> {id \in ids : Is(X, id, "SourceRecord") \/ Is(X, id, "EvidenceAnchor")},
                 corrections |-> rows,
                 known_unknowns |-> {_build_known_unknown_rows(crate, attestation)},
                 provenance |-> UNION {build_provenance_map(X, c).edges : c \in claims},
                 source_urns |-> _collect_urns(X, ids) \cup {row.correction : row \in rows}
                                     \cup UNION {row.touched : row \in rows},
                 disclosure |-> disclosure,
                 banner |-> {}]
    <2> SUFFICES ASSUME NEW X, X.objects[crate].proposed_claims = claims
                 PROVE  build_report(X, {crate}, closure, rows, disclosure, attested, {}) =
                [header |-> _build_crate_rooted_header({crate}, closure),
                 methods |-> _build_crate_rooted_methods(X, {crate}, closure),
                 claims |-> {_build_claim_row(X, c, closure, rows, attestation) : c \in claims},
                 evidence |-> {id \in ids : Is(X, id, "SourceRecord") \/ Is(X, id, "EvidenceAnchor")},
                 corrections |-> rows,
                 known_unknowns |-> {_build_known_unknown_rows(crate, attestation)},
                 provenance |-> UNION {build_provenance_map(X, c).edges : c \in claims},
                 source_urns |-> _collect_urns(X, ids) \cup {row.correction : row \in rows}
                                     \cup UNION {row.touched : row \in rows},
                 disclosure |-> disclosure,
                 banner |-> {}]
      OBVIOUS
    <2>1. _build_release_banner_section(X, {}, attestation) = {}
      BY DEF _build_release_banner_section
    <2>2. /\ {crate} # {} /\ UNION {X.objects[k].proposed_claims : k \in {crate}} = claims
          /\ {_build_known_unknown_rows(k, attestation) : k \in {crate}} = {_build_known_unknown_rows(crate, attestation)}
      OBVIOUS
    <2> QED
      BY <2>1, <2>2, <1>3, <1>6, Zenon DEF build_report
  <1>12. S.objects[crate].proposed_claims = claims /\ T.objects[crate].proposed_claims = claims
    BY <1>3, <1>4, <1>5
  <1>13. _build_crate_rooted_methods(S, {crate}, closure) = _build_crate_rooted_methods(T, {crate}, closure)
    BY <1>4, <1>5 DEF _build_crate_rooted_methods
  <1>14. {_build_claim_row(S, c, closure, rows, attestation) : c \in claims}
           = {_build_claim_row(T, c, closure, rows, attestation) : c \in claims}
    BY <1>10
  <1>15. {id \in ids : Is(S, id, "SourceRecord") \/ Is(S, id, "EvidenceAnchor")}
           = {id \in ids : Is(T, id, "SourceRecord") \/ Is(T, id, "EvidenceAnchor")}
    BY <1>9
  <1>16. \A c \in claims : build_provenance_map(S, c).edges = build_provenance_map(T, c).edges
    BY <1>4, <1>5, MapSame
  <1>17. UNION {build_provenance_map(S, c).edges : c \in claims} = UNION {build_provenance_map(T, c).edges : c \in claims}
    BY <1>16
  <1>18. _collect_urns(S, ids) = _collect_urns(T, ids)
    BY <1>5 DEF _collect_urns
  <1>19. build_report(S, {crate}, closure, rows, disclosure, attested, {})
           = build_report(T, {crate}, closure, rows, disclosure, attested, {})
    BY <1>11, <1>12, <1>13, <1>14, <1>15, <1>17, <1>18, Zenon
  <1>20. \A X : resolve_closure(X, crate) = closure =>
            render(X, crate, disclosure, attested, {}) =
                [ok |-> closure.ok,
                 report |-> build_report(X, {crate}, closure,
                                _corrections_for_closure(build_public_correction_view(X, attestation), closure),
                                disclosure, attested, {})]
    BY <1>1, <1>6, Zenon DEF render
  <1> QED
    BY <1>1, <1>2, <1>7, <1>8, <1>19, <1>20, Zenon

\* So bundles read from stores alike are the same.
LEMMA BundleSame ==
    ASSUME NEW S, NEW T, Fixed(S), Fixed(T), Alike(S, T), NEW x, resolve_closure(S, x.crate).ok
    PROVE  BundleFiles(T, x) = BundleFiles(S, x) /\ Exported(T, x.crate) = Exported(S, x.crate)
  <1>1. Exported(T, x.crate) = Exported(S, x.crate)
    BY ExportSame
  <1>2. PICK crate, disclosure, attested :
            crate = x.crate /\ disclosure = x.disclosure /\ attested = Attested(x.classification)
    OBVIOUS
  <1>3. render(T, crate, disclosure, attested, {}) = render(S, crate, disclosure, attested, {})
    BY <1>2, RenderSame
  <1>4. ReportFiles(T, x) = ReportFiles(S, x)
    BY <1>2, <1>3, Zenon DEF ReportFiles
  <1> QED
    BY <1>1, <1>4 DEF BundleFiles

\* The sections of a report on claims, read from S at one instant.
SectionsFrom(sections, S, crate, claims, closure, rows, attestation) ==
    /\ rows = _corrections_for_closure(build_public_correction_view(S, attestation), closure)
    /\ sections.corrections = rows
    /\ sections.claims = {_build_claim_row(S, c, closure, rows, attestation) : c \in claims}
    /\ sections.provenance = UNION {build_provenance_map(S, c).edges : c \in claims}
    /\ sections.evidence \subseteq closure.objects
    /\ sections.known_unknowns = {_build_known_unknown_rows(k, attestation) : k \in crate}

LEMMA SectionsBuilt ==
    ASSUME NEW S, NEW crate, NEW claims, NEW closure, NEW rows, NEW disclosure, NEW attested, NEW attestation,
           attestation = _attestation_for(disclosure, attested),
           rows = _corrections_for_closure(build_public_correction_view(S, attestation), closure),
           claims = IF crate # {} THEN UNION {S.objects[k].proposed_claims : k \in crate} ELSE ClaimsIn(S, closure.objects),
           NEW sections, sections = build_report(S, crate, closure, rows, disclosure, attested, {})
    PROVE  SectionsFrom(sections, S, crate, claims, closure, rows, attestation)
  <1>1. /\ sections.corrections = rows
        /\ sections.evidence = {id \in closure.objects : Is(S, id, "SourceRecord") \/ Is(S, id, "EvidenceAnchor")}
    BY DEF build_report
  <1>2. /\ sections.claims = {_build_claim_row(S, c, closure, rows, attestation) : c \in claims}
        /\ sections.provenance = UNION {build_provenance_map(S, c).edges : c \in claims}
    BY DEF build_report
  <1>3. sections.known_unknowns = {_build_known_unknown_rows(k, attestation) : k \in crate}
    BY DEF build_report
  <1> QED
    BY <1>1, <1>2, <1>3 DEF SectionsFrom

\* The sections of a report on a crate.
LEMMA SectionsAre ==
    ASSUME NEW S, NEW x, NEW closure, closure = resolve_closure(S, x.crate), closure.ok,
           NEW claims, claims = S.objects[x.crate].proposed_claims,
           NEW sections, sections = ReportIn(S, x),
           NEW attestation, attestation = _attestation_for(x.disclosure, Attested(x.classification))
    PROVE  \E rows : SectionsFrom(sections, S, {x.crate}, claims, closure, rows, attestation)
  <1>1. PICK crate, disclosure, attested :
            crate = x.crate /\ disclosure = x.disclosure /\ attested = Attested(x.classification)
    OBVIOUS
  <1>2. PICK rows : rows = _corrections_for_closure(build_public_correction_view(S, attestation), closure)
    OBVIOUS
  <1>3. sections = build_report(S, {crate}, closure, rows, disclosure, attested, {})
    BY <1>1, <1>2 DEF ReportIn, render
  <1>4. claims = IF {crate} # {} THEN UNION {S.objects[k].proposed_claims : k \in {crate}} ELSE ClaimsIn(S, closure.objects)
    BY <1>1
  <1>5. SectionsFrom(sections, S, {crate}, claims, closure, rows, attestation)
    BY <1>1, <1>2, <1>3, <1>4, SectionsBuilt
  <1> QED
    BY <1>1, <1>5

\* A report shows what corrects what its closure holds.
LEMMA ReportShows ==
    ASSUME NEW S, NEW x, NEW closure, closure = resolve_closure(S, x.crate), closure.ok,
           NEW y \in _read_correction_bodies(S), is_unresolved_critical_correction(S, y),
           Touched(S, y) \cap closure.objects # {}
    PROVE  y \in {row.correction : row \in ReportIn(S, x).corrections}
  <1>1. PICK attestation : ReportIn(S, x).corrections = _corrections_for_closure(build_public_correction_view(S, attestation), closure)
    BY SectionsAre DEF SectionsFrom
  <1>2. PICK row : row = build_public_correction_row(S, y, attestation)
    OBVIOUS
  <1>3. row.correction = y /\ row.unresolved = is_unresolved_critical_correction(S, y) /\ row.touched = Touched(S, y)
    BY <1>2 DEF build_public_correction_row
  <1>4. row.unresolved
    BY <1>3
  <1>5. row \in build_public_correction_view(S, attestation)
    BY <1>2, <1>4 DEF build_public_correction_view
  <1>6. row \in _corrections_for_closure(build_public_correction_view(S, attestation), closure)
    BY <1>3, <1>5 DEF _corrections_for_closure
  <1> QED
    BY <1>1, <1>3, <1>6

\* The first n elements of a sequence.
LEMMA FirstOf ==
    ASSUME NEW s, s \in Seq(ToSet(s)), NEW n \in 0 .. Len(s), NEW u, u = SubSeq(s, 1, n)
    PROVE  u \in Seq(ToSet(s)) /\ Len(u) = n /\ DOMAIN u = 1 .. n /\ \A i \in 1 .. n : u[i] = s[i]
  <1>1. Len(s) \in Nat /\ DOMAIN s = 1 .. Len(s) /\ n \in Nat /\ n <= Len(s)
    OBVIOUS
  <1>2. u \in Seq(ToSet(s)) /\ Len(u) = n /\ \A i \in 1 .. n : u[i] = s[i]
    BY <1>1
  <1>3. DOMAIN u = 1 .. n
    BY <1>1, <1>2
  <1> QED
    BY <1>2, <1>3

\* The reviews that were there when n events were logged.
ReviewsAt(n) == _discover_ids_by_event_type([Store EXCEPT !.log = SubSeq(log, 1, n)], "verification.recorded")

ReviewedBefore ==
    Typed => \A n \in 0 .. Len(log) :
        /\ ReviewsAt(n) = {log[i].object : i \in {j \in 1 .. n : log[j].type = "verification.recorded"}}
        /\ ReviewsAt(n) \subseteq Reviews(Store)

LEMMA WhatWasReviewed == ReviewedBefore
  <1> SUFFICES ASSUME Typed, NEW n \in 0 .. Len(log)
               PROVE  /\ ReviewsAt(n) = {log[i].object : i \in {j \in 1 .. n : log[j].type = "verification.recorded"}}
                      /\ ReviewsAt(n) \subseteq Reviews(Store)
    BY DEF ReviewedBefore
  <1>1. PICK s : s = log /\ s \in Seq(ToSet(s))
    BY DEF Typed
  <1>2. PICK u : u = SubSeq(s, 1, n)
    OBVIOUS
  <1>3. DOMAIN u = 1 .. n /\ \A i \in 1 .. n : u[i] = s[i]
    BY <1>1, <1>2, FirstOf
  <1>4. ReviewsAt(n) = {u[i].object : i \in {j \in DOMAIN u : u[j].type = "verification.recorded"}}
    BY <1>1, <1>2 DEF ReviewsAt, _discover_ids_by_event_type, Store
  <1>5. ReviewsAt(n) = {s[i].object : i \in {j \in 1 .. n : s[j].type = "verification.recorded"}}
    BY <1>3, <1>4
  <1>6. 1 .. n \subseteq DOMAIN s
    BY <1>1
  <1>7. Reviews(Store) = {s[i].object : i \in {j \in DOMAIN s : s[j].type = "verification.recorded"}}
    BY <1>1 DEF Reviews, _discover_ids_by_event_type, Store
  <1> QED
    BY <1>1, <1>5, <1>6, <1>7

\* A bundle that is read at one instant is consistent.
LEMMA ConsistentNow ==
    ASSUME Typed, Fixed(Store), NEW x, resolve_closure(Store, x.crate).ok, NEW began, began \in 0 .. Len(log)
    PROVE  Consistent(BundleFiles(Store, x), began)
  <1>1. PICK S, closure : S = Store /\ closure = resolve_closure(S, x.crate) /\ closure.ok
    OBVIOUS
  <1>2. PICK files : files = BundleFiles(S, x)
    OBVIOUS
  <1>3. PICK sections : sections = ReportIn(S, x)
    OBVIOUS
  <1>4. PICK claims : claims = S.objects[x.crate].proposed_claims
    OBVIOUS
  <1>5. /\ Plain(S, closure.objects) /\ Exportable(S, x.crate) /\ x.crate \in closure.objects
        /\ claims \subseteq closure.objects /\ closure.edges = HopsOf(S, claims)
        /\ {h.target : h \in closure.edges} \subseteq closure.objects
        /\ \A v \in Reviews(S) : (Is(S, v, "VerificationResult") /\ S.objects[v].target_id \in claims) => v \in closure.objects
    BY <1>1, <1>4, ClosureIsPlain
  <1>6. exported_object_urns(files) = closure.objects
    BY <1>1, <1>2, ShippedAre
  <1>7. ReportOf(files) = sections
    BY <1>2, <1>3, NoReportYet, ReportInBundle DEF BundleFiles
  <1>8. PICK rows, attestation :
           /\ sections.claims = {_build_claim_row(S, c, closure, rows, attestation) : c \in claims}
           /\ sections.provenance = UNION {build_provenance_map(S, c).edges : c \in claims}
           /\ sections.evidence \subseteq closure.objects
    <2>1. PICK attestation : attestation = _attestation_for(x.disclosure, Attested(x.classification))
      OBVIOUS
    <2>2. PICK rows : SectionsFrom(sections, S, {x.crate}, claims, closure, rows, attestation)
      BY <1>1, <1>3, <1>4, <2>1, SectionsAre, Zenon
    <2> QED
      BY <2>2 DEF SectionsFrom
  <1>9. {h.target : h \in sections.provenance} \subseteq closure.objects
    BY <1>5, <1>8 DEF HopsOf
  <1>10. ASSUME NEW row \in sections.claims
         PROVE  /\ [path |-> <<"ro-crate", "objects", row.claim>>, content |-> [revision |-> row.revision]] \in files
                /\ \A v \in closure.objects :
                      (Is(S, v, "VerificationResult") /\ S.objects[v].target_id = row.claim)
                          => v \in {w.verification : w \in row.verifications}
                /\ row.claim \in claims
    <2>1. PICK c \in claims : row = _build_claim_row(S, c, closure, rows, attestation)
      BY <1>8
    <2>2. /\ row.claim = c /\ row.revision = S.objects[c].revision
          /\ row.verifications = _build_verifications_for_claim(S, c, closure.objects, attestation)
      BY <2>1 DEF _build_claim_row
    <2>3. ObjectFile(S, c) \in files
      BY <1>1, <1>2, <1>5, ExportedAre DEF BundleFiles, ExportFiles
    <2>4. ASSUME NEW v \in closure.objects, Is(S, v, "VerificationResult"), S.objects[v].target_id = c
          PROVE  v \in {w.verification : w \in row.verifications}
      <3> DEFINE matching == {u \in closure.objects : Is(S, u, "VerificationResult") /\ S.objects[u].target_id = c}
                 V(u) == [verification |-> u, recommendation |-> S.objects[u].recommendation,
                          disagreement |-> \E w \in matching : S.objects[w].recommendation # S.objects[u].recommendation,
                          findings |-> _redact({u, c}, attestation)]
      <3>1. row.verifications = {V(u) : u \in matching}
        BY <2>2, Zenon DEF _build_verifications_for_claim
      <3>2. V(v).verification = v /\ v \in matching
        BY <2>4
      <3> HIDE DEF matching, V
      <3> QED
        BY <3>1, <3>2
    <2> QED
      BY <2>2, <2>3, <2>4 DEF ObjectFile
  <1>11. ASSUME NEW v \in _discover_ids_by_event_type([Store EXCEPT !.log = SubSeq(log, 1, began)], "verification.recorded"),
                S.objects[v].target_id \in claims
         PROVE  v \in closure.objects
    <2>4. v \in Reviews(S)
      BY <1>1, <1>11, WhatWasReviewed DEF ReviewsAt, ReviewedBefore
    <2> QED
      BY <1>1, <1>5, <1>11, <2>4 DEF Fixed
  <1>12. S.objects = objects
    BY <1>1 DEF Store
  <1> QED
    BY <1>1, <1>2, <1>6, <1>7, <1>8, <1>9, <1>10, <1>11, <1>12 DEF Consistent

-----------------------------------------------------------------------------
(* The store grows *)

SameRelease(x, y) ==
    /\ y.began = x.began /\ y.crate = x.crate /\ y.disclosure = x.disclosure /\ y.classification = x.classification
    /\ y.bundle = x.bundle /\ y.at >= x.at

\* What a step does to the store: what was read before is there, and only the writes
\* of others are seen by who reads again.
Grows ==
    /\ Len(log) \in Nat /\ Len(log') \in Nat /\ Len(log) <= Len(log') /\ \A i \in 1 .. Len(log) : log'[i] = log[i]
    /\ Below(Store, Store')
    /\ \A id \in DOMAIN objects : id \in DOMAIN objects' /\ objects'[id].kind = objects[id].kind
    /\ \A x \in _read_correction_bodies(Store)' :
          objects'[x].at > Len(log) \/ (x \in _read_correction_bodies(Store) /\ objects'[x] = objects[x])
    /\ Alike(Store, Store') \/ (Len(log) < Len(log') /\ log'[Len(log) + 1].type \notin ReleaseEvents)
    /\ \A r \in Releases : r \in Releases' /\ SameRelease(objects[r], objects'[r])
    /\ \A r \in Releases' : r \in Releases \/ objects'[r].at = Len(log) + 1

\* The body a service or a command may write.
Writable(id, body, type) ==
    /\ id \in DOMAIN objects => body.kind = objects[id].kind
    /\ Refers(body) /\ (id \in ToSet(ReleaseIds) <=> body.kind = "ReleaseRecord")
    /\ body.revision \in Nat \ {0} /\ body.at = Len(log) + 1
    /\ type = "verification.recorded" => body.kind = "VerificationResult"
    /\ body.kind \in WrittenOnce => id \notin DOMAIN objects
    /\ \A change \in Changes : change.object = id => change.body.kind = body.kind
    /\ body.kind = "ReleaseRecord" <=> type \in ReleaseEvents
    /\ id \in Releases => SameRelease(objects[id], body)

\* A step that writes nothing.
LEMMA SameAsBefore ==
    ASSUME UNCHANGED <<objects, log>>, UNCHANGED edges, Typed, ObjectsInv
    PROVE  Grows /\ ObjectsInv'
  <1>1. Store' = Store /\ Releases' = Releases /\ _read_correction_bodies(Store)' = _read_correction_bodies(Store)
    BY DEF Store, Releases
  <1>2. \A S : Alike(S, S) /\ Below(S, S)
    BY DEF Alike, Below
  <1>3. Len(log) \in Nat
    <2>1. PICK t : t = log /\ t \in Seq(ToSet(t))
      BY DEF Typed
    <2> QED
      BY <2>1
  <1>4. \A r \in Releases : SameRelease(objects[r], objects[r])
    BY DEF SameRelease, ObjectsInv, Releases, Is, Stored, Store
  <1>5. Grows
    BY <1>1, <1>2, <1>3, <1>4 DEF Grows
  <1>6. ObjectsInv'
    BY <1>1 DEF ObjectsInv
  <1> QED
    BY <1>5, <1>6

\* A write of the kind that services and commands make.
LEMMA WriteGrows ==
    ASSUME Typed, GivenInv, ObjectsInv, NEW id, NEW body, NEW type,
           Commit(id, body, type), UNCHANGED edges, Writable(id, body, type)
    PROVE  Grows /\ ObjectsInv'
  <1> PICK S : S = Store
    OBVIOUS
  <1> PICK T : T = Store'
    OBVIOUS
  <1>1. /\ DOMAIN objects' = DOMAIN objects \cup {id} /\ objects'[id] = body
        /\ \A x \in DOMAIN objects : x # id => objects'[x] = objects[x]
        /\ Len(log) \in Nat /\ DOMAIN log = 1 .. Len(log) /\ DOMAIN log' = 1 .. Len(log) + 1
        /\ log'[Len(log) + 1].type = type /\ log'[Len(log) + 1].object = id
        /\ log' \in Seq(ToSet(log'))
        /\ \A i \in 1 .. Len(log) : log'[i] = log[i]
    BY Committed
  <1>2. Len(log') = Len(log) + 1
    <2>1. PICK t : t = log' /\ t \in Seq(ToSet(t))
      BY <1>1
    <2>2. DOMAIN t = 1 .. Len(t) /\ Len(t) \in Nat
      BY <2>1
    <2> QED
      BY <1>1, <2>1, <2>2
  <1>3. /\ Stored(S) = DOMAIN objects /\ Stored(T) = DOMAIN objects' /\ S.objects = objects /\ T.objects = objects'
        /\ S.edges = edges /\ T.edges = edges'
    BY DEF Stored, Store
  <1>4. Fixed(S)
    BY DEF ObjectsInv
  <1>5. /\ Reviews(S) = Discovered("verification.recorded")
        /\ Reviews(T) = IF type = "verification.recorded" THEN Reviews(S) \cup {id} ELSE Reviews(S)
    <2>1. Reviews(S) = Discovered("verification.recorded")
      BY DEF Reviews, Discovered
    <2>2. Reviews(T) = Discovered("verification.recorded")'
      BY DEF Reviews, Discovered
    <2> QED
      BY <2>1, <2>2, DiscoveredNext
  <1>6. \A x : x \in _read_correction_bodies(Store)' => x = id \/ (x \in _read_correction_bodies(Store) /\ objects'[x] = objects[x])
    <2>1. ASSUME NEW x, x \in _read_correction_bodies(T), x # id
          PROVE  x \in _read_correction_bodies(S) /\ objects'[x] = objects[x]
      <3>1. x \in Discovered("correction.recorded")' /\ Is(T, x, "CorrectionEvent")
        BY <2>1 DEF _read_correction_bodies, Discovered
      <3>2. x \in Discovered("correction.recorded")
        BY <2>1, <3>1, DiscoveredNext
      <3>3. x \in DOMAIN objects /\ objects'[x] = objects[x]
        BY <1>1, <1>3, <2>1, <3>1 DEF Is
      <3>4. Is(S, x, "CorrectionEvent")
        BY <1>3, <3>1, <3>3 DEF Is
      <3> QED
        BY <3>2, <3>3, <3>4 DEF _read_correction_bodies, Discovered
    <2> QED
      BY <2>1
  <1>7. Fixed(T)
    <2>1. IsFiniteSet(Stored(T))
      BY <1>1, <1>3, <1>4, FS_AddElement DEF Fixed
    <2>2. ASSUME NEW x \in Stored(T)
          PROVE  Refers(T.objects[x]) /\ (x \in ToSet(ReleaseIds) => T.objects[x].kind = "ReleaseRecord")
      <3>1. CASE x = id
        BY <1>1, <1>3, <3>1 DEF Writable
      <3>2. CASE x # id
        BY <1>1, <1>3, <1>4, <3>2 DEF Fixed
      <3> QED
        BY <3>1, <3>2
    <2>3. \A e \in T.edges : e[3] \notin ToSet(ReleaseIds)
      BY <1>3, <1>4 DEF Fixed
    <2>4. ASSUME NEW v \in Reviews(T) PROVE Is(T, v, "VerificationResult")
      <3>1. CASE v = id
        <4>1. type = "verification.recorded" \/ (id \in DOMAIN objects /\ objects[id].kind = "VerificationResult")
          BY <1>3, <1>4, <1>5, <3>1 DEF Fixed, Is
        <4>2. body.kind = "VerificationResult"
          BY <4>1 DEF Writable
        <4> QED
          BY <1>1, <1>3, <3>1, <4>2 DEF Is
      <3>2. CASE v # id
        BY <1>1, <1>3, <1>4, <1>5, <3>2 DEF Fixed, Is
      <3> QED
        BY <3>1, <3>2
    <2> QED
      BY <2>1, <2>2, <2>3, <2>4 DEF Fixed
  <1>8. Below(S, T)
    <2>1. ASSUME NEW x \in Stored(S)
          PROVE  /\ x \in Stored(T) /\ T.objects[x].kind = S.objects[x].kind
                 /\ S.objects[x].kind \in WrittenOnce => T.objects[x] = S.objects[x]
      BY <1>1, <1>3 DEF Writable
    <2> QED
      BY <1>3, <1>5, <2>1 DEF Below
  <1>9. ASSUME type \in ReleaseEvents PROVE Alike(S, T)
    <2>1. id \in ToSet(ReleaseIds) /\ type # "verification.recorded" /\ type # "correction.recorded" /\ body.kind = "ReleaseRecord"
      BY <1>9 DEF Writable, ReleaseEvents
    <2>2. Below(T, S)
      BY <1>1, <1>3, <1>5, <2>1 DEF Below
    <2>3. \A x \in Stored(S) \ ToSet(ReleaseIds) : T.objects[x] = S.objects[x]
      BY <1>1, <1>3, <2>1
    <2>4. \A x : x \in _read_correction_bodies(S) <=> x \in _read_correction_bodies(T)
      <3>1. Discovered("correction.recorded")' = Discovered("correction.recorded")
        BY <2>1, DiscoveredNext
      <3>2. \A x : Is(S, x, "CorrectionEvent") <=> Is(T, x, "CorrectionEvent")
        <4>1. \A x : x # id => (Is(S, x, "CorrectionEvent") <=> Is(T, x, "CorrectionEvent"))
          BY <1>1, <1>3 DEF Is
        <4>2. ~Is(T, id, "CorrectionEvent")
          BY <1>1, <1>3, <2>1 DEF Is
        <4>3. ~Is(S, id, "CorrectionEvent")
          BY <1>3, <1>4, <2>1 DEF Is, Fixed
        <4> QED
          BY <4>1, <4>2, <4>3
      <3> QED
        BY <3>1, <3>2 DEF _read_correction_bodies, Discovered
    <2>5. _read_correction_bodies(S) = _read_correction_bodies(T)
      BY <2>4
    <2> QED
      BY <1>8, <2>2, <2>3, <2>5 DEF Alike
  <1>10. ASSUME NEW r \in Releases'
         PROVE  (r \in Releases /\ SameRelease(objects[r], objects'[r])) \/ (r = id /\ objects'[r].at = Len(log) + 1)
    <2>1. r \in ToSet(ReleaseIds) /\ r \in DOMAIN objects' /\ objects'[r].kind = "ReleaseRecord"
      BY DEF Releases, Is, Stored, Store
    <2>2. CASE r = id
      BY <1>1, <2>2 DEF Writable
    <2>3. CASE r # id
      <3>1. r \in Releases /\ objects'[r] = objects[r]
        BY <1>1, <2>1, <2>3 DEF Releases, Is, Stored, Store
      <3>2. SameRelease(objects[r], objects[r])
        BY <3>1 DEF SameRelease, ObjectsInv, Releases, Is, Stored, Store
      <3> QED
        BY <3>1, <3>2
    <2> QED
      BY <2>2, <2>3
  <1>11. ASSUME NEW r \in Releases
         PROVE  r \in Releases' /\ SameRelease(objects[r], objects'[r])
    <2>1. r \in ToSet(ReleaseIds) /\ r \in DOMAIN objects /\ objects[r].kind = "ReleaseRecord"
      BY DEF Releases, Is, Stored, Store
    <2>2. CASE r = id
      <3>1. objects'[r].kind = "ReleaseRecord" /\ r \in DOMAIN objects'
        BY <1>1, <2>1, <2>2 DEF Writable
      <3>2. r \in Releases'
        BY <2>1, <3>1 DEF Releases, Is, Stored, Store
      <3> QED
        BY <1>1, <2>2, <3>2 DEF Writable
    <2>3. CASE r # id
      <3>1. r \in Releases' /\ objects'[r] = objects[r]
        BY <1>1, <2>1, <2>3 DEF Releases, Is, Stored, Store
      <3>2. SameRelease(objects[r], objects[r])
        BY <2>1 DEF SameRelease, ObjectsInv
      <3> QED
        BY <3>1, <3>2
    <2> QED
      BY <2>2, <2>3
  <1>12. \A x \in DOMAIN objects : x \in DOMAIN objects' /\ objects'[x].kind = objects[x].kind
    BY <1>1 DEF Writable
  <1>13. \A x \in DOMAIN objects' : (x = id /\ objects'[x] = body) \/ (x # id /\ x \in DOMAIN objects /\ objects'[x] = objects[x])
    BY <1>1
  <1>14. body.at = Len(log) + 1 /\ body.revision \in Nat \ {0}
    BY DEF Writable
  <1>15. Grows
    <2>1. Len(log) \in Nat /\ Len(log') \in Nat /\ Len(log) <= Len(log') /\ Len(log) < Len(log')
      BY <1>1, <1>2
    <2>2. \A x \in _read_correction_bodies(Store)' :
              objects'[x].at > Len(log) \/ (x \in _read_correction_bodies(Store) /\ objects'[x] = objects[x])
      BY <1>1, <1>6, <1>14
    <2>3. Alike(Store, Store') \/ log'[Len(log) + 1].type \notin ReleaseEvents
      BY <1>1, <1>9
    <2>4. Below(Store, Store')
      BY <1>8
    <2> QED
      BY <1>1, <1>10, <1>11, <1>12, <1>14, <2>1, <2>2, <2>3, <2>4 DEF Grows
  <1>16. ObjectsInv'
    <2>1. Fixed(Store)'
      BY <1>7
    <2>2. ASSUME NEW x \in DOMAIN objects'
          PROVE  /\ objects'[x].revision \in Nat \ {0} /\ objects'[x].at \in 0 .. Len(log')
                 /\ \A change \in Changes : change.object = x => change.body.kind = objects'[x].kind
      <3>1. CASE x = id
        BY <1>1, <1>2, <1>14, <3>1 DEF Writable
      <3>2. CASE x # id
        <4>1. x \in DOMAIN objects /\ objects'[x] = objects[x]
          BY <1>13, <3>2
        <4>2. /\ objects[x].revision \in Nat \ {0} /\ objects[x].at \in 0 .. Len(log)
              /\ \A change \in Changes : change.object = x => change.body.kind = objects[x].kind
          BY <4>1 DEF ObjectsInv
        <4> QED
          BY <1>1, <1>2, <4>1, <4>2
      <3> QED
        BY <3>1, <3>2
    <2>3. ASSUME NEW r \in Releases', NEW x \in DOMAIN objects', x # r
          PROVE  objects'[x].at # objects'[r].at
      <3>0. \A y \in DOMAIN objects : objects[y].at \in 0 .. Len(log)
        BY DEF ObjectsInv
      <3>1. r \in DOMAIN objects'
        BY DEF Releases, Is, Stored, Store
      <3>2. CASE r # id /\ x # id
        <4>1. r \in Releases /\ x \in DOMAIN objects
          BY <1>10, <1>13, <3>2
        <4>2. objects[x].at # objects[r].at
          BY <4>1, <2>3 DEF ObjectsInv
        <4> QED
          BY <1>13, <3>1, <3>2, <4>2
      <3>3. CASE r = id \/ x = id
        BY <1>1, <1>13, <1>14, <2>3, <3>0, <3>1, <3>3
      <3> QED
        BY <3>2, <3>3
    <2> QED
      BY <2>1, <2>2, <2>3 DEF ObjectsInv
  <1> QED
    BY <1>15, <1>16

\* Other services make such writes,
LEMMA ChangeWritable ==
    ASSUME Typed, ObjectsInv, NEW change \in Changes, record_object_revision_with_event(change)
    PROVE  \E id, body, type : Commit(id, body, type) /\ Writable(id, body, type)
  <1>1. PICK b : b = change.body
    OBVIOUS
  <1>2. PICK id, type : id = change.object /\ type = change.type
    OBVIOUS
  <1>3. PICK body : body = [b EXCEPT !.at = Now]
    OBVIOUS
  <1>4. Commit(id, body, type)
    BY <1>1, <1>2, <1>3 DEF record_object_revision_with_event
  <1>5. /\ {"kind", "revision", "at"} \subseteq DOMAIN b /\ b.kind # "ReleaseRecord" /\ type \notin ReleaseEvents
        /\ id \notin ToSet(ReleaseIds)
    BY <1>1, <1>2, ReleaseConstants
  <1>6. DOMAIN body = DOMAIN b /\ body.at = Now /\ body.kind = b.kind /\ body.revision = b.revision
        /\ body.refs = b.refs /\ body.proposed_claims = b.proposed_claims
    BY <1>3, <1>5
  <1>7. Refers(b) /\ (b.kind \in WrittenOnce => b.revision = 1) /\ (type = "verification.recorded" => b.kind = "VerificationResult")
        /\ \A other \in Changes : other.object = id => other.body.kind = b.kind
    BY <1>1, <1>2, StoreConventions
  <1>8. IF id \in DOMAIN objects THEN b.revision = objects[id].revision + 1 ELSE b.revision = 1
    BY <1>1, <1>2 DEF record_object_revision_with_event
  <1>9. id \in DOMAIN objects => objects[id].revision \in Nat \ {0} /\ b.kind = objects[id].kind
    BY <1>1, <1>2 DEF ObjectsInv
  <1>10. b.revision \in Nat \ {0} /\ (b.kind \in WrittenOnce => id \notin DOMAIN objects)
    BY <1>7, <1>8, <1>9
  <1>11. Refers(body)
    BY <1>6, <1>7 DEF Refers
  <1>12. id \notin Releases
    BY <1>5 DEF Releases
  <1>13. Writable(id, body, type)
    BY <1>5, <1>6, <1>7, <1>9, <1>10, <1>11, <1>12 DEF Writable, Now
  <1> QED
    BY <1>4, <1>13

\* and so does an approval,
LEMMA ApprovalWritable ==
    ASSUME IInv, NEW p \in Processes, Approves(p), NEW id, id = NextRelease,
           NEW body, body = _release_record_to_stored_object(p)
    PROVE  Commit(id, body, "release.approved") /\ Writable(id, body, "release.approved")
  <1>1. Commit(id, body, "release.approved")
    BY DEF Approves
  <1>2. id \in ToSet(ReleaseIds) /\ id \notin DOMAIN objects
    <2>1. id \in Releases' \ DOMAIN objects
      BY ApprovalKeeps DEF IInv
    <2> QED
      BY <2>1 DEF Releases
  <1>3. body.kind = "ReleaseRecord" /\ body.revision = 1 /\ body.at = Now
    BY DEF _release_record_to_stored_object
  <1>4. Refers(body) /\ body.kind \notin WrittenOnce
    BY <1>3 DEF Refers, WrittenOnce
  <1>5. id \notin Releases /\ \A change \in Changes : change.object # id
    BY <1>2, ReleaseConstants DEF Releases, Is, Stored, Store
  <1>6. "release.approved" \in ReleaseEvents
    BY DEF ReleaseEvents
  <1>7. Writable(id, body, "release.approved")
    BY <1>2, <1>3, <1>4, <1>5, <1>6 DEF Writable, Now
  <1> QED
    BY <1>1, <1>7

\* and a supersession.
LEMMA SupersessionWritable ==
    ASSUME IInv, ObjectsInv, NEW p \in Processes, Supersedes(p)
    PROVE  \E id, body : Commit(id, body, "release.superseded") /\ Writable(id, body, "release.superseded")
  <1>1. PICK c : c = call[p] /\ c.op = "write_old"
    BY DEF Supersedes, At
  <1>2. PICK old : old = c.args.supersedes
    OBVIOUS
  <1>3. IsCall(c) /\ HoldsRelease(c)
    BY <1>1, CallIs
  <1>4. old \in Releases /\ c.read \in Nat
    BY <1>1, <1>2, <1>3 DEF IsCall, HoldsRelease
  <1>5. old \in ToSet(ReleaseIds) /\ old \in DOMAIN objects /\ objects[old].kind = "ReleaseRecord"
    BY <1>4 DEF Releases, Is, Stored, Store
  <1>6. PICK x : x = objects[old] /\ IsRecord(x)
    BY <1>4 DEF IInv, LineInv
  <1>7. PICK body : body = NextBody(x, c.release, c.read + 1, Now)
    OBVIOUS
  <1>8. Commit(old, body, "release.superseded")
    BY <1>1, <1>2, <1>6, <1>7 DEF Supersedes, NextBody
  <1>9. body = SupersededBody(x, c.release, c.read + 1, Now)
    BY <1>6, <1>7, RecordSuperseded, Zenon
  <1>10. x.at \in 0 .. Len(log)
    BY <1>5, <1>6 DEF ObjectsInv
  <1>11. Len(log) \in Nat
    <2>1. PICK t : t = log /\ t \in Seq(ToSet(t))
      BY DEF IInv, Typed
    <2> QED
      BY <2>1
  <1>12. SameRelease(x, body)
    BY <1>9, <1>10, <1>11 DEF SameRelease, Now, SupersededBody
  <1>13. body.kind = "ReleaseRecord" /\ body.revision \in Nat \ {0} /\ body.at = Len(log) + 1
    BY <1>4, <1>9 DEF Now, SupersededBody
  <1>14. Refers(body) /\ body.kind \notin WrittenOnce
    BY <1>13 DEF Refers, WrittenOnce
  <1>15. \A change \in Changes : change.object # old
    BY <1>5, ReleaseConstants
  <1>16. "release.superseded" \in ReleaseEvents
    BY DEF ReleaseEvents
  <1>17. Writable(old, body, "release.superseded")
    BY <1>5, <1>6, <1>12, <1>13, <1>14, <1>15, <1>16 DEF Writable
  <1> QED
    BY <1>8, <1>17

\* So every step lets the store grow.
LEMMA StoreGrows ==
    ASSUME IInv, ObjectsInv, [Next]_vars
    PROVE  Grows /\ ObjectsInv'
  <1>1. StoreStep /\ UNCHANGED edges
    BY Only
  <1>2. Typed /\ GivenInv
    BY DEF IInv
  <1>3. CASE UNCHANGED <<objects, log>>
    BY <1>1, <1>2, <1>3, SameAsBefore
  <1>4. CASE \E id, body, type : Commit(id, body, type) /\ Writable(id, body, type)
    BY <1>1, <1>2, <1>4, WriteGrows
  <1>5. CASE \E change \in Changes : record_object_revision_with_event(change)
    BY <1>2, <1>4, <1>5, ChangeWritable
  <1>6. CASE \E p \in Processes : Approves(p) \/ Supersedes(p)
    BY <1>4, <1>6, ApprovalWritable, SupersessionWritable
  <1> QED
    BY <1>1, <1>3, <1>5, <1>6 DEF StoreStep

-----------------------------------------------------------------------------
(* What was read, kept *)

\* The past does not change.
LEMMA MovedKept ==
    ASSUME Grows, NEW a \in Nat, NEW b \in 0 .. Len(log)
    PROVE  Moved(a, b)' <=> Moved(a, b)
  <1>1. \A i \in a + 1 .. b : i \in 1 .. Len(log) /\ log'[i] = log[i]
    BY DEF Grows
  <1> QED
    BY <1>1 DEF Moved

\* If nothing but releases is written, the stores are alike.
LEMMA QuietAlike ==
    ASSUME Grows, NEW a \in 0 .. Len(log), ~(Moved(a, Len(log))')
    PROVE  ~Moved(a, Len(log)) /\ Alike(Store, Store')
  <1>1. Len(log) \in Nat /\ Len(log') \in Nat /\ Len(log) <= Len(log') /\ \A i \in 1 .. Len(log) : log'[i] = log[i]
    BY DEF Grows
  <1>2. ~Moved(a, Len(log))
    <2>1. \A i \in a + 1 .. Len(log) : i \in a + 1 .. Len(log') /\ log'[i] = log[i]
      BY <1>1
    <2> QED
      BY <2>1 DEF Moved
  <1>3. ~(Len(log) < Len(log') /\ log'[Len(log) + 1].type \notin ReleaseEvents)
    <2>1. Len(log) < Len(log') => Len(log) + 1 \in a + 1 .. Len(log')
      BY <1>1
    <2> QED
      BY <2>1 DEF Moved, ReleaseEvents
  <1> QED
    BY <1>2, <1>3 DEF Grows

\* A correction that was there stays what it was, or is written anew and later.
LEMMA ShowsKept ==
    ASSUME Grows, ObjectsInv', NEW files, NEW began \in 0 .. Len(log), Shows(files, began)
    PROVE  Shows(files, began)'
  <1> SUFFICES ASSUME NEW x, x \in _read_correction_bodies(Store)', is_unresolved_critical_correction(Store, x)',
                      Touched(Store, x)' \cap exported_object_urns(files) # {}, objects'[x].at <= began
               PROVE  x \in {row.correction : row \in ReportOf(files).corrections}
    BY DEF Shows
  <1>1. Len(log) \in Nat
    BY DEF Grows
  <1>2. objects'[x].at > Len(log) \/ (x \in _read_correction_bodies(Store) /\ objects'[x] = objects[x])
    BY DEF Grows
  <1>3. ~(objects'[x].at > Len(log))
    <2>1. x \in DOMAIN objects'
      BY DEF _read_correction_bodies, Is, Stored, Store
    <2>2. objects'[x].at \in 0 .. Len(log')
      BY <2>1 DEF ObjectsInv
    <2> QED
      BY <1>1, <2>2
  <1>4. CASE x \in _read_correction_bodies(Store) /\ objects'[x] = objects[x]
    BY <1>4 DEF Shows, is_unresolved_critical_correction, Touched, Store
  <1> QED
    BY <1>2, <1>3, <1>4

\* A bundle stays consistent: it and the reviews are written once.
LEMMA ConsistentKept ==
    ASSUME Grows, Fixed(Store), Typed, Typed', NEW files, exported_object_urns(files) \subseteq Stored(Store),
           NEW began \in 0 .. Len(log), Consistent(files, began)
    PROVE  Consistent(files, began)'
  <1> PICK sections, shipped : sections = ReportOf(files) /\ shipped = exported_object_urns(files)
    OBVIOUS
  <1>1. \A v \in shipped : Is(Store, v, "VerificationResult")' => Is(Store, v, "VerificationResult") /\ objects'[v] = objects[v]
    <2> SUFFICES ASSUME NEW v \in shipped, Is(Store, v, "VerificationResult")'
                 PROVE  Is(Store, v, "VerificationResult") /\ objects'[v] = objects[v]
      OBVIOUS
    <2>1. v \in DOMAIN objects /\ objects'[v].kind = "VerificationResult"
      BY DEF Is, Stored, Store
    <2>2. objects[v].kind = "VerificationResult"
      BY <2>1 DEF Grows
    <2>3. v \notin ToSet(ReleaseIds)
      BY <2>1, <2>2 DEF Fixed, Stored, Store
    <2>4. Below(Store, Store')
      BY DEF Grows
    <2>5. objects'[v] = objects[v]
      BY <2>1, <2>2, <2>3, <2>4 DEF Below, WrittenOnce, Stored, Store
    <2> QED
      BY <2>1, <2>2, <2>5 DEF Is, Stored, Store
  <1>5. PICK W : W = ReviewsAt(began)
    OBVIOUS
  <1>4. ReviewsAt(began)' = W
    <2>1. Len(log) \in Nat /\ began \in 0 .. Len(log') /\ \A i \in 1 .. began : log'[i] = log[i]
      BY DEF Grows
    <2>2. ReviewsAt(began) = {log[i].object : i \in {j \in 1 .. began : log[j].type = "verification.recorded"}}
      BY WhatWasReviewed DEF ReviewedBefore
    <2>3. ReviewsAt(began)' = {log'[i].object : i \in {j \in 1 .. began : log'[j].type = "verification.recorded"}}
      <3>1. ReviewedBefore'
        BY WhatWasReviewed, PTL
      <3> QED
        BY <2>1, <3>1 DEF ReviewedBefore
    <2> QED
      BY <1>5, <2>1, <2>2, <2>3
  <1>6. \A v \in W : v \in DOMAIN objects /\ Is(Store, v, "VerificationResult") /\ objects'[v] = objects[v]
    <2> SUFFICES ASSUME NEW v \in W
                 PROVE  v \in DOMAIN objects /\ Is(Store, v, "VerificationResult") /\ objects'[v] = objects[v]
      OBVIOUS
    <2>1. v \in Reviews(Store)
      BY <1>5, WhatWasReviewed DEF ReviewedBefore
    <2>2. Is(Store, v, "VerificationResult")
      BY <2>1 DEF Fixed
    <2>3. v \in DOMAIN objects /\ objects[v].kind = "VerificationResult"
      BY <2>2 DEF Is, Stored, Store
    <2>4. v \notin ToSet(ReleaseIds)
      BY <2>3 DEF Fixed, Stored, Store
    <2>5. Below(Store, Store')
      BY DEF Grows
    <2>6. objects'[v] = objects[v]
      BY <2>3, <2>4, <2>5 DEF Below, WrittenOnce, Stored, Store
    <2> QED
      BY <2>2, <2>3, <2>6
  <1>7. /\ sections.evidence \subseteq shipped
        /\ {h.target : h \in sections.provenance} \subseteq shipped
        /\ \A row \in sections.claims :
              /\ [path |-> <<"ro-crate", "objects", row.claim>>, content |-> [revision |-> row.revision]] \in files
              /\ \A v \in shipped :
                    (Is(Store, v, "VerificationResult") /\ objects[v].target_id = row.claim)
                        => v \in {w.verification : w \in row.verifications}
              /\ \A v \in W : objects[v].target_id = row.claim => v \in shipped
    BY <1>5 DEF Consistent, ReviewsAt
  <1>8. /\ sections.evidence \subseteq shipped
        /\ {h.target : h \in sections.provenance} \subseteq shipped
        /\ \A row \in sections.claims :
              /\ [path |-> <<"ro-crate", "objects", row.claim>>, content |-> [revision |-> row.revision]] \in files
              /\ \A v \in shipped :
                    (Is(Store, v, "VerificationResult")' /\ objects'[v].target_id = row.claim)
                        => v \in {w.verification : w \in row.verifications}
              /\ \A v \in W : objects'[v].target_id = row.claim => v \in shipped
    BY <1>1, <1>6, <1>7
  <1> QED
    BY <1>4, <1>8 DEF Consistent, ReviewsAt

\* A command still holds what it would read.
LEMMA ReadsKept ==
    ASSUME Grows, ObjectsInv, ObjectsInv', NEW c, Reads(c)
    PROVE  Reads(c)'
  <1>1. Len(log) \in Nat /\ Len(log') \in Nat /\ Len(log) <= Len(log')
    BY DEF Grows
  <1>2. PICK S, T : S = Store /\ T = Store'
    OBVIOUS
  <1>3. Fixed(S) /\ Fixed(T) /\ Below(S, T)
    BY <1>2 DEF ObjectsInv, Grows
  <1>4. c # Idle => c.began \in 0 .. Len(log')
    BY <1>1 DEF Reads
  <1>5. ASSUME c.op \in {"report", "create"}
        PROVE  /\ resolve_closure(T, c.args.crate).ok
               /\ exported_object_urns(c.files) \subseteq resolve_closure(T, c.args.crate).objects
               /\ ~(Moved(c.began, Len(log))') =>
                     c.files = IF c.op = "report" THEN Exported(T, c.args.crate) ELSE BundleFiles(T, c.args)
               /\ c.began \in 0 .. Len(log)
    <2>1. c.began \in 0 .. Len(log)
      BY <1>5 DEF Reads, Idle
    <2>2. PICK crate, x : crate = c.args.crate /\ x = c.args
      OBVIOUS
    <2>3. resolve_closure(S, crate).ok /\ exported_object_urns(c.files) \subseteq resolve_closure(S, crate).objects
      BY <1>2, <1>5, <2>2 DEF Reads
    <2>4. resolve_closure(T, crate).ok /\ resolve_closure(S, crate).objects \subseteq resolve_closure(T, crate).objects
      BY <1>3, <2>3, ClosureGrows
    <2>5. ASSUME ~(Moved(c.began, Len(log))')
          PROVE  c.files = IF c.op = "report" THEN Exported(T, crate) ELSE BundleFiles(T, x)
      <3>1. ~Moved(c.began, Len(log)) /\ Alike(S, T)
        BY <1>2, <2>1, <2>5, QuietAlike
      <3>2. c.files = IF c.op = "report" THEN Exported(S, crate) ELSE BundleFiles(S, x)
        BY <1>2, <1>5, <2>2, <3>1 DEF Reads
      <3>3. BundleFiles(T, x) = BundleFiles(S, x) /\ Exported(T, crate) = Exported(S, crate)
        BY <1>3, <2>2, <2>3, <3>1, BundleSame
      <3> QED
        BY <3>2, <3>3
    <2> QED
      BY <2>1, <2>2, <2>3, <2>4, <2>5
  <1>6. c.op = "create" => Shows(c.files, c.began)'
    <2> SUFFICES ASSUME c.op = "create" PROVE Shows(c.files, c.began)'
      OBVIOUS
    <2>1. Shows(c.files, c.began) /\ c.began \in 0 .. Len(log)
      BY <1>5 DEF Reads
    <2>2. PICK files, began : files = c.files /\ began = c.began
      OBVIOUS
    <2>3. Shows(files, began)'
      BY <2>1, <2>2, ShowsKept
    <2> QED
      BY <2>2, <2>3
  <1> QED
    BY <1>2, <1>4, <1>5, <1>6 DEF Reads

\* A release still shows the store.
LEMMA ReleaseKept ==
    ASSUME Grows, Typed, Typed', ObjectsInv, ObjectsInv', NEW x, NEW y, ReleaseShows(x), SameRelease(x, y),
           x.at \in 0 .. Len(log), y.at \in 0 .. Len(log')
    PROVE  ReleaseShows(y)'
  <1>1. Len(log) \in Nat /\ Len(log') \in Nat /\ Len(log) <= Len(log')
    BY DEF Grows
  <1>2. PICK S, T : S = Store /\ T = Store'
    OBVIOUS
  <1>3. Fixed(S) /\ Fixed(T) /\ Below(S, T)
    BY <1>2 DEF ObjectsInv, Grows
  <1>4. PICK files, began : files = x.bundle.files /\ began = x.began
    OBVIOUS
  <1>5. y.bundle.files = files /\ y.began = began /\ y.crate = x.crate /\ y.at >= x.at
    BY <1>4 DEF SameRelease
  <1>6. began \in 0 .. x.at - 1 /\ began \in 0 .. Len(log) /\ began \in Nat /\ began \in 0 .. y.at - 1
    BY <1>1, <1>4, <1>5 DEF ReleaseShows
  <1>7. resolve_closure(S, x.crate).ok /\ resolve_closure(T, x.crate).ok
    BY <1>2, <1>3, ClosureGrows DEF ReleaseShows
  <1>8. exported_object_urns(files) \subseteq Stored(S) /\ Stored(S) \subseteq Stored(T)
    BY <1>2, <1>4 DEF ReleaseShows, Grows, Stored, Store
  <1>9. ASSUME ~(Moved(began, Len(log))') PROVE files = BundleFiles(T, y)
    <2>1. ~Moved(began, Len(log)) /\ Alike(S, T)
      BY <1>2, <1>6, <1>9, QuietAlike
    <2>2. files = BundleFiles(S, x)
      BY <1>2, <1>4, <2>1 DEF ReleaseShows
    <2>3. BundleFiles(T, x) = BundleFiles(S, x)
      BY <1>3, <1>7, <2>1, BundleSame
    <2>4. BundleFiles(T, y) = BundleFiles(T, x)
      BY DEF SameRelease, BundleFiles, ReportFiles
    <2> QED
      BY <2>2, <2>3, <2>4
  <1>10. (Moved(began, y.at - 1))' \/ Consistent(files, began)'
    <2>1. CASE Consistent(files, began)
      BY <1>2, <1>3, <1>6, <1>8, <2>1, ConsistentKept
    <2>2. CASE Moved(began, x.at - 1)
      <3>1. PICK a, b, d : a = began /\ b = x.at - 1 /\ d = y.at - 1
        OBVIOUS
      <3>2. b \in 0 .. Len(log) /\ d \in Int /\ b \in Int /\ b <= d /\ a \in Nat
        BY <1>1, <1>5, <1>6, <3>1
      <3>3. Moved(a, b)'
        BY <2>2, <3>1, <3>2, MovedKept
      <3>4. Moved(a, d)'
        BY <3>2, <3>3 DEF Moved
      <3> QED
        BY <3>1, <3>4
    <2> QED
      BY <1>4, <2>1, <2>2 DEF ReleaseShows
  <1>11. Shows(files, began)'
    BY <1>4, <1>6, ShowsKept DEF ReleaseShows
  <1> QED
    BY <1>2, <1>5, <1>6, <1>7, <1>8, <1>9, <1>10, <1>11 DEF ReleaseShows

\* A cause stays a cause.
LEMMA ToldWhyKept ==
    ASSUME Grows, ObjectsInv, NEW o, ToldWhy(o), \A r \in Releases : objects[r].began \in Nat
    PROVE  ToldWhy(o)'
  <1> SUFFICES ASSUME o.args.cmd = "verify", o.exit = 3, o.release # None, o.args.bundle_dir = None
               PROVE  /\ o.release \in Releases' /\ o.began \in 0 .. Len(log')
                      /\ (Moved(objects[o.release].began, o.began))' \/ o.args.classification # objects'[o.release].classification
    BY DEF ToldWhy
  <1>1. Len(log) \in Nat /\ Len(log') \in Nat /\ Len(log) <= Len(log')
    BY DEF Grows
  <1>2. /\ o.release \in Releases /\ o.began \in 0 .. Len(log)
        /\ Moved(objects[o.release].began, o.began) \/ o.args.classification # objects[o.release].classification
    BY DEF ToldWhy
  <1>3. o.release \in Releases' /\ SameRelease(objects[o.release], objects'[o.release])
    BY <1>2 DEF Grows
  <1>4. PICK a, b : a = objects[o.release].began /\ b = o.began
    OBVIOUS
  <1>5. Moved(a, b) => Moved(a, b)'
    BY <1>2, <1>4, MovedKept
  <1>6. objects'[o.release].began = a /\ objects'[o.release].classification = objects[o.release].classification
    BY <1>3, <1>4 DEF SameRelease
  <1> QED
    BY <1>1, <1>2, <1>3, <1>4, <1>5, <1>6

-----------------------------------------------------------------------------
(* What a step reads *)

\* The calls that follow a call.
NextWith(c, op, files) == [c EXCEPT !.op = op, !.files = files]

\* Field by field.
LEMMA NextWithIs ==
    ASSUME NEW c, IsCall(c), NEW op, NEW files
    PROVE  /\ NextWith(c, op, files).op = op /\ NextWith(c, op, files).args = c.args
           /\ NextWith(c, op, files).began = c.began /\ NextWith(c, op, files).files = files
  <1>1. PICK e : e = [c EXCEPT !.op = op]
    OBVIOUS
  <1>2. e = [op |-> op, args |-> c.args, release |-> c.release, began |-> c.began, seen |-> c.seen,
             files |-> c.files, read |-> c.read]
    BY <1>1, NextCall
  <1>3. PICK d : d = [e EXCEPT !.files = files]
    OBVIOUS
  <1>4. d.op = op /\ d.args = c.args /\ d.began = c.began /\ d.files = files
    BY <1>2, <1>3
  <1>5. NextWith(c, op, files) = d
    BY <1>1, <1>3 DEF NextWith
  <1> QED
    BY <1>4, <1>5

\* What process p goes on with it has read.
ReadsOn(p) == UNCHANGED call \/ \E c : call' = [call EXCEPT ![p] = c] /\ Reads(c)'

\* A command that ends holds nothing.
LEMMA IdleReads ==
    ASSUME NEW p, Goto(p, Idle)
    PROVE  ReadsOn(p)
  <1>1. Reads(Idle)'
    <2>1. Idle.op = "idle"
      BY DEF Idle
    <2>2. Idle.op \notin {"report", "create"} /\ Idle.op # "report" /\ Idle.op # "create"
      BY <2>1
    <2> QED
      BY <2>2 DEF Reads
  <1> QED
    BY <1>1 DEF ReadsOn, Goto

\* A command that holds no bundle yet, or none any more.
LEMMA PlainReads ==
    ASSUME NEW p, NEW d, Goto(p, d), d.op \notin {"report", "create"}, d.began \in 0 .. Len(log')
    PROVE  ReadsOn(p)
  BY DEF Reads, ReadsOn, Goto

\* The export reads what the crate reaches.
LEMMA ExportReads ==
    ASSUME IInv, BInv, NEW p \in Processes, export(p)
    PROVE  ReadsOn(p)
  <1>1. CASE Goto(p, Idle)
    BY <1>1, IdleReads
  <1>2. CASE ~Goto(p, Idle)
    <2>1. PICK c : c = call[p] /\ c.op = "export"
      BY DEF export, At
    <2>2. IsCall(c) /\ Reads(c) /\ c # Idle
      BY <2>1, CallIs DEF BInv
    <2>3. PICK S : S = Store
      OBVIOUS
    <2>4. PICK crate, files : crate = c.args.crate /\ files = Exported(S, crate)
      OBVIOUS
    <2>5. resolve_closure(S, crate).ok /\ Goto(p, NextWith(c, "report", files))
      BY <1>2, <2>1, <2>3, <2>4 DEF export, Exit, Exported, NextWith
    <2>6. UNCHANGED storeVars
      BY DEF export
    <2>7. Store' = S /\ Len(log') = Len(log)
      BY <2>3, <2>6 DEF Store, storeVars
    <2>8. PICK d : d = NextWith(c, "report", files)
      OBVIOUS
    <2>9. d.op = "report" /\ d.args = c.args /\ d.began = c.began /\ d.files = files
      <3>1. IsCall(c)
        BY <2>2
      <3>2. /\ NextWith(c, "report", files).op = "report" /\ NextWith(c, "report", files).args = c.args
            /\ NextWith(c, "report", files).began = c.began /\ NextWith(c, "report", files).files = files
        BY <3>1, NextWithIs
      <3> QED
        BY <2>4, <2>8, <3>2
    <2>10. exported_object_urns(files) = resolve_closure(S, crate).objects
      <3>1. PICK x : x = [crate |-> crate]
        OBVIOUS
      <3>2. x.crate = crate
        BY <3>1
      <3> QED
        BY <2>4, <3>2, ShippedAre
    <2>11. \A f \in files : f.path # <<"report.md">>
      BY <2>4, NoReportYet
    <2>12. c.began \in 0 .. Len(log)
      BY <2>2 DEF Reads
    <2>13. Reads(d)'
      BY <2>4, <2>5, <2>7, <2>9, <2>10, <2>11, <2>12 DEF Reads
    <2> QED
      BY <2>5, <2>8, <2>13 DEF ReadsOn, Goto
  <1> QED
    BY <1>1, <1>2

\* The report is read after the export.
LEMMA AssemblyReads ==
    ASSUME IInv, BInv, NEW p \in Processes, AssembleReport(p)
    PROVE  ReadsOn(p)
  <1>1. CASE Goto(p, Idle)
    BY <1>1, IdleReads
  <1>2. CASE ~Goto(p, Idle)
    <2>1. PICK c : c = call[p] /\ c.op = "report"
      BY DEF AssembleReport, At
    <2>2. IsCall(c) /\ Reads(c) /\ c # Idle
      BY <2>1, CallIs DEF BInv
    <2>3. PICK S : S = Store
      OBVIOUS
    <2>4. PICK x, files, closure :
             x = c.args /\ files = c.files \cup ReportFiles(S, x) /\ closure = resolve_closure(S, x.crate)
      OBVIOUS
    <2>5. Goto(p, NextWith(c, "create", files))
      BY <1>2, <2>1, <2>3, <2>4 DEF AssembleReport, Exit, NextWith
    <2>6. UNCHANGED storeVars
      BY DEF AssembleReport
    <2>7. Store' = S /\ Len(log') = Len(log) /\ objects' = objects /\ log' = log
      BY <2>3, <2>6 DEF Store, storeVars
    <2>8. PICK d : d = NextWith(c, "create", files)
      OBVIOUS
    <2>9. d.op = "create" /\ d.args = x /\ d.began = c.began /\ d.files = files
      <3>1. IsCall(c)
        BY <2>2
      <3>2. /\ NextWith(c, "create", files).op = "create" /\ NextWith(c, "create", files).args = c.args
            /\ NextWith(c, "create", files).began = c.began /\ NextWith(c, "create", files).files = files
        BY <3>1, NextWithIs
      <3> QED
        BY <2>4, <2>8, <3>2
    <2>10. closure.ok /\ exported_object_urns(c.files) \subseteq closure.objects /\ c.began \in 0 .. Len(log)
           /\ \A f \in c.files : f.path # <<"report.md">>
      BY <2>1, <2>2, <2>3, <2>4 DEF Reads
    <2>11. exported_object_urns(files) \subseteq closure.objects
      <3>1. \A f \in ReportFiles(S, x) : Len(f.path) = 1
        BY DEF ReportFiles
      <3>2. exported_object_urns(files) = exported_object_urns(c.files)
        BY <2>4, <3>1 DEF exported_object_urns
      <3> QED
        BY <2>10, <3>2
    <2>12. ReportOf(files) = ReportIn(S, x)
      BY <2>4, <2>10, ReportInBundle
    <2>13. Shows(files, c.began)
      <3> SUFFICES ASSUME NEW y \in _read_correction_bodies(S), is_unresolved_critical_correction(S, y),
                          Touched(S, y) \cap exported_object_urns(files) # {}
                   PROVE  y \in {row.correction : row \in ReportOf(files).corrections}
        BY <2>3 DEF Shows
      <3>1. Touched(S, y) \cap closure.objects # {}
        BY <2>11
      <3>2. y \in {row.correction : row \in ReportIn(S, x).corrections}
        BY <2>4, <2>10, <3>1, ReportShows
      <3> QED
        BY <2>12, <3>2
    <2>14. ~Moved(c.began, Len(log)) => files = BundleFiles(S, x)
      BY <2>1, <2>2, <2>3, <2>4 DEF Reads, BundleFiles
    <2>15. Shows(files, c.began)'
      BY <2>3, <2>7, <2>13 DEF Shows
    <2>16. (Moved(c.began, Len(log)))' <=> Moved(c.began, Len(log))
      BY <2>7 DEF Moved
    <2>17. Reads(d)'
      BY <2>4, <2>7, <2>9, <2>10, <2>11, <2>14, <2>15, <2>16 DEF Reads
    <2> QED
      BY <2>5, <2>8, <2>17 DEF ReadsOn, Goto
  <1> QED
    BY <1>1, <1>2

\* After its report is assembled a command keeps the instant it began at.
LEMMA LaterCalls ==
    ASSUME IInv, NEW p \in Processes, NEW c, c = call[p],
           \/ create(p) \/ assemble_and_release(p) \/ supersede(p) \/ create_and_supersede(p)
           \/ WriteReport(p) \/ _write_export(p),
           ~Goto(p, Idle)
    PROVE  \E d : Goto(p, d) /\ d.op \in {"finalize", "read_old", "write_old"} /\ d.began = c.began
  <1>1. c.op # "idle"
    BY DEF create, assemble_and_release, supersede, create_and_supersede, WriteReport, _write_export, At
  <1>2. IsCall(c)
    BY <1>1, CallIs
  <1>3. PICK r, read : \/ Goto(p, [c EXCEPT !.op = "finalize", !.release = r])
                       \/ Goto(p, [c EXCEPT !.op = "read_old"])
                       \/ Goto(p, [c EXCEPT !.op = "write_old", !.read = read])
    BY DEF create, assemble_and_release, supersede, create_and_supersede, WriteReport, _write_export, Exit, Place
  <1>4. CASE Goto(p, [c EXCEPT !.op = "finalize", !.release = r])
    <2>1. PICK e : e = [c EXCEPT !.op = "finalize"]
      OBVIOUS
    <2>2. e = [op |-> "finalize", args |-> c.args, release |-> c.release, began |-> c.began, seen |-> c.seen,
               files |-> c.files, read |-> c.read]
      BY <1>2, <2>1, NextCall
    <2>3. PICK d : d = [e EXCEPT !.release = r]
      OBVIOUS
    <2>4. d.op = "finalize" /\ d.began = c.began
      BY <2>2, <2>3
    <2>5. Goto(p, d)
      BY <1>4, <2>1, <2>3 DEF Goto
    <2> QED
      BY <2>4, <2>5
  <1>5. CASE Goto(p, [c EXCEPT !.op = "read_old"])
    <2>1. PICK d : d = [c EXCEPT !.op = "read_old"]
      OBVIOUS
    <2>2. d.op = "read_old" /\ d.began = c.began
      BY <1>2, <2>1, NextCall
    <2>3. Goto(p, d)
      BY <1>5, <2>1 DEF Goto
    <2> QED
      BY <2>2, <2>3
  <1>6. CASE Goto(p, [c EXCEPT !.op = "write_old", !.read = read])
    <2>1. PICK e : e = [c EXCEPT !.op = "write_old"]
      OBVIOUS
    <2>2. e = [op |-> "write_old", args |-> c.args, release |-> c.release, began |-> c.began, seen |-> c.seen,
               files |-> c.files, read |-> c.read]
      BY <1>2, <2>1, NextCall
    <2>3. PICK d : d = [e EXCEPT !.read = read]
      OBVIOUS
    <2>4. d.op = "write_old" /\ d.began = c.began
      BY <2>2, <2>3
    <2>5. Goto(p, d)
      BY <1>6, <2>1, <2>3 DEF Goto
    <2> QED
      BY <2>4, <2>5
  <1> QED
    BY <1>3, <1>4, <1>5, <1>6

\* The other steps of a command: nothing is read any more, or nothing that is kept.
LEMMA OtherReads ==
    ASSUME IInv, BInv, Grows, NEW p \in Processes,
           \/ create(p) \/ assemble_and_release(p) \/ supersede(p) \/ create_and_supersede(p)
           \/ RenderReport(p) \/ WriteReport(p) \/ _write_closure(p) \/ _write_export(p)
    PROVE  ReadsOn(p)
  <1>1. PICK c : c = call[p] /\ c.op # "idle"
    BY DEF create, assemble_and_release, supersede, create_and_supersede, RenderReport, WriteReport, _write_closure,
           _write_export, At
  <1>2. c # Idle /\ IsCall(c) /\ Reads(c)
    BY <1>1, CallIs DEF BInv
  <1>3. c.began \in 0 .. Len(log')
    <2>1. c.began \in 0 .. Len(log) /\ Len(log) \in Nat /\ Len(log') \in Nat /\ Len(log) <= Len(log')
      BY <1>2 DEF Reads, Grows
    <2> QED
      BY <2>1
  <1>4. CASE Goto(p, Idle)
    BY <1>4, IdleReads
  <1>5. CASE ~Goto(p, Idle)
    <2>1. CASE create(p) \/ assemble_and_release(p) \/ supersede(p) \/ create_and_supersede(p)
               \/ WriteReport(p) \/ _write_export(p)
      <3>1. PICK d : Goto(p, d) /\ d.op \in {"finalize", "read_old", "write_old"} /\ d.began = c.began
        BY <1>1, <1>5, <2>1, LaterCalls
      <3>2. d.op \notin {"report", "create"} /\ d.began \in 0 .. Len(log')
        BY <1>3, <3>1
      <3> QED
        BY <3>1, <3>2, PlainReads
    <2>2. ASSUME NEW op \in {"replace", "move"}, NEW files, Goto(p, NextWith(c, op, files)) PROVE ReadsOn(p)
      <3>1. PICK d : d = NextWith(c, op, files)
        OBVIOUS
      <3>2. IsCall(c)
        BY <1>2
      <3>3. NextWith(c, op, files).op = op /\ NextWith(c, op, files).began = c.began
        BY <3>2, NextWithIs
      <3>4. Goto(p, d) /\ d.op = op /\ d.began = c.began
        BY <2>2, <3>1, <3>3
      <3>5. d.op \notin {"report", "create"} /\ d.began \in 0 .. Len(log')
        BY <1>3, <3>4
      <3> QED
        BY <3>4, <3>5, PlainReads
    <2>3. CASE RenderReport(p)
      <3>1. \E files : Goto(p, NextWith(c, "replace", files))
        BY <1>1, <1>5, <2>3 DEF RenderReport, Exit, NextWith
      <3> QED
        BY <2>2, <3>1
    <2>4. CASE _write_closure(p)
      <3>1. \E files : Goto(p, NextWith(c, "move", files))
        BY <1>1, <1>5, <2>4 DEF _write_closure, Exit, NextWith
      <3> QED
        BY <2>2, <3>1
    <2> QED
      BY <2>1, <2>3, <2>4
  <1> QED
    BY <1>4, <1>5

\* A command that begins has read nothing.
LEMMA BeginsReads ==
    ASSUME Grows, NEW p \in Processes, Begins(p)
    PROVE  ReadsOn(p)
  <1>1. PICK args, code, op : Begin(p, <<"command", args>>, args, code, op) /\ op \in {"export", "render", "closure"}
    BY DEF Begins, _run_create_command, _run_supersede_command, report_main_run_command, export_main_run_command
  <1>2. CASE code # 0
    BY <1>1, <1>2 DEF Begin, ReadsOn
  <1>3. CASE code = 0
    <2>1. PICK d : d = [op |-> op, args |-> args, release |-> None, began |-> Len(log), seen |-> Len(outcomes),
                        files |-> {}, read |-> 0]
      OBVIOUS
    <2>2. d.op \notin {"report", "create"} /\ d.began = Len(log)
      BY <1>1, <2>1
    <2>3. d.began \in 0 .. Len(log')
      BY <2>2 DEF Grows
    <2>4. Goto(p, d)
      BY <1>1, <1>3, <2>1 DEF Begin
    <2> QED
      BY <2>2, <2>3, <2>4, PlainReads
  <1> QED
    BY <1>2, <1>3

\* So every command holds what it has read.
LEMMA CallsRead ==
    ASSUME IInv, BInv, [Next]_vars, Grows, ObjectsInv', Typed'
    PROVE  \A q \in Processes : Reads(call[q])'
  <1>1. UNCHANGED call \/ \E p \in Processes : ReadsOn(p)
    <2>1. ASSUME NEW change \in Changes, record_object_revision_with_event(change)
          PROVE  UNCHANGED call
      BY <2>1 DEF record_object_revision_with_event
    <2>2. ASSUME NEW p \in Processes, Asks(p)
          PROVE  UNCHANGED call
      BY <2>2, AsksFrame
    <2>3. ASSUME NEW p \in Processes, Crash(p)
          PROVE  ReadsOn(p)
      BY <2>3, IdleReads DEF Crash
    <2>4. ASSUME NEW p \in Processes, GoesOn(p)
          PROVE  ReadsOn(p)
      BY <2>4, ExportReads, AssemblyReads, OtherReads DEF GoesOn
    <2> QED
      BY <2>1, <2>2, <2>3, <2>4, Steps, BeginsReads DEF vars
  <1>2. ASSUME NEW c, Reads(c) PROVE Reads(c)'
    BY <1>2, ReadsKept DEF BInv
  <1>3. ASSUME NEW q \in Processes
        PROVE  Reads(call[q])'
    <2>1. PICK d : d = call'[q]
      OBVIOUS
    <2>2. PICK c : c = call[q] /\ Reads(c)
      BY DEF BInv
    <2>3. d = c \/ Reads(d)'
      BY <1>1, <2>1, <2>2 DEF ReadsOn, IInv, Typed
    <2>4. Reads(d)'
      BY <1>2, <2>2, <2>3
    <2> QED
      BY <2>1, <2>4
  <1> QED
    BY <1>3

-----------------------------------------------------------------------------
(* The releases of the next state *)

\* The release that is recorded shows what its command has read.
LEMMA ApprovedShows ==
    ASSUME IInv, BInv, Grows, ObjectsInv', Typed', NEW p \in Processes, Approves(p), NEW id, id = NextRelease
    PROVE  ReleaseShows(objects[id])' /\ \A r \in Releases' : r \in Releases \/ r = id
  <1> PICK S, T : S = Store /\ T = Store'
    OBVIOUS
  <1>1. PICK c : c = call[p] /\ c.op = "create"
    BY DEF Approves, At
  <1>2. NoReleaseFiles(c.files) /\ Reads(c) /\ c # Idle
    BY <1>1, CallIs DEF BInv
  <1>3. Reads(c)'
    BY <1>2, ReadsKept DEF BInv
  <1>4. PICK x, files, began : x = c.args /\ files = c.files /\ began = c.began
    OBVIOUS
  <1>5. PICK body : body = _release_record_to_stored_object(p)
    OBVIOUS
  <1>6. /\ body.kind = "ReleaseRecord" /\ body.at = Len(log) + 1 /\ body.crate = x.crate /\ body.disclosure = x.disclosure
        /\ body.classification = x.classification /\ body.began = began /\ body.bundle = compute_bundle_manifest(files)
    BY <1>1, <1>4, <1>5 DEF _release_record_to_stored_object, Now
  <1>7. body.bundle.files = files
    <2>1. {f \in files : f.path \notin EXCLUDED_FILENAMES} = files
      BY <1>2, <1>4 DEF NoReleaseFiles
    <2> QED
      BY <1>6, <2>1 DEF compute_bundle_manifest
  <1>8. Typed /\ GivenInv /\ ObjectsInv /\ Commit(id, body, "release.approved")
    BY <1>5, ApprovalWritable DEF IInv, BInv
  <1>9. /\ DOMAIN objects' = DOMAIN objects \cup {id} /\ objects'[id] = body
        /\ \A y \in DOMAIN objects : y # id => objects'[y] = objects[y]
        /\ DOMAIN log' = 1 .. Len(log) + 1
    BY <1>8, Committed
  <1>10. Len(log) \in Nat /\ Len(log') = Len(log) + 1
    <2>1. PICK t : t = log' /\ t \in Seq(ToSet(t))
      BY DEF Typed
    <2>2. DOMAIN t = 1 .. Len(t) /\ Len(t) \in Nat
      BY <2>1
    <2> QED
      BY <1>9, <2>1, <2>2 DEF Grows
  <1>11. \A r \in Releases' : r \in Releases \/ r = id
    BY <1>9 DEF Releases, Is, Stored, Store
  <1>12. began \in 0 .. Len(log) /\ began \in Nat
    BY <1>2, <1>4 DEF Reads
  <1>13. /\ resolve_closure(S, x.crate).ok /\ exported_object_urns(files) \subseteq resolve_closure(S, x.crate).objects
         /\ ~Moved(began, Len(log)) => files = BundleFiles(S, x)
    BY <1>1, <1>2, <1>4 DEF Reads
  <1>14. /\ resolve_closure(T, x.crate).ok /\ exported_object_urns(files) \subseteq resolve_closure(T, x.crate).objects
         /\ ~(Moved(began, Len(log))') => files = BundleFiles(T, x)
         /\ Shows(files, began)'
    BY <1>1, <1>3, <1>4 DEF Reads
  <1>15. BundleFiles(T, body) = BundleFiles(T, x)
    BY <1>6 DEF BundleFiles, ReportFiles
  <1>16. exported_object_urns(files) \subseteq Stored(S) /\ exported_object_urns(files) \subseteq Stored(T)
    <2>1. resolve_closure(S, x.crate).objects \subseteq Stored(S) /\ resolve_closure(T, x.crate).objects \subseteq Stored(T)
      BY <1>13, <1>14, CrateClosure
    <2> QED
      BY <1>13, <1>14, <2>1
  <1>17. Moved(began, body.at - 1)' \/ Consistent(files, began)'
    <2>1. CASE Moved(began, Len(log))
      <3>1. PICK b : b = Len(log)
        OBVIOUS
      <3>2. Moved(began, b)'
        BY <1>10, <1>12, <2>1, <3>1, MovedKept
      <3>3. body.at - 1 = b
        BY <1>6, <1>10, <3>1
      <3> QED
        BY <3>2, <3>3
    <2>2. CASE ~Moved(began, Len(log))
      <3>1. files = BundleFiles(S, x) /\ Fixed(S)
        BY <1>8, <1>13, <2>2 DEF ObjectsInv
      <3>2. Consistent(BundleFiles(Store, x), began)
        BY <1>8, <1>12, <1>13, <3>1, ConsistentNow
      <3>3. Consistent(files, began)
        BY <3>1, <3>2
      <3> QED
        BY <1>8, <1>12, <1>16, <3>1, <3>3, ConsistentKept
    <2> QED
      BY <2>1, <2>2
  <1>18. PICK y : y = body
    OBVIOUS
  <1>19. ReleaseShows(y)'
    <2>1. y.began \in 0 .. y.at - 1 /\ y.bundle.files = files /\ y.crate = x.crate /\ y.began = began
      BY <1>6, <1>7, <1>10, <1>12, <1>18
    <2> QED
      BY <1>14, <1>15, <1>16, <1>17, <1>18, <2>1 DEF ReleaseShows
  <1>20. objects'[id] = y
    BY <1>9, <1>18
  <1> QED
    BY <1>11, <1>19, <1>20

\* What a commit leaves alone.
LEMMA OthersAreOld ==
    ASSUME Typed, NEW id, NEW body, NEW type, Commit(id, body, type), NEW r \in DOMAIN objects', r # id
    PROVE  r \in DOMAIN objects /\ objects'[r] = objects[r]
  <1>1. DOMAIN objects' = DOMAIN objects \cup {id} /\ \A x \in DOMAIN objects : x # id => objects'[x] = objects[x]
    BY Committed
  <1> QED
    BY <1>1

\* Only an approval records a release.
LEMMA NewReleases ==
    ASSUME IInv, [Next]_vars, NEW r \in Releases', r \notin Releases
    PROVE  \E p \in Processes : Approves(p) /\ r = NextRelease
  <1>1. StoreStep /\ Typed /\ GivenInv /\ GivenInv'
    BY Only, InvStep DEF IInv
  <1>2. r \in ToSet(ReleaseIds) /\ r \in DOMAIN objects' /\ Is(Store, r, "ReleaseRecord")'
    BY DEF Releases, Is, Stored, Store
  <1>3. ~UNCHANGED <<objects, log>>
    BY DEF Releases, Is, Stored, Store
  <1>4. ASSUME NEW change \in Changes, record_object_revision_with_event(change)
        PROVE  FALSE
    <2>1. PICK body : Commit(change.object, body, change.type) /\ change.object \notin ToSet(ReleaseIds)
      BY <1>1, <1>4, Changed
    <2>2. PICK id : id = change.object /\ r # id
      BY <1>2, <2>1
    <2>3. r \in DOMAIN objects /\ objects'[r] = objects[r]
      BY <1>1, <1>2, <2>1, <2>2, OthersAreOld
    <2> QED
      BY <1>2, <2>3 DEF Releases, Is, Stored, Store
  <1>5. ASSUME NEW p \in Processes, Supersedes(p)
        PROVE  FALSE
    <2>1. PICK old, body : Commit(old, body, "release.superseded") /\ old = call[p].args.supersedes /\ call[p].op = "write_old"
      BY <1>5 DEF Supersedes, At
    <2>2. old \in Releases
      BY <2>1, CallIs DEF HoldsRelease
    <2>3. old \in DOMAIN objects
      BY <2>2 DEF Releases, Is, Stored, Store
    <2>4. r \in DOMAIN objects
      BY <1>1, <1>2, <2>1, <2>3, OthersAreOld
    <2> QED
      BY <1>1, <1>2, <2>4, WhichReleases DEF ReleasesAre
  <1>6. ASSUME NEW p \in Processes, Approves(p), NEW id, id = NextRelease
        PROVE  r = id
    <2>1. PICK body : Commit(id, body, "release.approved")
      BY <1>6 DEF Approves
    <2>2. r # id => r \in DOMAIN objects
      BY <1>1, <1>2, <2>1, OthersAreOld
    <2> QED
      BY <1>1, <1>2, <2>2, WhichReleases DEF ReleasesAre
  <1> QED
    BY <1>1, <1>3, <1>4, <1>5, <1>6 DEF StoreStep

\* So every release shows the store.
LEMMA ReleasesShow ==
    ASSUME IInv, BInv, [Next]_vars, Grows, ObjectsInv', Typed'
    PROVE  \A r \in Releases' : ReleaseShows(objects[r])'
  <1> SUFFICES ASSUME NEW r \in Releases'
               PROVE  ReleaseShows(objects[r])'
    OBVIOUS
  <1>1. ASSUME r \in Releases
        PROVE  ReleaseShows(objects[r])'
    <2>1. PICK x, y : x = objects[r] /\ y = objects'[r]
      OBVIOUS
    <2>2. ReleaseShows(x) /\ SameRelease(x, y)
      BY <1>1, <2>1 DEF BInv, Grows
    <2>3. r \in DOMAIN objects /\ r \in DOMAIN objects'
      BY <1>1 DEF Releases, Is, Stored, Store
    <2>4. x.at \in 0 .. Len(log)
      BY <2>1, <2>3 DEF BInv, ObjectsInv
    <2>5. y.at \in 0 .. Len(log')
      BY <2>1, <2>3 DEF ObjectsInv
    <2>6. ReleaseShows(y)'
      BY <2>2, <2>4, <2>5, ReleaseKept DEF BInv, IInv
    <2> QED
      BY <2>1, <2>6
  <1>2. CASE r \notin Releases
    <2>1. PICK p \in Processes : Approves(p) /\ r = NextRelease
      BY <1>2, NewReleases
    <2> QED
      BY <2>1, ApprovedShows
  <1> QED
    BY <1>1, <1>2

-----------------------------------------------------------------------------
(* What the callers are told *)

\* Only a verification can tell of a mismatch.
SaysWhy == UNCHANGED outcomes \/ \E o : outcomes' = Append(outcomes, o) /\ ToldWhy(o)'

\* A command that writes tells of no mismatch,
LEMMA GoesOnSays ==
    ASSUME IInv, NEW p \in Processes, GoesOn(p)
    PROVE  SaysWhy
  <1>1. PICK c : c = call[p] /\ c.op # "idle"
    BY DEF GoesOn, export, AssembleReport, create, assemble_and_release, supersede, create_and_supersede, RenderReport,
       WriteReport, _write_closure, _write_export, At
  <1>2. c.args.cmd # "verify"
    BY <1>1, CallIs DEF Writing
  <1>3. UNCHANGED outcomes \/ \E exit : Exit(p, Outcome(p, exit))
    <2>1. CASE export(p) \/ AssembleReport(p) \/ create(p) \/ assemble_and_release(p)
      BY <2>1 DEF export, AssembleReport, create, assemble_and_release, Place
    <2>2. CASE supersede(p) \/ create_and_supersede(p) \/ RenderReport(p)
      BY <2>2 DEF supersede, create_and_supersede, RenderReport
    <2>3. CASE WriteReport(p) \/ _write_closure(p) \/ _write_export(p)
      BY <2>3 DEF WriteReport, _write_closure, _write_export, Place
    <2> QED
      BY <2>1, <2>2, <2>3 DEF GoesOn
  <1>4. ASSUME NEW exit, Exit(p, Outcome(p, exit))
        PROVE  SaysWhy
    <2>1. PICK o : o = Outcome(p, exit)
      OBVIOUS
    <2>2. o.args = c.args
      BY <1>1, <2>1 DEF Outcome
    <2>3. ToldWhy(o)'
      BY <1>2, <2>2 DEF ToldWhy
    <2>4. outcomes' = Append(outcomes, o)
      BY <1>4, <2>1 DEF Exit
    <2> QED
      BY <2>3, <2>4 DEF SaysWhy
  <1> QED
    BY <1>3, <1>4 DEF SaysWhy

\* nor does one that is refused.
LEMMA BeginsSays ==
    ASSUME NEW p \in Processes, Begins(p)
    PROVE  SaysWhy
  <1>1. PICK args, code, op : Begin(p, <<"command", args>>, args, code, op) /\ args.cmd # "verify"
    BY DEF Begins, _run_create_command, _run_supersede_command, report_main_run_command, export_main_run_command
  <1>2. PICK o : o = Told(args, code, None)
    OBVIOUS
  <1>3. UNCHANGED outcomes \/ outcomes' = Append(outcomes, o)
    BY <1>1, <1>2 DEF Begin
  <1>4. o.args = args
    BY <1>2 DEF Told
  <1>5. ToldWhy(o)'
    BY <1>1, <1>4 DEF ToldWhy
  <1> QED
    BY <1>3, <1>5 DEF SaysWhy

\* A rebuild of what is in the store gives the bundle again.
LEMMA RebuildMatches ==
    ASSUME NEW S, NEW r, NEW file, S.objects[r].bundle.files = BundleFiles(S, S.objects[r]),
           file = S.objects[r].classification
    PROVE  verify_rebuild(S, r, file)
  <1>1. PICK body : body = S.objects[r]
    OBVIOUS
  <1>2. PICK x : x = [crate |-> body.crate, disclosure |-> body.disclosure, classification |-> file]
    OBVIOUS
  <1>3. x.crate = body.crate /\ x.disclosure = body.disclosure /\ x.classification = file
    BY <1>2
  <1>4. PICK files : files = Exported(S, body.crate) \cup ReportFiles(S, x)
    OBVIOUS
  <1>5. ReportFiles(S, x) = ReportFiles(S, body)
    BY <1>1, <1>3 DEF ReportFiles
  <1>6. files = body.bundle.files
    BY <1>1, <1>4, <1>5 DEF BundleFiles
  <1>7. _diff_files(files, files) = NoDiffs
    BY DEF _diff_files, NoDiffs
  <1>8. verify_rebuild(S, r, file) = (_diff_files(body.bundle.files, files) = NoDiffs)
    BY <1>1, <1>2, <1>4 DEF verify_rebuild, Exported
  <1> QED
    BY <1>6, <1>7, <1>8

\* A verification tells of a mismatch that has a cause.
LEMMA AsksSays ==
    ASSUME IInv, BInv, NEW p \in Processes, Asks(p)
    PROVE  SaysWhy
  <1>1. PICK args : _run_status_command(p, args) \/ _run_verify_command(p, args)
    BY DEF Asks
  <1>2. UNCHANGED <<objects, edges, log>>
    BY <1>1 DEF _run_status_command, _run_verify_command, storeVars
  <1>3. CASE _run_status_command(p, args)
    <2>1. PICK o : /\ outcomes' = Append(outcomes, o)
                   /\ \/ o = [args |-> args, exit |-> 0, release |-> args.release, began |-> Len(log), seen |-> Len(outcomes),
                              banner |-> status(Store, args.release)]
                      \/ o = Told(args, 3, None)
      BY <1>3 DEF _run_status_command
    <2>2. o.args = args /\ args.cmd # "verify"
      BY <1>3, <2>1 DEF Told, _run_status_command
    <2>3. ToldWhy(o)'
      BY <2>2 DEF ToldWhy
    <2> QED
      BY <2>1, <2>3 DEF SaysWhy
  <1>4. CASE _run_verify_command(p, args)
    <2>1. PICK r : r = args.release
      OBVIOUS
    <2>2. PICK known : known = Is(Store, r, "ReleaseRecord")
      OBVIOUS
    <2>3. PICK exit, release :
             /\ outcomes' = Append(outcomes, Told(args, exit, release))
             /\ release # None => known /\ release = r
             /\ (args.bundle_dir = None /\ exit = 3 /\ known) => ~verify_rebuild(Store, r, args.classification)
      BY <1>4, <2>1, <2>2 DEF _run_verify_command
    <2>4. PICK o : o = Told(args, exit, release)
      OBVIOUS
    <2>5. o.args = args /\ o.exit = exit /\ o.release = release /\ o.began = Len(log)
      BY <2>4 DEF Told
    <2>6. ASSUME exit = 3, release # None, args.bundle_dir = None
          PROVE  /\ release \in Releases /\ Len(log) \in 0 .. Len(log)
                 /\ Moved(objects[release].began, Len(log)) \/ args.classification # objects[release].classification
      <3>1. known /\ release = r
        BY <2>3, <2>6
      <3>2. r \in Releases
        <4>1. r \in DOMAIN objects /\ objects[r].kind = "ReleaseRecord" /\ Is(Store, r, "ReleaseRecord")
          BY <2>2, <3>1 DEF Is, Stored, Store
        <4> QED
          BY <4>1 DEF Releases, IInv, GivenInv
      <3>3. Len(log) \in 0 .. Len(log)
        <4>1. PICK t : t = log /\ t \in Seq(ToSet(t))
          BY DEF IInv, Typed
        <4> QED
          BY <4>1
      <3>4. ASSUME ~Moved(objects[r].began, Len(log)), args.classification = objects[r].classification
            PROVE  FALSE
        <4>1. PICK S, file : S = Store /\ file = args.classification
          OBVIOUS
        <4>2. S.objects[r] = objects[r]
          BY <4>1 DEF Store
        <4>3. S.objects[r].bundle.files = BundleFiles(S, S.objects[r])
          BY <3>2, <3>4, <4>1, <4>2 DEF BInv, ReleaseShows
        <4>4. verify_rebuild(S, r, file)
          BY <3>4, <4>1, <4>2, <4>3, RebuildMatches
        <4> QED
          BY <2>3, <2>6, <3>1, <4>1, <4>4
      <3> QED
        BY <3>1, <3>2, <3>3, <3>4
    <2>7. ToldWhy(o)
      BY <2>5, <2>6 DEF ToldWhy
    <2>8. ToldWhy(o)'
      BY <1>2, <2>7 DEF ToldWhy, Moved, Releases, Store
    <2> QED
      BY <2>3, <2>4, <2>8 DEF SaysWhy
  <1> QED
    BY <1>1, <1>3, <1>4

\* So every mismatch that was told has one.
LEMMA OutcomesSay ==
    ASSUME IInv, BInv, [Next]_vars, Grows
    PROVE  \A i \in DOMAIN outcomes' : ToldWhy(outcomes[i])'
  <1>1. SaysWhy
    <2>1. ASSUME NEW change \in Changes, record_object_revision_with_event(change)
          PROVE  UNCHANGED outcomes
      BY <2>1 DEF record_object_revision_with_event
    <2>2. ASSUME NEW p \in Processes, Crash(p)
          PROVE  UNCHANGED outcomes
      BY <2>2 DEF Crash
    <2> QED
      BY <2>1, <2>2, Steps, GoesOnSays, BeginsSays, AsksSays DEF SaysWhy, vars
  <1>2. ToldKept
    BY TypedKept
  <1>3. ASSUME NEW o, ToldWhy(o) PROVE ToldWhy(o)'
    <2>1. \A r \in Releases : objects[r].began \in Nat
      BY DEF BInv, ReleaseShows
    <2> QED
      BY <1>3, <2>1, ToldWhyKept DEF BInv
  <1> SUFFICES ASSUME NEW i \in DOMAIN outcomes'
               PROVE  ToldWhy(outcomes[i])'
    OBVIOUS
  <1>4. PICK q : q = outcomes'[i]
    OBVIOUS
  <1>5. CASE i \in DOMAIN outcomes
    <2>1. q = outcomes[i] /\ ToldWhy(q)
      BY <1>2, <1>4, <1>5 DEF ToldKept, BInv
    <2>2. ToldWhy(q)'
      BY <1>3, <2>1
    <2> QED
      BY <1>4, <2>2
  <1>6. CASE i \notin DOMAIN outcomes
    <2>1. PICK o : outcomes' = Append(outcomes, o) /\ ToldWhy(o)'
      BY <1>1, <1>6 DEF SaysWhy
    <2>2. Len(outcomes') = Len(outcomes) + 1 /\ outcomes'[Len(outcomes')] = o
      BY <2>1, Told1 DEF IInv
    <2>3. i = Len(outcomes')
      BY <1>2, <1>6, <2>2 DEF ToldKept
    <2>4. q = o
      BY <1>4, <2>2, <2>3
    <2> QED
      BY <1>4, <2>1, <2>4
  <1> QED
    BY <1>5, <1>6

-----------------------------------------------------------------------------
(* The second invariant holds *)

\* The first store shows no bundle.
LEMMA ShownFirst == Init => BInv
  <1> SUFFICES ASSUME Init
               PROVE  BInv
    OBVIOUS
  <1>1. objects = FirstStore.objects /\ edges = FirstStore.edges /\ log = FirstStore.log /\ outcomes = <<>>
    BY DEF Init
  <1>2. Typed
    BY InitHolds DEF IInv
  <1>3. \A id \in DOMAIN objects : objects[id].kind # "ReleaseRecord" /\ id \notin ToSet(ReleaseIds)
    BY <1>1, ReleaseConstants
  <1>4. PICK S : S = Store
    OBVIOUS
  <1>5. Stored(S) = DOMAIN objects /\ S.objects = objects /\ S.edges = edges /\ S.log = log
    BY <1>4 DEF Stored, Store
  <1>6. Fixed(S)
    <2>1. IsFiniteSet(Stored(S)) /\ \A id \in Stored(S) : Refers(S.objects[id]) /\ id \notin ToSet(ReleaseIds)
      BY <1>1, <1>3, <1>5, StoreConventions
    <2>2. \A e \in S.edges : e[3] \notin ToSet(ReleaseIds)
      BY <1>1, <1>5, StoreConventions
    <2>3. ASSUME NEW v \in Reviews(S) PROVE Is(S, v, "VerificationResult")
      <3>1. PICK i \in DOMAIN log : log[i].type = "verification.recorded" /\ log[i].object = v
        BY <1>5 DEF Reviews, _discover_ids_by_event_type
      <3>2. v \in DOMAIN objects
        BY <1>2, <3>1 DEF Typed
      <3>3. objects[v].kind = "VerificationResult"
        BY <1>1, <3>1, StoreConventions
      <3> QED
        BY <1>5, <3>2, <3>3 DEF Is
    <2> QED
      BY <2>1, <2>2, <2>3 DEF Fixed
  <1>7. Releases = {}
    BY <1>3 DEF Releases, Is, Stored, Store
  <1>8. \A id \in DOMAIN objects :
          /\ objects[id].revision \in Nat \ {0} /\ objects[id].at \in 0 .. Len(log)
          /\ \A change \in Changes : change.object = id => change.body.kind = objects[id].kind
    BY <1>1, StoreConventions
  <1>9. ObjectsInv
    BY <1>4, <1>6, <1>7, <1>8 DEF ObjectsInv
  <1>10. Reads(Idle)
    <2>1. Idle.op = "idle"
      BY DEF Idle
    <2>2. Idle.op \notin {"report", "create"} /\ Idle.op # "report" /\ Idle.op # "create"
      BY <2>1
    <2> QED
      BY <2>2 DEF Reads
  <1>11. \A p \in Processes : call[p] = Idle
    BY DEF Init
  <1>12. DOMAIN outcomes = {}
    BY <1>1
  <1> QED
    BY <1>7, <1>9, <1>10, <1>11, <1>12 DEF BInv

\* The second invariant is kept.
LEMMA ShownStep == IInv /\ BInv /\ [Next]_vars => BInv'
  <1> SUFFICES ASSUME IInv, BInv, [Next]_vars
               PROVE  BInv'
    OBVIOUS
  <1>1. Grows /\ ObjectsInv'
    BY StoreGrows DEF BInv
  <1>2. Typed'
    BY TypedKept
  <1>3. \A p \in Processes : Reads(call[p])'
    BY <1>1, <1>2, CallsRead
  <1>4. \A r \in Releases' : ReleaseShows(objects[r])'
    BY <1>1, <1>2, ReleasesShow
  <1>5. \A i \in DOMAIN outcomes' : ToldWhy(outcomes[i])'
    BY <1>1, OutcomesSay
  <1> QED
    BY <1>1, <1>3, <1>4, <1>5 DEF BInv

\* A correction is earlier than the assembly, later than the record, or in between.
LEMMA NothingIsOmitted == IInv /\ BInv => OmittedOnlyWhileAssembling
  <1> SUFFICES ASSUME IInv, BInv, NEW r \in Releases, NEW x \in _read_correction_bodies(Store), MustBeShown(r, x)
               PROVE  CorrectionShown(r, x) \/ (objects[r].began < objects[x].at /\ objects[x].at < objects[r].at)
    BY DEF OmittedOnlyWhileAssembling
  <1>1. /\ objects[r].status = "released" /\ is_unresolved_critical_correction(Store, x)
        /\ Touched(Store, x) \cap exported_object_urns(objects[r].bundle.files) # {}
    BY DEF MustBeShown, Shipped
  <1>2. /\ r \in DOMAIN objects /\ objects[r].kind = "ReleaseRecord"
        /\ x \in DOMAIN objects /\ objects[x].kind = "CorrectionEvent"
    BY DEF _read_correction_bodies, Releases, Is, Stored, Store
  <1>3. objects[x].at \in Nat /\ objects[r].at \in Nat /\ objects[x].at # objects[r].at
    <2>1. Len(log) \in Nat /\ objects[x].at \in 0 .. Len(log) /\ objects[r].at \in 0 .. Len(log)
      <3>1. PICK t : t = log /\ t \in Seq(ToSet(t))
        BY DEF IInv, Typed
      <3> QED
        BY <1>2, <3>1 DEF BInv, ObjectsInv
    <2>2. x # r
      BY <1>2
    <2>3. objects[x].at # objects[r].at
      BY <1>2, <2>2 DEF BInv, ObjectsInv
    <2> QED
      BY <2>1, <2>3
  <1>4. ReleaseShows(objects[r])
    BY DEF BInv
  <1>5. objects[r].began \in Nat
    BY <1>4 DEF ReleaseShows
  <1>6. CASE objects[x].at <= objects[r].began
    BY <1>1, <1>4, <1>6 DEF ReleaseShows, Shows, CorrectionShown
  <1>7. CASE objects[x].at > objects[r].at
    <2>1. x \in _affecting_corrections(Store, r)
      BY <1>1, <1>7 DEF _affecting_corrections, _correction_object_ids, Touched, Store
    <2>2. status(Store, r).affecting = _affecting_corrections(Store, r)
      BY <1>1 DEF status, compute_release_banner, Store
    <2> QED
      BY <2>1, <2>2 DEF CorrectionShown
  <1> QED
    BY <1>3, <1>5, <1>6, <1>7

LEMMA BundlesAreConsistent == BInv => BundleIsConsistentUnlessStoreMoved
  BY DEF BInv, ReleaseShows, Consistent, BundleIsConsistentUnlessStoreMoved, Shipped

LEMMA MismatchesHaveCauses == BInv => MismatchHasACause
  BY DEF BInv, ToldWhy, MismatchHasACause

-----------------------------------------------------------------------------
(* A third invariant: what public reports show *)

NoReports(files) == \A f \in files : f.path \notin ReportPaths
\* Every report among the files fails closed, for a command that was told so much.
Attests(files, disclosure, classification, began) ==
    disclosure = "public" =>
        \A f \in files : f.path \in ReportPaths => FailClosed(f.content.sections, Attested(classification), began)

\* What a command holds until its release is recorded, or its file moved.
HoldsReport(c) ==
    /\ c.op \in {"report", "move"} => NoReports(c.files)
    /\ c.op \in {"create", "replace"} => Attests(c.files, c.args.disclosure, c.args.classification, c.began)

ReleaseAttests(x) == Attests(x.bundle.files, x.disclosure, x.classification, x.began)

\* A directory with a report is a release's, a file was written by the last who told so.
WrittenLast(path, i) ==
    /\ i \in DOMAIN outcomes /\ WroteReport(outcomes[i], path)
    /\ \A j \in DOMAIN outcomes : WroteReport(outcomes[j], path) => j <= i
DirIs(x) == x.kind = "dir" => NoReports(x.files) \/ \E f \in x.files : f.path = <<"release-record">>
AttestsAs(files, o) ==
    o.began \in 0 .. Len(log) /\ Attests(files, o.args.disclosure, o.args.classification, o.began)
FileIs(path) == disk[path].kind = "file" => \E i : WrittenLast(path, i) /\ AttestsAs(disk[path].files, outcomes[i])

DInv ==
    /\ \A p \in Processes : HoldsReport(call[p])
    /\ \A r \in Releases : ReleaseAttests(objects[r])
    /\ \A path \in Outputs : DirIs(disk[path]) /\ FileIs(path)

\* What is shown in public is attested.
LEMMA RedactPublic ==
    ASSUME NEW attested, NEW attestation, attestation = _attestation_for("public", attested),
           NEW ids, _redact(ids, attestation) = "shown"
    PROVE  ids \subseteq attested
  <1>1. attestation.public = attested /\ ~attestation.everything
    BY DEF _attestation_for
  <1>2. _all_attested_public(ids, attestation)
    BY DEF _redact
  <1> QED
    BY <1>1, <1>2 DEF _all_attested_public

\* Findings are redacted with their review and its claim.
LEMMA FindingsOf ==
    ASSUME NEW S, NEW c, NEW ids, NEW attestation, NEW v \in _build_verifications_for_claim(S, c, ids, attestation)
    PROVE  v.findings = _redact({v.verification, c}, attestation)
  <1> DEFINE matching == {w \in ids : Is(S, w, "VerificationResult") /\ S.objects[w].target_id = c}
             Differs(w) == \E u \in matching : S.objects[u].recommendation # S.objects[w].recommendation
             Row(w) == [verification |-> w, recommendation |-> S.objects[w].recommendation,
                        disagreement |-> Differs(w), findings |-> _redact({w, c}, attestation)]
  <1>1. _build_verifications_for_claim(S, c, ids, attestation) = {Row(w) : w \in matching}
    BY DEF _build_verifications_for_claim
  <1> HIDE DEF matching, Differs
  <1>2. PICK w : v = Row(w)
    BY <1>1
  <1> QED
    BY <1>2

\* The corrections of a claim that were in force at an instant.
Older(c, began) == {x \in unresolved_critical_correction_ids_for_claim(Store, c) : objects[x].at <= began}

\* Later, no others are.
LEMMA OlderKept ==
    ASSUME Grows, ObjectsInv', NEW began \in 0 .. Len(log), NEW c
    PROVE  Older(c, began)' \subseteq Older(c, began)
  <1> SUFFICES ASSUME NEW x, x \in Older(c, began)'
               PROVE  x \in Older(c, began)
    OBVIOUS
  <1>1. /\ x \in _read_correction_bodies(Store)' /\ is_unresolved_critical_correction(Store, x)'
        /\ c \in Touched(Store, x)' /\ objects'[x].at <= began
    BY DEF Older, unresolved_critical_correction_ids_for_claim
  <1>2. objects'[x].at > Len(log) \/ (x \in _read_correction_bodies(Store) /\ objects'[x] = objects[x])
    BY <1>1 DEF Grows
  <1>3. x \in DOMAIN objects'
    BY <1>1 DEF _read_correction_bodies, Is, Stored, Store
  <1>4. objects'[x].at \in Nat /\ Len(log) \in Nat
    BY <1>3 DEF ObjectsInv, Grows
  <1>5. x \in _read_correction_bodies(Store) /\ objects'[x] = objects[x]
    BY <1>1, <1>2, <1>4
  <1> QED
    BY <1>1, <1>5 DEF Older, unresolved_critical_correction_ids_for_claim, is_unresolved_critical_correction, Touched, Store

LEMMA FailClosedKept ==
    ASSUME Grows, ObjectsInv', NEW sections, NEW attested, NEW began \in 0 .. Len(log), FailClosed(sections, attested, began)
    PROVE  FailClosed(sections, attested, began)'
  <1>1. \A c : Older(c, began)' \subseteq Older(c, began)
    BY OlderKept
  <1>2. \A row \in sections.claims :
            Older(row.claim, began) \subseteq row.unresolved \cap {x.correction : x \in sections.corrections}
    BY DEF FailClosed, Older
  <1>3. \A row \in sections.claims :
            Older(row.claim, began)' \subseteq row.unresolved \cap {x.correction : x \in sections.corrections}
    BY <1>1, <1>2
  <1> QED
    BY <1>3 DEF FailClosed, Older

LEMMA AttestsKept ==
    ASSUME Grows, ObjectsInv', NEW files, NEW disclosure, NEW classification, NEW began \in 0 .. Len(log),
           Attests(files, disclosure, classification, began)
    PROVE  Attests(files, disclosure, classification, began)'
  <1> SUFFICES ASSUME disclosure = "public", NEW f \in files, f.path \in ReportPaths
               PROVE  FailClosed(f.content.sections, Attested(classification), began)'
    BY DEF Attests
  <1>1. PICK sections, attested : sections = f.content.sections /\ attested = Attested(classification)
    OBVIOUS
  <1>2. FailClosed(sections, attested, began)
    BY <1>1 DEF Attests
  <1>3. FailClosed(sections, attested, began)'
    BY <1>2, FailClosedKept
  <1> QED
    BY <1>1, <1>3

\* A public report on what its closure holds fails closed, in the store it was read from.
LEMMA ReportFailsClosed ==
    ASSUME NEW S, S = Store, NEW sections, NEW crate, NEW claims, NEW closure, NEW rows, NEW attested, NEW attestation,
           attestation = _attestation_for("public", attested), claims \subseteq closure.objects,
           SectionsFrom(sections, S, crate, claims, closure, rows, attestation), NEW began
    PROVE  FailClosed(sections, attested, began)
  <1>1. ASSUME NEW row \in sections.claims
        PROVE  /\ {x \in unresolved_critical_correction_ids_for_claim(Store, row.claim) : objects[x].at <= began}
                      \subseteq row.unresolved \cap {x.correction : x \in sections.corrections}
               /\ row.assertion = "shown" => {row.claim} \cup row.unresolved \subseteq attested
               /\ row.known_unknowns.text = "shown" => row.claim \in attested
               /\ \A v \in row.verifications : v.findings = "shown" => {v.verification, row.claim} \subseteq attested
    <2>1. PICK c \in claims : row = _build_claim_row(S, c, closure, rows, attestation)
      BY DEF SectionsFrom
    <2>2. PICK unresolved : unresolved = {r.correction : r \in {q \in rows : c \in q.touched}}
      OBVIOUS
    <2>3. /\ row.claim = c /\ row.unresolved = unresolved
          /\ row.assertion = _redact({c} \cup unresolved, attestation)
          /\ row.known_unknowns = _build_known_unknown_rows(c, attestation)
          /\ row.verifications = _build_verifications_for_claim(S, c, closure.objects, attestation)
      BY <2>1, <2>2 DEF _build_claim_row, build_public_claim_row
    <2>4. ASSUME NEW x \in unresolved_critical_correction_ids_for_claim(S, c)
          PROVE  x \in unresolved /\ x \in {q.correction : q \in rows}
      <3>1. x \in _read_correction_bodies(S) /\ is_unresolved_critical_correction(S, x) /\ c \in Touched(S, x)
        BY DEF unresolved_critical_correction_ids_for_claim
      <3>2. PICK q : q = build_public_correction_row(S, x, attestation)
        OBVIOUS
      <3>3. q.correction = x /\ q.touched = Touched(S, x) /\ (q.unresolved = is_unresolved_critical_correction(S, x))
        BY <3>2 DEF build_public_correction_row
      <3>4. q \in build_public_correction_view(S, attestation)
        BY <3>1, <3>2, <3>3 DEF build_public_correction_view
      <3>5. q \in rows
        BY <3>1, <3>3, <3>4 DEF SectionsFrom, _corrections_for_closure
      <3> QED
        BY <2>2, <3>1, <3>3, <3>5
    <2>5. row.assertion = "shown" => {row.claim} \cup row.unresolved \subseteq attested
      BY <2>3, RedactPublic
    <2>6. row.known_unknowns.text = "shown" => row.claim \in attested
      <3>1. row.known_unknowns.text = _redact({c}, attestation)
        BY <2>3 DEF _build_known_unknown_rows
      <3> QED
        BY <2>3, <3>1, RedactPublic
    <2>7. ASSUME NEW v \in row.verifications, v.findings = "shown"
          PROVE  {v.verification, row.claim} \subseteq attested
      <3>1. v.findings = _redact({v.verification, c}, attestation)
        BY <2>3, FindingsOf
      <3> QED
        BY <2>3, <2>7, <3>1, RedactPublic
    <2> QED
      BY <2>3, <2>4, <2>5, <2>6, <2>7 DEF SectionsFrom
  <1>2. ASSUME NEW x \in sections.corrections, x.reason = "shown"
        PROVE  {x.correction} \cup x.touched \subseteq attested
    <2>1. PICK y : x = build_public_correction_row(S, y, attestation)
      BY DEF SectionsFrom, _corrections_for_closure, build_public_correction_view
    <2>2. x.reason = _redact({x.correction} \cup x.touched, attestation)
      BY <2>1 DEF build_public_correction_row
    <2> QED
      BY <1>2, <2>2, RedactPublic
  <1>3. ASSUME NEW u \in sections.known_unknowns, u.text = "shown"
        PROVE  u.about \in attested
    <2>1. PICK k \in crate : u = _build_known_unknown_rows(k, attestation)
      BY DEF SectionsFrom
    <2>2. u.about = k /\ u.text = _redact({k}, attestation)
      BY <2>1 DEF _build_known_unknown_rows
    <2> QED
      BY <1>3, <2>2, RedactPublic
  <1> QED
    BY <1>1, <1>2, <1>3 DEF FailClosed

\* A report on a crate,
LEMMA CrateReport ==
    ASSUME NEW S, S = Store, Fixed(S), NEW crate, NEW attested, NEW began, resolve_closure(S, crate).ok
    PROVE  FailClosed(render(S, crate, "public", attested, {}).report, attested, began)
  <1>1. PICK closure : closure = resolve_closure(S, crate) /\ closure.ok
    OBVIOUS
  <1>2. PICK attestation : attestation = _attestation_for("public", attested)
    OBVIOUS
  <1>3. PICK rows : rows = _corrections_for_closure(build_public_correction_view(S, attestation), closure)
    OBVIOUS
  <1>4. PICK claims, disclosure : claims = S.objects[crate].proposed_claims /\ disclosure = "public"
    OBVIOUS
  <1>5. claims \subseteq closure.objects
    BY <1>1, <1>4, ClosureIsPlain
  <1>6. PICK sections : sections = build_report(S, {crate}, closure, rows, disclosure, attested, {})
    OBVIOUS
  <1>7. claims = IF {crate} # {} THEN UNION {S.objects[k].proposed_claims : k \in {crate}} ELSE ClaimsIn(S, closure.objects)
    BY <1>4
  <1>8. SectionsFrom(sections, S, {crate}, claims, closure, rows, attestation)
    BY <1>2, <1>3, <1>4, <1>6, <1>7, SectionsBuilt
  <1>9. FailClosed(sections, attested, began)
    BY <1>2, <1>5, <1>8, ReportFailsClosed
  <1>10. render(S, crate, disclosure, attested, {}).report = sections
    BY <1>1, <1>2, <1>3, <1>4, <1>6 DEF render
  <1> QED
    BY <1>4, <1>9, <1>10

\* and one on claims.
LEMMA ClaimsReport ==
    ASSUME NEW S, S = Store, NEW asked, NEW attested, NEW began, resolve_closure_from_claims(S, asked).ok
    PROVE  FailClosed(render_from_claims(S, asked, "public", attested).report, attested, began)
  <1>1. PICK closure : closure = resolve_closure_from_claims(S, asked) /\ closure.ok
    OBVIOUS
  <1>2. PICK attestation : attestation = _attestation_for("public", attested)
    OBVIOUS
  <1>3. PICK rows : rows = _corrections_for_closure(build_public_correction_view(S, attestation), closure)
    OBVIOUS
  <1>4. PICK claims, disclosure, crate : claims = ClaimsIn(S, closure.objects) /\ disclosure = "public" /\ crate = {}
    OBVIOUS
  <1>5. claims \subseteq closure.objects
    BY <1>4 DEF ClaimsIn
  <1>6. PICK sections : sections = build_report(S, crate, closure, rows, disclosure, attested, {})
    OBVIOUS
  <1>7. claims = IF crate # {} THEN UNION {S.objects[k].proposed_claims : k \in crate} ELSE ClaimsIn(S, closure.objects)
    BY <1>4
  <1>8. SectionsFrom(sections, S, crate, claims, closure, rows, attestation)
    BY <1>2, <1>3, <1>4, <1>6, <1>7, SectionsBuilt
  <1>9. FailClosed(sections, attested, began)
    BY <1>2, <1>5, <1>8, ReportFailsClosed
  <1>10. render_from_claims(S, asked, disclosure, attested).report = sections
    BY <1>1, <1>2, <1>3, <1>4, <1>6 DEF render_from_claims
  <1> QED
    BY <1>4, <1>9, <1>10

\* What process p goes on with fails closed.
HoldsOn(p) == UNCHANGED call \/ \E c : call' = [call EXCEPT ![p] = c] /\ HoldsReport(c)'

LEMMA IdleHoldsOn ==
    ASSUME NEW p, Goto(p, Idle)
    PROVE  HoldsOn(p)
  <1>1. Idle.op = "idle"
    BY DEF Idle
  <1>2. Idle.op \notin {"report", "move"} /\ Idle.op \notin {"create", "replace"}
    BY <1>1
  <1>3. HoldsReport(Idle)'
    BY <1>2 DEF HoldsReport
  <1> QED
    BY <1>3 DEF HoldsOn, Goto

LEMMA PlainHoldsOn ==
    ASSUME NEW p, NEW d, Goto(p, d), d.op \notin {"report", "move", "create", "replace"}
    PROVE  HoldsOn(p)
  BY DEF HoldsReport, HoldsOn, Goto

\* A command goes on with files that have no report,
LEMMA SilentHoldsOn ==
    ASSUME NEW p, NEW c, IsCall(c), NEW op \in {"report", "move"}, NEW files, NoReports(files), Goto(p, NextWith(c, op, files))
    PROVE  HoldsOn(p)
  <1>1. PICK d : d = NextWith(c, op, files)
    OBVIOUS
  <1>2. NextWith(c, op, files).op = op /\ NextWith(c, op, files).files = files
    BY NextWithIs
  <1>3. d.op = op /\ d.files = files
    BY <1>1, <1>2
  <1>4. HoldsReport(d)'
    BY <1>3 DEF HoldsReport
  <1> QED
    BY <1>1, <1>4 DEF HoldsOn, Goto

\* or with a report that it has read.
LEMMA AttestsOn ==
    ASSUME Grows, ObjectsInv', NEW p, NEW c, IsCall(c), c.began \in 0 .. Len(log), NEW op \in {"create", "replace"}, NEW files,
           Attests(files, c.args.disclosure, c.args.classification, c.began), Goto(p, NextWith(c, op, files))
    PROVE  HoldsOn(p)
  <1>1. PICK d : d = NextWith(c, op, files)
    OBVIOUS
  <1>2. /\ NextWith(c, op, files).op = op /\ NextWith(c, op, files).args = c.args
        /\ NextWith(c, op, files).began = c.began /\ NextWith(c, op, files).files = files
    BY NextWithIs
  <1>3. d.op = op /\ d.args = c.args /\ d.began = c.began /\ d.files = files
    BY <1>1, <1>2
  <1>4. PICK disclosure, classification, began :
            disclosure = c.args.disclosure /\ classification = c.args.classification /\ began = c.began
    OBVIOUS
  <1>5. Attests(files, disclosure, classification, began)'
    BY <1>4, AttestsKept
  <1>6. HoldsReport(d)'
    BY <1>3, <1>4, <1>5 DEF HoldsReport
  <1> QED
    BY <1>1, <1>6 DEF HoldsOn, Goto

\* An export that is not in a bundle has no report either.
LEMMA NoReportExported ==
    ASSUME NEW S, NEW crate, NEW closure
    PROVE  NoReports(build_export(S, crate, closure))
  <1> SUFFICES ASSUME NEW f \in build_export(S, crate, closure)
               PROVE  f.path \notin ReportPaths
    BY DEF NoReports
  <1>1. \/ \E id : f.path = <<"objects", id>>
        \/ \E a : f.path = <<"artifacts", a>>
        \/ f.path = <<"ro-crate-metadata">>
    BY DEF build_export, build_export_plan
  <1>2. ASSUME NEW x, NEW y PROVE <<x, y>> \notin ReportPaths
    <2>1. Len(<<x, y>>) = 2 /\ Len(<<"report.md">>) = 1 /\ Len(<<"report.html">>) = 1
      OBVIOUS
    <2> QED
      BY <2>1 DEF ReportPaths
  <1>3. <<"ro-crate-metadata">> \notin ReportPaths
    BY DEF ReportPaths
  <1> QED
    BY <1>1, <1>2, <1>3

LEMMA ExportHoldsOn ==
    ASSUME IInv, NEW p \in Processes, export(p) \/ _write_closure(p)
    PROVE  HoldsOn(p)
  <1>1. CASE Goto(p, Idle)
    BY <1>1, IdleHoldsOn
  <1>2. CASE ~Goto(p, Idle)
    <2>1. PICK c : c = call[p] /\ c.op # "idle"
      BY DEF export, _write_closure, At
    <2>2. IsCall(c)
      BY <2>1, CallIs
    <2>3. CASE export(p)
      <3>1. PICK files : files = Exported(Store, c.args.crate)
        OBVIOUS
      <3>2. Goto(p, NextWith(c, "report", files))
        BY <1>2, <2>1, <2>3, <3>1 DEF export, Exit, Exported, NextWith
      <3>3. NoReports(files)
        BY <3>1, NoReportYet DEF NoReports, ReportPaths
      <3> QED
        BY <2>2, <3>2, <3>3, SilentHoldsOn
    <2>4. CASE _write_closure(p)
      <3>1. PICK files : files = build_export(Store, c.args.crate, ExportClosure(c.args))
        OBVIOUS
      <3>2. Goto(p, NextWith(c, "move", files))
        BY <1>2, <2>1, <2>4, <3>1 DEF _write_closure, Exit, NextWith
      <3>3. NoReports(files)
        BY <3>1, NoReportExported
      <3> QED
        BY <2>2, <3>2, <3>3, SilentHoldsOn
    <2> QED
      BY <2>3, <2>4
  <1> QED
    BY <1>1, <1>2

LEMMA AssemblyHoldsOn ==
    ASSUME IInv, BInv, DInv, Grows, ObjectsInv', NEW p \in Processes, AssembleReport(p)
    PROVE  HoldsOn(p)
  <1>1. CASE Goto(p, Idle)
    BY <1>1, IdleHoldsOn
  <1>2. CASE ~Goto(p, Idle)
    <2>1. PICK c : c = call[p] /\ c.op = "report"
      BY DEF AssembleReport, At
    <2>2. IsCall(c) /\ Reads(c) /\ c # Idle /\ HoldsReport(c)
      BY <2>1, CallIs DEF BInv, DInv
    <2>3. PICK S : S = Store
      OBVIOUS
    <2>4. PICK x, files : x = c.args /\ files = c.files \cup ReportFiles(S, x)
      OBVIOUS
    <2>5. Goto(p, NextWith(c, "create", files))
      BY <1>2, <2>1, <2>3, <2>4 DEF AssembleReport, Exit, NextWith
    <2>6. resolve_closure(S, x.crate).ok /\ c.began \in 0 .. Len(log) /\ NoReports(c.files) /\ Fixed(S)
      BY <2>1, <2>2, <2>3, <2>4 DEF Reads, HoldsReport, BInv, ObjectsInv
    <2>7. Attests(files, x.disclosure, x.classification, c.began)
      <3> SUFFICES ASSUME x.disclosure = "public", NEW f \in files, f.path \in ReportPaths
                   PROVE  FailClosed(f.content.sections, Attested(x.classification), c.began)
        BY DEF Attests
      <3>1. f \in ReportFiles(S, x)
        BY <2>4, <2>6 DEF NoReports
      <3>2. f.content.sections = ReportIn(S, x)
        BY <3>1 DEF ReportFiles, ReportIn, render_markdown, render_html
      <3>3. PICK crate, attested, began : crate = x.crate /\ attested = Attested(x.classification) /\ began = c.began
        OBVIOUS
      <3>4. FailClosed(render(S, crate, "public", attested, {}).report, attested, began)
        BY <2>3, <2>6, <3>3, CrateReport
      <3> QED
        BY <3>2, <3>3, <3>4 DEF ReportIn
    <2> QED
      BY <2>2, <2>4, <2>5, <2>6, <2>7, AttestsOn
  <1> QED
    BY <1>1, <1>2

LEMMA RenderHoldsOn ==
    ASSUME IInv, BInv, Grows, ObjectsInv', NEW p \in Processes, RenderReport(p)
    PROVE  HoldsOn(p)
  <1>1. CASE Goto(p, Idle)
    BY <1>1, IdleHoldsOn
  <1>2. CASE ~Goto(p, Idle)
    <2>1. PICK c : c = call[p] /\ c.op = "render"
      BY DEF RenderReport, At
    <2>2. IsCall(c) /\ Reads(c) /\ c # Idle
      BY <2>1, CallIs DEF BInv
    <2>3. PICK S : S = Store
      OBVIOUS
    <2>4. PICK disclosure, attested : disclosure = c.args.disclosure /\ attested = Attested(c.args.classification)
      OBVIOUS
    <2>5. PICK rendered : rendered = IF c.args.crate # None THEN render(S, c.args.crate, disclosure, attested, {})
                                     ELSE render_from_claims(S, c.args.claims, disclosure, attested)
      OBVIOUS
    <2>6. PICK files : files = {[path |-> <<"report.md">>, content |-> render_markdown(rendered.report)]}
      OBVIOUS
    <2>7. rendered.ok /\ Goto(p, NextWith(c, "replace", files))
      BY <1>2, <2>1, <2>3, <2>4, <2>5, <2>6 DEF RenderReport, Exit, NextWith
    <2>8. c.began \in 0 .. Len(log) /\ Fixed(S)
      BY <2>2, <2>3 DEF Reads, BInv, ObjectsInv
    <2>9. ASSUME disclosure = "public"
          PROVE  FailClosed(rendered.report, attested, c.began)
      <3>1. PICK crate, asked, began : crate = c.args.crate /\ asked = c.args.claims /\ began = c.began
        OBVIOUS
      <3>2. CASE crate # None
        <4>1. rendered = render(S, crate, "public", attested, {})
          BY <2>5, <2>9, <3>1, <3>2
        <4>2. resolve_closure(S, crate).ok
          BY <2>7, <4>1 DEF render
        <4> QED
          BY <2>3, <2>8, <3>1, <4>1, <4>2, CrateReport
      <3>3. CASE crate = None
        <4>1. rendered = render_from_claims(S, asked, "public", attested)
          BY <2>5, <2>9, <3>1, <3>3
        <4>2. resolve_closure_from_claims(S, asked).ok
          BY <2>7, <4>1 DEF render_from_claims
        <4> QED
          BY <2>3, <3>1, <4>1, <4>2, ClaimsReport
      <3> QED
        BY <3>2, <3>3
    <2>10. Attests(files, c.args.disclosure, c.args.classification, c.began)
      <3>1. \A f \in files : f.content.sections = rendered.report
        BY <2>6 DEF render_markdown
      <3> QED
        BY <2>4, <2>9, <3>1 DEF Attests
    <2> QED
      BY <2>2, <2>7, <2>8, <2>10, AttestsOn
  <1> QED
    BY <1>1, <1>2

LEMMA LaterHoldsOn ==
    ASSUME IInv, NEW p \in Processes,
           \/ create(p) \/ assemble_and_release(p) \/ supersede(p) \/ create_and_supersede(p)
           \/ WriteReport(p) \/ _write_export(p)
    PROVE  HoldsOn(p)
  <1>1. CASE Goto(p, Idle)
    BY <1>1, IdleHoldsOn
  <1>2. CASE ~Goto(p, Idle)
    <2>1. PICK c : c = call[p]
      OBVIOUS
    <2>2. PICK d : Goto(p, d) /\ d.op \in {"finalize", "read_old", "write_old"}
      BY <1>2, <2>1, LaterCalls
    <2>3. d.op \notin {"report", "move", "create", "replace"}
      BY <2>2
    <2> QED
      BY <2>2, <2>3, PlainHoldsOn
  <1> QED
    BY <1>1, <1>2

LEMMA BeginsHoldsOn ==
    ASSUME NEW p \in Processes, Begins(p)
    PROVE  HoldsOn(p)
  <1>1. PICK args, code, op : Begin(p, <<"command", args>>, args, code, op) /\ op \in {"export", "render", "closure"}
    BY DEF Begins, _run_create_command, _run_supersede_command, report_main_run_command, export_main_run_command
  <1>2. CASE code # 0
    BY <1>1, <1>2 DEF Begin, HoldsOn
  <1>3. CASE code = 0
    <2>1. PICK d : d = [op |-> op, args |-> args, release |-> None, began |-> Len(log), seen |-> Len(outcomes),
                        files |-> {}, read |-> 0]
      OBVIOUS
    <2>2. d.op \notin {"report", "move", "create", "replace"}
      BY <1>1, <2>1
    <2>3. Goto(p, d)
      BY <1>1, <1>3, <2>1 DEF Begin
    <2> QED
      BY <2>2, <2>3, PlainHoldsOn
  <1> QED
    BY <1>2, <1>3

\* So every command holds a report that fails closed.
LEMMA CallsHoldReports ==
    ASSUME IInv, BInv, DInv, [Next]_vars, Grows, ObjectsInv'
    PROVE  \A q \in Processes : HoldsReport(call[q])'
  <1>1. UNCHANGED call \/ \E p \in Processes : HoldsOn(p)
    <2>1. ASSUME NEW change \in Changes, record_object_revision_with_event(change)
          PROVE  UNCHANGED call
      BY <2>1 DEF record_object_revision_with_event
    <2>2. ASSUME NEW p \in Processes, Asks(p)
          PROVE  UNCHANGED call
      BY <2>2, AsksFrame
    <2>3. ASSUME NEW p \in Processes, Crash(p)
          PROVE  HoldsOn(p)
      BY <2>3, IdleHoldsOn DEF Crash
    <2>4. ASSUME NEW p \in Processes, GoesOn(p)
          PROVE  HoldsOn(p)
      BY <2>4, ExportHoldsOn, AssemblyHoldsOn, RenderHoldsOn, LaterHoldsOn DEF GoesOn
    <2> QED
      BY <2>1, <2>2, <2>3, <2>4, Steps, BeginsHoldsOn DEF vars
  <1>2. ASSUME NEW c, Reads(c), HoldsReport(c), c # Idle PROVE HoldsReport(c)'
    <2>1. PICK files, disclosure, classification, began :
              /\ files = c.files /\ began = c.began
              /\ disclosure = c.args.disclosure /\ classification = c.args.classification
      OBVIOUS
    <2>2. began \in 0 .. Len(log)
      BY <1>2, <2>1 DEF Reads
    <2>3. c.op \in {"create", "replace"} => Attests(files, disclosure, classification, began)
      BY <1>2, <2>1 DEF HoldsReport
    <2>4. c.op \in {"create", "replace"} => Attests(files, disclosure, classification, began)'
      BY <2>2, <2>3, AttestsKept
    <2> QED
      BY <1>2, <2>1, <2>4 DEF HoldsReport
  <1>3. HoldsReport(Idle)'
    <2>1. Idle.op = "idle"
      BY DEF Idle
    <2>2. Idle.op \notin {"report", "move"} /\ Idle.op \notin {"create", "replace"}
      BY <2>1
    <2> QED
      BY <2>2 DEF HoldsReport
  <1>4. ASSUME NEW q \in Processes
        PROVE  HoldsReport(call[q])'
    <2>1. PICK d : d = call'[q]
      OBVIOUS
    <2>2. PICK c : c = call[q] /\ Reads(c) /\ HoldsReport(c)
      BY DEF BInv, DInv
    <2>3. d = c \/ HoldsReport(d)'
      BY <1>1, <2>1, <2>2 DEF HoldsOn, IInv, Typed
    <2>4. HoldsReport(d)'
      BY <1>2, <1>3, <2>2, <2>3
    <2> QED
      BY <2>1, <2>4
  <1> QED
    BY <1>4

\* The release that is recorded has its command's files,
LEMMA ApprovedAttests ==
    ASSUME IInv, BInv, DInv, Grows, ObjectsInv', NEW p \in Processes, Approves(p), NEW id, id = NextRelease
    PROVE  ReleaseAttests(objects[id])'
  <1>1. PICK c : c = call[p] /\ c.op = "create"
    BY DEF Approves, At
  <1>2. NoReleaseFiles(c.files) /\ Reads(c) /\ c # Idle /\ HoldsReport(c)
    BY <1>1, CallIs DEF BInv, DInv
  <1>3. PICK files, disclosure, classification, began :
            /\ files = c.files /\ began = c.began
            /\ disclosure = c.args.disclosure /\ classification = c.args.classification
    OBVIOUS
  <1>4. began \in 0 .. Len(log) /\ Attests(files, disclosure, classification, began)
    BY <1>1, <1>2, <1>3 DEF Reads, HoldsReport
  <1>5. PICK body : body = _release_record_to_stored_object(p)
    OBVIOUS
  <1>6. /\ body.disclosure = disclosure /\ body.classification = classification /\ body.began = began
        /\ body.bundle = compute_bundle_manifest(files)
    BY <1>1, <1>3, <1>5 DEF _release_record_to_stored_object
  <1>7. body.bundle.files = files
    <2>1. {f \in files : f.path \notin EXCLUDED_FILENAMES} = files
      BY <1>2, <1>3 DEF NoReleaseFiles
    <2> QED
      BY <1>6, <2>1 DEF compute_bundle_manifest
  <1>8. Typed /\ Commit(id, body, "release.approved")
    BY <1>5 DEF IInv, Approves
  <1>9. objects'[id] = body
    BY <1>8, Committed
  <1>10. Attests(files, disclosure, classification, began)'
    BY <1>4, AttestsKept
  <1> QED
    BY <1>6, <1>7, <1>9, <1>10 DEF ReleaseAttests

\* and the others keep theirs.
LEMMA ReleasesAttest ==
    ASSUME IInv, BInv, DInv, [Next]_vars, Grows, ObjectsInv'
    PROVE  \A r \in Releases' : ReleaseAttests(objects[r])'
  <1> SUFFICES ASSUME NEW r \in Releases'
               PROVE  ReleaseAttests(objects[r])'
    OBVIOUS
  <1>1. CASE r \in Releases
    <2>1. PICK x, y : x = objects[r] /\ y = objects'[r]
      OBVIOUS
    <2>2. ReleaseAttests(x) /\ ReleaseShows(x) /\ SameRelease(x, y)
      BY <1>1, <2>1 DEF BInv, DInv, Grows
    <2>3. PICK files, disclosure, classification, began :
              files = x.bundle.files /\ began = x.began /\ disclosure = x.disclosure /\ classification = x.classification
      OBVIOUS
    <2>4. r \in DOMAIN objects
      BY <1>1 DEF Releases, Is, Stored, Store
    <2>5. x.at \in 0 .. Len(log) /\ began \in 0 .. x.at - 1
      BY <2>1, <2>2, <2>3, <2>4 DEF BInv, ObjectsInv, ReleaseShows
    <2>6. began \in 0 .. Len(log)
      BY <2>5 DEF Grows
    <2>7. Attests(files, disclosure, classification, began)
      BY <2>2, <2>3 DEF ReleaseAttests
    <2>8. Attests(files, disclosure, classification, began)'
      BY <2>6, <2>7, AttestsKept
    <2> QED
      BY <2>1, <2>2, <2>3, <2>8 DEF ReleaseAttests, SameRelease
  <1>2. CASE r \notin Releases
    <2>1. PICK p \in Processes : Approves(p) /\ r = NextRelease
      BY <1>2, NewReleases
    <2> QED
      BY <2>1, ApprovedAttests
  <1> QED
    BY <1>1, <1>2

\* A report that was told of was written in the same step; whatever else is written is a directory.
TellsReport(o) == o.exit = 0 /\ o.args.cmd = "report"
WritesDir == UNCHANGED disk \/ \E path, files : disk' = [disk EXCEPT ![path] = [kind |-> "dir", files |-> files]]
TellsOther == UNCHANGED outcomes \/ \E o : outcomes' = Append(outcomes, o) /\ ~TellsReport(o)
Writes(c) ==
    /\ disk' = [disk EXCEPT ![c.args.output] = [kind |-> "file", files |-> c.files]]
    /\ \E o : outcomes' = Append(outcomes, o) /\ TellsReport(o) /\ o.args = c.args /\ o.began = c.began

LEMMA OutcomeIs ==
    ASSUME NEW p, NEW exit, NEW c, c = call[p], NEW o, o = Outcome(p, exit)
    PROVE  o.exit = exit /\ o.args = c.args /\ o.began = c.began
  BY DEF Outcome

LEMMA WriteReportTells ==
    ASSUME IInv, NEW p \in Processes, NEW c, c = call[p], WriteReport(p)
    PROVE  (WritesDir /\ TellsOther) \/ (c.op = "replace" /\ Writes(c))
  <1>1. c.op = "replace" /\ c.args.cmd = "report"
    BY CallIs DEF WriteReport, At, IsCall, Assembling, Exporting
  <1>2. CASE Exit(p, Outcome(p, 1)) /\ UNCHANGED disk
    <2>1. PICK o : o = Outcome(p, 1)
      OBVIOUS
    <2>2. o.exit = 1
      BY <2>1, OutcomeIs
    <2> QED
      BY <1>2, <2>1, <2>2 DEF Exit, WritesDir, TellsOther, TellsReport
  <1>3. CASE Exit(p, Outcome(p, 0)) /\ disk' = [disk EXCEPT ![c.args.output] = [kind |-> "file", files |-> c.files]]
    <2>1. PICK o : o = Outcome(p, 0)
      OBVIOUS
    <2>2. o.exit = 0 /\ o.args = c.args /\ o.began = c.began
      BY <2>1, OutcomeIs
    <2> QED
      BY <1>1, <1>3, <2>1, <2>2 DEF Exit, Writes, TellsReport
  <1> QED
    BY <1>2, <1>3 DEF WriteReport

LEMMA OthersTell ==
    ASSUME IInv, NEW p \in Processes,
           \/ export(p) \/ AssembleReport(p) \/ create(p) \/ assemble_and_release(p)
           \/ supersede(p) \/ create_and_supersede(p) \/ RenderReport(p) \/ _write_closure(p) \/ _write_export(p)
    PROVE  WritesDir /\ TellsOther
  <1>1. PICK c : c = call[p] /\ c.op # "idle"
    BY DEF export, AssembleReport, create, assemble_and_release, supersede, create_and_supersede, RenderReport,
       _write_closure, _write_export, At
  <1>2. IsCall(c)
    BY <1>1, CallIs
  <1>3. ASSUME NEW exit, Exit(p, Outcome(p, exit)), exit # 0 \/ c.args.cmd # "report"
        PROVE  TellsOther
    <2>1. PICK o : o = Outcome(p, exit)
      OBVIOUS
    <2>2. o.exit = exit /\ o.args = c.args
      BY <1>1, <2>1, OutcomeIs
    <2> QED
      BY <1>3, <2>1, <2>2 DEF Exit, TellsOther, TellsReport
  <1>4. CASE export(p) \/ AssembleReport(p) \/ create(p)
    BY <1>3, <1>4 DEF export, AssembleReport, create, WritesDir, TellsOther
  <1>5. CASE supersede(p) \/ RenderReport(p) \/ _write_closure(p)
    BY <1>3, <1>5 DEF supersede, RenderReport, _write_closure, WritesDir, TellsOther
  <1>6. CASE assemble_and_release(p)
    <2>1. c.args.cmd # "report"
      BY <1>1, <1>2, <1>6 DEF assemble_and_release, At, IsCall, Assembling, Rendering, Exporting
    <2> QED
      BY <1>3, <1>6, <2>1 DEF assemble_and_release, Place, WritesDir, TellsOther
  <1>7. CASE create_and_supersede(p)
    <2>1. c.args.cmd # "report"
      BY <1>1, <1>2, <1>7 DEF create_and_supersede, At, IsCall, Assembling, Rendering, Exporting
    <2> QED
      BY <1>3, <1>7, <2>1 DEF create_and_supersede, WritesDir, TellsOther
  <1>8. CASE _write_export(p)
    <2>1. c.args.cmd # "report"
      BY <1>1, <1>2, <1>8 DEF _write_export, At, IsCall, Assembling, Rendering, Exporting
    <2> QED
      BY <1>3, <1>8, <2>1 DEF _write_export, Place, WritesDir, TellsOther
  <1> QED
    BY <1>4, <1>5, <1>6, <1>7, <1>8

LEMMA ReportsTold ==
    ASSUME IInv, [Next]_vars
    PROVE  (WritesDir /\ TellsOther) \/ \E p \in Processes : \E c : c = call[p] /\ c.op = "replace" /\ Writes(c)
  <1>1. ASSUME NEW change \in Changes, record_object_revision_with_event(change)
        PROVE  UNCHANGED <<disk, outcomes>>
    BY <1>1 DEF record_object_revision_with_event
  <1>2. ASSUME NEW p \in Processes, Crash(p)
        PROVE  UNCHANGED <<disk, outcomes>>
    BY <1>2 DEF Crash
  <1>3. ASSUME NEW p \in Processes, Begins(p)
        PROVE  WritesDir /\ TellsOther
    <2>1. PICK args, code, op : Begin(p, <<"command", args>>, args, code, op)
      BY <1>3 DEF Begins, _run_create_command, _run_supersede_command, report_main_run_command, export_main_run_command
    <2>2. PICK o : o = Told(args, code, None)
      OBVIOUS
    <2>3. o.exit = code
      BY <2>2 DEF Told
    <2> QED
      BY <2>1, <2>2, <2>3 DEF Begin, WritesDir, TellsOther, TellsReport
  <1>4. ASSUME NEW p \in Processes, Asks(p)
        PROVE  WritesDir /\ TellsOther
    <2>1. ASSUME NEW args, NEW o, o.args = args, args.cmd # "report", outcomes' = Append(outcomes, o), UNCHANGED disk
          PROVE  WritesDir /\ TellsOther
      BY <2>1 DEF WritesDir, TellsOther, TellsReport
    <2>2. ASSUME NEW args, _run_status_command(p, args)
          PROVE  WritesDir /\ TellsOther
      <3>1. PICK o : outcomes' = Append(outcomes, o) /\ o.args = args
        <4>1. PICK o, q : /\ o = [args |-> args, exit |-> 0, release |-> args.release, began |-> Len(log),
                                  seen |-> Len(outcomes), banner |-> status(Store, args.release)]
                          /\ q = Told(args, 3, None)
          OBVIOUS
        <4>2. o.args = args /\ q.args = args
          BY <4>1 DEF Told
        <4>3. outcomes' = Append(outcomes, o) \/ outcomes' = Append(outcomes, q)
          BY <2>2, <4>1, Zenon DEF _run_status_command
        <4> QED
          BY <4>2, <4>3
      <3>2. args.cmd # "report" /\ UNCHANGED disk
        BY <2>2 DEF _run_status_command
      <3> QED
        BY <2>1, <3>1, <3>2
    <2>3. ASSUME NEW args, _run_verify_command(p, args)
          PROVE  WritesDir /\ TellsOther
      <3>1. PICK exit, release : outcomes' = Append(outcomes, Told(args, exit, release))
        BY <2>3 DEF _run_verify_command
      <3>2. PICK o : o = Told(args, exit, release)
        OBVIOUS
      <3>3. o.args = args
        BY <3>2 DEF Told
      <3>4. args.cmd # "report" /\ UNCHANGED disk
        BY <2>3 DEF _run_verify_command
      <3> QED
        BY <2>1, <3>1, <3>2, <3>3, <3>4
    <2> QED
      BY <1>4, <2>2, <2>3 DEF Asks
  <1>5. ASSUME NEW p \in Processes, GoesOn(p)
        PROVE  (WritesDir /\ TellsOther) \/ \E c : c = call[p] /\ c.op = "replace" /\ Writes(c)
    BY <1>5, WriteReportTells, OthersTell DEF GoesOn
  <1> QED
    BY <1>1, <1>2, <1>3, <1>4, <1>5, Steps DEF WritesDir, TellsOther, vars

\* A directory with a report is still a release's.
LEMMA DirsAre ==
    ASSUME IInv, DInv, [Next]_vars
    PROVE  \A path \in Outputs : DirIs(disk'[path])
  <1> SUFFICES ASSUME NEW path \in Outputs
               PROVE  DirIs(disk'[path])
    OBVIOUS
  <1>1. Typed /\ DiskStep
    BY Only DEF IInv
  <1>2. CASE disk'[path] = disk[path]
    BY <1>2 DEF DInv
  <1>3. ASSUME NEW p \in Processes, NEW c, c = call[p], NEW kind, NEW files, Moves(c, kind, files),
               NEW x, x = [kind |-> kind, files |-> files]
        PROVE  DirIs(x)
    <2>1. x.kind = kind /\ x.files = files
      BY <1>3
    <2>2. CASE c.op = "replace" /\ kind = "file"
      BY <2>1, <2>2 DEF DirIs
    <2>3. CASE c.op = "move" /\ files = c.files
      BY <1>3, <2>1, <2>3 DEF DirIs, DInv, HoldsReport
    <2>4. CASE c.op = "finalize" /\ files = Bundle(c)
      <3>1. PICK f : f = [path |-> <<"release-record">>, content |-> [release |-> c.release]]
        OBVIOUS
      <3>2. f \in Bundle(c) /\ f.path = <<"release-record">>
        BY <3>1 DEF Bundle, EXCLUDED_FILENAMES
      <3> QED
        BY <2>1, <2>4, <3>2 DEF DirIs
    <2> QED
      BY <1>3, <2>2, <2>3, <2>4 DEF Moves
  <1>4. \/ disk'[path] = disk[path]
        \/ \E p \in Processes : \E kind, files :
              Moves(call[p], kind, files) /\ disk'[path] = [kind |-> kind, files |-> files]
    BY <1>1, DiskEvolves
  <1> QED
    BY <1>2, <1>3, <1>4

\* Who wrote a path last is still known,
LEMMA WrittenKept ==
    ASSUME Typed, NEW path, NEW i, WrittenLast(path, i),
           UNCHANGED outcomes \/ \E o : outcomes' = Append(outcomes, o) /\ ~WroteReport(o, path)
    PROVE  WrittenLast(path, i)' /\ outcomes'[i] = outcomes[i]
  <1>1. CASE UNCHANGED outcomes
    BY <1>1 DEF WrittenLast
  <1>2. ASSUME NEW o, outcomes' = Append(outcomes, o), ~WroteReport(o, path)
        PROVE  WrittenLast(path, i)' /\ outcomes'[i] = outcomes[i]
    <2>1. ToldKept /\ Len(outcomes') = Len(outcomes) + 1 /\ outcomes'[Len(outcomes')] = o
      BY <1>2, Told1
    <2>2. i \in DOMAIN outcomes' /\ outcomes'[i] = outcomes[i]
      BY <2>1 DEF WrittenLast, ToldKept
    <2>3. ASSUME NEW j \in DOMAIN outcomes', WroteReport(outcomes'[j], path)
          PROVE  j <= i
      <3>1. CASE j \in DOMAIN outcomes
        BY <2>1, <2>3, <3>1 DEF WrittenLast, ToldKept
      <3>2. CASE j \notin DOMAIN outcomes
        <4>1. j = Len(outcomes')
          BY <2>1, <3>2 DEF ToldKept
        <4> QED
          BY <1>2, <2>1, <2>3, <4>1
      <3> QED
        BY <3>1, <3>2
    <2> QED
      BY <2>2, <2>3 DEF WrittenLast
  <1> QED
    BY <1>1, <1>2

\* and so is what it was told to show.
LEMMA AttestsAsKept ==
    ASSUME Grows, ObjectsInv', NEW files, NEW o, AttestsAs(files, o)
    PROVE  AttestsAs(files, o)'
  <1>1. PICK disclosure, classification, began :
            disclosure = o.args.disclosure /\ classification = o.args.classification /\ began = o.began
    OBVIOUS
  <1>2. began \in 0 .. Len(log) /\ Attests(files, disclosure, classification, began)
    BY <1>1 DEF AttestsAs
  <1>3. Attests(files, disclosure, classification, began)'
    BY <1>2, AttestsKept
  <1>4. began \in 0 .. Len(log')
    BY <1>2 DEF Grows
  <1> QED
    BY <1>1, <1>3, <1>4 DEF AttestsAs

LEMMA FileKept ==
    ASSUME Typed, DInv, Grows, ObjectsInv', NEW path \in Outputs, disk'[path] = disk[path],
           UNCHANGED outcomes \/ \E o : outcomes' = Append(outcomes, o) /\ ~WroteReport(o, path)
    PROVE  FileIs(path)'
  <1> SUFFICES ASSUME disk[path].kind = "file"
               PROVE  FileIs(path)'
    BY DEF FileIs
  <1>1. PICK i : WrittenLast(path, i) /\ AttestsAs(disk[path].files, outcomes[i])
    BY DEF DInv, FileIs
  <1>2. WrittenLast(path, i)' /\ outcomes'[i] = outcomes[i]
    BY <1>1, WrittenKept
  <1>3. PICK files, o : files = disk[path].files /\ o = outcomes[i]
    OBVIOUS
  <1>4. AttestsAs(files, o)'
    BY <1>1, <1>3, AttestsAsKept
  <1> QED
    BY <1>2, <1>3, <1>4 DEF FileIs

\* A file shows what its command was told.
LEMMA FilesAre ==
    ASSUME IInv, BInv, DInv, [Next]_vars, Grows, ObjectsInv'
    PROVE  \A path \in Outputs : FileIs(path)'
  <1> SUFFICES ASSUME NEW path \in Outputs
               PROVE  FileIs(path)'
    OBVIOUS
  <1>1. Typed
    BY DEF IInv
  <1>2. CASE WritesDir /\ TellsOther
    <2>1. disk'[path] = disk[path] \/ disk'[path].kind = "dir"
      BY <1>1, <1>2 DEF WritesDir, Typed
    <2>2. CASE disk'[path].kind = "dir"
      BY <2>2 DEF FileIs
    <2>3. CASE disk'[path] = disk[path]
      BY <1>1, <1>2, <2>3, FileKept DEF TellsOther, TellsReport, WroteReport
    <2> QED
      BY <2>1, <2>2, <2>3
  <1>3. ASSUME NEW p \in Processes, NEW c, c = call[p], c.op = "replace", Writes(c)
        PROVE  FileIs(path)'
    <2>1. PICK o : outcomes' = Append(outcomes, o) /\ TellsReport(o) /\ o.args = c.args /\ o.began = c.began
      BY <1>3 DEF Writes
    <2>2. CASE path # c.args.output
      <3>1. disk'[path] = disk[path]
        BY <1>1, <1>3, <2>2 DEF Writes, Typed
      <3>2. ~WroteReport(o, path)
        BY <2>1, <2>2 DEF WroteReport
      <3> QED
        BY <1>1, <2>1, <3>1, <3>2, FileKept
    <2>3. CASE path = c.args.output
      <3>1. PICK files : files = c.files
        OBVIOUS
      <3>2. disk'[path] = [kind |-> "file", files |-> files]
        BY <1>1, <1>3, <2>3, <3>1 DEF Writes, Typed
      <3>3. disk'[path].files = files
        BY <3>2
      <3>4. Reads(c) /\ c # Idle /\ HoldsReport(c)
        BY <1>3, CallIs DEF BInv, DInv
      <3>5. AttestsAs(files, o)
        BY <1>3, <2>1, <3>1, <3>4 DEF AttestsAs, Reads, HoldsReport
      <3>6. AttestsAs(files, o)'
        BY <3>5, AttestsAsKept
      <3>7. ToldKept /\ Len(outcomes') = Len(outcomes) + 1 /\ outcomes'[Len(outcomes')] = o
        BY <1>1, <2>1, Told1
      <3>8. PICK i : i = Len(outcomes')
        OBVIOUS
      <3>9. i \in DOMAIN outcomes' /\ outcomes'[i] = o /\ \A j \in DOMAIN outcomes' : j <= i
        BY <3>7, <3>8 DEF ToldKept
      <3>10. WroteReport(o, path)
        BY <2>1, <2>3 DEF WroteReport, TellsReport
      <3>11. WrittenLast(path, i)'
        BY <3>9, <3>10 DEF WrittenLast
      <3> QED
        BY <3>3, <3>6, <3>9, <3>11 DEF FileIs
    <2> QED
      BY <2>2, <2>3
  <1> QED
    BY <1>2, <1>3, ReportsTold

\* The third invariant holds at first,
LEMMA AttestedFirst == Init => DInv
  <1> SUFFICES ASSUME Init
               PROVE  DInv
    OBVIOUS
  <1>1. Idle.op = "idle" /\ Free.kind = "free"
    BY DEF Idle, Free
  <1>2. HoldsReport(Idle)
    <2>1. Idle.op \notin {"report", "move"} /\ Idle.op \notin {"create", "replace"}
      BY <1>1
    <2> QED
      BY <2>1 DEF HoldsReport
  <1>3. \A p \in Processes : HoldsReport(call[p])
    BY <1>2 DEF Init
  <1>4. \A path \in Outputs : disk[path] = Free
    BY DEF Init
  <1>5. Releases = {}
    BY ReleaseConstants DEF Init, Releases, Is, Stored, Store
  <1> QED
    BY <1>1, <1>3, <1>4, <1>5 DEF DInv, DirIs, FileIs

\* and is kept.
LEMMA AttestedStep == IInv /\ BInv /\ DInv /\ [Next]_vars => DInv'
  <1> SUFFICES ASSUME IInv, BInv, DInv, [Next]_vars
               PROVE  DInv'
    OBVIOUS
  <1>1. Grows /\ ObjectsInv'
    BY StoreGrows DEF BInv
  <1>2. \A p \in Processes : HoldsReport(call[p])'
    BY <1>1, CallsHoldReports
  <1>3. \A r \in Releases' : ReleaseAttests(objects[r])'
    BY <1>1, ReleasesAttest
  <1>4. \A path \in Outputs : DirIs(disk'[path]) /\ FileIs(path)'
    BY <1>1, DirsAre, FilesAre
  <1> QED
    BY <1>2, <1>3, <1>4 DEF DInv

\* A report on disk is its release's, or the file of the last who wrote it.
LEMMA PublicIsAttested == IInv /\ DInv => PublicReportsAreFailClosed
  <1> SUFFICES ASSUME IInv, DInv, NEW path \in Outputs, NEW f \in disk[path].files, f.path \in ReportPaths,
                      NEW asked, asked = Request(path), asked.disclosure = "public"
               PROVE  FailClosed(f.content.sections, Attested(asked.classification), asked.began)
    BY DEF PublicReportsAreFailClosed
  <1>1. PICK files : files = disk[path].files
    OBVIOUS
  <1>2. CASE disk[path].kind = "dir"
    <2>1. \E h \in files : h.path = <<"release-record">>
      BY <1>1, <1>2 DEF DInv, DirIs, NoReports
    <2>2. PICK g : g = CHOOSE h \in files : h.path = <<"release-record">>
      OBVIOUS
    <2>3. g \in files /\ g.path = <<"release-record">>
      BY <2>1, <2>2
    <2>4. PICK r : r = g.content.release
      OBVIOUS
    <2>5. r \in Releases /\ objects[r].bundle = compute_bundle_manifest(files)
      BY <1>1, <2>3, <2>4 DEF IInv, DiskInv
    <2>6. f.path \notin EXCLUDED_FILENAMES
      BY DEF ReportPaths, EXCLUDED_FILENAMES
    <2>7. f \in objects[r].bundle.files
      BY <1>1, <2>5, <2>6 DEF compute_bundle_manifest
    <2>8. asked = objects[r]
      BY <1>1, <1>2, <2>2, <2>4 DEF Request
    <2> QED
      BY <2>5, <2>7, <2>8 DEF DInv, ReleaseAttests, Attests
  <1>3. CASE disk[path].kind = "file"
    <2>1. PICK i : WrittenLast(path, i) /\ AttestsAs(files, outcomes[i])
      BY <1>1, <1>3 DEF DInv, FileIs
    <2>2. DOMAIN outcomes = 1 .. Len(outcomes)
      <3>1. PICK s : s = outcomes /\ s \in Seq(ToSet(s))
        BY DEF IInv, Typed
      <3> QED
        BY <3>1
    <2>3. ASSUME NEW k, WrittenLast(path, k) PROVE k = i
      BY <2>1, <2>2, <2>3 DEF WrittenLast
    <2>4. LastReport(path) = i
      <3>1. i \in DOMAIN outcomes /\ WroteReport(outcomes[i], path)
            /\ \A j \in DOMAIN outcomes : WroteReport(outcomes[j], path) => j <= i
        BY <2>1 DEF WrittenLast
      <3>2. ASSUME NEW k \in DOMAIN outcomes, WroteReport(outcomes[k], path),
                   \A j \in DOMAIN outcomes : WroteReport(outcomes[j], path) => j <= k
            PROVE  k = i
        BY <2>3, <3>2 DEF WrittenLast
      <3> QED
        BY <3>1, <3>2 DEF LastReport
    <2>5. PICK o : o = outcomes[i]
      OBVIOUS
    <2>6. asked = [disclosure |-> o.args.disclosure, classification |-> o.args.classification, began |-> o.began]
      BY <1>3, <2>4, <2>5 DEF Request
    <2>7. asked.disclosure = o.args.disclosure /\ asked.classification = o.args.classification /\ asked.began = o.began
      BY <2>6
    <2> QED
      BY <1>1, <2>1, <2>5, <2>7 DEF AttestsAs, Attests
  <1>4. disk[path] # Free
    BY DEF Free
  <1> QED
    BY <1>2, <1>3, <1>4 DEF IInv, Typed

-----------------------------------------------------------------------------
(* Theorems *)

\* The releases of a crate that are not superseded are counted one by one.
LEMMA TwoAreMore ==
    ASSUME NEW S, IsFiniteSet(S), NEW r \in S, NEW q \in S, r # q
    PROVE  Cardinality(S) > 1
  <1>1. IsFiniteSet({r, q}) /\ Cardinality({r, q}) = 2
    <2>1. IsFiniteSet({r}) /\ Cardinality({r}) = 1
      BY FS_Singleton
    <2>2. IsFiniteSet({r} \cup {q}) /\ Cardinality({r} \cup {q}) = 2
      BY <2>1, FS_AddElement
    <2>3. {r} \cup {q} = {r, q}
      OBVIOUS
    <2> QED
      BY <2>2, <2>3
  <1>2. Cardinality({r, q}) <= Cardinality(S)
    BY FS_Subset
  <1> QED
    BY <1>1, <1>2, FS_CardinalityType

LEMMA OneAtMost ==
    ASSUME NEW S, \A r, q \in S : r = q
    PROVE  Cardinality(S) <= 1
  <1>1. CASE S = {}
    BY <1>1, FS_EmptySet
  <1>2. ASSUME NEW r \in S
        PROVE  Cardinality(S) <= 1
    <2>1. S = {r}
      OBVIOUS
    <2> QED
      BY <2>1, FS_Singleton
  <1> QED
    BY <1>1, <1>2

LEMMA LineIsClean == IInv => AtMostOneCleanReleasePerCrate
  <1> SUFFICES ASSUME IInv, NEW r \in Releases, NEW q \in Releases, r # q, objects[r].crate = objects[q].crate
               PROVE  \E one \in {r, q} : status(Store, one).verdict = "superseded" \/ status(Store, one).duplicate
    BY DEF AtMostOneCleanReleasePerCrate
  <1>1. ASSUME NEW one \in {r, q}, objects[one].status = "superseded"
        PROVE  status(Store, one).verdict = "superseded"
    BY <1>1 DEF status, compute_release_banner, Store
  <1>2. CASE objects[r].status # "superseded" /\ objects[q].status # "superseded"
    <2>1. PICK S : S = {x \in _discover_ids_by_event_type(Store, "release.approved") :
                            objects[x].crate = objects[r].crate /\ objects[x].status # "superseded"}
      OBVIOUS
    <2>2. GivenInv /\ Releases = FirstIds(Given)
      BY WhichReleases DEF IInv, ReleasesAre
    <2>3. IsFiniteSet(FirstIds(Given)) /\ S \subseteq FirstIds(Given)
      BY <2>1, <2>2, FirstIdsAre DEF GivenInv
    <2>4. r \in S /\ q \in S
      BY <1>2, <2>1, <2>2 DEF GivenInv
    <2>5. Cardinality(S) > 1
      BY <2>3, <2>4, TwoAreMore, FS_Subset
    <2>6. status(Store, r).duplicate = (Cardinality(S) > 1)
      BY <2>1 DEF status, compute_release_banner, _has_duplicate_unsuperseded_releases, Store
    <2> QED
      BY <2>5, <2>6
  <1> QED
    BY <1>1, <1>2

LEMMA LineIsYounger == IInv => SupersededByYounger
  <1> SUFFICES ASSUME IInv, NEW r \in Releases
               PROVE  /\ objects[r].status = "superseded" => objects[r].superseded_by \in {q \in Releases : GivenAs(r) < GivenAs(q)}
                      /\ Cardinality({i \in DOMAIN log : log[i] = [type |-> "release.superseded", object |-> r]}) <= 1
    BY DEF SupersededByYounger
  <1>1. objects[r].status = "superseded" => objects[r].superseded_by \in {q \in Releases : GivenAs(r) < GivenAs(q)}
    BY DEF IInv, LineInv
  <1>2. PICK S : S = {i \in DOMAIN log : log[i] = [type |-> "release.superseded", object |-> r]}
    OBVIOUS
  <1>3. \A i, j \in S : i = j
    <2>1. \A i \in S : i \in DOMAIN log /\ log[i].type = "release.superseded" /\ log[i].object = r
      BY <1>2
    <2> QED
      BY <2>1 DEF IInv, LineInv
  <1> QED
    BY <1>1, <1>2, <1>3, OneAtMost

\* However supersessions race or are cut short between their two transactions, of two
\* releases of a crate one is superseded or reported as a duplicate, and a superseded
\* release has one successor, younger than itself (create_and_supersede).
THEOREM ReleaseSupersession == Spec => []SupersessionIsALine
  BY Invariance, LineIsClean, LineIsYounger, PTL DEF SupersessionIsALine

LEMMA MatchesItself ==
    ASSUME NEW r, NEW dir, objects[r].bundle = compute_bundle_manifest(dir)
    PROVE  verify_bundle_dir(Store, r, dir)
  <1>1. PICK manifest : manifest = compute_bundle_manifest(dir)
    OBVIOUS
  <1>2. _diff_files(manifest.files, manifest.files) = NoDiffs
    BY DEF _diff_files, NoDiffs
  <1> QED
    BY <1>1, <1>2 DEF verify_bundle_dir, Store

LEMMA OutputsSafe ==
    IInv => TypeOK /\ BundlesAreApproved /\ SuccessIsComplete /\ OutputsWrittenOnceUnlessOverlapping
  <1> SUFFICES ASSUME IInv
               PROVE  TypeOK /\ BundlesAreApproved /\ SuccessIsComplete /\ OutputsWrittenOnceUnlessOverlapping
    OBVIOUS
  <1>1. TypeOK
    <2>1. PICK s : s = log /\ s \in Seq(ToSet(s))
      BY DEF IInv, Typed
    <2>2. DOMAIN log = 1 .. Len(log)
      BY <2>1
    <2>3. \A p \in Processes : call[p] = Idle \/ call[p].release \in ToSet(ReleaseIds) \cup {None}
      BY DEF IInv, Holds, IsCall
    <2>4. \A i \in DOMAIN outcomes : outcomes[i].exit \in 0 .. 3
      BY DEF IInv, Outcomes
    <2> QED
      BY <2>2, <2>3, <2>4 DEF TypeOK, IInv, Typed
  <1>2. BundlesAreApproved
    BY MatchesItself DEF BundlesAreApproved, IInv, DiskInv
  <1>3. SuccessIsComplete
    <2> SUFFICES ASSUME NEW i \in DOMAIN outcomes, NEW o, o = outcomes[i],
                        o.exit = 0, o.args.cmd \in {"create", "supersede"}
                 PROVE  /\ o.release \in Releases
                        /\ [path |-> <<"release-record">>, content |-> [release |-> o.release]] \in disk[o.args.output].files
                        /\ o.args.cmd = "supersede" => objects[o.args.supersedes].superseded_by = o.release
      BY DEF SuccessIsComplete
    <2>1. Outcomes(o, i) /\ Wrote(o)
      BY DEF IInv, Wrote, Writing
    <2> QED
      BY <2>1 DEF Outcomes, Finished, RecordFile
  <1>4. OutputsWrittenOnceUnlessOverlapping
    <2> SUFFICES ASSUME NEW i \in DOMAIN outcomes, NEW j \in DOMAIN outcomes, i < j,
                        outcomes[i].exit = 0, outcomes[j].exit = 0,
                        outcomes[i].args.cmd \in Writing, outcomes[j].args.cmd \in Writing,
                        outcomes[i].args.output = outcomes[j].args.output
                 PROVE  outcomes[j].seen < i
      BY DEF OutputsWrittenOnceUnlessOverlapping
    <2>1. Wrote(outcomes[i]) /\ Wrote(outcomes[j])
      BY DEF Wrote
    <2>2. /\ outcomes[j].seen \in 0 .. j - 1
          /\ \A k \in 1 .. outcomes[j].seen : Wrote(outcomes[k]) => outcomes[k].args.output # outcomes[j].args.output
      BY <2>1 DEF IInv, Outcomes, FoundFree
    <2>3. i \in Nat \ {0} /\ j \in Nat
      <3>1. PICK s : s = outcomes /\ s \in Seq(ToSet(s))
        BY DEF IInv, Typed
      <3>2. DOMAIN outcomes = 1 .. Len(outcomes) /\ Len(outcomes) \in Nat
        BY <3>1
      <3> QED
        BY <3>2
    <2> QED
      BY <2>1, <2>2, <2>3
  <1> QED
    BY <1>1, <1>2, <1>3, <1>4

LEMMA DirsStay == IInv /\ [Next]_vars =>
    [\A path \in Outputs : disk[path].kind = "dir" => disk'[path] = disk[path]]_vars
  BY TypedKept DEF DiskKept

\* Every bundle on disk has its approved release, whose manifest it still matches; a
\* command that succeeded left bundle, release and supersession; two commands took one
\* path only when they overlapped; and no finished directory was touched again, wherever
\* processes died (assemble_and_release, create_and_supersede).
THEOREM ReleaseOutputs == Spec => OutputsAreApproved
  <1>1. Spec => [](TypeOK /\ BundlesAreApproved /\ SuccessIsComplete /\ OutputsWrittenOnceUnlessOverlapping)
    BY Invariance, OutputsSafe, PTL
  <1>2. Spec => BundlesNeverReplaced
    BY Invariance, DirsStay, PTL DEF Spec, BundlesNeverReplaced
  <1> QED
    BY <1>1, <1>2 DEF OutputsAreApproved

\* A bundle shows the store as it was while it was assembled: an unresolved critical
\* correction that touches what is shipped is in the report or on the banner, the
\* report cites what is shipped, and a rebuild gives the bundle again, unless the store
\* was written meanwhile or later (`export`, `AssembleReport` and `create` read the
\* store one after another, `_run_verify_command` reads it once more).
THEOREM ReleaseShowsTheStore == Spec => []BundlesShowTheStore
  <1>1. IInv /\ BInv => BundlesShowTheStore
    BY NothingIsOmitted, BundlesAreConsistent, MismatchesHaveCauses DEF BundlesShowTheStore
  <1> QED
    BY <1>1, Invariance, ShownFirst, ShownStep, PTL DEF Spec

\* No public report on disk, as a file or in a bundle, shows the assertion of a claim, the
\* text of a review or known unknown, or the reason of a correction unless all it depends
\* on was attested PUBLIC to the command that wrote it, and each of its claims names every
\* unresolved critical correction that touched it when that command began
\* (`build_public_claim_row`, `build_public_correction_row`), wherever processes die and
\* whatever is written between the reads of `assemble_and_release` and `WriteReport`.
THEOREM ReleasePublications == Spec => []PublicReportsAreFailClosed
  BY Invariance, ShownFirst, ShownStep, AttestedFirst, AttestedStep, PublicIsAttested, PTL DEF Spec
=============================================================================
