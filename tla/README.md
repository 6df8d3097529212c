# The Meridian research runtime in TLA+

The runtime records scientific work as immutable, signed, revisioned objects, passes
tasks between autonomous practices, and carries corrections to everybody a correction
affects. Its state lives in PostgreSQL tables and in files that practices exchange; its
services are synchronous Python classes that any number of processes may run at the same
time. This directory models the parts where that concurrency, and the failures around it,
decide whether the records can be believed.

## 1. Inventory

| Part | State it keeps | Operations | Hard behaviour |
|---|---|---|---|
| Persistence core (`packages/persistence`, `packages/provenance`) | `objects`, `edges`, `domain_events`, `outbox` | `record_object_revision_with_event`, `record_event`, the edge-carrying units of work, `dispatch_pending` | concurrent writers, hash chain, roll back, at-least-once delivery |
| Task bundle (`services/task_bundle`) | content revisions, transition events | create, offer, accept, defer, reject, propose and acknowledge a modification, trusted variants | status and content read before the write, two parties |
| Correction delivery (`services/correction`, `domain/delivery_retry`) | correction revisions, notification events, `pending_deliveries` | notify, propagate impact, open, retry online or offline, mark delivered or exhausted | partial failure, crash between send and record, expiry, racing retriers |
| Correction impact, receipt, responses (`services/correction`) | claims under review, received notifications, responses | `propagate_impact`, `receive_correction_notification`, `record_response` | graph closure while it grows, idempotence |
| Inbound envelopes (`domain/envelope_validation`, `ProcessedIdStore`, replay ledger file) | processed ids, ledger file | validate, record processed, prune, import bundle | duplicates, pruning against expiry, unlocked file |
| Keys and trust (`domain/key_management`, `trust_*`) | practice documents, recorded revocations | rotate, revoke, resolve at an instant, report | clock edges, stale documents |
| Claims (`services/claim`, `domain/claim_ceiling`, `domain/kill_condition`) | claim revisions, evidence edges, rulings | transitions, attach ruling, kill condition, require review | two transactions in one call, ceilings |
| Transfers, obligations, capability registry | transfer events, obligation revisions with edges, manifests | create, offer, respond; materialize, propagate, resolve, defer; register, receive | answers that race, one transaction per duty |
| Method kernel (score, question, charter, protocol, profile, matrix, ruling, decision) | revisions with a lifecycle each | create, revise, move; look accepted profiles up | read, check, then store |
| Node runtime and synthesis executor (`services/node_runtime`, `cli/*orchestration`) | run memo, artifacts, manifests, crates | execute, record, seal, in a fixed order of calls | bound on the computation, failure paths, death between calls |
| Release, report, export (`services/release`, `cli/release_main`, `report_main`, `export_main`) | release records, directories and files | create, supersede, status, verify, report, export | several reads of a moving store, commit before the move into place |
| Literature channel (`scripts/*`, `cli/literature_main`, `classification_main`, audits and validations) | register, observations, manifests, snapshots, proposals, corpora, reports: files | watch, draw, fetch, resolve, commission, classify, build, observe, audit, measure | services that fail, files that change, unlocked check-then-write |
| Verifier arithmetic, skeptic, planner, prompt registry, field validation, cryptography | none of their own | pure computation or I/O | few |

How they interact: services read the store (`get_latest`, `read_all`), decide, and write
through one unit of work; `TaskBundleService.create` asks the Research Score service and
the capability registry for permission; `CorrectionImpactService.propagate_impact` walks
the typed edges and asks the claim service to require reviews; correction notifications,
transfers and offline bundles travel between practices through files; a run of the
evidence loop calls nearly every service in turn; release and report commands read what
all the others wrote; the dispatcher hands committed events to a handler.

What makes each part correct, in a sentence: the store loses no change and no event and
verifies at any moment; a bundle's history is a path of its diagram and what is accepted
is what was checked; everybody affected is notified or known not to be, and every pending
delivery ends; an envelope is processed once; a claim never outruns its evidence, and its
review is required when what it rests on falls; obligations follow the answer that is in
force and nothing that builds on a bound object escapes them; a sealed crate is backed by
everything it names; what is on disk was approved, is complete and shows the corrections
that touch it; nothing in the literature channel is measured, counted or reported against
another thing than the one it names.

## 2. Modules

| Module | Models |
|---|---|
| `AppendOnlyStore` | what the services may rely on: atomic steps that add a revision, edges and an event |
| `EventStore`, `MCEventStore` | the statements of the write transactions and the outbox dispatcher |
| `EventStoreProofs` | the theorems about `EventStore` |
| `TaskBundle`, `MCTaskBundle` | the negotiation of one bundle |
| `TaskBundleProofs` | the theorems about `TaskBundle` |
| `CorrectionDelivery`, `MCCorrectionDelivery` | delivery of one correction |
| `CorrectionDeliveryProofs` | the theorems about `CorrectionDelivery` |
| `ClaimGraph`, `MCClaimGraph` | claims, evidence edges, rulings, verification results, impact of a correction |
| `ClaimGraphProofs` | the theorems about `ClaimGraph` |
| `Inbox`, `MCInbox` | received envelopes and bundles, processed ids, the replay ledger |
| `InboxProofs` | the theorems about `Inbox` |
| `SynthesisPipeline` | the synthesis as a pure function of corpus and parameters |
| `MethodKernel` | the governed objects and their lifecycles; extends `SynthesisPipeline` |
| `EvidenceLoop`, `MCEvidenceLoop` | runs of the evidence loop beside operators; extends `MethodKernel` |
| `EvidenceLoopProofs` | the theorems about `EvidenceLoop` |
| `Federation`, `MCFederation` | manifests, keys, transfers, obligations, correction responses |
| `FederationProofs` | the theorems about `Federation` |
| `Publication` | projection, export and report as readings of a store |
| `Release`, `MCRelease` | the release, report and export commands; extends `Publication` |
| `ReleaseProofs` | the theorems about `Release` and about what it uses of `Publication` |
| `ContentFetch`, `ResolutionFetch` | the two fetch scripts: requests, answers, matching |
| `ModelAdapter` | one call of a language model and the repair of its answer |
| `Measurement`, `ArchiveAudit` | what the validations and audits compute |
| `LiteratureChannel`, `MCLiteratureChannel` | the commands of the channel as processes over files; extends `Measurement`, instantiates the four modules above |

### EventStore

Each session executes one statement per step: `ReadMax` and `InsertObject` are the two
halves of `_insert_revision_core`; `InsertEdges` the edge inserts of the claim,
obligation, transfer and correction units of work; `LockLog`, `ReadHead` and
`InsertEvent` the body of `PostgresEventLog.append`; `Commit` the end of
`with engine.begin()`. What is not committed is in `staged` and visible to nobody else.
PostgreSQL is modelled under READ COMMITTED by three facts: a statement sees what was
committed before it, an insert of a unique key held by an open transaction waits for that
transaction's end and then succeeds or fails, and the transaction-scoped advisory lock is
released by commit or roll back. `Rollback` stands for an exception, a lost connection or
the death of the process at any statement. Identity values are consumed by transactions
that roll back, so sequences have gaps.

A digest is modelled as the chain of events it covers: equal exactly for equal histories,
which is what a collision-free hash of event and previous hash gives.

The dispatcher reads its batch once (`Poll`), calls the handler, and marks the row in a
transaction of its own; it may crash anywhere, and several may run.

### TaskBundle

One bundle, any number of workers. A command is a sequence of separate reads
(`ResolveKey`, `ReadLatest`, `ReadStatus`, `CheckGates`) and one write: `RecordEvent`
appends a transition without comparing anything, `RecordRevision` compares the content
revision. A content revision is its target, its signer and whether its signature
verifies. The history variable `overlapped` remembers that a command began while another
was running: what the code promises of commands that run one after the other is stated
for behaviours in which that has not happened. The part of the lifecycle from QUEUED on has no command in this service and is
only in the transition table.

### CorrectionDelivery

One correction. A notifier reads the correction and the recipients already notified,
sends one fresh notification after the other, and only then records: first the new status
with the first event (compared with the revision read), then the other events one by one.
`propagate_impact` is present for what it does to the correction's revisions; the reviews
it requires of claims are in `ClaimGraph`. A retrier opens a row for a
failed notification, picks due rows from a list that may be stale, fixes its evaluation
instant before it sends, and writes row and event in two transactions. The online
transport is the filesystem one, which answers "failed" if the message is already there;
an offline bundle arrives later or never. `overlapped` has the same meaning for notifiers
as in `TaskBundle` for workers: the code promises that a repeated call does not notify
again whoever is recorded as sent, not that two calls at the same time share the work.

### ClaimGraph

Claims are unsigned, so a transition is a new revision written under optimistic
concurrency together with its event; the model keeps the event in the revision. A worker
runs one command as the code does: read the claim, check the ceiling against the rulings
it finds, check the support edges, write; every step is a transaction of its own.
`apply_kill_condition` is a withdrawal followed by an edge, `record` of a verification is
a result followed by a transition, and a propagation gathers edges one id at a time,
computes the impact, records it in the correction and marks the claims one by one.
`compute_impact` is a breadth-first closure over the gathered edges; the property that
judges it uses the least closed set. `receive_correction_notification` shares the
traversal and the marking and records nothing in a correction. The ceilings of a ruling
are fixed with it, because no service changes a ruling or its profile once recorded.

Two history variables say what a returned call has promised: `reviewed` holds the claims
that were downstream when a propagation began that has returned, `driven` those whose
failed verification has returned having moved the claim.

### Inbox

An envelope arrives alone or in a bundle, any number of times. `BeginEnvelope` and
`AskProcessed` are the two halves of `validate_inbound_envelope` around the replay query:
the evaluation instant is fixed in the first and used in both. `RecordProcessed` is the
transaction that acts on the message; the repository has the connection-taking
`record_processed_with_connection` for it and leaves the transaction itself to its caller,
so the caller is modelled as using it that way. `prune_expired` may run at any moment.
An importer runs `mrr federation inbox accept` step by step; the ledger file is read in
one step and replaced in another. What a signature, a hash or a recipient check says is a
fixed defect of the received object; window and key validity depend on the instant. The
`at` parameters are left at their default, the instant of the call.

### MethodKernel and SynthesisPipeline

Every governing service works alike, so there is one pattern: `Begin` holds what a call
read, the latest revision against the lifecycle of the object's kind; a later `Store`
adds the next revision if no other has been stored since, and `Refuse` ends the call if
one has. The transition tables of the
nine kinds are the code's. `SynthesisPipeline` is the executor's pipeline without texts:
inclusion filters, extraction with or without a model's proposal, grouping by analysis,
the count of independent families among verified sources, the decision rule, and the
checks of lock and declared variations that end a run as failed.

### EvidenceLoop

A run is one process with a list of calls to make in order, built as
`run_local_evidence_loop` and the synthesis orchestration build it; it ends at the first
call that fails. The executor's gates (policy, cancellation, missing inputs), its bounded
wait, its memo and the thread that cannot be stopped are separate steps. An operator
revises, approves, suspends, locks, freezes or re-registers between any two of them, and a
looker asks for accepted profiles page by page. Artifacts are content-addressed, so the
store is a set. What the computation does, how long it takes and whether it ends is free.

### Federation

One practice's side of an exchange with another: the practice document with its key
states, the (possibly older) copy each caller brings, recorded revocations, transfers
whose status lives in the log alone, obligations as sequences of revisions, and responses
to corrections. `materialize_from_transfer` stores one obligation per transaction;
`propagate` gathers edges one id at a time while `derive` adds some; the death of a caller
is remembered in `died`. An instant is a clock for key windows, a place in the log for
everything else.

### Publication and Release

`Publication` reads a store without time: claim table, closure of an export, RO-Crate
metadata, report, redaction by disclosure and classification. `Release` runs it inside
commands: checks of the arguments, the separate readings for export and report, the
transaction that records the release, the move into place, the supersession's second
transaction. Between two steps the store is changed by others and the process may die. A
bundle's hash stands for its content. A path is free, a directory or a file with its
contents; a process is idle or holds its arguments, its release, the files it has built
and the revision it read. Two assumptions say what the code takes for granted:
`ReleaseConstants`, that no other service writes release records or release events
(`create` and `create_and_supersede` are the only writers), and `StoreConventions`, that
crates, anchors and reviews are written once and evidence refers to no release (section 4
names the checks).

Disclosure is a matter of the report. `PublicReportsAreFailClosed` reads every report on
disk, the file of a report command and the `report.md` and `report.html` of a bundle,
beside the attestations its command was given (`Request`: a bundle names its release, a
file is from the last command that wrote the path). A text counts as shown or redacted;
what it depends on is, for an assertion, the claim and its unresolved critical corrections,
for findings the review and the claim, for a correction's reason the correction and all it
touches. Corrections that arrive after the command began are left out, as in
`BundlesShowTheStore`. The RO-Crate beside the report in a bundle holds the objects
themselves, whatever the disclosure (`service.py` of the export takes none), and
the property says nothing about it.

### The literature channel

Files are documents with a kind and the fields their readers use. A command looks whether
its output exists, reads, asks services, computes, and writes; where the code writes in
place the file is torn if the process dies on the way, where it uses a temporary file and
`os.replace` it is not. `ContentFetch` and `ResolutionFetch` hold the requests to arXiv
and Crossref, the egress rules and the matching of entries to citations; the two scripts
repeat each other's code deliberately and so do the modules. `ModelAdapter` maps what a
transport brought back to a status, and repairs an answer outside the schema a bounded
number of times. `Measurement` and `ArchiveAudit` compute with pairs for Python's exact
fractions. An excerpt is a sequence of pieces, digits, words and marks, each with its
characters: numerals are read from pieces, anchor terms are searched among the characters
in small letters (`SmallLetter`), inside words and across them, because terms are stems
("accurat" for accurate and accuracy) and `_char_gap` counts characters.

## 3. Runs

A property is a conjunction of named parts where several facts make up one promise; the
parts are in brackets and each is stated and commented in its module.

| Run | Instance | Shows |
|---|---|---|
| `store` | 2 sessions, 2 dispatchers, 2 objects, 1 edge, 2 event ids, 2 transactions | `ChainVerifies`, `OneWinnerPerRevision`, `ChangeHasItsEvent`, `TransactionsEnd`, `DeliveredAtLeastOnce` (`DispatchedWasHandled`, `DispatchedIsFinal`, `EventuallyDispatched`), and with `ImplementsStore` that `EventStore` implements `AppendOnlyStore` |
| `bundle_negotiation` | 2 workers, 1 node and the origin, 2 revisions, 4 events | always: `DecisionsAreAuthorized`, `OriginTrustExcludesModifications`, `EveryRevisionHasOneAuthor`; while no two commands have overlapped: `SerialHistoryFollowsLifecycle`, `DecisionsRestOnWhatWasRead` (`AcceptedContentIsCurrent`, `AcknowledgedContentIsTrusted`) |
| `bundle_race_lifecycle` | 2 workers | a counterexample: two decisions from one status |
| `delivery_notify` | 2 notifiers, 2 recipients, 4 notifications, 4 revisions | `FailureStaysVisible`; while no two calls have overlapped: `SentOncePerRecipient` |
| `delivery_retry` | 2 retriers, 1 notification, 2 attempts, lifetime 2 | `DeliveredMeansArrived`, `RecordsOfDeliveriesAgree` (`TypeOK`, `LogAgreesWithRows`, `PendingRowsStayDue`), `DeliveriesAreSettledForGood` (`OutcomeIsFinal`, `EveryPendingDeliveryResolves`) |
| `claim` | 2 workers; either 1 causal claim, 2 rulings, 1 result, 4 revisions, 2 edges, or 2 claims, 1 other object, 3 revisions, 2 edges | `StatusIsEarned` (`TypeOK`, `RevisionsFollowLifecycle`, `SupportedIsBacked`, `AssertedWithinCeiling`), `DecidedByMeansKilled`, `DrivenIsNotSupported`, `ReviewReachesDownstream`, `ImpactIsKnown` (`ImpactIsDownstream`, `ImpactNeverShrinks`) |
| `claim_failure` | 1 worker | a counterexample: a failed verification on a claim that becomes supported |
| `inbox` | 2 receivers, 1 importer, 2 envelopes, 3 bundles (one flawed), grace 1, delay 1 | `AcceptedOnce`, `HonestReplay`; with imports one after the other, `LedgerIsComplete` (`LedgerKeepsReported`, `BundleReportedOnce`) |
| `evidence_loop` | 1 run beside an operator with up to 3 calls and a looker, or 2 runs that share protocol and node; 2 corpora, 2 attempts | `RunsAreBacked` (`TypeOK`, `CrateIsBacked`, `CrateIsComplete`, `OnlyCompletedRunsAssert`), `WorkIsAuthorized` (`RevisionsFollowLifecycle`, `ApprovedOnAnApproval`, `BundleNeedsApproval`, `AssertedUnderTheLock`, `LookupMissesNothing`), `RunsEndWithOneAnswer` (`OneAnswerPerAttempt`, `EveryRunEnds`) |
| `federation` | 2 callers, 4 transfers, 2 keys, 4 manifests, 2 notifications, 4 objects, 11 workloads | `TrustIsSettled` (`RevokedKeysStayRefused`, `ManifestsInOrder`, `AnnotationIsSettled`), `AnswersHaveTheirEffects` (`TypeOK`, `AnsweredOnceUnlessOverlapping`, `AdaptationKeepsRelations`, `MaterializedOnTheLatestAnswer`, `MaterializedOnceUnlessOverlapping`, `DutiesTravelUnlessDied`), `ObligationsReachDownstream` (`PropagationMissesNothing`, `BindingNeverShrinks`, `ObligationsFollowLifecycle`), `CorrectionsAreAnswered` (`RespondedOnceUnlessOverlapping`, `CorrectsWhatWasNotified`) |
| `release` | 2 processes, 2 crates, 3 claims, 2 paths, 3 release ids, 5 changes by others, 30 workloads | `OutputsAreApproved` (`TypeOK`, `BundlesAreApproved`, `SuccessIsComplete`, `OutputsWrittenOnceUnlessOverlapping`, `BundlesNeverReplaced`), `SupersessionIsALine` (`AtMostOneCleanReleasePerCrate`, `SupersededByYounger`), `BundlesShowTheStore` (`OmittedOnlyWhileAssembling`, `BundleIsConsistentUnlessStoreMoved`, `MismatchHasACause`), `PublicReportsAreFailClosed` |
| `literature` | 2 processes, 5 papers, 1 DOI, 26 workloads over small files | `WatchesAreHonest` (`SilenceMeansQuiet`, `ReportedOnceUnlessOverlapping`, `StandardNeverBecomesEvidence`), `EntriesAreAnchored` (`TypeOK`, `ExcerptIsOfItsCitation`, `EntryIsReadFromItsExcerpt`, `NothingIsLost`, `PinnedIsWhatWasRead`, `CommittedFilesWrittenOnceUnlessOverlapping`), `ModelIsNotShopped` (`AnswersAreNotShopped`, `ProposalsAreComplete`), `MeasurementsMatchTheRatings` (`StatisticsMatchTheRatings`, `MeasuredUnderOneCriteria`), `AuditsSpeakOfWhatTheyName` (`NotFoundMeansNotThere`, `ObservationIsAnchored`, `AuditedBytesAreDeclared`, `CleanArchiveIsClosed`, `PresenceIsOfTheNamedStore`, `FiguresAreWholeNumbers`) |

The type invariants of the modules with theorems are proved (section 4).

A workload is a bag of what may happen in one behaviour: the commands given, the changes
others make, the failures of services, the deaths. TLC starts one behaviour from each and
explores every order, so that a state space stays small although the list of operations is
long; what never occurs together in a workload is not checked together.

Why the bounds are enough. Two sessions compete for a key, an event id or the lock, or
write different objects so that one waits for a key while the other holds the lock; the
second transaction follows a commit or a roll back, so gaps in the sequence and a stale
expectation occur; the proofs cover any number of them. Two dispatchers with two events
give overlapping batches. Two content revisions and four events are a creation, an offer,
one modification and its decision or acknowledgement, with a second command between any
two of their steps. Two notifiers with two recipients give every mix of delivered and
failed in calls that overlap, four revisions let both write and an impact revision come
between them. Two attempts with a lifetime of two give retries before, at and after the
expiry, and exhaustion by either rule. Four revisions take a claim from draft through
review to supported and to its end; two rulings are one that a causal claim satisfies and
one it exceeds; two edges hold a support and a ruling together, or make a chain of two
claims behind the corrected object, so a traversal of one hop is too short. The envelopes'
windows of 2 and 3 with a delay of 1 put the evaluation before and the commit after the
expiry, and the clock passes the retention horizon of the first; the key of one envelope
ends before its window. The corpora of the loop give a contested, a supported and an
insufficient analysis; its operator can suspend an approval or freeze a matrix between
any two calls; no service amends a locked protocol, so it cannot. A transfer has no duty, one, one with caveats, or two, which
is what a death inside the loop has to separate. The release store has a chain of claims
behind one crate, a lost reference behind the other, and a correction with three
revisions, so that assembly can begin before, between and after them. The papers include
two versions of one, one without an abstract and one of the gold standard; three results
per search let a fourth paper push an old one out.

Deadlock is checked in the delivery, bundle, claim and inbox runs as their configurations
say; the others stop by design, when transactions, workloads or runs are used up.

### Fairness

`EventStore!FairSpec`: an issued statement completes (a running process and a database
that answers); a dispatcher inside `dispatch_pending` goes on; and strong fairness of the
handler call, its normal return and the mark, which says that the deployment calls
`dispatch_pending` again and that a handler does not raise, or the process die, for ever
at the same event. The repository leaves the polling loop to the deployment, so these are
assumptions on it. `CorrectionDelivery!FairSpec`: time passes, due rows are picked up,
a call that has begun continues, and the retriers do not all die in every call at the
same place (the condition is on all of them together: one may be dead for good); again the
schedule is the deployment's (`domain/delivery_retry.py` says so). `EvidenceLoop!Spec`:
the steps of a run that has begun are taken, the expiry of the executor's wait among them;
nothing is assumed of the computation, which may hang for ever. The other specifications
state no fairness and claim safety only.

### Counterexamples

`bundle_race_lifecycle`: two workers read OFFERED, both pass `assert_transition`, both
append. The log then holds, for example, a rejection after an acceptance, and the status
is whichever came last. The spec's rule that mutating commands carry an expected revision
has no counterpart in `_advance`.

`claim_failure`: a failed verification moves a claim only if the caller's snapshot of it
is `supported` or `under_review`. Recorded on a draft it moves nothing; the claim is then
submitted and supported, and `to_supported` asks for edges only.

### Observations

What the properties had to leave out, because the code does not promise it:

* `accept_modification_trusted` checks the content it reads and delegates to
  `accept_modification`, which reads again and records the revision it finds: with a
  further modification in between, the acknowledged revision was never checked. The
  property is limited to commands that do not overlap, and so is its theorem.
* MRR-FR-023 can be read as asking for the origin's acceptance of every modification
  before the bundle is executed. `accept` looks at no acknowledgement; what keeps a
  modification out is the key the accepting node trusts. A node that accepts under the
  modifier's own key, the node's, needs none (`OriginTrustExcludesModifications` is what
  holds).
* With a grace of zero, the default of the constructor, a second delivery can take its
  evaluation instant just before `expires_at`; the clock reaches it, the sweep deletes the
  row of the first delivery, and the replay query finds nothing. Two imports of bundles at
  once both load the ledger and both replace it. The theorems name the two conditions
  under which neither happens: a grace of at least the receiver's delay, one importer.
* `rotate` looks for the prior key only: a key that was rotated or revoked and is named as
  the successor of another is in the ring as active again, and objects signed under it are
  accepted from that document on. Nothing in the documents forbids it;
  `RevokedKeysStayRefused` speaks of the state a key has now.
* `materialize_from_transfer` is refused for ever once it died after its first obligation.
* A correction recorded while a bundle is assembled is on neither its report nor its
  banner: the report was written before it, and the banner skips corrections that are not
  later than the release.
* `_write_bytes_atomically_never_overwriting` (`federation_main.py:304`, `practice_main.py`)
  says that a concurrent writer cannot cause a silent overwrite. It asks twice whether the
  path exists and then calls `os.replace`, which overwrites: two writers that both pass the
  second check both report success, and the later one replaces the file. `outbox write`
  reads the file back for the hash it prints, which can then be the other writer's. The
  outbound file exchange is not modelled; this is read from the code, not checked.
* `draw_backlog.py:45` says that the salt makes successive batches disjoint. The draw
  orders the pool by a salted hash and leaves out what the pool marks as drawn; it does
  not look at earlier batches.
* A figure claim of the support audit that names no anchor terms is supported by the bare
  number.
* Predictions are compared with the gold standard without comparing the criteria they
  were made under; `MeasuredUnderOneCriteria` holds as long as nobody changes them after
  the classification began.

## 4. Proofs

`EventStoreProofs` proves for every set of sessions, dispatchers, objects, edges, event
ids and calls, from the assumption `EventStoreConstants` alone:

* `TypeCorrect`: `Spec => []TypeOK`
* `ChainAlwaysVerifies`: `Spec => []ChainVerifies`
* `OneWinner`: `Spec => []OneWinnerPerRevision`
* `ChangesKeepTheirEvents`: `Spec => []ChangeHasItsEvent`
* `StoreIsAppendOnly`: `Spec => AppendOnly`
* `StoreIsImplemented`: `Spec => ImplementsStore`, the refinement of `AppendOnlyStore`
* `DispatchedIsHandled`: `Spec => []DispatchedWasHandled`
* `DispatchedForGood`: `Spec => DispatchedIsFinal`

None of the first four invariants is inductive: what is committed is only as good as what was
staged. The inductive invariant `IInv` adds

* `StagedInv`: staged rows are exactly the rows of the session's call at the statement it
  has reached, so that a commit adds an object row together with its event;
* `LockInv`: a session between the lock and its commit is the holder of the lock, so at
  most one session is there;
* `LogInv`: committed and staged sequences lie below `next_sequence`, and the holder's
  `prev_hash` still is the head's hash: nobody else can have appended since it was read;
* `KeyInv`: no two open transactions have staged the same object key, none of them a
  committed one, and the revision a staged row builds on is still the maximum.

Each action is one lemma per part of the invariant it can disturb; the temporal theorems
combine them with `PTL`.

The refinement maps `COMMIT` to one abstract step and every other statement, roll back and
dispatcher step to a stutter. It needs more than `IInv` (`RInv`): no staged edge is
another session's or committed (`EdgeKeyInv`, so that the abstract edges are new), every
transaction is one of the calls (`CallInv`, so that no revision passes the bound),
the revisions of an object have no gap (`GapFree`: the abstract latest revision
is the expected one when a write commits), and the digests hold committed events only
(`HashesHoldEvents`: the id the log refuses twice is fresh in the abstract log).
`DInv` says of the dispatchers that what they hold is committed and what they are about to
mark has been handled; a commit cannot put a pending row over a dispatched one because its
event id is new. The theorems on dispatching are the safety parts of
`DeliveredAtLeastOnce`.

`TaskBundleProofs` proves, from `TaskBundleConstants`, for any workers, nodes, keys and
bounds on revisions and events:

* `TypeCorrect`: `Spec => []TypeOK`
* `DecisionsAreAlwaysAuthorized`: `Spec => []DecisionsAreAuthorized`
* `RevisionsAreAuthored`: `Spec => []EveryRevisionHasOneAuthor`
* `ModificationsNeedTheirOwnTrust`: `Spec => []OriginTrustExcludesModifications`
* `SerialHistoryIsALifecycle`: `Spec => []SerialHistoryFollowsLifecycle`
* `SerialDecisionsRestOnWhatWasRead`: `Spec => []DecisionsRestOnWhatWasRead`

The first four hold of every interleaving. They rest on `IInv`, whose part `CommandsHold`
says what a command has in hand between its reads and its write: the revision it read
exists and, revisions being immutable, still is what it was when it was verified;
`ModificationsAreTheNodes` adds that a valid later revision is not signed by the origin.
The last two need `SerialInv`: while nothing has overlapped at most one command runs, so
that the status and the revision it read are still the ones in force when it writes
(`HeldAlone`). Its first part is what an overlapping command breaks, and the run
`bundle_race_lifecycle` shows that nothing weaker would do.

`InboxProofs` proves, from `InboxConstants`, for any receivers, importers, envelopes,
bundles, windows and defects:

* `TypeCorrect`: `Spec => []TypeOK`
* `MessagesAreAcceptedOnce`: if `Grace >= MaxDelay`, `Spec => []AcceptedOnce`
* `ReplaysAreHonest`: `Spec => []HonestReplay`
* `SerialLedgerIsComplete`: if there is at most one importer,
  `Spec => []LedgerIsComplete`

`AcceptedOnce` alone is not inductive: `InFlight` adds that a receiver at work read the
clock inside the window and at most `MaxDelay` ago, `RowKept` that the row of a message
acted on is present or its horizon has passed; together they put the horizon after every
commit that could still find the row missing. `HonestReplay` needs that every row stands
for an act, and that the validators raise only the reasons of their own order. The ledger
theorem needs that what the importer has loaded still is the file, which a second importer
breaks.

`CorrectionDeliveryProofs` proves, from `CorrectionDeliveryConstants`, for any notifiers,
retriers, recipients, notifications, attempts and clock bounds:

* `DeliveredHasArrived`: `Spec => []DeliveredMeansArrived`
* `FailuresStayVisible`: `Spec => []FailureStaysVisible`
* `NotifiedOnce`: `Spec => []SentOncePerRecipient`
* `DeliveryRecordsAgree`: `Spec => []RecordsOfDeliveriesAgree`
* `SettledForGood`: `Spec => OutcomeIsFinal`, the safety part of
  `DeliveriesAreSettledForGood`

A call holds results between the sending and the recording, so the inductive invariant
says of each call what it holds: what it calls delivered has arrived, the revision it read
is an older one or the one in force, its results and the events it has yet to append are
about rows that exist, and, while nothing has overlapped, its recipients are distinct and
not recorded as sent. What one step may do to shared state is proved once (`Grows`: what has arrived
stays, logs and revisions extend, rows only evolve), and the calls that stand still keep
what they hold under `Grows`. The visibility of a failure rests on the revision compared
at the write: whoever overwrote the status would have read the failure.

`ClaimGraphProofs` proves, from `ClaimGraphConstants` (the workloads name objects and
decisions of the vocabulary), for any workers, claims, objects, rulings, edges and results:

* `ComputeImpactIsDownstream`: for every finite set of edges, the traversal computes the
  least set downstream of the seeds
* `StatusIsAlwaysEarned`: `Spec => []StatusIsEarned`
* `KillsAreDecided`: `Spec => []DecidedByMeansKilled`
* `DrivenIsNeverSupported`: `Spec => []DrivenIsNotSupported`
* `ReviewAlwaysReachesDownstream`: `Spec => []ReviewReachesDownstream`
* `ImpactIsAlwaysKnown`: `Spec => []ImpactIsKnown`

The first is about a recursive function over an interval: its induction is written as the
choice of a least counterexample in a set of naturals, with the level sets shown to grow
until they are closed, which is before the bound because the objects are finite. The
invariants rest on two things. `Extends` is what a step may add to the store: one
revision, which continues a path of the lifecycle, and edges; everything a worker has read
of statuses, edges and rulings survives it, or the revision it will compare does not.
`Sound` is what a worker's command holds between two of its transactions: the ceiling and
the support it checked, the edges gathered so far, which hold whatever was downstream at
the beginning unless a frontier still leads there, and the claims already marked. Statuses
never return from review or withdrawal to support, which is what makes the last three
properties permanent.

`FederationProofs` proves, from `FederationConstants`, for any actors, keys, transfers,
contracts, edges, notifications and calls:

* `AnswersAlwaysTakeEffect`: `Spec => []AnswersHaveTheirEffects`
* `ObligationsAlwaysReachDownstream`: `Spec => []ObligationsReachDownstream`
* `CorrectionsAreAlwaysAnswered`: `Spec => []CorrectionsAreAnswered`
* `TrustStaysSettled`: `Spec => TrustIsSettled`

A call reads the log, a document or an obligation in one step and writes in a later one,
so `IInv` says of every call what it holds of what it read (`Holds`): the key it trusted
was trusted when it began, the duties it has yet to store are those of its transfer, the
revision it will compare is an older one or the one in force. `Traverses` is that part for
the gathering of edges: every id already visited was expanded in some earlier graph, so
that an empty frontier means the ids found are closed and contain what was downstream at
the beginning. The rest is about what is stored: answers and registrations were `Trusted`
when they began, obligations rest on a decision that was in force (`ObligationsInv`), and
the revisions of an obligation are one path of its lifecycle whose propagated objects are
downstream and bound by an edge (`BindingInv`). The conditions "but for overlapping calls"
and "but for deaths" are the properties' own: the code checks before its transaction and
stores duties one at a time. There is one lemma for each read and each write, and those
that say what a standing call keeps when another one writes.

`ReleaseProofs` proves, from `ReleaseConstants` and `StoreConventions`, for any processes, paths, release ids, first store, commands and
changes by others:

* `ReleaseOutputs`: `Spec => OutputsAreApproved`
* `ReleaseSupersession`: `Spec => []SupersessionIsALine`
* `ReleasePublications`: `Spec => []PublicReportsAreFailClosed`
* `ReleaseShowsTheStore`: `Spec => []BundlesShowTheStore`

The parts of the inductive invariant `IInv` are: `GivenInv`, the ids given out are the
first ones and exactly the release records have them, which makes "younger" a fact about
places in `ReleaseIds`; `LineInv`, every superseded release names a younger one and has
one event; `DiskInv`, a release record on disk lies beside the files of its manifest;
`Outcomes`, what a caller was told is still true of disk and store; and `Holds`, what a
command in flight holds: its release is recorded with the manifest of the files it has
built, its path was free when it began, and if the old release still has the revision it
read then it is not superseded, which is what a racing supersession would break. `Evolves`,
`DiskKept` and `ToldKept` say once what a step may do to store, disk and outcomes, and
everything that stands keeps its promise under them. The crate's two releases are counted
by the banner because the approved ids are finitely many (`FirstIdsAre`).

`ReleaseShowsTheStore` compares readings of the store at different instants, and rests on a
second invariant, `BInv`. `StoreConventions` is what it needs of those who write: crates,
anchors and reviews have one revision (`VerificationService.record` and
`EvidenceAnchorService.create` refuse any other, `evidence_crate.py` seals at revision 1
only), an id keeps its kind, the claims a crate proposes are among what it refers to
(`_CRATE_URN_ARRAY_FIELDS` of the export), and evidence refers to no release. `Grows` says
what a step then does to the store: what was read is still there, a correction that was
rewritten was written later than everything before, and if the event is one of a release,
old and new store are `Alike`. From there:

* What a claim reaches is the least closed set around it: `Reached` counts hops up to the
  number of stored objects, every level before a closed one has grown, so the bound is
  never met early (`FromExists`). Hence added evidence only adds to a closure
  (`ClosureGrows`), and stores that are alike export and render alike (`ExportSame`,
  `RenderSame`, `BundleSame`).
* `Reads` says of a command between its readings that while only releases are written it
  would read the same again, and that it holds every critical correction that was there
  when it began (`ReportShows`). `ReleaseShows` is what becomes of it when the release is
  recorded: if nothing moved during the assembly both halves of the bundle were read from
  stores that are alike, as one reading is consistent (`ConsistentNow`) the bundle is, and
  stays so because reviews are written once (`ConsistentKept`).
* A correction is shown by the report if it was last written before the assembly began, by
  the banner if after the record; both can never share an instant, as every write has its
  own (`ObjectsInv`), and in between is the case the property excepts.
* A verification that finds a bundle different when nothing moved and the same
  classification was brought would differ from itself (`RebuildMatches`); `ToldWhy` keeps
  this for every outcome told.

`ReleasePublications` rests on a third, `DInv`, because the arguments a report was made
with and the report itself meet only when the command is over: in between the report is in
the command's hands (`HoldsReport`), then in the release record and under its directory
(`ReleaseAttests`, `DirIs`) or in the outcome and under its path (`FileIs`, with
`WrittenLast` for the command that wrote the path last). `Attests` is what travels along.
It begins where the store is read: for every store, closure and attestation what
`build_report` makes of them fails closed (`ReportFailsClosed`). And it outlives every
change: a correction that was in force when the command began can be resolved, but none
becomes one that was (`OlderKept`, from `Grows`), so a report stays fail-closed
(`FailClosedKept`).

`EvidenceLoopProofs` proves, from `EvidenceLoopConstants` (operators are not runs, the ids
a run's inputs are made into are objects, attempts are numbers), for any runs, operators,
objects, corpora, parameters and attempts:

* `InductiveInvariant`: `Spec => []IInv`
* `RunsAreAlwaysBacked`: `Spec => []RunsAreBacked`
* `WorkIsAlwaysAuthorized`: `Spec => []WorkIsAuthorized`
* `ExecutorAnswersOnce`: `Spec => []OneAnswerPerAttempt`, the safety part of
  `RunsEndWithOneAnswer`

That a crate is backed when it is sealed says nothing about the store one step earlier, so
the invariant speaks of the whole list of calls. `ScriptOK`: each call of the list a run
was given (`FirstCalls`, then `LastCalls` of its outcome) is still in its script, or is
`Done`: what it was to leave is in the store, in a form no later step takes back (an object
exists, its first revision holds what was given, some revision has had the status, the
edge is there). `Grows` states once what a step may do to the store, and `Done` survives
it. The list is a concatenation of parts with loops over analyses and corpus rows in them;
what is in it, that the execution is its last call and that after the seal only the
crate's own edge follows are facts about `FlattenSeq` and `SetToSeq`, proved from their
definitions. `CommandOK` and `PendingOK` say of a revision that waits between its read and
its write that it still follows from the revision read and is what the script's next call
asks for; revisions are compared at the write, so an operator's step in between makes the
run abort instead. `RunOK` adds that an executor which runs, or an outcome which exists,
has every first call done, and that a completed synthesis found the declared lock;
`LeftOK` reads this backwards: what exists of a run implies the approval, the completion
or everything `Behind` its crate. `LookupOK` is the invariant of a lookup read page by
page. Statuses that nothing follows (`frozen`, `issued`) are then the latest ones
(`LastStatus`).

Only model-checked: liveness (`TransactionsEnd`, `EventuallyDispatched`,
`EveryPendingDeliveryResolves`, `EveryRunEnds`), which is outside the prover's reach, and
everything about `LiteratureChannel`. Most of what its properties say is about what its
commands compute with the operators of `Measurement`, `ArchiveAudit` and the fetch scripts
(statistics, verdicts, matched entries, numerals in a text): these fold over data, where a proof for every
input would be an induction.

## 5. Plan

What is left, most important first:

1. `LiteratureChannel`: of its properties, `WatchesAreHonest` and `ModelIsNotShopped` do
   not depend on such computations and could be proved.
2. Composition of `TaskBundle` and `EvidenceLoop`: a run on a bundle that is being
   modified.

## 6. Not modelled

* Field validation of the contracts, canonical JSON and cryptographic primitives: digests
  and signatures are abstract values and predicates, identifiers never collide.
* The verifier's arithmetic and anchor checks, the skeptic and the planner: they build one
  result from their arguments or from a model's answer and keep no state.
* `domain/independence.py` and `domain/crate_trust.py`: no service calls them.
  `source_family/service.py` stores one first revision that nothing reads back.
* The prompt registry, rendering to Markdown, HTML and JSON, logging and argument parsing;
  the commands of `practice_main`, `correction_main` and `verification_main`, which wire
  arguments to one service call.
* Benchmarks, the gold-freeze check, schema migrations.
* The part of the bundle lifecycle from QUEUED on, which has no command in the service and
  is in the transition table only.
