------------------------------- MODULE Inbox -------------------------------
(***************************************************************************)
(* The receiving side of federation: signed envelopes reach this node one   *)
(* by one or in offline bundles, possibly more than once.                   *)
(*                                                                         *)
(* Importers run `mrr federation inbox accept` on bundle files and remember *)
(* the bundle ids in a JSON ledger (FileBackedReplayLedger).  Receivers run *)
(* validate_inbound_envelope and record the message id in the processed_ids *)
(* table (PostgresProcessedIdStore) in the transaction that acts on the     *)
(* message; a sweep prunes that table.  Every process may die between two   *)
(* of its steps.                                                            *)
(***************************************************************************)
EXTENDS Naturals, Sequences, FiniteSets

CONSTANTS
    Receivers,      \* processes that validate and act on envelopes
    Importers,      \* processes that import bundles
    Envelopes,      \* message ids
    Bundles,        \* bundle ids
    Signed,         \* the sealed object behind an id: window, key window, defects
    Contents,       \* the envelopes of a bundle
    Online,         \* envelopes that are also sent one by one
    Grace,          \* grace of the PostgresProcessedIdStore
    MaxDelay,       \* bound: how long a receiver takes from its instant to its commit
    MaxCount,       \* bound: acceptances counted per id
    MaxTime,        \* bound: the clock
    None

\* The reasons of EnvelopeRejectionReason and BundleRejectionReason; a defect is
\* one that the received object carries whenever it is looked at.
Defects == {"wrong_recipient", "hash_mismatch", "signer_mismatch", "unknown_key", "signature_invalid"}
Reasons == Defects \cup {"outside_validity_window", "already_processed", "key_not_valid"}

\* Message ids and bundle ids are different entity segments of a URN.
ASSUME InboxConstants ==
    /\ Envelopes \cap Bundles = {}
    /\ Signed \in [Envelopes \cup Bundles ->
                      [sent_at : Nat, expires_at : Nat, key_from : Nat, key_until : Nat,
                       defects : SUBSET Defects]]
    /\ Contents \in [Bundles -> SUBSET Envelopes]
    /\ Online \subseteq Envelopes
    /\ Grace \in Nat /\ MaxDelay \in Nat /\ MaxCount \in Nat \ {0} /\ MaxTime \in Nat
    /\ None \notin Reasons

VARIABLES
    now,            \* the clock
    received,       \* envelopes that are at this node
    processed_ids,  \* ids of the rows of the table
    accepted,       \* how often an envelope was acted on
    refused,        \* the refusals: <<id, reason>>
    ledger,         \* processed_bundle_ids of the ledger file
    reported,       \* how often a bundle was reported accepted
    receiver,       \* per receiver: the call it is running
    importer        \* per importer: the command it is running

vars == <<now, received, processed_ids, accepted, refused, ledger, reported, receiver, importer>>
envelopeVars == <<processed_ids, accepted, receiver>>
bundleVars == <<ledger, reported, importer>>

Idle == [step |-> "idle"]
ReceiverCall == [step : {"replay", "record"}, id : Envelopes, at : Nat]
ImporterCall == [step : {"replay", "load", "replace", "report"}, id : Bundles, at : Nat,
                 ids : SUBSET Bundles]

-----------------------------------------------------------------------------
(* validate_inbound_envelope, validate_inbound_bundle *)

\* Mutant of WithinWindow: expires_at itself is inside.
WithinWindowInclusive(m, at) == Signed[m].sent_at <= at /\ at <= Signed[m].expires_at

\* sent_at <= evaluation_instant < expires_at.
WithinWindow(m, at) == Signed[m].sent_at <= at /\ at < Signed[m].expires_at

\* KeyRing.is_valid_at; a rotated or revoked key has an empty window.
is_valid_at(m, at) == Signed[m].key_from <= at /\ at < Signed[m].key_until

Fails(m, at, reason) ==
    \/ reason \in Signed[m].defects
    \/ reason = "outside_validity_window" /\ ~WithinWindow(m, at)
    \/ reason = "key_not_valid" /\ ~is_valid_at(m, at)

\* The first condition in the given order that fails: the exception raised.
Raised(m, at, conditions) ==
    LET failing == {k \in DOMAIN conditions : Fails(m, at, conditions[k])}
    IN  IF failing = {} THEN None
        ELSE conditions[CHOOSE k \in failing : \A j \in failing : k <= j]

\* The envelope's hash is checked before the replay query, the bundle's entry
\* hashes after the signature.
EnvelopeBefore == <<"wrong_recipient", "outside_validity_window", "hash_mismatch">>
EnvelopeAfter == <<"signer_mismatch", "unknown_key", "key_not_valid", "signature_invalid">>
BundleBefore == <<"wrong_recipient", "outside_validity_window">>
BundleAfter == <<"signer_mismatch", "unknown_key", "key_not_valid", "signature_invalid",
                 "hash_mismatch">>

Refuse(m, reason) == refused' = refused \cup {<<m, reason>>}

-----------------------------------------------------------------------------
(* PostgresProcessedIdStore *)

\* expires_at + grace.
processed_id_retention_horizon(expires_at) == expires_at + Grace

already_processed(m) == m \in processed_ids

\* prune_expired(now).
prune_expired ==
    /\ processed_ids' = {m \in processed_ids :
                            ~ processed_id_retention_horizon(Signed[m].expires_at) <= now}
    /\ processed_ids' # processed_ids
    /\ UNCHANGED <<now, received, accepted, refused, receiver, bundleVars>>

-----------------------------------------------------------------------------
(* Receiving one envelope *)

\* The conditions before the replay query.  `at` defaults to the instant of the call.
BeginEnvelope(r, m) ==
    LET raised == Raised(m, now, EnvelopeBefore)
    IN  /\ receiver[r] = Idle
        /\ m \in received
        /\ IF raised = None
           THEN /\ receiver' = [receiver EXCEPT ![r] = [step |-> "replay", id |-> m, at |-> now]]
                /\ UNCHANGED refused
           ELSE /\ Refuse(m, raised)
                /\ UNCHANGED receiver
        /\ UNCHANGED <<now, received, processed_ids, accepted, bundleVars>>

\* The replay query, in a connection of its own, and the conditions after it.
AskProcessed(r) ==
    LET call == receiver[r]
        raised == IF already_processed(call.id) THEN "already_processed"
                  ELSE Raised(call.id, call.at, EnvelopeAfter)
    IN  /\ call # Idle /\ call.step = "replay"
        /\ IF raised = None
           THEN /\ receiver' = [receiver EXCEPT ![r].step = "record"]
                /\ UNCHANGED refused
           ELSE /\ Refuse(call.id, raised)
                /\ receiver' = [receiver EXCEPT ![r] = Idle]
        /\ UNCHANGED <<now, received, processed_ids, accepted, bundleVars>>

\* Mutant of RecordProcessed: record_processed commits by itself, and the process
\* may die before it acts.
RecordApart(r) ==
    LET call == receiver[r]
    IN  /\ call # Idle /\ call.step = "record"
        /\ ~ already_processed(call.id)
        /\ accepted[call.id] < MaxCount
        /\ processed_ids' = processed_ids \cup {call.id}
        /\ accepted' \in {accepted, [accepted EXCEPT ![call.id] = @ + 1]}
        /\ receiver' = [receiver EXCEPT ![r] = Idle]
        /\ UNCHANGED <<now, received, refused, bundleVars>>

\* record_processed_with_connection in the transaction that acts on the message:
\* INSERT ... ON CONFLICT DO NOTHING RETURNING says whether the row is new, and
\* only then the message is acted on.
RecordProcessed(r) ==
    LET call == receiver[r]
    IN  /\ call # Idle /\ call.step = "record"
        /\ IF already_processed(call.id)
           THEN /\ Refuse(call.id, "already_processed")
                /\ UNCHANGED <<processed_ids, accepted>>
           ELSE /\ accepted[call.id] < MaxCount
                /\ processed_ids' = processed_ids \cup {call.id}
                /\ accepted' = [accepted EXCEPT ![call.id] = @ + 1]
                /\ UNCHANGED refused
        /\ receiver' = [receiver EXCEPT ![r] = Idle]
        /\ UNCHANGED <<now, received, bundleVars>>

\* The process dies; an open transaction rolls back.
CrashReceiver(r) ==
    /\ receiver[r] # Idle
    /\ receiver' = [receiver EXCEPT ![r] = Idle]
    /\ UNCHANGED <<now, received, processed_ids, accepted, refused, bundleVars>>

-----------------------------------------------------------------------------
(* mrr federation inbox accept *)

BeginBundle(i, b) ==
    LET raised == Raised(b, now, BundleBefore)
    IN  /\ importer[i] = Idle
        /\ IF raised = None
           THEN /\ importer' = [importer EXCEPT ![i] =
                                   [step |-> "replay", id |-> b, at |-> now, ids |-> {}]]
                /\ UNCHANGED refused
           ELSE /\ Refuse(b, raised)
                /\ UNCHANGED importer
        /\ UNCHANGED <<now, received, ledger, reported, envelopeVars>>

\* ledger.already_processed, and the conditions after it.
AskLedger(i) ==
    LET call == importer[i]
        raised == IF call.id \in ledger THEN "already_processed"
                  ELSE Raised(call.id, call.at, BundleAfter)
    IN  /\ call # Idle /\ call.step = "replay"
        /\ IF raised = None
           THEN /\ importer' = [importer EXCEPT ![i].step = "load"]
                /\ UNCHANGED refused
           ELSE /\ Refuse(call.id, raised)
                /\ importer' = [importer EXCEPT ![i] = Idle]
        /\ UNCHANGED <<now, received, ledger, reported, envelopeVars>>

\* FileBackedReplayLedger.record reads the file ...
LoadLedger(i) ==
    /\ importer[i] # Idle /\ importer[i].step = "load"
    /\ importer' = [importer EXCEPT ![i].step = "replace", ![i].ids = ledger]
    /\ UNCHANGED <<now, received, refused, ledger, reported, envelopeVars>>

\* Mutant of ReplaceLedger: the file is written from an empty list.
ReplaceForgetting(i) ==
    /\ importer[i] # Idle /\ importer[i].step = "replace"
    /\ ledger' = {importer[i].id}
    /\ importer' = [importer EXCEPT ![i].step = "report"]
    /\ UNCHANGED <<now, received, refused, reported, envelopeVars>>

\* ... and replaces it by what it read and the new id, without a lock.
ReplaceLedger(i) ==
    /\ importer[i] # Idle /\ importer[i].step = "replace"
    /\ ledger' = importer[i].ids \cup {importer[i].id}
    /\ importer' = [importer EXCEPT ![i].step = "report"]
    /\ UNCHANGED <<now, received, refused, reported, envelopeVars>>

\* The acceptance is reported and the envelopes go on to their own validation.
ReportBundle(i) ==
    LET b == importer[i].id
    IN  /\ importer[i] # Idle /\ importer[i].step = "report"
        /\ reported[b] < MaxCount
        /\ reported' = [reported EXCEPT ![b] = @ + 1]
        /\ received' = received \cup Contents[b]
        /\ importer' = [importer EXCEPT ![i] = Idle]
        /\ UNCHANGED <<now, refused, ledger, envelopeVars>>

\* The command dies, or the ledger cannot be read or written: nothing is reported, and
\* a ledger not yet replaced is the old one.
CrashImporter(i) ==
    /\ importer[i] # Idle
    /\ importer' = [importer EXCEPT ![i] = Idle]
    /\ UNCHANGED <<now, received, refused, ledger, reported, envelopeVars>>

-----------------------------------------------------------------------------
(* The world outside *)

\* The transport puts an envelope at this node's endpoint.
Arrive(m) ==
    /\ m \in Online \ received
    /\ received' = received \cup {m}
    /\ UNCHANGED <<now, refused, envelopeVars, bundleVars>>

\* A receiver finishes within MaxDelay of its evaluation instant.
Tick ==
    /\ now < MaxTime
    /\ \A r \in Receivers : receiver[r] # Idle => now < receiver[r].at + MaxDelay
    /\ now' = now + 1
    /\ UNCHANGED <<received, refused, envelopeVars, bundleVars>>

-----------------------------------------------------------------------------
Init ==
    /\ now = 0
    /\ received = {}
    /\ processed_ids = {}
    /\ accepted = [m \in Envelopes |-> 0]
    /\ refused = {}
    /\ ledger = {}
    /\ reported = [b \in Bundles |-> 0]
    /\ receiver = [r \in Receivers |-> Idle]
    /\ importer = [i \in Importers |-> Idle]

ReceiverStep(r) ==
    \/ \E m \in Envelopes : BeginEnvelope(r, m)
    \/ AskProcessed(r)
    \/ RecordProcessed(r)
    \/ CrashReceiver(r)

ImporterStep(i) ==
    \/ \E b \in Bundles : BeginBundle(i, b)
    \/ AskLedger(i)
    \/ LoadLedger(i)
    \/ ReplaceLedger(i)
    \/ ReportBundle(i)
    \/ CrashImporter(i)

Next ==
    \/ \E r \in Receivers : ReceiverStep(r)
    \/ \E i \in Importers : ImporterStep(i)
    \/ \E m \in Envelopes : Arrive(m)
    \/ prune_expired
    \/ Tick

Spec == Init /\ [][Next]_vars

-----------------------------------------------------------------------------
(* Properties *)

\* The types of the state; a refusal carries one of the coarse reasons.
TypeOK ==
    /\ now \in Nat
    /\ received \subseteq Envelopes
    /\ processed_ids \subseteq Envelopes
    /\ accepted \in [Envelopes -> 0 .. MaxCount]
    /\ refused \subseteq (Envelopes \cup Bundles) \X Reasons
    /\ ledger \subseteq Bundles
    /\ reported \in [Bundles -> 0 .. MaxCount]
    /\ receiver \in [Receivers -> ReceiverCall \cup {Idle}]
    /\ importer \in [Importers -> ImporterCall \cup {Idle}]

\* No message is acted on twice, however often it arrives, whoever validates it
\* and whenever the processed ids are pruned: what record_processed's answer and
\* the retention horizon are for.
AcceptedOnce == \A m \in Envelopes : accepted[m] <= 1

\* An envelope refused as a replay really was acted on: a crash between validation
\* and commit never leaves a row that turns the only delivery away.
HonestReplay ==
    \A m \in Envelopes : <<m, "already_processed">> \in refused => accepted[m] > 0

\* Every bundle id reported accepted is in the ledger file
\* (FileBackedReplayLedger: "recording every bundle id this node has fully accepted").
LedgerKeepsReported == \A b \in Bundles : reported[b] > 0 => b \in ledger

\* A bundle is reported accepted at most once, with any number of commands run
\* one after the other and any of them killed.
BundleReportedOnce == \A b \in Bundles : reported[b] <= 1

\* The replay ledger with imports that follow one another: what was reported accepted
\* is in the file and is not reported again, wherever an import was killed.
LedgerIsComplete == LedgerKeepsReported /\ BundleReportedOnce
============================================================================
