---------------------------- MODULE InboxProofs ----------------------------
(***************************************************************************)
(* Theorems about Inbox, for any number of receivers, importers, envelopes  *)
(* and bundles and every length of the validity windows.                    *)
(***************************************************************************)
EXTENDS Inbox, TLAPS

-----------------------------------------------------------------------------
(* What the validators raise *)

Orders == {EnvelopeBefore, EnvelopeAfter, BundleBefore, BundleAfter}

\* A nonempty set of positions in one of the orders has a first one.
LEMMA FirstExists ==
    ASSUME NEW failing \in SUBSET (1 .. 5), failing # {}
    PROVE  \E k \in failing : \A j \in failing : k <= j
  <1>1. CASE 1 \in failing
    BY <1>1
  <1>2. CASE 1 \notin failing /\ 2 \in failing
    BY <1>2
  <1>3. CASE 1 \notin failing /\ 2 \notin failing /\ 3 \in failing
    BY <1>3
  <1>4. CASE 1 \notin failing /\ 2 \notin failing /\ 3 \notin failing /\ 4 \in failing
    BY <1>4
  <1>5. CASE 1 \notin failing /\ 2 \notin failing /\ 3 \notin failing /\ 4 \notin failing
    <2>1. \A k \in failing : k = 5
      BY <1>5
    <2>2. PICK k : k \in failing
      OBVIOUS
    <2>3. \A j \in failing : k <= j
      BY <2>1, <2>2
    <2> QED
      BY <2>2, <2>3
  <1> QED
    BY <1>1, <1>2, <1>3, <1>4, <1>5

\* The orders are short sequences of reasons, and the replay query is in none of them.
LEMMA OrdersAreReasons ==
    ASSUME NEW conditions \in Orders
    PROVE  /\ DOMAIN conditions \subseteq 1 .. 5
           /\ \A k \in DOMAIN conditions : conditions[k] \in Reasons \ {"already_processed"}
  <1>1. CASE conditions = EnvelopeBefore
    BY <1>1 DEF EnvelopeBefore, Reasons, Defects
  <1>2. CASE conditions = EnvelopeAfter
    BY <1>2 DEF EnvelopeAfter, Reasons, Defects
  <1>3. CASE conditions = BundleBefore
    BY <1>3 DEF BundleBefore, Reasons, Defects
  <1>4. CASE conditions = BundleAfter
    BY <1>4 DEF BundleAfter, Reasons, Defects
  <1> QED
    BY <1>1, <1>2, <1>3, <1>4 DEF Orders

\* Raised is None exactly when every condition holds, and otherwise a reason of its order.
LEMMA RaisedCases ==
    ASSUME NEW m, NEW at, NEW conditions \in Orders
    PROVE  \/ /\ Raised(m, at, conditions) = None
              /\ \A k \in DOMAIN conditions : ~Fails(m, at, conditions[k])
           \/ Raised(m, at, conditions) \in Reasons \ {"already_processed", None}
  <1> DEFINE failing == {k \in DOMAIN conditions : Fails(m, at, conditions[k])}
  <1>1. CASE failing = {}
    BY <1>1 DEF Raised
  <1>2. CASE failing # {}
    <2>1. failing \in SUBSET (1 .. 5)
      BY OrdersAreReasons
    <2>2. \E k \in failing : \A j \in failing : k <= j
      BY <2>1, <1>2, FirstExists
    <2> DEFINE first == CHOOSE k \in failing : \A j \in failing : k <= j
    <2>3. first \in failing
      BY <2>2
    <2>4. Raised(m, at, conditions) = conditions[first]
      BY <1>2 DEF Raised
    <2> HIDE DEF first
    <2> QED
      BY <2>3, <2>4, OrdersAreReasons, InboxConstants
  <1> QED
    BY <1>1, <1>2

\* An envelope that passes the conditions before the replay query is within its window.
LEMMA PassedIsWithinWindow ==
    ASSUME NEW m, NEW at, Raised(m, at, EnvelopeBefore) = None
    PROVE  WithinWindow(m, at)
  <1>1. EnvelopeBefore \in Orders /\ 2 \in DOMAIN EnvelopeBefore
            /\ EnvelopeBefore[2] = "outside_validity_window"
    BY DEF Orders, EnvelopeBefore
  <1>2. \A k \in DOMAIN EnvelopeBefore : ~Fails(m, at, EnvelopeBefore[k])
    BY <1>1, RaisedCases, InboxConstants
  <1> QED
    BY <1>1, <1>2 DEF Fails

-----------------------------------------------------------------------------
(* Types *)

LEMMA InitTypeOK == Init => TypeOK
  BY InboxConstants DEF Init, TypeOK

LEMMA NextTypeOK == TypeOK /\ [Next]_vars => TypeOK'
  <1> SUFFICES ASSUME TypeOK, [Next]_vars PROVE TypeOK'
    OBVIOUS
  <1> USE InboxConstants
  <1>1. ASSUME NEW r \in Receivers, NEW m \in Envelopes, BeginEnvelope(r, m) PROVE TypeOK'
    <2>1. EnvelopeBefore \in Orders
      BY DEF Orders
    <2>2. Raised(m, now, EnvelopeBefore) # None => Raised(m, now, EnvelopeBefore) \in Reasons
      BY <2>1, RaisedCases
    <2>3. [step |-> "replay", id |-> m, at |-> now] \in ReceiverCall
      BY DEF ReceiverCall, TypeOK
    <2>4. receiver' \in [Receivers -> ReceiverCall \cup {Idle}]
      BY <1>1, <2>3 DEF BeginEnvelope, TypeOK
    <2>5. refused' \subseteq (Envelopes \cup Bundles) \X Reasons
      BY <1>1, <2>2 DEF BeginEnvelope, TypeOK, Refuse
    <2> QED
      BY <1>1, <2>4, <2>5 DEF BeginEnvelope, TypeOK, bundleVars
  <1>2. ASSUME NEW r \in Receivers, AskProcessed(r) PROVE TypeOK'
    <2>1. EnvelopeAfter \in Orders
      BY DEF Orders
    <2>2. receiver[r] \in ReceiverCall
      BY <1>2 DEF AskProcessed, TypeOK
    <2>3. Raised(receiver[r].id, receiver[r].at, EnvelopeAfter) # None =>
              Raised(receiver[r].id, receiver[r].at, EnvelopeAfter) \in Reasons
      BY <2>1, RaisedCases
    <2>4. receiver' \in [Receivers -> ReceiverCall \cup {Idle}]
      BY <1>2, <2>2 DEF AskProcessed, TypeOK, ReceiverCall
    <2>5. refused' \subseteq (Envelopes \cup Bundles) \X Reasons
      BY <1>2, <2>2, <2>3 DEF AskProcessed, TypeOK, Refuse, ReceiverCall, Reasons
    <2> QED
      BY <1>2, <2>4, <2>5 DEF AskProcessed, TypeOK, bundleVars
  <1>3. ASSUME NEW r \in Receivers, RecordProcessed(r) PROVE TypeOK'
    <2>1. receiver[r] \in ReceiverCall /\ receiver[r].id \in Envelopes
      BY <1>3 DEF RecordProcessed, TypeOK, ReceiverCall
    <2>2. receiver' \in [Receivers -> ReceiverCall \cup {Idle}]
      BY <1>3 DEF RecordProcessed, TypeOK
    <2>3. refused' \subseteq (Envelopes \cup Bundles) \X Reasons
      BY <1>3, <2>1 DEF RecordProcessed, TypeOK, Refuse, Reasons
    <2>4. accepted' \in [Envelopes -> 0 .. MaxCount] /\ processed_ids' \subseteq Envelopes
      BY <1>3, <2>1 DEF RecordProcessed, TypeOK
    <2> QED
      BY <1>3, <2>2, <2>3, <2>4 DEF RecordProcessed, TypeOK, bundleVars
  <1>4. ASSUME NEW r \in Receivers, CrashReceiver(r) PROVE TypeOK'
    BY <1>4 DEF CrashReceiver, TypeOK, bundleVars
  <1>5. ASSUME NEW i \in Importers, NEW b \in Bundles, BeginBundle(i, b) PROVE TypeOK'
    <2>1. BundleBefore \in Orders
      BY DEF Orders
    <2>2. Raised(b, now, BundleBefore) # None => Raised(b, now, BundleBefore) \in Reasons
      BY <2>1, RaisedCases
    <2>3. [step |-> "replay", id |-> b, at |-> now, ids |-> {}] \in ImporterCall
      BY DEF ImporterCall, TypeOK
    <2>4. importer' \in [Importers -> ImporterCall \cup {Idle}]
      BY <1>5, <2>3 DEF BeginBundle, TypeOK
    <2>5. refused' \subseteq (Envelopes \cup Bundles) \X Reasons
      BY <1>5, <2>2 DEF BeginBundle, TypeOK, Refuse
    <2> QED
      BY <1>5, <2>4, <2>5 DEF BeginBundle, TypeOK, envelopeVars
  <1>6. ASSUME NEW i \in Importers, AskLedger(i) PROVE TypeOK'
    <2>1. BundleAfter \in Orders
      BY DEF Orders
    <2>2. importer[i] \in ImporterCall
      BY <1>6 DEF AskLedger, TypeOK
    <2>3. Raised(importer[i].id, importer[i].at, BundleAfter) # None =>
              Raised(importer[i].id, importer[i].at, BundleAfter) \in Reasons
      BY <2>1, RaisedCases
    <2>4. importer' \in [Importers -> ImporterCall \cup {Idle}]
      <3>1. [importer[i] EXCEPT !.step = "load"] \in ImporterCall
        BY <2>2 DEF ImporterCall
      <3>2. \/ importer' = [importer EXCEPT ![i] = [importer[i] EXCEPT !.step = "load"]]
            \/ importer' = [importer EXCEPT ![i] = Idle]
        BY <1>6 DEF AskLedger, TypeOK
      <3> QED
        BY <3>1, <3>2 DEF TypeOK
    <2>5. refused' \subseteq (Envelopes \cup Bundles) \X Reasons
      BY <1>6, <2>2, <2>3 DEF AskLedger, TypeOK, Refuse, ImporterCall, Reasons
    <2> QED
      BY <1>6, <2>4, <2>5 DEF AskLedger, TypeOK, envelopeVars
  <1>7. ASSUME NEW i \in Importers, LoadLedger(i) PROVE TypeOK'
    <2>1. importer[i] \in ImporterCall
      BY <1>7 DEF LoadLedger, TypeOK
    <2>2. [importer[i] EXCEPT !.step = "replace", !.ids = ledger] \in ImporterCall
      BY <2>1 DEF ImporterCall, TypeOK
    <2>3. importer' = [importer EXCEPT ![i] =
                          [importer[i] EXCEPT !.step = "replace", !.ids = ledger]]
      BY <1>7 DEF LoadLedger, TypeOK
    <2>4. importer' \in [Importers -> ImporterCall \cup {Idle}]
      BY <2>2, <2>3 DEF TypeOK
    <2> QED
      BY <1>7, <2>4 DEF LoadLedger, TypeOK, envelopeVars
  <1>8. ASSUME NEW i \in Importers, ReplaceLedger(i) PROVE TypeOK'
    <2>1. importer[i] \in ImporterCall
      BY <1>8 DEF ReplaceLedger, TypeOK
    <2>2. importer' \in [Importers -> ImporterCall \cup {Idle}] /\ ledger' \subseteq Bundles
      BY <1>8, <2>1 DEF ReplaceLedger, TypeOK, ImporterCall
    <2> QED
      BY <1>8, <2>2 DEF ReplaceLedger, TypeOK, envelopeVars
  <1>9. ASSUME NEW i \in Importers, ReportBundle(i) PROVE TypeOK'
    <2>1. importer[i].id \in Bundles
      BY <1>9 DEF ReportBundle, TypeOK, ImporterCall
    <2>2. /\ importer' \in [Importers -> ImporterCall \cup {Idle}]
          /\ reported' \in [Bundles -> 0 .. MaxCount]
          /\ received' \subseteq Envelopes
      BY <1>9, <2>1 DEF ReportBundle, TypeOK
    <2> QED
      BY <1>9, <2>2 DEF ReportBundle, TypeOK, envelopeVars
  <1>10. ASSUME NEW i \in Importers, CrashImporter(i) PROVE TypeOK'
    BY <1>10 DEF CrashImporter, TypeOK, envelopeVars
  <1>11. ASSUME NEW m \in Envelopes, Arrive(m) PROVE TypeOK'
    BY <1>11 DEF Arrive, TypeOK, envelopeVars, bundleVars
  <1>12. CASE prune_expired
    BY <1>12 DEF prune_expired, TypeOK, bundleVars
  <1>13. CASE Tick
    BY <1>13 DEF Tick, TypeOK, envelopeVars, bundleVars
  <1>14. CASE UNCHANGED vars
    BY <1>14 DEF vars, TypeOK
  <1> QED
    BY <1>1, <1>2, <1>3, <1>4, <1>5, <1>6, <1>7, <1>8, <1>9, <1>10, <1>11, <1>12, <1>13, <1>14
    DEF Next, ReceiverStep, ImporterStep

\* Every reachable state is well typed.
THEOREM TypeCorrect == Spec => []TypeOK
  BY InitTypeOK, NextTypeOK, PTL DEF Spec

-----------------------------------------------------------------------------
(* A message is acted on once *)

\* A receiver looked at the clock while its envelope was valid, and not longer
\* than MaxDelay ago.
InFlight ==
    \A r \in Receivers : receiver[r] # Idle =>
        /\ now <= receiver[r].at + MaxDelay
        /\ receiver[r].at < Signed[receiver[r].id].expires_at

\* The row of a message that was acted on is there, or its horizon has passed.
RowKept ==
    \A m \in Envelopes : accepted[m] > 0 =>
        m \in processed_ids \/ Signed[m].expires_at + Grace <= now

OnceInv == AcceptedOnce /\ InFlight /\ RowKept

\* While a receiver is at work on a message that was acted on, the row is there:
\* with a grace of at least MaxDelay the horizon is still ahead.
LEMMA RowOutlivesReceiver ==
    ASSUME TypeOK, OnceInv, Grace >= MaxDelay, NEW r \in Receivers, receiver[r] # Idle,
           accepted[receiver[r].id] > 0
    PROVE  receiver[r].id \in processed_ids
  <1>1. receiver[r] \in ReceiverCall
    BY DEF TypeOK
  <1>2. receiver[r].id \in Envelopes /\ receiver[r].at \in Nat
    BY <1>1 DEF ReceiverCall
  <1>3. Signed[receiver[r].id].expires_at \in Nat
    BY <1>2, InboxConstants
  <1>4. now <= receiver[r].at + MaxDelay /\ receiver[r].at < Signed[receiver[r].id].expires_at
    BY DEF OnceInv, InFlight
  <1>5. ~(Signed[receiver[r].id].expires_at + Grace <= now)
    BY <1>2, <1>3, <1>4, InboxConstants DEF TypeOK
  <1> QED
    BY <1>2, <1>5 DEF OnceInv, RowKept

LEMMA InitOnceInv == Init => OnceInv
  BY InboxConstants DEF Init, OnceInv, AcceptedOnce, InFlight, RowKept

\* Steps that leave the clock, the table, the counts and the receivers alone.
LEMMA OtherStepsKeepOnceInv ==
    ASSUME OnceInv, UNCHANGED <<now, processed_ids, accepted, receiver>>
    PROVE  OnceInv'
  BY DEF OnceInv, AcceptedOnce, InFlight, RowKept

LEMMA NextOnceInv ==
    ASSUME Grace >= MaxDelay, TypeOK, OnceInv, [Next]_vars
    PROVE  OnceInv'
  <1> USE InboxConstants
  <1>1. ASSUME NEW r \in Receivers, NEW m \in Envelopes, BeginEnvelope(r, m) PROVE OnceInv'
    <2>1. UNCHANGED <<now, processed_ids, accepted>>
      BY <1>1 DEF BeginEnvelope
    <2>2. AcceptedOnce' /\ RowKept'
      BY <2>1 DEF OnceInv, AcceptedOnce, RowKept
    <2>3. CASE Raised(m, now, EnvelopeBefore) = None
      <3>1. now < Signed[m].expires_at
        BY <2>3, PassedIsWithinWindow DEF WithinWindow
      <3>2. receiver' = [receiver EXCEPT ![r] = [step |-> "replay", id |-> m, at |-> now]]
        BY <1>1, <2>3 DEF BeginEnvelope
      <3>3. now <= now + MaxDelay
        BY DEF TypeOK
      <3>4. ASSUME NEW u \in Receivers, receiver'[u] # Idle
            PROVE  /\ now <= receiver'[u].at + MaxDelay
                   /\ receiver'[u].at < Signed[receiver'[u].id].expires_at
        <4>1. CASE u = r
          BY <3>1, <3>2, <3>3, <4>1 DEF TypeOK
        <4>2. CASE u # r
          BY <3>2, <3>4, <4>2 DEF TypeOK, OnceInv, InFlight
        <4> QED
          BY <4>1, <4>2
      <3>5. InFlight'
        BY <3>4, <2>1 DEF InFlight
      <3> QED
        BY <2>2, <3>5 DEF OnceInv
    <2>4. CASE Raised(m, now, EnvelopeBefore) # None
      BY <1>1, <2>1, <2>4, OtherStepsKeepOnceInv DEF BeginEnvelope
    <2> QED
      BY <2>3, <2>4
  <1>2. ASSUME NEW r \in Receivers, AskProcessed(r) PROVE OnceInv'
    <2>1. UNCHANGED <<now, processed_ids, accepted>>
      BY <1>2 DEF AskProcessed
    <2>2. receiver[r] \in ReceiverCall /\ receiver[r] # Idle
      BY <1>2 DEF AskProcessed, TypeOK
    <2>3. \/ receiver' = [receiver EXCEPT ![r] = [receiver[r] EXCEPT !.step = "record"]]
          \/ receiver' = [receiver EXCEPT ![r] = Idle]
      BY <1>2 DEF AskProcessed, TypeOK
    <2>4. \A u \in Receivers : receiver'[u] # Idle =>
              receiver[u] # Idle /\ receiver'[u].at = receiver[u].at /\ receiver'[u].id = receiver[u].id
      BY <2>2, <2>3 DEF TypeOK, ReceiverCall
    <2> QED
      BY <2>1, <2>4 DEF OnceInv, AcceptedOnce, InFlight, RowKept
  <1>3. ASSUME NEW r \in Receivers, RecordProcessed(r) PROVE OnceInv'
    <2> DEFINE m == receiver[r].id
    <2>1. m \in Envelopes /\ receiver[r] # Idle /\ now' = now
      BY <1>3 DEF RecordProcessed, TypeOK, ReceiverCall
    <2>2. receiver' = [receiver EXCEPT ![r] = Idle]
      BY <1>3 DEF RecordProcessed
    <2>3. InFlight'
      BY <2>1, <2>2 DEF TypeOK, OnceInv, InFlight
    <2>4. CASE already_processed(m)
      <3>1. UNCHANGED <<processed_ids, accepted>>
        BY <1>3, <2>4 DEF RecordProcessed
      <3> QED
        BY <2>1, <2>3, <3>1 DEF OnceInv, AcceptedOnce, RowKept
    <2>5. CASE ~already_processed(m)
      <3>1. processed_ids' = processed_ids \cup {m} /\ accepted' = [accepted EXCEPT ![m] = @ + 1]
        BY <1>3, <2>5 DEF RecordProcessed
      <3>2. ~(accepted[m] > 0)
        BY <2>1, <2>5, RowOutlivesReceiver DEF already_processed
      <3>3. accepted[m] = 0
        BY <2>1, <3>2 DEF TypeOK
      <3>4. AcceptedOnce'
        BY <2>1, <3>1, <3>3 DEF TypeOK, OnceInv, AcceptedOnce
      <3>5. RowKept'
        BY <2>1, <3>1 DEF TypeOK, OnceInv, RowKept
      <3> QED
        BY <2>3, <3>4, <3>5 DEF OnceInv
    <2> QED
      BY <2>4, <2>5
  <1>4. ASSUME NEW r \in Receivers, CrashReceiver(r) PROVE OnceInv'
    BY <1>4 DEF CrashReceiver, TypeOK, OnceInv, AcceptedOnce, InFlight, RowKept
  <1>5. ASSUME NEW i \in Importers, ImporterStep(i) PROVE OnceInv'
    <2>1. UNCHANGED <<now, processed_ids, accepted, receiver>>
      BY <1>5 DEF ImporterStep, BeginBundle, AskLedger, LoadLedger, ReplaceLedger, ReportBundle,
                  CrashImporter, envelopeVars
    <2> QED
      BY <2>1, OtherStepsKeepOnceInv
  <1>6. ASSUME NEW m \in Envelopes, Arrive(m) PROVE OnceInv'
    BY <1>6, OtherStepsKeepOnceInv DEF Arrive, envelopeVars
  <1>7. CASE prune_expired
    <2>1. UNCHANGED <<now, accepted, receiver>>
      BY <1>7 DEF prune_expired
    <2>2. \A m \in processed_ids \ processed_ids' : Signed[m].expires_at + Grace <= now
      BY <1>7 DEF prune_expired, processed_id_retention_horizon
    <2> QED
      BY <2>1, <2>2 DEF OnceInv, AcceptedOnce, InFlight, RowKept
  <1>8. CASE Tick
    <2>1. /\ now' = now + 1
          /\ UNCHANGED <<processed_ids, accepted, receiver>>
          /\ \A r \in Receivers : receiver[r] # Idle => now < receiver[r].at + MaxDelay
      BY <1>8 DEF Tick, envelopeVars
    <2>2. \A r \in Receivers : receiver[r] # Idle => receiver[r].at \in Nat
      BY DEF TypeOK, ReceiverCall
    <2>3. InFlight'
      BY <2>1, <2>2 DEF TypeOK, OnceInv, InFlight
    <2>4. RowKept'
      BY <2>1 DEF TypeOK, OnceInv, RowKept
    <2> QED
      BY <2>1, <2>3, <2>4 DEF OnceInv, AcceptedOnce
  <1>9. CASE UNCHANGED vars
    BY <1>9, OtherStepsKeepOnceInv DEF vars
  <1> QED
    BY <1>1, <1>2, <1>3, <1>4, <1>5, <1>6, <1>7, <1>8, <1>9 DEF Next, ReceiverStep

\* If the retention grace covers the time from a receiver's evaluation instant to
\* its commit, no message is acted on twice.
THEOREM MessagesAreAcceptedOnce ==
    ASSUME Grace >= MaxDelay
    PROVE  Spec => []AcceptedOnce
  <1>1. Init => TypeOK /\ OnceInv
    BY InitTypeOK, InitOnceInv
  <1>2. TypeOK /\ OnceInv /\ [Next]_vars => (TypeOK /\ OnceInv)'
    BY NextTypeOK, NextOnceInv
  <1>3. OnceInv => AcceptedOnce
    BY DEF OnceInv
  <1> QED
    BY <1>1, <1>2, <1>3, PTL DEF Spec

-----------------------------------------------------------------------------
(* A replay refusal is honest *)

\* A row is written with the act it stands for.
RowsAreActs == \A m \in processed_ids : accepted[m] > 0

HonestInv == HonestReplay /\ RowsAreActs

\* Two refusals of different kinds of object are different.
LEMMA BundleIsNoEnvelope ==
    ASSUME NEW b \in Bundles, NEW m \in Envelopes
    PROVE  b # m
  BY InboxConstants

LEMMA NextHonestInv ==
    ASSUME TypeOK, HonestInv, [Next]_vars
    PROVE  HonestInv'
  <1> USE InboxConstants
  <1>1. ASSUME NEW r \in Receivers, NEW m \in Envelopes, BeginEnvelope(r, m) PROVE HonestInv'
    <2>1. EnvelopeBefore \in Orders
      BY DEF Orders
    <2>2. Raised(m, now, EnvelopeBefore) # "already_processed"
      BY <2>1, RaisedCases DEF Reasons
    <2>3. \A n \in Envelopes : <<n, "already_processed">> \in refused' =>
              <<n, "already_processed">> \in refused
      BY <1>1, <2>2 DEF BeginEnvelope, Refuse
    <2> QED
      BY <1>1, <2>3 DEF BeginEnvelope, HonestInv, HonestReplay, RowsAreActs
  <1>2. ASSUME NEW r \in Receivers, AskProcessed(r) PROVE HonestInv'
    <2>1. EnvelopeAfter \in Orders
      BY DEF Orders
    <2>2. Raised(receiver[r].id, receiver[r].at, EnvelopeAfter) # "already_processed"
      BY <2>1, RaisedCases DEF Reasons
    <2>3. \A n \in Envelopes : <<n, "already_processed">> \in refused' =>
              <<n, "already_processed">> \in refused \/ n \in processed_ids
      BY <1>2, <2>2 DEF AskProcessed, Refuse, already_processed
    <2> QED
      BY <1>2, <2>3 DEF AskProcessed, HonestInv, HonestReplay, RowsAreActs
  <1>3. ASSUME NEW r \in Receivers, RecordProcessed(r) PROVE HonestInv'
    <2>1. receiver[r].id \in Envelopes
      BY <1>3 DEF RecordProcessed, TypeOK, ReceiverCall
    <2>2. CASE already_processed(receiver[r].id)
      BY <1>3, <2>2 DEF RecordProcessed, Refuse, already_processed, HonestInv, HonestReplay,
                        RowsAreActs
    <2>3. CASE ~already_processed(receiver[r].id)
      <3>1. /\ refused' = refused
            /\ processed_ids' = processed_ids \cup {receiver[r].id}
            /\ accepted' = [accepted EXCEPT ![receiver[r].id] = @ + 1]
        BY <1>3, <2>3 DEF RecordProcessed
      <3>2. \A n \in Envelopes : accepted[n] > 0 => accepted'[n] > 0
        BY <2>1, <3>1 DEF TypeOK
      <3>3. accepted'[receiver[r].id] > 0
        BY <2>1, <3>1 DEF TypeOK
      <3> QED
        BY <3>1, <3>2, <3>3 DEF TypeOK, HonestInv, HonestReplay, RowsAreActs
    <2> QED
      BY <2>2, <2>3
  <1>4. ASSUME NEW i \in Importers, ImporterStep(i) PROVE HonestInv'
    <2>1. UNCHANGED <<processed_ids, accepted>>
      BY <1>4 DEF ImporterStep, BeginBundle, AskLedger, LoadLedger, ReplaceLedger, ReportBundle,
                  CrashImporter, envelopeVars
    <2>2. \/ refused' = refused
          \/ \E b \in Bundles : Refuse(b, Raised(b, now, BundleBefore))
          \/ importer[i] # Idle /\ \E reason : Refuse(importer[i].id, reason)
      BY <1>4 DEF ImporterStep, BeginBundle, AskLedger, LoadLedger, ReplaceLedger, ReportBundle,
                  CrashImporter
    <2>3. importer[i] # Idle => importer[i].id \in Bundles
      BY DEF TypeOK, ImporterCall
    <2>4. \A n \in Envelopes : <<n, "already_processed">> \in refused' =>
              <<n, "already_processed">> \in refused
      BY <2>2, <2>3, BundleIsNoEnvelope DEF Refuse
    <2> QED
      BY <2>1, <2>4 DEF HonestInv, HonestReplay, RowsAreActs
  <1>5. CASE prune_expired
    BY <1>5 DEF prune_expired, HonestInv, HonestReplay, RowsAreActs
  <1>6. ASSUME UNCHANGED <<processed_ids, accepted, refused>> PROVE HonestInv'
    BY <1>6 DEF HonestInv, HonestReplay, RowsAreActs
  <1>7. ASSUME NEW r \in Receivers, CrashReceiver(r) PROVE HonestInv'
    BY <1>6, <1>7 DEF CrashReceiver
  <1>8. ASSUME NEW m \in Envelopes, Arrive(m) PROVE HonestInv'
    BY <1>6, <1>8 DEF Arrive, envelopeVars
  <1>9. CASE Tick
    BY <1>6, <1>9 DEF Tick, envelopeVars
  <1>10. CASE UNCHANGED vars
    BY <1>6, <1>10 DEF vars
  <1> QED
    BY <1>1, <1>2, <1>3, <1>4, <1>5, <1>7, <1>8, <1>9, <1>10 DEF Next, ReceiverStep

\* An envelope is refused as a replay only after it was acted on, whatever crashes.
THEOREM ReplaysAreHonest == Spec => []HonestReplay
  <1>1. Init => TypeOK /\ HonestInv
    BY InitTypeOK DEF Init, HonestInv, HonestReplay, RowsAreActs
  <1>2. TypeOK /\ HonestInv /\ [Next]_vars => (TypeOK /\ HonestInv)'
    BY NextTypeOK, NextHonestInv
  <1>3. HonestInv => HonestReplay
    BY DEF HonestInv
  <1> QED
    BY <1>1, <1>2, <1>3, PTL DEF Spec

-----------------------------------------------------------------------------
(* The ledger of a node that runs one import at a time *)

\* What the importer has read of the ledger is still what the file holds.
LedgerOf(call) ==
    /\ call.step \in {"load", "replace", "report"} => reported[call.id] = 0
    /\ call.step = "replace" => call.ids = ledger
    /\ call.step = "report" => call.id \in ledger

LedgerInv ==
    /\ LedgerKeepsReported
    /\ BundleReportedOnce
    /\ \A i \in Importers : importer[i] # Idle => LedgerOf(importer[i])

LEMMA NextLedgerInv ==
    ASSUME \A i, j \in Importers : i = j, TypeOK, LedgerInv, [Next]_vars
    PROVE  LedgerInv'
  <1> USE InboxConstants
  <1>1. ASSUME UNCHANGED <<ledger, reported>>,
               \A i \in Importers : importer'[i] # Idle => LedgerOf(importer'[i])
        PROVE  LedgerInv'
    BY <1>1 DEF LedgerInv, LedgerKeepsReported, BundleReportedOnce, LedgerOf
  <1>2. ASSUME NEW i \in Importers, NEW b \in Bundles, BeginBundle(i, b) PROVE LedgerInv'
    <2>1. \/ importer' = importer
          \/ importer' = [importer EXCEPT ![i] = [step |-> "replay", id |-> b, at |-> now, ids |-> {}]]
      BY <1>2 DEF BeginBundle
    <2>2. \A j \in Importers : importer'[j] # Idle => LedgerOf(importer'[j])
      BY <2>1 DEF TypeOK, LedgerInv, LedgerOf
    <2> QED
      BY <1>1, <1>2, <2>2 DEF BeginBundle
  <1>3. ASSUME NEW i \in Importers, AskLedger(i) PROVE LedgerInv'
    <2>1. importer[i] \in ImporterCall /\ importer[i].id \in Bundles
      BY <1>3 DEF AskLedger, TypeOK, ImporterCall
    <2>2. CASE importer' = [importer EXCEPT ![i] = Idle]
      <3>1. \A j \in Importers : importer'[j] # Idle => LedgerOf(importer'[j])
        BY <2>2 DEF TypeOK, LedgerInv
      <3> QED
        BY <1>1, <1>3, <3>1 DEF AskLedger
    <2>3. CASE importer' # [importer EXCEPT ![i] = Idle]
      <3>1. importer' = [importer EXCEPT ![i] = [importer[i] EXCEPT !.step = "load"]]
        BY <1>3, <2>3 DEF AskLedger, TypeOK
      <3>2. importer[i].id \notin ledger
        BY <1>3, <2>3 DEF AskLedger, Reasons
      <3>3. reported[importer[i].id] = 0
        BY <2>1, <3>2 DEF LedgerInv, LedgerKeepsReported, TypeOK
      <3>4. LedgerOf([importer[i] EXCEPT !.step = "load"])
        BY <2>1, <3>3 DEF LedgerOf, ImporterCall
      <3>5. \A j \in Importers : importer'[j] # Idle => LedgerOf(importer'[j])
        BY <3>1, <3>4 DEF TypeOK, LedgerInv
      <3> QED
        BY <1>1, <1>3, <3>5 DEF AskLedger
    <2> QED
      BY <2>2, <2>3
  <1>4. ASSUME NEW i \in Importers, LoadLedger(i) PROVE LedgerInv'
    <2>1. importer[i] \in ImporterCall /\ importer[i] # Idle /\ importer[i].step = "load"
      BY <1>4 DEF LoadLedger, TypeOK
    <2>2. importer' = [importer EXCEPT ![i] =
                          [importer[i] EXCEPT !.step = "replace", !.ids = ledger]]
      BY <1>4 DEF LoadLedger, TypeOK
    <2>3. LedgerOf([importer[i] EXCEPT !.step = "replace", !.ids = ledger])
      BY <2>1 DEF LedgerInv, LedgerOf, ImporterCall
    <2>4. \A j \in Importers : importer'[j] # Idle => LedgerOf(importer'[j])
      BY <2>2, <2>3 DEF TypeOK, LedgerInv
    <2> QED
      BY <1>1, <1>4, <2>4 DEF LoadLedger
  <1>5. ASSUME NEW i \in Importers, ReplaceLedger(i) PROVE LedgerInv'
    <2>1. importer[i] \in ImporterCall /\ importer[i] # Idle /\ importer[i].step = "replace"
      BY <1>5 DEF ReplaceLedger, TypeOK
    <2>2. LedgerOf(importer[i])
      BY <2>1 DEF LedgerInv
    <2>3. importer' = [importer EXCEPT ![i] = [importer[i] EXCEPT !.step = "report"]]
      BY <1>5 DEF ReplaceLedger, TypeOK
    <2>4. ledger' = ledger \cup {importer[i].id} /\ reported' = reported
      BY <1>5, <2>1, <2>2 DEF ReplaceLedger, LedgerOf
    <2>5. \A j \in Importers : importer'[j] = [importer[i] EXCEPT !.step = "report"]
      BY <2>3 DEF TypeOK
    <2>6. (\A j \in Importers : importer[j] # Idle => LedgerOf(importer[j]))'
      BY <2>1, <2>2, <2>4, <2>5 DEF LedgerOf, ImporterCall
    <2> QED
      BY <2>4, <2>6 DEF LedgerInv, LedgerKeepsReported, BundleReportedOnce
  <1>6. ASSUME NEW i \in Importers, ReportBundle(i) PROVE LedgerInv'
    <2>1. /\ importer[i].id \in Bundles /\ importer[i] # Idle /\ importer[i].step = "report"
      BY <1>6 DEF ReportBundle, TypeOK, ImporterCall
    <2>2. importer[i].id \in ledger /\ reported[importer[i].id] = 0
      BY <2>1 DEF LedgerInv, LedgerOf
    <2>3. /\ reported' = [reported EXCEPT ![importer[i].id] = @ + 1]
          /\ ledger' = ledger
          /\ importer' = [importer EXCEPT ![i] = Idle]
      BY <1>6 DEF ReportBundle
    <2>4. \A j \in Importers : importer'[j] = Idle
      BY <2>3 DEF TypeOK
    <2>5. LedgerKeepsReported' /\ BundleReportedOnce'
      BY <2>1, <2>2, <2>3 DEF TypeOK, LedgerInv, LedgerKeepsReported, BundleReportedOnce
    <2> QED
      BY <2>4, <2>5 DEF LedgerInv
  <1>7. ASSUME NEW i \in Importers, CrashImporter(i) PROVE LedgerInv'
    <2>1. \A j \in Importers : importer'[j] # Idle => LedgerOf(importer'[j])
      BY <1>7 DEF CrashImporter, TypeOK, LedgerInv
    <2> QED
      BY <1>1, <1>7, <2>1 DEF CrashImporter
  <1>8. ASSUME UNCHANGED bundleVars PROVE LedgerInv'
    BY <1>8 DEF bundleVars, LedgerInv, LedgerKeepsReported, BundleReportedOnce, LedgerOf
  <1>9. ASSUME NEW r \in Receivers, ReceiverStep(r) PROVE LedgerInv'
    BY <1>8, <1>9 DEF ReceiverStep, BeginEnvelope, AskProcessed, RecordProcessed, CrashReceiver
  <1>10. ASSUME NEW m \in Envelopes, Arrive(m) PROVE LedgerInv'
    BY <1>8, <1>10 DEF Arrive
  <1>11. CASE prune_expired
    BY <1>8, <1>11 DEF prune_expired
  <1>12. CASE Tick
    BY <1>8, <1>12 DEF Tick
  <1>13. CASE UNCHANGED vars
    BY <1>8, <1>13 DEF vars, bundleVars
  <1> QED
    BY <1>2, <1>3, <1>4, <1>5, <1>6, <1>7, <1>9, <1>10, <1>11, <1>12, <1>13
    DEF Next, ImporterStep

\* A node that runs its imports one after the other, killed at any point, keeps
\* every bundle it reported accepted in the ledger and reports none twice.
THEOREM SerialLedgerIsComplete ==
    ASSUME \A i, j \in Importers : i = j
    PROVE  Spec => []LedgerIsComplete
  <1>1. Init => TypeOK /\ LedgerInv
    BY InitTypeOK DEF Init, LedgerInv, LedgerKeepsReported, BundleReportedOnce
  <1>2. TypeOK /\ LedgerInv /\ [Next]_vars => (TypeOK /\ LedgerInv)'
    BY NextTypeOK, NextLedgerInv
  <1>3. LedgerInv => LedgerIsComplete
    BY DEF LedgerInv, LedgerIsComplete
  <1> QED
    BY <1>1, <1>2, <1>3, PTL DEF Spec
============================================================================
