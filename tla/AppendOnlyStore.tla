--------------------------- MODULE AppendOnlyStore ---------------------------
(***************************************************************************)
(* What the persistence core promises its callers, with transactions,       *)
(* locks, identity columns and hashes left out: one log that only grows, a   *)
(* latest revision per object that only advances by one, and an atomic step  *)
(* that does both.  EventStore implements it.                                *)
(***************************************************************************)
EXTENDS Naturals, Sequences

CONSTANTS Objects, Edges, EventIds

VARIABLES
    latest,     \* object id -> latest revision, 0 before the first
    links,      \* edges recorded so far
    log         \* the domain events, oldest first

storeVars == <<latest, links, log>>

Fresh(id) == \A i \in 1 .. Len(log) : log[i].id # id

AddEdges(X) == /\ X \subseteq Edges \ links
              /\ links' = links \cup X

\* A caller records the successor of the latest revision together with its event.
RecordRevision(o, X, id) ==
    /\ Fresh(id)
    /\ AddEdges(X)
    /\ latest' = [latest EXCEPT ![o] = latest[o] + 1]
    /\ log' = Append(log, [id |-> id, object_id |-> o, object_revision |-> latest[o] + 1])

\* A caller records an event about a revision that exists.
RecordEvent(o, X, id) ==
    /\ Fresh(id)
    /\ AddEdges(X)
    /\ \E n \in 1 .. latest[o] :
          log' = Append(log, [id |-> id, object_id |-> o, object_revision |-> n])
    /\ UNCHANGED latest

Init == /\ latest = [o \in Objects |-> 0]
        /\ links = {}
        /\ log = <<>>

Next == \E o \in Objects, id \in EventIds, X \in SUBSET Edges :
            RecordRevision(o, X, id) \/ RecordEvent(o, X, id)

Spec == Init /\ [][Next]_storeVars
=============================================================================
