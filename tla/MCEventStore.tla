---------------------------- MODULE MCEventStore ----------------------------
(* Instances of EventStore for TLC. *)
EXTENDS EventStore, TLC

CONSTANTS o1, o2, x1, e1, e2

\* Writes and event-only calls about one object compete for its revisions, its edge
\* and their event ids; a first revision of another object competes with them for
\* the log alone or for an event id.
MCCalls ==
    [writes : BOOLEAN, object : {o1}, expected : 0 .. 1, edges : SUBSET {x1}, event_id : {e1, e2}]
    \cup [writes : {TRUE}, object : {o2}, expected : {0}, edges : {{}}, event_id : {e2}]
=============================================================================
