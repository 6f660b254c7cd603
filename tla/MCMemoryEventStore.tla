------------------------- MODULE MCMemoryEventStore -------------------------
(* A small instance of MemoryEventStore for TLC. *)
EXTENDS MemoryEventStore

CONSTANTS t1, t2, p1, p2

ThreadSet == {t1, t2}
PayloadSet == {p1, p2}
ReplayStarts == {0, 1, 2}
=============================================================================
