----------------------- MODULE MCPersistentEventStore -----------------------
(* Small instances of PersistentEventStore for TLC. *)
EXTENDS PersistentEventStore

CONSTANTS t1, t2, p1, p2

ThreadSet == {t1, t2}
OnePayload == {p1}
TwoPayloads == {p1, p2}
FromStart == {0, 1, 2}

EveryFault == FaultNames
OnlyCrashes == {"crash"}
OnlyMetaWrites == {"meta_write"}

(* A meta.json that cannot be parsed, one that claims events the log does   *)
(* not have, and two with the next sequence of a log of one event: one that *)
(* counts too many, and one that counts none and, without a log, numbers on *)
(* from another log.                                                        *)
DamagedMetas == {NoMeta, Meta(9, 8), Meta(2, 2), Meta(2, 0)}
NoDamage == {}
=============================================================================
