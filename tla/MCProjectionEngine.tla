------------------------- MODULE MCProjectionEngine -------------------------
(* Small instances of ProjectionEngine for TLC. *)
EXTENDS ProjectionEngine

CONSTANTS t1, t2, a, b, modified

ThreadSet == {t1, t2}
PathSet == {a, b}
OnePath == {a}
OperationSet == {modified}
=============================================================================
