-------------------------- MODULE MCLazyProvider ---------------------------
(* A small instance of LazyProvider for TLC. *)
EXTENDS LazyProvider

CONSTANTS t1, t2, t3

ThreadSet == {t1, t2, t3}
=============================================================================
