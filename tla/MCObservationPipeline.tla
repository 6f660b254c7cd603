----------------------- MODULE MCObservationPipeline -----------------------
(* Small instances of ObservationPipeline for TLC. *)
EXTENDS ObservationPipeline

CONSTANTS t1, t2, src, main, tmp

ThreadSet == {t1, t2}
ProjectRoot == << src >>
IgnoredSet == {tmp}

Main == << src, main >>
Swap == << src, tmp, main >>
Elsewhere == << main >>

(* A plain change, one out of the root, a deletion out of scope, an editor's *)
(* save (a temporary file renamed into place) and its reverse.               *)
RawObservations ==
  { Observation(Main, "Modified", Main),
    Observation(Elsewhere, "Created", Elsewhere),
    Observation(Swap, "Deleted", Swap),
    Observation(Main, "Renamed", Swap),
    Observation(Swap, "Renamed", Main) }
=============================================================================
