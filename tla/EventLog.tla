------------------------------ MODULE EventLog ------------------------------
(***************************************************************************)
(* Events and the pure operations both event stores perform on a log of    *)
(* them (kernel/src/event.rs, store.rs, persistent_store.rs).  An event's  *)
(* id and occurred_at are never read by the stores and are left out.       *)
(***************************************************************************)
EXTENDS Naturals, Sequences, FiniteSets

CONSTANT Payloads

Event == [sequence : Nat \ {0}, payload : Payloads]

PayloadsOf(es) == [i \in DOMAIN es |-> es[i].payload]

\* Variant: takes start_sequence as exclusive.
SelectAfter(es, from, end) ==
  LET hits == {i \in DOMAIN es : es[i].sequence > from /\ es[i].sequence <= end}
      Nth(k) == CHOOSE i \in hits : Cardinality({j \in hits : j <= i}) = k
  IN  [k \in 1 .. Cardinality(hits) |-> es[Nth(k)]]

(* The events of es whose sequence is in from..end, in the order of es.     *)
Select(es, from, end) ==
  LET hits == {i \in DOMAIN es : es[i].sequence >= from /\ es[i].sequence <= end}
      Nth(k) == CHOOSE i \in hits : Cardinality({j \in hits : j <= i}) = k
  IN  [k \in 1 .. Cardinality(hits) |-> es[Nth(k)]]

Ascending(es) == \A i \in 1 .. Len(es) - 1 : es[i].sequence < es[i + 1].sequence

Gapless(es) == \A i \in DOMAIN es : es[i].sequence = i
=============================================================================
