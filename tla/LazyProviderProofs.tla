------------------------- MODULE LazyProviderProofs -------------------------
(***************************************************************************)
(* The safety properties of LazyProvider, for any number of threads.  All  *)
(* of them rest on StateInv: who may publish is the one thread that found  *)
(* the factory, and nobody holds the mutex over a call but under Ready.    *)
(***************************************************************************)
EXTENDS LazyProvider, TLAPS

(* A provider that was just made satisfies the invariant. *)
THEOREM InitInv == Init => IInv
<1> SUFFICES ASSUME Init PROVE IInv
  OBVIOUS
<1> USE ProviderAssumption DEF Init
<1>1. TypeOK
  <2>1. \A t \in Clients : lock = t <=> pc[t] = "running"
    OBVIOUS
  <2>2. QED
    BY <2>1 DEF TypeOK, Labels, Replies
<1>2. StateInv
  BY DEF StateInv
<1>3. MadeOnce
  BY DEF MadeOnce
<1>4. ReplyExplained
  BY DEF ReplyExplained
<1>5. QED
  BY <1>1, <1>2, <1>3, <1>4 DEF IInv

\* No step of any thread breaks the invariant.
THEOREM StepInv == IInv /\ [Next]_vars => IInv'
<1> SUFFICES ASSUME IInv, [Next]_vars PROVE IInv'
  OBVIOUS
<1> USE ProviderAssumption DEF IInv, CanLock, Goto, Return
<1>1. ASSUME NEW t \in Clients, Call(t) PROVE IInv'
  <2> USE <1>1 DEF Call
  <2>1. TypeOK'
    BY DEF TypeOK, StateInv, Labels, Replies
  <2>2. StateInv'
    BY DEF StateInv, TypeOK, MadeOnce
  <2>3. MadeOnce'
    BY DEF MadeOnce, TypeOK, StateInv
  <2>4. ReplyExplained'
    BY DEF ReplyExplained, TypeOK, StateInv, MadeOnce
  <2>5. QED
    BY <2>1, <2>2, <2>3, <2>4
<1>2. ASSUME NEW t \in Clients, LockPanics(t) PROVE IInv'
  <2> USE <1>2 DEF LockPanics
  <2>1. TypeOK'
    BY DEF TypeOK, StateInv, Labels, Replies
  <2>2. StateInv'
    BY DEF StateInv, TypeOK, MadeOnce
  <2>3. MadeOnce'
    BY DEF MadeOnce, TypeOK, StateInv
  <2>4. ReplyExplained'
    BY DEF ReplyExplained, TypeOK, StateInv, MadeOnce
  <2>5. QED
    BY <2>1, <2>2, <2>3, <2>4
<1>3. ASSUME NEW t \in Clients, EnsureKnown(t) PROVE IInv'
  <2> USE <1>3 DEF EnsureKnown
  <2>1. TypeOK'
    BY DEF TypeOK, StateInv, Labels, Replies
  <2>2. StateInv'
    BY DEF StateInv, TypeOK, MadeOnce
  <2>3. MadeOnce'
    BY DEF MadeOnce, TypeOK, StateInv
  <2>4. ReplyExplained'
    BY DEF ReplyExplained, TypeOK, StateInv, MadeOnce
  <2>5. QED
    BY <2>1, <2>2, <2>3, <2>4
<1>4. ASSUME NEW t \in Clients, EnsureBegins(t) PROVE IInv'
  <2>0. runs + 1 \in Nat
    BY DEF TypeOK
  <2> USE <1>4 DEF EnsureBegins
  <2>1. TypeOK'
    <3>0. /\ factory' = FALSE /\ state' = "Loading" /\ runs' = runs + 1 /\ maker' = t
          /\ pc' = [pc EXCEPT ![t] = "create"]
          /\ lock = NoOne /\ UNCHANGED <<provider, lock, poisoned, reply>>
      BY ZenonT(30) DEF StateInv
    <3>1. pc' \in [Clients -> Labels] /\ reply' \in [Clients -> Replies]
      BY <3>0 DEF TypeOK, Labels, Replies
    <3>2. (\A u \in Clients : lock = u <=> pc[u] = "running")'
      BY <3>0 DEF TypeOK
    <3>3. factory' \in BOOLEAN
      BY <3>0, Zenon
    <3>4. {provider, lock, maker}' \subseteq Clients \cup {NoOne} /\ poisoned' \in BOOLEAN
      BY <3>0 DEF TypeOK
    <3>5. QED
      BY <2>0, <3>0, <3>1, <3>2, <3>3, <3>4, Zenon DEF TypeOK
  <2>2. StateInv'
    BY DEF StateInv, TypeOK, MadeOnce
  <2>3. MadeOnce'
    BY DEF MadeOnce, TypeOK, StateInv
  <2>4. ReplyExplained'
    BY DEF ReplyExplained, TypeOK, StateInv, MadeOnce
  <2>5. QED
    BY <2>1, <2>2, <2>3, <2>4
<1>5. ASSUME NEW t \in Clients, PublishReady(t) PROVE IInv'
  <2> USE <1>5 DEF PublishReady
  <2>1. TypeOK'
    BY DEF TypeOK, StateInv, Labels, Replies
  <2>2. StateInv'
    BY DEF StateInv, TypeOK, MadeOnce
  <2>3. MadeOnce'
    BY DEF MadeOnce, TypeOK, StateInv
  <2>4. ReplyExplained'
    BY DEF ReplyExplained, TypeOK, StateInv, MadeOnce
  <2>5. QED
    BY <2>1, <2>2, <2>3, <2>4
<1>6. ASSUME NEW t \in Clients, PublishFailed(t) PROVE IInv'
  <2> USE <1>6 DEF PublishFailed
  <2>1. TypeOK'
    BY DEF TypeOK, StateInv, Labels, Replies
  <2>2. StateInv'
    BY DEF StateInv, TypeOK, MadeOnce
  <2>3. MadeOnce'
    BY DEF MadeOnce, TypeOK, StateInv
  <2>4. ReplyExplained'
    BY DEF ReplyExplained, TypeOK, StateInv, MadeOnce
  <2>5. QED
    BY <2>1, <2>2, <2>3, <2>4
<1>7. ASSUME NEW t \in Clients, ExecuteBegins(t) PROVE IInv'
  <2> USE <1>7 DEF ExecuteBegins
  <2>1. TypeOK'
    <3>0. pc' = [pc EXCEPT ![t] = "running"] /\ lock = NoOne /\ lock' = t /\ UNCHANGED reply
      BY DEF StateInv
    <3>1. pc' \in [Clients -> Labels] /\ reply' \in [Clients -> Replies]
      BY <3>0 DEF TypeOK, Labels, Replies
    <3>2. (\A u \in Clients : lock = u <=> pc[u] = "running")'
      BY <3>0 DEF TypeOK
    <3>3. QED
      BY <3>1, <3>2 DEF TypeOK
  <2>2. StateInv'
    BY DEF StateInv, TypeOK, MadeOnce
  <2>3. MadeOnce'
    BY DEF MadeOnce, TypeOK, StateInv
  <2>4. ReplyExplained'
    BY DEF ReplyExplained, TypeOK, StateInv, MadeOnce
  <2>5. QED
    BY <2>1, <2>2, <2>3, <2>4
<1>8. ASSUME NEW t \in Clients, Info(t) PROVE IInv'
  <2> USE <1>8 DEF Info
  <2>1. TypeOK'
    BY DEF TypeOK, StateInv, Labels, Replies
  <2>2. StateInv'
    BY DEF StateInv, TypeOK, MadeOnce
  <2>3. MadeOnce'
    BY DEF MadeOnce, TypeOK, StateInv
  <2>4. ReplyExplained'
    BY DEF ReplyExplained, TypeOK, StateInv, MadeOnce
  <2>5. QED
    BY <2>1, <2>2, <2>3, <2>4
<1>9. ASSUME NEW t \in Clients, Health(t) PROVE IInv'
  <2> USE <1>9 DEF Health
  <2>1. TypeOK'
    BY DEF TypeOK, StateInv, Labels, Replies
  <2>2. StateInv'
    BY DEF StateInv, TypeOK, MadeOnce
  <2>3. MadeOnce'
    BY DEF MadeOnce, TypeOK, StateInv
  <2>4. ReplyExplained'
    BY DEF ReplyExplained, TypeOK, StateInv, MadeOnce
  <2>5. QED
    BY <2>1, <2>2, <2>3, <2>4
<1>10. ASSUME NEW t \in Clients, Create(t) PROVE IInv'
  <2> USE <1>10 DEF Create
  <2>1. TypeOK'
    BY DEF TypeOK, StateInv, Labels, Replies
  <2>2. StateInv'
    BY DEF StateInv, TypeOK, MadeOnce
  <2>3. MadeOnce'
    BY DEF MadeOnce, TypeOK, StateInv
  <2>4. ReplyExplained'
    BY DEF ReplyExplained, TypeOK, StateInv, MadeOnce
  <2>5. QED
    BY <2>1, <2>2, <2>3, <2>4
<1>11. ASSUME NEW t \in Clients, ExecuteEnds(t) PROVE IInv'
  <2> USE <1>11 DEF ExecuteEnds
  <2>1. TypeOK'
    BY DEF TypeOK, StateInv, Labels, Replies
  <2>2. StateInv'
    BY DEF StateInv, TypeOK, MadeOnce
  <2>3. MadeOnce'
    BY DEF MadeOnce, TypeOK, StateInv
  <2>4. ReplyExplained'
    BY DEF ReplyExplained, TypeOK, StateInv, MadeOnce
  <2>5. QED
    BY <2>1, <2>2, <2>3, <2>4
<1>12. CASE UNCHANGED vars
  BY <1>12 DEF vars, TypeOK, StateInv, MadeOnce, ReplyExplained
<1>13. QED
  BY <1>1, <1>2, <1>3, <1>4, <1>5, <1>6, <1>7, <1>8, <1>9, <1>10, <1>11, <1>12 DEF Next, OwnStep

(* The invariant holds in every reachable state (lazy_provider.rs). *)
THEOREM Invariance == Spec => []IInv
BY InitInv, StepInv, PTL DEF Spec

\* TypeOK of the run, for every set of threads.
THEOREM TypeCorrect == Spec => []TypeOK
BY Invariance, PTL DEF IInv

\* The factory is run once at most and Ready is what it made, for every set of
\* threads.
THEOREM MadeOnceAlways == Spec => []MadeOnce
BY Invariance, PTL DEF IInv

\* Every answer is explained by the state, for every set of threads.
THEOREM ReplyExplainedAlways == Spec => []ReplyExplained
BY Invariance, PTL DEF IInv
=============================================================================
