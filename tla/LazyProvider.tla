---------------------------- MODULE LazyProvider ----------------------------
(***************************************************************************)
(* LazyProvider (runtime/src/lazy_provider.rs): a provider that runs its   *)
(* factory at the first execute.  Two mutexes: the state, and the factory, *)
(* which is only locked under the first and never waited for.  The factory *)
(* runs with neither; the provider it made runs with the state locked.     *)
(*                                                                         *)
(* What is done under a mutex without calling out is one action.  A panic  *)
(* ends the thread's call; under the mutex it poisons the mutex, and who   *)
(* locks it later panics too (lock().unwrap()).  Whether a factory or a    *)
(* provider succeeds, fails, panics or never returns is its own affair.    *)
(***************************************************************************)
EXTENDS Naturals

CONSTANTS
  Clients,   \* the threads that share the provider
  NoOne      \* the owner of a free mutex, the maker of nothing

ASSUME ProviderAssumption == NoOne \notin Clients

VARIABLES
  factory,   \* whether the factory is still there
  state,     \* Uninitialized, Loading, Ready or Failed
  provider,  \* under Ready, the thread whose factory run made it
  lock,      \* the owner of the state's mutex
  poisoned,
  pc, reply, \* each thread's next step and the answer to its last call
  runs,      \* history: how often the factory was run
  maker      \* history: the thread that ran it last

vars == <<factory, state, provider, lock, poisoned, pc, reply, runs, maker>>

Init ==
  /\ factory = TRUE
  /\ state = "Uninitialized"
  /\ provider = NoOne
  /\ lock = NoOne
  /\ poisoned = FALSE
  /\ pc = [t \in Clients |-> "idle"]
  /\ reply = [t \in Clients |-> "none"]
  /\ runs = 0
  /\ maker = NoOne

Goto(t, label) == pc' = [pc EXCEPT ![t] = label]

Return(t, r) ==
  /\ Goto(t, "idle")
  /\ reply' = [reply EXCEPT ![t] = r]

\* execute, info or health is called.
Call(t) ==
  /\ pc[t] = "idle"
  /\ \E label \in {"ensure", "info", "health"} : Goto(t, label)
  /\ reply' = [reply EXCEPT ![t] = "none"]
  /\ UNCHANGED <<factory, state, provider, lock, poisoned, runs, maker>>

CanLock(t) == lock = NoOne /\ ~poisoned

\* lock().unwrap() on a poisoned mutex.
LockPanics(t) ==
  /\ pc[t] \in {"ensure", "made", "unmade", "execute", "info", "health"}
  /\ lock = NoOne /\ poisoned
  /\ Return(t, "panicked")
  /\ UNCHANGED <<factory, state, provider, lock, poisoned, runs, maker>>

-----------------------------------------------------------------------------
(* ensure_ready *)

\* A provider that is made, failed, or being made by another thread.
EnsureKnown(t) ==
  /\ pc[t] = "ensure" /\ CanLock(t)
  /\ \/ state = "Ready" /\ Goto(t, "execute") /\ UNCHANGED reply
     \/ state = "Failed" /\ Return(t, "failed")
     \/ state = "Loading" /\ Return(t, "loading")
  /\ UNCHANGED <<factory, state, provider, lock, poisoned, runs, maker>>

\* Variant: a Loading that is not recorded, a factory that is only borrowed.
EnsureBeginsAgain(t) ==
  /\ pc[t] = "ensure" /\ CanLock(t)
  /\ state = "Uninitialized"
  /\ Goto(t, "create")
  /\ runs' = runs + 1 /\ maker' = t
  /\ UNCHANGED <<factory, state, provider, lock, poisoned, reply>>

\* Variant: the mutex is kept while the factory runs.
EnsureKeepsLock(t) ==
  /\ pc[t] = "ensure" /\ CanLock(t)
  /\ state = "Uninitialized"
  /\ factory' = FALSE /\ state' = "Loading" /\ lock' = t
  /\ runs' = runs + 1 /\ maker' = t
  /\ Goto(t, "create")
  /\ UNCHANGED <<provider, poisoned, reply>>

\* The first caller takes the factory and leaves the mutex.
EnsureBegins(t) ==
  /\ pc[t] = "ensure" /\ CanLock(t)
  /\ state = "Uninitialized"
  /\ IF factory
       THEN /\ factory' = FALSE
            /\ state' = "Loading"
            /\ runs' = runs + 1 /\ maker' = t
            /\ Goto(t, "create")
            /\ UNCHANGED reply
       ELSE /\ Return(t, "factory consumed")
            /\ UNCHANGED <<factory, state, runs, maker>>
  /\ UNCHANGED <<provider, lock, poisoned>>

\* factory.create() returns, or panics: then no one is left to leave Loading.
Create(t) ==
  /\ pc[t] = "create"
  /\ \/ Goto(t, "made") /\ UNCHANGED reply
     \/ Goto(t, "unmade") /\ UNCHANGED reply
     \/ Return(t, "panicked")
  /\ UNCHANGED <<factory, state, provider, lock, poisoned, runs, maker>>

PublishReady(t) ==
  /\ pc[t] = "made" /\ CanLock(t)
  /\ state' = "Ready"
  /\ provider' = t
  /\ Goto(t, "execute")
  /\ UNCHANGED <<factory, lock, poisoned, reply, runs, maker>>

\* Variant: a failed factory leaves the state as it was found.
PublishNothing(t) ==
  /\ pc[t] = "unmade" /\ CanLock(t)
  /\ state' = "Uninitialized"
  /\ Return(t, "failed")
  /\ UNCHANGED <<factory, provider, lock, poisoned, runs, maker>>

PublishFailed(t) ==
  /\ pc[t] = "unmade" /\ CanLock(t)
  /\ state' = "Failed"
  /\ Return(t, "failed")
  /\ UNCHANGED <<factory, provider, lock, poisoned, runs, maker>>

-----------------------------------------------------------------------------
(* execute, info, health *)

\* Variant: the provider runs after the mutex is released.
ExecuteUnlocked(t) ==
  /\ pc[t] = "execute" /\ CanLock(t)
  /\ state = "Ready"
  /\ Goto(t, "running")
  /\ UNCHANGED <<factory, state, provider, lock, poisoned, reply, runs, maker>>

ExecuteBegins(t) ==
  /\ pc[t] = "execute" /\ CanLock(t)
  /\ IF state = "Ready"
       THEN lock' = t /\ Goto(t, "running") /\ UNCHANGED reply
       ELSE Return(t, "not ready") /\ UNCHANGED lock
  /\ UNCHANGED <<factory, state, provider, poisoned, runs, maker>>

\* The provider's own execute returns Ok or Err, or panics under the mutex.
ExecuteEnds(t) ==
  /\ pc[t] = "running"
  /\ lock' = NoOne
  /\ \/ Return(t, "provider answered") /\ UNCHANGED poisoned
     \/ Return(t, "panicked") /\ poisoned' = TRUE
  /\ UNCHANGED <<factory, state, provider, runs, maker>>

Info(t) ==
  /\ pc[t] = "info" /\ CanLock(t)
  /\ Return(t, IF state = "Ready" THEN "provider answered" ELSE "lazy")
  /\ UNCHANGED <<factory, state, provider, lock, poisoned, runs, maker>>

Health(t) ==
  /\ pc[t] = "health" /\ CanLock(t)
  /\ \/ state = "Ready" /\ Return(t, "provider answered")
     \/ state = "Failed" /\ Return(t, "failed to load")
     \/ state \in {"Uninitialized", "Loading"} /\ Return(t, "not loaded")
  /\ UNCHANGED <<factory, state, provider, lock, poisoned, runs, maker>>

\* The steps a scheduler owes a thread; not the factory's, not the provider's.
OwnStep(t) ==
  \/ LockPanics(t) \/ EnsureKnown(t) \/ EnsureBegins(t)
  \/ PublishReady(t) \/ PublishFailed(t)
  \/ ExecuteBegins(t) \/ Info(t) \/ Health(t)

Next == \E t \in Clients : Call(t) \/ OwnStep(t) \/ Create(t) \/ ExecuteEnds(t)

Spec == Init /\ [][Next]_vars

FairSpec == Spec /\ \A t \in Clients : WF_vars(OwnStep(t))

-----------------------------------------------------------------------------
(* Properties *)

Labels == {"idle", "ensure", "create", "made", "unmade", "execute", "running",
           "info", "health"}
Replies == {"none", "failed", "loading", "factory consumed", "not ready",
            "panicked", "provider answered", "lazy", "failed to load", "not loaded"}

\* Every variable has its type, and the mutex belongs to the thread inside the
\* provider.
TypeOK ==
  /\ factory \in BOOLEAN /\ poisoned \in BOOLEAN
  /\ state \in {"Uninitialized", "Loading", "Ready", "Failed"}
  /\ {provider, lock, maker} \subseteq Clients \cup {NoOne}
  /\ pc \in [Clients -> Labels]
  /\ reply \in [Clients -> Replies]
  /\ runs \in Nat
  /\ \A t \in Clients : lock = t <=> pc[t] = "running"

\* However many threads call at once and however the factory ends, it is run
\* once at most, by one thread at a time, and a Ready provider is what that run
\* made.
MadeOnce ==
  /\ runs <= 1
  /\ \A t \in Clients : pc[t] \in {"create", "made", "unmade"} =>
       state = "Loading" /\ maker = t
  /\ state = "Ready" => provider = maker /\ maker # NoOne

\* Every answer tells the truth about the factory and its provider: the two
\* defensive errors are never given, an answer of the provider means Ready, a
\* failure is the factory's and for good, "loading" means its run has begun,
\* and only the thread whose factory panicked and those that meet a provider's
\* panic panic themselves.
ReplyExplained == \A t \in Clients :
  /\ reply[t] \notin {"factory consumed", "not ready"}
  /\ reply[t] = "provider answered" => state = "Ready"
  /\ reply[t] \in {"failed", "failed to load"} => state = "Failed"
  /\ reply[t] = "loading" => ~factory /\ runs = 1
  /\ reply[t] = "panicked" =>
       \/ poisoned /\ state = "Ready"
       \/ maker = t /\ state = "Loading" /\ pc[t] = "idle"

\* While the factory runs, however long, callers are not kept waiting.
NotBlockedByLoading == \A t \in Clients :
  (state = "Loading" /\ pc[t] \in {"ensure", "info", "health"})
    ~> (state # "Loading" \/ pc[t] = "idle")

-----------------------------------------------------------------------------
(* The strengthening that makes the safety properties inductive *)

\* The state tells whether the factory has been taken, and a call past
\* ensure_ready, a held mutex or a poisoned one means Ready.
StateInv ==
  /\ factory <=> state = "Uninitialized"
  /\ runs = IF factory THEN 0 ELSE 1
  /\ ~factory => maker \in Clients
  /\ poisoned => state = "Ready"
  /\ \A t \in Clients : pc[t] \in {"execute", "running"} => state = "Ready"

IInv == TypeOK /\ StateInv /\ MadeOnce /\ ReplyExplained
=============================================================================
