------------------------- MODULE ModelDownloadProofs -------------------------
(***************************************************************************)
(* PublishedVerified and PublishedWhenQuiet for any number of processes,   *)
(* any model, any answers of the server and any files left behind.  As     *)
(* long as no two calls overlap, the process that is at work is alone with *)
(* the directory, so what it has found out about a file stays true until   *)
(* it renames it.  When they do overlap and transfers are whole, a file    *)
(* with a part missing has a writer that will fill it.                     *)
(***************************************************************************)
EXTENDS ModelDownload, SequenceTheorems, WellFoundedInduction, TLAPS

-----------------------------------------------------------------------------
(* The registries *)

(* Induction over the natural numbers, for a set of them.                    *)
LEMMA SetInduction ==
  ASSUME NEW T, 0 \in T, \A n \in Nat : n \in T => n + 1 \in T
  PROVE  Nat \subseteq T
<1> DEFINE missing == Nat \ T
<1> SUFFICES ASSUME missing # {} PROVE FALSE
  OBVIOUS
<1>1. PICK m \in missing : \A k \in missing : ~(<<k, m>> \in OpToRel(<, Nat))
  <2>1. IsWellFoundedOn(OpToRel(<, Nat), Nat)
    BY NatLessThanWellFounded
  <2>2. missing \subseteq Nat
    OBVIOUS
  <2> HIDE DEF missing
  <2> DEFINE R == OpToRel(<, Nat)
  <2>3. IsWellFoundedOn(R, Nat)
    BY <2>1
  <2> HIDE DEF R
  <2>4. \E x \in missing : \A y \in missing : ~(<<y, x>> \in R)
    BY <2>2, <2>3, WFMin
  <2>5. QED
    BY <2>4 DEF R
<1>2. \A k \in missing : ~(k < m)
  BY <1>1 DEF OpToRel
<1>3. m \in Nat /\ m # 0 /\ m - 1 \in Nat /\ m - 1 < m
  OBVIOUS
<1>4. m - 1 \in T
  BY <1>2, <1>3
<1>5. (m - 1) + 1 \in T
  BY <1>3, <1>4
<1>6. QED
  BY <1>3, <1>5

(* A function defined from its value at the number before it is well         *)
(* defined: what merging the first entries makes of a registry.              *)
LEMMA MergedDef ==
  ASSUME NEW p, NEW es, Len(es) \in Nat
  PROVE  \E after :
           /\ after[0] = p /\ after[Len(es)] = Merged(p, es)
           /\ \A i \in 1 .. Len(es) : after[i] = With(after[i - 1], es[i])
<1> DEFINE Step(f, i) == IF i = 0 THEN p ELSE With(f[i - 1], es[i])
           Def(f, n) == f = [i \in 0 .. n |-> Step(f, i)]
           T == {n \in Nat : \E f : Def(f, n)}
<1>1. 0 \in T
  <2>1. Def([i \in 0 .. 0 |-> p], 0)
    OBVIOUS
  <2>2. QED
    BY <2>1
<1>2. ASSUME NEW n \in Nat, n \in T
      PROVE  n + 1 \in T
  <2>1. PICK f : Def(f, n)
    BY <1>2
  <2> DEFINE g == [i \in 0 .. n + 1 |-> IF i <= n THEN f[i] ELSE Step(f, i)]
  <2>2. \A i \in 0 .. n : g[i] = f[i]
    OBVIOUS
  <2>3. \A i \in 0 .. n + 1 : g[i] = Step(g, i)
    <3>1. ASSUME NEW i \in 0 .. n + 1 PROVE g[i] = Step(f, i)
      <4>1. CASE i <= n
        <5>1. f[i] = Step(f, i)
          BY <2>1, <4>1
        <5>2. QED
          BY <4>1, <5>1
      <4>2. CASE ~(i <= n)
        BY <4>2
      <4>3. QED
        BY <4>1, <4>2
    <3>2. ASSUME NEW i \in 0 .. n + 1 PROVE Step(g, i) = Step(f, i)
      <4>1. CASE i = 0
        BY <4>1
      <4>2. CASE i # 0
        <5>1. i - 1 \in 0 .. n
          BY <4>2
        <5> HIDE DEF g
        <5>2. g[i - 1] = f[i - 1]
          BY <2>2, <5>1
        <5>3. QED
          BY <4>2, <5>2
      <4>3. QED
        BY <4>1, <4>2
    <3>3. QED
      BY <3>1, <3>2
  <2>4. g = [i \in 0 .. n + 1 |-> g[i]]
    OBVIOUS
  <2> HIDE DEF g, Step
  <2>5. Def(g, n + 1)
    BY <2>3, <2>4
  <2>6. QED
    BY <2>5
<1> HIDE DEF T
<1>3. Len(es) \in T
  BY <1>1, <1>2, SetInduction, Zenon
<1>4. \E f : Def(f, Len(es))
  BY <1>3 DEF T
<1> DEFINE after == CHOOSE f : Def(f, Len(es))
<1>5. Merged(p, es) = after[Len(es)]
  BY DEF Merged
<1>6. Def(after, Len(es))
  <2> HIDE DEF Def
  <2>1. QED
    BY <1>4
<1> HIDE DEF after
<1>7. \A i \in 0 .. Len(es) : after[i] = Step(after, i)
  <2> HIDE DEF Step
  <2>1. QED
    BY <1>6
<1>8. after[0] = p /\ \A i \in 1 .. Len(es) : after[i] = With(after[i - 1], es[i])
  BY <1>7
<1>9. QED
  BY <1>5, <1>8

\* m is the entry that is asked for by those who wrote the program's registry
\* and the first n entries of es.
Latest(m, es, n) ==
  \/ m \in BuiltIn /\ \A i \in 1 .. n : es[i].id # Id
  \/ \E i \in 1 .. n : /\ m = es[i]
                       /\ \A j \in 1 .. n : es[j].id = Id => j <= i

(* A merged registry has an entry for the model, and it is the latest one.  *)
LEMMA MergedLatest ==
  ASSUME NEW es, Len(es) \in Nat
  PROVE  LET ms == Merged(BuiltIn, es)
         IN  /\ \E m \in ms : m.id = Id
             /\ \A m \in ms : m.id = Id => Latest(m, es, Len(es))
<1>1. PICK after :
        /\ after[0] = BuiltIn /\ after[Len(es)] = Merged(BuiltIn, es)
        /\ \A i \in 1 .. Len(es) : after[i] = With(after[i - 1], es[i])
  BY MergedDef
<1> DEFINE Good(n) == /\ \E m \in after[n] : m.id = Id
                      /\ \A m \in after[n] : m.id = Id => Latest(m, es, n)
           T == {n \in Nat : n <= Len(es) => Good(n)}
<1>2. 0 \in T
  BY <1>1, DownloadAssumption DEF Latest
<1>3. ASSUME NEW n \in Nat, n \in T
      PROVE  n + 1 \in T
  <2>1. SUFFICES ASSUME n + 1 <= Len(es) PROVE Good(n + 1)
    OBVIOUS
  <2>2. Good(n) /\ n + 1 \in 1 .. Len(es) /\ (n + 1) - 1 = n
    BY <1>3, <2>1
  <2>3. after[n + 1] = With(after[n], es[n + 1])
    BY <1>1, <2>2
  <2>4. CASE es[n + 1].id = Id
    <3>1. \A m \in after[n + 1] : m.id = Id => m = es[n + 1]
      BY <2>3, <2>4 DEF With
    <3>2. es[n + 1] \in after[n + 1]
      BY <2>3 DEF With
    <3>3. Latest(es[n + 1], es, n + 1)
      BY <2>2 DEF Latest
    <3>4. QED
      BY <2>4, <3>1, <3>2, <3>3
  <2>5. CASE es[n + 1].id # Id
    <3>1. \A m : m.id = Id => (m \in after[n + 1] <=> m \in after[n])
      BY <2>3, <2>5 DEF With
    <3>2. \A m : Latest(m, es, n) => Latest(m, es, n + 1)
      <4>1. \A i \in 1 .. n + 1 : i \in 1 .. n \/ i = n + 1
        BY <2>2
      <4>2. \A i \in 1 .. n : i \in 1 .. n + 1
        BY <2>2
      <4>3. QED
        BY <2>5, <4>1, <4>2 DEF Latest
    <3>3. QED
      BY <2>2, <3>1, <3>2
  <2>6. QED
    BY <2>4, <2>5
<1> HIDE DEF T
<1>4. Len(es) \in T
  BY <1>2, <1>3, SetInduction, Zenon
<1>5. QED
  BY <1>1, <1>4 DEF T

(* Of the user's entries for the model one is the last.                     *)
LEMMA LatestExists ==
  ASSUME user \in Registries, NEW k \in DOMAIN user, user[k].id = Id
  PROVE  LET mine == {i \in DOMAIN user : user[i].id = Id}
         IN  (CHOOSE i \in mine : \A j \in mine : j <= i) \in DOMAIN user
<1> DEFINE mine == {i \in DOMAIN user : user[i].id = Id}
<1>1. Len(user) \in Nat /\ DOMAIN user = 1 .. Len(user)
  BY DownloadAssumption
<1>2. PICK m : m.id = Id /\ Latest(m, user, Len(user))
  BY <1>1, MergedLatest
<1>3. PICK i \in 1 .. Len(user) :
        user[i] = m /\ \A j \in 1 .. Len(user) : user[j].id = Id => j <= i
  BY <1>1, <1>2 DEF Latest
<1>4. i \in mine /\ \A j \in mine : j <= i
  BY <1>1, <1>2, <1>3
<1>5. QED
  BY <1>4

(* What load_registry finds for the model is the definition asked for.      *)
LEMMA EntryInForce ==
  ASSUME user \in Registries, entry = Find(LoadRegistry(user), Id)
  PROVE  entry = Asked
<1> DEFINE ms == Merged(BuiltIn, user)
           found == Find(ms, Id)
           mine == {i \in DOMAIN user : user[i].id = Id}
<1>1. Len(user) \in Nat /\ DOMAIN user = 1 .. Len(user)
  BY DownloadAssumption
<1>2. /\ \E m \in ms : m.id = Id
      /\ \A m \in ms : m.id = Id => Latest(m, user, Len(user))
  BY <1>1, MergedLatest
<1> HIDE DEF ms
<1>3. found.id = Id /\ Latest(found, user, Len(user))
  BY <1>2 DEF Find
<1>4. entry = found
  BY DEF LoadRegistry, ms
<1> HIDE DEF found
<1>5. CASE found \in BuiltIn /\ \A i \in 1 .. Len(user) : user[i].id # Id
  <2>1. mine = {}
    BY <1>1, <1>5
  <2>2. Find(BuiltIn, Id) = found
    BY <1>3, <1>5, DownloadAssumption DEF Find
  <2>3. QED
    BY <1>4, <2>1, <2>2 DEF Asked
<1>6. ASSUME NEW i \in 1 .. Len(user), found = user[i],
             \A j \in 1 .. Len(user) : user[j].id = Id => j <= i
      PROVE  entry = Asked
  <2>1. i \in mine /\ \A j \in mine : j <= i
    BY <1>1, <1>3, <1>6
  <2>2. mine \subseteq Nat
    BY <1>1
  <2> HIDE DEF mine
  <2>3. i = CHOOSE k \in mine : \A j \in mine : j <= k
    <3> DEFINE last == CHOOSE k \in mine : \A j \in mine : j <= k
    <3>1. last \in mine /\ \A j \in mine : j <= last
      BY <2>1
    <3> HIDE DEF last
    <3>2. last <= i /\ i <= last /\ last \in Nat /\ i \in Nat
      BY <2>1, <2>2, <3>1
    <3>3. last = i
      BY <3>2
    <3>4. QED
      BY <3>3 DEF last
  <2>4. Asked = user[i]
    BY <2>1, <2>3 DEF Asked, mine
  <2>5. QED
    BY <1>4, <1>6, <2>4
<1>7. QED
  BY <1>3, <1>5, <1>6 DEF Latest

-----------------------------------------------------------------------------
(* The files *)

Handles == [inode : Inodes \cup {Absent}, pos : Nat]

\* The names of files, and an open one's handle, keep what is in them.
LEMMA FilesKeep ==
  ASSUME NEW d \in [Names -> Inodes \cup {Absent}],
         NEW h \in [Processes -> Handles],
         NEW contents \in [Inodes -> Seq(Chunks)],
         Files(d, h, contents)
  PROVE  /\ dir' = d /\ handle' = h
         /\ data' \in [Inodes -> Seq(Chunks)]
         /\ \A n \in Names : d[n] # Absent => data'[d[n]] = contents[d[n]]
         /\ \A q \in Processes : h[q].inode # Absent => data'[h[q].inode] = contents[h[q].inode]
<1>1. dir' = d /\ handle' = h
      /\ data' = [i \in Inodes |-> IF i \in Kept(d, h) THEN contents[i] ELSE << >>]
  BY DEF Files
<1>2. data' \in [Inodes -> Seq(Chunks)]
  <2>1. << >> \in Seq(Chunks)
    OBVIOUS
  <2>2. \A i \in Inodes : contents[i] \in Seq(Chunks)
    OBVIOUS
  <2>3. QED
    BY <1>1, <2>1, <2>2, Zenon
<1>3. \A i \in Kept(d, h) \cap Inodes : data'[i] = contents[i]
  BY <1>1
<1>4. \A n \in Names : d[n] \in Kept(d, h)
  BY DEF Kept
<1>5. \A q \in Processes : h[q].inode \in Kept(d, h)
  BY DEF Kept
<1>6. \A n \in Names : d[n] # Absent => d[n] \in Inodes
  OBVIOUS
<1>7. \A q \in Processes : h[q].inode # Absent => h[q].inode \in Inodes
  BY DEF Handles
<1>8. QED
  BY <1>1, <1>2, <1>3, <1>4, <1>5, <1>6, <1>7

\* A step of a process that is at work has only that process to account for.
LEMMA Alone ==
  ASSUME IInv, FilesInv', NEW p \in Processes, pc[p] # "idle",
         UNCHANGED overlapped,
         \A q \in Processes \ {p} : pc'[q] = pc[q],
         ~overlapped =>
           /\ Checked(p)'
           /\ (dir["final"] # Absent => Verified(data[dir["final"]]))'
           /\ (answer = "installed" => dir["final"] # Absent)'
  PROVE  IInv'
<1>1. SUFFICES ASSUME ~overlapped PROVE AloneInv'
  BY DEF IInv, AloneInv
<1>2. \A q \in Processes \ {p} : pc'[q] = "idle"
  BY <1>1 DEF IInv, AloneInv
<1>3. \A q \in Processes \ {p} : Checked(q)'
  BY <1>2 DEF Checked
<1>4. QED
  BY <1>1, <1>2, <1>3 DEF AloneInv

\* A call that ends without touching a file
LEMMA LeaveStep ==
  ASSUME IInv, NEW p \in Processes, pc[p] # "idle", NEW outcome,
         Leave(p, outcome), UNCHANGED <<entry, overlapped>>,
         outcome = "installed" /\ ~overlapped => dir["final"] # Absent
  PROVE  IInv'
<1> USE DEF Leave, Return, Goto
<1>1. Close(p) \in [Processes -> Handles]
  BY DEF IInv, FilesInv, Handles, Close, Closed
<1>2. /\ dir' = dir /\ handle' = Close(p) /\ data' \in [Inodes -> Seq(Chunks)]
      /\ \A n \in Names : dir[n] # Absent => data'[dir[n]] = data[dir[n]]
  BY <1>1, FilesKeep DEF IInv, FilesInv
<1>3. /\ pc' = [pc EXCEPT ![p] = "idle"] /\ answer' = outcome
      /\ body' = [body EXCEPT ![p] = << >>] /\ target' = [target EXCEPT ![p] = "final"]
      /\ seen' = [seen EXCEPT ![p] = << >>]
  OBVIOUS
<1> HIDE DEF Leave, Return, Goto
<1>4. FilesInv'
  BY <1>1, <1>2, <1>3 DEF IInv, FilesInv, Labels, Handles, Names
<1>5. pc'[p] = "idle" /\ \A q \in Processes \ {p} : pc'[q] = pc[q]
  BY <1>3 DEF IInv, FilesInv
<1>6. Checked(p)'
  BY <1>5 DEF Checked
<1>7. (dir["final"] # Absent => Verified(data[dir["final"]]))' \/ overlapped
  BY <1>2 DEF HasSize, IInv, AloneInv, Verified, Names
<1>8. QED
  BY <1>2, <1>3, <1>4, <1>5, <1>6, <1>7, Alone

\* A process that takes a step and leaves the files, its handle and what it
\* has read alone
LEMMA GotoStep ==
  ASSUME IInv, NEW p \in Processes, pc[p] # "idle", NEW label \in Labels \ {"hash_read"},
         pc' = [pc EXCEPT ![p] = label],
         UNCHANGED <<entry, dir, data, target, handle, seen, answer, overlapped>>,
         body' \in [Processes -> Bodies \cup {<< >>}], pc[p] # "hash_read",
         ~overlapped => Checked(p)'
  PROVE  IInv'
<1>1. \A q \in Processes \ {p} : pc'[q] = pc[q]
  BY DEF IInv, FilesInv
<1>2. FilesInv'
  BY DEF IInv, FilesInv
<1>3. QED
  BY <1>1, <1>2, Alone DEF HasSize, IInv, AloneInv, Verified

-----------------------------------------------------------------------------
(* Whatever files were left behind, the invariant holds before any process  *)
(* starts.                                                                  *)
THEOREM InitInv == Init => IInv
<1> SUFFICES ASSUME Init PROVE IInv
  OBVIOUS
<1> USE DEF Init
<1>1. FilesInv
  BY DEF FilesInv, Labels, Names, Closed
<1>2. AloneInv
  BY DEF AloneInv, Checked, Names
<1>3. QED
  BY <1>1, <1>2 DEF IInv

\* Begin keeps the invariant.
LEMMA BeginStep ==
  ASSUME IInv, NEW p \in Processes, NEW label \in {"resolve", "exists", "remove_exists"},
         Begin(p, label)
  PROVE  IInv'
<1> USE DEF Begin, Goto
<1>1. FilesInv'
  BY DEF IInv, FilesInv, Labels
<1>2. AloneInv'
  <2>1. SUFFICES ASSUME ~overlapped' PROVE AloneInv'
    BY DEF AloneInv
  <2>2. ~overlapped /\ \A q \in Processes : pc[q] = "idle"
    BY <2>1
  <2>3. pc'[p] = label /\ \A q \in Processes \ {p} : pc'[q] = "idle"
    BY <2>2 DEF IInv, FilesInv
  <2>4. \A q \in Processes : Checked(q)'
    BY <2>3 DEF Checked
  <2>5. QED
    BY <2>2, <2>3, <2>4 DEF HasSize, IInv, AloneInv, Verified
<1>3. QED
  BY <1>1, <1>2 DEF IInv

\* List keeps the invariant.
LEMMA ListStep ==
  ASSUME IInv, NEW p \in Processes, ListInstalled(p) \/ ListModels(p)
  PROVE  IInv'
<1> USE DEF ListInstalled, ListModels, Answered
<1>1. FilesInv'
  BY DEF IInv, FilesInv
<1>2. answer' = "installed" => dir["final"] # Absent
  BY DEF Listed, Extension, Names
<1>3. \A q \in Processes : Checked(q)' = Checked(q)
  BY DEF HasSize, Checked, There, Content
<1>4. AloneInv'
  BY <1>2, <1>3 DEF HasSize, IInv, AloneInv, Verified
<1>5. QED
  BY <1>1, <1>4 DEF IInv

\* Resolve keeps the invariant.
LEMMA ResolveStep ==
  ASSUME IInv, NEW p \in Processes, Resolve(p)
  PROVE  IInv'
<1>1. CASE dir["final"] # Absent
  BY <1>1, LeaveStep DEF Resolve
<1>2. CASE dir["final"] = Absent
  <2>1. /\ pc' = [pc EXCEPT ![p] = "exists"] /\ pc[p] = "resolve"
        /\ UNCHANGED <<entry, dir, data, body, target, handle, seen, answer, overlapped>>
    BY <1>2 DEF Resolve, Goto
  <2>2. Checked(p)'
    BY <2>1 DEF Checked, IInv, FilesInv
  <2>3. QED
    BY <2>1, <2>2, GotoStep DEF Labels, IInv, FilesInv
<1>3. QED
  BY <1>1, <1>2

\* Exists keeps the invariant.
LEMMA ExistsStep ==
  ASSUME IInv, NEW p \in Processes, Exists(p)
  PROVE  IInv'
<1>1. PICK label \in {"magic", "request"} : pc' = [pc EXCEPT ![p] = label]
  BY DEF Exists, Goto
<1>2. /\ pc[p] = "exists"
      /\ UNCHANGED <<entry, dir, data, body, target, handle, seen, answer, overlapped>>
  BY DEF Exists
<1>3. Checked(p)'
  BY <1>1, <1>2 DEF Checked, IInv, FilesInv
<1>4. QED
  BY <1>1, <1>2, <1>3, GotoStep DEF Labels, IInv, FilesInv

\* Request keeps the invariant.
LEMMA RequestStep ==
  ASSUME IInv, NEW p \in Processes, Request(p)
  PROVE  IInv'
<1>1. /\ pc[p] = "request" /\ pc' = [pc EXCEPT ![p] = "create"]
      /\ UNCHANGED <<entry, dir, data, target, handle, seen, answer, overlapped>>
  BY DEF Request, Goto
<1>2. body' \in [Processes -> Bodies \cup {<< >>}]
  BY DEF Request, IInv, FilesInv
<1>3. Checked(p)'
  BY <1>1 DEF Checked, IInv, FilesInv
<1>4. QED
  BY <1>1, <1>2, <1>3, GotoStep DEF Labels

-----------------------------------------------------------------------------
(* Receiving: the .part file is never the published one.                    *)

\* CreatePart keeps the invariant.
LEMMA CreatePartStep ==
  ASSUME IInv, NEW p \in Processes, CreatePart(p)
  PROVE  IInv'
<1>1. PICK i \in IF dir["part"] # Absent THEN {dir["part"]} ELSE Inodes \ Kept(dir, handle) :
        Files([dir EXCEPT !["part"] = i], Open(p, i), [data EXCEPT ![i] = << >>])
  BY DEF CreatePart
<1>2. /\ pc[p] = "create" /\ pc' = [pc EXCEPT ![p] = "receive"]
      /\ UNCHANGED <<entry, body, target, seen, answer, overlapped>>
  BY DEF CreatePart, Goto
<1>3. i \in Inodes /\ i # Absent
  BY <1>1, DownloadAssumption DEF IInv, FilesInv, Names
<1>4. i # dir["final"]
  <2>1. dir["final"] \in Kept(dir, handle)
    BY DEF Kept, Names
  <2>2. QED
    BY <1>1, <2>1 DEF IInv, FilesInv
<1> DEFINE d == [dir EXCEPT !["part"] = i]
           h == Open(p, i)
           contents == [data EXCEPT ![i] = << >>]
<1>5. /\ d \in [Names -> Inodes \cup {Absent}] /\ h \in [Processes -> Handles]
      /\ contents \in [Inodes -> Seq(Chunks)]
  <2>1. d \in [Names -> Inodes \cup {Absent}]
    BY <1>3 DEF IInv, FilesInv
  <2>2. h \in [Processes -> Handles]
    BY <1>3 DEF IInv, FilesInv, Open, Handles
  <2>3. data \in [Inodes -> Seq(Chunks)] /\ << >> \in Seq(Chunks)
    BY DEF IInv, FilesInv
  <2>4. contents \in [Inodes -> Seq(Chunks)]
    BY <2>3, Zenon
  <2>5. QED
    BY <2>1, <2>2, <2>4
<1>6. d["part"] = i /\ d["final"] = dir["final"] /\ h[p].inode = i
  BY DEF IInv, FilesInv, Open, Names
<1>7. \A j \in Inodes \ {i} : contents[j] = data[j]
  BY DEF IInv, FilesInv
<1>8. Files(d, h, contents)
  BY <1>1
<1> HIDE DEF d, h, contents
<1>9. /\ dir' = d /\ handle' = h /\ data' \in [Inodes -> Seq(Chunks)]
      /\ d["final"] # Absent => data'[d["final"]] = contents[d["final"]]
  BY <1>5, <1>8, FilesKeep DEF Names
<1>10. FilesInv'
  BY <1>2, <1>4, <1>5, <1>6, <1>9 DEF IInv, FilesInv, Labels, Handles
<1>11. Checked(p)'
  BY <1>2, <1>3, <1>6, <1>9 DEF Checked, IInv, FilesInv
<1>12. ~overlapped /\ dir'["final"] # Absent => Verified(data[dir["final"]])'
  <2>1. dir["final"] # Absent => dir["final"] \in Inodes
    BY DEF IInv, FilesInv, Names
  <2>2. QED
    BY <1>2, <1>4, <1>6, <1>7, <1>9, <2>1 DEF HasSize, IInv, AloneInv, Verified
<1>13. QED
  BY <1>2, <1>6, <1>9, <1>10, <1>11, <1>12, Alone DEF IInv, AloneInv, FilesInv

(* What a write at a position leaves at every other one. *)
LEMMA WrittenChunks ==
  ASSUME NEW c \in Seq(Chunks), NEW pos \in Nat, NEW chunk \in Chunks
  PROVE  Written(c, pos, chunk) \in Seq(Chunks)
<1> DEFINE n == IF pos + 1 > Len(c) THEN pos + 1 ELSE Len(c)
           at(i) == IF i = pos + 1 THEN chunk ELSE IF i <= Len(c) THEN c[i] ELSE Hole
<1>1. n \in Nat
  OBVIOUS
<1>2. \A i \in 1 .. n : at(i) \in Chunks
  <2>1. Hole \in Chunks
    BY DEF Chunks
  <2>2. \A i \in 1 .. Len(c) : c[i] \in Chunks
    OBVIOUS
  <2>3. QED
    BY <2>1, <2>2
<1> HIDE DEF n, at
<1>3. [i \in 1 .. n |-> at(i)] \in Seq(Chunks)
  BY <1>1, <1>2
<1>4. QED
  BY <1>3 DEF Written, n, at

\* Receive keeps the invariant.
LEMMA ReceiveStep ==
  ASSUME IInv, NEW p \in Processes, Receive(p)
  PROVE  IInv'
<1> DEFINE i == handle[p].inode
           pos == handle[p].pos
           h == [handle EXCEPT ![p].pos = pos + 1]
           contents == [data EXCEPT ![i] = Written(data[i], pos, body[p][pos + 1])]
<1>1. /\ pc[p] = "receive" /\ pos < Len(body[p]) /\ Files(dir, h, contents)
      /\ UNCHANGED <<entry, pc, body, target, seen, answer, overlapped>>
  BY DEF Receive
<1>2. i \in Inodes \cup {Absent} /\ pos \in Nat
  BY DEF IInv, FilesInv
<1>3. body[p] \in Seq(Chunks)
  <2>1. Bodies \subseteq Seq(Chunks)
    BY DownloadAssumption
  <2>2. body[p] \in Bodies \/ body[p] = << >>
    BY DEF IInv, FilesInv
  <2>3. << >> \in Seq(Chunks)
    OBVIOUS
  <2>4. CASE body[p] \in Bodies
    BY <2>1, <2>4
  <2>5. CASE body[p] = << >>
    BY <2>3, <2>5, Zenon
  <2>6. QED
    BY <2>2, <2>4, <2>5, Zenon
<1>4. body[p][pos + 1] \in Chunks
  BY <1>1, <1>2, <1>3
<1>5. contents \in [Inodes -> Seq(Chunks)]
  <2>1. data \in [Inodes -> Seq(Chunks)]
    BY DEF IInv, FilesInv
  <2>2. CASE i \in Inodes
    <3>1. Written(data[i], pos, body[p][pos + 1]) \in Seq(Chunks)
      BY <1>2, <1>4, <2>1, <2>2, WrittenChunks
    <3>2. QED
      BY <2>1, <3>1
  <2>3. CASE i \notin Inodes
    BY <2>1, <2>3
  <2>4. QED
    BY <2>2, <2>3
<1>6. h \in [Processes -> Handles]
  <2>1. handle \in [Processes -> Handles] /\ pos + 1 \in Nat
    BY <1>2 DEF IInv, FilesInv, Handles
  <2>2. [handle[p] EXCEPT !.pos = pos + 1] \in Handles
    BY <2>1 DEF Handles
  <2>3. QED
    BY <2>1, <2>2
<1>7. h[p].inode = i /\ \A q \in Processes \ {p} : h[q] = handle[q]
  BY DEF IInv, FilesInv
<1>8. \A j \in Inodes \ {i} : contents[j] = data[j]
  BY DEF IInv, FilesInv
<1> HIDE DEF h, contents
<1>9. /\ dir' = dir /\ handle' = h /\ data' \in [Inodes -> Seq(Chunks)]
      /\ \A n \in Names : dir[n] # Absent => data'[dir[n]] = contents[dir[n]]
  BY <1>1, <1>5, <1>6, FilesKeep DEF IInv, FilesInv
<1>10. FilesInv'
  BY <1>1, <1>6, <1>9 DEF IInv, FilesInv, Handles
<1>11. ~overlapped => i = dir["part"] /\ dir["part"] # Absent
  BY <1>1 DEF IInv, AloneInv, Checked
<1>12. ~overlapped => Checked(p)'
  BY <1>1, <1>7, <1>9, <1>11 DEF Checked
<1>13. ~overlapped /\ dir'["final"] # Absent => Verified(data[dir["final"]])'
  <2>1. dir["final"] # Absent => dir["final"] \in Inodes
    BY DEF IInv, FilesInv, Names
  <2>2. ~overlapped => i # dir["final"]
    BY <1>11 DEF IInv, FilesInv
  <2>3. QED
    BY <1>1, <1>8, <1>9, <2>1, <2>2 DEF HasSize, IInv, AloneInv, Verified, Names
<1>14. QED
  BY <1>1, <1>9, <1>10, <1>12, <1>13, Alone DEF IInv, AloneInv

\* EndOfBody keeps the invariant.
LEMMA EndOfBodyStep ==
  ASSUME IInv, NEW p \in Processes, EndOfBody(p)
  PROVE  IInv'
<1>1. /\ pc[p] = "receive" /\ Files(dir, Close(p), data)
      /\ pc' = [pc EXCEPT ![p] = "magic"] /\ target' = [target EXCEPT ![p] = "part"]
      /\ body' = [body EXCEPT ![p] = << >>]
      /\ UNCHANGED <<entry, seen, answer, overlapped>>
  BY DEF EndOfBody, Goto
<1>2. Close(p) \in [Processes -> Handles]
  BY DEF IInv, FilesInv, Handles, Close, Closed
<1>3. /\ dir' = dir /\ handle' = Close(p) /\ data' \in [Inodes -> Seq(Chunks)]
      /\ \A n \in Names : dir[n] # Absent => data'[dir[n]] = data[dir[n]]
  BY <1>1, <1>2, FilesKeep DEF IInv, FilesInv
<1>4. FilesInv'
  BY <1>1, <1>2, <1>3 DEF IInv, FilesInv, Labels, Handles, Names
<1>5. pc'[p] = "magic" /\ \A q \in Processes \ {p} : pc'[q] = pc[q]
  BY <1>1 DEF IInv, FilesInv
<1>6. QED
  BY <1>1, <1>3, <1>4, <1>5, Alone DEF HasSize, IInv, AloneInv, Verified, Checked, Names

-----------------------------------------------------------------------------
(* Checking: alone, a process finds the file as it left it.                 *)

\* What has passed goes on to the size, or was installed before.
LEMMA PassedStep ==
  ASSUME IInv, NEW p \in Processes, pc[p] \in {"magic", "hash_read"},
         Passed(p), UNCHANGED <<entry, overlapped>>,
         ~overlapped =>
           There(p) /\ HasMagic(Content(p)) /\ (entry.sha256 # NoChecksum => Content(p) = entry.sha256)
  PROVE  IInv'
<1>1. CASE target[p] = "part"
  <2>1. /\ pc' = [pc EXCEPT ![p] = "size"] /\ seen' = [seen EXCEPT ![p] = << >>]
        /\ Files(dir, Close(p), data) /\ UNCHANGED <<body, target, answer>>
    BY <1>1 DEF Passed, Goto
  <2>2. Close(p) \in [Processes -> Handles]
    BY DEF IInv, FilesInv, Handles, Close, Closed
  <2>3. /\ dir' = dir /\ handle' = Close(p) /\ data' \in [Inodes -> Seq(Chunks)]
        /\ \A n \in Names : dir[n] # Absent => data'[dir[n]] = data[dir[n]]
    BY <2>1, <2>2, FilesKeep DEF IInv, FilesInv
  <2>4. FilesInv'
    BY <2>1, <2>2, <2>3 DEF IInv, FilesInv, Labels, Handles
  <2>5. pc'[p] = "size" /\ \A q \in Processes \ {p} : pc'[q] = pc[q]
    BY <2>1 DEF IInv, FilesInv
  <2>6. ~overlapped => Content(p)' = Content(p) /\ There(p)'
    BY <1>1, <2>1, <2>3 DEF Content, There, Names
  <2>7. ~overlapped => Checked(p)'
    BY <1>1, <2>1, <2>5, <2>6 DEF Checked, HasMagic
  <2>8. QED
    BY <2>1, <2>3, <2>4, <2>5, <2>7, Alone DEF HasSize, IInv, AloneInv, Verified, Names
<1>2. CASE target[p] # "part"
  <2>1. target[p] = "final"
    BY <1>2 DEF IInv, FilesInv, Names
  <2>2. QED
    BY <1>2, <2>1, LeaveStep DEF Passed, There
<1>3. QED
  BY <1>1, <1>2

\* VerifyMagic keeps the invariant.
LEMMA VerifyMagicStep ==
  ASSUME IInv, NEW p \in Processes, VerifyMagic(p)
  PROVE  IInv'
<1>1. pc[p] = "magic" /\ There(p) /\ HasMagic(Content(p)) /\ UNCHANGED <<entry, overlapped>>
  BY DEF VerifyMagic
<1>2. CASE entry.sha256 = NoChecksum
  BY <1>1, <1>2, PassedStep DEF VerifyMagic
<1>3. CASE entry.sha256 # NoChecksum
  <2>1. /\ pc' = [pc EXCEPT ![p] = "hash_open"]
        /\ UNCHANGED <<dir, data, body, target, handle, seen, answer>>
    BY <1>3 DEF VerifyMagic, Goto
  <2>2. Checked(p)'
    BY <1>1, <2>1 DEF Checked, IInv, FilesInv, There, Content
  <2>3. QED
    BY <1>1, <2>1, <2>2, GotoStep DEF Labels, IInv, FilesInv
<1>4. QED
  BY <1>2, <1>3

\* HashOpen keeps the invariant.
LEMMA HashOpenStep ==
  ASSUME IInv, NEW p \in Processes, HashOpen(p)
  PROVE  IInv'
<1>1. pc[p] = "hash_open" /\ UNCHANGED <<entry, overlapped>>
  BY DEF HashOpen
<1>2. CASE There(p)
  <2> DEFINE i == dir[target[p]]
  <2>1. /\ Files(dir, Open(p, i), data) /\ pc' = [pc EXCEPT ![p] = "hash_read"]
        /\ UNCHANGED <<body, target, seen, answer>>
    BY <1>2 DEF HashOpen, Goto
  <2>2. i \in Inodes /\ i # Absent
    BY <1>2 DEF There, IInv, FilesInv
  <2>3. /\ Open(p, i) \in [Processes -> Handles]
        /\ Open(p, i)[p].inode = i /\ Open(p, i)[p].pos = 0
    BY <2>2 DEF IInv, FilesInv, Handles, Open
  <2>4. /\ dir' = dir /\ handle' = Open(p, i) /\ data' \in [Inodes -> Seq(Chunks)]
        /\ \A n \in Names : dir[n] # Absent => data'[dir[n]] = data[dir[n]]
    BY <2>1, <2>3, FilesKeep DEF IInv, FilesInv
  <2>5. pc'[p] = "hash_read" /\ \A q \in Processes \ {p} : pc'[q] = pc[q]
    BY <2>1 DEF IInv, FilesInv
  <2>6. FilesInv'
    BY <2>1, <2>3, <2>4, <2>5 DEF IInv, FilesInv, Labels, Handles
  <2>7. /\ Content(p)' = Content(p) /\ There(p)' /\ Content(p) \in Seq(Chunks)
        /\ target'[p] = target[p]
    BY <1>2, <2>1, <2>2, <2>4 DEF Content, There, IInv, FilesInv
  <2>8. ~overlapped => Checked(p)'
    <3>1. seen'[p] = << >>
      BY <1>1, <2>1 DEF IInv, FilesInv
    <3>2. SubSeq(Content(p), 1, 0) = << >>
      BY <2>7
    <3>3. ~overlapped => HasMagic(Content(p))
      BY <1>1 DEF IInv, AloneInv, Checked
    <3>4. 0 <= Len(Content(p))
      BY <2>7
    <3>5. QED
      BY <2>3, <2>4, <2>5, <2>7, <3>1, <3>2, <3>3, <3>4 DEF Checked
  <2>9. QED
    BY <1>1, <2>1, <2>4, <2>5, <2>6, <2>8, Alone DEF HasSize, IInv, AloneInv, Verified, Names
<1>3. CASE ~There(p)
  BY <1>1, <1>3, LeaveStep DEF HashOpen, ModelManagerError
<1>4. QED
  BY <1>2, <1>3

\* HashRead keeps the invariant.
LEMMA HashReadStep ==
  ASSUME IInv, NEW p \in Processes, HashRead(p)
  PROVE  IInv'
<1> DEFINE i == handle[p].inode
           pos == handle[p].pos
<1>1. /\ pc[p] = "hash_read" /\ pos < Len(data[i])
      /\ seen' = [seen EXCEPT ![p] = Append(seen[p], data[i][pos + 1])]
      /\ handle' = [handle EXCEPT ![p].pos = pos + 1]
      /\ UNCHANGED <<entry, dir, data, pc, body, target, answer, overlapped>>
  BY DEF HashRead
<1>2. pos \in Nat /\ i \in Inodes \cup {Absent}
  BY DEF IInv, FilesInv
<1>3. /\ handle' \in [Processes -> Handles]
      /\ handle'[p].inode = i /\ handle'[p].pos = pos + 1
      /\ seen'[p] = Append(seen[p], data[i][pos + 1])
      /\ \A q \in Processes \ {p} : seen'[q] = seen[q]
  <2>1. handle \in [Processes -> Handles] /\ pos + 1 \in Nat
    BY <1>2 DEF IInv, FilesInv, Handles
  <2>2. [handle[p] EXCEPT !.pos = pos + 1] \in Handles
    BY <2>1 DEF Handles
  <2>3. handle'[p] = [handle[p] EXCEPT !.pos = pos + 1]
    BY <1>1, <2>1
  <2>4. handle' \in [Processes -> Handles]
    BY <1>1, <2>1, <2>2
  <2>5. handle'[p].inode = i /\ handle'[p].pos = pos + 1
    BY <2>1, <2>3 DEF Handles
  <2>6. DOMAIN seen = Processes
    BY DEF IInv, FilesInv
  <2>7. /\ seen'[p] = Append(seen[p], data[i][pos + 1])
        /\ \A q \in Processes \ {p} : seen'[q] = seen[q]
    BY <1>1, <2>6
  <2>8. QED
    BY <2>4, <2>5, <2>7
<1>4. FilesInv'
  BY <1>1, <1>3 DEF IInv, FilesInv, Handles
<1>5. ~overlapped => Checked(p)'
  <2>1. SUFFICES ASSUME ~overlapped PROVE Checked(p)'
    OBVIOUS
  <2>2. /\ There(p) /\ HasMagic(Content(p)) /\ i = dir[target[p]]
        /\ seen[p] = SubSeq(Content(p), 1, pos)
    BY <1>1, <2>1 DEF IInv, AloneInv, Checked
  <2>3. i \in Inodes /\ data[i] \in Seq(Chunks) /\ Content(p) = data[i]
    BY <1>2, <2>2 DEF There, Content, IInv, FilesInv
  <2>4. Append(SubSeq(data[i], 1, pos), data[i][pos + 1]) = SubSeq(data[i], 1, pos + 1)
    BY <1>1, <1>2, <2>3
  <2>5. pos + 1 <= Len(data[i])
    BY <1>1, <1>2, <2>3
  <2>6. There(p)' /\ Content(p)' = data[i]
    BY <1>1, <2>2, <2>3 DEF There, Content
  <2>7. QED
    BY <1>1, <1>3, <2>2, <2>3, <2>4, <2>5, <2>6 DEF Checked
<1>6. QED
  BY <1>1, <1>4, <1>5, Alone DEF HasSize, IInv, AloneInv, Verified

\* HashEnd keeps the invariant.
LEMMA HashEndStep ==
  ASSUME IInv, NEW p \in Processes, HashEnd(p)
  PROVE  IInv'
<1>1. /\ pc[p] = "hash_read" /\ handle[p].pos >= Len(data[handle[p].inode])
      /\ UNCHANGED <<entry, overlapped>>
  BY DEF HashEnd
<1>2. CASE HasSha256(seen[p])
  <2>1. ~overlapped => There(p) /\ HasMagic(Content(p)) /\ Content(p) = entry.sha256
    <3>1. SUFFICES ASSUME ~overlapped
                   PROVE  There(p) /\ HasMagic(Content(p)) /\ Content(p) = entry.sha256
      OBVIOUS
    <3>2. /\ There(p) /\ HasMagic(Content(p)) /\ handle[p].inode = dir[target[p]]
          /\ handle[p].pos <= Len(Content(p))
          /\ seen[p] = SubSeq(Content(p), 1, handle[p].pos)
      BY <1>1, <3>1 DEF IInv, AloneInv, Checked
    <3>3. Content(p) \in Seq(Chunks) /\ handle[p].pos \in Nat
      BY <3>2 DEF There, Content, IInv, FilesInv
    <3>4. handle[p].pos = Len(Content(p))
      BY <1>1, <3>2, <3>3 DEF Content
    <3>5. SubSeq(Content(p), 1, Len(Content(p))) = Content(p)
      BY <3>3
    <3>6. QED
      BY <1>2, <3>2, <3>4, <3>5 DEF HasSha256
  <2>2. QED
    BY <1>1, <1>2, <2>1, PassedStep DEF HashEnd
<1>3. CASE ~HasSha256(seen[p])
  BY <1>1, <1>3, LeaveStep DEF HashEnd, ModelManagerError
<1>4. QED
  BY <1>2, <1>3

\* VerifySize keeps the invariant.
LEMMA VerifySizeStep ==
  ASSUME IInv, NEW p \in Processes, VerifySize(p)
  PROVE  IInv'
<1>1. pc[p] = "size" /\ UNCHANGED <<entry, overlapped>>
  BY DEF VerifySize
<1>2. CASE dir["part"] # Absent /\ HasSize(data[dir["part"]])
  <2>1. /\ pc' = [pc EXCEPT ![p] = "rename"]
        /\ UNCHANGED <<dir, data, body, target, handle, seen, answer>>
    BY <1>2 DEF VerifySize, Goto
  <2>2. pc'[p] = "rename"
    BY <2>1 DEF IInv, FilesInv
  <2>3. ~overlapped => Checked(p)'
    BY <1>1, <1>2, <2>1, <2>2 DEF HasSize, IInv, AloneInv, Checked, There, Content
  <2>4. QED
    BY <1>1, <2>1, <2>3, GotoStep DEF Labels, IInv, FilesInv
<1>3. CASE ~(dir["part"] # Absent /\ HasSize(data[dir["part"]]))
  BY <1>1, <1>3, LeaveStep DEF VerifySize, ModelManagerError
<1>4. QED
  BY <1>2, <1>3

-----------------------------------------------------------------------------
(* Publishing and removing *)

\* Rename keeps the invariant.
LEMMA RenameStep ==
  ASSUME IInv, NEW p \in Processes, Rename(p)
  PROVE  IInv'
<1> DEFINE d == [final |-> dir["part"], part |-> Absent]
<1>1. /\ pc[p] = "rename" /\ dir["part"] # Absent /\ Files(d, handle, data)
      /\ pc' = [pc EXCEPT ![p] = "idle"] /\ answer' = "installed"
      /\ body' = [body EXCEPT ![p] = << >>] /\ target' = [target EXCEPT ![p] = "final"]
      /\ seen' = [seen EXCEPT ![p] = << >>] /\ UNCHANGED <<entry, overlapped>>
  BY DEF Rename, Return, Goto
<1>2. d \in [Names -> Inodes \cup {Absent}] /\ d["final"] = dir["part"] /\ d["part"] = Absent
  BY DEF IInv, FilesInv, Names
<1> HIDE DEF d
<1>3. handle \in [Processes -> Handles] /\ data \in [Inodes -> Seq(Chunks)]
  BY DEF IInv, FilesInv, Handles
<1>4. /\ dir' = d /\ handle' = handle /\ data' \in [Inodes -> Seq(Chunks)]
      /\ d["final"] # Absent => data'[d["final"]] = data[d["final"]]
  BY <1>1, <1>2, <1>3, FilesKeep DEF Names
<1>5. FilesInv'
  BY <1>1, <1>2, <1>4 DEF IInv, FilesInv, Labels, Names
<1>6. pc'[p] = "idle" /\ \A q \in Processes \ {p} : pc'[q] = pc[q]
  BY <1>1 DEF IInv, FilesInv
<1>7. ~overlapped => Verified(data[dir["final"]])'
  <2>1. ~overlapped => Verified(data[dir["part"]])
    BY <1>1 DEF IInv, AloneInv, Checked, Content, Verified
  <2>2. QED
    BY <1>1, <1>2, <1>4, <2>1 DEF HasSize, Verified
<1>8. QED
  BY <1>1, <1>2, <1>4, <1>5, <1>6, <1>7, Alone DEF Checked

\* RemoveExists keeps the invariant.
LEMMA RemoveExistsStep ==
  ASSUME IInv, NEW p \in Processes, RemoveExists(p)
  PROVE  IInv'
<1>1. CASE dir["final"] = Absent
  BY <1>1, LeaveStep DEF RemoveExists
<1>2. CASE dir["final"] # Absent
  <2>1. /\ pc' = [pc EXCEPT ![p] = "remove"] /\ pc[p] = "remove_exists"
        /\ UNCHANGED <<entry, dir, data, body, target, handle, seen, answer, overlapped>>
    BY <1>2 DEF RemoveExists, Goto
  <2>2. Checked(p)'
    BY <2>1 DEF Checked, IInv, FilesInv
  <2>3. QED
    BY <2>1, <2>2, GotoStep DEF Labels, IInv, FilesInv
<1>3. QED
  BY <1>1, <1>2

\* RemoveFile keeps the invariant.
LEMMA RemoveFileStep ==
  ASSUME IInv, NEW p \in Processes, RemoveFile(p)
  PROVE  IInv'
<1>1. pc[p] = "remove" /\ UNCHANGED <<entry, overlapped>>
  BY DEF RemoveFile
<1>2. CASE dir["final"] # Absent
  <2> DEFINE d == [dir EXCEPT !["final"] = Absent]
  <2>1. /\ Files(d, handle, data) /\ pc' = [pc EXCEPT ![p] = "idle"] /\ answer' = "removed"
        /\ body' = [body EXCEPT ![p] = << >>] /\ target' = [target EXCEPT ![p] = "final"]
        /\ seen' = [seen EXCEPT ![p] = << >>]
    BY <1>2 DEF RemoveFile, Return, Goto
  <2>2. d \in [Names -> Inodes \cup {Absent}] /\ d["final"] = Absent
    BY DEF IInv, FilesInv, Names
  <2> HIDE DEF d
  <2>3. handle \in [Processes -> Handles] /\ data \in [Inodes -> Seq(Chunks)]
    BY DEF IInv, FilesInv, Handles
  <2>4. dir' = d /\ handle' = handle /\ data' \in [Inodes -> Seq(Chunks)]
    BY <2>1, <2>2, <2>3, FilesKeep
  <2>5. FilesInv'
    BY <2>1, <2>2, <2>4 DEF IInv, FilesInv, Labels, Names
  <2>6. pc'[p] = "idle" /\ \A q \in Processes \ {p} : pc'[q] = pc[q]
    BY <2>1 DEF IInv, FilesInv
  <2>7. QED
    BY <1>1, <2>1, <2>2, <2>4, <2>5, <2>6, Alone DEF Checked
<1>3. CASE dir["final"] = Absent
  BY <1>1, <1>3, LeaveStep DEF RemoveFile, ModelManagerError
<1>4. QED
  BY <1>2, <1>3

\* The steps that give up: the request or a call to the file system fails, the
\* transfer breaks off, a check fails, the process dies.
LEMMA GivesUpStep ==
  ASSUME IInv, NEW p \in Processes,
         \/ CallFails(p) \/ ReceiveFails(p) \/ MagicFails(p) \/ RenameFails(p) \/ Crash(p)
  PROVE  IInv'
<1>1. PICK outcome \in {ModelManagerError, "none"} : Leave(p, outcome)
  BY DEF CallFails, ReceiveFails, MagicFails, RenameFails, Crash
<1>2. pc[p] # "idle" /\ UNCHANGED <<entry, overlapped>>
  BY DEF CallFails, ReceiveFails, MagicFails, RenameFails, Crash
<1>3. QED
  BY <1>1, <1>2, LeaveStep DEF ModelManagerError

-----------------------------------------------------------------------------
\* No step of any process breaks the invariant.
THEOREM StepInv == IInv /\ [Next]_vars => IInv'
<1> SUFFICES ASSUME IInv, [Next]_vars PROVE IInv'
  OBVIOUS
<1>1. CASE UNCHANGED vars
  <2> USE <1>1 DEF IInv, vars
  <2>1. FilesInv'
    BY DEF FilesInv
  <2>2. AloneInv'
    BY DEF HasSize, AloneInv, Checked, Verified, There, Content
  <2>3. QED
    BY <2>1, <2>2
<1>2. CASE Next
  <2>1. PICK p \in Processes : Next!(p)
    BY <1>2 DEF Next
  <2>2. CASE CallResolveOrDownload(p) \/ CallDownload(p) \/ CallRemove(p)
    BY <2>2, BeginStep DEF CallResolveOrDownload, CallDownload, CallRemove
  <2>3. QED
    BY <2>1, <2>2, ListStep, ResolveStep, ExistsStep, RequestStep, CreatePartStep, ReceiveStep,
       EndOfBodyStep, VerifyMagicStep, HashOpenStep, HashReadStep, HashEndStep, VerifySizeStep,
       RenameStep, RemoveExistsStep, RemoveFileStep, GivesUpStep
<1>3. QED
  BY <1>1, <1>2

\* The strengthening holds throughout.
THEOREM Invariance == Spec => []IInv
BY InitInv, StepInv, PTL DEF Spec

-----------------------------------------------------------------------------
(* What no step of a process touches, and what is open *)

\* The entry in force is the one asked for, whatever was merged.
THEOREM EntryAlways == Spec => []EntryInv
<1>1. Init => EntryInv
  BY EntryInForce DEF Init, EntryInv
<1>2. EntryInv /\ [Next]_vars => EntryInv'
  <2> SUFFICES ASSUME EntryInv, [Next]_vars PROVE UNCHANGED <<user, entry>>
    BY DEF EntryInv, Asked
  <2>2. CASE UNCHANGED vars
    BY <2>2 DEF vars
  <2>3. CASE Next
    BY <2>3 DEF Next, ListInstalled, ListModels, Answered, CallResolveOrDownload, CallDownload,
       CallRemove, Begin, Resolve, Exists, CallFails, Request, CreatePart, Receive, ReceiveFails,
       EndOfBody, VerifyMagic, MagicFails, HashOpen, HashRead, HashEnd, VerifySize, Rename,
       RenameFails, RemoveExists, RemoveFile, Crash
  <2>4. QED
    BY <2>2, <2>3
<1>3. QED
  BY <1>1, <1>2, PTL DEF Spec

\* A process that moves on opens or closes a file as its next step needs.
LEMMA HandleMoves ==
  ASSUME IInv, HandlesInv, NEW p \in Processes, NEW label, NEW h,
         pc' = [pc EXCEPT ![p] = label],
         handle' = [handle EXCEPT ![p] = h],
         IF label \in {"receive", "hash_read"} THEN h.inode \in Inodes ELSE h = Closed
  PROVE  HandlesInv'
<1>1. /\ pc'[p] = label /\ handle'[p] = h
      /\ \A q \in Processes \ {p} : pc'[q] = pc[q] /\ handle'[q] = handle[q]
  BY DEF IInv, FilesInv
<1>2. QED
  BY <1>1 DEF HandlesInv

\* A process without a file moves on without one.
LEMMA HandleStays ==
  ASSUME IInv, HandlesInv, NEW p \in Processes, NEW label,
         pc' = [pc EXCEPT ![p] = label], handle' = handle,
         pc[p] \notin {"receive", "hash_read"}, label \notin {"receive", "hash_read"}
  PROVE  HandlesInv'
<1>1. pc'[p] = label /\ \A q \in Processes \ {p} : pc'[q] = pc[q]
  BY DEF IInv, FilesInv
<1>2. QED
  BY <1>1 DEF HandlesInv

\* A call that returns has no file open any more.
LEMMA HandleLeft ==
  ASSUME IInv, HandlesInv, NEW p \in Processes, NEW outcome, Leave(p, outcome)
  PROVE  HandlesInv' /\ answer' = outcome
<1>1. /\ pc' = [pc EXCEPT ![p] = "idle"] /\ handle' = [handle EXCEPT ![p] = Closed]
      /\ answer' = outcome
  BY DEF Leave, Return, Goto, Files, Close
<1>2. QED
  BY <1>1, HandleMoves

\* A check that passes keeps the handles.
LEMMA HandlePassed ==
  ASSUME IInv, HandlesInv, NEW p \in Processes, Passed(p)
  PROVE  HandlesInv' /\ answer' \in {answer, "installed"}
<1>1. CASE target[p] = "part"
  <2>1. /\ pc' = [pc EXCEPT ![p] = "size"] /\ handle' = [handle EXCEPT ![p] = Closed]
        /\ answer' = answer
    BY <1>1 DEF Passed, Goto, Files, Close
  <2>2. QED
    BY <2>1, HandleMoves
<1>2. CASE target[p] # "part"
  BY <1>2, HandleLeft DEF Passed
<1>3. QED
  BY <1>1, <1>2

\* No step leaves a file open behind it, or is without one it needs.
LEMMA HandlesStep ==
  ASSUME IInv, HandlesInv, NEW p \in Processes, Next!(p)
  PROVE  HandlesInv'
<1> DEFINE quiet == pc[p] \notin {"receive", "hash_read"}
<1>1. CASE ListInstalled(p) \/ ListModels(p)
  BY <1>1 DEF ListInstalled, ListModels, Answered, HandlesInv
<1>2. CASE CallResolveOrDownload(p) \/ CallDownload(p) \/ CallRemove(p)
  BY <1>2, HandleStays DEF CallResolveOrDownload, CallDownload, CallRemove, Begin, Goto
<1>3. CASE Resolve(p)
  <2>1. CASE dir["final"] # Absent
    BY <1>3, <2>1, HandleLeft DEF Resolve
  <2>2. CASE dir["final"] = Absent
    BY <1>3, <2>2, HandleStays DEF Resolve, Goto
  <2>3. QED
    BY <2>1, <2>2
<1>4. CASE Exists(p)
  <2>1. PICK label \in {"magic", "request"} : pc' = [pc EXCEPT ![p] = label]
    BY <1>4 DEF Exists, Goto
  <2>2. pc[p] = "exists" /\ handle' = handle
    BY <1>4 DEF Exists
  <2>3. QED
    BY <2>1, <2>2, HandleStays
<1>5. CASE CallFails(p) \/ ReceiveFails(p) \/ MagicFails(p) \/ RenameFails(p) \/ Crash(p)
  BY <1>5, HandleLeft DEF CallFails, ReceiveFails, MagicFails, RenameFails, Crash
<1>6. CASE Request(p)
  <2>1. pc[p] = "request" /\ pc' = [pc EXCEPT ![p] = "create"] /\ handle' = handle
    BY <1>6 DEF Request, Goto
  <2>2. QED
    BY <2>1, HandleStays
<1>7. CASE CreatePart(p)
  <2>1. PICK i \in IF dir["part"] # Absent THEN {dir["part"]} ELSE Inodes \ Kept(dir, handle) :
          Files([dir EXCEPT !["part"] = i], Open(p, i), [data EXCEPT ![i] = << >>])
    BY <1>7 DEF CreatePart
  <2>2. i \in Inodes
    BY <2>1 DEF IInv, FilesInv, Names
  <2>3. handle' = [handle EXCEPT ![p] = [inode |-> i, pos |-> 0]]
    BY <2>1 DEF Files, Open
  <2>4. pc' = [pc EXCEPT ![p] = "receive"]
    BY <1>7 DEF CreatePart, Goto
  <2>5. QED
    BY <2>2, <2>3, <2>4, HandleMoves
<1>8. CASE Receive(p)
  <2>1. pc[p] = "receive" /\ pc' = pc /\ handle' = [handle EXCEPT ![p].pos = handle[p].pos + 1]
    BY <1>8 DEF Receive, Files
  <2>2. \A q \in Processes \ {p} : handle'[q] = handle[q]
    BY <2>1 DEF IInv, FilesInv
  <2>3. handle'[p].inode = handle[p].inode
    BY <2>1 DEF IInv, FilesInv
  <2>4. QED
    BY <2>1, <2>2, <2>3 DEF HandlesInv
<1>9. CASE EndOfBody(p)
  <2>1. pc' = [pc EXCEPT ![p] = "magic"] /\ handle' = [handle EXCEPT ![p] = Closed]
    BY <1>9 DEF EndOfBody, Goto, Files, Close
  <2>2. QED
    BY <2>1, HandleMoves
<1>10. CASE VerifyMagic(p)
  <2>1. CASE entry.sha256 = NoChecksum
    BY <1>10, <2>1, HandlePassed DEF VerifyMagic
  <2>2. CASE entry.sha256 # NoChecksum
    BY <1>10, <2>2, HandleStays DEF VerifyMagic, Goto
  <2>3. QED
    BY <2>1, <2>2
<1>11. CASE HashOpen(p)
  <2>1. CASE There(p)
    <3>1. /\ pc' = [pc EXCEPT ![p] = "hash_read"]
          /\ handle' = [handle EXCEPT ![p] = [inode |-> dir[target[p]], pos |-> 0]]
      BY <1>11, <2>1 DEF HashOpen, Goto, Files, Open
    <3>2. dir[target[p]] \in Inodes
      BY <2>1 DEF There, IInv, FilesInv
    <3>3. QED
      BY <3>1, <3>2, HandleMoves
  <2>2. CASE ~There(p)
    BY <1>11, <2>2, HandleLeft DEF HashOpen
  <2>3. QED
    BY <2>1, <2>2
<1>12. CASE HashRead(p)
  <2>1. pc' = pc /\ handle' = [handle EXCEPT ![p].pos = handle[p].pos + 1] /\ pc[p] = "hash_read"
    BY <1>12 DEF HashRead
  <2>2. \A q \in Processes \ {p} : handle'[q] = handle[q]
    BY <2>1 DEF IInv, FilesInv
  <2>3. handle'[p].inode = handle[p].inode
    BY <2>1 DEF IInv, FilesInv
  <2>4. QED
    BY <2>1, <2>2, <2>3 DEF HandlesInv
<1>13. CASE HashEnd(p)
  <2>1. CASE HasSha256(seen[p])
    BY <1>13, <2>1, HandlePassed DEF HashEnd
  <2>2. CASE ~HasSha256(seen[p])
    BY <1>13, <2>2, HandleLeft DEF HashEnd
  <2>3. QED
    BY <2>1, <2>2
<1>14. CASE VerifySize(p)
  <2>1. CASE dir["part"] # Absent /\ HasSize(data[dir["part"]])
    BY <1>14, <2>1, HandleStays DEF VerifySize, Goto
  <2>2. CASE ~(dir["part"] # Absent /\ HasSize(data[dir["part"]]))
    BY <1>14, <2>2, HandleLeft DEF VerifySize
  <2>3. QED
    BY <2>1, <2>2
<1>15. CASE Rename(p)
  BY <1>15, HandleStays DEF Rename, Return, Goto, Files
<1>16. CASE RemoveExists(p)
  <2>1. CASE dir["final"] # Absent
    BY <1>16, <2>1, HandleStays DEF RemoveExists, Goto
  <2>2. CASE dir["final"] = Absent
    BY <1>16, <2>2, HandleLeft DEF RemoveExists
  <2>3. QED
    BY <2>1, <2>2
<1>17. CASE RemoveFile(p)
  <2>1. CASE dir["final"] # Absent
    BY <1>17, <2>1, HandleStays DEF RemoveFile, Return, Goto, Files
  <2>2. CASE dir["final"] = Absent
    BY <1>17, <2>2, HandleLeft DEF RemoveFile
  <2>3. QED
    BY <2>1, <2>2
<1>18. QED
  BY <1>1, <1>2, <1>3, <1>4, <1>5, <1>6, <1>7, <1>8, <1>9, <1>10, <1>11, <1>12, <1>13,
     <1>14, <1>15, <1>16, <1>17

\* Every answer is one a caller can be given.
LEMMA AnswersStep ==
  ASSUME AnswersInv, NEW p \in Processes, Next!(p)
  PROVE  AnswersInv'
<1> USE DEF AnswersInv
<1> DEFINE Answers == {"none", "installed", "not_installed", "removed", ModelManagerError}
<1>1. \A outcome \in Answers : Leave(p, outcome) => answer' \in Answers
  BY DEF Leave, Return
<1>2. Passed(p) => answer' \in Answers
  BY <1>1 DEF Passed
<1>3. answer' \in Answers
  <2>1. CASE ListInstalled(p) \/ ListModels(p)
    BY <2>1 DEF ListInstalled, ListModels, Answered
  <2>2. CASE CallResolveOrDownload(p) \/ CallDownload(p) \/ CallRemove(p)
    BY <2>2 DEF CallResolveOrDownload, CallDownload, CallRemove, Begin
  <2>3. CASE Exists(p) \/ Request(p) \/ CreatePart(p) \/ Receive(p) \/ EndOfBody(p) \/ HashRead(p)
    BY <2>3 DEF Exists, Request, CreatePart, Receive, EndOfBody, HashRead
  <2>4. CASE CallFails(p) \/ ReceiveFails(p) \/ MagicFails(p) \/ RenameFails(p) \/ Crash(p)
    BY <1>1, <2>4 DEF CallFails, ReceiveFails, MagicFails, RenameFails, Crash
  <2>5. CASE Resolve(p)
    BY <1>1, <2>5 DEF Resolve
  <2>6. CASE VerifyMagic(p)
    BY <1>2, <2>6 DEF VerifyMagic
  <2>7. CASE HashOpen(p)
    BY <1>1, <2>7 DEF HashOpen
  <2>8. CASE HashEnd(p)
    BY <1>1, <1>2, <2>8 DEF HashEnd
  <2>9. CASE VerifySize(p)
    BY <1>1, <2>9 DEF VerifySize
  <2>10. CASE Rename(p)
    BY <2>10 DEF Rename, Return
  <2>11. CASE RemoveExists(p)
    BY <1>1, <2>11 DEF RemoveExists
  <2>12. CASE RemoveFile(p)
    BY <1>1, <2>12 DEF RemoveFile, Return
  <2>13. QED
    BY <2>1, <2>2, <2>3, <2>4, <2>5, <2>6, <2>7, <2>8, <2>9, <2>10, <2>11, <2>12
<1>4. overlapped' \in BOOLEAN /\ broken' \in BOOLEAN
  <2> USE DEF ListInstalled, ListModels, Answered, CallResolveOrDownload, CallDownload,
       CallRemove, Begin, Resolve, Exists, CallFails, Request, CreatePart, Receive, ReceiveFails,
       EndOfBody, VerifyMagic, MagicFails, HashOpen, HashRead, HashEnd, VerifySize, Rename,
       RenameFails, RemoveExists, RemoveFile, Crash
  <2>1. overlapped' \in BOOLEAN
    OBVIOUS
  <2>2. broken' \in BOOLEAN
    OBVIOUS
  <2>3. QED
    BY <2>1, <2>2
<1>5. QED
  BY <1>3, <1>4

\* A process has a file open exactly while it receives or hashes, and every
\* answer is one a caller can be given.
THEOREM HandlesAlways == Spec => [](HandlesInv /\ AnswersInv)
<1>1. Init => HandlesInv /\ AnswersInv
  BY DEF Init, HandlesInv, AnswersInv
<1>2. IInv /\ HandlesInv /\ AnswersInv /\ [Next]_vars => (HandlesInv /\ AnswersInv)'
  <2> SUFFICES ASSUME IInv, HandlesInv, AnswersInv, [Next]_vars
               PROVE  HandlesInv' /\ AnswersInv'
    OBVIOUS
  <2>2. CASE UNCHANGED vars
    BY <2>2 DEF vars, HandlesInv, AnswersInv
  <2>3. CASE Next
    <3>1. PICK p \in Processes : Next!(p)
      BY <2>3 DEF Next
    <3>2. QED
      BY <3>1, HandlesStep, AnswersStep
  <2>4. QED
    BY <2>2, <2>3
<1>3. QED
  BY <1>1, <1>2, Invariance, PTL DEF Spec

\* Every variable has its type, the two names never share a file, and a process
\* has a file open exactly while it receives or hashes (downloader.rs).
THEOREM TypeCorrect == Spec => []TypeOK
<1>1. EntryInv /\ IInv /\ HandlesInv /\ AnswersInv => TypeOK
  <2> SUFFICES ASSUME EntryInv, IInv, HandlesInv, AnswersInv PROVE TypeOK
    OBVIOUS
  <2>1. user \in Registries /\ entry = Asked
    BY DEF EntryInv
  <2>2. entry \in BuiltIn \cup {user[i] : i \in DOMAIN user}
    <3> DEFINE mine == {i \in DOMAIN user : user[i].id = Id}
               last == CHOOSE i \in mine : \A j \in mine : j <= i
    <3>1. CASE mine # {}
      <4>1. entry = user[last]
        BY <2>1, <3>1 DEF Asked
      <4>2. last \in DOMAIN user
        <5>1. \E k \in DOMAIN user : user[k].id = Id
          BY <3>1
        <5>2. QED
          BY <2>1, <5>1, LatestExists
      <4> HIDE DEF last
      <4>3. QED
        BY <4>1, <4>2
    <3>2. CASE mine = {}
      <4>1. entry = Find(BuiltIn, Id)
        BY <2>1, <3>2 DEF Asked
      <4>2. Find(BuiltIn, Id) \in BuiltIn
        BY DownloadAssumption DEF Find
      <4>3. QED
        BY <4>1, <4>2
    <3>3. QED
      BY <3>1, <3>2
  <2>3. \A p \in Processes :
          /\ body[p] \in Bodies \cup {<< >>}
          /\ handle[p].inode \in Inodes \cup {Absent}
    BY DEF IInv, FilesInv
  <2>4. \A p \in Processes : (handle[p] # Closed) <=> pc[p] \in {"receive", "hash_read"}
    <3>1. ASSUME NEW p \in Processes, pc[p] \in {"receive", "hash_read"}
          PROVE  handle[p] # Closed
      <4>1. handle[p].inode \in Inodes /\ handle[p].inode # Absent
        BY <3>1, DownloadAssumption DEF HandlesInv
      <4>2. Closed.inode = Absent
        BY DEF Closed
      <4>3. QED
        BY <4>1, <4>2
    <3>2. \A p \in Processes : pc[p] \notin {"receive", "hash_read"} => handle[p] = Closed
      BY DEF HandlesInv
    <3>3. QED
      BY <3>1, <3>2
  <2>5. QED
    BY <2>1, <2>2, <2>3, <2>4 DEF TypeOK, IInv, FilesInv, AnswersInv
<1>2. QED
  BY <1>1, EntryAlways, Invariance, HandlesAlways, PTL

\* No chain of calls, failures and crashes publishes a file under the model's
\* name that lacks the magic, the size or the checksum asked for, or answers
\* "installed" without one, as long as calls do not overlap (downloader.rs,
\* resolver.rs, registry.rs).
THEOREM PublishedVerifiedAlways == Spec => []PublishedVerified
<1>1. EntryInv /\ IInv => PublishedVerified
  BY DEF HasSize, EntryInv, IInv, AloneInv, PublishedVerified, Genuine, Verified
<1>2. QED
  BY <1>1, EntryAlways, Invariance, PTL

-----------------------------------------------------------------------------
(* Whole transfers that overlap: whoever truncated a file last fills it.    *)

(* Before any transfer there is nothing half-written that counts. *)
THEOREM InitQuiet == Init => QuietInv
BY DEF Init, QuietInv, Names

\* A step of a process that neither receives nor begins to, and writes nothing
LEMMA WritesNothing ==
  ASSUME QuietInv, NEW p \in Processes, pc[p] # "receive", pc'[p] # "receive",
         \A q \in Processes \ {p} :
           pc'[q] = pc[q] /\ handle'[q] = handle[q] /\ body'[q] = body[q],
         ~broken' => ~broken /\ (pc'[p] = "create" => body'[p] = Model),
         \A n \in Names : dir'[n] # Absent =>
           \E m \in Names : dir[m] = dir'[n] /\ data'[dir[m]] = data[dir[m]]
  PROVE  QuietInv'
<1> SUFFICES ASSUME ~broken' PROVE QuietInv'
  BY DEF QuietInv
<1>1. \A q \in Processes : pc'[q] \in {"create", "receive"} => body'[q] = Model
  BY DEF QuietInv
<1>2. ASSUME NEW n \in Names, dir'[n] # Absent
      PROVE  /\ Partial(data[dir[n]])'
             /\ (data[dir[n]] = Model \/ \E q \in Processes : Completes(q, dir[n]))'
  <2>1. PICK m \in Names : dir[m] = dir'[n] /\ data'[dir[m]] = data[dir[m]]
    BY <1>2
  <2>2. Partial(data[dir[n]])'
    BY <1>2, <2>1 DEF QuietInv, Partial
  <2>3. CASE data[dir[m]] = Model
    BY <2>1, <2>2, <2>3
  <2>4. ASSUME NEW q \in Processes, Completes(q, dir[m]) PROVE Completes(q, dir[n])'
    <3>1. q # p
      BY <2>4 DEF Completes
    <3>2. QED
      BY <2>1, <2>4, <3>1 DEF Completes
  <2>5. QED
    BY <1>2, <2>1, <2>2, <2>3, <2>4 DEF QuietInv
<1>3. QED
  BY <1>1, <1>2 DEF QuietInv

\* A step of such a process that renames, removes, opens or closes a file
LEMMA RearrangesFiles ==
  ASSUME IInv, QuietInv, NEW p \in Processes, NEW label \in Labels \ {"create", "receive"},
         pc[p] # "receive", pc' = [pc EXCEPT ![p] = label], ~broken' => ~broken,
         NEW d \in [Names -> Inodes \cup {Absent}], NEW h \in [Processes -> Handles],
         Files(d, h, data),
         \A n \in Names : d[n] # Absent => \E m \in Names : d[n] = dir[m],
         \A q \in Processes \ {p} : h[q] = handle[q] /\ body'[q] = body[q]
  PROVE  QuietInv'
<1>1. dir' = d /\ handle' = h /\ \A n \in Names : d[n] # Absent => data'[d[n]] = data[d[n]]
  BY FilesKeep DEF IInv, FilesInv
<1>2. pc'[p] = label /\ \A q \in Processes \ {p} : pc'[q] = pc[q]
  BY DEF IInv, FilesInv
<1>3. QED
  BY <1>1, <1>2, WritesNothing

(* A step that leaves a process outside its transfer and the files alone. *)
LEMMA LeaveQuiet ==
  ASSUME IInv, QuietInv, NEW p \in Processes, NEW outcome, Leave(p, outcome),
         ~broken' => ~broken /\ pc[p] # "receive"
  PROVE  QuietInv'
<1> SUFFICES ASSUME ~broken' PROVE QuietInv'
  BY DEF QuietInv
<1>1. Close(p) \in [Processes -> Handles] /\ dir \in [Names -> Inodes \cup {Absent}]
  BY DEF IInv, FilesInv, Handles, Close, Closed
<1>2. \A q \in Processes \ {p} : Close(p)[q] = handle[q]
  BY DEF IInv, FilesInv, Close
<1>3. /\ pc' = [pc EXCEPT ![p] = "idle"] /\ Files(dir, Close(p), data)
      /\ \A q \in Processes \ {p} : body'[q] = body[q]
  BY DEF IInv, FilesInv, Leave, Return, Goto
<1>4. "idle" \in Labels \ {"create", "receive"}
  BY DEF Labels
<1>5. QED
  BY <1>1, <1>2, <1>3, <1>4, RearrangesFiles

(* A step that only moves a process on. *)
LEMMA GotoQuiet ==
  ASSUME IInv, QuietInv, NEW p \in Processes, NEW label \in Labels \ {"receive"},
         pc[p] # "receive", pc' = [pc EXCEPT ![p] = label],
         UNCHANGED <<dir, data>>,
         \A q \in Processes \ {p} : handle'[q] = handle[q] /\ body'[q] = body[q],
         ~broken' => ~broken /\ (label = "create" => body'[p] = Model)
  PROVE  QuietInv'
<1>1. pc'[p] = label /\ \A q \in Processes \ {p} : pc'[q] = pc[q]
  BY DEF IInv, FilesInv
<1>2. QED
  BY <1>1, WritesNothing

(* A check that passes changes no file and goes on to the next. *)
LEMMA PassedQuiet ==
  ASSUME IInv, QuietInv, NEW p \in Processes, pc[p] # "receive", Passed(p), UNCHANGED broken
  PROVE  QuietInv'
<1>1. CASE target[p] = "part"
  <2>1. /\ pc' = [pc EXCEPT ![p] = "size"] /\ Files(dir, Close(p), data) /\ UNCHANGED body
    BY <1>1 DEF Passed, Goto
  <2>2. Close(p) \in [Processes -> Handles] /\ dir \in [Names -> Inodes \cup {Absent}]
    BY DEF IInv, FilesInv, Handles, Close, Closed
  <2>3. \A q \in Processes \ {p} : Close(p)[q] = handle[q]
    BY DEF IInv, FilesInv, Close
  <2>4. "size" \in Labels \ {"create", "receive"}
    BY DEF Labels
  <2>5. QED
    BY <2>1, <2>2, <2>3, <2>4, RearrangesFiles
<1>2. CASE target[p] # "part"
  BY <1>2, LeaveQuiet DEF Passed
<1>3. QED
  BY <1>1, <1>2

\* CreatePart keeps QuietInv.
LEMMA CreatePartQuiet ==
  ASSUME IInv, QuietInv, NEW p \in Processes, CreatePart(p)
  PROVE  QuietInv'
<1>1. PICK i \in IF dir["part"] # Absent THEN {dir["part"]} ELSE Inodes \ Kept(dir, handle) :
        Files([dir EXCEPT !["part"] = i], Open(p, i), [data EXCEPT ![i] = << >>])
  BY DEF CreatePart
<1>2. /\ pc[p] = "create" /\ pc' = [pc EXCEPT ![p] = "receive"]
      /\ UNCHANGED <<body, broken>>
  BY DEF CreatePart, Goto
<1>3. i \in Inodes /\ i # Absent
  BY <1>1, DownloadAssumption DEF IInv, FilesInv, Names
<1>4. i # dir["final"]
  <2>1. dir["final"] \in Kept(dir, handle)
    BY DEF Kept, Names
  <2>2. QED
    BY <1>1, <2>1 DEF IInv, FilesInv
<1> DEFINE d == [dir EXCEPT !["part"] = i]
           h == Open(p, i)
           contents == [data EXCEPT ![i] = << >>]
<1>5. /\ d \in [Names -> Inodes \cup {Absent}] /\ h \in [Processes -> Handles]
      /\ contents \in [Inodes -> Seq(Chunks)]
  <2>1. d \in [Names -> Inodes \cup {Absent}]
    BY <1>3 DEF IInv, FilesInv
  <2>2. h \in [Processes -> Handles]
    BY <1>3 DEF IInv, FilesInv, Open, Handles
  <2>3. data \in [Inodes -> Seq(Chunks)] /\ << >> \in Seq(Chunks)
    BY DEF IInv, FilesInv
  <2>4. contents \in [Inodes -> Seq(Chunks)]
    BY <2>3, Zenon
  <2>5. QED
    BY <2>1, <2>2, <2>4
<1>6. /\ d["part"] = i /\ d["final"] = dir["final"] /\ h[p] = [inode |-> i, pos |-> 0]
      /\ \A q \in Processes \ {p} : h[q] = handle[q]
  BY DEF IInv, FilesInv, Open, Names
<1>7. contents[i] = << >> /\ \A j \in Inodes \ {i} : contents[j] = data[j]
  BY <1>3 DEF IInv, FilesInv
<1>8. Files(d, h, contents)
  BY <1>1
<1> HIDE DEF d, h, contents
<1>9. /\ dir' = d /\ handle' = h
      /\ \A n \in Names : d[n] # Absent => data'[d[n]] = contents[d[n]]
  BY <1>5, <1>8, FilesKeep
<1>10. pc'[p] = "receive" /\ \A q \in Processes \ {p} : pc'[q] = pc[q]
  BY <1>2 DEF IInv, FilesInv
<1> SUFFICES ASSUME ~broken' PROVE QuietInv'
  BY DEF QuietInv
<1>11. \A q \in Processes : pc'[q] \in {"create", "receive"} => body'[q] = Model
  BY <1>2, <1>10 DEF QuietInv
<1>12. Partial(data[dir["part"]])' /\ Completes(p, dir["part"])'
  <2>1. dir'["part"] = i /\ data'[i] = << >>
    BY <1>3, <1>6, <1>7, <1>9 DEF Names
  <2>2. Len(Model) \in Nat
    BY DownloadAssumption
  <2>3. Partial(data[dir["part"]])'
    BY <2>1, <2>2 DEF Partial
  <2>4. handle'[p].inode = i /\ handle'[p].pos = 0
    BY <1>6, <1>9
  <2>5. QED
    BY <1>10, <2>1, <2>3, <2>4 DEF Completes
<1>13. dir'["final"] # Absent =>
         /\ Partial(data[dir["final"]])'
         /\ (data[dir["final"]] = Model \/ \E q \in Processes : Completes(q, dir["final"]))'
  <2>1. SUFFICES ASSUME dir'["final"] # Absent
                 PROVE  /\ Partial(data[dir["final"]])'
                        /\ \/ (data[dir["final"]] = Model)'
                           \/ \E q \in Processes : Completes(q, dir["final"])'
    OBVIOUS
  <2>2. dir'["final"] = dir["final"] /\ data'[dir["final"]] = data[dir["final"]]
    BY <1>4, <1>6, <1>7, <1>9, <2>1 DEF IInv, FilesInv, Names
  <2>3. Partial(data[dir["final"]])'
    BY <1>2, <2>1, <2>2 DEF QuietInv, Partial, Names
  <2>4. ASSUME NEW q \in Processes, Completes(q, dir["final"]) PROVE Completes(q, dir["final"])'
    <3>1. q # p
      BY <1>2, <2>4 DEF Completes
    <3>2. QED
      BY <1>6, <1>9, <1>10, <2>2, <2>4, <3>1 DEF Completes
  <2>5. QED
    BY <1>2, <2>1, <2>2, <2>3, <2>4 DEF QuietInv, Names
<1>14. QED
  BY <1>11, <1>12, <1>13 DEF QuietInv, Names

\* A chunk of the model, written where it belongs, spoils no file.
LEMMA ModelChunk ==
  ASSUME NEW c \in Seq(Chunks), Partial(c), NEW pos \in Nat, pos < Len(Model)
  PROVE  LET w == Written(c, pos, Model[pos + 1])
         IN  /\ Partial(w) /\ Len(w) >= Len(c) /\ Len(w) >= pos + 1
             /\ w[pos + 1] = Model[pos + 1]
             /\ \A k \in 1 .. Len(c) : c[k] = Model[k] => w[k] = Model[k]
<1> DEFINE n == IF pos + 1 > Len(c) THEN pos + 1 ELSE Len(c)
           w == Written(c, pos, Model[pos + 1])
<1>1. Model \in Seq(Chunks) /\ Len(Model) \in Nat
  BY DownloadAssumption
<1>2. Model[pos + 1] \in Chunks
  BY <1>1
<1>3. w \in Seq(Chunks)
  BY <1>2, WrittenChunks
<1>4. DOMAIN w = 1 .. n /\ n \in Nat
  BY DEF Written
<1>5. Len(w) = n
  BY <1>3, <1>4
<1>6. \A k \in 1 .. n :
        w[k] = IF k = pos + 1 THEN Model[pos + 1] ELSE IF k <= Len(c) THEN c[k] ELSE Hole
  BY DEF Written
<1> HIDE DEF w
<1>7. Len(c) \in Nat /\ Len(c) <= Len(Model) /\ n >= Len(c) /\ n >= pos + 1 /\ n <= Len(Model)
  BY <1>1 DEF Partial
<1>8. \A k \in 1 .. n : w[k] \in {Model[k], Hole}
  <2>1. SUFFICES ASSUME NEW k \in 1 .. n PROVE w[k] \in {Model[k], Hole}
    OBVIOUS
  <2>2. CASE k = pos + 1
    BY <1>6, <2>2
  <2>3. CASE k # pos + 1 /\ k <= Len(c)
    <3>1. k \in 1 .. Len(c) /\ w[k] = c[k]
      BY <1>6, <2>3
    <3>2. QED
      BY <3>1 DEF Partial
  <2>4. CASE k # pos + 1 /\ ~(k <= Len(c))
    BY <1>6, <2>4
  <2>5. QED
    BY <2>2, <2>3, <2>4
<1>9. Partial(w)
  BY <1>5, <1>7, <1>8 DEF Partial
<1>10. \A k \in 1 .. Len(c) : c[k] = Model[k] => w[k] = Model[k]
  BY <1>6, <1>7
<1>11. w[pos + 1] = Model[pos + 1]
  BY <1>6, <1>7
<1>12. QED
  BY <1>5, <1>7, <1>9, <1>10, <1>11 DEF w

\* A file without holes is the model.
LEMMA WholeFile ==
  ASSUME NEW c \in Seq(Chunks), Partial(c), Len(c) >= Len(Model),
         \A k \in 1 .. Len(Model) : c[k] = Model[k]
  PROVE  c = Model
<1>1. Model \in Seq(Chunks)
  BY DownloadAssumption
<1>2. Len(c) = Len(Model)
  BY <1>1 DEF Partial
<1>3. QED
  BY <1>1, <1>2

\* Receive keeps QuietInv.
LEMMA ReceiveQuiet ==
  ASSUME IInv, QuietInv, NEW p \in Processes, Receive(p)
  PROVE  QuietInv'
<1> DEFINE i == handle[p].inode
           pos == handle[p].pos
           h == [handle EXCEPT ![p].pos = pos + 1]
           contents == [data EXCEPT ![i] = Written(data[i], pos, body[p][pos + 1])]
<1>1. /\ pc[p] = "receive" /\ pos < Len(body[p]) /\ Files(dir, h, contents)
      /\ UNCHANGED <<pc, body, broken>>
  BY DEF Receive
<1> SUFFICES ASSUME ~broken PROVE QuietInv'
  BY <1>1 DEF QuietInv
<1>2. body[p] = Model /\ pos < Len(Model) /\ pos \in Nat
  BY <1>1 DEF QuietInv, IInv, FilesInv
<1>3. \A n \in Names : dir[n] # Absent => dir[n] \in Inodes /\ data[dir[n]] \in Seq(Chunks)
  BY DEF IInv, FilesInv
<1>4. /\ dir' = dir /\ handle' = h
      /\ \A n \in Names : dir[n] # Absent => data'[dir[n]] = contents[dir[n]]
  <2>1. h \in [Processes -> Handles]
    <3>1. handle \in [Processes -> Handles] /\ pos + 1 \in Nat
      BY <1>2 DEF IInv, FilesInv, Handles
    <3>2. [handle[p] EXCEPT !.pos = pos + 1] \in Handles
      BY <3>1 DEF Handles
    <3>3. QED
      BY <3>1, <3>2
  <2>2. contents \in [Inodes -> Seq(Chunks)]
    <3>1. data \in [Inodes -> Seq(Chunks)]
      BY DEF IInv, FilesInv
    <3>2. Model \in Seq(Chunks)
      BY DownloadAssumption
    <3>3. body[p][pos + 1] \in Chunks
      BY <1>2, <3>2
    <3>4. CASE i \in Inodes
      <4>1. Written(data[i], pos, body[p][pos + 1]) \in Seq(Chunks)
        BY <1>2, <3>1, <3>3, <3>4, WrittenChunks
      <4>2. QED
        BY <3>1, <4>1
    <3>5. CASE i \notin Inodes
      BY <3>1, <3>5
    <3>6. QED
      BY <3>4, <3>5
  <2>3. Files(dir, h, contents) /\ dir \in [Names -> Inodes \cup {Absent}]
    BY <1>1 DEF IInv, FilesInv
  <2> HIDE DEF h, contents
  <2>4. QED
    BY <2>1, <2>2, <2>3, FilesKeep
<1>5. /\ h[p].inode = i /\ h[p].pos = pos + 1
      /\ \A q \in Processes \ {p} : h[q] = handle[q]
  BY DEF IInv, FilesInv
<1>6. /\ i \in Inodes => contents[i] = Written(data[i], pos, Model[pos + 1])
      /\ \A j \in Inodes \ {i} : contents[j] = data[j]
  BY <1>2 DEF IInv, FilesInv
<1> HIDE DEF h, contents
<1>7. ASSUME NEW n \in Names, dir[n] # Absent
      PROVE  /\ Partial(data'[dir[n]])
             /\ data'[dir[n]] = Model \/ \E q \in Processes : Completes(q, dir[n])'
  <2>1. CASE dir[n] # i
    <3>1. data'[dir[n]] = data[dir[n]]
      BY <1>3, <1>4, <1>6, <1>7, <2>1
    <3>2. Partial(data'[dir[n]])
      BY <1>7, <3>1 DEF QuietInv
    <3>3. ASSUME NEW q \in Processes, Completes(q, dir[n]) PROVE Completes(q, dir[n])'
      <4>1. q # p
        BY <2>1, <3>3 DEF Completes
      <4>2. QED
        BY <1>1, <1>4, <1>5, <3>1, <3>3, <4>1 DEF Completes
    <3>4. QED
      BY <1>7, <3>1, <3>2, <3>3 DEF QuietInv
  <2>2. CASE dir[n] = i
    <3> DEFINE c == data[i]
               w == Written(c, pos, Model[pos + 1])
    <3>1. c \in Seq(Chunks) /\ data'[i] = w /\ i \in Inodes
      BY <1>3, <1>4, <1>6, <1>7, <2>2
    <3>2. Partial(c)
      BY <1>7, <2>2 DEF QuietInv
    <3>3. /\ Partial(w) /\ Len(w) >= Len(c) /\ Len(w) >= pos + 1
          /\ w[pos + 1] = Model[pos + 1]
          /\ \A k \in 1 .. Len(c) : c[k] = Model[k] => w[k] = Model[k]
      BY <1>2, <3>1, <3>2, ModelChunk
    <3>4. w \in Seq(Chunks)
      <4>1. Model \in Seq(Chunks)
        BY DownloadAssumption
      <4>2. Model[pos + 1] \in Chunks
        BY <1>2, <4>1
      <4>3. QED
        BY <1>2, <3>1, <4>2, WrittenChunks
    <3> HIDE DEF w
    <3>5. CASE c = Model
      <4>1. Len(w) >= Len(Model) /\ \A k \in 1 .. Len(Model) : w[k] = Model[k]
        BY <3>3, <3>5
      <4>2. QED
        BY <2>2, <3>1, <3>3, <3>4, <4>1, WholeFile
    <3>6. ASSUME NEW q \in Processes, Completes(q, dir[n]) PROVE Completes(q, dir[n])'
      <4>1. handle[q].pos \in Nat /\ Len(c) \in Nat /\ Len(w) \in Nat
        BY <3>1, <3>4 DEF IInv, FilesInv
      <4>2. CASE q = p
        <5>1. /\ handle'[p].inode = i /\ handle'[p].pos = pos + 1 /\ pc'[p] = "receive"
          BY <1>1, <1>4, <1>5
        <5>2. pos <= Len(c) /\ \A k \in 1 .. pos : c[k] = Model[k]
          BY <2>2, <3>6, <4>2 DEF Completes
        <5>3. \A k \in 1 .. pos : w[k] = Model[k]
          BY <1>2, <3>3, <4>1, <5>2
        <5>4. \A k \in 1 .. pos + 1 : w[k] = Model[k]
          BY <1>2, <3>3, <5>3
        <5>5. QED
          BY <1>4, <2>2, <3>1, <3>3, <4>2, <5>1, <5>4 DEF Completes
      <4>3. CASE q # p
        <5>1. handle'[q] = handle[q] /\ pc'[q] = "receive" /\ handle[q].inode = i
          BY <1>1, <1>4, <1>5, <2>2, <3>6, <4>3 DEF Completes
        <5>2. handle[q].pos <= Len(c) /\ \A k \in 1 .. handle[q].pos : c[k] = Model[k]
          BY <2>2, <3>6 DEF Completes
        <5>3. handle[q].pos <= Len(w) /\ \A k \in 1 .. handle[q].pos : w[k] = Model[k]
          BY <3>3, <4>1, <5>2
        <5>4. QED
          BY <1>4, <2>2, <3>1, <5>1, <5>3 DEF Completes
      <4>4. QED
        BY <4>2, <4>3
    <3>7. QED
      BY <1>7, <2>2, <3>1, <3>3, <3>5, <3>6 DEF QuietInv
  <2>3. QED
    BY <2>1, <2>2
<1>8. QED
  BY <1>1, <1>4, <1>7 DEF QuietInv

\* EndOfBody keeps QuietInv.
LEMMA EndOfBodyQuiet ==
  ASSUME IInv, QuietInv, NEW p \in Processes, EndOfBody(p)
  PROVE  QuietInv'
<1>1. /\ pc[p] = "receive" /\ handle[p].pos = Len(body[p]) /\ Files(dir, Close(p), data)
      /\ pc' = [pc EXCEPT ![p] = "magic"] /\ body' = [body EXCEPT ![p] = << >>]
      /\ UNCHANGED broken
  BY DEF EndOfBody, Goto
<1> SUFFICES ASSUME ~broken PROVE QuietInv'
  BY <1>1 DEF QuietInv
<1>2. handle[p].pos = Len(Model)
  BY <1>1 DEF QuietInv
<1>3. Close(p) \in [Processes -> Handles]
  BY DEF IInv, FilesInv, Handles, Close, Closed
<1>4. /\ dir' = dir /\ handle' = Close(p)
      /\ \A n \in Names : dir[n] # Absent => data'[dir[n]] = data[dir[n]]
  BY <1>1, <1>3, FilesKeep DEF IInv, FilesInv
<1>5. /\ pc'[p] = "magic"
      /\ \A q \in Processes \ {p} :
           pc'[q] = pc[q] /\ body'[q] = body[q] /\ handle'[q] = handle[q]
  BY <1>1, <1>4 DEF IInv, FilesInv, Close
<1>6. ASSUME NEW n \in Names, dir[n] # Absent
      PROVE  /\ Partial(data'[dir[n]])
             /\ data'[dir[n]] = Model \/ \E q \in Processes : Completes(q, dir[n])'
  <2>1. data'[dir[n]] = data[dir[n]] /\ Partial(data[dir[n]]) /\ data[dir[n]] \in Seq(Chunks)
    BY <1>4, <1>6 DEF QuietInv, IInv, FilesInv
  <2>2. ASSUME Completes(p, dir[n]) PROVE data[dir[n]] = Model
    BY <1>2, <2>1, <2>2, WholeFile DEF Completes
  <2>3. ASSUME NEW q \in Processes \ {p}, Completes(q, dir[n]) PROVE Completes(q, dir[n])'
    BY <1>4, <1>5, <2>1, <2>3 DEF Completes
  <2>4. QED
    BY <1>6, <2>1, <2>2, <2>3 DEF QuietInv
<1>7. QED
  BY <1>4, <1>5, <1>6 DEF QuietInv

\* HashOpen keeps QuietInv.
LEMMA HashOpenQuiet ==
  ASSUME IInv, QuietInv, NEW p \in Processes, HashOpen(p)
  PROVE  QuietInv'
<1>1. pc[p] = "hash_open" /\ UNCHANGED broken
  BY DEF HashOpen
<1>2. CASE There(p)
  <2> DEFINE h == Open(p, dir[target[p]])
  <2>1. Files(dir, h, data) /\ pc' = [pc EXCEPT ![p] = "hash_read"] /\ UNCHANGED body
    BY <1>2 DEF HashOpen, Goto
  <2>2. h \in [Processes -> Handles] /\ dir \in [Names -> Inodes \cup {Absent}]
    BY DEF IInv, FilesInv, Handles, Open
  <2>3. \A q \in Processes \ {p} : h[q] = handle[q]
    BY DEF IInv, FilesInv, Open
  <2>4. "hash_read" \in Labels \ {"create", "receive"}
    BY DEF Labels
  <2> HIDE DEF h
  <2>5. QED
    BY <1>1, <2>1, <2>2, <2>3, <2>4, RearrangesFiles
<1>3. CASE ~There(p)
  BY <1>1, <1>3, LeaveQuiet DEF HashOpen
<1>4. QED
  BY <1>2, <1>3

\* A call that ends with a name changed
LEMMA RenamesQuiet ==
  ASSUME IInv, QuietInv, NEW p \in Processes, NEW d \in [Names -> Inodes \cup {Absent}],
         pc[p] # "receive", Files(d, handle, data), pc' = [pc EXCEPT ![p] = "idle"],
         body' = [body EXCEPT ![p] = << >>], UNCHANGED broken,
         \A n \in Names : d[n] # Absent => \E m \in Names : d[n] = dir[m]
  PROVE  QuietInv'
<1>1. handle \in [Processes -> Handles] /\ data \in [Inodes -> Seq(Chunks)]
  BY DEF IInv, FilesInv, Handles
<1>2. /\ dir' = d /\ handle' = handle
      /\ \A n \in Names : d[n] # Absent => data'[d[n]] = data[d[n]]
  BY <1>1, FilesKeep
<1>3. /\ pc'[p] = "idle"
      /\ \A q \in Processes \ {p} : pc'[q] = pc[q] /\ body'[q] = body[q]
  BY DEF IInv, FilesInv
<1>4. QED
  BY <1>2, <1>3, WritesNothing

\* Publish keeps QuietInv.
LEMMA PublishQuiet ==
  ASSUME IInv, QuietInv, NEW p \in Processes, Rename(p) \/ RemoveFile(p)
  PROVE  QuietInv'
<1>1. CASE Rename(p)
  <2> DEFINE d == [final |-> dir["part"], part |-> Absent]
  <2>1. /\ pc[p] # "receive" /\ Files(d, handle, data) /\ pc' = [pc EXCEPT ![p] = "idle"]
        /\ body' = [body EXCEPT ![p] = << >>] /\ UNCHANGED broken
    BY <1>1 DEF Rename, Return, Goto
  <2>2. /\ d \in [Names -> Inodes \cup {Absent}]
        /\ \A n \in Names : d[n] # Absent => d[n] = dir["part"]
    BY DEF IInv, FilesInv, Names
  <2>3. "part" \in Names
    BY DEF Names
  <2> HIDE DEF d
  <2>4. QED
    BY <2>1, <2>2, <2>3, RenamesQuiet
<1>2. CASE RemoveFile(p) /\ dir["final"] # Absent
  <2> DEFINE d == [dir EXCEPT !["final"] = Absent]
  <2>1. /\ pc[p] # "receive" /\ Files(d, handle, data) /\ pc' = [pc EXCEPT ![p] = "idle"]
        /\ body' = [body EXCEPT ![p] = << >>] /\ UNCHANGED broken
    BY <1>2 DEF RemoveFile, Return, Goto
  <2>2. /\ d \in [Names -> Inodes \cup {Absent}]
        /\ \A n \in Names : d[n] # Absent => d[n] = dir[n]
    BY DEF IInv, FilesInv, Names
  <2> HIDE DEF d
  <2>3. QED
    BY <2>1, <2>2, RenamesQuiet
<1>3. CASE RemoveFile(p) /\ dir["final"] = Absent
  BY <1>3, LeaveQuiet DEF RemoveFile
<1>4. QED
  BY <1>1, <1>2, <1>3

\* The steps that only move on, and those that may give up instead
LEMMA OtherQuiet ==
  ASSUME IInv, QuietInv, NEW p \in Processes
  PROVE  /\ ListInstalled(p) \/ ListModels(p) => QuietInv'
         /\ CallResolveOrDownload(p) \/ CallDownload(p) \/ CallRemove(p) => QuietInv'
         /\ Resolve(p) \/ Exists(p) \/ Request(p) => QuietInv'
         /\ HashRead(p) \/ VerifySize(p) \/ RemoveExists(p) => QuietInv'
<1> USE DEF Labels
<1>1. ASSUME ListInstalled(p) \/ ListModels(p) PROVE QuietInv'
  BY <1>1 DEF ListInstalled, ListModels, Answered, QuietInv, Completes, Partial
<1>2. ASSUME NEW label \in {"resolve", "exists", "remove_exists"}, Begin(p, label)
      PROVE  QuietInv'
  BY <1>2, GotoQuiet DEF Begin, Goto
<1>3. ASSUME Resolve(p) PROVE QuietInv'
  BY <1>3, GotoQuiet, LeaveQuiet DEF Resolve, Goto
<1>4. ASSUME Exists(p) PROVE QuietInv'
  <2>1. PICK label \in {"magic", "request"} : pc' = [pc EXCEPT ![p] = label]
    BY <1>4 DEF Exists, Goto
  <2>2. QED
    BY <1>4, <2>1, GotoQuiet DEF Exists
<1>5. ASSUME Request(p) PROVE QuietInv'
  <2>1. PICK b \in Bodies : body' = [body EXCEPT ![p] = b] /\ broken' = (broken \/ b # Model)
    BY <1>5 DEF Request
  <2>2. body'[p] = b /\ \A q \in Processes \ {p} : body'[q] = body[q]
    BY <2>1 DEF IInv, FilesInv
  <2>3. ~broken' => ~broken /\ body'[p] = Model
    BY <2>1, <2>2
  <2>4. /\ pc[p] = "request" /\ pc' = [pc EXCEPT ![p] = "create"]
        /\ UNCHANGED <<dir, data, handle>>
    BY <1>5 DEF Request, Goto
  <2>5. QED
    BY <2>2, <2>3, <2>4, GotoQuiet
<1>6. ASSUME HashRead(p) PROVE QuietInv'
  <2>1. pc[p] = "hash_read" /\ UNCHANGED <<dir, data, pc, body, broken>>
    BY <1>6 DEF HashRead
  <2>2. \A q \in Processes \ {p} : handle'[q] = handle[q]
    BY <1>6 DEF HashRead, IInv, FilesInv
  <2>3. QED
    BY <2>1, <2>2, WritesNothing
<1>7. ASSUME VerifySize(p) PROVE QuietInv'
  BY <1>7, GotoQuiet, LeaveQuiet DEF VerifySize, Goto
<1>8. ASSUME RemoveExists(p) PROVE QuietInv'
  BY <1>8, GotoQuiet, LeaveQuiet DEF RemoveExists, Goto
<1>9. QED
  BY <1>1, <1>2, <1>3, <1>4, <1>5, <1>6, <1>7, <1>8
     DEF CallResolveOrDownload, CallDownload, CallRemove

\* GivesUp keeps QuietInv.
LEMMA GivesUpQuiet ==
  ASSUME IInv, QuietInv, NEW p \in Processes,
         \/ CallFails(p) \/ ReceiveFails(p) \/ MagicFails(p) \/ RenameFails(p) \/ Crash(p)
  PROVE  QuietInv'
<1>1. PICK outcome \in {ModelManagerError, "none"} : Leave(p, outcome)
  BY DEF CallFails, ReceiveFails, MagicFails, RenameFails, Crash
<1>2. ~broken' => ~broken /\ pc[p] # "receive"
  BY DEF CallFails, ReceiveFails, MagicFails, RenameFails, Crash
<1>3. QED
  BY <1>1, <1>2, LeaveQuiet

\* VerifyMagic keeps QuietInv.
LEMMA VerifyMagicQuiet ==
  ASSUME IInv, QuietInv, NEW p \in Processes, VerifyMagic(p)
  PROVE  QuietInv'
<1>1. CASE entry.sha256 = NoChecksum
  BY <1>1, PassedQuiet DEF VerifyMagic
<1>2. CASE entry.sha256 # NoChecksum
  BY <1>2, GotoQuiet DEF VerifyMagic, Goto, Labels
<1>3. QED
  BY <1>1, <1>2

\* HashEnd keeps QuietInv.
LEMMA HashEndQuiet ==
  ASSUME IInv, QuietInv, NEW p \in Processes, HashEnd(p)
  PROVE  QuietInv'
<1>1. CASE HasSha256(seen[p])
  BY <1>1, PassedQuiet DEF HashEnd
<1>2. CASE ~HasSha256(seen[p])
  BY <1>2, LeaveQuiet DEF HashEnd
<1>3. QED
  BY <1>1, <1>2

\* No step of any process leaves a file with a hole that nobody will fill.
THEOREM StepQuiet == IInv /\ QuietInv /\ [Next]_vars => QuietInv'
<1> SUFFICES ASSUME IInv, QuietInv, [Next]_vars PROVE QuietInv'
  OBVIOUS
<1>1. CASE UNCHANGED vars
  BY <1>1 DEF vars, QuietInv, Completes, Partial
<1>2. CASE Next
  <2>1. PICK p \in Processes : Next!(p)
    BY <1>2 DEF Next
  <2>2. QED
    BY <2>1, CreatePartQuiet, ReceiveQuiet, EndOfBodyQuiet, VerifyMagicQuiet, HashOpenQuiet,
       HashEndQuiet, PublishQuiet, OtherQuiet, GivesUpQuiet
<1>3. QED
  BY <1>1, <1>2

\* However many processes download the model at once into the one .part file
\* and whichever of them publishes it, as long as every transfer is whole a
\* published file that nobody writes is the model (downloader.rs).
THEOREM PublishedWhenQuietAlways == Spec => []PublishedWhenQuiet
<1>1. QuietInv => PublishedWhenQuiet
  BY DEF QuietInv, PublishedWhenQuiet, Writing, Completes, Names
<1>2. QED
  BY <1>1, Invariance, InitQuiet, StepQuiet, PTL DEF Spec

=============================================================================
