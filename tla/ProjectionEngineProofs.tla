----------------------- MODULE ProjectionEngineProofs -----------------------
(***************************************************************************)
(* The safety properties of ProjectionEngine and of the projections in and *)
(* outside it, for any threads, paths, operations, log, limit on recent    *)
(* changes and number of failing replays.  What a replay leaves behind is  *)
(* proved by induction over the events of the log, and the counts of the   *)
(* files by induction over their number.                                   *)
(***************************************************************************)
EXTENDS ProjectionEngine, SequenceTheorems, FiniteSetTheorems, WellFoundedInduction, TLAPS

(* Induction over the natural numbers, for a set of them.                    *)
LEMMA SetInduction ==
  ASSUME NEW T, 0 \in T, \A n \in Nat : n \in T => n + 1 \in T
  PROVE  Nat \subseteq T
<1> DEFINE missing == Nat \ T
<1> SUFFICES ASSUME missing # {} PROVE FALSE
  OBVIOUS
<1>1. PICK m \in missing : \A k \in missing : ~(<<k, m>> \in OpToRel(<, Nat))
  <2>1. IsWellFoundedOn(OpToRel(<, Nat), Nat)
    BY NatLessThanWellFounded
  <2>2. missing \subseteq Nat
    OBVIOUS
  <2> HIDE DEF missing
  <2> DEFINE R == OpToRel(<, Nat)
  <2>3. IsWellFoundedOn(R, Nat)
    BY <2>1
  <2> HIDE DEF R
  <2>4. \E x \in missing : \A y \in missing : ~(<<y, x>> \in R)
    BY <2>2, <2>3, WFMin
  <2>5. QED
    BY <2>4 DEF R
<1>2. \A k \in missing : ~(k < m)
  BY <1>1 DEF OpToRel
<1>3. m \in Nat /\ m # 0 /\ m - 1 \in Nat /\ m - 1 < m
  OBVIOUS
<1>4. m - 1 \in T
  BY <1>2, <1>3
<1>5. (m - 1) + 1 \in T
  BY <1>3, <1>4
<1>6. QED
  BY <1>3, <1>5

(* A function defined from its value at the number before it is well         *)
(* defined: AfterEach satisfies the equation it is defined by.               *)
LEMMA AfterEachDef ==
  ASSUME NEW name, NEW p, NEW es, Len(es) \in Nat
  PROVE  LET after == AfterEach(name, p, es)
         IN  /\ after[0] = p
             /\ \A i \in 1 .. Len(es) : after[i] = Processed(name, after[i - 1], i, es[i])
<1> DEFINE Step(f, i) == IF i = 0 THEN p ELSE Processed(name, f[i - 1], i, es[i])
           Def(f, n) == f = [i \in 0 .. n |-> Step(f, i)]
           T == {n \in Nat : \E f : Def(f, n)}
<1>1. 0 \in T
  <2>1. Def([i \in 0 .. 0 |-> p], 0)
    OBVIOUS
  <2>2. QED
    BY <2>1
<1>2. ASSUME NEW n \in Nat, n \in T
      PROVE  n + 1 \in T
  <2>1. PICK f : Def(f, n)
    BY <1>2
  <2> DEFINE g == [i \in 0 .. n + 1 |-> IF i <= n THEN f[i] ELSE Step(f, i)]
  <2>2. \A i \in 0 .. n : g[i] = f[i]
    OBVIOUS
  <2>3. \A i \in 0 .. n + 1 : g[i] = Step(g, i)
    <3>1. ASSUME NEW i \in 0 .. n + 1 PROVE g[i] = Step(f, i)
      <4>1. CASE i <= n
        <5>1. f[i] = Step(f, i)
          BY <2>1, <4>1
        <5>2. QED
          BY <4>1, <5>1
      <4>2. CASE ~(i <= n)
        BY <4>2
      <4>3. QED
        BY <4>1, <4>2
    <3>2. ASSUME NEW i \in 0 .. n + 1 PROVE Step(g, i) = Step(f, i)
      <4>1. CASE i = 0
        BY <4>1
      <4>2. CASE i # 0
        <5>1. i - 1 \in 0 .. n
          BY <4>2
        <5> HIDE DEF g
        <5>2. g[i - 1] = f[i - 1]
          BY <2>2, <5>1
        <5>3. QED
          BY <4>2, <5>2
      <4>3. QED
        BY <4>1, <4>2
    <3>3. QED
      BY <3>1, <3>2
  <2>4. g = [i \in 0 .. n + 1 |-> g[i]]
    OBVIOUS
  <2> HIDE DEF g, Step
  <2>5. Def(g, n + 1)
    BY <2>3, <2>4
  <2>6. QED
    BY <2>5
<1> HIDE DEF T
<1>3. Len(es) \in T
  BY <1>1, <1>2, SetInduction, Zenon
<1>4. \E f : Def(f, Len(es))
  BY <1>3 DEF T
<1> DEFINE after == AfterEach(name, p, es)
<1>5. after = CHOOSE f : Def(f, Len(es))
  BY DEF AfterEach
<1>6. Def(after, Len(es))
  <2> HIDE DEF Def, after
  <2>1. QED
    BY <1>4, <1>5
<1> HIDE DEF after
<1>7. \A i \in 0 .. Len(es) : after[i] = Step(after, i)
  <2> HIDE DEF Step
  <2>1. QED
    BY <1>6
<1>8. QED
  BY <1>7 DEF after

-----------------------------------------------------------------------------
(* The number of changes of a projection: a sum over the files it has. *)

\* The sums of the change counts of every set of files
IsSums(sums, files, sets) ==
  sums = [s \in sets |->
            IF s = {} THEN 0
            ELSE LET q == CHOOSE q \in s : TRUE
                 IN  files[q].change_count + sums[s \ {q}]]

Sums(files) == CHOOSE sums : IsSums(sums, files, SUBSET DOMAIN files)

UpTo(n, S) == {s \in SUBSET S : Cardinality(s) <= n}

(* Taking an element out of a finite set leaves a smaller one.               *)
LEMMA OneLess ==
  ASSUME NEW S, IsFiniteSet(S), NEW s \in SUBSET S, NEW q \in s
  PROVE  /\ IsFiniteSet(s) /\ Cardinality(s) \in Nat \ {0}
         /\ s \ {q} \in SUBSET S /\ IsFiniteSet(s \ {q})
         /\ Cardinality(s \ {q}) = Cardinality(s) - 1
<1>1. IsFiniteSet(s)
  BY FS_Subset
<1>2. /\ IsFiniteSet(s \ {q}) /\ Cardinality(s \ {q}) = Cardinality(s) - 1
  BY <1>1, FS_RemoveElement
<1>3. Cardinality(s) \in Nat /\ Cardinality(s \ {q}) \in Nat
  BY <1>1, <1>2, FS_CardinalityType
<1>4. QED
  BY <1>1, <1>2, <1>3

(* The sums over the sets of at most n elements exist, whatever n is.        *)
LEMMA SumsExist ==
  ASSUME NEW files, NEW S, IsFiniteSet(S), NEW n \in Nat
  PROVE  \E sums : IsSums(sums, files, UpTo(n, S))
<1> DEFINE T == {m \in Nat : \E sums : IsSums(sums, files, UpTo(m, S))}
           Step(f, s) == IF s = {} THEN 0
                         ELSE LET q == CHOOSE q \in s : TRUE
                              IN  files[q].change_count + f[s \ {q}]
<1>1. 0 \in T
  <2> DEFINE f == [s \in UpTo(0, S) |-> 0]
  <2>1. ASSUME NEW s \in UpTo(0, S) PROVE s = {}
    <3>1. s \in SUBSET S /\ Cardinality(s) <= 0
      BY DEF UpTo
    <3>2. SUFFICES ASSUME NEW q \in s PROVE FALSE
      OBVIOUS
    <3>3. Cardinality(s) \in Nat \ {0}
      BY <3>1, OneLess
    <3>4. QED
      BY <3>1, <3>3
  <2>2. IsSums(f, files, UpTo(0, S))
    BY <2>1 DEF IsSums
  <2>3. QED
    BY <2>2
<1>2. ASSUME NEW m \in Nat, m \in T
      PROVE  m + 1 \in T
  <2>1. PICK f : IsSums(f, files, UpTo(m, S))
    BY <1>2
  <2> DEFINE g == [s \in UpTo(m + 1, S) |-> IF s \in UpTo(m, S) THEN f[s] ELSE Step(f, s)]
  <2>2. UpTo(m, S) \subseteq UpTo(m + 1, S)
    <3>1. \A s \in SUBSET S : Cardinality(s) \in Nat
      BY FS_Subset, FS_CardinalityType
    <3>2. QED
      BY <3>1 DEF UpTo
  <2>3. \A s \in UpTo(m, S) : g[s] = f[s] /\ f[s] = Step(f, s)
    <3>1. \A s \in UpTo(m, S) : g[s] = f[s]
      BY <2>2
    <3> HIDE DEF g
    <3>2. \A s \in UpTo(m, S) : f[s] = Step(f, s)
      BY <2>1 DEF IsSums
    <3>3. QED
      BY <3>1, <3>2
  <2>4. \A s \in UpTo(m + 1, S) : g[s] = Step(f, s)
    BY <2>3
  <2>5. \A s \in UpTo(m + 1, S) : Step(g, s) = Step(f, s)
    <3> SUFFICES ASSUME NEW s \in UpTo(m + 1, S) PROVE Step(g, s) = Step(f, s)
      OBVIOUS
    <3> HIDE DEF g
    <3>1. CASE s = {}
      BY <3>1
    <3>2. CASE s # {}
      <4> DEFINE q == CHOOSE q \in s : TRUE
      <4>1. q \in s
        BY <3>2
      <4>2. Step(g, s) = files[q].change_count + g[s \ {q}] /\ Step(f, s) = files[q].change_count + f[s \ {q}]
        BY <3>2
      <4> HIDE DEF q
      <4>3. s \in SUBSET S /\ Cardinality(s) <= m + 1
        BY DEF UpTo
      <4>4. /\ s \ {q} \in SUBSET S
            /\ Cardinality(s \ {q}) = Cardinality(s) - 1
            /\ Cardinality(s) \in Nat
        BY <4>1, <4>3, OneLess
      <4>5. s \ {q} \in UpTo(m, S)
        BY <4>3, <4>4 DEF UpTo
      <4>6. g[s \ {q}] = f[s \ {q}]
        BY <2>3, <4>5
      <4>7. QED
        BY <4>2, <4>6
    <3>3. QED
      BY <3>1, <3>2
  <2>6. g = [s \in UpTo(m + 1, S) |-> g[s]]
    OBVIOUS
  <2>7. g = [s \in UpTo(m + 1, S) |-> Step(g, s)]
    <3> HIDE DEF g, Step
    <3>1. QED
      BY <2>4, <2>5, <2>6
  <2>8. IsSums(g, files, UpTo(m + 1, S))
    <3> HIDE DEF g
    <3>1. QED
      BY <2>7 DEF IsSums
  <2>9. QED
    BY <2>8
<1> HIDE DEF T
<1>3. n \in T
  BY <1>1, <1>2, SetInduction, Zenon
<1>4. QED
  BY <1>3 DEF T

(* What the sum over a set is defined by                                     *)
LEMMA SumsDef ==
  ASSUME NEW files, IsFiniteSet(DOMAIN files), NEW s \in SUBSET DOMAIN files
  PROVE  Sums(files)[s] = IF s = {} THEN 0
                          ELSE LET q == CHOOSE q \in s : TRUE
                               IN  files[q].change_count + Sums(files)[s \ {q}]
<1> DEFINE D == DOMAIN files
           n == Cardinality(D)
<1>1. n \in Nat
  BY FS_CardinalityType
<1>2. UpTo(n, D) = SUBSET D
  <2>1. \A t \in SUBSET D : Cardinality(t) <= n
    BY FS_Subset
  <2>2. QED
    BY <2>1 DEF UpTo
<1>3. \E sums : IsSums(sums, files, SUBSET D)
  <2> HIDE DEF n
  <2>1. \E sums : IsSums(sums, files, UpTo(n, D))
    BY <1>1, SumsExist
  <2>2. QED
    BY <1>2, <2>1
<1>4. IsSums(Sums(files), files, SUBSET D)
  BY <1>3 DEF Sums
<1> DEFINE sums == Sums(files)
<1> HIDE DEF sums
<1>5. IsSums(sums, files, SUBSET D)
  BY <1>4 DEF sums
<1>6. QED
  BY <1>5 DEF IsSums, sums

(* In whatever order: any element of the set can be counted last.            *)
LEMMA SumsAnyElement ==
  ASSUME NEW files, IsFiniteSet(DOMAIN files), \A q \in DOMAIN files : files[q].change_count \in Nat,
         NEW s \in SUBSET DOMAIN files
  PROVE  /\ Sums(files)[s] \in Nat
         /\ \A q \in s : Sums(files)[s] = files[q].change_count + Sums(files)[s \ {q}]
<1> DEFINE D == DOMAIN files
           sums == Sums(files)
           P(t) == sums[t] \in Nat /\ \A q \in t : sums[t] = files[q].change_count + sums[t \ {q}]
           T == {n \in Nat : \A t \in UpTo(n, D) : P(t)}
<1>a. sums[{}] = 0
  BY SumsDef
<1>b. ASSUME NEW t \in SUBSET D, t # {}
      PROVE  \E c \in t : sums[t] = files[c].change_count + sums[t \ {c}]
  <2> DEFINE c == CHOOSE c \in t : TRUE
  <2>1. c \in t
    BY <1>b
  <2>2. sums[t] = files[c].change_count + sums[t \ {c}]
    BY <1>b, SumsDef
  <2>3. QED
    BY <2>1, <2>2
<1> HIDE DEF sums
<1>1. 0 \in T
  <2>1. ASSUME NEW t \in UpTo(0, D) PROVE t = {}
    <3>1. t \in SUBSET D /\ Cardinality(t) <= 0
      BY DEF UpTo
    <3>2. SUFFICES ASSUME NEW q \in t PROVE FALSE
      OBVIOUS
    <3>3. Cardinality(t) \in Nat \ {0}
      BY <3>1, OneLess
    <3>4. QED
      BY <3>1, <3>3
  <2>2. P({})
    BY <1>a
  <2>3. QED
    BY <2>1, <2>2
<1>2. ASSUME NEW n \in Nat, n \in T
      PROVE  n + 1 \in T
  <2> SUFFICES ASSUME NEW t \in UpTo(n + 1, D) PROVE P(t)
    <3> HIDE DEF P
    <3>1. n + 1 \in Nat
      OBVIOUS
    <3>2. QED
      BY <3>1
  <2>2. t \in SUBSET D /\ Cardinality(t) <= n + 1
    BY DEF UpTo
  <2>3. CASE t = {}
    BY <1>a, <2>3
  <2>4. CASE t # {}
    <3>1. \A u \in UpTo(n, D) : P(u)
      BY <1>2
    <3>2. ASSUME NEW u \in SUBSET D, Cardinality(u) <= n PROVE P(u)
      BY <3>1, <3>2 DEF UpTo
    <3> HIDE DEF T
    <3>3. PICK c \in t : sums[t] = files[c].change_count + sums[t \ {c}]
      BY <1>b, <2>2, <2>4
    <3>4. \A q \in t : /\ t \ {q} \in SUBSET D /\ Cardinality(t \ {q}) <= n
                         /\ files[q].change_count \in Nat
      <4>1. ASSUME NEW q \in t
            PROVE  /\ t \ {q} \in SUBSET D /\ Cardinality(t \ {q}) = Cardinality(t) - 1
                   /\ Cardinality(t) \in Nat
        BY <2>2, OneLess
      <4>2. QED
        BY <2>2, <4>1
    <3>5. \A q \in t : P(t \ {q})
      BY <3>2, <3>4
    <3>6. sums[t] \in Nat
      <4>1. files[c].change_count \in Nat /\ sums[t \ {c}] \in Nat
        BY <3>4, <3>5
      <4>2. QED
        BY <3>3, <4>1
    <3>7. ASSUME NEW q \in t, q # c
          PROVE  sums[t] = files[q].change_count + sums[t \ {q}]
      <4>1. sums[t \ {c}] = files[q].change_count + sums[(t \ {c}) \ {q}]
        BY <3>5, <3>7
      <4>2. sums[t \ {q}] = files[c].change_count + sums[(t \ {q}) \ {c}]
        BY <3>5, <3>7
      <4>3. (t \ {c}) \ {q} = (t \ {q}) \ {c}
        OBVIOUS
      <4>4. sums[(t \ {q}) \ {c}] \in Nat
        <5>1. t \ {q} \in SUBSET D /\ c \in t \ {q} /\ Cardinality(t \ {q}) <= n
          BY <3>4, <3>7
        <5>2. (t \ {q}) \ {c} \in SUBSET D /\ Cardinality((t \ {q}) \ {c}) <= n
          <6> DEFINE u == t \ {q}
          <6>1. u \in SUBSET D /\ c \in u /\ Cardinality(u) <= n
            BY <5>1
          <6> HIDE DEF u
          <6>2. u \ {c} \in SUBSET D /\ Cardinality(u \ {c}) = Cardinality(u) - 1 /\ Cardinality(u) \in Nat
            BY <6>1, OneLess
          <6>3. u \ {c} \in SUBSET D /\ Cardinality(u \ {c}) <= n
            BY <6>1, <6>2
          <6>4. QED
            BY <6>3 DEF u
        <5>3. QED
          BY <3>2, <5>2
      <4>5. files[q].change_count \in Nat /\ files[c].change_count \in Nat
        BY <3>4
      <4> DEFINE rest == sums[(t \ {q}) \ {c}]
      <4> HIDE DEF rest
      <4>6. /\ sums[t] = files[c].change_count + (files[q].change_count + rest)
            /\ sums[t \ {q}] = files[c].change_count + rest
            /\ rest \in Nat
        BY <3>3, <4>1, <4>2, <4>3, <4>4 DEF rest
      <4>7. QED
        BY <4>5, <4>6
    <3>8. QED
      BY <3>3, <3>6, <3>7
  <2>5. QED
    BY <2>3, <2>4
<1>3. Cardinality(s) \in T
  <2>1. Cardinality(s) \in Nat
    BY FS_Subset, FS_CardinalityType
  <2> HIDE DEF T
  <2>2. QED
    BY <1>1, <1>2, <2>1, SetInduction, Zenon
<1>4. s \in UpTo(Cardinality(s), D)
  <2>1. Cardinality(s) \in Nat
    BY FS_Subset, FS_CardinalityType
  <2>2. QED
    BY <2>1 DEF UpTo
<1>5. P(s)
  BY <1>3, <1>4
<1>6. QED
  BY <1>5 DEF sums

(* The sum over some of the files is the same in two tables that agree on    *)
(* them.                                                                     *)
LEMMA SumsAgree ==
  ASSUME NEW f, NEW g, IsFiniteSet(DOMAIN f), IsFiniteSet(DOMAIN g),
         NEW S \in SUBSET (DOMAIN f \cap DOMAIN g), \A q \in S : f[q].change_count = g[q].change_count
  PROVE  Sums(f)[S] = Sums(g)[S]
<1> DEFINE T == {n \in Nat : \A t \in UpTo(n, S) : Sums(f)[t] = Sums(g)[t]}
<1>a. IsFiniteSet(S) /\ S \in SUBSET DOMAIN f /\ S \in SUBSET DOMAIN g
  BY FS_Subset
<1>b. Sums(f)[{}] = Sums(g)[{}]
  BY SumsDef
<1>c. ASSUME NEW t \in SUBSET S, t # {}, \A c \in t : Sums(f)[t \ {c}] = Sums(g)[t \ {c}]
      PROVE  Sums(f)[t] = Sums(g)[t]
  <2> DEFINE c == CHOOSE c \in t : TRUE
  <2>1. c \in t
    BY <1>c
  <2>2. Sums(f)[t] = f[c].change_count + Sums(f)[t \ {c}]
    BY <1>a, <1>c, SumsDef
  <2>3. Sums(g)[t] = g[c].change_count + Sums(g)[t \ {c}]
    BY <1>a, <1>c, SumsDef
  <2> HIDE DEF c
  <2>4. QED
    BY <1>c, <2>1, <2>2, <2>3
<1>1. 0 \in T
  <2>1. ASSUME NEW t \in UpTo(0, S) PROVE t = {}
    <3>1. t \in SUBSET S /\ Cardinality(t) <= 0
      BY DEF UpTo
    <3>2. SUFFICES ASSUME NEW q \in t PROVE FALSE
      OBVIOUS
    <3>3. Cardinality(t) \in Nat \ {0}
      BY <1>a, <3>1, OneLess
    <3>4. QED
      BY <3>1, <3>3
  <2>2. QED
    BY <1>b, <2>1
<1>2. ASSUME NEW n \in Nat, n \in T
      PROVE  n + 1 \in T
  <2>1. ASSUME NEW t \in UpTo(n + 1, S)
        PROVE  Sums(f)[t] = Sums(g)[t]
    <3>1. t \in SUBSET S /\ Cardinality(t) <= n + 1
      BY DEF UpTo
    <3>2. ASSUME NEW c \in t PROVE Sums(f)[t \ {c}] = Sums(g)[t \ {c}]
      <4>1. /\ t \ {c} \in SUBSET S /\ Cardinality(t \ {c}) = Cardinality(t) - 1
            /\ Cardinality(t) \in Nat
        BY <1>a, <3>1, OneLess
      <4>2. t \ {c} \in UpTo(n, S)
        BY <3>1, <4>1 DEF UpTo
      <4>3. QED
        BY <1>2, <4>2
    <3>3. QED
      BY <1>b, <1>c, <3>1, <3>2
  <2>2. n + 1 \in Nat
    OBVIOUS
  <2>3. QED
    BY <2>1, <2>2
<1>3. Cardinality(S) \in Nat /\ S \in UpTo(Cardinality(S), S)
  <2>1. Cardinality(S) \in Nat
    BY <1>a, FS_CardinalityType
  <2>2. QED
    BY <2>1 DEF UpTo
<1>4. Cardinality(S) \in T
  <2> HIDE DEF T
  <2>1. QED
    BY <1>1, <1>2, <1>3, SetInduction, Zenon
<1>5. QED
  BY <1>3, <1>4

Total(files) == Sums(files)[DOMAIN files]

IsTable(files) ==
  /\ files \in [DOMAIN files -> FileRecord]
  /\ DOMAIN files \subseteq Paths
  /\ IsFiniteSet(DOMAIN files)

(* It is the number of changes that summary() reports.                       *)
LEMMA SummaryTotal ==
  ASSUME NEW p
  PROVE  Summary(p).total_changes = Total(p.files)
BY DEF Summary, Total, Sums, IsSums, MapThenSumSet, MapThenFoldSet

(* It is a number, and 0 for the empty table alone.                          *)
LEMMA TotalType ==
  ASSUME NEW files, IsTable(files)
  PROVE  /\ Total(files) \in Nat
         /\ files = << >> => Total(files) = 0
         /\ Total(files) = 0 => DOMAIN files = {}
<1>1. \A q \in DOMAIN files : files[q].change_count \in Nat \ {0}
  BY DEF IsTable, FileRecord
<1>2. /\ Sums(files)[DOMAIN files] \in Nat
      /\ \A q \in DOMAIN files :
           Sums(files)[DOMAIN files] = files[q].change_count + Sums(files)[DOMAIN files \ {q}]
  BY <1>1, SumsAnyElement DEF IsTable
<1>3. \A q \in DOMAIN files : Sums(files)[DOMAIN files \ {q}] \in Nat
  BY <1>1, SumsAnyElement DEF IsTable
<1>4. files = << >> => Total(files) = 0
  <2>1. Sums(files)[{}] = 0
    BY SumsDef DEF IsTable
  <2>2. QED
    BY <2>1 DEF Total
<1>5. ASSUME Total(files) = 0, NEW q \in DOMAIN files
      PROVE  FALSE
  <2>1. /\ Total(files) = files[q].change_count + Sums(files)[DOMAIN files \ {q}]
        /\ Sums(files)[DOMAIN files \ {q}] \in Nat
    BY <1>2, <1>3 DEF Total
  <2>2. QED
    BY <1>1, <1>5, <2>1
<1>6. QED
  BY <1>2, <1>4, <1>5 DEF Total

(* A change counts once, for its path and for no other.                      *)
LEMMA TotalTouched ==
  ASSUME NEW files, IsTable(files), NEW change \in Change
  PROVE  /\ IsTable(Touched(files, change))
         /\ DOMAIN Touched(files, change) = DOMAIN files \cup {change.path}
         /\ Total(Touched(files, change)) = Total(files) + 1
<1> DEFINE x == change.path
           D == DOMAIN files
           next == Touched(files, change)
<1>1. x \in Paths /\ change.operation \in Operations
  BY DEF Change
<1>2. \A q \in D : files[q] \in FileRecord
  BY DEF IsTable
<1>3. /\ DOMAIN next = D \cup {x}
      /\ \A q \in D \ {x} : next[q] = files[q]
      /\ next[x] = [last_operation |-> change.operation, change_count |-> Entry(files, x) + 1]
  BY DEF Touched
<1>4. Entry(files, x) \in Nat /\ (x \notin D => Entry(files, x) = 0)
  BY <1>2 DEF Entry, FileRecord
<1>5. next[x] \in FileRecord /\ next[x].change_count = Entry(files, x) + 1
  BY <1>1, <1>3, <1>4 DEF FileRecord
<1>6. next = [q \in DOMAIN next |-> next[q]]
  BY DEF Touched
<1>7. IsFiniteSet(D \cup {x})
  BY FS_AddElement DEF IsTable
<1> HIDE DEF next
<1>8. IsTable(next)
  <2>1. \A q \in DOMAIN next : next[q] \in FileRecord
    BY <1>2, <1>3, <1>5
  <2>2. DOMAIN next \subseteq Paths
    BY <1>1, <1>3 DEF IsTable
  <2>3. QED
    BY <1>3, <1>6, <1>7, <2>1, <2>2 DEF IsTable
<1>9. Sums(next)[D \ {x}] = Sums(files)[D \ {x}]
  <2>1. D \ {x} \in SUBSET (DOMAIN next \cap DOMAIN files)
    BY <1>3
  <2>2. \A q \in D \ {x} : next[q].change_count = files[q].change_count
    BY <1>3
  <2>3. IsFiniteSet(DOMAIN next) /\ IsFiniteSet(DOMAIN files)
    BY <1>8 DEF IsTable
  <2>4. QED
    BY <2>1, <2>2, <2>3, SumsAgree
<1>10. Total(next) = Entry(files, x) + 1 + Sums(files)[D \ {x}]
  <2>1. \A q \in DOMAIN next : next[q].change_count \in Nat
    BY <1>8 DEF IsTable, FileRecord
  <2>2. IsFiniteSet(DOMAIN next) /\ x \in DOMAIN next /\ DOMAIN next \ {x} = D \ {x}
    BY <1>3, <1>8 DEF IsTable
  <2>3. Sums(next)[DOMAIN next] = next[x].change_count + Sums(next)[DOMAIN next \ {x}]
    BY <2>1, <2>2, SumsAnyElement
  <2>4. QED
    BY <1>5, <1>9, <2>2, <2>3 DEF Total
<1>11. Total(files) = Entry(files, x) + Sums(files)[D \ {x}] /\ Sums(files)[D \ {x}] \in Nat
  <2>1. \A q \in D : files[q].change_count \in Nat
    BY <1>2 DEF FileRecord
  <2>2. Sums(files)[D \ {x}] \in Nat
    BY <2>1, SumsAnyElement DEF IsTable
  <2>3. CASE x \in D
    <3>1. \A q \in D : Sums(files)[D] = files[q].change_count + Sums(files)[D \ {q}]
      BY <2>1, SumsAnyElement DEF IsTable
    <3>2. Sums(files)[D] = files[x].change_count + Sums(files)[D \ {x}]
      BY <2>3, <3>1
    <3>3. QED
      BY <2>2, <2>3, <3>2 DEF Total, Entry
  <2>4. CASE x \notin D
    <3>1. D \ {x} = D
      BY <2>4
    <3>2. QED
      BY <1>4, <2>2, <2>4, <3>1 DEF Total
  <2>5. QED
    BY <2>3, <2>4
<1>12. Total(next) = Total(files) + 1
  BY <1>4, <1>10, <1>11
<1>13. QED
  BY <1>3, <1>8, <1>12 DEF next

-----------------------------------------------------------------------------
(* What the events of a log should have become, one event at a time. *)

(* A set of numbers up to n has a largest one.                               *)
LEMMA LargestExists ==
  ASSUME NEW n \in Nat, NEW S \in SUBSET (1 .. n), S # {}
  PROVE  \E m \in S : \A j \in S : j <= m
<1> DEFINE P(S_1) == S_1 # {} => \E m \in S_1 : \A j \in S_1 : j <= m
           T == {k \in Nat : \A S_1 \in SUBSET (1 .. k) : P(S_1)}
<1>1. 0 \in T
  <2>1. \A S_1 \in SUBSET (1 .. 0) : S_1 = {}
    OBVIOUS
  <2>2. QED
    BY <2>1
<1>2. ASSUME NEW k \in Nat, k \in T
      PROVE  k + 1 \in T
  <2>1. ASSUME NEW R \in SUBSET (1 .. k + 1)
        PROVE  P(R)
    <3>1. CASE k + 1 \in R
      BY <3>1
    <3>2. CASE k + 1 \notin R
      <4>1. R \in SUBSET (1 .. k)
        BY <3>2
      <4>2. QED
        BY <1>2, <4>1
    <3>3. QED
      BY <3>1, <3>2
  <2> HIDE DEF P
  <2>2. QED
    BY <2>1
<1> HIDE DEF T
<1>3. n \in T
  BY <1>1, <1>2, SetInduction, Zenon
<1>4. QED
  BY <1>3 DEF T

ChangesOf(es, path) == {i \in DOMAIN es : es[i] # OtherEvent /\ es[i].path = path}
Largest(S) == CHOOSE i \in S : \A j \in S : j <= i

(* The table of a log, with its parts by name.                               *)
LEMMA FilesOfDef ==
  ASSUME NEW es
  PROVE  FilesOf(es) = [path \in {q \in Paths : ChangesOf(es, q) # {}} |->
                          [last_operation |-> es[Largest(ChangesOf(es, path))].operation,
                           change_count |-> Cardinality(ChangesOf(es, path))]]
BY DEF FilesOf, ChangesOf, Largest

(* Pushing an event leaves the others where they are and puts it last.       *)
LEMMA PushedLast ==
  ASSUME NEW S, NEW es \in Seq(S), NEW e \in S
  PROVE  /\ Append(es, e) \in Seq(S)
         /\ Len(Append(es, e)) = Len(es) + 1
         /\ Len(es) \in Nat
         /\ DOMAIN es = 1 .. Len(es)
         /\ DOMAIN Append(es, e) = 1 .. Len(es) + 1
         /\ \A i \in 1 .. Len(es) : Append(es, e)[i] = es[i]
         /\ Append(es, e)[Len(es) + 1] = e
  BY AppendProperties, LenProperties

(* The table of no event is empty.                                           *)
LEMMA FilesOfNone == FilesOf(<< >>) = << >>
<1>1. \A q : ChangesOf(<< >>, q) = {}
  BY DEF ChangesOf
<1>2. FilesOf(<< >>) = [path \in {} |-> 0]
  BY <1>1, FilesOfDef
<1>3. [path \in {} |-> 0] = << >>
  OBVIOUS
<1>4. QED
  BY <1>2, <1>3

(* A change adds its file to the table or one to its count, and nothing else *)
(* does.                                                                     *)
LEMMA FilesOfPushed ==
  ASSUME NEW es \in Seq(EventPayload), NEW e \in EventPayload
  PROVE  FilesOf(Append(es, e)) =
           IF e = OtherEvent THEN FilesOf(es) ELSE Touched(FilesOf(es), e)
<1> DEFINE es2 == Append(es, e)
           n == Len(es)
           At(q) == ChangesOf(es, q)
           At2(q) == ChangesOf(es2, q)
<1>1. /\ n \in Nat
      /\ DOMAIN es = 1 .. n /\ DOMAIN es2 = 1 .. n + 1
      /\ \A i \in 1 .. n : es2[i] = es[i]
      /\ es2[n + 1] = e
  BY PushedLast
<1> HIDE DEF es2, n
<1>2. \A q : At(q) \in SUBSET (1 .. n) /\ n + 1 \notin At(q)
  BY <1>1 DEF ChangesOf
<1>3. \A q : At2(q) = IF e # OtherEvent /\ e.path = q THEN At(q) \cup {n + 1} ELSE At(q)
  <2>1. ASSUME NEW q, NEW i
        PROVE  i \in At2(q) <=> i \in At(q) \/ (i = n + 1 /\ e # OtherEvent /\ e.path = q)
    <3>1. CASE i \in 1 .. n
      BY <1>1, <3>1 DEF ChangesOf
    <3>2. CASE i = n + 1
      BY <1>1, <3>2 DEF ChangesOf
    <3>3. CASE i \notin 1 .. n + 1
      BY <1>1, <3>3 DEF ChangesOf
    <3>4. QED
      BY <1>1, <3>1, <3>2, <3>3
  <2> HIDE DEF At, At2
  <2> SUFFICES ASSUME NEW q
               PROVE  At2(q) = IF e # OtherEvent /\ e.path = q THEN At(q) \cup {n + 1} ELSE At(q)
    OBVIOUS
  <2>2. CASE e # OtherEvent /\ e.path = q
    <3>1. At2(q) = At(q) \cup {n + 1}
      BY <2>1, <2>2
    <3>2. QED
      BY <2>2, <3>1
  <2>3. CASE ~(e # OtherEvent /\ e.path = q)
    <3>1. \A i : i \in At2(q) <=> i \in At(q)
      BY <2>1, <2>3
    <3>2. At2(q) = At(q)
      BY <3>1
    <3>3. QED
      BY <2>3, <3>2
  <2>4. QED
    BY <2>2, <2>3
<1>4. ASSUME NEW q, At(q) # {}
      PROVE  Largest(At(q)) \in At(q) /\ es2[Largest(At(q))] = es[Largest(At(q))]
  <2>1. \E m \in At(q) : \A j \in At(q) : j <= m
    BY <1>1, <1>2, <1>4, LargestExists
  <2>2. Largest(At(q)) \in At(q)
    BY <2>1 DEF Largest
  <2> HIDE DEF At
  <2>3. QED
    BY <1>1, <1>2, <2>2
<1>5. ASSUME NEW q, e # OtherEvent, e.path = q
      PROVE  /\ At2(q) # {} /\ Largest(At2(q)) = n + 1
             /\ Cardinality(At2(q)) = Cardinality(At(q)) + 1
  <2>1. At2(q) = At(q) \cup {n + 1}
    BY <1>3, <1>5
  <2>2. IsFiniteSet(1 .. n)
    BY <1>1, FS_Interval
  <2>3. IsFiniteSet(At(q))
    BY <1>2, <2>2, FS_Subset
  <2>4. Cardinality(At(q) \cup {n + 1}) = Cardinality(At(q)) + 1
    BY <1>2, <2>3, FS_AddElement
  <2>5. \A i \in At2(q) : (\A j \in At2(q) : j <= i) <=> i = n + 1
    <3> HIDE DEF At, At2
    <3>1. QED
      BY <1>1, <1>2, <2>1
  <2> HIDE DEF At, At2
  <2>6. n + 1 \in At2(q)
    BY <2>1
  <2>7. Largest(At2(q)) = n + 1
    BY <2>5, <2>6 DEF Largest
  <2>8. QED
    BY <2>1, <2>4, <2>6, <2>7
<1> DEFINE F == FilesOf(es)
           F2 == FilesOf(es2)
<1>6. F = [path \in {q \in Paths : At(q) # {}} |->
             [last_operation |-> es[Largest(At(path))].operation,
              change_count |-> Cardinality(At(path))]]
  BY FilesOfDef
<1>7. F2 = [path \in {q \in Paths : At2(q) # {}} |->
             [last_operation |-> es2[Largest(At2(path))].operation,
              change_count |-> Cardinality(At2(path))]]
  BY FilesOfDef
<1> HIDE DEF At, At2, F, F2
<1>8. \A q \in Paths : (e = OtherEvent \/ q # e.path) =>
        (q \in DOMAIN F2 <=> q \in DOMAIN F) /\ (q \in DOMAIN F => F2[q] = F[q])
  <2>1. SUFFICES ASSUME NEW q \in Paths, e = OtherEvent \/ q # e.path
                 PROVE  (q \in DOMAIN F2 <=> q \in DOMAIN F) /\ (q \in DOMAIN F => F2[q] = F[q])
    OBVIOUS
  <2>2. At2(q) = At(q)
    BY <1>3, <2>1
  <2>3. QED
    BY <1>4, <1>6, <1>7, <2>2
<1>9. DOMAIN F \subseteq Paths /\ DOMAIN F2 \subseteq Paths
  BY <1>6, <1>7
<1>10. F = [q \in DOMAIN F |-> F[q]] /\ F2 = [q \in DOMAIN F2 |-> F2[q]]
  BY <1>6, <1>7
<1>11. CASE e = OtherEvent
  <2>1. DOMAIN F2 = DOMAIN F
    BY <1>8, <1>9, <1>11
  <2>2. \A q \in DOMAIN F : F2[q] = F[q]
    BY <1>8, <1>9, <1>11
  <2>3. F2 = F
    BY <1>10, <2>1, <2>2
  <2>4. QED
    BY <1>11, <2>3 DEF F, F2, es2
<1>12. CASE e # OtherEvent
  <2> DEFINE x == e.path
             G == Touched(F, e)
  <2>1. e \in Change /\ x \in Paths
    BY <1>12 DEF EventPayload, Change
  <2>2. /\ G = [q \in DOMAIN G |-> G[q]]
        /\ DOMAIN G = DOMAIN F \cup {x}
        /\ G[x] = [last_operation |-> e.operation, change_count |-> Entry(F, x) + 1]
        /\ \A q \in DOMAIN F \ {x} : G[q] = F[q]
    BY DEF Touched
  <2> HIDE DEF G
  <2>3. x \in DOMAIN F2
        /\ F2[x] = [last_operation |-> e.operation, change_count |-> Cardinality(At(x)) + 1]
    BY <1>1, <1>5, <1>7, <1>12, <2>1
  <2>4. Entry(F, x) = Cardinality(At(x))
    <3>1. CASE At(x) # {}
      BY <1>6, <2>1, <3>1 DEF Entry
    <3>2. CASE At(x) = {}
      <4>1. x \notin DOMAIN F
        BY <1>6, <3>2
      <4>2. Cardinality(At(x)) = 0
        BY <3>2, FS_EmptySet
      <4>3. QED
        BY <4>1, <4>2 DEF Entry
    <3>3. QED
      BY <3>1, <3>2
  <2>5. DOMAIN F2 = DOMAIN G
    BY <1>8, <1>9, <2>1, <2>2, <2>3
  <2>6. \A q \in DOMAIN G : F2[q] = G[q]
    <3>1. SUFFICES ASSUME NEW q \in DOMAIN G PROVE F2[q] = G[q]
      OBVIOUS
    <3>2. CASE q = x
      BY <2>2, <2>3, <2>4, <3>2
    <3>3. CASE q # x
      <4>1. q \in DOMAIN F /\ q \in Paths
        BY <1>9, <2>2, <3>3
      <4>2. QED
        BY <1>8, <2>2, <3>3, <4>1
    <3>4. QED
      BY <3>2, <3>3
  <2>7. F2 = G
    BY <1>10, <2>2, <2>5, <2>6
  <2>8. QED
    BY <1>12, <2>7 DEF F, F2, G, es2
<1>13. QED
  BY <1>11, <1>12

(* The last changes of no event are none.                                    *)
LEMMA RecentOfNone == IsRecentOf(<< >>, << >>)
<1>1. ChangesIn(<< >>) = {} /\ Len(<< >>) = 0
  BY DEF ChangesIn
<1>2. Cardinality({}) = 0
  BY FS_EmptySet
<1> DEFINE changes == ChangesIn(<< >>)
<1> HIDE DEF changes
<1>3. changes = {} /\ Len(<< >>) = Least(Cardinality(changes), RecentLimit)
  <2>1. changes = {}
    BY <1>1 DEF changes
  <2>2. Cardinality(changes) = 0
    BY <1>2, <2>1
  <2>3. Least(0, RecentLimit) = 0
    BY ProjectionAssumption DEF Least
  <2>4. QED
    BY <1>1, <2>1, <2>2, <2>3
<1>4. QED
  BY <1>3 DEF IsRecentOf, changes

(* What the changes remembered are after one more.                           *)
LEMMA PushedIs ==
  ASSUME NEW recent \in Seq(Change), Len(recent) <= RecentLimit, NEW change \in Change
  PROVE  LET next == Pushed(recent, change)
             n == Len(recent)
         IN  /\ next \in Seq(Change)
             /\ Len(next) = Least(n + 1, RecentLimit)
             /\ n + 1 <= RecentLimit => next = Append(recent, change)
             /\ n + 1 > RecentLimit =>
                  /\ n = RecentLimit
                  /\ \A k \in 1 .. n : next[k] = Append(recent, change)[k + 1]
<1> DEFINE longer == Append(recent, change)
           n == Len(recent)
<1>1. longer \in Seq(Change) /\ Len(longer) = n + 1 /\ n \in Nat
  BY PushedLast
<1>2. RecentLimit \in Nat
  BY ProjectionAssumption
<1> HIDE DEF longer
<1>3. longer # << >>
  BY <1>1
<1>4. /\ Tail(longer) \in Seq(Change) /\ Len(Tail(longer)) = Len(longer) - 1
      /\ \A k \in 1 .. Len(longer) - 1 : Tail(longer)[k] = longer[k + 1]
  BY <1>1, <1>3, HeadTailProperties
<1>5. Pushed(recent, change) = IF n + 1 > RecentLimit THEN Tail(longer) ELSE longer
  BY <1>1 DEF Pushed, longer
<1>6. QED
  BY <1>1, <1>2, <1>4, <1>5 DEF Least, longer

(* An event that is not a change leaves the last changes what they were.     *)
LEMMA RecentOfOther ==
  ASSUME NEW es \in Seq(EventPayload), NEW recent, IsRecentOf(recent, es)
  PROVE  OtherEvent \in EventPayload => IsRecentOf(recent, Append(es, OtherEvent))
<1> SUFFICES ASSUME OtherEvent \in EventPayload
             PROVE  IsRecentOf(recent, Append(es, OtherEvent))
  OBVIOUS
<1> DEFINE es2 == Append(es, OtherEvent)
<1>1. /\ DOMAIN es = 1 .. Len(es) /\ DOMAIN es2 = 1 .. Len(es) + 1 /\ Len(es) \in Nat
      /\ \A i \in 1 .. Len(es) : es2[i] = es[i]
      /\ es2[Len(es) + 1] = OtherEvent
  BY PushedLast
<1> HIDE DEF es2
<1>2. ChangesIn(es2) = ChangesIn(es)
  BY <1>1 DEF ChangesIn
<1>3. \A i \in ChangesIn(es) : es2[i] = es[i]
  BY <1>1 DEF ChangesIn
<1>4. IsRecentOf(recent, es2)
  BY <1>2, <1>3 DEF IsRecentOf
<1>5. QED
  BY <1>4 DEF es2

(* A change becomes the last; the first goes when they are too many.         *)
LEMMA RecentOfPushed ==
  ASSUME NEW es \in Seq(EventPayload), NEW change \in Change, change # OtherEvent,
         NEW recent \in Seq(Change), IsRecentOf(recent, es)
  PROVE  IsRecentOf(Pushed(recent, change), Append(es, change))
<1> DEFINE es2 == Append(es, change)
           m == Len(es)
           n == Len(recent)
           C == ChangesIn(es)
           C2 == ChangesIn(es2)
           longer == Append(recent, change)
           next == Pushed(recent, change)
           Later(i) == {j \in C : j > i}
           Later2(i) == {j \in C2 : j > i}
<1>1. /\ m \in Nat /\ DOMAIN es = 1 .. m /\ DOMAIN es2 = 1 .. m + 1
      /\ \A i \in 1 .. m : es2[i] = es[i]
      /\ es2[m + 1] = change
  BY PushedLast DEF EventPayload
<1>2. /\ n \in Nat /\ longer[n + 1] = change
      /\ \A i \in 1 .. n : longer[i] = recent[i]
  BY PushedLast
<1>3. C \subseteq 1 .. m /\ IsFiniteSet(C) /\ Cardinality(C) \in Nat /\ m + 1 \notin C
  <2>1. C \subseteq 1 .. m
    BY <1>1 DEF ChangesIn
  <2>2. IsFiniteSet(1 .. m)
    BY <1>1, FS_Interval
  <2> HIDE DEF C
  <2>3. IsFiniteSet(C)
    BY <2>1, <2>2, FS_Subset
  <2>4. QED
    BY <1>1, <2>1, <2>3, FS_CardinalityType
<1>4. C2 = C \cup {m + 1}
  BY <1>1 DEF ChangesIn
<1>5. /\ n = Least(Cardinality(C), RecentLimit)
      /\ \A i \in C : Cardinality(Later(i)) < n => recent[n - Cardinality(Later(i))] = es[i]
  BY DEF IsRecentOf
<1>6. RecentLimit \in Nat
  BY ProjectionAssumption
<1>7. n <= RecentLimit
  BY <1>3, <1>5, <1>6 DEF Least
<1>8. /\ Len(next) = Least(n + 1, RecentLimit)
      /\ n + 1 <= RecentLimit => next = longer
      /\ n + 1 > RecentLimit =>
           n = RecentLimit /\ \A k \in 1 .. n : next[k] = longer[k + 1]
  BY <1>7, PushedIs
<1> HIDE DEF es2, m, n, C, C2, longer, next
<1>9. Cardinality(C2) = Cardinality(C) + 1
  BY <1>3, <1>4, FS_AddElement
<1>10. Len(next) = Least(Cardinality(C2), RecentLimit)
  BY <1>2, <1>3, <1>5, <1>6, <1>8, <1>9 DEF Least
<1>11. Cardinality(Later2(m + 1)) = 0
  <2>1. Later2(m + 1) = {}
    <3>1. \A j \in C2 : ~(j > m + 1)
      BY <1>1, <1>3, <1>4
    <3>2. QED
      BY <3>1
  <2>2. QED
    BY <2>1, FS_EmptySet
<1>12. ASSUME NEW i \in C
       PROVE  /\ Cardinality(Later2(i)) = Cardinality(Later(i)) + 1
              /\ Cardinality(Later(i)) \in Nat
  <2>1. Later2(i) = Later(i) \cup {m + 1} /\ m + 1 \notin Later(i)
    BY <1>1, <1>3, <1>4
  <2>2. IsFiniteSet(Later(i))
    <3>1. Later(i) \subseteq C
      OBVIOUS
    <3>2. QED
      BY <1>3, <3>1, FS_Subset
  <2>3. QED
    BY <2>1, <2>2, FS_AddElement, FS_CardinalityType
<1>13. ASSUME NEW i \in C2, Cardinality(Later2(i)) < Len(next)
       PROVE  next[Len(next) - Cardinality(Later2(i))] = es2[i]
  <2>1. CASE i = m + 1
    <3>1. Len(next) \in Nat /\ Len(next) > 0 /\ es2[i] = change
      BY <1>1, <1>2, <1>6, <1>8, <1>11, <1>13, <2>1 DEF Least
    <3>2. next[Len(next)] = longer[n + 1]
      <4>1. CASE n + 1 <= RecentLimit
        BY <1>2, <1>6, <1>8, <4>1 DEF Least
      <4>2. CASE n + 1 > RecentLimit
        BY <1>2, <1>6, <1>8, <3>1, <4>2 DEF Least
      <4>3. QED
        BY <1>2, <1>6, <4>1, <4>2
    <3>3. QED
      BY <1>2, <1>11, <2>1, <3>1, <3>2
  <2>2. CASE i # m + 1
    <3>1. i \in C /\ es2[i] = es[i]
      BY <1>1, <1>3, <1>4, <2>2
    <3> DEFINE k == Cardinality(Later(i))
    <3>2. k \in Nat /\ Cardinality(Later2(i)) = k + 1
      BY <1>12, <3>1
    <3>3. k < n => recent[n - k] = es[i]
      BY <1>5, <3>1
    <3> HIDE DEF k
    <3>4. CASE n + 1 <= RecentLimit
      <4>1. Len(next) = n + 1 /\ k < n /\ next = longer
        BY <1>2, <1>6, <1>8, <1>13, <3>2, <3>4 DEF Least
      <4>2. (n + 1) - (k + 1) = n - k /\ n - k \in 1 .. n
        BY <1>2, <3>2, <4>1
      <4>3. QED
        BY <1>2, <3>1, <3>2, <3>3, <4>1, <4>2
    <3>5. CASE n + 1 > RecentLimit
      <4>1. Len(next) = n /\ k + 1 < n
        BY <1>2, <1>6, <1>8, <1>13, <3>2, <3>5 DEF Least
      <4>2. n - (k + 1) \in 1 .. n /\ n - (k + 1) + 1 = n - k /\ n - k \in 1 .. n
        BY <1>2, <3>2, <4>1
      <4>3. next[n - (k + 1)] = longer[n - k]
        BY <1>8, <3>5, <4>2
      <4>4. QED
        BY <1>2, <3>1, <3>2, <3>3, <4>1, <4>2, <4>3
    <3>6. QED
      BY <1>2, <1>6, <3>4, <3>5
  <2>3. QED
    BY <2>1, <2>2
<1>14. IsRecentOf(next, es2)
  BY <1>10, <1>13 DEF IsRecentOf, C2
<1>15. QED
  BY <1>14 DEF next, es2

-----------------------------------------------------------------------------
(* What the methods of a projection make of it. *)

(* A log up to an event is the log up to the one before, and that event.     *)
LEMMA Prefixes ==
  ASSUME NEW es \in Seq(EventPayload)
  PROVE  /\ Len(es) \in Nat /\ DOMAIN es = 1 .. Len(es)
         /\ SubSeq(es, 1, 0) = << >>
         /\ \A i \in 1 .. Len(es) :
              /\ es[i] \in EventPayload
              /\ SubSeq(es, 1, i - 1) \in Seq(EventPayload)
              /\ SubSeq(es, 1, i) = Append(SubSeq(es, 1, i - 1), es[i])
<1>1. Len(es) \in Nat /\ DOMAIN es = 1 .. Len(es)
  BY LenProperties
<1>2. SubSeq(es, 1, 0) = << >>
  BY SubSeqEmpty
<1>3. ASSUME NEW i \in 1 .. Len(es)
      PROVE  /\ es[i] \in EventPayload
             /\ SubSeq(es, 1, i - 1) \in Seq(EventPayload)
             /\ SubSeq(es, 1, i) = Append(SubSeq(es, 1, i - 1), es[i])
  <2> DEFINE before == SubSeq(es, 1, i - 1)
             upto == SubSeq(es, 1, i)
             pushed == Append(before, es[i])
  <2>1. es[i] \in EventPayload
    BY ElementOfSeq
  <2>2. /\ before \in Seq(EventPayload) /\ Len(before) = i - 1
        /\ \A k \in 1 .. i - 1 : before[k] = es[k]
    BY <1>1, SubSeqProperties
  <2>3. /\ upto \in Seq(EventPayload) /\ Len(upto) = i
        /\ \A k \in 1 .. i : upto[k] = es[k]
    BY <1>1, SubSeqProperties
  <2> HIDE DEF before, upto
  <2>4. /\ pushed \in Seq(EventPayload) /\ Len(pushed) = (i - 1) + 1
        /\ \A k \in 1 .. i - 1 : pushed[k] = before[k]
        /\ pushed[(i - 1) + 1] = es[i]
    BY <2>1, <2>2, PushedLast
  <2> HIDE DEF pushed
  <2>5. Len(pushed) = i /\ pushed[i] = es[i] /\ \A k \in 1 .. i - 1 : pushed[k] = es[k]
    BY <1>1, <2>2, <2>4
  <2>6. \A k \in 1 .. i : upto[k] = pushed[k]
    BY <1>1, <2>3, <2>5
  <2>7. upto = pushed
    BY <2>3, <2>4, <2>5, <2>6, SeqEqual
  <2>8. QED
    BY <2>1, <2>2, <2>7 DEF before, upto, pushed
<1>4. QED
  BY <1>1, <1>2, <1>3

(* The fields of a projection that has processed an event.                   *)
LEMMA ProcessedIs ==
  ASSUME NEW name, NEW p, IsInstance(p), NEW sequence, NEW payload
  PROVE  Processed(name, p, sequence, payload) =
           [status |-> p.status, checkpoint |-> sequence,
            files |-> IF payload = OtherEvent THEN p.files ELSE Touched(p.files, payload),
            recent |-> IF name # "AiContext" \/ payload = OtherEvent THEN p.recent
                       ELSE Pushed(p.recent, payload),
            fed |-> Append(p.fed, payload), handed |-> p.handed]
<1>1. p = [status |-> p.status, checkpoint |-> p.checkpoint, files |-> p.files,
           recent |-> p.recent, fed |-> p.fed, handed |-> p.handed]
  BY DEF IsInstance
<1>2. QED
  BY <1>1 DEF Processed, ProcessedAiContext, ProcessedFileChange

(* The fields of a projection that was cleared.                              *)
LEMMA ClearedIs ==
  ASSUME NEW p
  PROVE  Cleared(p) = [status |-> p.status, checkpoint |-> 0, files |-> << >>, recent |-> << >>,
                       fed |-> << >>, handed |-> "next"]
<1>1. \A a, b, c, d, e, f :
        [[status |-> a, checkpoint |-> b, files |-> c, recent |-> d, fed |-> e, handed |-> f]
          EXCEPT !.status = p.status] =
        [status |-> p.status, checkpoint |-> b, files |-> c, recent |-> d, fed |-> e, handed |-> f]
  OBVIOUS
<1>2. QED
  BY DEF New, Cleared

(* The fields of a projection whose status was set.                          *)
LEMMA SetStatusIs ==
  ASSUME NEW p, IsInstance(p), NEW status
  PROVE  SetStatus(p, status) =
           [status |-> status, checkpoint |-> p.checkpoint, files |-> p.files,
            recent |-> p.recent, fed |-> p.fed, handed |-> p.handed]
BY DEF IsInstance, SetStatus

\* What is so of every projection, whatever it was fed
IsTallied(name, p) == IsInstance(p) /\ Tallied(name, p) /\ MadeOfFed(name, p)

(* A projection with nothing in it is the replay of no event.                *)
LEMMA NothingReplayed ==
  ASSUME NEW name, NEW status \in Statuses, NEW es \in Seq(EventPayload)
  PROVE  LET p == [status |-> status, checkpoint |-> 0, files |-> << >>, recent |-> << >>,
                   fed |-> << >>, handed |-> "next"]
         IN  IsTallied(name, p) /\ Replays(p, es)
<1> DEFINE p == [status |-> status, checkpoint |-> 0, files |-> << >>, recent |-> << >>,
                 fed |-> << >>, handed |-> "next"]
<1>1. /\ DOMAIN << >> = {} /\ << >> \in [{} -> FileRecord]
      /\ << >> \in Seq(Change) /\ << >> \in Seq(EventPayload)
  BY EmptySeq
<1>2. IsInstance(p)
  BY <1>1 DEF IsInstance
<1>3. IsTable(<< >>)
  <2>1. IsFiniteSet({})
    BY FS_EmptySet
  <2>2. QED
    BY <1>1, <2>1 DEF IsTable
<1>4. Summary(p).total_changes = 0
  <2>1. Summary(p).total_changes = Total(p.files)
    BY SummaryTotal
  <2>2. Total(<< >>) = 0
    BY <1>3, TotalType
  <2>3. QED
    BY <2>1, <2>2
<1>5. /\ p.checkpoint = 0 /\ p.files = << >> /\ p.recent = << >> /\ p.fed = << >>
  OBVIOUS
<1> HIDE DEF p
<1>6. Tallied(name, p)
  <2>1. Len(<< >>) = Least(0, RecentLimit)
    BY ProjectionAssumption DEF Least
  <2>2. IsFiniteSet(DOMAIN p.files) /\ DOMAIN p.recent = {}
    BY <1>1, <1>3, <1>5 DEF IsTable
  <2>3. QED
    BY <1>4, <1>5, <2>1, <2>2 DEF Tallied
<1>7. MadeOfFed(name, p)
  <2>1. FilesOf(<< >>) = << >> /\ IsRecentOf(<< >>, << >>)
    BY FilesOfNone, RecentOfNone
  <2>2. QED
    BY <1>5, <2>1 DEF MadeOfFed
<1>8. Replays(p, es)
  <2>1. SubSeq(es, 1, 0) = << >> /\ Len(es) \in Nat
    BY Prefixes
  <2>2. QED
    BY <1>5, <2>1 DEF Replays
<1>9. QED
  BY <1>2, <1>6, <1>7, <1>8 DEF IsTallied, p

(* The status is no part of what a projection made of the events.            *)
LEMMA StatusAlone ==
  ASSUME NEW name, NEW p, IsTallied(name, p), NEW status \in Statuses
  PROVE  LET q == SetStatus(p, status)
         IN  /\ IsTallied(name, q)
             /\ q.status = status
             /\ \A es : Replays(p, es) => Replays(q, es)
<1> DEFINE q == SetStatus(p, status)
<1>1. q = [status |-> status, checkpoint |-> p.checkpoint, files |-> p.files,
           recent |-> p.recent, fed |-> p.fed, handed |-> p.handed]
  BY SetStatusIs DEF IsTallied
<1>2. /\ q.checkpoint = p.checkpoint /\ q.files = p.files /\ q.recent = p.recent
      /\ q.fed = p.fed /\ q.handed = p.handed /\ q.status = status
  BY <1>1
<1>3. Summary(q).total_changes = Summary(p).total_changes
  BY <1>2, SummaryTotal
<1> HIDE DEF q
<1>4. IsInstance(q)
  BY <1>1, <1>2 DEF IsInstance, IsTallied
<1>5. Tallied(name, q)
  BY <1>2, <1>3 DEF Tallied, IsTallied
<1>6. MadeOfFed(name, q)
  BY <1>2 DEF MadeOfFed, IsTallied
<1>7. QED
  BY <1>2, <1>4, <1>5, <1>6 DEF IsTallied, Replays, q

(* An event, any event, is added to what the projection made of the others   *)
(* and keeps the counts in step with the changes remembered.                 *)
LEMMA ProcessedTallied ==
  ASSUME NEW name, NEW p, IsTallied(name, p), NEW sequence \in Nat, NEW payload \in EventPayload
  PROVE  /\ IsTallied(name, Processed(name, p, sequence, payload))
         /\ Processed(name, p, sequence, payload).status = p.status
         /\ Processed(name, p, sequence, payload).checkpoint = sequence
         /\ Processed(name, p, sequence, payload).fed = Append(p.fed, payload)
         /\ Processed(name, p, sequence, payload).handed = p.handed
<1> DEFINE q == Processed(name, p, sequence, payload)
<1>1. /\ q = [status |-> q.status, checkpoint |-> q.checkpoint, files |-> q.files,
              recent |-> q.recent, fed |-> q.fed, handed |-> q.handed]
      /\ q.status = p.status /\ q.checkpoint = sequence
      /\ q.fed = Append(p.fed, payload) /\ q.handed = p.handed
      /\ q.files = IF payload = OtherEvent THEN p.files ELSE Touched(p.files, payload)
      /\ q.recent = IF name # "AiContext" \/ payload = OtherEvent THEN p.recent
                    ELSE Pushed(p.recent, payload)
  <2> DEFINE files == IF payload = OtherEvent THEN p.files ELSE Touched(p.files, payload)
             recent == IF name # "AiContext" \/ payload = OtherEvent THEN p.recent
                       ELSE Pushed(p.recent, payload)
  <2>1. q = [status |-> p.status, checkpoint |-> sequence, files |-> files, recent |-> recent,
             fed |-> Append(p.fed, payload), handed |-> p.handed]
    <3>1. IsInstance(p)
      BY DEF IsTallied
    <3>2. QED
      BY ONLY <3>1, ProcessedIs
  <2> HIDE DEF q, files, recent
  <2>2. /\ q = [status |-> q.status, checkpoint |-> q.checkpoint, files |-> q.files,
                recent |-> q.recent, fed |-> q.fed, handed |-> q.handed]
        /\ q.status = p.status /\ q.checkpoint = sequence /\ q.files = files /\ q.recent = recent
        /\ q.fed = Append(p.fed, payload) /\ q.handed = p.handed
    BY <2>1
  <2>3. QED
    BY <2>2 DEF files, recent
<1> HIDE DEF q
<1>2. /\ p.status \in Statuses /\ p.recent \in Seq(Change) /\ IsTable(p.files)
      /\ p.fed \in Seq(EventPayload) /\ p.handed \in {"next", "any"}
  BY DEF IsTallied, IsInstance, Tallied, IsTable
<1>3. /\ name = "AiContext" =>
           /\ Len(p.recent) = Least(Total(p.files), RecentLimit)
           /\ \A i \in DOMAIN p.recent : p.recent[i].path \in DOMAIN p.files
      /\ name # "AiContext" => p.recent = << >>
  BY SummaryTotal DEF IsTallied, Tallied
<1>4. Summary(q).total_changes = Total(q.files)
  BY SummaryTotal
<1>5. /\ IsTable(q.files) /\ q.recent \in Seq(Change)
      /\ name = "AiContext" =>
           /\ Len(q.recent) = Least(Total(q.files), RecentLimit)
           /\ \A i \in DOMAIN q.recent : q.recent[i].path \in DOMAIN q.files
      /\ name # "AiContext" => q.recent = << >>
  <2>1. CASE payload = OtherEvent
    <3>1. q.files = p.files /\ q.recent = p.recent
      BY <1>1, <2>1
    <3>2. QED
      BY <1>2, <1>3, <3>1
  <2>2. CASE payload # OtherEvent
    <3>1. payload \in Change
      BY <2>2 DEF EventPayload
    <3>2. /\ IsTable(q.files) /\ DOMAIN q.files = DOMAIN p.files \cup {payload.path}
          /\ Total(q.files) = Total(p.files) + 1
      <4>1. q.files = Touched(p.files, payload)
        BY <1>1, <2>2
      <4>2. QED
        BY <1>2, <3>1, <4>1, TotalTouched
    <3>3. CASE name # "AiContext"
      BY <1>1, <1>2, <1>3, <3>2, <3>3
    <3>4. CASE name = "AiContext"
      <4>1. q.recent = Pushed(p.recent, payload)
        BY <1>1, <2>2, <3>4
      <4>2. Total(p.files) \in Nat /\ RecentLimit \in Nat
        BY <1>2, TotalType, ProjectionAssumption
      <4> DEFINE n == Len(p.recent)
                 longer == Append(p.recent, payload)
      <4>3. n = Least(Total(p.files), RecentLimit)
        BY <1>3, <3>4
      <4>4. n <= RecentLimit /\ n \in Nat
        BY <4>2, <4>3 DEF Least
      <4>5. /\ q.recent \in Seq(Change)
            /\ Len(q.recent) = Least(n + 1, RecentLimit)
            /\ n + 1 <= RecentLimit => q.recent = longer
            /\ n + 1 > RecentLimit =>
                 /\ n = RecentLimit
                 /\ \A k \in 1 .. n : q.recent[k] = longer[k + 1]
        <5>1. p.recent \in Seq(Change) /\ Len(p.recent) <= RecentLimit
          BY <1>2, <4>4
        <5>2. /\ Pushed(p.recent, payload) \in Seq(Change)
              /\ Len(Pushed(p.recent, payload)) = Least(n + 1, RecentLimit)
              /\ n + 1 <= RecentLimit => Pushed(p.recent, payload) = longer
              /\ n + 1 > RecentLimit =>
                   /\ n = RecentLimit
                   /\ \A k \in 1 .. n : Pushed(p.recent, payload)[k] = longer[k + 1]
          BY <3>1, <5>1, PushedIs, Zenon
        <5>3. QED
          BY <4>1, <5>2, Zenon
      <4>6. Len(q.recent) = Least(Total(q.files), RecentLimit)
        BY <3>2, <4>2, <4>3, <4>5 DEF Least
      <4>7. /\ DOMAIN p.recent = 1 .. n
            /\ \A i \in 1 .. n : longer[i] = p.recent[i]
            /\ longer[n + 1] = payload
        BY <1>2, <3>1, PushedLast
      <4>8. \A i \in 1 .. n + 1 : longer[i].path \in DOMAIN q.files
        <5>1. \A i \in 1 .. n : longer[i].path \in DOMAIN q.files
          BY <1>3, <3>2, <3>4, <4>7
        <5>2. longer[n + 1].path \in DOMAIN q.files
          BY <3>2, <4>7
        <5> HIDE DEF n, longer
        <5>3. QED
          BY <4>4, <5>1, <5>2
      <4>9. DOMAIN q.recent = 1 .. Len(q.recent)
        BY <4>5, LenProperties
      <4> HIDE DEF n, longer
      <4>10. \A i \in DOMAIN q.recent : q.recent[i].path \in DOMAIN q.files
        <5>1. CASE n + 1 <= RecentLimit
          <6>1. DOMAIN q.recent = 1 .. n + 1
            BY <4>2, <4>4, <4>5, <4>9, <5>1 DEF Least
          <6>2. QED
            BY <4>5, <4>8, <5>1, <6>1
        <5>2. CASE n + 1 > RecentLimit
          <6>1. DOMAIN q.recent = 1 .. n
            BY <4>2, <4>4, <4>5, <4>9, <5>2 DEF Least
          <6>2. \A i \in 1 .. n : q.recent[i] = longer[i + 1] /\ i + 1 \in 1 .. n + 1
            BY <4>4, <4>5, <5>2
          <6>3. QED
            BY <4>8, <6>1, <6>2
        <5>3. QED
          BY <4>2, <4>4, <5>1, <5>2
      <4>11. QED
        BY <3>2, <3>4, <4>5, <4>6, <4>10
    <3>5. QED
      BY <3>3, <3>4
  <2>3. QED
    BY <2>1, <2>2
<1>6. IsInstance(q)
  <2>1. q.fed \in Seq(EventPayload) /\ q.handed \in {"next", "any"}
    BY <1>1, <1>2, PushedLast
  <2>2. QED
    BY <1>1, <1>2, <1>5, <2>1 DEF IsInstance, IsTable
<1>7. Tallied(name, q)
  BY <1>4, <1>5 DEF Tallied, IsTable
<1>8. MadeOfFed(name, q)
  <2>1. /\ p.files = FilesOf(p.fed)
        /\ name = "AiContext" => IsRecentOf(p.recent, p.fed)
    BY DEF IsTallied, MadeOfFed
  <2>2. q.files = FilesOf(q.fed)
    BY <1>1, <1>2, <2>1, FilesOfPushed
  <2>3. ASSUME name = "AiContext" PROVE IsRecentOf(q.recent, q.fed)
    <3>1. CASE payload = OtherEvent
      BY <1>1, <1>2, <2>1, <2>3, <3>1, RecentOfOther
    <3>2. CASE payload # OtherEvent
      <4>1. payload \in Change /\ q.recent = Pushed(p.recent, payload)
        BY <1>1, <2>3, <3>2 DEF EventPayload
      <4>2. QED
        BY <1>1, <1>2, <2>1, <2>3, <3>2, <4>1, RecentOfPushed
    <3>3. QED
      BY <3>1, <3>2
  <2>4. QED
    BY <1>5, <2>2, <2>3 DEF MadeOfFed
<1>9. QED
  BY <1>1, <1>6, <1>7, <1>8 DEF IsTallied, q

(* The event after the checkpoint makes one event more of the replay.        *)
LEMMA ProcessedReplay ==
  ASSUME NEW name, NEW es \in Seq(EventPayload), NEW p, IsTallied(name, p),
         Replays(p, es), NEW next \in 1 .. Len(es), next = p.checkpoint + 1
  PROVE  Replays(Processed(name, p, next, es[next]), es)
<1> DEFINE e == es[next]
           q == Processed(name, p, next, e)
<1>1. Len(es) \in Nat /\ e \in EventPayload /\ next \in Nat
  BY Prefixes
<1>2. next - 1 = p.checkpoint
  <2>1. p.checkpoint \in Nat
    BY DEF IsTallied, IsInstance
  <2>2. QED
    BY <2>1
<1>3. SubSeq(es, 1, next) = Append(SubSeq(es, 1, p.checkpoint), e)
  BY <1>2, Prefixes
<1>4. p.fed = SubSeq(es, 1, p.checkpoint)
  BY DEF Replays
<1>5. q.checkpoint = next /\ q.fed = Append(p.fed, e)
  <2> HIDE DEF e
  <2>1. \A k \in Nat : LET r == Processed(name, p, k, e)
                       IN  r.checkpoint = k /\ r.fed = Append(p.fed, e)
    <3>1. SUFFICES ASSUME NEW k \in Nat
                   PROVE  LET r == Processed(name, p, k, e)
                          IN  r.checkpoint = k /\ r.fed = Append(p.fed, e)
      OBVIOUS
    <3>2. IsTallied(name, p) /\ e \in EventPayload /\ k \in Nat
      BY <1>1
    <3>3. QED
      BY ONLY <3>2, ProcessedTallied
  <2>2. QED
    BY <1>1, <2>1, Zenon
<1> HIDE DEF q, e
<1>6. Replays(q, es)
  <2>1. q.checkpoint <= Len(es)
    BY <1>1, <1>5
  <2>2. q.fed = SubSeq(es, 1, q.checkpoint)
    BY <1>3, <1>4, <1>5, Zenon
  <2>3. QED
    BY <2>1, <2>2 DEF Replays
<1>7. QED
  BY <1>6 DEF q, e

(* What a replay makes of a projection is the replay of the whole log,       *)
(* whatever the projection held.                                             *)
LEMMA ReplayedSound ==
  ASSUME NEW name, NEW es \in Seq(EventPayload), NEW p, IsInstance(p)
  PROVE  LET q == Replayed(name, p, es)
         IN  /\ IsTallied(name, q) /\ Replays(q, es)
             /\ q.status = p.status /\ q.checkpoint = Len(es)
<1> DEFINE after == AfterEach(name, Cleared(p), es)
           P(i) == /\ IsTallied(name, after[i]) /\ Replays(after[i], es)
                   /\ after[i].status = p.status /\ after[i].checkpoint = i
           T == {i \in Nat : i <= Len(es) => P(i)}
<1>1. /\ Len(es) \in Nat
      /\ \A i \in 1 .. Len(es) : es[i] \in EventPayload
  BY Prefixes
<1>2. /\ after[0] = Cleared(p)
      /\ \A i \in 1 .. Len(es) : after[i] = Processed(name, after[i - 1], i, es[i])
  BY <1>1, AfterEachDef
<1>3. Cleared(p) = [status |-> p.status, checkpoint |-> 0, files |-> << >>, recent |-> << >>,
                    fed |-> << >>, handed |-> "next"]
  BY ClearedIs
<1>4. p.status \in Statuses
  BY DEF IsInstance
<1> HIDE DEF after
<1>5. P(0)
  <2>1. IsTallied(name, after[0]) /\ Replays(after[0], es)
    BY <1>2, <1>3, <1>4, NothingReplayed
  <2>2. after[0].status = p.status /\ after[0].checkpoint = 0
    BY <1>2, <1>3
  <2>3. QED
    BY <2>1, <2>2
<1>6. ASSUME NEW i \in Nat, i + 1 <= Len(es), P(i)
      PROVE  P(i + 1)
  <2> DEFINE next == i + 1
  <2>1. next \in 1 .. Len(es) /\ next - 1 = i /\ next \in Nat
    BY <1>1, <1>6
  <2>2. after[next] = Processed(name, after[i], next, es[next])
    <3>1. after[next] = Processed(name, after[next - 1], next, es[next])
      BY <1>2, <2>1
    <3>2. QED
      BY <2>1, <3>1
  <2>3. /\ IsTallied(name, after[i]) /\ Replays(after[i], es)
        /\ after[i].status = p.status /\ next = after[i].checkpoint + 1
    BY <1>6
  <2> HIDE DEF next
  <2>4. Replays(after[next], es)
    BY <2>1, <2>2, <2>3, ProcessedReplay
  <2>5. /\ IsTallied(name, after[next])
        /\ after[next].status = p.status /\ after[next].checkpoint = next
    <3> DEFINE e == es[next]
    <3>1. e \in EventPayload
      BY <1>1, <2>1
    <3>2. after[next] = Processed(name, after[i], next, e)
      BY <2>2
    <3> HIDE DEF e
    <3>3. next \in Nat /\ IsTallied(name, after[i])
      BY <2>1, <2>3
    <3>4. /\ IsTallied(name, Processed(name, after[i], next, e))
          /\ Processed(name, after[i], next, e).status = after[i].status
          /\ Processed(name, after[i], next, e).checkpoint = next
      BY <3>1, <3>3, ProcessedTallied
    <3>5. QED
      BY <2>3, <3>2, <3>4
  <2>6. P(next)
    BY <2>4, <2>5
  <2>7. QED
    BY <2>6 DEF next
<1> HIDE DEF P
<1>7. 0 \in T
  BY <1>5
<1>8. ASSUME NEW i \in Nat, i \in T
      PROVE  i + 1 \in T
  BY <1>1, <1>6, <1>8
<1> HIDE DEF T
<1>9. Len(es) \in T
  BY <1>1, <1>7, <1>8, SetInduction, Zenon
<1>10. P(Len(es))
  BY <1>9, <1>1 DEF T
<1>11. QED
  BY <1>10 DEF P, Replayed, after

(* Whatever way a projection is rebuilt, or fails to be, what it holds is the *)
(* replay of the log up to its checkpoint.                                   *)
LEMMA RebuiltSound ==
  ASSUME NEW name, NEW es \in Seq(EventPayload), NEW p, IsInstance(p)
  PROVE  IsTallied(name, Rebuilt(name, p, es)) /\ Replays(Rebuilt(name, p, es), es)
<1> DEFINE q == Replayed(name, p, es)
<1>1. IsTallied(name, q) /\ Replays(q, es)
  BY ReplayedSound
<1> HIDE DEF q
<1>2. "Initialized" \in Statuses
  BY DEF Statuses
<1>3. IsTallied(name, SetStatus(q, "Initialized")) /\ Replays(SetStatus(q, "Initialized"), es)
  BY <1>1, <1>2, StatusAlone
<1>4. QED
  BY <1>1, <1>3 DEF Rebuilt, q

(* The same of initialize, which leaves it Initialized.                      *)
LEMMA InitializedSound ==
  ASSUME NEW name, NEW es \in Seq(EventPayload), NEW p, IsInstance(p)
  PROVE  /\ IsTallied(name, Initialized(name, p, es)) /\ Replays(Initialized(name, p, es), es)
         /\ Initialized(name, p, es).status = "Initialized"
<1> DEFINE q == Rebuilt(name, p, es)
<1>1. IsTallied(name, q) /\ Replays(q, es)
  BY RebuiltSound
<1> HIDE DEF q
<1>2. "Initialized" \in Statuses
  BY DEF Statuses
<1>3. /\ IsTallied(name, SetStatus(q, "Initialized")) /\ Replays(SetStatus(q, "Initialized"), es)
      /\ SetStatus(q, "Initialized").status = "Initialized"
  BY <1>1, <1>2, StatusAlone
<1>4. QED
  BY <1>3 DEF Initialized, q

(* The same of a rebuild that failed, which leaves it empty.                 *)
LEMMA RebuildFailedSound ==
  ASSUME NEW name, NEW es \in Seq(EventPayload), NEW p, IsInstance(p)
  PROVE  IsTallied(name, RebuildFailed(name, p)) /\ Replays(RebuildFailed(name, p), es)
<1> DEFINE q == Cleared(p)
<1>1. q = [status |-> p.status, checkpoint |-> 0, files |-> << >>, recent |-> << >>,
           fed |-> << >>, handed |-> "next"]
  BY ClearedIs
<1>2. p.status \in Statuses /\ RebuildStatus(name, p) \in Statuses
  BY DEF IsInstance, RebuildStatus, Statuses
<1> HIDE DEF q
<1>3. IsTallied(name, q) /\ Replays(q, es)
  BY <1>1, <1>2, NothingReplayed
<1>4. IsTallied(name, SetStatus(q, RebuildStatus(name, p)))
      /\ Replays(SetStatus(q, RebuildStatus(name, p)), es)
  BY <1>2, <1>3, StatusAlone
<1>5. QED
  BY <1>4 DEF RebuildFailed, q

(* The same of a projection just made.                                       *)
LEMMA NewSound ==
  ASSUME NEW name, NEW es \in Seq(EventPayload)
  PROVE  IsTallied(name, New) /\ Replays(New, es)
BY NothingReplayed DEF New, Statuses

(* An event appended changes nothing of what was replayed.                   *)
LEMMA ReplayOfLonger ==
  ASSUME NEW p, IsInstance(p), NEW es \in Seq(EventPayload), NEW e \in EventPayload,
         Replays(p, es)
  PROVE  Replays(p, Append(es, e))
<1> DEFINE n == p.checkpoint
           es2 == Append(es, e)
<1>1. n \in Nat /\ n <= Len(es) /\ p.fed = SubSeq(es, 1, n)
  BY DEF IsInstance, Replays
<1>2. /\ Len(es) \in Nat /\ es2 \in Seq(EventPayload) /\ Len(es2) = Len(es) + 1
      /\ \A i \in 1 .. Len(es) : es2[i] = es[i]
  BY PushedLast
<1> HIDE DEF es2
<1>3. SubSeq(es2, 1, n) = SubSeq(es, 1, n)
  <2>1. /\ SubSeq(es, 1, n) \in Seq(EventPayload) /\ Len(SubSeq(es, 1, n)) = n
        /\ \A k \in 1 .. n : SubSeq(es, 1, n)[k] = es[k]
    BY <1>1, <1>2, SubSeqProperties
  <2>2. /\ SubSeq(es2, 1, n) \in Seq(EventPayload) /\ Len(SubSeq(es2, 1, n)) = n
        /\ \A k \in 1 .. n : SubSeq(es2, 1, n)[k] = es2[k]
    BY <1>1, <1>2, SubSeqProperties
  <2> DEFINE a == SubSeq(es, 1, n)
             b == SubSeq(es2, 1, n)
  <2>3. a \in Seq(EventPayload) /\ b \in Seq(EventPayload) /\ Len(a) = n /\ Len(b) = n
        /\ \A k \in 1 .. n : a[k] = b[k]
    BY <1>1, <1>2, <2>1, <2>2
  <2> HIDE DEF a, b
  <2>4. a = b
    BY <2>3, SeqEqual
  <2>5. QED
    BY <2>4 DEF a, b
<1>4. Replays(p, es2)
  BY <1>1, <1>2, <1>3 DEF Replays
<1>5. QED
  BY <1>4 DEF es2

-----------------------------------------------------------------------------
(* The engine *)

\* What is said of one projection, and of every one
Fine(name, p, es) ==
  IsTallied(name, p) /\ (NotStarted(p) /\ p.handed = "next" => Replays(p, es))

AllFine ==
  /\ \A name \in Registered : Fine(name, projections[name], log)
  /\ \A name \in DOMAIN held : Fine(name, held[name], log)

\* TypeOK but for the projections
ThreadTypes ==
  /\ log \in Seq(EventPayload)
  /\ Registered \subseteq Names
  /\ DOMAIN held \subseteq Names
  /\ engine_lock \in Clients \cup {NoOne}
  /\ pc \in [Clients -> {"idle", "dispatch", "rebuild"}]
  /\ event \in [Clients -> 0 .. Len(log)]
  /\ todo \in [Clients -> SUBSET Names]
  /\ failures \in 0 .. ReplayFailures
  /\ \A c \in Clients :
       /\ engine_lock = c <=> pc[c] = "rebuild"
       /\ todo[c] \subseteq Registered

(* The strengthened invariant, one projection at a time.                     *)
LEMMA Parts == IInv <=> ThreadTypes /\ ThreadsInv /\ AllFine
<1>1. ASSUME IInv PROVE ThreadTypes /\ ThreadsInv /\ AllFine
  <2>1. ThreadTypes /\ ThreadsInv
    BY <1>1 DEF IInv, TypeOK, ThreadTypes
  <2>2. ASSUME NEW name \in Registered PROVE Fine(name, projections[name], log)
    BY <1>1 DEF IInv, TypeOK, TalliedInv, RebuiltIsReplay, Accounted, Fine, IsTallied
  <2>3. ASSUME NEW name \in DOMAIN held PROVE Fine(name, held[name], log)
    BY <1>1 DEF IInv, TypeOK, TalliedInv, RebuiltIsReplay, Accounted, Fine, IsTallied
  <2>4. QED
    BY <2>1, <2>2, <2>3 DEF AllFine
<1>2. ASSUME ThreadTypes, ThreadsInv, AllFine PROVE IInv
  <2>1. TypeOK
    BY <1>2 DEF TypeOK, ThreadTypes, AllFine, Fine, IsTallied
  <2>2. TalliedInv /\ RebuiltIsReplay
    BY <1>2 DEF TalliedInv, RebuiltIsReplay, Accounted, AllFine, Fine, IsTallied
  <2>3. QED
    BY <1>2, <2>1, <2>2 DEF IInv
<1>3. QED
  BY <1>1, <1>2

(* It holds of an engine without projections beside an empty store.          *)
LEMMA InitIInv == Init => IInv
<1> SUFFICES ASSUME Init PROVE ThreadTypes /\ ThreadsInv /\ AllFine
  BY Parts
<1>1. DOMAIN << >> = {} /\ << >> \in Seq(EventPayload) /\ Len(<< >>) = 0
  BY EmptySeq
<1>2. log \in Seq(EventPayload) /\ Len(log) = 0 /\ Registered = {} /\ DOMAIN held = {}
  BY <1>1 DEF Init, Registered
<1>3. ThreadTypes
  BY <1>2, EngineAssumption DEF Init, ThreadTypes
<1>4. ThreadsInv
  BY <1>2 DEF Init, ThreadsInv
<1>5. AllFine
  BY <1>2 DEF AllFine
<1>6. QED
  BY <1>3, <1>4, <1>5

(* A projection that was started, or failed, is no longer held to a replay.  *)
LEMMA Started ==
  ASSUME NEW name, NEW p, IsTallied(name, p), NEW es, NEW status \in {"Processing", "Failed"}
  PROVE  Fine(name, SetStatus(p, status), es)
<1>1. status \in Statuses
  BY DEF Statuses
<1>2. /\ IsTallied(name, SetStatus(p, status))
      /\ SetStatus(p, status).status = status
  BY <1>1, StatusAlone
<1>3. QED
  BY <1>2 DEF Fine, NotStarted

(* An event out of turn is no matter to what was made of the events, only to *)
(* whether they were the log's in order.                                     *)
LEMMA Strayed ==
  ASSUME NEW name, NEW q, IsTallied(name, q), NEW es,
         NEW handed \in {q.handed, "any"},
         NotStarted(q) /\ handed = "next" => Replays(q, es)
  PROVE  Fine(name, [q EXCEPT !.handed = handed], es)
<1> DEFINE q2 == [q EXCEPT !.handed = handed]
<1>1. /\ q = [status |-> q.status, checkpoint |-> q.checkpoint, files |-> q.files,
              recent |-> q.recent, fed |-> q.fed, handed |-> q.handed]
      /\ q.handed \in {"next", "any"}
  BY DEF IsTallied, IsInstance
<1>2. handed \in {"next", "any"}
  BY <1>1
<1>3. /\ q2 = [status |-> q2.status, checkpoint |-> q2.checkpoint, files |-> q2.files,
               recent |-> q2.recent, fed |-> q2.fed, handed |-> q2.handed]
      /\ q2.status = q.status /\ q2.checkpoint = q.checkpoint /\ q2.files = q.files
      /\ q2.recent = q.recent /\ q2.fed = q.fed /\ q2.handed = handed
  BY <1>1
<1> HIDE DEF q2
<1>4. Summary(q2).total_changes = Summary(q).total_changes
  BY <1>3, SummaryTotal
<1>5. IsInstance(q2)
  BY <1>2, <1>3 DEF IsTallied, IsInstance
<1>6. Tallied(name, q2) /\ MadeOfFed(name, q2)
  BY <1>3, <1>4 DEF IsTallied, Tallied, MadeOfFed
<1>7. NotStarted(q2) /\ q2.handed = "next" => Replays(q2, es)
  BY <1>3 DEF NotStarted, Replays
<1>8. QED
  BY <1>5, <1>6, <1>7 DEF Fine, IsTallied, q2

(* A rebuilt projection is fine whatever it was before.                      *)
LEMMA Rebuilds ==
  ASSUME NEW name, NEW p, IsTallied(name, p), NEW es \in Seq(EventPayload)
  PROVE  /\ Fine(name, Rebuilt(name, p, es), es)
         /\ Fine(name, Initialized(name, p, es), es)
         /\ Fine(name, RebuildFailed(name, p), es)
         /\ Initialized(name, p, es).status = "Initialized"
<1>1. IsInstance(p)
  BY DEF IsTallied
<1>2. QED
  BY <1>1, RebuiltSound, InitializedSound, RebuildFailedSound DEF Fine

(* One projection takes another's place, or is the one held.                 *)
LEMMA OneHeld ==
  ASSUME NEW name, NEW p, NEW es, Fine(name, p, es)
  PROVE  LET h == Hold(name, p)
         IN  DOMAIN h = {name} /\ \A m \in DOMAIN h : Fine(m, h[m], es)
<1> HIDE DEF Fine
<1>1. QED
  BY DEF Hold

(* Whoever holds a projection leaves it fine, whichever method is called.    *)
LEMMA HeldStep ==
  ASSUME AllFine, ThreadTypes, HeldCall
  PROVE  /\ AllFine'
         /\ UNCHANGED <<log, projections, engine_lock, threads>>
         /\ DOMAIN held' \subseteq Names /\ failures' \in 0 .. ReplayFailures
<1>1. UNCHANGED <<log, projections, engine_lock, threads>>
  BY DEF HeldCall
<1>2. PICK name \in DOMAIN held :
        \/ HeldProcessEvent(name) \/ HeldRebuild(name) \/ HeldRebuildFails(name)
        \/ HeldStartProcessing(name) \/ HeldMarkFailed(name)
  BY DEF HeldCall
<1> DEFINE p == held[name]
<1>3. /\ IsTallied(name, p) /\ (NotStarted(p) /\ p.handed = "next" => Replays(p, log))
      /\ log \in Seq(EventPayload) /\ name \in Names
      /\ failures \in Nat /\ failures \in 0 .. ReplayFailures /\ ReplayFailures \in Nat
  BY EngineAssumption DEF AllFine, Fine, ThreadTypes
<1>4. \E q : held' = Hold(name, q) /\ Fine(name, q, log) /\ failures' \in 0 .. ReplayFailures
  <2>1. CASE HeldProcessEvent(name)
    <3>1. PICK next \in DOMAIN log :
            held' = Hold(name, [Processed(name, p, next, log[next]) EXCEPT
                                  !.handed = IF next = p.checkpoint + 1 THEN @ ELSE "any"])
      BY <2>1 DEF HeldProcessEvent
    <3> DEFINE e == log[next]
               q == Processed(name, p, next, e)
               handed == IF next = p.checkpoint + 1 THEN q.handed ELSE "any"
               q2 == [q EXCEPT !.handed = handed]
    <3>2. next \in 1 .. Len(log) /\ e \in EventPayload /\ next \in Nat
      BY <1>3, Prefixes
    <3>3. held' = Hold(name, q2) /\ failures' = failures
      BY <2>1, <3>1 DEF HeldProcessEvent
    <3> HIDE DEF p
    <3>4. NotStarted(p) /\ p.handed = "next" /\ next = p.checkpoint + 1 => Replays(q, log)
      BY <1>3, <3>2, ProcessedReplay
    <3> HIDE DEF e
    <3>5. IsTallied(name, q) /\ q.status = p.status /\ q.handed = p.handed
      <4>1. \A k \in Nat : LET r == Processed(name, p, k, e)
                           IN  IsTallied(name, r) /\ r.status = p.status /\ r.handed = p.handed
        <5>1. SUFFICES ASSUME NEW k \in Nat
                       PROVE  LET r == Processed(name, p, k, e)
                              IN  IsTallied(name, r) /\ r.status = p.status
                                  /\ r.handed = p.handed
          OBVIOUS
        <5>2. IsTallied(name, p) /\ e \in EventPayload /\ k \in Nat
          BY <1>3, <3>2
        <5>3. QED
          BY ONLY <5>2, ProcessedTallied
      <4>2. QED
        BY <3>2, <4>1, Zenon
    <3>6. /\ handed \in {q.handed, "any"}
          /\ handed = "next" => q.handed = "next" /\ next = p.checkpoint + 1
      OBVIOUS
    <3> HIDE DEF q, handed
    <3>7. NotStarted(q) /\ handed = "next" => Replays(q, log)
      BY <3>4, <3>5, <3>6 DEF NotStarted
    <3>8. Fine(name, q2, log)
      BY <3>5, <3>6, <3>7, Strayed
    <3>9. QED
      BY <1>3, <3>3, <3>8
  <2>2. CASE HeldRebuild(name)
    <3>1. /\ failures' = failures
          /\ \/ held' = Hold(name, Rebuilt(name, p, log))
             \/ held' = Hold(name, Initialized(name, p, log))
      BY <2>2 DEF HeldRebuild
    <3> HIDE DEF p
    <3>2. Fine(name, Rebuilt(name, p, log), log) /\ Fine(name, Initialized(name, p, log), log)
      BY <1>3, Rebuilds
    <3>3. QED
      BY <1>3, <3>1, <3>2
  <2>3. CASE HeldRebuildFails(name)
    <3>1. /\ failures > 0 /\ failures' = failures - 1
          /\ held' = Hold(name, RebuildFailed(name, p))
      BY <2>3 DEF HeldRebuildFails
    <3> HIDE DEF p
    <3>2. Fine(name, RebuildFailed(name, p), log)
      BY <1>3, Rebuilds
    <3>3. failures' \in 0 .. ReplayFailures
      BY <1>3, <3>1
    <3>4. QED
      BY <3>1, <3>2, <3>3
  <2>4. CASE HeldStartProcessing(name)
    <3>1. held' = Hold(name, SetStatus(p, "Processing")) /\ failures' = failures
      BY <2>4 DEF HeldStartProcessing
    <3> HIDE DEF p
    <3>2. Fine(name, SetStatus(p, "Processing"), log)
      BY <1>3, Started
    <3>3. QED
      BY <1>3, <3>1, <3>2
  <2>5. CASE HeldMarkFailed(name)
    <3>1. held' = Hold(name, SetStatus(p, "Failed")) /\ failures' = failures
      BY <2>5 DEF HeldMarkFailed
    <3> HIDE DEF p
    <3>2. Fine(name, SetStatus(p, "Failed"), log)
      BY <1>3, Started
    <3>3. QED
      BY <1>3, <3>1, <3>2
  <2>6. QED
    BY <1>2, <2>1, <2>2, <2>3, <2>4, <2>5
<1>5. PICK q : held' = Hold(name, q) /\ Fine(name, q, log) /\ failures' \in 0 .. ReplayFailures
  BY <1>4
<1>6. DOMAIN held' = {name} /\ \A m \in DOMAIN held' : Fine(m, held'[m], log)
  BY <1>5, OneHeld
<1>7. log' = log /\ projections' = projections
  BY <1>1
<1>8. \A m \in DOMAIN projections' : Fine(m, projections'[m], log')
  BY <1>7 DEF AllFine, Registered
<1>9. \A m \in DOMAIN held' : Fine(m, held'[m], log')
  BY <1>6, <1>7
<1>10. AllFine'
  BY <1>8, <1>9 DEF AllFine, Registered, Fine
<1>11. QED
  BY <1>1, <1>3, <1>5, <1>6, <1>10

\* An action that leaves the threads alone, with every projection it leaves
\* behind fine, and with the projections where they were while one of the
\* threads is in rebuild_all
LEMMA ThreadsAlone ==
  ASSUME ThreadTypes, ThreadsInv, UNCHANGED <<log, engine_lock, threads>>,
         \/ projections' = projections
         \/ engine_lock = NoOne /\ DOMAIN projections' \subseteq Names,
         DOMAIN held' \subseteq Names,
         failures' \in 0 .. ReplayFailures,
         \A m \in DOMAIN projections' : Fine(m, projections'[m], log),
         \A m \in DOMAIN held' : Fine(m, held'[m], log)
  PROVE  ThreadTypes' /\ ThreadsInv' /\ AllFine'
<1>1. log' = log /\ engine_lock' = engine_lock /\ pc' = pc /\ event' = event /\ todo' = todo
  BY DEF threads
<1>2. engine_lock = NoOne => \A c \in Clients : pc[c] # "rebuild" /\ todo[c] = {}
  BY EngineAssumption DEF ThreadTypes, ThreadsInv
<1>3. DOMAIN projections' \subseteq Names
  BY DEF ThreadTypes, Registered
<1>4. ThreadTypes'
  <2>1. \A c \in Clients : todo[c] \subseteq DOMAIN projections'
    <3>1. CASE projections' = projections
      BY <3>1 DEF ThreadTypes, Registered
    <3>2. CASE engine_lock = NoOne
      BY <1>2, <3>2
    <3>3. QED
      BY <3>1, <3>2
  <2>2. QED
    BY <1>1, <1>3, <2>1 DEF ThreadTypes, Registered
<1>5. ThreadsInv'
  <2>1. CASE projections' = projections
    BY <1>1, <2>1 DEF ThreadsInv, Registered
  <2>2. CASE engine_lock = NoOne
    BY <1>1, <1>2, <2>2 DEF ThreadsInv
  <2>3. QED
    BY <2>1, <2>2
<1>6. AllFine'
  BY <1>1 DEF AllFine, Registered, Fine
<1>7. QED
  BY <1>4, <1>5, <1>6

(* Making, registering, removing and starting a projection.                  *)
LEMMA PlaceStep ==
  ASSUME ThreadTypes, ThreadsInv, AllFine, NEW name \in Names,
         Create(name) \/ Register(name) \/ Remove(name) \/ StartProcessing(name)
  PROVE  ThreadTypes' /\ ThreadsInv' /\ AllFine'
<1>1. /\ log \in Seq(EventPayload) /\ Registered \subseteq Names /\ DOMAIN held \subseteq Names
      /\ failures \in 0 .. ReplayFailures
  BY DEF ThreadTypes
<1>2. /\ \A m \in DOMAIN projections : Fine(m, projections[m], log)
      /\ \A m \in DOMAIN held : Fine(m, held[m], log)
  BY DEF AllFine, Registered
<1>3. DOMAIN << >> = {}
  OBVIOUS
<1>4. UNCHANGED <<log, engine_lock, threads, failures>>
  BY DEF Create, Register, Remove, StartProcessing
<1>5. failures' \in 0 .. ReplayFailures
  BY <1>1, <1>4
<1> HIDE DEF Fine
<1>6. CASE Create(name)
  <2>1. held' = Hold(name, New) /\ projections' = projections
    BY <1>6 DEF Create
  <2>2. Fine(name, New, log)
    BY <1>1, NewSound DEF Fine
  <2>3. DOMAIN held' = {name} /\ \A m \in DOMAIN held' : Fine(m, held'[m], log)
    BY <2>1, <2>2, OneHeld
  <2>4. \A m \in DOMAIN projections' : Fine(m, projections'[m], log)
    BY <1>2, <2>1
  <2>5. DOMAIN held' \subseteq Names
    BY <2>3
  <2>6. QED
    BY <1>4, <1>5, <2>1, <2>3, <2>4, <2>5, ThreadsAlone
<1>7. CASE Register(name)
  <2>1. /\ engine_lock = NoOne /\ name \in DOMAIN held
        /\ projections' = With(name, held[name]) /\ held' = << >>
    BY <1>7 DEF Register
  <2>2. /\ DOMAIN projections' = Registered \cup {name}
        /\ \A m \in DOMAIN projections' :
             projections'[m] = IF m = name THEN held[name] ELSE projections[m]
    BY <2>1 DEF With
  <2>3. \A m \in DOMAIN projections' : Fine(m, projections'[m], log)
    BY <1>2, <2>1, <2>2 DEF Registered
  <2>4. DOMAIN held' \subseteq Names /\ \A m \in DOMAIN held' : Fine(m, held'[m], log)
    BY <1>3, <2>1
  <2>5. DOMAIN projections' \subseteq Names
    BY <1>1, <2>2
  <2>6. QED
    BY <1>4, <1>5, <2>1, <2>3, <2>4, <2>5, ThreadsAlone
<1>8. CASE Remove(name)
  <2>1. /\ engine_lock = NoOne /\ name \in Registered
        /\ projections' = [m \in Registered \ {name} |-> projections[m]]
        /\ held' = held \/ held' = Hold(name, projections[name])
    BY <1>8 DEF Remove
  <2>2. \A m \in DOMAIN projections' : Fine(m, projections'[m], log)
    BY <1>2, <2>1 DEF Registered
  <2>3. DOMAIN held' \subseteq Names /\ \A m \in DOMAIN held' : Fine(m, held'[m], log)
    <3>1. CASE held' = held
      BY <1>1, <1>2, <3>1
    <3>2. CASE held' = Hold(name, projections[name])
      <4>1. Fine(name, projections[name], log)
        BY <1>2, <2>1 DEF Registered
      <4>2. DOMAIN held' = {name} /\ \A m \in DOMAIN held' : Fine(m, held'[m], log)
        BY <3>2, <4>1, OneHeld
      <4>3. QED
        BY <4>2
    <3>3. QED
      BY <2>1, <3>1, <3>2
  <2>4. DOMAIN projections' \subseteq Names
    BY <1>1, <2>1
  <2>5. QED
    BY <1>4, <1>5, <2>1, <2>2, <2>3, <2>4, ThreadsAlone
<1>9. CASE StartProcessing(name)
  <2>1. /\ engine_lock = NoOne /\ name \in Registered /\ held' = held
        /\ projections' = [projections EXCEPT ![name] = SetStatus(@, "Processing")]
    BY <1>9 DEF StartProcessing
  <2>2. Fine(name, SetStatus(projections[name], "Processing"), log)
    BY <1>2, <2>1, Started DEF Fine, Registered
  <2>3. \A m \in DOMAIN projections :
          projections'[m] = IF m = name THEN SetStatus(projections[name], "Processing")
                            ELSE projections[m]
    BY <2>1
  <2>4. DOMAIN projections' = DOMAIN projections
    BY <2>1
  <2>5. \A m \in DOMAIN projections' : Fine(m, projections'[m], log)
    BY <1>2, <2>2, <2>3, <2>4
  <2>6. DOMAIN projections' \subseteq Names /\ DOMAIN held' \subseteq Names
    BY <1>1, <2>1, <2>4 DEF Registered
  <2>7. \A m \in DOMAIN held' : Fine(m, held'[m], log)
    BY <1>2, <2>1
  <2>8. QED
    BY <1>4, <1>5, <2>1, <2>5, <2>6, <2>7, ThreadsAlone
<1>10. QED
  BY <1>6, <1>7, <1>8, <1>9

(* The calls of whoever holds a projection keep the invariant.               *)
LEMMA HeldKeeps ==
  ASSUME ThreadTypes, ThreadsInv, AllFine, HeldCall
  PROVE  ThreadTypes' /\ ThreadsInv' /\ AllFine'
<1>1. /\ AllFine' /\ UNCHANGED <<log, projections, engine_lock, threads>>
      /\ DOMAIN held' \subseteq Names /\ failures' \in 0 .. ReplayFailures
  BY HeldStep
<1>2. log' = log
  BY <1>1
<1>3. /\ \A m \in DOMAIN projections' : Fine(m, projections'[m], log)
      /\ \A m \in DOMAIN held' : Fine(m, held'[m], log)
  BY <1>1, <1>2 DEF AllFine, Registered, Fine
<1>4. QED
  BY <1>1, <1>3, ThreadsAlone

(* So do appending an event and dispatching it.                              *)
LEMMA DispatchStep ==
  ASSUME ThreadTypes, ThreadsInv, AllFine, NEW c \in Clients,
         AppendEvent(c) \/ ProcessEvent(c)
  PROVE  ThreadTypes' /\ ThreadsInv' /\ AllFine'
<1>1. /\ log \in Seq(EventPayload) /\ DOMAIN projections \subseteq Names /\ DOMAIN held \subseteq Names
      /\ event \in [Clients -> 0 .. Len(log)]
      /\ pc \in [Clients -> {"idle", "dispatch", "rebuild"}]
      /\ Len(log) \in Nat
  BY LenProperties DEF ThreadTypes, Registered
<1>2. /\ \A m \in DOMAIN projections : Fine(m, projections[m], log)
      /\ \A m \in DOMAIN held : Fine(m, held[m], log)
  BY DEF AllFine, Registered
<1>3. CASE AppendEvent(c)
  <2>1. PICK e \in EventPayload : log' = Append(log, e)
    BY <1>3 DEF AppendEvent
  <2>2. /\ log' \in Seq(EventPayload) /\ Len(log') = Len(log) + 1
        /\ UNCHANGED <<projections, held, engine_lock, todo, failures>>
        /\ event' = [event EXCEPT ![c] = Len(log) + 1]
        /\ pc[c] = "idle" /\ pc' = [pc EXCEPT ![c] = "dispatch"]
    BY <1>1, <1>3, <2>1, PushedLast DEF AppendEvent
  <2>3. ThreadTypes'
    <3>1. event' \in [Clients -> 0 .. Len(log')]
      BY <1>1, <2>2
    <3>2. pc' \in [Clients -> {"idle", "dispatch", "rebuild"}]
      BY <1>1, <2>2
    <3>3. \A d \in Clients : pc'[d] = "rebuild" <=> pc[d] = "rebuild"
      BY <1>1, <2>2
    <3>4. QED
      BY <2>2, <3>1, <3>2, <3>3 DEF ThreadTypes, Registered
  <2>4. ThreadsInv'
    <3>1. ASSUME NEW d \in Clients
          PROVE  /\ pc'[d] = "dispatch" => event'[d] > 0
                 /\ pc'[d] # "rebuild" => todo'[d] = {}
                 /\ pc'[d] = "rebuild" => pc[d] = "rebuild"
      BY <1>1, <2>2 DEF ThreadsInv
    <3>2. QED
      BY <2>2, <3>1 DEF ThreadsInv, Registered
  <2>5. \A name, p : Fine(name, p, log) => Fine(name, p, log')
    BY <1>1, <2>1, ReplayOfLonger DEF Fine, IsTallied
  <2>6. AllFine'
    <3>1. \A name, p : Fine(name, p, log)' <=> Fine(name, p, log')
      BY DEF Fine
    <3>2. /\ \A m \in DOMAIN projections' : Fine(m, projections'[m], log')
          /\ \A m \in DOMAIN held' : Fine(m, held'[m], log')
      BY <1>2, <2>2, <2>5
    <3>3. QED
      BY <3>2 DEF AllFine, Registered, Fine
  <2>7. QED
    BY <2>3, <2>4, <2>6
<1>4. CASE ProcessEvent(c)
  <2> DEFINE i == event[c]
             e == log[i]
             Next1(m) == IF projections[m].status = "Processing"
                         THEN Processed(m, projections[m], i, e) ELSE projections[m]
  <2>1. /\ projections' = [m \in DOMAIN projections |-> Next1(m)]
        /\ pc[c] = "dispatch" /\ engine_lock = NoOne
        /\ UNCHANGED <<log, held, engine_lock, todo, failures>>
        /\ event' = [event EXCEPT ![c] = 0] /\ pc' = [pc EXCEPT ![c] = "idle"]
    BY <1>4 DEF ProcessEvent, Registered
  <2>2. i \in 1 .. Len(log) /\ i \in Nat /\ e \in EventPayload
    <3>1. i \in 1 .. Len(log)
      BY <1>1, <2>1 DEF ThreadsInv
    <3>2. QED
      BY <1>1, <3>1, Prefixes
  <2>3. \A d \in Clients : pc[d] # "rebuild"
    BY <2>1, EngineAssumption DEF ThreadTypes
  <2>4. ASSUME NEW m \in DOMAIN projections PROVE Fine(m, Next1(m), log)
    <3> DEFINE p == projections[m]
    <3>1. Fine(m, p, log)
      BY <1>2
    <3>2. CASE p.status = "Processing"
      <4>1. Next1(m) = Processed(m, p, i, e)
        BY <3>2
      <4> HIDE DEF p, i, e, Next1
      <4>2. IsTallied(m, p)
        BY <3>1 DEF Fine
      <4>3. /\ IsTallied(m, Processed(m, p, i, e))
            /\ Processed(m, p, i, e).status = p.status
        BY <2>2, <4>2, ProcessedTallied
      <4>4. QED
        BY <3>2, <4>1, <4>3 DEF Fine, NotStarted
    <3>3. CASE p.status # "Processing"
      BY <3>1, <3>3
    <3>4. QED
      BY <3>2, <3>3
  <2> HIDE DEF Next1, i, e
  <2>5. DOMAIN projections' = DOMAIN projections /\ log' = log
    BY <2>1
  <2>6. AllFine'
    <3>1. /\ \A m \in DOMAIN projections' : Fine(m, projections'[m], log')
          /\ \A m \in DOMAIN held' : Fine(m, held'[m], log')
      BY <1>2, <2>1, <2>4, <2>5
    <3>2. QED
      BY <3>1 DEF AllFine, Registered, Fine
  <2>7. /\ event' \in [Clients -> 0 .. Len(log')]
        /\ pc' \in [Clients -> {"idle", "dispatch", "rebuild"}]
        /\ \A d \in Clients : pc'[d] # "rebuild" /\ (d # c => pc'[d] = pc[d] /\ event'[d] = event[d])
        /\ pc'[c] = "idle"
    BY <1>1, <2>1, <2>3
  <2>8. ThreadTypes'
    BY <2>1, <2>3, <2>5, <2>7 DEF ThreadTypes, Registered
  <2>9. ThreadsInv'
    <3>1. ASSUME NEW d \in Clients
          PROVE  /\ pc'[d] = "dispatch" => event'[d] > 0
                 /\ pc'[d] # "rebuild" => todo'[d] = {}
                 /\ pc'[d] # "rebuild"
      BY <1>1, <2>1, <2>3, <2>7 DEF ThreadsInv
    <3>2. QED
      BY <3>1 DEF ThreadsInv
  <2>10. QED
    BY <2>6, <2>8, <2>9
<1>5. QED
  BY <1>3, <1>4

(* So does rebuild_all, at each of its steps.                                *)
LEMMA RebuildStep ==
  ASSUME ThreadTypes, ThreadsInv, AllFine, NEW c \in Clients,
         RebuildBegin(c) \/ RebuildAll(c)
  PROVE  ThreadTypes' /\ ThreadsInv' /\ AllFine'
<1>1. /\ log \in Seq(EventPayload) /\ DOMAIN projections \subseteq Names /\ DOMAIN held \subseteq Names
      /\ todo \in [Clients -> SUBSET Names] /\ pc \in [Clients -> {"idle", "dispatch", "rebuild"}]
      /\ failures \in 0 .. ReplayFailures /\ ReplayFailures \in Nat
      /\ \A d \in Clients : todo[d] \subseteq DOMAIN projections
  BY EngineAssumption DEF ThreadTypes, Registered
<1>2. /\ \A m \in DOMAIN projections : Fine(m, projections[m], log)
      /\ \A m \in DOMAIN held : Fine(m, held[m], log)
  BY DEF AllFine, Registered
<1>3. /\ \A d \in Clients : engine_lock = d <=> pc[d] = "rebuild"
      /\ \A d \in Clients : pc[d] # "rebuild" => todo[d] = {}
      /\ \A d \in Clients : pc[d] = "dispatch" => event[d] > 0
      /\ NoOne \notin Clients
  BY EngineAssumption DEF ThreadTypes, ThreadsInv
<1>4. ASSUME log' = log, held' = held, projections' = projections
      PROVE  AllFine'
  BY <1>2, <1>4 DEF AllFine, Registered, Fine
<1>5. ASSUME NEW name \in DOMAIN projections, NEW q, Fine(name, q, log),
             log' = log, held' = held, projections' = [projections EXCEPT ![name] = q]
      PROVE  AllFine' /\ DOMAIN projections' = DOMAIN projections
  <2> HIDE DEF Fine
  <2>1. \A m \in DOMAIN projections : projections'[m] = IF m = name THEN q ELSE projections[m]
    BY <1>5
  <2>2. DOMAIN projections' = DOMAIN projections
    BY <1>5
  <2>3. /\ \A m \in DOMAIN projections' : Fine(m, projections'[m], log')
        /\ \A m \in DOMAIN held' : Fine(m, held'[m], log')
    BY <1>2, <1>5, <2>1, <2>2
  <2>4. QED
    BY <2>2, <2>3 DEF AllFine, Registered, Fine
<1>6. ASSUME RebuildReturn(c), pc[c] = "rebuild", log' = log, held' = held, event' = event,
             DOMAIN projections' = DOMAIN projections, failures' \in 0 .. ReplayFailures
      PROVE  ThreadTypes' /\ ThreadsInv'
  <2>1. /\ engine_lock' = NoOne
        /\ todo' = [todo EXCEPT ![c] = {}] /\ pc' = [pc EXCEPT ![c] = "idle"]
    BY <1>6 DEF RebuildReturn
  <2>2. /\ pc' \in [Clients -> {"idle", "dispatch", "rebuild"}]
        /\ todo' \in [Clients -> SUBSET Names]
        /\ \A d \in Clients : d # c => pc'[d] = pc[d] /\ todo'[d] = todo[d]
        /\ pc'[c] = "idle" /\ todo'[c] = {}
    BY <1>1, <2>1
  <2>3. \A d \in Clients : pc'[d] # "rebuild" /\ todo'[d] = {} /\ engine_lock' # d
    BY <1>3, <1>6, <2>1, <2>2
  <2>4. ThreadTypes'
    BY <1>6, <2>1, <2>2, <2>3 DEF ThreadTypes, Registered
  <2>5. ThreadsInv'
    BY <1>3, <1>6, <2>2, <2>3 DEF ThreadsInv
  <2>6. QED
    BY <2>4, <2>5
<1>7. CASE RebuildBegin(c)
  <2>1. /\ pc[c] = "idle" /\ engine_lock = NoOne /\ engine_lock' = c
        /\ todo' = [todo EXCEPT ![c] = DOMAIN projections] /\ pc' = [pc EXCEPT ![c] = "rebuild"]
        /\ UNCHANGED <<log, projections, held, event, failures>>
    BY <1>7 DEF RebuildBegin, Registered
  <2>2. /\ pc' \in [Clients -> {"idle", "dispatch", "rebuild"}]
        /\ todo' \in [Clients -> SUBSET Names]
        /\ \A d \in Clients : d # c => pc'[d] = pc[d] /\ todo'[d] = todo[d]
        /\ pc'[c] = "rebuild" /\ todo'[c] = DOMAIN projections
    BY <1>1, <2>1
  <2>3. \A d \in Clients : d # c => pc[d] # "rebuild" /\ todo[d] = {}
    BY <1>3, <2>1
  <2>4. ThreadTypes'
    BY <1>3, <2>1, <2>2, <2>3 DEF ThreadTypes, Registered
  <2>5. ThreadsInv'
    BY <1>3, <2>1, <2>2, <2>3 DEF ThreadsInv, Registered
  <2>6. QED
    BY <1>4, <2>1, <2>4, <2>5
<1>8. CASE RebuildEnd(c)
  BY <1>1, <1>4, <1>6, <1>8 DEF RebuildEnd
<1>9. ASSUME NEW name \in todo[c], RebuildOneRefused(c, name)
      PROVE  ThreadTypes' /\ ThreadsInv' /\ AllFine'
  BY <1>1, <1>4, <1>6, <1>9 DEF RebuildOneRefused
<1>10. ASSUME NEW name \in todo[c], RebuildOneFails(c, name)
       PROVE  ThreadTypes' /\ ThreadsInv' /\ AllFine'
  <2> DEFINE q == RebuildFailed(name, projections[name])
  <2>1. /\ pc[c] = "rebuild" /\ failures > 0 /\ failures' = failures - 1
        /\ projections' = [projections EXCEPT ![name] = q]
        /\ RebuildReturn(c) /\ log' = log /\ held' = held /\ event' = event
    BY <1>10 DEF RebuildOneFails
  <2>2. name \in DOMAIN projections
    BY <1>1
  <2>3. Fine(name, q, log)
    BY <1>1, <1>2, <2>2, Rebuilds DEF Fine
  <2>4. failures' \in 0 .. ReplayFailures
    BY <1>1, <2>1
  <2> HIDE DEF q
  <2>5. AllFine' /\ DOMAIN projections' = DOMAIN projections
    BY <1>5, <2>1, <2>2, <2>3
  <2>6. QED
    BY <1>6, <2>1, <2>4, <2>5
<1>11. ASSUME NEW name \in todo[c], RebuildOne(c, name)
       PROVE  ThreadTypes' /\ ThreadsInv' /\ AllFine'
  <2> DEFINE q == Initialized(name, projections[name], log)
  <2>1. /\ pc[c] = "rebuild"
        /\ projections' = [projections EXCEPT ![name] = q]
        /\ todo' = [todo EXCEPT ![c] = @ \ {name}]
        /\ UNCHANGED <<log, held, engine_lock, pc, event, failures>>
    BY <1>11 DEF RebuildOne
  <2>2. name \in DOMAIN projections
    BY <1>1
  <2>3. Fine(name, q, log) /\ q.status = "Initialized"
    BY <1>1, <1>2, <2>2, Rebuilds DEF Fine
  <2> HIDE DEF q
  <2>4. AllFine' /\ DOMAIN projections' = DOMAIN projections
    BY <1>5, <2>1, <2>2, <2>3
  <2>5. /\ todo' \in [Clients -> SUBSET Names]
        /\ todo'[c] = todo[c] \ {name} /\ \A d \in Clients : d # c => todo'[d] = todo[d]
    BY <1>1, <2>1
  <2>6. \A d \in Clients : d # c => pc[d] # "rebuild"
    BY <1>3, <2>1
  <2>7. \A m \in DOMAIN projections : projections'[m] = IF m = name THEN q ELSE projections[m]
    BY <2>1
  <2>8. ThreadTypes'
    <3>1. \A d \in Clients : todo'[d] \subseteq DOMAIN projections
      BY <1>1, <2>5
    <3>2. QED
      BY <2>1, <2>4, <2>5, <3>1 DEF ThreadTypes, Registered
  <2>9. ThreadsInv'
    <3>1. \A m \in DOMAIN projections \ todo[c] : projections[m].status = "Initialized"
      BY <2>1 DEF ThreadsInv, Registered
    <3>2. \A m \in DOMAIN projections' \ todo'[c] : projections'[m].status = "Initialized"
      BY <2>3, <2>4, <2>5, <2>7, <3>1
    <3>3. QED
      BY <1>3, <2>1, <2>5, <2>6, <3>2 DEF ThreadsInv, Registered
  <2>10. QED
    BY <2>4, <2>8, <2>9
<1>12. QED
  BY <1>7, <1>8, <1>9, <1>10, <1>11 DEF RebuildAll

(* The strengthened invariant is inductive.                                  *)
LEMMA NextIInv == IInv /\ [Next]_vars => IInv'
<1> SUFFICES ASSUME ThreadTypes, ThreadsInv, AllFine, [Next]_vars
             PROVE  ThreadTypes' /\ ThreadsInv' /\ AllFine'
  <2>1. IInv' <=> ThreadTypes' /\ ThreadsInv' /\ AllFine'
    BY Parts, PTL
  <2>2. QED
    BY <2>1, Parts
<1>1. CASE UNCHANGED vars
  <2>1. UNCHANGED <<log, projections, held, engine_lock, pc, event, todo, failures>>
    BY <1>1 DEF vars, threads
  <2>2. ThreadTypes'
    BY <2>1 DEF ThreadTypes, Registered
  <2>3. ThreadsInv'
    BY <2>1 DEF ThreadsInv, Registered
  <2>4. AllFine'
    BY <2>1 DEF AllFine, Registered, Fine
  <2>5. QED
    BY <2>2, <2>3, <2>4
<1>2. CASE HeldCall
  BY <1>2, HeldKeeps
<1>3. ASSUME NEW name \in Names,
             Create(name) \/ Register(name) \/ Remove(name) \/ StartProcessing(name)
      PROVE  ThreadTypes' /\ ThreadsInv' /\ AllFine'
  BY <1>3, PlaceStep
<1>4. ASSUME NEW c \in Clients, AppendEvent(c) \/ ProcessEvent(c)
      PROVE  ThreadTypes' /\ ThreadsInv' /\ AllFine'
  BY <1>4, DispatchStep
<1>5. ASSUME NEW c \in Clients, RebuildBegin(c) \/ RebuildAll(c)
      PROVE  ThreadTypes' /\ ThreadsInv' /\ AllFine'
  BY <1>5, RebuildStep
<1>6. QED
  BY <1>1, <1>2, <1>3, <1>4, <1>5 DEF Next

(* The strengthened invariant holds in every state.                          *)
THEOREM Invariance == Spec => []IInv
<1>1. Init => IInv
  BY InitIInv
<1>2. IInv /\ [Next]_vars => IInv'
  BY NextIInv
<1>3. QED
  BY <1>1, <1>2, PTL DEF Spec

(* Every variable has its type, rebuild_all alone holds the mutex across     *)
(* steps, and no list of projections outlives the mutex it was read under.   *)
THEOREM TypeCorrect == Spec => []TypeOK
<1>1. IInv => TypeOK
  BY DEF IInv
<1>2. QED
  BY <1>1, Invariance, PTL

(* A projection is exactly what the events it was fed since it was made or   *)
(* rebuilt make of it, in any order and any status, and the replay of the    *)
(* log up to its checkpoint when it was not started since and its holder     *)
(* handed it no event out of turn.                                           *)
THEOREM RebuiltSafe == Spec => []RebuiltIsReplay
<1>1. IInv => RebuiltIsReplay
  BY DEF IInv
<1>2. QED
  BY <1>1, Invariance, PTL

(* A projection whose counts are in step has a consistent summary.           *)
LEMMA TalliedConsistent ==
  ASSUME NEW p, IsTallied("AiContext", p)
  PROVE  Consistent(p)
<1> DEFINE summary == Summary(p)
           D == DOMAIN p.files
           n == Len(p.recent)
<1>1. /\ summary.recent_changes = p.recent /\ summary.file_count = FileCount(p)
      /\ summary.total_changes = Total(p.files)
      /\ summary.workspace_status =
           IF FileCount(p) = 0 THEN "Empty" ELSE IF p.recent = << >> THEN "Idle" ELSE "Active"
      /\ summary = [workspace_status |-> summary.workspace_status,
                    recent_changes |-> summary.recent_changes,
                    file_count |-> summary.file_count,
                    total_changes |-> summary.total_changes]
  <2>1. summary.total_changes = Total(p.files)
    BY SummaryTotal
  <2>2. QED
    BY <2>1 DEF Summary
<1>2. IsTable(p.files) /\ p.recent \in Seq(Change)
  BY DEF IsTallied, IsInstance, Tallied, IsTable
<1>3. /\ n = Least(Total(p.files), RecentLimit)
      /\ \A i \in DOMAIN p.recent : p.recent[i].path \in D
  <2>1. Summary(p).total_changes = Total(p.files)
    BY SummaryTotal
  <2>2. QED
    BY <2>1 DEF IsTallied, Tallied
<1>4. /\ Total(p.files) \in Nat
      /\ Total(p.files) = 0 => D = {}
  BY <1>2, TotalType
<1>5. n \in Nat /\ DOMAIN p.recent = 1 .. n
  BY <1>2, LenProperties
<1>6. IsFiniteSet(D) /\ FileCount(p) = Cardinality(D) /\ Cardinality(D) \in Nat
  BY <1>2, FS_CardinalityType DEF IsTable, FileCount
<1> HIDE DEF summary, D
<1>7. summary \in AiContextSummary
  BY <1>1, <1>2, <1>4, <1>6 DEF AiContextSummary, WorkspaceStatus
<1>8. Cardinality({p.recent[i].path : i \in 1 .. n}) <= Cardinality(D)
  <2> DEFINE listed == {p.recent[i].path : i \in 1 .. n}
  <2>1. listed \subseteq D
    BY <1>3, <1>5
  <2> HIDE DEF listed
  <2>2. Cardinality(listed) <= Cardinality(D)
    BY <1>6, <2>1, FS_Subset
  <2>3. QED
    BY <2>2 DEF listed
<1>9. ASSUME RecentLimit > 0, summary.workspace_status = "Idle"
      PROVE  FALSE
  <2>1. p.recent = << >> /\ FileCount(p) # 0
    BY <1>1, <1>9
  <2>2. n = 0
    BY <2>1
  <2> HIDE DEF n
  <2>3. Total(p.files) = 0
    BY <1>3, <1>4, <1>9, <2>2, ProjectionAssumption DEF Least
  <2>4. Cardinality(D) = 0
    BY <1>4, <2>3, FS_EmptySet
  <2>5. QED
    BY <1>6, <2>1, <2>4
<1>10. /\ n = Least(summary.total_changes, RecentLimit)
       /\ Cardinality({summary.recent_changes[i].path : i \in 1 .. n}) <= summary.file_count
       /\ \A i \in 1 .. n : summary.recent_changes[i].path \in DOMAIN p.files
       /\ RecentLimit > 0 => summary.workspace_status # "Idle"
       /\ Len(summary.recent_changes) = n
  <2>1. Cardinality({summary.recent_changes[i].path : i \in 1 .. n}) <= summary.file_count
    BY <1>1, <1>6, <1>8
  <2>2. QED
    BY <1>1, <1>3, <1>5, <1>9, <2>1 DEF D
<1> HIDE DEF n
<1>11. QED
  BY <1>7, <1>10 DEF Consistent, summary

(* The summary of AiContext agrees with itself in every state, whatever was  *)
(* rebuilt, started, failed or fed out of order.                             *)
THEOREM SummarySafe == Spec => []SummaryConsistent
<1>1. IInv => SummaryConsistent
  <2> SUFFICES ASSUME IInv PROVE SummaryConsistent
    OBVIOUS
  <2>1. AllFine
    BY Parts
  <2>2. /\ \A m \in Registered : IsTallied(m, projections[m])
        /\ \A m \in DOMAIN held : IsTallied(m, held[m])
    BY <2>1 DEF AllFine, Fine
  <2>3. QED
    BY <2>2, TalliedConsistent DEF SummaryConsistent
<1>2. QED
  BY <1>1, Invariance, PTL

(* When rebuild_all returns Ok, every registered projection is Initialized,  *)
(* whatever the other threads did since it was called.                       *)
THEOREM OkSafe == Spec => OkMeansInitialized
<1> DEFINE Ok(c) ==
             pc[c] = "rebuild" /\ todo[c] = {} /\ pc'[c] = "idle" =>
               \A name \in DOMAIN projections' : projections'[name].status = "Initialized"
<1>1. IInv /\ [Next]_vars => [\A c \in Clients : Ok(c)]_vars
  <2> SUFFICES ASSUME IInv, Next, NEW c \in Clients,
                      pc[c] = "rebuild", todo[c] = {}, pc'[c] = "idle"
               PROVE  projections' = projections
                      /\ \A name \in DOMAIN projections : projections[name].status = "Initialized"
    BY DEF vars
  <2>1. \A name \in DOMAIN projections : projections[name].status = "Initialized"
    BY DEF IInv, ThreadsInv, Registered
  <2>2. /\ \A d \in Clients : engine_lock = d <=> pc[d] = "rebuild"
        /\ pc \in [Clients -> {"idle", "dispatch", "rebuild"}]
        /\ NoOne \notin Clients
    BY EngineAssumption DEF IInv, TypeOK
  <2>3. engine_lock = c /\ engine_lock # NoOne
    BY <2>2
  <2>4. CASE HeldCall
    <3>1. UNCHANGED <<log, projections, engine_lock, threads>>
      BY <2>4 DEF HeldCall
    <3>2. QED
      BY <2>1, <3>1
  <2>5. ASSUME NEW name \in Names,
               Create(name) \/ Register(name) \/ Remove(name) \/ StartProcessing(name)
        PROVE  projections' = projections
    BY <2>3, <2>5 DEF Create, Register, Remove, StartProcessing
  <2>6. ASSUME NEW d \in Clients, AppendEvent(d) \/ ProcessEvent(d) \/ RebuildBegin(d)
        PROVE  projections' = projections
    BY <2>3, <2>6 DEF AppendEvent, ProcessEvent, RebuildBegin
  <2>7. ASSUME NEW d \in Clients, RebuildAll(d)
        PROVE  projections' = projections
    <3>1. CASE RebuildEnd(d)
      BY <3>1 DEF RebuildEnd
    <3>2. ASSUME NEW name \in todo[d],
                 RebuildOne(d, name) \/ RebuildOneFails(d, name) \/ RebuildOneRefused(d, name)
          PROVE  FALSE
      <4>1. pc[d] = "rebuild"
        BY <3>2 DEF RebuildOne, RebuildOneFails, RebuildOneRefused
      <4>2. d = c
        BY <2>2, <2>3, <4>1
      <4>3. QED
        BY <3>2, <4>2
    <3>3. QED
      BY <2>7, <3>1, <3>2 DEF RebuildAll
  <2>8. projections' = projections
    BY <2>4, <2>5, <2>6, <2>7 DEF Next
  <2>9. QED
    BY <2>1, <2>8
<1>2. QED
  BY <1>1, Invariance, PTL DEF Spec, OkMeansInitialized
=============================================================================
