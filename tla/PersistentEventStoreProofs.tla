--------------------- MODULE PersistentEventStoreProofs ---------------------
(***************************************************************************)
(* The safety properties of PersistentEventStore and the promise it keeps, *)
(* for any threads, payloads, capacity, number of failing writes and any   *)
(* damage to meta.json the assumption allows.                              *)
(***************************************************************************)
EXTENDS PersistentEventStore, SequenceTheorems, FiniteSetTheorems, TLAPS

-----------------------------------------------------------------------------
(* What the operations on a log of events do, for any log. *)

(* Pushing an event leaves the others where they are and puts it last.      *)
LEMMA PushedLast ==
  ASSUME NEW S, NEW es \in Seq(S), NEW e \in S
  PROVE  /\ Append(es, e) \in Seq(S)
         /\ Len(Append(es, e)) = Len(es) + 1
         /\ Len(es) \in Nat
         /\ DOMAIN es = 1 .. Len(es)
         /\ DOMAIN Append(es, e) = 1 .. Len(es) + 1
         /\ \A i \in 1 .. Len(es) : Append(es, e)[i] = es[i]
         /\ Append(es, e)[Len(es) + 1] = e
  BY AppendProperties, LenProperties

(* The position a replay from `from` starts at, and how many events it has. *)
First(from) == IF from = 0 THEN 1 ELSE from
Count(from, end) == IF First(from) <= end THEN end - First(from) + 1 ELSE 0

(* The n events of a range lie side by side, from position lo to hi.        *)
SideBySide(es, from, end, lo, hi, n) ==
  /\ lo \in Nat \ {0} /\ hi \in Int /\ lo .. hi \subseteq DOMAIN es
  /\ \A i \in DOMAIN es :
       (es[i].sequence >= from /\ es[i].sequence <= end) <=> i \in lo .. hi
  /\ n = IF lo <= hi THEN hi - lo + 1 ELSE 0

(* Where they do, they are what is selected.                                *)
LEMMA SelectSlice ==
  ASSUME NEW es, NEW from, NEW end, NEW lo, NEW hi, NEW n,
         SideBySide(es, from, end, lo, hi, n)
  PROVE  /\ DOMAIN Select(es, from, end) = 1 .. n
         /\ \A k \in 1 .. n : Select(es, from, end)[k] = es[lo + k - 1]
<1> USE DEF SideBySide
<1> DEFINE hits == {i \in DOMAIN es : es[i].sequence >= from /\ es[i].sequence <= end}
           Nth(k) == CHOOSE i \in hits : Cardinality({j \in hits : j <= i}) = k
<1>1. hits = lo .. hi
  OBVIOUS
<1>2. n \in Nat /\ Cardinality(lo .. hi) = n
  <2>1. lo \in Int /\ hi \in Int
    OBVIOUS
  <2>2. Cardinality(lo .. hi) = IF lo > hi THEN 0 ELSE hi - lo + 1
    BY <2>1, FS_Interval, Zenon
  <2>3. QED
    BY <2>2
<1> HIDE DEF hits
<1>3. ASSUME NEW k \in 1 .. n
      PROVE  Nth(k) = lo + k - 1
  <2>1. ASSUME NEW i \in hits
        PROVE  Cardinality({j \in hits : j <= i}) = i - lo + 1
    <3>1. {j \in hits : j <= i} = lo .. i
      BY <1>1
    <3>2. i \in Int /\ lo <= i /\ lo \in Int
      BY <1>1
    <3>3. Cardinality(lo .. i) = i - lo + 1
      BY <3>2, FS_Interval
    <3>4. QED
      BY <3>1, <3>3
  <2>2. lo + k - 1 \in hits
    BY <1>1
  <2>3. k \in Int
    BY <1>2
  <2>4. ASSUME NEW i \in hits
        PROVE  Cardinality({j \in hits : j <= i}) = k <=> i = lo + k - 1
    <3>1. i \in Int /\ Cardinality({j \in hits : j <= i}) = i - lo + 1
      BY <1>1, <2>1
    <3>2. QED
      BY <2>3, <3>1
  <2>5. QED
    BY <2>2, <2>4
<1> HIDE DEF Nth
<1>4. [k \in 1 .. Cardinality(hits) |-> es[Nth(k)]] = [k \in 1 .. n |-> es[lo + k - 1]]
  BY <1>1, <1>2, <1>3
<1>5. Select(es, from, end) = [k \in 1 .. n |-> es[lo + k - 1]]
  BY <1>4 DEF Select, hits, Nth
<1>6. QED
  BY <1>5

(* In a vector where the event at position i has sequence i, the events     *)
(* whose sequence is in from..end are a contiguous slice of it.             *)
LEMMA SelectGapless ==
  ASSUME NEW es \in Seq(Event), \A i \in DOMAIN es : es[i].sequence = i,
         NEW from \in Nat, NEW end \in Nat, end <= Len(es)
  PROVE  Select(es, from, end) =
           [k \in 1 .. Count(from, end) |-> es[First(from) + k - 1]]
<1>1. DOMAIN es = 1 .. Len(es) /\ Len(es) \in Nat
  BY LenProperties
<1>2. /\ First(from) .. end \subseteq DOMAIN es
      /\ \A i \in DOMAIN es :
           (es[i].sequence >= from /\ es[i].sequence <= end) <=> i \in First(from) .. end
  BY <1>1 DEF First
<1>3. First(from) \in Nat \ {0} /\ end \in Int
  BY DEF First
<1> DEFINE lo == First(from)
<1>4. /\ lo \in Nat \ {0} /\ lo .. end \subseteq DOMAIN es
      /\ \A i \in DOMAIN es :
           (es[i].sequence >= from /\ es[i].sequence <= end) <=> i \in lo .. end
  BY <1>2, <1>3
<1>5. Count(from, end) = IF lo <= end THEN end - lo + 1 ELSE 0
  BY DEF Count
<1> HIDE DEF lo
<1> DEFINE n == Count(from, end)
           sel == Select(es, from, end)
<1>6. n = IF lo <= end THEN end - lo + 1 ELSE 0
  BY <1>5
<1> HIDE DEF n
<1>7. DOMAIN sel = 1 .. n /\ \A k \in 1 .. n : sel[k] = es[lo + k - 1]
  <2>1. SideBySide(es, from, end, lo, end, n)
    BY <1>3, <1>4, <1>6 DEF SideBySide
  <2>2. QED
    BY <2>1, SelectSlice
<1>8. sel = [k \in DOMAIN sel |-> sel[k]]
  BY DEF Select
<1> HIDE DEF sel
<1>9. sel = [k \in 1 .. n |-> es[lo + k - 1]]
  BY <1>7, <1>8
<1>10. QED
  BY <1>9 DEF lo, n, sel

(* The log the callers see is as long as the vector.                        *)
LEMMA PayloadsType ==
  ASSUME NEW es \in Seq(Event)
  PROVE  /\ PayloadsOf(es) \in Seq(Payloads)
         /\ Len(PayloadsOf(es)) = Len(es)
<1>1. Len(es) \in Nat /\ DOMAIN es = 1 .. Len(es)
  BY LenProperties
<1>2. ASSUME NEW i \in 1 .. Len(es) PROVE es[i].payload \in Payloads
  <2>1. es[i] \in Event
    BY ElementOfSeq
  <2>2. QED
    BY <2>1 DEF Event
<1>3. QED
  BY <1>1, <1>2, IsASeq, LenProperties DEF PayloadsOf

(* Pushing an event appends its payload to the log the callers see.         *)
LEMMA PushedPayload ==
  ASSUME NEW es \in Seq(Event), NEW e \in Event
  PROVE  /\ PayloadsOf(Append(es, e)) = Append(PayloadsOf(es), e.payload)
         /\ Len(PayloadsOf(es)) = Len(es)
<1>1. PayloadsOf(es) \in Seq(Payloads) /\ Len(PayloadsOf(es)) = Len(es)
  BY PayloadsType
<1>2. e.payload \in Payloads
  BY DEF Event
<1> DEFINE pushed == PayloadsOf(Append(es, e))
           appended == Append(PayloadsOf(es), e.payload)
<1>3. /\ appended \in Seq(Payloads) /\ Len(appended) = Len(es) + 1
      /\ \A i \in 1 .. Len(es) : appended[i] = PayloadsOf(es)[i]
      /\ appended[Len(es) + 1] = e.payload
  BY <1>1, <1>2, PushedLast
<1>4. /\ pushed \in Seq(Payloads) /\ Len(pushed) = Len(es) + 1
      /\ \A i \in 1 .. Len(es) + 1 : pushed[i] = Append(es, e)[i].payload
  <2> DEFINE es2 == Append(es, e)
  <2>1. es2 \in Seq(Event) /\ Len(es2) = Len(es) + 1 /\ DOMAIN es2 = 1 .. Len(es) + 1
    BY PushedLast
  <2> HIDE DEF es2
  <2>2. PayloadsOf(es2) \in Seq(Payloads) /\ Len(PayloadsOf(es2)) = Len(es2)
    BY <2>1, PayloadsType
  <2>3. QED
    BY <2>1, <2>2 DEF PayloadsOf, es2
<1>5. \A i \in 1 .. Len(es) + 1 : pushed[i] = appended[i]
  <2>1. \A i \in 1 .. Len(es) : PayloadsOf(es)[i] = es[i].payload
    BY LenProperties DEF PayloadsOf
  <2> HIDE DEF pushed, appended
  <2>2. QED
    BY <1>3, <1>4, <2>1, PushedLast
<1> HIDE DEF pushed, appended
<1>6. pushed = appended
  BY <1>3, <1>4, <1>5, SeqEqual
<1>7. QED
  BY <1>1, <1>6 DEF pushed, appended

-----------------------------------------------------------------------------
(* Reading the file *)

(* What a replay selects from a file includes every event in the range.     *)
LEMMA SelectIncludes ==
  ASSUME NEW es \in Seq(Event), NEW i \in DOMAIN es, NEW from \in Nat, NEW end \in Nat,
         es[i].sequence >= from, es[i].sequence <= end
  PROVE  \E k \in DOMAIN Select(es, from, end) : Select(es, from, end)[k] = es[i]
<1> DEFINE hits == {j \in DOMAIN es : es[j].sequence >= from /\ es[j].sequence <= end}
           Upto(j) == {h \in hits : h <= j}
           Nth(k) == CHOOSE j \in hits : Cardinality(Upto(j)) = k
           rank == Cardinality(Upto(i))
<1>1. DOMAIN es = 1 .. Len(es) /\ Len(es) \in Nat
  BY LenProperties
<1>2. i \in hits /\ hits \subseteq 1 .. Len(es)
  BY <1>1
<1>3. IsFiniteSet(hits)
  <2>1. IsFiniteSet(1 .. Len(es))
    BY <1>1, FS_Interval
  <2>2. QED
    BY <1>2, <2>1, FS_Subset
<1> HIDE DEF hits
<1>4. ASSUME NEW j \in hits
      PROVE  IsFiniteSet(Upto(j)) /\ Cardinality(Upto(j)) \in 1 .. Cardinality(hits)
  <2>1. Upto(j) \in SUBSET hits /\ j \in Upto(j)
    BY <1>1, <1>2
  <2>2. IsFiniteSet(Upto(j)) /\ Cardinality(Upto(j)) <= Cardinality(hits)
    BY <1>3, <2>1, FS_Subset
  <2>3. Cardinality(Upto(j)) # 0
    BY <2>1, <2>2, FS_EmptySet
  <2>4. Cardinality(Upto(j)) \in Nat /\ Cardinality(hits) \in Nat
    BY <1>3, <2>2, FS_CardinalityType
  <2> HIDE DEF Upto
  <2>5. QED
    BY <2>2, <2>3, <2>4
<1>5. ASSUME NEW j \in hits, Cardinality(Upto(j)) = rank
      PROVE  j = i
  <2>1. ASSUME NEW a \in hits, NEW b \in hits, a < b
        PROVE  Cardinality(Upto(a)) # Cardinality(Upto(b))
    <3>1. Upto(a) \in SUBSET Upto(b) /\ b \in Upto(b) /\ b \notin Upto(a)
      BY <1>1, <1>2, <2>1
    <3>2. IsFiniteSet(Upto(b))
      BY <1>4
    <3> HIDE DEF Upto
    <3>3. Cardinality(Upto(b)) = Cardinality(Upto(a)) => Upto(b) = Upto(a)
      BY <3>1, <3>2, FS_Subset
    <3>4. QED
      BY <3>1, <3>3
  <2> HIDE DEF Upto
  <2>2. i \in Int /\ j \in Int
    BY <1>2
  <2>3. QED
    BY <1>2, <1>5, <2>1, <2>2
<1>6. rank \in 1 .. Cardinality(hits) /\ Nth(rank) = i
  <2> HIDE DEF Upto
  <2>1. QED
    BY <1>2, <1>4, <1>5
<1> HIDE DEF Upto, rank
<1>7. Select(es, from, end) = [k \in 1 .. Cardinality(hits) |-> es[Nth(k)]]
  BY DEF Select, hits, Upto
<1> HIDE DEF Nth
<1>8. QED
  BY <1>6, <1>7

(* Where one event has the greatest sequence, the fold finds it.            *)
LEMMA MaxSequenceFound ==
  ASSUME NEW es \in Seq(Event), NEW top \in DOMAIN es,
         \A i \in DOMAIN es : es[i].sequence <= es[top].sequence
  PROVE  MaxSequence(es) = es[top].sequence
<1> DEFINE Seqs == {es[i].sequence : i \in DOMAIN es}
<1>1. es # << >>
  BY EmptySeq, LenProperties
<1>2. \A i \in DOMAIN es : es[i].sequence \in Nat
  <2>1. \A i \in DOMAIN es : es[i] \in Event
    BY LenProperties
  <2>2. QED
    BY <2>1 DEF Event
<1>3. es[top].sequence \in Seqs /\ \A t \in Seqs : t <= es[top].sequence
  OBVIOUS
<1>4. \A s \in Seqs : s \in Nat
  BY <1>2
<1>5. MaxSequence(es) = CHOOSE s \in Seqs : \A t \in Seqs : t <= s
  BY <1>1 DEF MaxSequence
<1> HIDE DEF Seqs
<1>6. \A s \in Seqs : (\A t \in Seqs : t <= s) => s = es[top].sequence
  BY <1>3, <1>4
<1>7. QED
  BY <1>3, <1>5, <1>6

(* A replay of a file numbered first, first + 1, ... finds no fault in what *)
(* it has selected, but that it does not begin where it was asked to.       *)
LEMMA SelectStarting ==
  ASSUME NEW es \in Seq(Event), NEW start \in Nat \ {0}, StartsAt(es, start),
         NEW from \in Nat, NEW end \in Nat,
         NEW found, found = Select(es, from, end)
  PROVE  Ascending(found) /\ StartsAt(found, from) <=> from >= start \/ found = << >>
<1> DEFINE lo == IF from >= start THEN from - start + 1 ELSE 1
           hi == IF end - start + 1 <= Len(es) THEN end - start + 1 ELSE Len(es)
           n == IF lo <= hi THEN hi - lo + 1 ELSE 0
<1>1. DOMAIN es = 1 .. Len(es) /\ Len(es) \in Nat
  BY LenProperties
<1>2. \A i \in DOMAIN es : es[i].sequence = start + i - 1
  BY DEF StartsAt
<1>3. lo \in Nat \ {0} /\ hi \in Int /\ hi <= Len(es)
  BY <1>1
<1>4. /\ lo .. hi \subseteq DOMAIN es
      /\ \A i \in DOMAIN es :
           (es[i].sequence >= from /\ es[i].sequence <= end) <=> i \in lo .. hi
  BY <1>1, <1>2
<1>5. /\ lo = IF from >= start THEN from - start + 1 ELSE 1
      /\ n = IF lo <= hi THEN hi - lo + 1 ELSE 0
  OBVIOUS
<1>6. n \in Nat /\ \A k \in 1 .. n : lo + k - 1 \in DOMAIN es
  BY <1>1, <1>3
<1> HIDE DEF lo, hi, n
<1>7. DOMAIN found = 1 .. n /\ \A k \in 1 .. n : found[k] = es[lo + k - 1]
  <2>1. SideBySide(es, from, end, lo, hi, n)
    BY <1>3, <1>4, <1>5 DEF SideBySide
  <2>2. QED
    BY <2>1, SelectSlice
<1>8. found = [k \in DOMAIN found |-> found[k]]
  BY DEF Select
<1>9. \A k \in 1 .. n : found[k] = es[lo + k - 1]
  BY <1>7
<1>10. \A k \in 1 .. n : found[k].sequence = start + (lo + k - 1) - 1
  BY <1>2, <1>6, <1>9
<1>11. found \in Seq(Event) /\ Len(found) = n /\ DOMAIN found = 1 .. n
  <2>1. \A k \in 1 .. n : es[lo + k - 1] \in Event
    BY <1>6, ElementOfSeq
  <2>2. QED
    BY <1>7, <1>8, <1>6, <2>1, IsASeq, LenProperties
<1>12. Ascending(found)
  BY <1>3, <1>6, <1>10, <1>11 DEF Ascending
<1>13. CASE from >= start
  BY <1>3, <1>5, <1>6, <1>10, <1>11, <1>12, <1>13 DEF StartsAt
<1>14. CASE ~(from >= start)
  <2>1. CASE n = 0
    BY <1>11, <1>12, <2>1, EmptySeq DEF StartsAt
  <2>2. CASE n # 0
    <3>1. 1 \in 1 .. n /\ lo = 1
      BY <1>5, <1>6, <1>14, <2>2
    <3>2. 1 \in DOMAIN found /\ found[1].sequence = start
      BY <1>10, <1>11, <3>1
    <3>3. found # << >>
      BY <1>11, <2>2, EmptySeq
    <3>4. ~StartsAt(found, from)
      BY <1>14, <3>2 DEF StartsAt
    <3>5. QED
      BY <1>14, <3>3, <3>4
  <2>3. QED
    BY <2>1, <2>2
<1>15. QED
  BY <1>13, <1>14

(* In a file numbered from, from + 1, ... that is the number of its last.   *)
LEMMA MaxSequenceStarting ==
  ASSUME NEW es \in Seq(Event), NEW from \in Nat \ {0}, StartsAt(es, from), es # << >>
  PROVE  MaxSequence(es) + 1 = from + Len(es)
<1>1. DOMAIN es = 1 .. Len(es) /\ Len(es) \in Nat \ {0}
  BY LenProperties, EmptySeq
<1>2. Len(es) \in DOMAIN es
  BY <1>1
<1>3. \A i \in DOMAIN es : es[i].sequence = from + i - 1
  BY DEF StartsAt
<1>4. \A i \in DOMAIN es : es[i].sequence <= es[Len(es)].sequence
  BY <1>1, <1>2, <1>3
<1>5. MaxSequence(es) = es[Len(es)].sequence
  BY <1>2, <1>4, MaxSequenceFound
<1>6. QED
  BY <1>1, <1>2, <1>3, <1>5

FileType ==
  /\ lines \in Seq(Event \cup {Garbage})
  /\ tail \in Event \cup {NoTail, Prefix, Garbage}

(* A reader gets the complete lines and then the bytes after the last       *)
(* newline, if there are any.                                               *)
LEMMA WhatIsRead ==
  ASSUME FileType
  PROVE  /\ LinesRead \in Seq(Event \cup {Garbage})
         /\ Len(LinesRead) = Len(lines) + (IF tail = NoTail THEN 0 ELSE 1)
         /\ Len(lines) \in Nat
         /\ DOMAIN lines = 1 .. Len(lines)
         /\ DOMAIN LinesRead = 1 .. Len(LinesRead)
         /\ \A i \in DOMAIN lines : i \in DOMAIN LinesRead /\ LinesRead[i] = lines[i]
         /\ tail \in Event => LinesRead[Len(lines) + 1] = tail
         /\ tail \in {Prefix, Garbage} => LinesRead[Len(lines) + 1] = Garbage
<1> USE PersistentAssumption DEF FileType
<1>1. Len(lines) \in Nat /\ DOMAIN lines = 1 .. Len(lines)
  BY LenProperties
<1>2. CASE tail = NoTail
  BY <1>1, <1>2 DEF LinesRead
<1>3. CASE tail # NoTail
  <2> DEFINE last == IF tail \in Event THEN tail ELSE Garbage
  <2>1. LinesRead = Append(lines, last) /\ last \in Event \cup {Garbage}
    BY <1>3 DEF LinesRead
  <2>2. tail \in Event => last = tail
    OBVIOUS
  <2>3. tail \in {Prefix, Garbage} => last = Garbage
    OBVIOUS
  <2> HIDE DEF last
  <2>4. QED
    BY <1>1, <1>3, <2>1, <2>2, <2>3, PushedLast
<1>4. QED
  BY <1>2, <1>3

(* Nothing is read of an empty file only.                                   *)
LEMMA NothingRead ==
  ASSUME FileType
  PROVE  /\ LinesRead = << >> <=> Len(LinesRead) = 0
         /\ LinesRead = << >> <=> Len(lines) = 0 /\ tail = NoTail
         /\ Len(LinesRead) \in Nat
         /\ Broken => LinesRead # << >>
         /\ \A i \in DOMAIN lines : LinesRead # << >>
<1>1. /\ LinesRead \in Seq(Event \cup {Garbage})
      /\ Len(LinesRead) = Len(lines) + (IF tail = NoTail THEN 0 ELSE 1)
      /\ Len(lines) \in Nat
      /\ DOMAIN lines = 1 .. Len(lines)
  BY WhatIsRead
<1> DEFINE es == LinesRead
<1>2. es \in Seq(Event \cup {Garbage})
  BY <1>1
<1> HIDE DEF es
<1>3. Len(es) \in Nat /\ (es = << >> <=> Len(es) = 0)
  BY <1>2, LenProperties, EmptySeq
<1>4. Len(LinesRead) \in Nat /\ (LinesRead = << >> <=> Len(LinesRead) = 0)
  BY <1>3 DEF es
<1>5. LinesRead = << >> <=> Len(lines) = 0 /\ tail = NoTail
  BY <1>1, <1>4
<1>6. \A i \in DOMAIN lines : LinesRead # << >>
  BY <1>1, <1>5
<1>7. Broken => LinesRead # << >>
  BY <1>5, <1>6, PersistentAssumption DEF Broken
<1>8. QED
  BY <1>4, <1>5, <1>6, <1>7

(* A file that can be read is not broken, and what is read is its events.   *)
LEMMA ReadableFile ==
  ASSUME FileType, Readable(LinesRead)
  PROVE  /\ ~Broken
         /\ tail \in Event \cup {NoTail}
         /\ LinesRead \in Seq(Event)
         /\ \A i \in DOMAIN LinesRead : LinesRead[i] \in Kept
         /\ \A e \in Kept : \E i \in DOMAIN LinesRead : LinesRead[i] = e
<1> USE PersistentAssumption
<1>1. /\ LinesRead \in Seq(Event \cup {Garbage})
      /\ Len(LinesRead) = Len(lines) + (IF tail = NoTail THEN 0 ELSE 1)
      /\ Len(lines) \in Nat
      /\ DOMAIN lines = 1 .. Len(lines)
      /\ DOMAIN LinesRead = 1 .. Len(LinesRead)
      /\ \A i \in DOMAIN lines : i \in DOMAIN LinesRead /\ LinesRead[i] = lines[i]
      /\ tail \in Event => LinesRead[Len(lines) + 1] = tail
      /\ tail \in {Prefix, Garbage} => LinesRead[Len(lines) + 1] = Garbage
  BY WhatIsRead
<1>2. tail \notin {Prefix, Garbage}
  BY <1>1 DEF Readable
<1>3. tail \in Event \cup {NoTail}
  BY <1>2 DEF FileType
<1>4. ~Broken
  BY <1>1, <1>2 DEF Broken, Readable
<1>5. \A i \in DOMAIN LinesRead : LinesRead[i] \in Event
  <2>1. \A i \in 1 .. Len(LinesRead) : LinesRead[i] \in Event \cup {Garbage}
    BY <1>1, ElementOfSeq
  <2>2. QED
    BY <1>1, <2>1 DEF Readable
<1>6. LinesRead \in Seq(Event)
  <2> DEFINE es == LinesRead
  <2>1. es \in [1 .. Len(es) -> Event \cup {Garbage}] /\ Len(es) \in Nat
    BY <1>1, LenProperties
  <2>2. \A i \in 1 .. Len(es) : es[i] \in Event
    BY <1>1, <1>5
  <2> HIDE DEF es
  <2>3. es = [i \in 1 .. Len(es) |-> es[i]]
    BY <2>1
  <2>4. [i \in 1 .. Len(es) |-> es[i]] \in Seq(Event)
    BY <2>1, <2>2
  <2>5. es \in Seq(Event)
    BY <2>3, <2>4
  <2>6. QED
    BY <2>5 DEF es
<1>7. \A i \in DOMAIN LinesRead : i \in DOMAIN lines \/ (i = Len(lines) + 1 /\ tail \in Event)
  BY <1>1, <1>3
<1>8. \A i \in DOMAIN LinesRead : LinesRead[i] \in Kept
  BY <1>1, <1>5, <1>7 DEF Kept
<1>9. \A e \in Kept : \E i \in DOMAIN LinesRead : LinesRead[i] = e
  <2> SUFFICES ASSUME NEW e \in Kept PROVE \E i \in DOMAIN LinesRead : LinesRead[i] = e
    OBVIOUS
  <2>1. CASE \E i \in DOMAIN lines : lines[i] = e
    BY <1>1, <2>1
  <2>2. CASE tail = e
    <3>1. tail \in Event /\ tail # NoTail
      BY <2>2 DEF Kept
    <3>2. Len(lines) + 1 \in DOMAIN LinesRead
      BY <1>1, <3>1
    <3>3. QED
      BY <1>1, <2>2, <3>1, <3>2
  <2>3. QED
    BY <2>1, <2>2 DEF Kept
<1>10. QED
  BY <1>3, <1>4, <1>6, <1>8, <1>9

(* scan_log finds a sequence past every event in the file, and one that the *)
(* file reaches.                                                            *)
LEMMA Scanned ==
  ASSUME FileType, Readable(LinesRead), FileInv
  PROVE  /\ ScanLog \in Metas
         /\ Kept # {} => Len(LinesRead) > 0
         /\ \A e \in Kept : e.sequence < ScanLog.next_sequence
         /\ Reaches(ScanLog.next_sequence - 1)
<1> DEFINE es == LinesRead
<1>1. /\ ~Broken
      /\ es \in Seq(Event)
      /\ \A i \in DOMAIN es : es[i] \in Kept
      /\ \A e \in Kept : \E i \in DOMAIN es : es[i] = e
  BY ReadableFile
<1>2. Len(es) \in Nat /\ DOMAIN es = 1 .. Len(es)
  BY <1>1, LenProperties
<1>3. \A e \in Kept : e.sequence \in Nat \ {0}
  BY DEF Kept, Event
<1>4. ScanLog = Meta(MaxSequence(es) + 1, Len(es))
  BY DEF ScanLog
<1> HIDE DEF es
<1>5. CASE Kept = {}
  <2>1. es = << >>
    <3>1. Len(es) = 0
      <4>1. 1 \notin DOMAIN es
        BY <1>1, <1>5
      <4>2. QED
        BY <1>2, <4>1
    <3>2. QED
      BY <1>1, <3>1, EmptySeq
  <2>2. MaxSequence(es) = 0 /\ Len(es) = 0
    BY <2>1, EmptySeq DEF MaxSequence
  <2>3. QED
    BY <1>4, <1>5, <2>2 DEF Meta, Metas, Reaches
<1>6. CASE Kept # {}
  <2>1. PICK e \in Kept : \A d \in Kept : d.sequence <= e.sequence
    BY <1>1, <1>6 DEF FileInv
  <2>2. PICK top \in DOMAIN es : es[top] = e
    BY <1>1
  <2>3. MaxSequence(es) = e.sequence
    <3>1. \A i \in DOMAIN es : es[i].sequence <= es[top].sequence
      BY <1>1, <2>1, <2>2
    <3>2. QED
      BY <1>1, <2>2, <3>1, MaxSequenceFound
  <2>4. e.sequence \in Nat \ {0} /\ Len(es) \in Nat \ {0}
    BY <1>2, <1>3, <2>2
  <2>5. ScanLog.next_sequence = e.sequence + 1 /\ ScanLog.event_count = Len(es)
    BY <1>4, <2>3 DEF Meta
  <2>6. ScanLog \in Metas /\ Len(es) > 0
    BY <1>4, <2>3, <2>4 DEF Meta, Metas
  <2>7. \A d \in Kept : d.sequence < ScanLog.next_sequence
    BY <1>3, <2>1, <2>4, <2>5
  <2>8. Reaches(ScanLog.next_sequence - 1)
    BY <2>4, <2>5 DEF Reaches
  <2>9. QED
    BY <2>6, <2>7, <2>8 DEF es
<1>7. QED
  BY <1>5, <1>6

(* Whatever meta.json says, open numbers past every event in the file.      *)
LEMMA Resolved ==
  ASSUME TypeOK, FileInv, ~log_exists \/ Readable(LinesRead)
  PROVE  /\ ResolvedMeta \in Metas
         /\ \A e \in Kept : e.sequence < ResolvedMeta.next_sequence
         /\ ResolvedMeta.event_count = 0 \/ Reaches(ResolvedMeta.next_sequence - 1)
         /\ Kept # {} => Len(LinesRead) > 0
         /\ ~Broken
<1> USE PersistentAssumption
<1>1. meta_file # NoMeta => meta_file \in Metas
  BY DEF TypeOK
<1>2. CASE log_exists
  <2>1. FileType /\ Readable(LinesRead)
    BY <1>2 DEF TypeOK, FileType
  <2>2. /\ ScanLog \in Metas
        /\ Kept # {} => Len(LinesRead) > 0
        /\ \A e \in Kept : e.sequence < ScanLog.next_sequence
        /\ Reaches(ScanLog.next_sequence - 1)
        /\ ~Broken
    BY <2>1, Scanned, ReadableFile
  <2>3. ResolvedMeta = ScanLog \/
          (meta_file # NoMeta /\ ResolvedMeta = meta_file
             /\ meta_file.next_sequence = ScanLog.next_sequence)
    BY <1>2 DEF ResolvedMeta
  <2>4. QED
    BY <1>1, <2>2, <2>3
<1>3. CASE ~log_exists
  <2>1. lines = << >> /\ tail = NoTail
    BY <1>3 DEF FileInv
  <2>2. DOMAIN lines = {}
    BY <2>1
  <2>3. Kept = {} /\ ~Broken
    BY <2>1, <2>2 DEF Kept, Broken
  <2>4. ResolvedMeta = Meta(1, 0) \/
          (meta_file # NoMeta /\ ResolvedMeta = meta_file /\ meta_file.event_count = 0)
    BY <1>3 DEF ResolvedMeta
  <2>5. ResolvedMeta \in Metas /\ ResolvedMeta.event_count = 0
    BY <1>1, <2>4 DEF Meta, Metas
  <2>6. QED
    BY <2>3, <2>5
<1>4. QED
  BY <1>2, <1>3

-----------------------------------------------------------------------------
(* Writing the file *)

(* A file that gets one event more, or is broken, keeps what it has.        *)
LEMMA Grown ==
  ASSUME Broken \/ Kept = {} \/ \E e \in Kept : \A d \in Kept : d.sequence <= e.sequence,
         Broken => Broken',
         Broken' \/ Kept' = Kept \/ \E x \in Event : Kept' = Kept \cup {x}
  PROVE  /\ (Broken \/ Kept = {} \/ \E e \in Kept : \A d \in Kept : d.sequence <= e.sequence)'
         /\ \A n \in Nat : Reaches(n) => Reaches(n)'
<1>1. \A e \in Kept : e.sequence \in Nat
  BY DEF Kept, Event
<1>2. \A n \in Nat : Reaches(n) => Reaches(n)'
  BY DEF Reaches
<1>3. CASE Broken'
  BY <1>2, <1>3
<1>4. CASE ~Broken' /\ Kept' = Kept
  BY <1>2, <1>4
<1>5. ASSUME ~Broken', NEW x \in Event, Kept' = Kept \cup {x}
      PROVE  \E e \in Kept' : \A d \in Kept' : d.sequence <= e.sequence
  <2>1. x.sequence \in Nat
    BY DEF Event
  <2>2. CASE Kept = {}
    BY <1>5, <2>1, <2>2
  <2>3. CASE Kept # {}
    <3>1. PICK e \in Kept : \A d \in Kept : d.sequence <= e.sequence
      BY <1>5, <2>3
    <3>2. CASE x.sequence <= e.sequence
      BY <1>1, <1>5, <3>1, <3>2
    <3>3. CASE ~(x.sequence <= e.sequence)
      <4>1. \A d \in Kept' : d.sequence <= x.sequence
        BY <1>1, <1>5, <2>1, <3>1, <3>3
      <4>2. QED
        BY <1>5, <4>1
    <3>4. QED
      BY <3>2, <3>3
  <2>4. QED
    BY <2>2, <2>3
<1>6. QED
  BY <1>2, <1>3, <1>4, <1>5

(* The line a piece completes is its event, unless the file ended in        *)
(* something else: then it is none, and the file is broken.                 *)
LEMMA Completed ==
  ASSUME TypeOK, BufferInv, buffer # << >>
  PROVE  /\ Head(buffer) = buffer[1]
         /\ 1 \in DOMAIN buffer
         /\ buffer[1] \in Pieces
         /\ CompletedLine(buffer[1]) \in {buffer[1].event, Garbage}
         /\ tail \in Event /\ CompletedLine(buffer[1]) # Garbage =>
              tail = buffer[1].event /\ buffer[1].rest = "newline"
         /\ CompletedLine(buffer[1]) # Garbage => tail # Garbage
<1> USE PersistentAssumption
<1>1. Head(buffer) = buffer[1] /\ 1 \in DOMAIN buffer /\ buffer[1] \in Pieces
  <2>1. Len(buffer) \in Nat \ {0} /\ DOMAIN buffer = 1 .. Len(buffer)
    BY EmptySeq, LenProperties DEF TypeOK
  <2>2. QED
    BY <2>1, ElementOfSeq DEF TypeOK
<1>2. buffer[1].rest = "newline" => tail \in {buffer[1].event, Garbage}
  BY <1>1 DEF BufferInv
<1>3. CASE buffer[1].rest = "newline"
  BY <1>1, <1>2, <1>3 DEF CompletedLine
<1>4. CASE buffer[1].rest # "newline"
  BY <1>1, <1>4 DEF CompletedLine
<1>5. QED
  BY <1>1, <1>3, <1>4

(* What writing a whole piece to the file does to it. *)
LEMMA PieceWritten ==
  ASSUME TypeOK, BufferInv, FileInv, buffer # << >>, WritePiece
  PROVE  /\ lines' \in Seq(Event \cup {Garbage}) /\ tail' = NoTail
         /\ buffer' \in Seq(Pieces) /\ Len(buffer') = Len(buffer) - 1
         /\ \A i \in DOMAIN buffer' : i + 1 \in DOMAIN buffer /\ buffer'[i] = buffer[i + 1]
         /\ BufferInv'
         /\ Broken => Broken'
         /\ \A e : Stored(e) => Stored(e)'
         /\ \A e : e = buffer[1].event => Stored(e)'
         /\ (Broken \/ Kept = {} \/ \E e \in Kept : \A d \in Kept : d.sequence <= e.sequence)'
         /\ \A n \in Nat : Reaches(n) => Reaches(n)'
<1> USE PersistentAssumption
<1> DEFINE line == CompletedLine(buffer[1])
<1>1. /\ Head(buffer) = buffer[1] /\ buffer[1] \in Pieces
      /\ line \in {buffer[1].event, Garbage}
      /\ tail \in Event /\ line # Garbage => tail = buffer[1].event
      /\ line # Garbage => tail # Garbage
  BY Completed
<1>2. buffer[1].event \in Event
  BY <1>1 DEF Pieces
<1>3. lines' = Append(lines, line) /\ tail' = NoTail /\ buffer' = Tail(buffer)
  BY <1>1 DEF WritePiece
<1> HIDE DEF line
<1>4. /\ lines' \in Seq(Event \cup {Garbage})
      /\ Len(lines) \in Nat
      /\ DOMAIN lines = 1 .. Len(lines) /\ DOMAIN lines' = 1 .. Len(lines) + 1
      /\ \A i \in 1 .. Len(lines) : lines'[i] = lines[i]
      /\ lines'[Len(lines) + 1] = line
  <2>1. line \in Event \cup {Garbage} /\ lines \in Seq(Event \cup {Garbage})
    BY <1>1, <1>2 DEF TypeOK
  <2>2. QED
    BY <1>3, <2>1, PushedLast
<1>5. /\ buffer' \in Seq(Pieces) /\ Len(buffer') = Len(buffer) - 1
      /\ \A i \in DOMAIN buffer' : i + 1 \in DOMAIN buffer /\ buffer'[i] = buffer[i + 1]
      /\ DOMAIN buffer' \subseteq Nat \ {0}
  <2>1. /\ Tail(buffer) \in Seq(Pieces) /\ Len(Tail(buffer)) = Len(buffer) - 1
        /\ \A i \in 1 .. Len(Tail(buffer)) : Tail(buffer)[i] = buffer[i + 1]
    BY HeadTailProperties DEF TypeOK
  <2>2. DOMAIN Tail(buffer) = 1 .. Len(Tail(buffer)) /\ Len(Tail(buffer)) \in Nat
    BY <2>1, LenProperties
  <2>3. DOMAIN buffer = 1 .. Len(buffer) /\ Len(buffer) \in Nat
    BY LenProperties DEF TypeOK
  <2>4. QED
    BY <1>3, <2>1, <2>2, <2>3
<1>6. BufferInv'
  BY <1>5 DEF BufferInv
<1>7. line = Garbage => Broken'
  BY <1>4 DEF Broken
<1>8. Broken => Broken'
  <2>1. CASE tail = Garbage
    BY <1>1, <1>7, <2>1
  <2>2. CASE \E i \in DOMAIN lines : lines[i] = Garbage
    BY <1>4, <2>2 DEF Broken
  <2>3. QED
    BY <2>1, <2>2 DEF Broken
<1>9. \A e : Stored(e) => Stored(e)'
  BY <1>4, <1>8 DEF Stored
<1>10. ASSUME NEW e, e = buffer[1].event PROVE Stored(e)'
  <2>1. CASE line = Garbage
    BY <1>7, <2>1 DEF Stored
  <2>2. CASE line = buffer[1].event
    <3>1. \E i \in DOMAIN lines' : lines'[i] = e
      BY <1>4, <1>10, <2>2
    <3>2. QED
      BY <3>1 DEF Stored
  <2>3. QED
    BY <1>1, <2>1, <2>2
<1>11. Broken' \/ \E x \in Event : Kept' = Kept \cup {x}
  <2>1. CASE line = Garbage
    BY <1>7, <2>1
  <2>2. CASE line # Garbage
    <3>1. line = buffer[1].event /\ line \in Event /\ (tail \in Event => tail = line)
      BY <1>1, <1>2, <2>2
    <3>2. {lines'[i] : i \in DOMAIN lines'} = {lines[i] : i \in DOMAIN lines} \cup {line}
      BY <1>4
    <3>3. Kept' = Kept \cup {line}
      BY <1>3, <3>1, <3>2 DEF Kept
    <3>4. QED
      BY <3>1, <3>3
  <2>3. QED
    BY <2>1, <2>2
<1>12. /\ (Broken \/ Kept = {} \/ \E e \in Kept : \A d \in Kept : d.sequence <= e.sequence)'
       /\ \A n \in Nat : Reaches(n) => Reaches(n)'
  BY <1>8, <1>11, Grown DEF FileInv
<1>13. QED
  BY <1>3, <1>4, <1>5, <1>6, <1>8, <1>9, <1>10, <1>12

(* What writing a part of one does. *)
LEMMA PartWritten ==
  ASSUME TypeOK, BufferInv, FileInv, buffer # << >>, WritePart, UNCHANGED lines
  PROVE  /\ tail' \in Event \cup {Prefix, Garbage}
         /\ buffer' \in Seq(Pieces) /\ Len(buffer') = Len(buffer)
         /\ \A i \in DOMAIN buffer' : i \in DOMAIN buffer /\ buffer'[i].event = buffer[i].event
         /\ buffer' # << >> /\ buffer'[1].rest # "line"
         /\ tail' = Prefix => buffer'[1].rest = "suffix"
         /\ tail' \in Event =>
              tail' = buffer[1].event /\ tail \in {NoTail, Prefix}
         /\ tail' # Garbage => tail = NoTail \/ buffer[1].rest = "suffix"
         /\ BufferInv'
         /\ Broken => Broken'
         /\ \A e : Stored(e) => Stored(e)'
         /\ (Broken \/ Kept = {} \/ \E e \in Kept : \A d \in Kept : d.sequence <= e.sequence)'
         /\ \A n \in Nat : Reaches(n) => Reaches(n)'
<1> USE PersistentAssumption
<1>1. Head(buffer) = buffer[1] /\ 1 \in DOMAIN buffer /\ buffer[1] \in Pieces
  BY Completed
<1>2. buffer[1].event \in Event
  BY <1>1 DEF Pieces
<1>3. PICK r \in {"suffix", "newline"} :
        /\ buffer[1].rest \in {"line", "suffix"}
        /\ buffer' = << Piece(buffer[1].event, r) >> \o Tail(buffer)
        /\ r = "suffix" => /\ buffer[1].rest = "line"
                           /\ tail' = IF tail = NoTail THEN Prefix ELSE Garbage
        /\ r = "newline" =>
             tail' = IF CompletedLine(buffer[1]) = Garbage THEN Garbage ELSE buffer[1].event
  BY <1>1 DEF WritePart
<1>4. CompletedLine(buffer[1]) # Garbage =>
        tail = IF buffer[1].rest = "line" THEN NoTail ELSE Prefix
  BY <1>3 DEF CompletedLine
<1>5. /\ r = "suffix" => tail' \in {Prefix, Garbage}
      /\ r = "newline" => tail' \in {buffer[1].event, Garbage}
      /\ tail' = Prefix => tail = NoTail /\ r = "suffix"
      /\ tail' = buffer[1].event => tail \in {NoTail, Prefix}
      /\ tail = Garbage => tail' = Garbage
      /\ tail' # Garbage => tail = NoTail \/ buffer[1].rest = "suffix"
  BY <1>2, <1>3, <1>4
<1>6. /\ buffer' \in Seq(Pieces) /\ Len(buffer') = Len(buffer)
      /\ DOMAIN buffer' = 1 .. Len(buffer) /\ Len(buffer) \in Nat \ {0}
      /\ DOMAIN buffer = 1 .. Len(buffer)
      /\ buffer'[1] = Piece(buffer[1].event, r)
      /\ \A i \in 2 .. Len(buffer) : buffer'[i] = buffer[i]
  <2> DEFINE begun == << Piece(buffer[1].event, r) >>
             rest == Tail(buffer)
  <2>1. Piece(buffer[1].event, r) \in Pieces
    BY <1>2 DEF Piece, Pieces
  <2>2. begun \in Seq(Pieces) /\ Len(begun) = 1 /\ begun[1] = Piece(buffer[1].event, r)
    BY <2>1
  <2>3. /\ rest \in Seq(Pieces) /\ Len(rest) = Len(buffer) - 1
        /\ \A i \in 1 .. Len(rest) : rest[i] = buffer[i + 1]
    BY HeadTailProperties DEF TypeOK
  <2>4. Len(buffer) \in Nat \ {0} /\ DOMAIN buffer = 1 .. Len(buffer)
    BY EmptySeq, LenProperties DEF TypeOK
  <2>5. buffer' = begun \o rest
    BY <1>3
  <2> HIDE DEF begun, rest
  <2>6. /\ begun \o rest \in Seq(Pieces)
        /\ Len(begun \o rest) = Len(begun) + Len(rest)
        /\ \A i \in 1 .. Len(begun) + Len(rest) :
             (begun \o rest)[i] = IF i <= Len(begun) THEN begun[i] ELSE rest[i - Len(begun)]
    BY <2>2, <2>3, ConcatProperties
  <2>7. /\ buffer' \in Seq(Pieces) /\ Len(buffer') = Len(buffer)
        /\ \A i \in 1 .. Len(buffer) :
             buffer'[i] = IF i <= 1 THEN begun[i] ELSE rest[i - 1]
    BY <2>2, <2>3, <2>4, <2>5, <2>6
  <2>8. DOMAIN buffer' = 1 .. Len(buffer)
    BY <2>7, LenProperties
  <2>9. \A i \in 2 .. Len(buffer) : buffer'[i] = buffer[i]
    <3> SUFFICES ASSUME NEW i \in 2 .. Len(buffer) PROVE buffer'[i] = buffer[i]
      OBVIOUS
    <3>1. i - 1 \in 1 .. Len(rest) /\ (i - 1) + 1 = i
      BY <2>3, <2>4
    <3>2. rest[i - 1] = buffer[i]
      BY <2>3, <3>1
    <3>3. QED
      BY <2>4, <2>7, <3>2
  <2>10. QED
    BY <2>2, <2>4, <2>7, <2>8, <2>9
<1>7. buffer'[1].rest = r /\ buffer'[1].event = buffer[1].event
  BY <1>6 DEF Piece
<1>8. \A i \in DOMAIN buffer' : i \in DOMAIN buffer /\ buffer'[i].event = buffer[i].event
  BY <1>6, <1>7
<1>9. BufferInv'
  <2> SUFFICES ASSUME NEW i \in DOMAIN buffer'
               PROVE  /\ buffer'[i].rest # "line" => i = 1
                      /\ buffer'[i].rest = "suffix" => tail' \in {Prefix, Garbage}
                      /\ buffer'[i].rest = "newline" => tail' \in {buffer'[i].event, Garbage}
    BY DEF BufferInv
  <2>1. CASE i = 1
    BY <1>5, <1>7, <2>1
  <2>2. CASE i # 1
    BY <1>6, <2>2 DEF BufferInv
  <2>3. QED
    BY <2>1, <2>2
<1>10. Broken => Broken'
  BY <1>5 DEF Broken
<1>11. \A e : Stored(e) => Stored(e)'
  BY <1>10 DEF Stored
<1>12. Broken' \/ Kept' = Kept \/ \E x \in Event : Kept' = Kept \cup {x}
  <2>1. CASE tail' = Garbage
    BY <2>1 DEF Broken
  <2>2. CASE tail' = Prefix
    <3>1. Kept' = Kept
      BY <1>5, <2>2 DEF Kept
    <3>2. QED
      BY <3>1
  <2>3. CASE tail' = buffer[1].event
    <3>1. Kept' = Kept \cup {buffer[1].event}
      BY <1>2, <1>5, <2>3 DEF Kept
    <3>2. QED
      BY <1>2, <3>1
  <2>4. QED
    BY <1>5, <2>1, <2>2, <2>3
<1>13. /\ (Broken \/ Kept = {} \/ \E e \in Kept : \A d \in Kept : d.sequence <= e.sequence)'
       /\ \A n \in Nat : Reaches(n) => Reaches(n)'
  BY <1>10, <1>12, Grown DEF FileInv
<1>14. tail' \in Event \cup {Prefix, Garbage}
  BY <1>2, <1>5
<1>15. tail' \in Event => tail' = buffer[1].event /\ tail \in {NoTail, Prefix}
  BY <1>5
<1>16. buffer' # << >>
  BY <1>6, EmptySeq
<1>17. QED
  BY <1>5, <1>6, <1>7, <1>8, <1>9, <1>10, <1>11, <1>13, <1>14, <1>15, <1>16

-----------------------------------------------------------------------------
(* Types and the mutex *)

(* The arguments of a call have their types. *)
LEMMA RequestArguments ==
  ASSUME NEW r \in Promise!Requests \cup {Promise!NoRequest}
  PROVE  /\ r.op = "append" => r.payload \in Payloads
         /\ r.op = "replay" => r.from \in StartSequences
<1>1. CASE r \in [op : {"append"}, payload : Payloads]
  BY <1>1
<1>2. CASE r \in [op : {"replay"}, from : StartSequences]
  BY <1>2
<1>3. CASE r \in [op : {"len", "next_sequence"}] \cup {Promise!NoRequest}
  BY <1>3 DEF Promise!NoRequest
<1>4. QED
  BY <1>1, <1>2, <1>3 DEF Promise!Requests

(* The event of an append in progress is an event.                          *)
LEMMA AppendIsEvent ==
  ASSUME TypeOK, AppendInv, NEW c \in Clients, pc[c] \in {"append", "flush", "persist"}
  PROVE  /\ request[c].op = "append" /\ request[c].payload \in Payloads
         /\ [sequence |-> meta.next_sequence, payload |-> request[c].payload] \in Event
         /\ meta.next_sequence \in Nat \ {0} /\ meta.event_count \in Nat
<1>1. request[c].op = "append" /\ request[c].payload \in Payloads
  BY RequestArguments DEF TypeOK, AppendInv, AppendSteps
<1>2. meta.next_sequence \in Nat \ {0} /\ meta.event_count \in Nat
  BY DEF TypeOK, Metas
<1>3. QED
  BY <1>1, <1>2 DEF Event

(* Every step keeps the types, and the mutex with the thread that is inside. *)
LEMMA StepType == IInv /\ [Next]_vars => TypeOK' /\ (reply = [c \in Clients |-> reply[c]])'
<1> SUFFICES ASSUME IInv, [Next]_vars
             PROVE  TypeOK' /\ (reply = [c \in Clients |-> reply[c]])'
  OBVIOUS
<1> USE PersistentAssumption DEF opened
<1>1. /\ TypeOK /\ BufferInv /\ FileInv /\ AppendInv /\ MetaInv
      /\ reply = [c \in Clients |-> reply[c]]
  BY DEF IInv
<1> DEFINE Goal == TypeOK' /\ (reply = [c \in Clients |-> reply[c]])'
<1>2. ASSUME OpenScan PROVE Goal
  <2>1. ResolvedMeta \in Metas
    BY <1>1, <1>2, Resolved DEF OpenScan
  <2>2. Len(LinesRead) \in Nat
    BY <1>1, WhatIsRead, LenProperties DEF TypeOK, FileType
  <2>3. first' \in Nat \ {0} /\ miscount' \in Int /\ undercounted' \in BOOLEAN
    BY <1>1, <1>2, <2>1, <2>2 DEF OpenScan, TypeOK, Metas
  <2>4. QED
    BY <1>1, <1>2, <2>1, <2>3 DEF OpenScan, TypeOK, disk, threads
<1>3. ASSUME OpenRefused \/ OpenRetry \/ OpenWriteMeta \/ Close PROVE Goal
  BY <1>1, <1>3 DEF OpenRefused, OpenRetry, OpenWriteMeta, Close, TypeOK, disk, threads
<1>4. ASSUME OpenCreateLog PROVE Goal
  <2>1. << >> \in Seq(Pieces)
    BY EmptySeq
  <2>2. QED
    BY <1>1, <1>4, <2>1 DEF OpenCreateLog, TypeOK, disk, threads
<1>5. ASSUME CloseWrite PROVE Goal
  <2>1. /\ lines' \in Seq(Event \cup {Garbage}) /\ tail' \in Event \cup {NoTail, Prefix, Garbage}
        /\ buffer' \in Seq(Pieces) /\ failures' \in 0 .. FlushFailures
    <3>1. CASE buffer # << >> /\ WritePiece /\ UNCHANGED failures
      BY <1>1, <3>1, PieceWritten DEF TypeOK
    <3>2. CASE buffer # << >> /\ WritePart /\ UNCHANGED <<lines, failures>>
      BY <1>1, <3>2, PartWritten DEF TypeOK
    <3>3. CASE failures > 0 /\ failures' = failures - 1 /\ buffer' = << >> /\ UNCHANGED <<lines, tail>>
      <4>1. << >> \in Seq(Pieces)
        BY EmptySeq
      <4>2. QED
        BY <1>1, <3>3, <4>1 DEF TypeOK
    <3>4. QED
      BY <1>1, <1>5, <3>1, <3>2, <3>3 DEF CloseWrite, FileInv
  <2>2. QED
    BY <1>1, <1>5, <2>1 DEF CloseWrite, TypeOK, threads
<1>6. ASSUME Crash PROVE Goal
  <2>1. << >> \in Seq(Pieces)
    BY EmptySeq
  <2>2. QED
    BY <1>1, <1>6, <2>1 DEF Crash, TypeOK, disk, AppendSteps, ReplaySteps
<1>7. ASSUME CorruptMeta PROVE Goal
  BY <1>1, <1>7 DEF CorruptMeta, TypeOK, threads
<1>8. ASSUME NEW c \in Clients, Call(c) PROVE Goal
  <2>1. PICK r \in Promise!Requests :
          request' = [request EXCEPT ![c] = r] /\ pc' = [pc EXCEPT ![c] = r.op]
    BY <1>8 DEF Call, Goto
  <2>2. r.op \in {"append", "replay", "len", "next_sequence"}
    BY DEF Promise!Requests
  <2>3. /\ pc' \in [Clients -> {"idle", "len", "next_sequence"} \cup AppendSteps \cup ReplaySteps]
        /\ \A d \in Clients : (meta_lock = d <=> pc'[d] \in {"flush", "persist"})
        /\ \A d \in Clients : pc'[d] # "idle" => status = "open"
    BY <1>1, <1>8, <2>1, <2>2 DEF Call, TypeOK, AppendSteps, ReplaySteps
  <2>4. QED
    BY <1>1, <1>8, <2>1, <2>3 DEF Call, TypeOK, disk
<1>9. ASSUME NEW c \in Clients,
             AppendBackpressure(c) \/ ReplayNothing(c) \/ ReplayScan(c) \/ Read(c)
      PROVE  Goal
  BY <1>1, <1>9 DEF AppendBackpressure, ReplayNothing, ReplayScan, Read, Return, Goto, TypeOK, disk,
                    AppendSteps, ReplaySteps
<1>10. ASSUME NEW c \in Clients, AppendBuffer(c) PROVE Goal
  <2> DEFINE event == [sequence |-> meta.next_sequence, payload |-> request[c].payload]
  <2>1. event \in Event /\ meta.next_sequence \in Nat
    BY <1>1, <1>10, AppendIsEvent DEF AppendBuffer
  <2>2. buffer' = Append(buffer, Piece(event, "line"))
    BY <1>10 DEF AppendBuffer
  <2> HIDE DEF event
  <2>3. buffer' \in Seq(Pieces)
    <3>1. Piece(event, "line") \in Pieces
      BY <2>1 DEF Piece, Pieces
    <3>2. QED
      BY <1>1, <2>2, <3>1, AppendProperties DEF TypeOK
  <2>4. QED
    BY <1>1, <1>10, <2>1, <2>3 DEF AppendBuffer, Goto, TypeOK, disk, AppendSteps, ReplaySteps
<1>11. ASSUME NEW c \in Clients, AppendFlush(c) PROVE Goal
  <2>1. /\ lines' \in Seq(Event \cup {Garbage}) /\ tail' \in Event \cup {NoTail, Prefix, Garbage}
        /\ buffer' \in Seq(Pieces)
    <3>1. CASE WritePiece
      BY <1>1, <1>11, <3>1, PieceWritten DEF AppendFlush
    <3>2. CASE WritePart /\ UNCHANGED lines
      BY <1>1, <1>11, <3>2, PartWritten DEF AppendFlush, TypeOK
    <3>3. QED
      BY <1>11, <3>1, <3>2 DEF AppendFlush
  <2>2. QED
    BY <1>1, <1>11, <2>1 DEF AppendFlush, TypeOK, threads
<1>12. ASSUME NEW c \in Clients, AppendFlushFails(c) PROVE Goal
  <2>1. failures' \in 0 .. FlushFailures
    BY <1>1, <1>12 DEF AppendFlushFails, TypeOK
  <2>2. /\ pc' \in [Clients -> {"idle", "len", "next_sequence"} \cup AppendSteps \cup ReplaySteps]
        /\ reply' = [d \in Clients |-> reply'[d]]
    BY <1>1, <1>12 DEF AppendFlushFails, Return, Goto, TypeOK, AppendSteps, ReplaySteps
  <2>3. \A d \in Clients : (meta_lock' = d <=> pc'[d] \in {"flush", "persist"})
    BY <1>1, <1>12 DEF AppendFlushFails, Return, Goto, TypeOK
  <2>4. \A d \in Clients : pc'[d] # "idle" => status = "open"
    BY <1>1, <1>12 DEF AppendFlushFails, Return, Goto, TypeOK
  <2>5. QED
    BY <1>1, <1>12, <2>1, <2>2, <2>3, <2>4 DEF AppendFlushFails, TypeOK, disk
<1>13. ASSUME NEW c \in Clients, AppendAdvance(c) PROVE Goal
  BY <1>1, <1>13 DEF AppendAdvance, Goto, TypeOK, Meta, Metas, disk, AppendSteps, ReplaySteps
<1>14. ASSUME NEW c \in Clients, AppendPersist(c) PROVE Goal
  <2>1. AppendOf(c) \in Event
    <3>1. /\ request[c].payload \in Payloads /\ meta.next_sequence \in Nat
          /\ mark[c] = meta.next_sequence - 1 /\ mark[c] \in Nat
      BY <1>1, <1>14, AppendIsEvent DEF AppendPersist, AppendInv, TypeOK
    <3>2. mark[c] # 0
      BY <1>1, <1>14 DEF AppendPersist, AppendInv
    <3>3. QED
      BY <3>1, <3>2 DEF AppendOf, Event
  <2>2. QED
    BY <1>1, <1>14, <2>1 DEF AppendPersist, AppendOf, Return, Goto, TypeOK, AppendSteps, ReplaySteps
<1>15. ASSUME NEW c \in Clients, ReplaySnapshot(c) PROVE Goal
  <2>1. PICK label \in {"nothing", "scan"} : pc' = [pc EXCEPT ![c] = label]
    BY <1>15 DEF ReplaySnapshot, Goto
  <2>2. mark' \in [Clients -> Nat]
    BY <1>1, <1>15 DEF ReplaySnapshot, TypeOK, Metas
  <2>3. /\ pc' \in [Clients -> {"idle", "len", "next_sequence"} \cup AppendSteps \cup ReplaySteps]
        /\ \A d \in Clients : (meta_lock = d <=> pc'[d] \in {"flush", "persist"})
        /\ \A d \in Clients : pc'[d] # "idle" => status = "open"
    BY <1>1, <1>15, <2>1 DEF ReplaySnapshot, TypeOK, ReplaySteps
  <2>4. QED
    BY <1>1, <1>15, <2>2, <2>3 DEF ReplaySnapshot, TypeOK, disk
<1>16. ASSUME UNCHANGED vars PROVE Goal
  BY <1>1, <1>16 DEF vars, disk, threads, TypeOK
<1>17. QED
  BY <1>2, <1>3, <1>4, <1>5, <1>6, <1>7, <1>8, <1>9, <1>10, <1>11, <1>12, <1>13, <1>14, <1>15, <1>16
  DEF Next, Open, Step

-----------------------------------------------------------------------------
(* The file and the buffer *)

(* What a step may do to the file: leave it, or write a piece or a part.    *)
LEMMA FileSteps ==
  ASSUME IInv, [Next]_vars
  PROVE  \/ UNCHANGED <<lines, tail>>
         \/ /\ buffer # << >>
            /\ status \in {"open", "closing"}
            /\ WritePiece \/ (WritePart /\ UNCHANGED lines)
<1>1. ASSUME CloseWrite PROVE status = "closing" /\ buffer # << >>
  BY <1>1 DEF CloseWrite, IInv, FileInv
<1>2. ASSUME NEW c \in Clients, AppendFlush(c) PROVE status = "open"
  BY <1>2 DEF AppendFlush, IInv, TypeOK
<1>3. ASSUME NEW c \in Clients, Step(c), ~AppendFlush(c) PROVE UNCHANGED <<lines, tail>>
  BY <1>3 DEF Step, AppendBackpressure, AppendBuffer, AppendFlushFails, AppendAdvance, AppendPersist,
              ReplaySnapshot, ReplayNothing, ReplayScan, Read, disk
<1>4. ASSUME OpenScan \/ OpenRefused \/ OpenRetry \/ OpenWriteMeta \/ OpenCreateLog \/ Close
               \/ Crash \/ CorruptMeta \/ (\E c \in Clients : Call(c)) \/ UNCHANGED vars
      PROVE  UNCHANGED <<lines, tail>>
  BY <1>4 DEF OpenScan, OpenRefused, OpenRetry, OpenWriteMeta, OpenCreateLog, Close, Crash,
              CorruptMeta, Call, vars, disk
<1>5. QED
  BY <1>1, <1>2, <1>3, <1>4 DEF Next, Open, CloseWrite, AppendFlush

(* No step takes anything away from the file, unless it breaks it for good. *)
LEMMA FileKeeps ==
  ASSUME IInv, [Next]_vars
  PROVE  /\ Broken => Broken'
         /\ \A e : Stored(e) => Stored(e)'
         /\ \A n \in Nat : Reaches(n) => Reaches(n)'
         /\ (Broken \/ Kept = {} \/ \E e \in Kept : \A d \in Kept : d.sequence <= e.sequence)'
<1>1. TypeOK /\ BufferInv /\ FileInv
  BY DEF IInv
<1>2. CASE UNCHANGED <<lines, tail>>
  BY <1>1, <1>2 DEF Broken, Stored, Reaches, Kept, FileInv
<1>3. CASE buffer # << >> /\ WritePiece
  BY <1>1, <1>3, PieceWritten
<1>4. CASE buffer # << >> /\ WritePart /\ UNCHANGED lines
  BY <1>1, <1>4, PartWritten
<1>5. QED
  BY <1>2, <1>3, <1>4, FileSteps

(* Every step keeps what the buffer has begun to write, and the greatest    *)
(* event last.                                                              *)
LEMMA StepFile == IInv /\ [Next]_vars => BufferInv' /\ FileInv'
<1> SUFFICES ASSUME IInv, [Next]_vars PROVE BufferInv' /\ FileInv'
  OBVIOUS
<1>1. TypeOK /\ BufferInv /\ FileInv
  BY DEF IInv
<1>2. BufferInv'
  <2>1. CASE buffer # << >> /\ WritePiece
    BY <1>1, <2>1, PieceWritten
  <2>2. CASE buffer # << >> /\ WritePart /\ UNCHANGED lines
    BY <1>1, <2>2, PartWritten
  <2>3. CASE buffer' = << >>
    BY <2>3 DEF BufferInv
  <2>4. CASE UNCHANGED <<tail, buffer>>
    BY <1>1, <2>4 DEF BufferInv
  <2>5. ASSUME NEW c \in Clients, AppendBuffer(c) PROVE BufferInv'
    <3> DEFINE new == Piece([sequence |-> meta.next_sequence, payload |-> request[c].payload], "line")
    <3>1. new \in Pieces /\ new.rest = "line"
      <4>1. [sequence |-> meta.next_sequence, payload |-> request[c].payload] \in Event
        BY <1>1, <2>5, AppendIsEvent DEF AppendBuffer, IInv
      <4>2. QED
        BY <4>1 DEF Piece, Pieces
    <3>2. buffer' = Append(buffer, new) /\ UNCHANGED tail
      BY <2>5 DEF AppendBuffer, disk
    <3> HIDE DEF new
    <3>3. \A i \in DOMAIN buffer' :
            (i \in DOMAIN buffer /\ buffer'[i] = buffer[i]) \/ buffer'[i].rest = "line"
      BY <1>1, <3>1, <3>2, PushedLast DEF TypeOK
    <3>4. QED
      BY <1>1, <3>2, <3>3 DEF BufferInv
  <2>6. ASSUME NEW c \in Clients, Step(c), ~AppendFlush(c), ~AppendBuffer(c)
        PROVE  UNCHANGED <<tail, buffer>>
    BY <2>6 DEF Step, AppendBackpressure, AppendFlushFails, AppendAdvance, AppendPersist,
                ReplaySnapshot, ReplayNothing, ReplayScan, Read, disk
  <2>7. ASSUME OpenScan \/ OpenRefused \/ OpenRetry \/ OpenWriteMeta \/ Close
                 \/ CorruptMeta \/ (\E c \in Clients : Call(c)) \/ UNCHANGED vars
        PROVE  UNCHANGED <<tail, buffer>>
    BY <2>7 DEF OpenScan, OpenRefused, OpenRetry, OpenWriteMeta, Close, CorruptMeta, Call, vars, disk
  <2>8. ASSUME OpenCreateLog \/ Crash PROVE buffer' = << >>
    BY <2>8 DEF OpenCreateLog, Crash
  <2>9. ASSUME CloseWrite PROVE buffer # << >>
    BY <1>1, <2>9 DEF CloseWrite, FileInv
  <2>10. QED
    BY <2>1, <2>2, <2>3, <2>4, <2>5, <2>6, <2>7, <2>8, <2>9 DEF Next, Open, CloseWrite, AppendFlush
<1>3. (Broken \/ Kept = {} \/ \E e \in Kept : \A d \in Kept : d.sequence <= e.sequence)'
  BY FileKeeps
<1>4. (log_exists \/ (lines = << >> /\ tail = NoTail /\ status \notin {"open", "closing"}))'
  <2>1. log_exists => log_exists'
    <3>1. ASSUME NEW c \in Clients, Step(c) PROVE UNCHANGED log_exists
      BY <3>1 DEF Step, AppendBackpressure, AppendBuffer, AppendFlush, AppendFlushFails,
                  AppendAdvance, AppendPersist, ReplaySnapshot, ReplayNothing, ReplayScan, Read, disk
    <3>2. QED
      BY <3>1 DEF Next, Open, OpenScan, OpenRefused, OpenRetry, OpenWriteMeta, OpenCreateLog, Close,
                  CloseWrite, Crash, CorruptMeta, Call, vars, disk
  <2>2. ~log_exists => UNCHANGED <<lines, tail>>
    BY <1>1, FileSteps DEF FileInv
  <2>3. ~log_exists /\ ~log_exists' => status' \notin {"open", "closing"}
    <3>1. ASSUME NEW c \in Clients, Step(c) PROVE UNCHANGED status
      BY <3>1 DEF Step, AppendBackpressure, AppendBuffer, AppendFlush, AppendFlushFails,
                  AppendAdvance, AppendPersist, ReplaySnapshot, ReplayNothing, ReplayScan, Read
    <3>2. QED
      BY <1>1, <3>1 DEF FileInv, Next, Open, OpenScan, OpenRefused, OpenRetry, OpenWriteMeta,
                  OpenCreateLog, Close, CloseWrite, Crash, CorruptMeta, Call, vars
  <2>4. QED
    BY <1>1, <2>1, <2>2, <2>3 DEF FileInv
<1>5. (status = "closing" => buffer # << >>)'
  <2>1. ASSUME NEW c \in Clients, Step(c) \/ Call(c) PROVE status' = "open"
    <3>1. pc[c] # "idle" \/ status = "open"
      BY <2>1 DEF Call, Step, AppendBackpressure, AppendBuffer, AppendFlush, AppendFlushFails,
                  AppendAdvance, AppendPersist, ReplaySnapshot, ReplayNothing, ReplayScan, Read
    <3>2. status = "open"
      BY <1>1, <3>1 DEF TypeOK
    <3>3. QED
      BY <2>1, <3>2 DEF Call, Step, AppendBackpressure, AppendBuffer, AppendFlush, AppendFlushFails,
                  AppendAdvance, AppendPersist, ReplaySnapshot, ReplayNothing, ReplayScan, Read
  <2>2. ASSUME Close \/ CloseWrite \/ CorruptMeta \/ UNCHANGED vars
        PROVE  (status = "closing" => buffer # << >>)'
    BY <1>1, <2>2 DEF Close, CloseWrite, CorruptMeta, FileInv, vars
  <2>3. ASSUME OpenScan \/ OpenRefused \/ OpenRetry \/ OpenWriteMeta \/ OpenCreateLog \/ Crash
        PROVE  status' # "closing"
    BY <2>3 DEF OpenScan, OpenRefused, OpenRetry, OpenWriteMeta, OpenCreateLog, Crash
  <2>4. QED
    BY <2>1, <2>2, <2>3 DEF Next, Open
<1>6. QED
  BY <1>2, <1>3, <1>4, <1>5 DEF FileInv

-----------------------------------------------------------------------------
(* Appends in progress *)

(* A step leaves every thread idle, is a thread's own, or touches nothing   *)
(* the threads look at.                                                     *)
LEMMA ThreadSteps ==
  ASSUME IInv, [Next]_vars
  PROVE  \/ threads' = threads /\ UNCHANGED <<lines, tail, meta, buffer>>
         \/ \A c \in Clients : pc'[c] = "idle"
         \/ \E c \in Clients : Call(c) \/ Step(c)
<1>1. ASSUME OpenScan \/ OpenCreateLog \/ CloseWrite PROVE \A c \in Clients : pc'[c] = "idle"
  BY <1>1 DEF OpenScan, OpenCreateLog, CloseWrite, threads, IInv, TypeOK
<1>2. ASSUME Crash PROVE \A c \in Clients : pc'[c] = "idle"
  BY <1>2 DEF Crash
<1>3. ASSUME OpenRefused \/ OpenRetry \/ OpenWriteMeta \/ Close \/ CorruptMeta \/ UNCHANGED vars
      PROVE  threads' = threads /\ UNCHANGED <<lines, tail, meta, buffer>>
  BY <1>3 DEF OpenRefused, OpenRetry, OpenWriteMeta, Close, CorruptMeta, vars, disk
<1>4. QED
  BY <1>1, <1>2, <1>3 DEF Next, Open

(* Every step keeps each append's event last in the buffer, or in the file. *)
LEMMA StepAppend == IInv /\ [Next]_vars => AppendInv'
<1> SUFFICES ASSUME IInv, [Next]_vars PROVE AppendInv'
  OBVIOUS
<1>1. TypeOK /\ AppendInv
  BY DEF IInv
<1>2. CASE threads' = threads /\ UNCHANGED <<lines, tail, meta, buffer>>
  BY <1>1, <1>2 DEF threads, AppendInv, AppendOf, Stored, Broken
<1>3. CASE \A c \in Clients : pc'[c] = "idle"
  BY <1>3 DEF AppendInv, AppendSteps
<1>4. ASSUME NEW c \in Clients, Call(c) PROVE AppendInv'
  <2>1. PICK r \in Promise!Requests :
          request' = [request EXCEPT ![c] = r] /\ pc' = [pc EXCEPT ![c] = r.op]
    BY <1>4 DEF Call, Goto
  <2>2. r.op \in {"append", "replay", "len", "next_sequence"}
    BY DEF Promise!Requests
  <2>3. /\ pc'[c] = r.op /\ request'[c] = r
        /\ \A d \in Clients \ {c} :
             pc'[d] = pc[d] /\ request'[d] = request[d] /\ mark'[d] = mark[d]
    BY <1>1, <1>4, <2>1 DEF Call, TypeOK
  <2>4. UNCHANGED <<lines, tail, meta, buffer>>
    BY <1>4 DEF Call, disk
  <2>5. QED
    BY <1>1, <2>2, <2>3, <2>4 DEF AppendInv, AppendOf, Stored, Broken, AppendSteps
<1>5. ASSUME NEW c \in Clients, Step(c), ~AppendBuffer(c), ~AppendFlush(c), ~AppendAdvance(c)
      PROVE  AppendInv'
  <2>1. /\ UNCHANGED <<request, lines, tail, meta, buffer>>
        /\ pc' = [pc EXCEPT ![c] = pc'[c]] /\ pc'[c] \notin AppendSteps
        /\ \A d \in Clients \ {c} : mark'[d] = mark[d]
    <3>1. ASSUME AppendBackpressure(c) \/ AppendFlushFails(c) \/ AppendPersist(c)
                   \/ ReplayNothing(c) \/ ReplayScan(c) \/ Read(c)
          PROVE  /\ UNCHANGED <<request, lines, tail, meta, buffer, mark>>
                 /\ pc' = [pc EXCEPT ![c] = "idle"]
      BY <3>1 DEF AppendBackpressure, AppendFlushFails, AppendPersist, ReplayNothing, ReplayScan, Read,
                  Return, Goto, disk
    <3>2. ASSUME ReplaySnapshot(c)
          PROVE  /\ UNCHANGED <<request, lines, tail, meta, buffer>>
                 /\ \E label \in {"nothing", "scan"} : pc' = [pc EXCEPT ![c] = label]
                 /\ \A d \in Clients \ {c} : mark'[d] = mark[d]
      BY <1>1, <3>2 DEF ReplaySnapshot, Goto, disk, TypeOK
    <3>3. QED
      BY <1>1, <1>5, <3>1, <3>2 DEF Step, AppendSteps, TypeOK
  <2>2. \A d \in Clients \ {c} : pc'[d] = pc[d]
    BY <1>1, <2>1 DEF TypeOK
  <2>3. QED
    BY <1>1, <2>1, <2>2 DEF AppendInv, AppendOf, Stored, Broken, AppendSteps
<1>6. ASSUME NEW c \in Clients, AppendBuffer(c) PROVE AppendInv'
  <2> DEFINE event == [sequence |-> meta.next_sequence, payload |-> request[c].payload]
  <2>1. /\ request[c].op = "append" /\ event \in Event
        /\ meta.next_sequence \in Nat \ {0}
    BY <1>1, <1>6, AppendIsEvent DEF AppendBuffer
  <2>2. /\ buffer' = Append(buffer, Piece(event, "line")) /\ UNCHANGED <<request, meta>>
        /\ pc'[c] = "flush" /\ mark'[c] = meta.next_sequence
        /\ \A d \in Clients \ {c} : pc'[d] = pc[d] /\ pc[d] \notin {"flush", "persist"}
    <3>1. \A d \in Clients : pc[d] \notin {"flush", "persist"}
      BY <1>1, <1>6, PersistentAssumption DEF AppendBuffer, TypeOK
    <3>2. QED
      BY <1>1, <1>6, <3>1 DEF AppendBuffer, Goto, TypeOK
  <2>3. AppendOf(c)' = event
    BY <2>2 DEF AppendOf
  <2> HIDE DEF event
  <2>4. buffer' # << >> /\ buffer'[Len(buffer')].event = event
    <3>1. Piece(event, "line") \in Pieces /\ Piece(event, "line").event = event
      BY <2>1 DEF Piece, Pieces
    <3>2. /\ buffer' \in Seq(Pieces) /\ Len(buffer') = Len(buffer) + 1 /\ Len(buffer) \in Nat
          /\ buffer'[Len(buffer) + 1] = Piece(event, "line")
      BY <1>1, <2>2, <3>1, PushedLast DEF TypeOK
    <3>3. QED
      BY <3>1, <3>2, EmptySeq
  <2>5. QED
    BY <1>1, <2>1, <2>2, <2>3, <2>4 DEF AppendInv, AppendSteps
<1>7. ASSUME NEW c \in Clients, AppendFlush(c) PROVE AppendInv'
  <2>1. /\ UNCHANGED <<meta, threads>> /\ pc[c] = "flush" /\ buffer # << >>
        /\ buffer[Len(buffer)].event = AppendOf(c)
    BY <1>1, <1>7 DEF AppendFlush, AppendInv
  <2>2. \A d \in Clients \ {c} : pc[d] \notin {"flush", "persist"}
    BY <1>1, <2>1 DEF TypeOK
  <2>3. TypeOK /\ BufferInv /\ FileInv /\ DOMAIN buffer = 1 .. Len(buffer) /\ Len(buffer) \in Nat \ {0}
    BY <1>1, <2>1, LenProperties, EmptySeq DEF IInv, TypeOK
  <2>4. ASSUME NEW e, e = AppendOf(c)
        PROVE  IF buffer' = << >> THEN Stored(e)' ELSE buffer'[Len(buffer')].event = e
    <3>1. CASE WritePiece
      <4>1. /\ buffer' \in Seq(Pieces) /\ Len(buffer') = Len(buffer) - 1
            /\ \A i \in DOMAIN buffer' : i + 1 \in DOMAIN buffer /\ buffer'[i] = buffer[i + 1]
            /\ \A x : x = buffer[1].event => Stored(x)'
        BY <2>1, <2>3, <3>1, PieceWritten
      <4>2. CASE buffer' = << >>
        <5>1. Len(buffer) = 1
          <6>1. Len(buffer') = 0
            BY <4>2, EmptySeq
          <6>2. Len(buffer') = Len(buffer) - 1
            BY <4>1
          <6>3. Len(buffer) \in Nat
            BY <2>3
          <6> DEFINE n == Len(buffer)
          <6>4. n \in Nat /\ n - 1 = 0
            BY <6>1, <6>2, <6>3
          <6> HIDE DEF n
          <6>5. n = 1
            BY <6>4
          <6>6. QED
            BY <6>5 DEF n
        <5>2. QED
          BY <2>1, <2>4, <4>1, <4>2, <5>1
      <4>3. CASE buffer' # << >>
        <5>1. Len(buffer') \in DOMAIN buffer'
          BY <4>1, <4>3, EmptySeq, LenProperties
        <5>2. buffer'[Len(buffer')] = buffer[Len(buffer)]
          BY <2>3, <4>1, <5>1
        <5>3. QED
          BY <2>1, <2>4, <4>3, <5>2
      <4>4. QED
        BY <4>2, <4>3
    <3>2. CASE WritePart /\ UNCHANGED lines
      <4>1. /\ buffer' \in Seq(Pieces) /\ Len(buffer') = Len(buffer) /\ buffer' # << >>
            /\ \A i \in DOMAIN buffer' : buffer'[i].event = buffer[i].event
        BY <2>1, <2>3, <3>2, PartWritten
      <4>2. Len(buffer') \in DOMAIN buffer'
        BY <2>3, <4>1, LenProperties
      <4>3. QED
        BY <2>1, <2>4, <4>1, <4>2
    <3>3. QED
      BY <1>7, <3>1, <3>2 DEF AppendFlush
  <2>5. AppendOf(c)' = AppendOf(c)
    BY <2>1 DEF threads, AppendOf
  <2>6. IF buffer' = << >> THEN Stored(AppendOf(c))' ELSE buffer'[Len(buffer')].event = AppendOf(c)'
    BY <2>4, <2>5 DEF Stored
  <2>7. QED
    BY <1>1, <2>1, <2>2, <2>6 DEF AppendInv, threads
<1>8. ASSUME NEW c \in Clients, AppendAdvance(c) PROVE AppendInv'
  <2>1. /\ pc[c] = "flush" /\ buffer = << >>
        /\ UNCHANGED <<lines, tail, request, mark>>
        /\ meta'.next_sequence = meta.next_sequence + 1
        /\ meta'.event_count = meta.event_count + 1 /\ meta.event_count \in Nat
        /\ mark[c] = meta.next_sequence /\ mark[c] \in Nat /\ mark[c] # 0
        /\ Stored(AppendOf(c)) /\ request[c].op = "append"
    BY <1>1, <1>8 DEF AppendAdvance, AppendInv, Meta, Metas, disk, TypeOK, AppendSteps
  <2>2. /\ pc'[c] = "persist"
        /\ \A d \in Clients \ {c} : pc'[d] = pc[d] /\ pc[d] \notin {"flush", "persist"}
    BY <1>1, <1>8 DEF AppendAdvance, Goto, TypeOK
  <2>3. Stored(AppendOf(c))'
    BY <2>1 DEF Stored, Broken, AppendOf
  <2>4. meta'.event_count > 0
    BY <2>1
  <2>5. QED
    BY <1>1, <2>1, <2>2, <2>3, <2>4 DEF AppendInv, AppendSteps
<1>9. QED
  BY <1>2, <1>3, <1>4, <1>5, <1>6, <1>7, <1>8, ThreadSteps

-----------------------------------------------------------------------------
(* Sequences past what has been acknowledged and replayed *)

(* The store is running from the moment it has looked at the file.          *)
LEMMA RunningSteps ==
  ASSUME IInv, [Next]_vars, status' \in Running
  PROVE  \/ /\ OpenScan
            /\ status' = "repairing"
         \/ /\ status \in Running
            /\ \/ UNCHANGED meta
               \/ \E c \in Clients : AppendAdvance(c)
<1>1. ASSUME NEW c \in Clients, Step(c) \/ Call(c)
      PROVE  UNCHANGED status /\ (UNCHANGED meta \/ AppendAdvance(c))
  BY <1>1 DEF Call, Step, AppendBackpressure, AppendBuffer, AppendFlush, AppendFlushFails,
              AppendAdvance, AppendPersist, ReplaySnapshot, ReplayNothing, ReplayScan, Read
<1>2. QED
  BY <1>1 DEF Next, Open, OpenScan, OpenRefused, OpenRetry, OpenWriteMeta, OpenCreateLog, Close,
              CloseWrite, Crash, CorruptMeta, vars, Running

(* The event a thread has flushed is in the file.                           *)
LEMMA StoredReaches ==
  ASSUME TypeOK, AppendInv, NEW c \in Clients, AppendAdvance(c)
  PROVE  /\ mark[c] = meta.next_sequence /\ meta.next_sequence \in Nat
         /\ Reaches(mark[c])
<1>1. /\ Stored(AppendOf(c)) /\ mark[c] = meta.next_sequence /\ meta.next_sequence \in Nat
  BY DEF AppendInv, AppendAdvance, TypeOK, Metas
<1>2. AppendOf(c) \in Event /\ AppendOf(c).sequence = mark[c] /\ mark[c] \in Nat
  BY <1>1, AppendIsEvent DEF AppendOf, AppendAdvance
<1>3. CASE Broken
  BY <1>1, <1>3 DEF Reaches
<1>4. CASE \E i \in DOMAIN lines : lines[i] = AppendOf(c)
  <2>1. AppendOf(c) \in Kept
    BY <1>2, <1>4 DEF Kept
  <2>2. QED
    BY <1>1, <1>2, <2>1 DEF Reaches
<1>5. QED
  BY <1>1, <1>3, <1>4 DEF Stored

(* Every step keeps each acknowledged event stored, and numbered below the  *)
(* next one.                                                                *)
LEMMA StepAcked == IInv /\ [Next]_vars => AckedInv'
<1> SUFFICES ASSUME IInv, [Next]_vars PROVE AckedInv'
  OBVIOUS
<1>1. TypeOK /\ AppendInv /\ AckedInv /\ FileInv /\ MetaInv
  BY DEF IInv
<1>2. \A e \in acked' : e \in acked \/ \E c \in Clients : AppendPersist(c) /\ e = AppendOf(c)
  <2>1. ASSUME NEW c \in Clients, Step(c)
        PROVE  UNCHANGED acked \/ (AppendPersist(c) /\ acked' = acked \cup {AppendOf(c)})
    BY <2>1 DEF Step, AppendBackpressure, AppendBuffer, AppendFlush, AppendFlushFails, AppendAdvance,
                AppendPersist, AppendOf, ReplaySnapshot, ReplayNothing, ReplayScan, Read
  <2>2. QED
    BY <2>1 DEF Next, Open, OpenScan, OpenRefused, OpenRetry, OpenWriteMeta, OpenCreateLog, Close,
                CloseWrite, Crash, CorruptMeta, Call, vars
<1>3. ASSUME NEW e \in acked, status' \in Running PROVE e.sequence < meta'.next_sequence
  <2>1. e \in Event /\ e.sequence \in Nat /\ Stored(e)
    BY <1>1 DEF TypeOK, Event, AckedInv
  <2>2. CASE OpenScan
    <3>1. /\ ~Broken /\ meta' = ResolvedMeta
          /\ \A d \in Kept : d.sequence < ResolvedMeta.next_sequence
      BY <1>1, <2>2, Resolved DEF OpenScan
    <3>2. e \in Kept
      BY <2>1, <3>1 DEF Stored, Kept
    <3>3. QED
      BY <3>1, <3>2
  <2>3. CASE status \in Running /\ UNCHANGED meta
    BY <1>1, <2>3 DEF AckedInv
  <2>4. ASSUME status \in Running, NEW c \in Clients, AppendAdvance(c)
        PROVE  e.sequence < meta'.next_sequence
    <3>1. meta'.next_sequence = meta.next_sequence + 1 /\ meta.next_sequence \in Nat
      BY <1>1, <2>4 DEF AppendAdvance, Meta, TypeOK, Metas
    <3>2. QED
      BY <1>1, <2>1, <2>4, <3>1 DEF AckedInv
  <2>5. QED
    BY <1>3, <2>2, <2>3, <2>4, RunningSteps
<1>4. ASSUME NEW e \in acked PROVE Stored(e)'
  BY <1>1, <1>4, FileKeeps DEF AckedInv
<1>5. ASSUME NEW c \in Clients, AppendPersist(c), NEW e, e = AppendOf(c)
      PROVE  Stored(e)' /\ e.sequence < meta'.next_sequence
  <2>1. Stored(e) /\ e.sequence = meta.next_sequence - 1 /\ meta.next_sequence \in Nat
    BY <1>1, <1>5 DEF AppendPersist, AppendInv, AppendOf, TypeOK, Metas
  <2>2. Stored(e)' /\ meta' = meta
    BY <1>5, <2>1, FileKeeps DEF AppendPersist
  <2>3. QED
    BY <2>1, <2>2
<1>6. QED
  BY <1>2, <1>3, <1>4, <1>5 DEF AckedInv

(* What open made of the files is settled until the next open.              *)
LEMMA OpenedSteps ==
  ASSUME [Next]_vars
  PROVE  OpenScan \/ UNCHANGED <<first, miscount, undercounted>>
<1>1. ASSUME NEW c \in Clients, Step(c) \/ Call(c) PROVE UNCHANGED opened
  BY <1>1 DEF Call, Step, AppendBackpressure, AppendBuffer, AppendFlush, AppendFlushFails,
              AppendAdvance, AppendPersist, ReplaySnapshot, ReplayNothing, ReplayScan, Read
<1>2. OpenScan \/ UNCHANGED opened
  BY <1>1 DEF Next, Open, OpenRefused, OpenRetry, OpenWriteMeta, OpenCreateLog, Close, CloseWrite,
              Crash, CorruptMeta, vars
<1>3. QED
  BY <1>2 DEF opened

(* An event is acknowledged by the end of its append alone.                 *)
LEMMA AckedSteps ==
  ASSUME [Next]_vars
  PROVE  UNCHANGED acked \/ \E c \in Clients : AppendPersist(c)
<1>1. ASSUME NEW c \in Clients, Step(c) PROVE UNCHANGED acked \/ AppendPersist(c)
  BY <1>1 DEF Step, AppendBackpressure, AppendBuffer, AppendFlush, AppendFlushFails, AppendAdvance,
              ReplaySnapshot, ReplayNothing, ReplayScan, Read
<1>2. QED
  BY <1>1 DEF Next, Open, OpenScan, OpenRefused, OpenRetry, OpenWriteMeta, OpenCreateLog, Close,
              CloseWrite, Crash, CorruptMeta, Call, vars

(* Every step keeps a store that acknowledged something counting something, *)
(* and one that counts something numbering up to what the file reaches.     *)
LEMMA StepMeta == IInv /\ [Next]_vars => MetaInv'
<1> SUFFICES ASSUME IInv, [Next]_vars, status' \in Running
             PROVE  /\ acked' # {} => miscount' < 0 \/ meta'.event_count > 0
                    /\ meta'.event_count = 0 \/ Reaches(meta.next_sequence - 1)'
  BY DEF MetaInv
<1> USE PersistentAssumption
<1>1. TypeOK /\ AppendInv /\ FileInv /\ MetaInv /\ AckedInv
  BY DEF IInv
<1>2. meta \in Metas /\ meta.next_sequence \in Nat \ {0} /\ meta.event_count \in Nat
  BY <1>1 DEF TypeOK, Metas
<1>3. ASSUME acked' # {} PROVE miscount' < 0 \/ meta'.event_count > 0
  <2>1. CASE OpenScan
    <3>1. /\ ResolvedMeta \in Metas /\ ~Broken
          /\ Kept # {} => Len(LinesRead) > 0
      BY <1>1, <2>1, Resolved DEF OpenScan
    <3>2. PICK e \in acked : TRUE
      BY <1>3, <2>1 DEF OpenScan
    <3>3. e \in Kept
      BY <1>1, <3>1, <3>2 DEF AckedInv, TypeOK, Stored, Kept
    <3>4. Len(LinesRead) > 0 /\ Len(LinesRead) \in Nat
      BY <1>1, <3>1, <3>3, WhatIsRead, LenProperties DEF TypeOK, FileType
    <3>5. /\ meta'.event_count = ResolvedMeta.event_count /\ ResolvedMeta.event_count \in Nat
          /\ miscount' = ResolvedMeta.event_count - Len(LinesRead)
      BY <2>1, <3>1 DEF OpenScan, Metas
    <3>6. QED
      BY <3>4, <3>5
  <2>2. ASSUME NEW c \in Clients, AppendPersist(c) PROVE meta'.event_count > 0
    BY <1>1, <2>2 DEF AppendPersist, AppendInv
  <2>3. ASSUME NEW c \in Clients, AppendAdvance(c) PROVE meta'.event_count > 0
    BY <1>2, <2>3 DEF AppendAdvance, Meta
  <2>4. CASE status \in Running /\ UNCHANGED meta /\ UNCHANGED acked /\ UNCHANGED miscount
    BY <1>1, <1>3, <2>4 DEF MetaInv
  <2>5. QED
    BY <2>1, <2>2, <2>3, <2>4, OpenedSteps, AckedSteps, RunningSteps
<1>4. ASSUME meta'.event_count # 0, NEW n, n = meta'.next_sequence - 1 PROVE Reaches(n)'
  <2>1. n \in Nat /\ Reaches(n)
    <3>1. CASE OpenScan
      <4>1. /\ ResolvedMeta \in Metas /\ meta' = ResolvedMeta
            /\ ResolvedMeta.event_count = 0 \/ Reaches(ResolvedMeta.next_sequence - 1)
        BY <1>1, <3>1, Resolved DEF OpenScan
      <4>2. QED
        BY <1>4, <4>1 DEF Metas
    <3>2. CASE status \in Running /\ UNCHANGED meta
      BY <1>1, <1>2, <1>4, <3>2 DEF MetaInv
    <3>3. ASSUME NEW c \in Clients, AppendAdvance(c) PROVE n \in Nat /\ Reaches(n)
      <4>1. mark[c] = meta.next_sequence /\ meta.next_sequence \in Nat /\ Reaches(mark[c])
        BY <1>1, <3>3, StoredReaches
      <4>2. n = mark[c]
        BY <1>4, <3>3, <4>1 DEF AppendAdvance, Meta
      <4>3. QED
        BY <4>1, <4>2
    <3>4. QED
      BY <3>1, <3>2, <3>3, RunningSteps
  <2>2. QED
    BY <2>1, FileKeeps
<1>5. meta'.event_count = 0 \/ Reaches(meta.next_sequence - 1)'
  BY <1>4 DEF Reaches
<1>6. QED
  BY <1>3, <1>5

(* A sequence that is past stays past. *)
LEMMA PastKeeps ==
  ASSUME IInv, [Next]_vars, NEW n, Past(n)
  PROVE  Past(n)'
<1>1. TypeOK /\ AppendInv /\ FileInv /\ MetaInv
  BY DEF IInv
<1>2. n \in Nat /\ Reaches(n) /\ Reaches(n)'
  BY FileKeeps DEF Past
<1>3. ASSUME status' \in Running PROVE n < meta'.next_sequence
  <2>1. CASE OpenScan
    <3>1. /\ ~Broken /\ meta' = ResolvedMeta /\ ResolvedMeta \in Metas
          /\ \A d \in Kept : d.sequence < ResolvedMeta.next_sequence
      BY <1>1, <2>1, Resolved DEF OpenScan
    <3>2. \A d \in Kept : d.sequence \in Nat
      BY DEF Kept, Event
    <3>3. QED
      BY <1>2, <3>1, <3>2 DEF Reaches, Metas
  <2>2. CASE status \in Running /\ UNCHANGED meta
    BY <2>2 DEF Past
  <2>3. ASSUME status \in Running, NEW c \in Clients, AppendAdvance(c)
        PROVE  n < meta'.next_sequence
    <3>1. meta'.next_sequence = meta.next_sequence + 1 /\ meta.next_sequence \in Nat
      BY <1>1, <2>3 DEF AppendAdvance, Meta, TypeOK, Metas
    <3>2. QED
      BY <1>2, <2>3, <3>1 DEF Past
  <2>4. QED
    BY <1>3, <2>1, <2>2, <2>3, RunningSteps
<1>4. ASSUME NEW d \in Clients, pc'[d] = "persist" PROVE n < mark'[d]
  <2>1. CASE threads' = threads
    BY <1>4, <2>1 DEF threads, Past
  <2>2. CASE \A c \in Clients : pc'[c] = "idle"
    BY <1>4, <2>2
  <2>3. ASSUME NEW c \in Clients, Call(c) PROVE n < mark'[d]
    <3>1. PICK r \in Promise!Requests : pc' = [pc EXCEPT ![c] = r.op]
      BY <2>3 DEF Call, Goto
    <3>2. r.op # "persist"
      BY DEF Promise!Requests
    <3>3. d # c /\ pc[d] = "persist" /\ mark'[d] = mark[d]
      BY <1>1, <1>4, <2>3, <3>1, <3>2 DEF Call, TypeOK
    <3>4. QED
      BY <3>3 DEF Past
  <2>4. ASSUME NEW c \in Clients, AppendAdvance(c) PROVE n < mark'[d]
    <3>1. /\ status = "open" /\ mark[c] = meta.next_sequence
          /\ pc'[c] = "persist" /\ mark' = mark
          /\ \A x \in Clients \ {c} : pc'[x] # "persist"
      BY <1>1, <2>4, StoredReaches DEF AppendAdvance, Goto, TypeOK
    <3>2. d = c
      BY <1>4, <3>1
    <3>3. QED
      BY <3>1, <3>2 DEF Past, Running
  <2>5. ASSUME NEW c \in Clients, Step(c), ~AppendAdvance(c) PROVE n < mark'[d]
    <3>1. pc[d] = "persist" /\ mark'[d] = mark[d]
      <4>1. CASE AppendFlush(c)
        BY <1>4, <4>1 DEF AppendFlush, threads
      <4>2. CASE AppendBuffer(c)
        BY <1>1, <1>4, <4>2 DEF AppendBuffer, Goto, TypeOK
      <4>3. CASE ReplaySnapshot(c)
        BY <1>1, <1>4, <4>3 DEF ReplaySnapshot, Goto, TypeOK
      <4>4. CASE AppendBackpressure(c) \/ AppendFlushFails(c) \/ AppendPersist(c)
                   \/ ReplayNothing(c) \/ ReplayScan(c) \/ Read(c)
        <5>1. UNCHANGED mark /\ pc' = [pc EXCEPT ![c] = "idle"]
          BY <4>4 DEF AppendBackpressure, AppendFlushFails, AppendPersist, ReplayNothing, ReplayScan,
                      Read, Return, Goto
        <5>2. QED
          BY <1>1, <1>4, <5>1 DEF TypeOK
      <4>5. QED
        BY <2>5, <4>1, <4>2, <4>3, <4>4 DEF Step
    <3>2. QED
      BY <3>1 DEF Past
  <2>6. QED
    BY <2>1, <2>2, <2>3, <2>4, <2>5, ThreadSteps
<1>5. QED
  BY <1>2, <1>3, <1>4 DEF Past

(* What a replay that has read the file was answered.                       *)
Answered(c) ==
  IF Readable(LinesRead)
       /\ Ascending(Select(LinesRead, request[c].from, mark[c]))
       /\ StartsAt(Select(LinesRead, request[c].from, mark[c]), request[c].from)
  THEN Promise!Replayed(Select(LinesRead, request[c].from, mark[c]), mark[c])
  ELSE Promise!Failed

(* Where a replay's answer comes from.                                      *)
LEMMA ReplySteps ==
  ASSUME IInv, [Next]_vars, NEW d \in Clients, reply'[d].kind = "replayed"
  PROVE  /\ request'[d] = request[d]
         /\ \/ reply'[d] = reply[d]
            \/ ReplayNothing(d) /\ reply'[d] = Promise!Replayed(<< >>, 0)
            \/ ReplayScan(d) /\ reply'[d] = Answered(d)
<1>1. TypeOK /\ reply = [x \in Clients |-> reply[x]]
  BY DEF IInv
<1> DEFINE Goal == /\ request'[d] = request[d]
                   /\ \/ reply'[d] = reply[d]
                      \/ ReplayNothing(d) /\ reply'[d] = Promise!Replayed(<< >>, 0)
                      \/ ReplayScan(d) /\ reply'[d] = Answered(d)
<1>2. ASSUME OpenScan \/ OpenRefused \/ OpenRetry \/ OpenWriteMeta \/ OpenCreateLog \/ Close
               \/ CloseWrite \/ CorruptMeta \/ UNCHANGED vars
      PROVE  Goal
  BY <1>2 DEF OpenScan, OpenRefused, OpenRetry, OpenWriteMeta, OpenCreateLog, Close,
              CloseWrite, CorruptMeta, vars, threads
<1>3. ~Crash
  <2>1. SUFFICES ASSUME Crash PROVE FALSE
    OBVIOUS
  <2>2. reply'[d] = Promise!NoReply
    BY <2>1 DEF Crash
  <2>3. QED
    BY <2>2 DEF Promise!NoReply
<1>4. ASSUME NEW c \in Clients, Call(c) PROVE Goal
  <2>1. c # d
    BY <1>1, <1>4 DEF Call, Promise!NoReply
  <2>2. QED
    BY <1>1, <1>4, <2>1 DEF Call, TypeOK
<1>5. ASSUME NEW c \in Clients, AppendBuffer(c) \/ AppendFlush(c) \/ AppendAdvance(c) \/ ReplaySnapshot(c)
      PROVE  Goal
  BY <1>5 DEF AppendBuffer, AppendFlush, AppendAdvance, ReplaySnapshot, threads
<1>6. ASSUME NEW c \in Clients, AppendBackpressure(c) \/ AppendFlushFails(c) PROVE Goal
  <2>1. reply' = [reply EXCEPT ![c] = Promise!Failed] /\ request' = request
    BY <1>6 DEF AppendBackpressure, AppendFlushFails, Return
  <2>2. c # d
    BY <1>1, <2>1 DEF Promise!Failed
  <2>3. QED
    BY <1>1, <2>1, <2>2
<1>7. ASSUME NEW c \in Clients, AppendPersist(c) PROVE Goal
  <2>1. PICK r \in {Promise!Failed, Promise!Appended(AppendOf(c))} : reply' = [reply EXCEPT ![c] = r]
    BY <1>7 DEF AppendPersist, AppendOf, Return
  <2>2. c # d
    BY <1>1, <2>1 DEF Promise!Failed, Promise!Appended
  <2>3. QED
    BY <1>1, <1>7, <2>1, <2>2 DEF AppendPersist
<1>8. ASSUME NEW c \in Clients, Read(c) PROVE Goal
  <2>1. PICK n \in {meta.event_count, meta.next_sequence} :
          reply' = [reply EXCEPT ![c] = Promise!Counted(n)]
    BY <1>8 DEF Read, Return
  <2>2. c # d
    BY <1>1, <2>1 DEF Promise!Counted
  <2>3. QED
    BY <1>1, <1>8, <2>1, <2>2 DEF Read
<1>9. ASSUME NEW c \in Clients, ReplayNothing(c) PROVE Goal
  <2>1. reply' = [reply EXCEPT ![c] = Promise!Replayed(<< >>, 0)] /\ request' = request
    BY <1>9 DEF ReplayNothing, Return
  <2>2. QED
    BY <1>1, <1>9, <2>1
<1>10. ASSUME NEW c \in Clients, ReplayScan(c) PROVE Goal
  <2>1. reply' = [reply EXCEPT ![c] = Answered(c)] /\ request' = request
    BY <1>10 DEF ReplayScan, Return, Answered
  <2>2. QED
    BY <1>1, <1>10, <2>1
<1>11. QED
  BY <1>2, <1>3, <1>4, <1>5, <1>6, <1>7, <1>8, <1>9, <1>10 DEF Next, Open, Step

(* Every step keeps what replays have read up to past. *)
LEMMA StepReplay == IInv /\ [Next]_vars => ReplayInv'
<1> SUFFICES ASSUME IInv, [Next]_vars PROVE ReplayInv'
  OBVIOUS
<1>1. TypeOK /\ AppendInv /\ MetaInv /\ ReplayInv
  BY DEF IInv
<1>2. ASSUME NEW d \in Clients, pc'[d] \in ReplaySteps
      PROVE  /\ request'[d].op = "replay"
             /\ \A n : pc'[d] = "scan" /\ n = mark'[d] => Past(n)'
  <2> DEFINE Goal == /\ request'[d].op = "replay"
                     /\ \A n : pc'[d] = "scan" /\ n = mark'[d] => Past(n)'
  <2>1. CASE pc[d] = pc'[d] /\ mark'[d] = mark[d] /\ request'[d] = request[d]
    BY <1>1, <1>2, <2>1, PastKeeps DEF ReplayInv
  <2>2. CASE threads' = threads
    BY <2>1, <2>2 DEF threads
  <2>3. CASE \A c \in Clients : pc'[c] = "idle"
    BY <1>2, <2>3 DEF ReplaySteps
  <2>4. ASSUME NEW c \in Clients, Call(c) PROVE Goal
    <3>1. PICK r \in Promise!Requests :
            request' = [request EXCEPT ![c] = r] /\ pc' = [pc EXCEPT ![c] = r.op]
      BY <2>4 DEF Call, Goto
    <3>2. CASE d = c
      BY <1>1, <1>2, <3>1, <3>2 DEF Promise!Requests, TypeOK, ReplaySteps
    <3>3. CASE d # c
      BY <1>1, <2>1, <2>4, <3>1, <3>3 DEF Call, TypeOK
    <3>4. QED
      BY <3>2, <3>3
  <2>5. ASSUME NEW c \in Clients, Step(c), ~ReplaySnapshot(c) PROVE Goal
    <3>1. /\ request' = request
          /\ \E label : pc' = [pc EXCEPT ![c] = label] /\ label \notin ReplaySteps
                          /\ \A x \in Clients \ {c} : mark'[x] = mark[x]
             \/ threads' = threads
      BY <1>1, <2>5 DEF Step, AppendBackpressure, AppendBuffer, AppendFlush, AppendFlushFails,
           AppendAdvance, AppendPersist, ReplayNothing, ReplayScan, Read, Return, Goto, threads,
           TypeOK, ReplaySteps
    <3>2. QED
      BY <1>1, <1>2, <2>1, <2>2, <3>1 DEF TypeOK
  <2>6. ASSUME NEW c \in Clients, ReplaySnapshot(c) PROVE Goal
    <3>1. CASE d # c
      BY <1>1, <2>1, <2>6, <3>1 DEF ReplaySnapshot, Goto, TypeOK
    <3>2. CASE d = c
      <4>1. request'[d].op = "replay"
        BY <1>1, <2>6, <3>2 DEF ReplaySnapshot, ReplayInv, ReplaySteps
      <4>2. ASSUME NEW n, pc'[d] = "scan", n = mark'[d] PROVE Past(n)'
        <5>1. n = meta.next_sequence - 1 /\ meta.next_sequence \in Nat \ {0} /\ meta.event_count # 0
          BY <1>1, <2>6, <3>2, <4>2 DEF ReplaySnapshot, Goto, TypeOK, Metas
        <5>2. status = "open" /\ \A x \in Clients : pc[x] # "persist"
          BY <1>1, <2>6, PersistentAssumption DEF ReplaySnapshot, TypeOK
        <5>3. Past(n)
          BY <1>1, <5>1, <5>2 DEF Past, MetaInv, Running
        <5>4. QED
          BY <5>3, PastKeeps
      <4>3. QED
        BY <4>1, <4>2
    <3>3. QED
      BY <3>1, <3>2
  <2>7. QED
    BY <2>2, <2>3, <2>4, <2>5, <2>6, ThreadSteps
<1>3. ASSUME NEW d \in Clients, reply'[d].kind = "replayed"
      PROVE  /\ request'[d].op = "replay"
             /\ \A n : n = reply'[d].snapshot_end => Past(n)'
  <2>1. request'[d] = request[d]
    BY <1>3, ReplySteps
  <2>2. CASE reply'[d] = reply[d]
    BY <1>1, <1>3, <2>1, <2>2, PastKeeps DEF ReplayInv
  <2>3. CASE ReplayNothing(d) /\ reply'[d] = Promise!Replayed(<< >>, 0)
    <3>1. reply'[d].snapshot_end = 0 /\ request[d].op = "replay"
      BY <1>1, <2>3 DEF Promise!Replayed, ReplayNothing, ReplayInv, ReplaySteps
    <3>2. Past(0)
      <4>1. \A x \in Clients : pc[x] = "persist" => mark[x] \in Nat /\ mark[x] # 0
        BY <1>1 DEF AppendInv, TypeOK
      <4>2. meta.next_sequence \in Nat \ {0}
        BY <1>1 DEF TypeOK, Metas
      <4>3. QED
        BY <4>1, <4>2 DEF Past, Reaches
    <3>3. QED
      BY <2>1, <3>1, <3>2, PastKeeps
  <2>4. CASE ReplayScan(d) /\ reply'[d] = Answered(d)
    <3>1. request[d].op = "replay" /\ Past(mark[d])
      BY <1>1, <2>4 DEF ReplayScan, ReplayInv, ReplaySteps
    <3>2. reply'[d].snapshot_end = mark[d]
      BY <1>3, <2>4 DEF Answered, Promise!Replayed, Promise!Failed
    <3>3. QED
      BY <2>1, <3>1, <3>2, PastKeeps
  <2>5. QED
    BY <1>3, <2>2, <2>3, <2>4, ReplySteps
<1>4. ASSUME NEW d \in Clients, pc'[d] = "scan" PROVE Past(mark[d])'
  <2>1. pc'[d] \in ReplaySteps
    BY <1>4 DEF ReplaySteps
  <2>2. \A n : n = mark'[d] => Past(n)'
    BY <1>2, <1>4, <2>1
  <2>3. QED
    BY <2>2 DEF Past, Reaches
<1>5. ASSUME NEW d \in Clients, reply'[d].kind = "replayed" PROVE Past(reply[d].snapshot_end)'
  <2>1. \A n : n = reply'[d].snapshot_end => Past(n)'
    BY <1>3, <1>5
  <2>2. QED
    BY <2>1 DEF Past, Reaches
<1>6. QED
  BY <1>2, <1>3, <1>4, <1>5 DEF ReplayInv

(* Every step keeps replays complete: an event acknowledged later is past   *)
(* their range.                                                             *)
LEMMA StepComplete == IInv /\ [Next]_vars => ReplayComplete'
<1> SUFFICES ASSUME IInv, [Next]_vars PROVE ReplayComplete'
  OBVIOUS
<1>1. TypeOK /\ AppendInv /\ AckedInv /\ ReplayInv /\ ReplayComplete
  BY DEF IInv
<1>2. TypeOK' /\ AckedInv' /\ MetaInv'
  BY StepType, StepAcked, StepMeta
<1>3. ASSUME NEW d \in Clients, reply'[d].kind = "replayed", NEW e \in acked',
             e.sequence \in request'[d].from .. reply'[d].snapshot_end
      PROVE  \E i \in DOMAIN reply'[d].events : reply'[d].events[i] = e
  <2>1. request'[d] = request[d] /\ e.sequence \in Nat \ {0}
    BY <1>2, <1>3, ReplySteps DEF TypeOK, Event
  <2>2. CASE reply'[d] = reply[d]
    <3>1. CASE e \in acked
      BY <1>1, <1>3, <2>1, <2>2, <3>1 DEF ReplayComplete
    <3>2. CASE e \notin acked
      <4>1. PICK c \in Clients : AppendPersist(c) /\ e = AppendOf(c)
        <5>1. ASSUME NEW c \in Clients, Step(c)
              PROVE  UNCHANGED acked \/ (AppendPersist(c) /\ acked' = acked \cup {AppendOf(c)})
          BY <5>1 DEF Step, AppendBackpressure, AppendBuffer, AppendFlush, AppendFlushFails,
               AppendAdvance, AppendPersist, AppendOf, ReplaySnapshot, ReplayNothing, ReplayScan, Read
        <5>2. QED
          BY <1>3, <3>2, <5>1 DEF Next, Open, OpenScan, OpenRefused, OpenRetry, OpenWriteMeta,
               OpenCreateLog, Close, CloseWrite, Crash, CorruptMeta, Call, vars
      <4>2. e.sequence = mark[c] /\ pc[c] = "persist"
        BY <4>1 DEF AppendOf, AppendPersist
      <4>3. reply[d].snapshot_end < mark[c] /\ reply[d].snapshot_end \in Nat /\ mark[c] \in Nat
        BY <1>1, <1>3, <2>2, <4>2 DEF ReplayInv, Past, TypeOK
      <4>4. QED
        BY <1>3, <2>1, <2>2, <4>2, <4>3
    <3>3. QED
      BY <3>1, <3>2
  <2>3. CASE ReplayNothing(d) /\ reply'[d] = Promise!Replayed(<< >>, 0)
    <3>1. reply'[d].snapshot_end = 0
      BY <2>3 DEF Promise!Replayed
    <3>2. QED
      BY <1>3, <2>1, <3>1
  <2>4. CASE ReplayScan(d) /\ reply'[d] = Answered(d)
    <3> DEFINE from == request[d].from
               end == mark[d]
               found == Select(LinesRead, from, end)
    <3>1. Readable(LinesRead) /\ reply'[d] = Promise!Replayed(found, end)
      BY <1>3, <2>4 DEF Answered, Promise!Failed
    <3>2. e \in acked /\ UNCHANGED acked
      BY <1>3, <2>4 DEF ReplayScan
    <3>3. /\ ~Broken /\ LinesRead \in Seq(Event) /\ FileType
      BY <1>1, <3>1, ReadableFile DEF FileType, TypeOK
    <3>4. PICK i \in DOMAIN LinesRead : LinesRead[i] = e
      BY <1>1, <3>2, <3>3, WhatIsRead DEF AckedInv, Stored
    <3>5. from \in Nat /\ end \in Nat
      <4>1. request[d].op = "replay"
        BY <1>1, <2>4 DEF ReplayScan, ReplayInv, ReplaySteps
      <4>2. QED
        BY <1>1, <4>1, RequestArguments, PersistentAssumption DEF TypeOK
    <3>6. e.sequence >= from /\ e.sequence <= end
      <4>1. reply'[d].snapshot_end = end
        BY <3>1 DEF Promise!Replayed
      <4>2. QED
        BY <1>3, <2>1, <3>5, <4>1
    <3>7. \E k \in DOMAIN found : found[k] = e
      <4> DEFINE es == LinesRead
      <4>1. es \in Seq(Event) /\ i \in DOMAIN es /\ es[i] = e
        BY <3>3, <3>4
      <4> HIDE DEF es, from, end
      <4>2. \E k \in DOMAIN Select(es, from, end) : Select(es, from, end)[k] = es[i]
        BY <3>5, <3>6, <4>1, SelectIncludes
      <4>3. QED
        BY <4>1, <4>2 DEF es
    <3>8. reply'[d].events = found
      BY <3>1 DEF Promise!Replayed
    <3> HIDE DEF found
    <3>9. QED
      BY <3>7, <3>8
  <2>5. QED
    BY <1>3, <2>2, <2>3, <2>4, ReplySteps
<1>4. ASSUME status' = "open", NEW e \in acked'
      PROVE  /\ e.sequence < meta'.next_sequence
             /\ miscount' >= 0 => meta'.event_count > 0
  <2>1. e.sequence < meta'.next_sequence
    BY <1>2, <1>4 DEF AckedInv, Running
  <2>2. miscount' < 0 \/ meta'.event_count > 0
    BY <1>2, <1>4 DEF MetaInv, Running
  <2>3. miscount' \in Int
    BY <1>2 DEF TypeOK
  <2>4. QED
    BY <2>1, <2>2, <2>3
<1>5. QED
  BY <1>3, <1>4 DEF ReplayComplete

-----------------------------------------------------------------------------
(* As long as no write has failed *)

(* A state before which no write has failed satisfies the rest of the       *)
(* invariant.                                                               *)
LEMMA NoWriteFailedYet ==
  ASSUME IInv, [Next]_vars, NoWriteFailed'
  PROVE  /\ NoWriteFailed /\ CountInv /\ NumberInv /\ LengthInv /\ CapacityInv
         /\ ~CloseWrite
         /\ \A c \in Clients : ~AppendFlushFails(c)
<1>1. TypeOK /\ FileInv /\ failures \in Nat /\ failures <= FlushFailures /\ FlushFailures \in Nat
  BY PersistentAssumption DEF IInv, TypeOK
<1>2. failures' = failures \/ (failures > 0 /\ failures' = failures - 1)
  <2>1. ASSUME NEW c \in Clients, Step(c)
        PROVE  failures' = failures \/ (failures > 0 /\ failures' = failures - 1)
    BY <2>1 DEF Step, AppendBackpressure, AppendBuffer, AppendFlush, AppendFlushFails, AppendAdvance,
                AppendPersist, ReplaySnapshot, ReplayNothing, ReplayScan, Read
  <2>2. QED
    BY <2>1 DEF Next, Open, OpenScan, OpenRefused, OpenRetry, OpenWriteMeta, OpenCreateLog, Close,
                CloseWrite, Crash, CorruptMeta, Call, vars
<1>3. failures' = failures /\ failures = FlushFailures
  BY <1>1, <1>2 DEF NoWriteFailed
<1>4. NoWriteFailed /\ CountInv /\ NumberInv /\ LengthInv /\ CapacityInv
  BY <1>3 DEF NoWriteFailed, IInv
<1>5. ~CloseWrite
  <2> SUFFICES ASSUME CloseWrite PROVE FALSE
    OBVIOUS
  <2>1. status = "closing" /\ buffer # << >>
    BY <1>1 DEF CloseWrite, FileInv
  <2>2. PICK c \in Clients : pc[c] = "flush"
    BY <1>4, <2>1 DEF NumberInv
  <2>3. QED
    BY <1>1, <2>1, <2>2 DEF TypeOK
<1>6. \A c \in Clients : ~AppendFlushFails(c)
  BY <1>1, <1>3 DEF AppendFlushFails
<1>7. QED
  BY <1>4, <1>5, <1>6

(* Which thread is flushing changes with the steps of that thread only, and *)
(* a crash.                                                                 *)
LEMMA FlushingSteps ==
  ASSUME IInv, [Next]_vars, ~Crash, ~CloseWrite, ~OpenCreateLog,
         \A c \in Clients : ~AppendBuffer(c) /\ ~AppendFlush(c) /\ ~AppendFlushFails(c) /\ ~AppendAdvance(c)
  PROVE  /\ UNCHANGED <<lines, tail, buffer>>
         /\ \A d \in Clients : pc'[d] = "flush" <=> pc[d] = "flush"
<1>1. TypeOK
  BY DEF IInv
<1> DEFINE Goal == /\ UNCHANGED <<lines, tail, buffer>>
                   /\ \A d \in Clients : pc'[d] = "flush" <=> pc[d] = "flush"
<1>2. ASSUME OpenScan \/ OpenRefused \/ OpenRetry \/ OpenWriteMeta \/ Close \/ CorruptMeta \/ UNCHANGED vars
      PROVE  Goal
  BY <1>2 DEF OpenScan, OpenRefused, OpenRetry, OpenWriteMeta, Close, CorruptMeta, vars, disk, threads
<1>3. ASSUME NEW c \in Clients, Call(c) PROVE Goal
  <2>1. PICK r \in Promise!Requests : pc' = [pc EXCEPT ![c] = r.op]
    BY <1>3 DEF Call, Goto
  <2>2. r.op # "flush" /\ pc[c] = "idle"
    BY <1>3 DEF Call, Promise!Requests
  <2>3. QED
    BY <1>1, <1>3, <2>1, <2>2 DEF Call, disk, TypeOK
<1>4. ASSUME NEW c \in Clients, ReplaySnapshot(c) PROVE Goal
  BY <1>1, <1>4 DEF ReplaySnapshot, Goto, disk, TypeOK
<1>5. ASSUME NEW c \in Clients,
             AppendBackpressure(c) \/ AppendPersist(c) \/ ReplayNothing(c) \/ ReplayScan(c) \/ Read(c)
      PROVE  Goal
  <2>1. /\ UNCHANGED <<lines, tail, buffer>> /\ pc[c] # "flush"
        /\ pc' = [pc EXCEPT ![c] = "idle"]
    BY <1>5 DEF AppendBackpressure, AppendPersist, ReplayNothing, ReplayScan, Read, Return, Goto, disk
  <2>2. QED
    BY <1>1, <2>1 DEF TypeOK
<1>6. QED
  BY <1>2, <1>3, <1>4, <1>5 DEF Next, Open, Step

(* The events the file should hold, but for the one being written.          *)
Due == meta.next_sequence - first

(* A thread that writes is the only one that flushes, and its event is the  *)
(* one in the buffer.                                                       *)
LEMMA Flushing ==
  ASSUME IInv, CountInv, NumberInv, NEW c \in Clients, AppendFlush(c)
  PROVE  /\ buffer # << >> /\ Len(buffer) = 1 /\ 1 \in DOMAIN buffer
         /\ buffer[1].event.sequence = first + Due
         /\ Due \in Nat /\ status = "open"
         /\ pc[c] = "flush" /\ \A d \in Clients : pc[d] = "flush" <=> d = c
         /\ Written <=> buffer[1].rest # "line"
         /\ buffer[1].rest # "line" => tail # NoTail
<1> USE PersistentAssumption
<1>1. TypeOK /\ BufferInv /\ AppendInv
  BY DEF IInv
<1>2. pc[c] = "flush" /\ buffer # << >> /\ status = "open"
  BY <1>1 DEF AppendFlush, TypeOK
<1>3. \A d \in Clients : pc[d] = "flush" <=> d = c
  BY <1>1, <1>2 DEF TypeOK
<1>4. Len(buffer) = 1 /\ 1 \in DOMAIN buffer /\ buffer[1] \in Pieces
  <2>1. Len(buffer) \in Nat \ {0} /\ Len(buffer) <= 1
    BY <1>1, <1>2, EmptySeq DEF TypeOK, NumberInv
  <2>2. 1 \in DOMAIN buffer /\ buffer[1] \in Pieces
    BY <1>1, <1>2, Completed
  <2> DEFINE n == Len(buffer)
  <2>3. n \in Nat \ {0} /\ n <= 1
    BY <2>1
  <2> HIDE DEF n
  <2>4. n = 1
    BY <2>3
  <2>5. QED
    BY <2>2, <2>4 DEF n
<1>5. buffer[1].event = AppendOf(c) /\ mark[c] = meta.next_sequence
  BY <1>1, <1>2, <1>4 DEF AppendInv
<1>6. meta.next_sequence = first + Due /\ Due \in Nat
  BY <1>1 DEF CountInv, TypeOK, Metas, Due
<1>7. buffer[1].event.sequence = first + Due /\ Due \in Nat
  BY <1>5, <1>6 DEF AppendOf
<1>8. Written <=> buffer[1].rest # "line"
  BY <1>2, <1>3 DEF Written
<1>9. buffer[1].rest # "line" => tail # NoTail
  BY <1>1, <1>4 DEF BufferInv, Pieces
<1>10. QED
  BY <1>2, <1>3, <1>4, <1>7, <1>8, <1>9

(* A flush before any write has failed puts the event where its number says. *)
LEMMA FlushNumbers ==
  ASSUME IInv, CountInv, NumberInv, LengthInv, NEW c \in Clients, AppendFlush(c)
  PROVE  /\ Len(buffer') <= 1
         /\ Broken' \/ (\A i \in DOMAIN lines' : lines'[i].sequence = first + i - 1)
         /\ tail' \in Event => Broken' \/ tail'.sequence = first + Len(lines')
         /\ Written'
         /\ Len(LinesRead)' <= Due + 1
         /\ Broken' \/ Len(LinesRead)' = Due + 1
         /\ tail' = Prefix => buffer' # << >> /\ buffer'[1].rest = "suffix"
<1> USE PersistentAssumption
<1>1. TypeOK /\ BufferInv /\ FileInv /\ FileType /\ first \in Nat \ {0}
  BY DEF IInv, TypeOK, FileType
<1>2. /\ buffer # << >> /\ Len(buffer) = 1 /\ 1 \in DOMAIN buffer
      /\ buffer[1].event.sequence = first + Due
      /\ Due \in Nat /\ status = "open"
      /\ pc[c] = "flush"
      /\ Written <=> buffer[1].rest # "line"
      /\ buffer[1].rest # "line" => tail # NoTail
  BY Flushing
<1>3. /\ Len(LinesRead) = Len(lines) + (IF tail = NoTail THEN 0 ELSE 1)
      /\ Len(lines) \in Nat /\ DOMAIN lines = 1 .. Len(lines)
  BY <1>1, WhatIsRead
<1>4. /\ Len(LinesRead) <= Due + (IF Written THEN 1 ELSE 0)
      /\ Broken \/ Len(LinesRead) = Due + (IF Written THEN 1 ELSE 0)
      /\ tail = Prefix => buffer[1].rest = "suffix"
  BY <1>2 DEF LengthInv, Running, Due
<1>5. /\ buffer[1].rest = "line" =>
           /\ Len(LinesRead) <= Due
           /\ Broken \/ Len(LinesRead) = Due
      /\ buffer[1].rest # "line" =>
           /\ Len(LinesRead) <= Due + 1
           /\ Broken \/ Len(LinesRead) = Due + 1
  BY <1>2, <1>4
<1>6. pc' = pc /\ meta' = meta
  BY DEF AppendFlush, threads
<1>7. CASE WritePiece
  <2>1. /\ lines' \in Seq(Event \cup {Garbage}) /\ tail' = NoTail
        /\ buffer' \in Seq(Pieces) /\ Len(buffer') = Len(buffer) - 1
        /\ Broken => Broken'
    BY <1>1, <1>2, <1>7, PieceWritten
  <2>2. buffer' = << >> /\ Len(buffer') = 0
    <3>1. Len(buffer') = 0
      BY <1>2, <2>1
    <3>2. QED
      BY <2>1, <3>1, EmptySeq
  <2>3. Written'
    BY <1>2, <1>6, <2>2 DEF Written
  <2> DEFINE line == CompletedLine(buffer[1])
  <2>4. /\ Head(buffer) = buffer[1] /\ buffer[1] \in Pieces
        /\ line \in {buffer[1].event, Garbage}
        /\ line # Garbage /\ buffer[1].rest = "line" => tail = NoTail
    <3>1. line # Garbage /\ buffer[1].rest = "line" => tail = NoTail
      BY DEF CompletedLine
    <3>2. QED
      BY <1>1, <1>2, <3>1, Completed
  <2>5. line \in Event \cup {Garbage}
    BY <2>4 DEF Pieces
  <2>6. lines' = Append(lines, line)
    BY <1>7, <2>4 DEF WritePiece
  <2> HIDE DEF line
  <2>7. /\ Len(lines') = Len(lines) + 1 /\ DOMAIN lines' = 1 .. Len(lines) + 1
        /\ \A i \in 1 .. Len(lines) : lines'[i] = lines[i]
        /\ lines'[Len(lines) + 1] = line
    BY <1>1, <2>5, <2>6, PushedLast DEF FileType
  <2>8. Len(LinesRead)' = Len(lines) + 1
    BY <2>1, <2>7 DEF LinesRead
  <2>9. line = Garbage => Broken'
    BY <1>3, <2>7 DEF Broken
  <2>10. ~Broken' => Len(lines) = Due
    <3>1. SUFFICES ASSUME ~Broken' PROVE Len(lines) = Due
      OBVIOUS
    <3>2. ~Broken /\ line # Garbage
      BY <2>1, <2>9, <3>1
    <3>3. CASE buffer[1].rest = "line"
      BY <1>3, <1>5, <2>4, <3>2, <3>3
    <3>4. CASE buffer[1].rest # "line"
      <4> DEFINE n == Len(lines)
                 read == Len(LinesRead)
      <4>1. n \in Nat /\ read = n + 1 /\ read = Due + 1
        BY <1>2, <1>3, <1>5, <3>2, <3>4
      <4> HIDE DEF n, read
      <4>2. n = Due
        BY <1>2, <4>1
      <4>3. QED
        BY <4>2 DEF n
    <3>5. QED
      BY <3>3, <3>4
  <2>11. Len(LinesRead)' <= Due + 1
    <3>1. CASE tail = NoTail
      BY <1>2, <1>3, <1>5, <2>8, <3>1
    <3>2. CASE tail # NoTail
      BY <1>2, <1>3, <1>5, <2>8, <3>2
    <3>3. QED
      BY <3>1, <3>2
  <2>12. ~Broken' => \A i \in DOMAIN lines' : lines'[i].sequence = first + i - 1
    <3>1. SUFFICES ASSUME ~Broken', NEW i \in 1 .. Len(lines) + 1 PROVE lines'[i].sequence = first + i - 1
      BY <2>7
    <3>2. line = buffer[1].event /\ ~Broken
      BY <2>1, <2>4, <2>9, <3>1
    <3>3. CASE i \in 1 .. Len(lines)
      BY <1>3, <2>7, <3>2, <3>3 DEF NumberInv
    <3>4. CASE i = Len(lines) + 1
      BY <1>2, <2>7, <2>10, <3>1, <3>2, <3>4
    <3>5. QED
      BY <1>3, <3>3, <3>4
  <2>13. Broken' \/ Len(LinesRead)' = Due + 1
    BY <2>8, <2>10
  <2>14. tail' \notin Event /\ tail' # Prefix
    BY <2>1
  <2>15. Len(buffer') <= 1
    BY <2>2
  <2>16. QED
    BY <2>3, <2>11, <2>12, <2>13, <2>14, <2>15
<1>8. CASE WritePart /\ UNCHANGED lines
  <2>1. /\ tail' \in Event \cup {Prefix, Garbage}
        /\ Len(buffer') = Len(buffer)
        /\ buffer' # << >> /\ buffer'[1].rest # "line"
        /\ tail' = Prefix => buffer'[1].rest = "suffix"
        /\ tail' \in Event => tail' = buffer[1].event
        /\ tail' # Garbage => tail = NoTail \/ buffer[1].rest = "suffix"
        /\ Broken => Broken'
    BY <1>1, <1>2, <1>8, PartWritten
  <2>2. Written'
    BY <1>2, <1>6, <2>1 DEF Written
  <2>3. tail' # NoTail
    BY <2>1
  <2>4. Len(LinesRead)' = Len(lines) + 1
    <3> DEFINE last == IF tail' \in Event THEN tail' ELSE Garbage
    <3>1. LinesRead' = Append(lines, last) /\ last \in Event \cup {Garbage}
      BY <1>8, <2>3 DEF LinesRead
    <3> HIDE DEF last
    <3>2. QED
      BY <1>1, <3>1, PushedLast DEF FileType
  <2>5. ~Broken' => Len(lines) = Due
    <3>1. SUFFICES ASSUME ~Broken' PROVE Len(lines) = Due
      OBVIOUS
    <3>2. ~Broken /\ tail' # Garbage
      BY <2>1, <3>1 DEF Broken
    <3>3. CASE buffer[1].rest = "line"
      <4>1. tail = NoTail
        BY <2>1, <3>2, <3>3
      <4>2. QED
        BY <1>2, <1>3, <1>5, <3>2, <3>3, <4>1
    <3>4. CASE buffer[1].rest # "line"
      <4> DEFINE n == Len(lines)
                 read == Len(LinesRead)
      <4>1. n \in Nat /\ read = n + 1 /\ read = Due + 1
        BY <1>2, <1>3, <1>5, <3>2, <3>4
      <4> HIDE DEF n, read
      <4>2. n = Due
        BY <1>2, <4>1
      <4>3. QED
        BY <4>2 DEF n
    <3>5. QED
      BY <3>3, <3>4
  <2>6. Len(LinesRead)' <= Due + 1
    <3>1. CASE tail = NoTail
      BY <1>2, <1>3, <1>5, <2>4, <3>1
    <3>2. CASE tail # NoTail
      BY <1>2, <1>3, <1>5, <2>4, <3>2
    <3>3. QED
      BY <3>1, <3>2
  <2>7. ~Broken' => \A i \in DOMAIN lines' : lines'[i].sequence = first + i - 1
    BY <1>8, <2>1 DEF NumberInv
  <2>8. tail' \in Event => Broken' \/ tail'.sequence = first + Len(lines')
    BY <1>2, <1>8, <2>1, <2>5
  <2>9. QED
    BY <1>2, <2>1, <2>2, <2>4, <2>5, <2>6, <2>7, <2>8
<1>9. QED
  BY <1>7, <1>8 DEF AppendFlush

(* A readable file is numbered from the first on: scan_log counts it.       *)
LEMMA ScannedCount ==
  ASSUME TypeOK, NumberInv, Readable(LinesRead)
  PROVE  /\ LinesRead \in Seq(Event) /\ Len(LinesRead) \in Nat
         /\ StartsAt(LinesRead, first)
         /\ ScanLog.event_count = Len(LinesRead)
         /\ LinesRead = << >> => ScanLog.next_sequence = 1
         /\ LinesRead # << >> => ScanLog.next_sequence = first + Len(LinesRead)
         /\ tail # Prefix
<1> USE PersistentAssumption
<1>1. FileType /\ first \in Nat \ {0}
  BY DEF TypeOK, FileType
<1>2. ~Broken /\ tail \in Event \cup {NoTail} /\ LinesRead \in Seq(Event)
  BY <1>1, ReadableFile
<1>3. /\ Len(LinesRead) = Len(lines) + (IF tail = NoTail THEN 0 ELSE 1)
      /\ Len(lines) \in Nat
      /\ DOMAIN lines = 1 .. Len(lines)
      /\ DOMAIN LinesRead = 1 .. Len(LinesRead)
      /\ \A i \in DOMAIN lines : LinesRead[i] = lines[i]
      /\ tail \in Event => LinesRead[Len(lines) + 1] = tail
  BY <1>1, WhatIsRead
<1>4. StartsAt(LinesRead, first)
  <2> SUFFICES ASSUME NEW i \in DOMAIN LinesRead PROVE LinesRead[i].sequence = first + i - 1
    BY DEF StartsAt
  <2>1. CASE i \in DOMAIN lines
    BY <1>2, <1>3, <2>1 DEF NumberInv
  <2>2. CASE i \notin DOMAIN lines
    <3>1. tail \in Event /\ i = Len(lines) + 1
      BY <1>2, <1>3, <2>2
    <3>2. LinesRead[i].sequence = first + Len(lines)
      BY <1>2, <1>3, <3>1 DEF NumberInv
    <3>3. QED
      BY <1>1, <1>3, <3>1, <3>2
  <2>3. QED
    BY <2>1, <2>2
<1>5. Len(LinesRead) \in Nat /\ tail # Prefix
  BY <1>2, <1>3
<1>6. ScanLog.event_count = Len(LinesRead) /\ ScanLog.next_sequence = MaxSequence(LinesRead) + 1
  BY DEF ScanLog, Meta
<1>7. LinesRead = << >> => ScanLog.next_sequence = 1
  BY <1>6 DEF MaxSequence
<1>8. LinesRead # << >> => ScanLog.next_sequence = first + Len(LinesRead)
  <2> DEFINE es == LinesRead
  <2>1. es \in Seq(Event) /\ StartsAt(es, first) /\ ScanLog.next_sequence = MaxSequence(es) + 1
    BY <1>2, <1>4, <1>6
  <2> HIDE DEF es
  <2>2. es # << >> => ScanLog.next_sequence = first + Len(es)
    BY <1>1, <2>1, MaxSequenceStarting
  <2>3. QED
    BY <2>2 DEF es
<1>9. QED
  BY <1>2, <1>4, <1>5, <1>6, <1>7, <1>8

(* A damaged meta.json is off by what it is off by. *)
LEMMA OffByItself ==
  ASSUME NEW m, m \in Claims, NEW from \in Nat \ {0}, NEW n \in Int,
         m.next_sequence = from, n = m.event_count
  PROVE  m \in Metas /\ OffBy(n, from)
<1> USE PersistentAssumption
<1>1. CASE m \in CorruptMetas \ {NoMeta}
  <2>1. m \in Metas /\ n = m.event_count + from - m.next_sequence
    BY <1>1 DEF Metas
  <2>2. QED
    BY <1>1, <2>1 DEF OffBy
<1>2. CASE m = Meta(1, 0)
  <2>1. n = 0 /\ m \in Metas
    BY <1>2 DEF Meta, Metas
  <2>2. QED
    BY <2>1 DEF OffBy
<1>3. QED
  BY <1>1, <1>2 DEF Claims

(* Whatever meta.json says, open numbers on from what is in the file; it    *)
(* counts that too, or takes over a damaged count.                          *)
LEMMA ResolvedCount ==
  ASSUME TypeOK, FileInv, CountInv, NumberInv, ~log_exists \/ Readable(LinesRead),
         NEW base, base = (IF LinesRead = << >> THEN ResolvedMeta.next_sequence ELSE first)
  PROVE  /\ ResolvedMeta \in Metas /\ Len(LinesRead) \in Nat
         /\ base \in Nat \ {0}
         /\ base = 1 \/ Meta(base, 0) \in CorruptMetas
         /\ ResolvedMeta.next_sequence = base + Len(LinesRead)
         /\ OffBy(ResolvedMeta.event_count - Len(LinesRead), base)
         /\ LinesRead = << >> => ResolvedMeta \in Claims
         /\ tail # Prefix
<1> USE PersistentAssumption
<1>1. ResolvedMeta \in Metas /\ first \in Nat \ {0} /\ FileType
  BY Resolved DEF TypeOK, FileType
<1>2. meta_file # NoMeta => meta_file \in Metas
  BY DEF TypeOK
<1>3. /\ LinesRead = << >> <=> Len(LinesRead) = 0
      /\ Len(LinesRead) \in Nat
  BY <1>1, NothingRead
<1>4. tail # Prefix
  <2>1. CASE log_exists
    BY <2>1, ScannedCount
  <2>2. CASE ~log_exists
    BY <2>2 DEF FileInv
  <2>3. QED
    BY <2>1, <2>2
<1>5. CASE LinesRead = << >>
  <2>1. base = ResolvedMeta.next_sequence /\ Len(LinesRead) = 0
    BY <1>3, <1>5
  <2>2. /\ ResolvedMeta \in Claims
        /\ ResolvedMeta.next_sequence = 1 \/ Meta(ResolvedMeta.next_sequence, 0) \in CorruptMetas
    <3>1. meta_file = NoMeta \/ meta_file \in Claims
      BY <1>5 DEF CountInv
    <3>2. CASE ResolvedMeta = Meta(1, 0)
      BY <3>2 DEF Meta, Claims
    <3>3. CASE log_exists /\ ResolvedMeta # meta_file
      <4>1. ResolvedMeta = ScanLog
        BY <3>3 DEF ResolvedMeta
      <4>2. ResolvedMeta = Meta(1, 0)
        BY <1>1, <1>5, <2>1, <3>3, <4>1, ScannedCount DEF ScanLog, Meta
      <4>3. QED
        BY <3>2, <4>2
    <3>4. CASE log_exists /\ ResolvedMeta = meta_file /\ meta_file # NoMeta
      <4>1. ResolvedMeta.next_sequence = ScanLog.next_sequence \/ ResolvedMeta = ScanLog
        BY <3>4 DEF ResolvedMeta
      <4>2. ResolvedMeta.next_sequence = 1
        BY <1>5, <3>4, <4>1, ScannedCount
      <4>3. QED
        BY <3>1, <3>4, <4>2
    <3>5. CASE ~log_exists /\ ResolvedMeta # Meta(1, 0)
      <4>1. ResolvedMeta = meta_file /\ meta_file # NoMeta /\ meta_file.event_count = 0
        BY <3>5 DEF ResolvedMeta
      <4>2. meta_file = Meta(meta_file.next_sequence, 0)
        BY <1>2, <4>1 DEF Metas, Meta
      <4>3. meta_file \in CorruptMetas
        BY <3>1, <3>5, <4>1 DEF Claims
      <4>4. QED
        BY <3>1, <4>1, <4>2, <4>3
    <3>6. QED
      BY <1>1, <3>2, <3>3, <3>4, <3>5
  <2> DEFINE n == ResolvedMeta.event_count - Len(LinesRead)
  <2>3. n \in Int /\ n = ResolvedMeta.event_count /\ ResolvedMeta.next_sequence \in Nat \ {0}
    BY <1>1, <2>1 DEF Metas
  <2> HIDE DEF n
  <2>4. OffBy(n, ResolvedMeta.next_sequence)
    BY <2>2, <2>3, OffByItself
  <2>5. ResolvedMeta.next_sequence = base + Len(LinesRead)
    BY <2>1, <2>3
  <2>6. OffBy(n, base) /\ base \in Nat \ {0} /\ (base = 1 \/ Meta(base, 0) \in CorruptMetas)
    BY <2>1, <2>2, <2>3, <2>4
  <2>7. QED
    BY <1>1, <1>3, <1>4, <2>2, <2>5, <2>6 DEF n
<1>6. CASE LinesRead # << >>
  <2>1. base = first /\ Len(LinesRead) \in Nat \ {0}
    BY <1>3, <1>6
  <2>2. log_exists
    <3>1. ~log_exists => lines = << >> /\ tail = NoTail
      BY DEF FileInv
    <3>2. QED
      BY <1>6, <3>1 DEF LinesRead
  <2>3. /\ ScanLog.event_count = Len(LinesRead)
        /\ ScanLog.next_sequence = first + Len(LinesRead)
    BY <1>6, <2>2, ScannedCount
  <2> DEFINE n == ResolvedMeta.event_count - Len(LinesRead)
  <2>4. ResolvedMeta = ScanLog \/
          (meta_file # NoMeta /\ ResolvedMeta = meta_file
             /\ meta_file.next_sequence = ScanLog.next_sequence)
    BY <2>2 DEF ResolvedMeta
  <2>5. ResolvedMeta.next_sequence = first + Len(LinesRead) /\ ResolvedMeta.event_count \in Nat
    BY <1>1, <2>3, <2>4 DEF Metas
  <2>6. OffBy(n, first)
    <3>1. CASE ResolvedMeta = ScanLog
      <4>1. n = 0
        BY <2>1, <2>3, <3>1
      <4>2. QED
        BY <4>1 DEF OffBy
    <3>2. CASE meta_file # NoMeta /\ ResolvedMeta = meta_file
      <4>1. n = meta_file.event_count + first - meta_file.next_sequence
        BY <1>1, <2>1, <2>5, <3>2
      <4> HIDE DEF n
      <4>2. CASE OffBy(meta_file.event_count + first - meta_file.next_sequence, first)
        BY <4>1, <4>2
      <4>3. CASE meta_file \in CorruptMetas \ {NoMeta}
        BY <4>1, <4>3 DEF OffBy
      <4>4. CASE meta_file = Meta(1, 0)
        <5>1. FALSE
          BY <1>1, <2>1, <2>5, <3>2, <4>4 DEF Meta
        <5>2. QED
          BY <5>1
      <4>5. QED
        BY <3>2, <4>2, <4>3, <4>4 DEF CountInv, Claims
    <3>3. QED
      BY <2>4, <3>1, <3>2
  <2> HIDE DEF n
  <2>7. first = 1 \/ Meta(first, 0) \in CorruptMetas
    BY DEF CountInv
  <2>8. QED
    BY <1>1, <1>4, <1>6, <2>1, <2>5, <2>6, <2>7 DEF n
<1>7. QED
  BY <1>5, <1>6

(* meta.json is rewritten with what the store has in memory, or damaged.    *)
LEMMA MetaFileSteps ==
  ASSUME IInv, [Next]_vars
  PROVE  \/ UNCHANGED meta_file
         \/ meta_file' = meta /\ status \in Running
         \/ meta_file' \in CorruptMetas /\ "meta_corrupt" \in Faults
<1>1. ASSUME NEW c \in Clients, Step(c)
      PROVE  UNCHANGED meta_file \/ (meta_file' = meta /\ pc[c] = "persist")
  BY <1>1 DEF Step, AppendBackpressure, AppendBuffer, AppendFlush, AppendFlushFails, AppendAdvance,
              AppendPersist, ReplaySnapshot, ReplayNothing, ReplayScan, Read, disk
<1>2. \A c \in Clients : pc[c] = "persist" => status = "open"
  BY DEF IInv, TypeOK
<1>3. QED
  BY <1>1, <1>2 DEF Next, Open, OpenScan, OpenRefused, OpenRetry, OpenWriteMeta, OpenCreateLog, Close,
              CloseWrite, Crash, CorruptMeta, Call, vars, disk, Running

(* As long as no write fails, every step keeps a count off by what open     *)
(* took over, and a meta.json off by no more than a damaged one.            *)
LEMMA StepCount == IInv /\ [Next]_vars /\ NoWriteFailed' => CountInv'
<1> SUFFICES ASSUME IInv, [Next]_vars, NoWriteFailed' PROVE CountInv'
  OBVIOUS
<1> USE PersistentAssumption
<1>1. TypeOK /\ FileInv /\ AppendInv /\ FileType
  BY DEF IInv, TypeOK, FileType
<1>2. CountInv /\ NumberInv
  BY NoWriteFailedYet
<1>3. /\ meta \in Metas /\ meta.event_count \in Nat /\ meta.next_sequence \in Nat \ {0}
      /\ first \in Nat \ {0} /\ miscount \in Int
  BY <1>1 DEF TypeOK, Metas
<1>4. CASE OpenScan
  <2> DEFINE base == IF LinesRead = << >> THEN ResolvedMeta.next_sequence ELSE first
  <2>1. /\ ~log_exists \/ Readable(LinesRead)
        /\ meta' = ResolvedMeta /\ first' = base
        /\ miscount' = ResolvedMeta.event_count - Len(LinesRead)
        /\ undercounted' = (undercounted \/ miscount' < 0)
        /\ UNCHANGED <<lines, tail, meta_file>>
    BY <1>4 DEF OpenScan, disk
  <2>2. LinesRead # << >> => base = first
    OBVIOUS
  <2>3. \A b : b = base =>
          /\ ResolvedMeta \in Metas /\ Len(LinesRead) \in Nat
          /\ b \in Nat \ {0}
          /\ b = 1 \/ Meta(b, 0) \in CorruptMetas
          /\ ResolvedMeta.next_sequence = b + Len(LinesRead)
          /\ OffBy(ResolvedMeta.event_count - Len(LinesRead), b)
          /\ LinesRead = << >> => ResolvedMeta \in Claims
    BY <1>1, <1>2, <2>1, ResolvedCount
  <2> HIDE DEF base
  <2>4. /\ ResolvedMeta \in Metas /\ Len(LinesRead) \in Nat
        /\ base \in Nat \ {0}
        /\ base = 1 \/ Meta(base, 0) \in CorruptMetas
        /\ ResolvedMeta.next_sequence = base + Len(LinesRead)
        /\ OffBy(miscount', base)
        /\ LinesRead = << >> => ResolvedMeta \in Claims
    BY <2>1, <2>3
  <2>5. meta'.next_sequence >= first' /\ meta'.event_count = meta'.next_sequence - first' + miscount'
    BY <2>1, <2>4 DEF Metas
  <2>6. OffBy(miscount, first)'
    BY <2>1, <2>4 DEF OffBy
  <2>7. ~undercounted' => miscount' >= 0
    <3>1. miscount' < 0 \/ miscount' >= 0
      BY <2>1, <2>4 DEF Metas
    <3>2. QED
      BY <2>1, <3>1, Zenon
  <2>8. LinesRead' = LinesRead
    BY <2>1 DEF LinesRead
  <2>9. \/ meta_file' \in Claims \cup {NoMeta}
        \/ OffBy(meta_file.event_count + first - meta_file.next_sequence, first)'
    BY <1>2, <2>1, <2>2 DEF CountInv, OffBy
  <2>10. LinesRead' = << >> =>
           meta_file' \in Claims \cup {NoMeta} /\ (status' \in Running => meta' \in Claims)
    BY <1>2, <2>1, <2>4, <2>8 DEF CountInv
  <2>11. QED
    BY <2>1, <2>4, <2>5, <2>6, <2>7, <2>9, <2>10 DEF CountInv
<1>5. CASE ~OpenScan
  <2>1. UNCHANGED <<first, miscount, undercounted>>
    BY <1>5, OpenedSteps
  <2>2. \/ UNCHANGED meta
        \/ \E c \in Clients : AppendAdvance(c)
    <3>1. ASSUME NEW c \in Clients, Step(c) \/ Call(c) PROVE UNCHANGED meta \/ AppendAdvance(c)
      BY <3>1 DEF Call, Step, AppendBackpressure, AppendBuffer, AppendFlush, AppendFlushFails,
                  AppendPersist, ReplaySnapshot, ReplayNothing, ReplayScan, Read
    <3>2. QED
      BY <1>5, <3>1 DEF Next, Open, OpenRefused, OpenRetry, OpenWriteMeta, OpenCreateLog, Close,
                  CloseWrite, Crash, CorruptMeta, vars
  <2>3. meta'.next_sequence >= first /\ meta'.event_count = meta'.next_sequence - first + miscount
    <3>1. meta.next_sequence >= first /\ meta.event_count = meta.next_sequence - first + miscount
      BY <1>2 DEF CountInv
    <3>2. ASSUME NEW c \in Clients, AppendAdvance(c)
          PROVE  meta'.next_sequence = meta.next_sequence + 1 /\ meta'.event_count = meta.event_count + 1
      BY <3>2 DEF AppendAdvance, Meta
    <3>3. QED
      BY <1>3, <2>2, <3>1, <3>2
  <2>4. OffBy(miscount, first)'
    BY <1>2, <2>1 DEF CountInv, OffBy
  <2>5. \/ meta_file' \in Claims \cup {NoMeta}
        \/ OffBy(meta_file.event_count + first - meta_file.next_sequence, first)'
    <3>1. CASE UNCHANGED meta_file
      BY <1>2, <2>1, <3>1 DEF CountInv, OffBy
    <3>2. CASE meta_file' = meta
      <4>1. meta_file'.event_count + first - meta_file'.next_sequence = miscount
        BY <1>2, <1>3, <3>2 DEF CountInv
      <4>2. OffBy(meta_file.event_count + first - meta_file.next_sequence, first)'
        BY <2>1, <2>4, <4>1 DEF OffBy
      <4>3. QED
        BY <4>2
    <3>3. CASE meta_file' \in CorruptMetas
      BY <3>3 DEF Claims
    <3>4. QED
      BY <3>1, <3>2, <3>3, MetaFileSteps
  <2>6. ASSUME LinesRead' = << >>
        PROVE  meta_file' \in Claims \cup {NoMeta} /\ (status' \in Running => meta' \in Claims)
    <3>1. UNCHANGED <<lines, tail>>
      <4>1. CASE buffer # << >> /\ WritePiece
        <5>1. lines' # << >> /\ tail' = NoTail
          BY <1>1, <4>1 DEF WritePiece
        <5>2. QED
          BY <2>6, <5>1 DEF LinesRead
      <4>2. CASE buffer # << >> /\ WritePart /\ UNCHANGED lines
        <5>1. tail' # NoTail
          BY <4>2, PartWritten DEF IInv
        <5>2. LinesRead' # << >>
          BY <1>1, <4>2, <5>1 DEF LinesRead, FileType
        <5>3. QED
          BY <2>6, <5>2
      <4>3. QED
        BY <4>1, <4>2, FileSteps
    <3>2. LinesRead = << >>
      BY <2>6, <3>1 DEF LinesRead
    <3>3. meta_file \in Claims \cup {NoMeta} /\ (status \in Running => meta \in Claims)
      BY <1>2, <3>2 DEF CountInv
    <3>4. \A c \in Clients : ~AppendAdvance(c)
      <4> SUFFICES ASSUME NEW c \in Clients, AppendAdvance(c) PROVE FALSE
        OBVIOUS
      <4>1. Stored(AppendOf(c))
        BY <1>1 DEF AppendAdvance, AppendInv
      <4>2. QED
        BY <1>1, <3>2, <4>1, NothingRead DEF Stored
    <3>5. UNCHANGED meta
      BY <2>2, <3>4
    <3>6. status' \in Running => status \in Running
      BY <1>5, RunningSteps
    <3>7. meta_file' \in Claims \cup {NoMeta}
      BY <3>3, MetaFileSteps DEF Claims
    <3>8. QED
      BY <3>3, <3>5, <3>6, <3>7
  <2>7. QED
    BY <1>2, <2>1, <2>3, <2>4, <2>5, <2>6 DEF CountInv
<1>6. QED
  BY <1>4, <1>5

(* As long as no write fails, every step keeps numbers, lengths and capacity. *)
LEMMA StepNumber == IInv /\ [Next]_vars /\ NoWriteFailed' => NumberInv' /\ LengthInv' /\ CapacityInv'
<1> SUFFICES ASSUME IInv, [Next]_vars, NoWriteFailed'
             PROVE  NumberInv' /\ LengthInv' /\ CapacityInv'
  OBVIOUS
<1> USE PersistentAssumption
<1>1. TypeOK /\ FileInv /\ AppendInv /\ FileType /\ first \in Nat \ {0} /\ miscount \in Int
  BY DEF IInv, TypeOK, FileType
<1>2. /\ CountInv /\ NumberInv /\ LengthInv /\ CapacityInv
      /\ ~CloseWrite
      /\ \A c \in Clients : ~AppendFlushFails(c)
  BY NoWriteFailedYet
<1>3. /\ meta.event_count \in Nat /\ meta.next_sequence \in Nat
      /\ Due \in Nat /\ meta.next_sequence = first + Due /\ meta.event_count = Due + miscount
      /\ ~undercounted => miscount >= 0
      /\ meta.next_sequence - first = Due
  BY <1>1, <1>2 DEF TypeOK, Metas, CountInv, Due
<1>4. Len(LinesRead) \in Nat
  <2> DEFINE es == LinesRead
  <2>1. es \in Seq(Event \cup {Garbage})
    BY <1>1, WhatIsRead
  <2> HIDE DEF es
  <2>2. Len(es) \in Nat
    BY <2>1, LenProperties
  <2>3. QED
    BY <2>2 DEF es
<1> DEFINE Goal == NumberInv' /\ LengthInv' /\ CapacityInv'
<1>5. ASSUME NEW c \in Clients, AppendFlush(c) PROVE Goal
  <2>1. /\ Len(buffer') <= 1
        /\ Broken' \/ (\A i \in DOMAIN lines' : lines'[i].sequence = first + i - 1)
        /\ tail' \in Event => Broken' \/ tail'.sequence = first + Len(lines')
        /\ Written'
        /\ Len(LinesRead)' <= Due + 1
        /\ Broken' \/ Len(LinesRead)' = Due + 1
        /\ tail' = Prefix => buffer' # << >> /\ buffer'[1].rest = "suffix"
    BY <1>2, <1>5, FlushNumbers
  <2>2. /\ UNCHANGED <<meta, meta_file, pc, first, undercounted>>
        /\ pc[c] = "flush" /\ status' = "open" /\ status = "open"
    BY <1>1, <1>5 DEF AppendFlush, threads, TypeOK, opened
  <2>3. NumberInv'
    BY <1>2, <2>1, <2>2 DEF NumberInv
  <2>4. LengthInv'
    <3> DEFINE n == meta'.next_sequence - first'
    <3>1. n = Due
      BY <1>3, <2>2
    <3> HIDE DEF n
    <3>2. Len(LinesRead)' <= n + 1 /\ (Broken' \/ Len(LinesRead)' = n + 1)
      BY <2>1, <3>1
    <3>3. QED
      BY <2>1, <3>2 DEF LengthInv, n
  <2>5. CapacityInv'
    <3> SUFFICES ASSUME Capacity # Unbounded
                 PROVE  /\ ~undercounted' => Len(LinesRead)' <= Capacity
                        /\ \A d \in Clients : pc'[d] = "flush" => meta'.event_count < Capacity
      BY DEF CapacityInv
    <3>1. Capacity \in Nat /\ meta.event_count < Capacity
      BY <1>2, <2>2 DEF CapacityInv
    <3>2. Len(LinesRead)' \in Nat
      <4>1. TypeOK'
        BY StepType
      <4>2. FileType'
        BY <4>1 DEF TypeOK, FileType
      <4>3. CASE tail' = NoTail
        BY <4>2, <4>3, LenProperties DEF LinesRead, FileType
      <4>4. CASE tail' # NoTail
        <5> DEFINE last == IF tail' \in Event THEN tail' ELSE Garbage
        <5>1. LinesRead' = Append(lines', last) /\ last \in Event \cup {Garbage}
          BY <4>4 DEF LinesRead
        <5> HIDE DEF last
        <5>2. QED
          BY <4>2, <5>1, PushedLast DEF FileType
      <4>5. QED
        BY <4>3, <4>4
    <3>3. ~undercounted' => Len(LinesRead)' <= Capacity
      BY <1>1, <1>3, <2>1, <2>2, <3>1, <3>2
    <3>4. QED
      BY <1>3, <2>2, <3>1, <3>3
  <2>6. QED
    BY <2>3, <2>4, <2>5
<1>6. ASSUME NEW c \in Clients, AppendBuffer(c) PROVE Goal
  <2> DEFINE new == Piece([sequence |-> meta.next_sequence, payload |-> request[c].payload], "line")
  <2>1. \A d \in Clients : pc[d] \notin {"flush", "persist"}
    BY <1>1, <1>6 DEF AppendBuffer, TypeOK
  <2>2. buffer = << >> /\ ~Written
    BY <1>2, <2>1 DEF NumberInv, Written
  <2>3. new \in Pieces /\ new.rest = "line"
    <3>1. [sequence |-> meta.next_sequence, payload |-> request[c].payload] \in Event
      BY <1>1, <1>6, AppendIsEvent DEF AppendBuffer
    <3>2. QED
      BY <3>1 DEF Piece, Pieces
  <2>4. /\ buffer' = Append(buffer, new) /\ UNCHANGED <<lines, tail, status, meta, first, undercounted>>
        /\ pc' = [pc EXCEPT ![c] = "flush"] /\ ~AtCapacity
    BY <1>6 DEF AppendBuffer, Goto, disk, opened
  <2> HIDE DEF new
  <2>5. Len(buffer') = 1 /\ buffer'[1] = new /\ buffer' # << >>
    BY <2>2, <2>4
  <2>6. ~Written'
    BY <2>3, <2>5 DEF Written
  <2>7. pc'[c] = "flush"
    BY <1>1, <2>4 DEF TypeOK
  <2>8. NumberInv'
    BY <1>2, <2>4, <2>5, <2>7 DEF NumberInv, Broken
  <2>9. LinesRead' = LinesRead
    BY <2>4 DEF LinesRead
  <2>10. LengthInv'
    <3>1. status \in Running => tail # Prefix
      BY <1>2, <2>2 DEF LengthInv
    <3>2. QED
      BY <1>2, <2>2, <2>4, <2>6, <2>9, <3>1 DEF LengthInv, Broken
  <2>11. CapacityInv'
    BY <1>2, <1>3, <2>4, <2>9 DEF CapacityInv, AtCapacity
  <2>12. QED
    BY <2>8, <2>10, <2>11
<1>7. ASSUME NEW c \in Clients, AppendAdvance(c) PROVE Goal
  <2>1. /\ buffer = << >> /\ pc[c] = "flush" /\ pc' = [pc EXCEPT ![c] = "persist"]
        /\ UNCHANGED <<lines, tail, status, buffer, first, undercounted>>
        /\ meta'.next_sequence = meta.next_sequence + 1 /\ meta'.event_count = meta.event_count + 1
    BY <1>7 DEF AppendAdvance, Goto, disk, Meta, opened
  <2>2. \A d \in Clients : pc'[d] # "flush"
    BY <1>1, <2>1 DEF TypeOK
  <2>3. Written /\ ~Written'
    BY <2>1, <2>2 DEF Written
  <2>4. NumberInv'
    BY <1>2, <2>1 DEF NumberInv, Broken
  <2>5. LinesRead' = LinesRead
    BY <2>1 DEF LinesRead
  <2>6. LengthInv'
    <3>1. meta'.next_sequence - first' = Due + 1
      BY <1>1, <1>3, <2>1
    <3>2. status \in Running =>
            /\ Len(LinesRead) <= Due + 1
            /\ Broken \/ Len(LinesRead) = Due + 1
            /\ tail = Prefix => buffer # << >> /\ buffer[1].rest = "suffix"
      BY <1>2, <1>3, <2>3 DEF LengthInv
    <3> DEFINE n == meta'.next_sequence - first'
    <3>3. n = Due + 1
      BY <3>1
    <3> HIDE DEF n
    <3>4. status' \in Running =>
            /\ Len(LinesRead)' <= n + 0
            /\ Broken' \/ Len(LinesRead)' = n + 0
            /\ tail' = Prefix => buffer' # << >> /\ buffer'[1].rest = "suffix"
      BY <1>3, <2>1, <2>5, <3>2, <3>3 DEF Broken
    <3>5. QED
      BY <2>3, <3>4 DEF LengthInv, n
  <2>7. CapacityInv'
    BY <1>2, <2>1, <2>2, <2>5 DEF CapacityInv
  <2>8. QED
    BY <2>4, <2>6, <2>7
<1>8. ASSUME Crash \/ OpenCreateLog PROVE Goal
  <2>1. /\ buffer' = << >> /\ UNCHANGED <<lines, tail, meta, first, undercounted>>
        /\ \A d \in Clients : pc'[d] # "flush"
    BY <1>1, <1>8 DEF Crash, OpenCreateLog, disk, threads, TypeOK, opened
  <2>2. NumberInv'
    <3>1. Len(buffer') = 0
      BY <2>1, EmptySeq
    <3>2. QED
      BY <1>2, <2>1, <3>1 DEF NumberInv, Broken
  <2>3. LinesRead' = LinesRead /\ ~Written'
    BY <2>1 DEF LinesRead, Written
  <2>4. LengthInv'
    <3>1. CASE Crash
      BY <3>1 DEF Crash, LengthInv, Running
    <3>2. CASE OpenCreateLog
      <4>1. status \in Running /\ \A d \in Clients : pc[d] # "flush"
        BY <1>1, <3>2 DEF OpenCreateLog, Running, TypeOK
      <4>2. ~Written /\ buffer = << >>
        BY <1>2, <4>1 DEF Written, NumberInv
      <4>3. QED
        BY <1>2, <2>1, <2>3, <4>1, <4>2 DEF LengthInv, Broken
    <3>3. QED
      BY <1>8, <3>1, <3>2
  <2>5. CapacityInv'
    BY <1>2, <1>8, <2>1, <2>3 DEF CapacityInv, Crash, OpenCreateLog, Running
  <2>6. QED
    BY <2>2, <2>4, <2>5
<1>9. ASSUME ~Crash, ~OpenCreateLog,
             \A c \in Clients : ~AppendBuffer(c) /\ ~AppendFlush(c) /\ ~AppendAdvance(c)
      PROVE  Goal
  <2>1. /\ UNCHANGED <<lines, tail, buffer>>
        /\ \A d \in Clients : pc'[d] = "flush" <=> pc[d] = "flush"
    BY <1>2, <1>9, FlushingSteps
  <2>2. LinesRead' = LinesRead /\ (Written' <=> Written) /\ (Broken' <=> Broken)
    BY <2>1 DEF LinesRead, Written, Broken
  <2>3. CASE OpenScan
    <3> DEFINE base == IF LinesRead = << >> THEN ResolvedMeta.next_sequence ELSE first
    <3>1. /\ meta' = ResolvedMeta /\ first' = base
          /\ undercounted' \in BOOLEAN /\ (undercounted => undercounted')
          /\ \A d \in Clients : pc[d] # "flush"
          /\ ~log_exists \/ Readable(LinesRead)
      BY <1>1, <2>3 DEF OpenScan, TypeOK
    <3>2. \A b : b = base =>
            /\ b \in Nat \ {0} /\ Len(LinesRead) \in Nat
            /\ ResolvedMeta.next_sequence = b + Len(LinesRead)
            /\ tail # Prefix
      BY <1>1, <1>2, <3>1, ResolvedCount
    <3>3. LinesRead # << >> => base = first
      OBVIOUS
    <3> HIDE DEF base
    <3>4. /\ base \in Nat \ {0} /\ Len(LinesRead) \in Nat
          /\ meta'.next_sequence - first' = Len(LinesRead)
          /\ tail # Prefix
      BY <3>1, <3>2
    <3>5. ~Written'
      BY <2>2, <3>1 DEF Written
    <3>6. NumberInv'
      <4>1. CASE LinesRead # << >>
        BY <1>2, <2>1, <2>2, <3>1, <3>3, <4>1 DEF NumberInv
      <4>2. CASE LinesRead = << >>
        <5>1. DOMAIN lines' = {} /\ tail' \notin Event
          BY <1>1, <2>1, <4>2, NothingRead
        <5>2. QED
          BY <1>2, <2>1, <5>1 DEF NumberInv
      <4>3. QED
        BY <4>1, <4>2
    <3>7. LengthInv'
      <4> DEFINE n == meta'.next_sequence - first'
      <4>1. n = Len(LinesRead)
        BY <3>4
      <4> HIDE DEF n
      <4>2. /\ Len(LinesRead)' <= n + 0
            /\ Broken' \/ Len(LinesRead)' = n + 0
            /\ tail' # Prefix
        BY <2>1, <2>2, <3>4, <4>1
      <4>3. QED
        BY <3>5, <4>2 DEF LengthInv, n
    <3>8. CapacityInv'
      BY <1>2, <2>1, <2>2, <3>1 DEF CapacityInv
    <3>9. QED
      BY <3>6, <3>7, <3>8
  <2>4. CASE ~OpenScan
    <3>1. UNCHANGED meta
      <4>1. ASSUME NEW c \in Clients, Step(c) \/ Call(c) PROVE UNCHANGED meta \/ AppendAdvance(c)
        BY <4>1 DEF Call, Step, AppendBackpressure, AppendBuffer, AppendFlush, AppendFlushFails,
                    AppendPersist, ReplaySnapshot, ReplayNothing, ReplayScan, Read
      <4>2. QED
        BY <1>9, <2>4, <4>1 DEF Next, Open, OpenRefused, OpenRetry, OpenWriteMeta, OpenCreateLog, Close,
                    CloseWrite, Crash, CorruptMeta, vars
    <3>2. status' \in Running => status \in Running
      BY <2>4, RunningSteps
    <3>3. UNCHANGED <<first, undercounted>>
      BY <2>4, OpenedSteps
    <3>4. NumberInv'
      BY <1>2, <2>1, <2>2, <3>3 DEF NumberInv
    <3>5. LengthInv'
      BY <1>2, <2>1, <2>2, <3>1, <3>2, <3>3 DEF LengthInv
    <3>6. CapacityInv'
      BY <1>2, <2>1, <2>2, <3>1, <3>3 DEF CapacityInv
    <3>7. QED
      BY <3>4, <3>5, <3>6
  <2>5. QED
    BY <2>3, <2>4
<1>10. QED
  BY <1>5, <1>6, <1>7, <1>8, <1>9

(* Where nothing fails but processes, open counts what is in the file.      *)
LEMMA WholeOpen ==
  ASSUME TypeOK, FileInv, NumberInv, first = 1, ~log_exists \/ Readable(LinesRead),
         meta_file # NoMeta => meta_file.event_count = meta_file.next_sequence - 1
  PROVE  /\ ResolvedMeta.event_count = ResolvedMeta.next_sequence - 1
         /\ LinesRead = << >> => ResolvedMeta.next_sequence = 1
<1> USE PersistentAssumption
<1>1. meta_file # NoMeta => meta_file \in Metas
  BY DEF TypeOK
<1>2. CASE ~log_exists
  <2>1. ResolvedMeta = Meta(1, 0) \/
          (meta_file # NoMeta /\ ResolvedMeta = meta_file /\ meta_file.event_count = 0)
    BY <1>2 DEF ResolvedMeta
  <2>2. QED
    BY <1>1, <2>1 DEF Meta, Metas
<1>3. CASE log_exists
  <2>1. /\ Len(LinesRead) \in Nat
        /\ ScanLog.event_count = Len(LinesRead)
        /\ LinesRead = << >> => ScanLog.next_sequence = 1
        /\ LinesRead # << >> => ScanLog.next_sequence = first + Len(LinesRead)
    BY <1>3, ScannedCount
  <2>2. LinesRead = << >> => Len(LinesRead) = 0
    BY NothingRead DEF TypeOK, FileType
  <2>3. ResolvedMeta = ScanLog \/
          (meta_file # NoMeta /\ ResolvedMeta = meta_file
             /\ meta_file.next_sequence = ScanLog.next_sequence)
    BY <1>3 DEF ResolvedMeta
  <2>4. QED
    BY <2>1, <2>2, <2>3
<1>4. QED
  BY <1>2, <1>3

(* Where nothing fails but processes, no step leaves part of a line. *)
LEMMA StepWhole == IInv /\ [Next]_vars => WholeInv'
<1> SUFFICES ASSUME IInv, [Next]_vars, Faults \subseteq {"crash"}
             PROVE  /\ NoWriteFailed' /\ tail' = NoTail /\ ~Broken'
                    /\ first' = 1 /\ miscount' = 0 /\ ~undercounted'
                    /\ meta_file' # NoMeta => meta_file'.event_count = meta_file'.next_sequence - 1
  BY DEF WholeInv
<1> USE PersistentAssumption
<1>1. /\ TypeOK /\ BufferInv /\ FileInv /\ AppendInv /\ NoWriteFailed /\ CountInv /\ NumberInv
      /\ tail = NoTail /\ ~Broken
      /\ first = 1 /\ miscount = 0 /\ ~undercounted
      /\ meta_file # NoMeta => meta_file.event_count = meta_file.next_sequence - 1
  BY DEF IInv, WholeInv
<1>2. ~CloseWrite
  <2> SUFFICES ASSUME CloseWrite PROVE FALSE
    OBVIOUS
  <2>1. status = "closing" /\ buffer # << >>
    BY <1>1 DEF CloseWrite, FileInv
  <2>2. PICK c \in Clients : pc[c] = "flush"
    BY <1>1, <2>1 DEF NumberInv
  <2>3. QED
    BY <1>1, <2>1, <2>2 DEF TypeOK
<1>3. NoWriteFailed'
  <2>1. ASSUME NEW c \in Clients, Step(c) PROVE UNCHANGED failures
    BY <2>1 DEF Step, AppendBackpressure, AppendBuffer, AppendFlush, AppendFlushFails, AppendAdvance,
                AppendPersist, ReplaySnapshot, ReplayNothing, ReplayScan, Read
  <2>2. UNCHANGED failures
    BY <1>2, <2>1 DEF Next, Open, OpenScan, OpenRefused, OpenRetry, OpenWriteMeta, OpenCreateLog, Close,
                Crash, CorruptMeta, Call, vars
  <2>3. QED
    BY <1>1, <2>2 DEF NoWriteFailed
<1>4. first' = 1 /\ miscount' = 0 /\ ~undercounted'
  <2>1. CASE OpenScan
    <3> DEFINE base == IF LinesRead = << >> THEN ResolvedMeta.next_sequence ELSE first
    <3>1. /\ ~log_exists \/ Readable(LinesRead)
          /\ first' = base
          /\ miscount' = ResolvedMeta.event_count - Len(LinesRead)
          /\ undercounted' = (undercounted \/ miscount' < 0)
      BY <2>1 DEF OpenScan
    <3>2. \A b : b = base =>
            /\ ResolvedMeta \in Metas /\ Len(LinesRead) \in Nat
            /\ ResolvedMeta.next_sequence = b + Len(LinesRead)
      BY <1>1, <3>1, <2>1, ResolvedCount DEF OpenScan
    <3>3. base = 1 /\ ResolvedMeta.event_count = ResolvedMeta.next_sequence - 1
      BY <1>1, <2>1, WholeOpen DEF OpenScan
    <3> HIDE DEF base
    <3>4. miscount' = 0 /\ ~(miscount' < 0)
      BY <3>1, <3>2, <3>3 DEF Metas
    <3>5. ~undercounted'
      BY <1>1, <3>1, <3>4, Zenon
    <3>6. QED
      BY <3>1, <3>3, <3>4, <3>5
  <2>2. CASE ~OpenScan
    BY <1>1, <2>2, OpenedSteps
  <2>3. QED
    BY <2>1, <2>2
<1>5. meta_file' # NoMeta => meta_file'.event_count = meta_file'.next_sequence - 1
  <2>1. meta.event_count = meta.next_sequence - 1
    BY <1>1 DEF CountInv, TypeOK, Metas
  <2>2. QED
    BY <1>1, <2>1, MetaFileSteps
<1>6. CASE UNCHANGED <<lines, tail>>
  BY <1>1, <1>3, <1>4, <1>5, <1>6 DEF Broken
<1>7. CASE buffer # << >> /\ (WritePiece \/ (WritePart /\ UNCHANGED lines)) /\ ~UNCHANGED <<lines, tail>>
  <2>1. PICK c \in Clients : AppendFlush(c)
    <3>1. ASSUME NEW c \in Clients, Step(c), ~AppendFlush(c) PROVE UNCHANGED <<lines, tail>>
      BY <3>1 DEF Step, AppendBackpressure, AppendBuffer, AppendFlushFails, AppendAdvance, AppendPersist,
                  ReplaySnapshot, ReplayNothing, ReplayScan, Read, disk
    <3>2. QED
      BY <1>2, <1>7, <3>1 DEF Next, Open, OpenScan, OpenRefused, OpenRetry, OpenWriteMeta,
                  OpenCreateLog, Close, Crash, CorruptMeta, Call, vars, disk
  <2>2. WritePiece
    BY <2>1 DEF AppendFlush
  <2>3. /\ Head(buffer) = buffer[1] /\ 1 \in DOMAIN buffer /\ buffer[1] \in Pieces
    BY <1>1, <1>7, Completed
  <2>4. buffer[1].rest = "line" /\ buffer[1].event \in Event
    BY <1>1, <2>3 DEF BufferInv, Pieces
  <2>5. CompletedLine(buffer[1]) = buffer[1].event
    BY <1>1, <2>4 DEF CompletedLine
  <2>6. lines' = Append(lines, buffer[1].event) /\ tail' = NoTail
    BY <2>2, <2>3, <2>5 DEF WritePiece
  <2> DEFINE e == buffer[1].event
  <2>7. e \in Event /\ e \in Event \cup {Garbage} /\ lines' = Append(lines, e)
    BY <2>4, <2>6
  <2> HIDE DEF e
  <2>8. \A i \in DOMAIN lines' : (i \in DOMAIN lines /\ lines'[i] = lines[i]) \/ lines'[i] = e
    BY <1>1, <2>7, PushedLast DEF TypeOK
  <2>9. ~Broken'
    BY <1>1, <2>6, <2>7, <2>8 DEF Broken
  <2>10. QED
    BY <1>3, <1>4, <1>5, <2>6, <2>9
<1>8. QED
  BY <1>6, <1>7, FileSteps

(* A directory without a store satisfies the invariant. *)
THEOREM InitInv == Init => IInv
<1> SUFFICES ASSUME Init PROVE IInv
  OBVIOUS
<1> USE PersistentAssumption DEF Init
<1>1. lines = << >> /\ DOMAIN lines = {} /\ DOMAIN buffer = {} /\ Len(buffer) = 0 /\ Len(lines) = 0
  BY EmptySeq
<1>2. TypeOK /\ reply = [c \in Clients |-> reply[c]]
  <2>1. << >> \in Seq(Pieces) /\ << >> \in Seq(Event \cup {Garbage})
    BY EmptySeq
  <2>2. meta \in Metas
    BY DEF Meta, Metas
  <2>3. /\ request \in [Clients -> Promise!Requests \cup {Promise!NoRequest}]
        /\ pc \in [Clients -> {"idle", "len", "next_sequence"} \cup AppendSteps \cup ReplaySteps]
        /\ mark \in [Clients -> Nat]
    OBVIOUS
  <2>4. \A c \in Clients : pc[c] = "idle" /\ meta_lock # c
    OBVIOUS
  <2>5. reply = [c \in Clients |-> reply[c]]
    OBVIOUS
  <2>6. failures \in 0 .. FlushFailures
    OBVIOUS
  <2>7. first \in Nat \ {0} /\ miscount \in Int /\ undercounted \in BOOLEAN
    <3>1. first = 1 /\ miscount = 0 /\ undercounted = FALSE
      BY Zenon
    <3>2. first \in Nat \ {0} /\ miscount \in Int
      BY <3>1
    <3>3. undercounted \in BOOLEAN
      BY <3>1, Zenon
    <3>4. QED
      BY <3>2, <3>3
  <2>8. QED
    BY <2>1, <2>2, <2>3, <2>4, <2>5, <2>6, <2>7 DEF TypeOK
<1>3. Kept = {} /\ ~Broken
  BY <1>1 DEF Kept, Broken
<1>4. BufferInv /\ FileInv
  BY <1>1, <1>3 DEF BufferInv, FileInv
<1>5. AppendInv
  BY DEF AppendInv, AppendSteps
<1>6. ReplayInv /\ ReplayComplete
  BY DEF ReplayInv, ReplayComplete, ReplaySteps, Promise!NoReply
<1>7. AckedInv /\ MetaInv
  BY DEF AckedInv, MetaInv, Running
<1>8. LinesRead = << >> /\ Len(LinesRead) = 0
  BY <1>1 DEF LinesRead
<1>9. CountInv /\ NumberInv
  <2>1. meta.next_sequence = 1 /\ meta.event_count = 0
    BY DEF Meta
  <2>2. CountInv
    BY <2>1 DEF CountInv, OffBy, Running
  <2>3. QED
    BY <1>1, <2>2 DEF NumberInv
<1>10. LengthInv
  BY DEF LengthInv, Running
<1>11. CapacityInv
  BY <1>8 DEF CapacityInv, Running
<1>12. WholeInv
  BY <1>3 DEF WholeInv, NoWriteFailed
<1>13. QED
  BY <1>2, <1>4, <1>5, <1>6, <1>7, <1>9, <1>10, <1>11, <1>12 DEF IInv

(* No step breaks the invariant, whatever fails.                            *)
THEOREM StepInv == IInv /\ [Next]_vars => IInv'
BY StepType, StepFile, StepAppend, StepReplay, StepAcked, StepMeta, StepComplete, StepCount, StepNumber,
   StepWhole
DEF IInv

(* The invariant holds in every reachable state, for any threads, payloads, *)
(* capacity, faults, number of failing writes and damage to meta.json.      *)
THEOREM Invariance == Spec => []IInv
BY InitInv, StepInv, PTL DEF Spec

(* Type correctness, and the discipline of the mutex of meta.               *)
THEOREM TypeCorrect == Spec => []TypeOK
<1>1. IInv => TypeOK
  BY DEF IInv
<1>2. QED
  BY <1>1, Invariance, PTL

(* A file that can be read is not broken, so what is stored is among the    *)
(* lines read.                                                              *)
LEMMA StoredIsRead ==
  ASSUME TypeOK, LogReadable, NEW e, Stored(e)
  PROVE  \E i \in DOMAIN LinesRead : LinesRead[i] = e
<1>1. FileType
  BY DEF TypeOK, FileType
<1>2. ~Broken
  BY <1>1, ReadableFile DEF LogReadable
<1>3. PICK i \in DOMAIN lines : lines[i] = e
  BY <1>2 DEF Stored
<1>4. i \in DOMAIN LinesRead /\ LinesRead[i] = lines[i]
  BY <1>1, <1>3, WhatIsRead
<1>5. QED
  BY <1>3, <1>4

(* An event append ever returned is in the file for as long as the file can *)
(* be read: open and replay either find it or return an error.              *)
THEOREM AcknowledgedSurvivesAlways == Spec => []AcknowledgedSurvives
<1>1. IInv => AcknowledgedSurvives
  BY StoredIsRead DEF IInv, AckedInv, AcknowledgedSurvives
<1>2. QED
  BY <1>1, Invariance, PTL

(* A replay that succeeds leaves out no acknowledged event of its range.    *)
THEOREM ReplayCompleteAlways == Spec => []ReplayComplete
<1>1. IInv => ReplayComplete
  BY DEF IInv
<1>2. QED
  BY <1>1, Invariance, PTL

(* What IInv says of a file that can be read, before any write has failed.  *)
LEMMA ReadNumbered ==
  ASSUME IInv, NoWriteFailed, LogReadable
  PROVE  /\ LinesRead \in Seq(Event) /\ Len(LinesRead) \in Nat
         /\ StartsAt(LinesRead, first)
         /\ ScanLog.event_count = Len(LinesRead)
         /\ LinesRead # << >> => ScanLog.next_sequence = first + Len(LinesRead)
  BY ScannedCount DEF IInv, LogReadable

(* As long as no write has failed, a store numbers on from what is in its   *)
(* file and counts it but for what a damaged meta.json was off by; Capacity *)
(* holds of the file unless a count was believed that was too small.        *)
THEOREM CacheAgreesWithLogAlways == Spec => []CacheAgreesWithLog
<1>1. IInv => CacheAgreesWithLog
  <2> SUFFICES ASSUME IInv, NoWriteFailed
               PROVE  /\ status = "open" /\ meta_lock = NoOne /\ LogReadable =>
                           /\ meta.next_sequence = IF LinesRead = << >> THEN first ELSE ScanLog.next_sequence
                           /\ meta.event_count = ScanLog.event_count + miscount
                           /\ OffBy(miscount, first)
                      /\ Capacity # Unbounded /\ ~undercounted => Len(LinesRead) <= Capacity
    BY DEF CacheAgreesWithLog
  <2>1. TypeOK /\ CountInv /\ LengthInv /\ CapacityInv
    BY DEF IInv
  <2>2. ASSUME status = "open", meta_lock = NoOne, LogReadable
        PROVE  /\ meta.next_sequence = IF LinesRead = << >> THEN first ELSE ScanLog.next_sequence
               /\ meta.event_count = ScanLog.event_count + miscount
               /\ OffBy(miscount, first)
    <3>1. ~Written
      BY <2>1, <2>2, PersistentAssumption DEF TypeOK, Written
    <3>2. ~Broken
      BY <2>1, <2>2, ReadableFile DEF TypeOK, FileType, LogReadable
    <3>3. /\ Len(LinesRead) \in Nat
          /\ ScanLog.event_count = Len(LinesRead)
          /\ LinesRead # << >> => ScanLog.next_sequence = first + Len(LinesRead)
      BY <2>2, ReadNumbered
    <3>4. /\ meta.next_sequence \in Nat /\ meta.event_count \in Nat
          /\ first \in Nat /\ miscount \in Int
          /\ meta.event_count = meta.next_sequence - first + miscount
          /\ OffBy(miscount, first)
      BY <2>1 DEF TypeOK, Metas, CountInv
    <3>5. Len(LinesRead) = (meta.next_sequence - first) + 0
      BY <2>1, <2>2, <3>1, <3>2 DEF LengthInv, Running
    <3>6. LinesRead = << >> => Len(LinesRead) = 0
      BY <2>1, NothingRead DEF TypeOK, FileType
    <3> DEFINE n == Len(LinesRead)
    <3>7. /\ n \in Nat /\ n = (meta.next_sequence - first) + 0
          /\ ScanLog.event_count = n
          /\ LinesRead # << >> => ScanLog.next_sequence = first + n
          /\ LinesRead = << >> => n = 0
      BY <3>3, <3>5, <3>6
    <3> HIDE DEF n
    <3>8. QED
      BY <3>4, <3>7
  <2>3. QED
    BY <2>1, <2>2 DEF CapacityInv
<1>2. QED
  BY <1>1, Invariance, PTL

(* As long as no write has failed, a file that can be read has no gap,      *)
(* verify accepts it unless a damaged meta.json told it where to start, and *)
(* a replay that reads it fails only if it began before the first event.    *)
THEOREM LogVerifiesAlways == Spec => []LogVerifies
<1>1. IInv => LogVerifies
  <2>0. ASSUME IInv, NoWriteFailed, LogReadable, NEW c \in Clients, pc[c] = "scan",
               NEW found, found = Select(LinesRead, request[c].from, mark[c])
        PROVE  Ascending(found) /\ StartsAt(found, request[c].from)
                 <=> request[c].from >= first \/ found = << >>
    <3>1. LinesRead \in Seq(Event) /\ StartsAt(LinesRead, first) /\ first \in Nat \ {0}
      BY <2>0, ReadNumbered DEF IInv, TypeOK
    <3>2. mark[c] \in Nat /\ request[c].op = "replay"
          /\ request[c] \in Promise!Requests \cup {Promise!NoRequest}
      BY <2>0 DEF IInv, TypeOK, ReplayInv, ReplaySteps
    <3>3. request[c].from \in Nat
      BY <3>2, RequestArguments, PersistentAssumption
    <3>4. QED
      BY <2>0, <3>1, <3>2, <3>3, SelectStarting
  <2> SUFFICES ASSUME IInv, NoWriteFailed, LogReadable
               PROVE  /\ StartsAt(LinesRead, first)
                      /\ Verified \/ (first > 1 /\ Meta(first, 0) \in CorruptMetas)
    BY <2>0 DEF LogVerifies
  <2> DEFINE es == LinesRead
  <2>1. es \in Seq(Event) /\ StartsAt(es, first)
    BY ReadNumbered
  <2> HIDE DEF es
  <2>2. DOMAIN es = 1 .. Len(es) /\ Len(es) \in Nat
    BY <2>1, LenProperties
  <2>3. first \in Nat \ {0} /\ (first = 1 \/ Meta(first, 0) \in CorruptMetas)
    BY DEF IInv, TypeOK, CountInv
  <2>4. Ascending(es)
    <3> SUFFICES ASSUME NEW i \in 1 .. Len(es) - 1 PROVE es[i].sequence < es[i + 1].sequence
      BY DEF Ascending
    <3>1. i \in DOMAIN es /\ i + 1 \in DOMAIN es /\ i \in Nat
      BY <2>2
    <3>2. es[i].sequence = first + i - 1 /\ es[i + 1].sequence = first + (i + 1) - 1
      BY <2>1, <3>1 DEF StartsAt
    <3>3. QED
      BY <2>3, <3>1, <3>2
  <2>5. CASE first = 1
    <3>1. Gapless(es)
      BY <2>1, <2>2, <2>5 DEF StartsAt, Gapless
    <3>2. QED
      BY <2>1, <2>4, <3>1 DEF es, Verified, LogReadable
  <2>6. CASE first # 1
    BY <2>1, <2>3, <2>6 DEF es
  <2>7. QED
    BY <2>5, <2>6
<1>2. QED
  BY <1>1, Invariance, PTL

-----------------------------------------------------------------------------
(* Refinement, where a process dies and nothing else goes wrong *)

(* A thread that has not got its sequence, or its snapshot, has no mark.    *)
MarkInv ==
  \A c \in Clients :
    /\ pc[c] \in {"append", "replay", "nothing", "len", "next_sequence"} => mark[c] = 0
    /\ pc[c] \in {"len", "next_sequence"} => request[c].op = pc[c]

(* Only numbering an event or taking a snapshot gives a thread a mark. *)
LEMMA MarkStep == TypeOK /\ MarkInv /\ [Next]_vars => MarkInv'
<1> SUFFICES ASSUME TypeOK, MarkInv, [Next]_vars, NEW c \in Clients
             PROVE  /\ pc'[c] \in {"append", "replay", "nothing", "len", "next_sequence"} => mark'[c] = 0
                    /\ pc'[c] \in {"len", "next_sequence"} => request'[c].op = pc'[c]
  BY DEF MarkInv
<1>1. /\ pc \in [Clients -> {"idle", "len", "next_sequence"} \cup AppendSteps \cup ReplaySteps]
      /\ mark \in [Clients -> Nat]
      /\ request \in [Clients -> Promise!Requests \cup {Promise!NoRequest}]
  BY DEF TypeOK
<1>2. ASSUME NEW d \in Clients, Call(d) \/ Step(d), c # d
      PROVE  pc'[c] = pc[c] /\ mark'[c] = mark[c] /\ request'[c] = request[c]
  BY <1>1, <1>2 DEF Call, Step, AppendBackpressure, AppendBuffer, AppendFlush, AppendFlushFails,
       AppendAdvance, AppendPersist, ReplaySnapshot, ReplayNothing, ReplayScan, Read, Return, Goto, threads
<1>3. ASSUME Call(c) PROVE mark'[c] = 0 /\ request'[c].op = pc'[c]
  BY <1>1, <1>3 DEF Call, Goto
<1>4. ASSUME Step(c)
      PROVE  /\ pc'[c] \in {"idle", "flush", "persist", "scan", "nothing"}
             /\ pc'[c] = "nothing" => mark'[c] = mark[c] /\ pc[c] = "replay"
  BY <1>1, <1>4 DEF Step, AppendBackpressure, AppendBuffer, AppendFlush, AppendFlushFails,
       AppendAdvance, AppendPersist, ReplaySnapshot, ReplayNothing, ReplayScan, Read, Return, Goto, threads
<1>5. CASE \E d \in Clients : Call(d) \/ Step(d)
  BY <1>2, <1>3, <1>4, <1>5 DEF MarkInv
<1>6. CASE UNCHANGED <<pc, mark, request>> \/ Crash
  BY <1>6 DEF Crash, MarkInv
<1>7. QED
  BY <1>5, <1>6 DEF Next, Open, OpenScan, OpenRefused, OpenRetry, OpenWriteMeta, OpenCreateLog, Close,
       CloseWrite, CorruptMeta, vars, threads

(* So a thread without either has none, in every reachable state. *)
THEOREM MarkInvariance == Spec => []MarkInv
<1>1. Init => MarkInv
  BY DEF Init, MarkInv
<1>2. IInv => TypeOK
  BY DEF IInv
<1>3. QED
  BY <1>1, <1>2, MarkStep, Invariance, PTL DEF Spec

(* What the users of the trait see of the threads.                          *)
Phases == [d \in Clients |-> PhaseOf(pc[d])]
Marks == [d \in Clients |-> IF PhaseOf(pc[d]) = "called" THEN 0 ELSE mark[d]]

(* A thread's step is seen of that thread only: the buffer is the business  *)
(* of the one that holds the mutex.                                         *)
LEMMA Moves ==
  ASSUME TypeOK, NEW c \in Clients, Call(c) \/ Step(c)
  PROVE  /\ Phases' = [Phases EXCEPT ![c] = PhaseOf(pc[c])']
         /\ Marks' = [Marks EXCEPT ![c] = IF PhaseOf(pc[c])' = "called" THEN 0 ELSE mark'[c]]
<1>1. ASSUME NEW d \in Clients, d # c PROVE pc'[d] = pc[d] /\ mark'[d] = mark[d]
  BY <1>1 DEF TypeOK, Call, Step, AppendBackpressure, AppendBuffer, AppendFlush, AppendFlushFails,
       AppendAdvance, AppendPersist, ReplaySnapshot, ReplayNothing, ReplayScan, Read, Return, Goto, threads
<1>2. UNCHANGED buffer \/ AppendBuffer(c) \/ AppendFlush(c)
  BY DEF Call, Step, AppendBackpressure, AppendFlushFails, AppendAdvance, AppendPersist,
       ReplaySnapshot, ReplayNothing, ReplayScan, Read
<1>3. ASSUME NEW d \in Clients, d # c, ~UNCHANGED buffer PROVE pc[d] # "flush"
  BY <1>2, <1>3, PersistentAssumption DEF TypeOK, AppendBuffer, AppendFlush
<1>4. ASSUME NEW d \in Clients, d # c PROVE PhaseOf(pc[d])' = PhaseOf(pc[d])
  BY <1>1, <1>3, <1>4 DEF PhaseOf
<1>5. QED
  BY <1>1, <1>4 DEF Phases, Marks

(* What the log is where writes are whole and never fail.                   *)
LEMMA WholeLog ==
  ASSUME IInv, Faults \subseteq {"crash"}
  PROVE  /\ tail = NoTail
         /\ lines \in Seq(Event) /\ Len(lines) \in Nat /\ DOMAIN lines = 1 .. Len(lines)
         /\ \A i \in DOMAIN lines : lines[i].sequence = i
         /\ LinesRead = lines /\ Readable(lines)
         /\ Len(PayloadsOf(lines)) = Len(lines)
         /\ CountInv /\ NumberInv
         /\ status = "open" /\ ~Written =>
              meta.event_count = Len(lines) /\ meta.next_sequence = Len(lines) + 1
<1> USE PersistentAssumption
<1>1. /\ TypeOK /\ NoWriteFailed /\ tail = NoTail /\ ~Broken /\ CountInv /\ NumberInv /\ LengthInv
      /\ first = 1 /\ miscount = 0
  BY DEF IInv, WholeInv
<1>2. LinesRead = lines
  BY <1>1 DEF LinesRead
<1>3. Readable(lines)
  BY <1>1 DEF Readable, Broken
<1>4. lines \in Seq(Event)
  BY <1>1, <1>2, <1>3, ReadableFile DEF TypeOK, FileType
<1>5. Len(lines) \in Nat /\ DOMAIN lines = 1 .. Len(lines) /\ Len(PayloadsOf(lines)) = Len(lines)
  BY <1>4, LenProperties, PayloadsType
<1>6. ASSUME status = "open", ~Written
      PROVE  meta.event_count = Len(lines) /\ meta.next_sequence = Len(lines) + 1
  <2>1. meta.event_count \in Nat /\ meta.next_sequence \in Nat /\ meta.event_count = meta.next_sequence - 1
    BY <1>1 DEF TypeOK, Metas, CountInv
  <2>2. Len(lines) = (meta.next_sequence - 1) + 0
    BY <1>1, <1>2, <1>6 DEF LengthInv, Running
  <2> DEFINE n == Len(lines)
  <2>3. n = (meta.next_sequence - 1) + 0
    BY <2>2
  <2> HIDE DEF n
  <2>4. meta.event_count = n /\ meta.next_sequence = n + 1
    BY <2>1, <2>3
  <2>5. QED
    BY <2>4 DEF n
<1>7. \A i \in DOMAIN lines : lines[i].sequence = i
  BY <1>1, <1>5 DEF NumberInv
<1>8. QED
  BY <1>1, <1>2, <1>3, <1>4, <1>5, <1>6, <1>7

(* The event that reaches the file is the one its thread appends.           *)
LEMMA WholeFlush ==
  ASSUME IInv, Faults \subseteq {"crash"}, NEW c \in Clients, AppendFlush(c)
  PROVE  /\ lines' = Append(lines, AppendOf(c)) /\ AppendOf(c) \in Event
         /\ mark[c] = Len(lines) + 1
         /\ buffer' = << >>
<1> USE PersistentAssumption
<1>1. TypeOK /\ BufferInv /\ AppendInv /\ NumberInv /\ tail = NoTail
  BY WholeLog DEF IInv
<1>2. pc[c] = "flush" /\ buffer # << >> /\ WritePiece /\ status = "open"
  BY <1>1 DEF AppendFlush, TypeOK
<1>3. Head(buffer) = buffer[1] /\ 1 \in DOMAIN buffer /\ buffer[1] \in Pieces
  BY <1>1, <1>2, Completed
<1>4. Len(buffer) = 1 /\ Tail(buffer) = << >>
  <2>1. Len(buffer) \in Nat /\ DOMAIN buffer = 1 .. Len(buffer)
    BY <1>1, LenProperties DEF TypeOK
  <2>2. Len(buffer) = 1
    BY <1>1, <1>3, <2>1 DEF NumberInv
  <2>3. Tail(buffer) \in Seq(Pieces) /\ Len(Tail(buffer)) = Len(buffer) - 1
    BY <1>1, <1>2, HeadTailProperties DEF TypeOK
  <2> DEFINE rest == Tail(buffer)
  <2>4. rest \in Seq(Pieces) /\ Len(rest) = 0
    BY <2>2, <2>3
  <2> HIDE DEF rest
  <2>5. rest = << >>
    BY <2>4, EmptySeq
  <2>6. QED
    BY <2>2, <2>5 DEF rest
<1>5. buffer[1].rest = "line" /\ buffer[1].event = AppendOf(c) /\ buffer[1].event \in Event
  BY <1>1, <1>2, <1>3, <1>4 DEF BufferInv, Pieces, AppendInv
<1>6. CompletedLine(buffer[1]) = AppendOf(c)
  BY <1>1, <1>5 DEF CompletedLine
<1>7. ~Written
  <2>1. ASSUME NEW d \in Clients, pc[d] = "flush" PROVE buffer # << >> /\ buffer[1].rest = "line"
    BY <1>2, <1>5
  <2>2. QED
    BY <2>1 DEF Written
<1>8. mark[c] = Len(lines) + 1
  <2>1. meta.next_sequence = Len(lines) + 1
    BY <1>2, <1>7, WholeLog
  <2>2. QED
    BY <1>1, <1>2, <2>1 DEF AppendInv
<1>9. QED
  BY <1>2, <1>3, <1>4, <1>5, <1>6, <1>8 DEF WritePiece

(* What a replay collects is the slice of the log the trait promises.       *)
LEMMA WholeReplay ==
  ASSUME IInv, Faults \subseteq {"crash"}, NEW c \in Clients, pc[c] = "scan"
  PROVE  Select(LinesRead, request[c].from, mark[c]) =
           Promise!EventsIn(PayloadsOf(lines), request[c].from, mark[c])
<1> USE PersistentAssumption
<1> DEFINE from == request[c].from
           end == mark[c]
<1>1. /\ lines \in Seq(Event) /\ Len(lines) \in Nat /\ DOMAIN lines = 1 .. Len(lines)
      /\ \A i \in DOMAIN lines : lines[i].sequence = i
      /\ LinesRead = lines /\ tail = NoTail
  BY WholeLog
<1>2. from \in Nat
  BY RequestArguments DEF IInv, TypeOK, ReplayInv, ReplaySteps
<1>3. end \in Nat /\ Reaches(end)
  BY DEF IInv, ReplayInv, Past
<1>4. end <= Len(lines)
  <2>1. ~Broken
    BY DEF IInv, WholeInv
  <2>2. CASE end = 0
    BY <1>1, <2>2
  <2>3. CASE end # 0
    <3>1. PICK e \in Kept : e.sequence >= end
      BY <1>3, <2>1, <2>3 DEF Reaches
    <3>2. PICK i \in DOMAIN lines : lines[i] = e
      BY <1>1, <3>1 DEF Kept
    <3> HIDE DEF end
    <3>3. QED
      BY <1>1, <1>3, <3>1, <3>2
  <2>4. QED
    BY <2>2, <2>3
<1> HIDE DEF from, end
<1>5. Select(lines, from, end) = [k \in 1 .. Count(from, end) |-> lines[First(from) + k - 1]]
  <2>1. lines \in Seq(Event) /\ from \in Nat /\ end \in Nat /\ end <= Len(lines)
    BY <1>1, <1>2, <1>3, <1>4
  <2>2. \A i \in DOMAIN lines : lines[i].sequence = i
    BY <1>1
  <2>3. QED
    BY <2>1, <2>2, SelectGapless, Zenon
<1>6. /\ Count(from, end) \in Nat
      /\ First(from) \in Nat
      /\ \A k \in 1 .. Count(from, end) : First(from) + k - 1 \in 1 .. Len(lines)
  BY <1>1, <1>2, <1>3, <1>4 DEF First, Count
<1>7. \A i \in 1 .. Len(lines) : lines[i] = [sequence |-> i, payload |-> PayloadsOf(lines)[i]]
  <2> SUFFICES ASSUME NEW i \in 1 .. Len(lines)
               PROVE  lines[i] = [sequence |-> i, payload |-> PayloadsOf(lines)[i]]
    OBVIOUS
  <2>1. i \in DOMAIN lines /\ lines[i] \in Event
    BY <1>1, ElementOfSeq
  <2>2. QED
    BY <1>1, <2>1 DEF Event, PayloadsOf
<1>8. \A k \in 1 .. Count(from, end) :
        lines[First(from) + k - 1] =
          [sequence |-> First(from) + k - 1, payload |-> PayloadsOf(lines)[First(from) + k - 1]]
  BY <1>6, <1>7
<1>9. Select(lines, from, end) = Promise!EventsIn(PayloadsOf(lines), from, end)
  BY <1>5, <1>8 DEF Promise!EventsIn, First, Count
<1>10. QED
  BY <1>1, <1>9 DEF from, end

(* Every step of a thread is the step of the promise its case names, or     *)
(* changes nothing the promise mentions.                                    *)
LEMMA StepKeepsPromise ==
  ASSUME Faults \subseteq {"crash"}
  PROVE  IInv /\ MarkInv /\ [Next]_vars => [Promise!Next]_(Promise!vars)
<1> SUFFICES ASSUME IInv, MarkInv, [Next]_vars PROVE [Promise!Next]_(Promise!vars)
  OBVIOUS
<1> USE PersistentAssumption
<1>1. TypeOK /\ AppendInv /\ ReplayInv
  BY DEF IInv
<1>2. \A c \in Clients :
        /\ Phases[c] = PhaseOf(pc[c])
        /\ Marks[c] = IF PhaseOf(pc[c]) = "called" THEN 0 ELSE mark[c]
  BY DEF Phases, Marks
<1>3. ASSUME NEW c \in Clients,
             Call(c) \/ Step(c)
      PROVE  /\ Phases' = [Phases EXCEPT ![c] = PhaseOf(pc[c])']
             /\ Marks' = [Marks EXCEPT ![c] = IF PhaseOf(pc[c])' = "called" THEN 0 ELSE mark'[c]]
  BY <1>1, <1>3, Moves
<1>4. ASSUME NEW c \in Clients, Call(c) PROVE Promise!Call(c)
  <2>1. PICK r \in Promise!Requests : request' = [request EXCEPT ![c] = r] /\ Goto(c, r.op)
    BY <1>4 DEF Call
  <2>2. r.op \in {"append", "replay", "len", "next_sequence"} /\ pc'[c] = r.op
    BY <1>1, <2>1 DEF Promise!Requests, Goto, TypeOK
  <2>3. PhaseOf(pc[c])' = "called"
    BY <2>2 DEF PhaseOf
  <2>4. Phases' = [Phases EXCEPT ![c] = "called"] /\ Marks' = [Marks EXCEPT ![c] = 0]
    BY <1>3, <1>4, <2>3
  <2>5. Phases[c] = "idle"
    BY <1>2, <1>4 DEF Call, PhaseOf
  <2>6. QED
    BY <1>4, <2>1, <2>4, <2>5 DEF Call, Promise!Call, Phases, Marks, disk
<1>5. ASSUME NEW c \in Clients, AppendBuffer(c) \/ AppendAdvance(c)
      PROVE  UNCHANGED Promise!vars
  <2>1. PhaseOf(pc[c])' = PhaseOf(pc[c])
    <3>1. CASE AppendBuffer(c)
      <4>1. pc'[c] = "flush" /\ pc[c] = "append"
        BY <1>1, <3>1 DEF AppendBuffer, Goto, TypeOK
      <4>2. buffer' # << >>
        <5> DEFINE piece == Piece([sequence |-> meta.next_sequence, payload |-> request[c].payload], "line")
        <5>1. buffer' = Append(buffer, piece) /\ piece \in Pieces /\ buffer \in Seq(Pieces)
          BY <1>1, <3>1, <4>1, AppendIsEvent DEF AppendBuffer, TypeOK, Piece, Pieces
        <5> HIDE DEF piece
        <5>2. Len(buffer') = Len(buffer) + 1 /\ Len(buffer) \in Nat
          BY <5>1, PushedLast
        <5>3. QED
          BY <5>2, EmptySeq
      <4>3. QED
        BY <4>1, <4>2 DEF PhaseOf
    <3>2. CASE AppendAdvance(c)
      <4>1. pc'[c] = "persist" /\ pc[c] = "flush" /\ buffer = << >>
        BY <1>1, <3>2 DEF AppendAdvance, Goto, TypeOK
      <4>2. QED
        BY <4>1 DEF PhaseOf
    <3>3. QED
      BY <1>5, <3>1, <3>2
  <2>2. PhaseOf(pc[c]) # "called" => mark' = mark
    BY <1>5 DEF AppendBuffer, AppendAdvance, PhaseOf
  <2>3. Phases' = [Phases EXCEPT ![c] = Phases[c]] /\ Marks' = [Marks EXCEPT ![c] = Marks[c]]
    BY <1>2, <1>3, <1>5, <2>1, <2>2 DEF Step
  <2>4. Phases' = Phases /\ Marks' = Marks
    BY <2>3 DEF Phases, Marks
  <2>5. UNCHANGED <<lines, request, reply>>
    BY <1>5 DEF AppendBuffer, AppendAdvance, disk
  <2>6. QED
    BY <2>4, <2>5 DEF Promise!vars, Phases, Marks
<1>6. ASSUME NEW c \in Clients, AppendBackpressure(c) PROVE Promise!Fail(c)
  <2>1. pc[c] = "append" /\ pc'[c] = "idle" /\ request[c].op = "append" /\ mark[c] = 0 /\ mark' = mark
    BY <1>1, <1>6 DEF AppendBackpressure, Return, Goto, TypeOK, AppendInv, AppendSteps, MarkInv
  <2>2. Phases[c] = "called" /\ Marks[c] = 0 /\ PhaseOf(pc[c])' = "idle"
    BY <1>2, <2>1 DEF PhaseOf
  <2>3. Phases' = [Phases EXCEPT ![c] = "idle"] /\ Marks' = [Marks EXCEPT ![c] = Marks[c]]
    BY <1>3, <1>6, <2>1, <2>2 DEF Step
  <2>4. Marks' = Marks
    BY <2>3 DEF Marks
  <2>5. UNCHANGED <<lines, request>> /\ reply' = [reply EXCEPT ![c] = Promise!Failed]
    BY <1>6 DEF AppendBackpressure, disk, Return
  <2>6. QED
    BY <2>1, <2>2, <2>3, <2>4, <2>5 DEF Promise!Fail, Promise!Answer, Phases, Marks
<1>7. ASSUME NEW c \in Clients, AppendFlush(c) PROVE Promise!Commit(c)
  <2>1. lines' = Append(lines, AppendOf(c)) /\ AppendOf(c) \in Event
        /\ mark[c] = Len(lines) + 1 /\ buffer' = << >>
    BY <1>7, WholeFlush
  <2>2. pc[c] = "flush" /\ pc'[c] = "flush" /\ buffer # << >> /\ mark' = mark /\ request[c].op = "append"
        /\ UNCHANGED <<request, reply>>
    BY <1>1, <1>7 DEF AppendFlush, threads, AppendInv, AppendSteps
  <2>3. Phases[c] = "called" /\ PhaseOf(pc[c])' = "committed"
    BY <1>2, <2>1, <2>2 DEF PhaseOf
  <2>4. Phases' = [Phases EXCEPT ![c] = "committed"] /\ Marks' = [Marks EXCEPT ![c] = Len(lines) + 1]
    BY <1>3, <1>7, <2>1, <2>2, <2>3 DEF Step
  <2>5. /\ PayloadsOf(lines') = Append(PayloadsOf(lines), request[c].payload)
        /\ Len(PayloadsOf(lines)) = Len(lines)
    <3> DEFINE e == AppendOf(c)
    <3>1. e \in Event /\ e.payload = request[c].payload /\ lines' = Append(lines, e) /\ lines \in Seq(Event)
      BY <2>1, WholeLog DEF AppendOf
    <3> HIDE DEF e
    <3>2. QED
      BY <3>1, PushedPayload
  <2>6. QED
    BY <2>2, <2>3, <2>4, <2>5 DEF Promise!Commit, Phases, Marks
<1>8. ASSUME NEW c \in Clients, AppendPersist(c) PROVE Promise!Acknowledge(c)
  <2>1. pc[c] = "persist" /\ pc'[c] = "idle" /\ mark' = mark /\ UNCHANGED <<lines, request>>
    BY <1>1, <1>8 DEF AppendPersist, Return, Goto, TypeOK
  <2>2. Phases[c] = "committed" /\ Marks[c] = mark[c] /\ PhaseOf(pc[c])' = "idle"
    BY <1>2, <2>1 DEF PhaseOf
  <2>3. Phases' = [Phases EXCEPT ![c] = "idle"] /\ Marks' = [Marks EXCEPT ![c] = Marks[c]]
    BY <1>3, <1>8, <2>1, <2>2 DEF Step
  <2>4. Marks' = Marks
    BY <2>3 DEF Marks
  <2>5. reply' = [reply EXCEPT ![c] = Promise!Appended([sequence |-> Marks[c], payload |-> request[c].payload])]
    BY <1>8, <2>2 DEF AppendPersist, Return
  <2>6. QED
    BY <2>1, <2>2, <2>3, <2>4, <2>5 DEF Promise!Acknowledge, Promise!Answer, Phases, Marks
<1>9. ASSUME NEW c \in Clients, ReplaySnapshot(c) PROVE Promise!BeginReplay(c)
  <2>1. /\ pc[c] = "replay" /\ pc'[c] \in {"nothing", "scan"} /\ request[c].op = "replay" /\ mark[c] = 0
        /\ UNCHANGED <<lines, request, reply>>
    BY <1>1, <1>9 DEF ReplaySnapshot, Goto, TypeOK, ReplayInv, ReplaySteps, MarkInv, disk
  <2>2. Phases[c] = "called" /\ PhaseOf(pc[c])' = "reading"
    BY <1>2, <2>1 DEF PhaseOf
  <2>3. meta.event_count = Len(lines) /\ meta.next_sequence = Len(lines) + 1 /\ Len(lines) \in Nat
    <3>1. status = "open" /\ ~Written
      BY <1>1, <1>9, <2>1 DEF TypeOK, Written, ReplaySnapshot
    <3>2. QED
      BY <3>1, WholeLog
  <2>4. mark'[c] = Len(lines)
    <3> DEFINE n == Len(lines)
    <3>1. meta.event_count = n /\ meta.next_sequence = n + 1 /\ n \in Nat
      BY <2>3
    <3> HIDE DEF n
    <3>2. mark'[c] = n
      BY <1>1, <1>9, <2>1, <3>1 DEF ReplaySnapshot, TypeOK
    <3>3. QED
      BY <3>2 DEF n
  <2>5. Phases' = [Phases EXCEPT ![c] = "reading"] /\ Marks' = [Marks EXCEPT ![c] = Len(PayloadsOf(lines))]
    BY <1>3, <1>9, <2>2, <2>4, WholeLog DEF Step
  <2>6. QED
    BY <2>1, <2>2, <2>5 DEF Promise!BeginReplay, Phases, Marks
<1>10. ASSUME NEW c \in Clients, ReplayNothing(c) \/ ReplayScan(c) PROVE Promise!EndReplay(c) \/ Promise!Fail(c)
  <2>1. /\ pc[c] \in {"nothing", "scan"} /\ pc'[c] = "idle" /\ request[c].op = "replay"
        /\ mark' = mark /\ UNCHANGED <<lines, request>>
    BY <1>1, <1>10 DEF ReplayNothing, ReplayScan, Return, Goto, TypeOK, ReplayInv, ReplaySteps, disk
  <2>2. Phases[c] = "reading" /\ Marks[c] = mark[c] /\ PhaseOf(pc[c])' = "idle"
    BY <1>2, <2>1 DEF PhaseOf
  <2>3. Phases' = [Phases EXCEPT ![c] = "idle"] /\ Marks' = [Marks EXCEPT ![c] = Marks[c]]
    BY <1>3, <1>10, <2>1, <2>2 DEF Step
  <2>4. Marks' = Marks
    BY <2>3 DEF Marks
  <2> DEFINE slice == Promise!EventsIn(PayloadsOf(lines), request[c].from, Marks[c])
  <2>5. \/ reply' = [reply EXCEPT ![c] = Promise!Failed]
        \/ reply' = [reply EXCEPT ![c] = Promise!Replayed(slice, Marks[c])]
    <3>1. CASE ReplayNothing(c)
      <4>1. mark[c] = 0
        BY <3>1 DEF MarkInv, ReplayNothing
      <4>2. request[c].from \in Nat
        BY <1>1, <2>1, RequestArguments DEF TypeOK
      <4>3. slice = << >>
        BY <2>2, <4>1, <4>2 DEF Promise!EventsIn
      <4>4. QED
        BY <2>2, <3>1, <4>1, <4>3 DEF ReplayNothing, Return
    <3>2. CASE ReplayScan(c)
      <4>1. Select(LinesRead, request[c].from, mark[c]) = slice
        BY <2>2, <3>2, WholeReplay DEF ReplayScan
      <4> HIDE DEF slice
      <4>2. QED
        BY <2>2, <3>2, <4>1 DEF ReplayScan, Return
    <3>3. QED
      BY <1>10, <3>1, <3>2
  <2> HIDE DEF slice
  <2>6. CASE reply' = [reply EXCEPT ![c] = Promise!Failed]
    BY <2>1, <2>2, <2>3, <2>4, <2>6 DEF Promise!Fail, Promise!Answer, Phases, Marks
  <2>7. CASE reply' = [reply EXCEPT ![c] = Promise!Replayed(slice, Marks[c])]
    BY <2>1, <2>2, <2>3, <2>4, <2>7 DEF Promise!EndReplay, Promise!Answer, Phases, Marks, slice
  <2>8. QED
    BY <2>5, <2>6, <2>7
<1>11. ASSUME NEW c \in Clients, Read(c) PROVE Promise!Observe(c)
  <2>1. /\ pc[c] \in {"len", "next_sequence"} /\ pc'[c] = "idle" /\ mark[c] = 0
        /\ mark' = mark /\ UNCHANGED <<lines, request>>
    BY <1>1, <1>11 DEF Read, Return, Goto, TypeOK, MarkInv, disk
  <2>2. Phases[c] = "called" /\ Marks[c] = 0 /\ PhaseOf(pc[c])' = "idle"
    BY <1>2, <2>1 DEF PhaseOf
  <2>3. Phases' = [Phases EXCEPT ![c] = "idle"] /\ Marks' = [Marks EXCEPT ![c] = Marks[c]]
    BY <1>3, <1>11, <2>1, <2>2 DEF Step
  <2>4. Marks' = Marks
    BY <2>3 DEF Marks
  <2>5. meta.event_count = Len(PayloadsOf(lines)) /\ meta.next_sequence = Len(PayloadsOf(lines)) + 1
    <3>1. status = "open" /\ ~Written
      BY <1>1, <1>11, <2>1 DEF TypeOK, Written, Read
    <3>2. QED
      BY <3>1, WholeLog
  <2>6. request[c].op = pc[c]
    BY <2>1 DEF MarkInv
  <2>7. QED
    BY <1>11, <2>1, <2>2, <2>3, <2>4, <2>5, <2>6
    DEF Read, Return, Promise!Observe, Promise!Answer, Phases, Marks
<1>12. ASSUME NEW c \in Clients, Step(c) PROVE [Promise!Next]_(Promise!vars)
  <2>1. ~AppendFlushFails(c)
    BY DEF AppendFlushFails
  <2>2. QED
    BY <1>5, <1>6, <1>7, <1>8, <1>9, <1>10, <1>11, <1>12, <2>1 DEF Step, Promise!Next
<1>13. CASE Crash
  <2>1. Phases' = [c \in Clients |-> "idle"] /\ Marks' = [c \in Clients |-> 0]
    BY <1>13 DEF Crash, Phases, Marks, PhaseOf
  <2>2. Promise!Crash
    BY <1>13, <2>1 DEF Crash, Promise!Crash, Phases, Marks, disk
  <2>3. QED
    BY <2>2 DEF Promise!Next
<1>14. CASE UNCHANGED vars \/ Open \/ Close \/ CorruptMeta
  <2>1. UNCHANGED <<lines, request, reply, pc, mark>>
    BY <1>14 DEF vars, disk, threads, Open, OpenScan, OpenRefused, OpenRetry, OpenWriteMeta,
         OpenCreateLog, Close, CorruptMeta
  <2>2. UNCHANGED buffer \/ \A c \in Clients : pc[c] = "idle"
    BY <1>1, <1>14 DEF vars, disk, Open, OpenScan, OpenRefused, OpenRetry, OpenWriteMeta,
         OpenCreateLog, Close, CorruptMeta, TypeOK
  <2>3. Phases' = Phases
    BY <2>1, <2>2 DEF Phases, PhaseOf
  <2>4. Marks' = Marks
    BY <2>1, <2>2 DEF Marks, PhaseOf
  <2>5. QED
    BY <2>1, <2>3, <2>4 DEF Promise!vars, Phases, Marks
<1>15. ~CloseWrite
  <2>1. ASSUME CloseWrite PROVE FALSE
    <3>1. status = "closing" /\ buffer # << >>
      BY <2>1 DEF CloseWrite, IInv, FileInv
    <3>2. PICK c \in Clients : pc[c] = "flush"
      BY <3>1, WholeLog DEF NumberInv
    <3>3. QED
      BY <1>1, <3>1, <3>2 DEF TypeOK
  <2>2. QED
    BY <2>1
<1>16. QED
  BY <1>4, <1>12, <1>13, <1>14, <1>15 DEF Next, Promise!Next

(* Where writes are whole and never fail, the store implements the trait's  *)
(* promise for any threads, payloads, start sequences and capacity, through *)
(* any number of crashes and reopenings.                                    *)
THEOREM Refinement ==
  ASSUME Faults \subseteq {"crash"}
  PROVE  Spec => KeepsPromise
<1>1. Init => Promise!Init
  BY EmptySeq DEF Init, Promise!Init, PayloadsOf, PhaseOf
<1>2. IInv /\ MarkInv /\ [Next]_vars => [Promise!Next]_(Promise!vars)
  BY StepKeepsPromise
<1>3. QED
  BY <1>1, <1>2, Invariance, MarkInvariance, PTL DEF Spec, KeepsPromise, Promise!Spec
=============================================================================
