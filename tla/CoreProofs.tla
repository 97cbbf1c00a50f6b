----------------------------- MODULE CoreProofs -----------------------------
(***************************************************************************)
(* Proofs about the two structures that the loop of the CPU core lives on: *)
(* the event queue (EventQueue) and the cache of translated code           *)
(* (CodeCache).                                                            *)
(*                                                                         *)
(* The queue stays whole and in order, a slice of the core ends before the *)
(* first deadline, and time goes forward.  The invariant QueueInv is about *)
(* the end of a slice, CPU_CycleMax - CPU_CycleLeft in cycles, which does  *)
(* not move while the core consumes CPU_Cycles: that it comes before the   *)
(* first deadline is preserved by an instruction for any number of cycles, *)
(* while DeadlineKept, which compares what is left with a deadline rounded *)
(* to cycles, says it only through CyclesFit. What an operation of a       *)
(* device leaves, in whatever place it is called, is Worked.               *)
(*                                                                         *)
(* The cache loses no header, its links are mutual, and no stale code can  *)
(* run.  The invariant is CacheInv.  Its conjunct Good(cc, None) says how  *)
(* the two parts of a block, the counters of pages, the places of headers  *)
(* and the links agree.  Good(c, b) is about a state in the middle of      *)
(* CreateCacheBlock, where b is the block that is being translated: it is  *)
(* counted, and not linked yet.  Every operation of the code is a function *)
(* of such states, and one lemma says what it keeps (ClearKeeps,           *)
(* MakePageKeeps, InvalidatedKeeps, OpenKeeps, CrossedKeeps, ClosedKeeps). *)
(***************************************************************************)
EXTENDS EventQueue, CodeCache, SequenceTheorems, FiniteSetTheorems,
        WellFoundedInduction, TLAPS

---------------------------------------------------------------------------
(* Numbers, and entries of a sequence inserted or selected *)

\* A set of numbers has a smallest one
LEMMA SmallestIsMember ==
    ASSUME NEW S \in SUBSET Nat, S # {}
    PROVE  Min(S) \in S /\ \A x \in S : Min(S) <= x
<1> DEFINE R == {p \in Nat \X Nat : p[1] < p[2]}
<1>1. IsWellFoundedOn(R, Nat)
    BY NatLessThanWellFounded DEF OpToRel
<1>2. PICK x \in S : \A y \in S : ~(<<y, x>> \in R)
    <2> HIDE DEF R
    <2> QED
        BY <1>1, WFMin
<1>3. ASSUME NEW y \in S PROVE x <= y
    <2>1. x \in Nat /\ y \in Nat
        OBVIOUS
    <2>2. y < x => <<y, x>> \in R
        BY <2>1
    <2> QED
        BY <1>2, <2>1, <2>2
<1> QED
    BY <1>3 DEF Min

LEMMA Inserted ==
    ASSUME NEW S, NEW s \in Seq(S), NEW i \in 1 .. Len(s) + 1, NEW e \in S
    PROVE  LET t == InsertAt(s, i, e)
           IN  /\ t \in Seq(S) /\ Len(t) = Len(s) + 1
               /\ \A j \in 1 .. i - 1 : t[j] = s[j]
               /\ t[i] = e
               /\ \A j \in i + 1 .. Len(s) + 1 : t[j] = s[j - 1]
<1> DEFINE a == SubSeq(s, 1, i - 1)
           b == <<e>>
           c == SubSeq(s, i, Len(s))
<1>1. /\ a \in Seq(S) /\ Len(a) = i - 1 /\ \A j \in 1 .. i - 1 : a[j] = s[j]
      /\ c \in Seq(S) /\ Len(c) = Len(s) - i + 1
      /\ \A j \in 1 .. Len(s) - i + 1 : c[j] = s[i + j - 1]
    BY SubSeqProperties
<1>2. b \in Seq(S) /\ Len(b) = 1 /\ b[1] = e
    OBVIOUS
<1> HIDE DEF a, b, c
<1>3. /\ a \o b \in Seq(S) /\ Len(a \o b) = i
      /\ \A j \in 1 .. i : (a \o b)[j] = IF j < i THEN s[j] ELSE e
    <2>1. /\ a \o b \in Seq(S) /\ Len(a \o b) = Len(a) + Len(b)
          /\ \A j \in 1 .. Len(a) + Len(b) :
                 (a \o b)[j] = IF j <= Len(a) THEN a[j] ELSE b[j - Len(a)]
        BY <1>1, <1>2, ConcatProperties
    <2>2. i \in Int /\ Len(s) \in Int /\ i <= Len(s) + 1 /\ i >= 1
        OBVIOUS
    <2> QED
        BY <1>1, <1>2, <2>1, <2>2
<1>4. /\ (a \o b) \o c \in Seq(S) /\ Len((a \o b) \o c) = Len(s) + 1
      /\ \A j \in 1 .. Len(s) + 1 :
             ((a \o b) \o c)[j] = IF j <= i THEN (a \o b)[j] ELSE c[j - i]
    <2> DEFINE d == a \o b
    <2>0. d \in Seq(S) /\ Len(d) = i
        BY <1>3
    <2> HIDE DEF d
    <2>1. /\ d \o c \in Seq(S) /\ Len(d \o c) = Len(d) + Len(c)
          /\ \A j \in 1 .. Len(d) + Len(c) :
                 (d \o c)[j] = IF j <= Len(d) THEN d[j] ELSE c[j - Len(d)]
        BY <1>1, <2>0, ConcatProperties
    <2>2. i \in Int /\ Len(s) \in Int /\ i <= Len(s) + 1 /\ i >= 1
        OBVIOUS
    <2> QED
        BY <1>1, <2>0, <2>1, <2>2 DEF d
<1>5. InsertAt(s, i, e) = (a \o b) \o c
    BY DEF InsertAt, a, b, c
<1> QED
    BY <1>1, <1>3, <1>4, <1>5

LEMMA FirstNumbers ==
    ASSUME NEW n \in Nat
    PROVE  IsFiniteSet(1 .. n) /\ Cardinality(1 .. n) = n
    BY FS_Interval

\* place says where in s the entries of t were
Landed(place, t, s, kept) ==
    /\ place \in [1 .. Len(t) -> kept]
    /\ \A n \in 1 .. Len(t) : t[n] = s[place[n]]
    /\ \A m, n \in 1 .. Len(t) : m < n => place[m] < place[n]
    /\ \A i \in kept : \E n \in 1 .. Len(t) : place[n] = i

\* The entries that are kept, and no others, are in the new sequence, and they
\* are in their old order.
LEMMA SelectionInOrder ==
    ASSUME NEW S, NEW s \in Seq(S), NEW kept \in SUBSET (1 .. Len(s))
    PROVE  LET t == Selection(s, kept)
           IN  /\ t \in Seq(S) /\ Len(t) = Cardinality(kept) /\ Len(t) <= Len(s)
               /\ \E place : Landed(place, t, s, kept)
<1> DEFINE c == Cardinality(kept)
           r == [i \in kept |-> Rank(kept, i)]
           place == [n \in 1 .. c |-> CHOOSE i \in kept : Rank(kept, i) = n]
           t == Selection(s, kept)
<1>1. Len(s) \in Nat /\ \A i \in 1 .. Len(s) : s[i] \in S
    OBVIOUS
<1>2. /\ IsFiniteSet(kept) /\ c \in Nat /\ c <= Len(s)
      /\ IsFiniteSet(1 .. c) /\ Cardinality(1 .. c) = c
    <2>1. IsFiniteSet(1 .. Len(s)) /\ Cardinality(1 .. Len(s)) = Len(s)
        BY <1>1, FirstNumbers
    <2>2. IsFiniteSet(kept) /\ c <= Len(s)
        BY <2>1, FS_Subset
    <2>3. c \in Nat
        BY <2>2, FS_CardinalityType
    <2> HIDE DEF c
    <2> QED
        BY <2>2, <2>3, FirstNumbers
<1>n. kept \subseteq Int
    BY <1>1
<1>3. ASSUME NEW i \in kept, NEW T, T = {k \in kept : k <= i}
      PROVE  IsFiniteSet(T) /\ Cardinality(T) \in 1 .. c
    <2>1. T \in SUBSET kept /\ i \in T
        BY <1>1, <1>3
    <2>2. IsFiniteSet(T) /\ Cardinality(T) <= c /\ Cardinality(T) \in Nat
        BY <1>2, <2>1, FS_Subset, FS_CardinalityType
    <2>3. Cardinality(T) # 0
        BY <2>1, <2>2, FS_EmptySet
    <2> QED
        BY <1>2, <2>2, <2>3
<1>4. ASSUME NEW i \in kept, NEW j \in kept, i < j
      PROVE  Rank(kept, i) < Rank(kept, j)
    <2> DEFINE A == {k \in kept : k <= i}
               B == {k \in kept : k <= j}
    <2>1. A \in SUBSET B /\ A # B
        <3>1. i \in Int /\ j \in Int /\ j \in B /\ j \notin A
            BY <1>n, <1>4
        <3>2. \A k \in kept : k <= i => k <= j
            BY <1>n, <1>4
        <3> QED
            BY <3>1, <3>2
    <2>2. IsFiniteSet(B) /\ Cardinality(A) \in 1 .. c /\ Cardinality(B) \in 1 .. c
        BY <1>3
    <2>3. Cardinality(A) <= Cardinality(B) /\ Cardinality(A) # Cardinality(B)
        BY <2>1, <2>2, FS_Subset
    <2> HIDE DEF A, B
    <2>4. Cardinality(A) < Cardinality(B)
        BY <1>2, <2>2, <2>3
    <2> QED
        BY <2>4 DEF A, B, Rank
<1>5. r \in [kept -> 1 .. c]
    BY <1>3 DEF Rank
<1>6. \A i, j \in kept : r[i] = r[j] => i = j
    <2>1. \A i, j \in kept : i = j \/ i < j \/ j < i
        BY <1>1
    <2>2. \A i \in kept : r[i] \in Nat /\ r[i] = Rank(kept, i)
        BY <1>5
    <2> HIDE DEF r
    <2> QED
        BY <1>4, <2>1, <2>2
<1>7. \A n \in 1 .. c : \E i \in kept : r[i] = n
    <2>1. r \in Injection(kept, 1 .. c)
        BY <1>5, <1>6 DEF Injection, IsInjective
    <2>2. r \in Surjection(kept, 1 .. c)
        BY <1>2, <2>1, FS_Injection
    <2> QED
        BY <2>2 DEF Surjection
<1>8. \A n \in 1 .. c : place[n] \in kept /\ Rank(kept, place[n]) = n
    BY <1>7
<1> HIDE DEF place, r
<1>9. place \in [1 .. c -> kept]
    BY <1>8 DEF place
<1>10. \A m, n \in 1 .. c : m < n => place[m] < place[n]
    <2> SUFFICES ASSUME NEW m \in 1 .. c, NEW n \in 1 .. c, m < n
                 PROVE  place[m] < place[n]
        OBVIOUS
    <2>1. place[m] \in kept /\ place[n] \in kept
          /\ Rank(kept, place[m]) = m /\ Rank(kept, place[n]) = n
        BY <1>8
    <2>2. place[m] \in Int /\ place[n] \in Int
        BY <1>n, <2>1
    <2>3. place[n] < place[m] => n < m
        BY <1>4, <2>1
    <2>4. place[n] # place[m]
        BY <1>2, <2>1
    <2> QED
        BY <1>2, <2>2, <2>3, <2>4
<1>11. \A i \in kept : \E n \in 1 .. c : place[n] = i
    <2> SUFFICES ASSUME NEW i \in kept
                 PROVE  \E n \in 1 .. c : place[n] = i
        OBVIOUS
    <2>1. r[i] \in 1 .. c /\ r[i] = Rank(kept, i)
        BY <1>5 DEF r
    <2>2. place[r[i]] \in kept /\ r[place[r[i]]] = r[i]
        BY <1>8, <2>1 DEF r
    <2> QED
        BY <1>6, <2>1, <2>2
<1>12. t = [n \in 1 .. c |-> s[place[n]]]
    BY DEF Selection, place
<1>13. t \in Seq(S) /\ Len(t) = c
    <2>1. \A n \in 1 .. c : s[place[n]] \in S
        BY <1>1, <1>9
    <2> QED
        BY <1>2, <1>12, <2>1
<1> HIDE DEF t, c
<1>14. Landed(place, t, s, kept)
    BY <1>9, <1>10, <1>11, <1>12, <1>13 DEF Landed
<1> QED
    BY <1>2, <1>13, <1>14 DEF t, c

---------------------------------------------------------------------------
(* The event queue: the inductive invariant *)

Sorted(q) == \A i, j \in DOMAIN q : i <= j => q[i].at <= q[j].at

\* Only the core has cycles, between the start of a slice and its end.  An entry
\* that is served has left the queue, and was the first.
Places ==
    /\ queue \in Seq(Entries) /\ free \in 0 .. Slots
    /\ left \in Int /\ cycles \in Int
    /\ pc \in {"loop", "serve", "handler", "cpu", "idle", "tick"}
    /\ pc \in {"serve", "handler", "idle", "tick"} => cycles = 0
    /\ pc = "handler" => serving \in Entries
    /\ pc # "handler" => serving = NoEntry

Order ==
    /\ Sorted(queue)
    /\ pc = "handler" => \A i \in DOMAIN queue : serving.at <= queue[i].at

\* What the core has left of its slice ends before the first deadline of q, and
\* within the tick.  The end of the slice, where l is CPU_CycleLeft, does not move
\* while the core consumes it.
Granted(n) == IF "irq" \in Ops THEN 2 ELSE n
SliceEnds(q, l, c) ==
    /\ q # <<>> => c <= Granted(1) \/ Unit * (CycleMax - l) <= q[1].at
    /\ l < 0 => c <= Granted(0)

QueueInv == Places /\ NoEntryLost /\ Order /\ (pc = "cpu" => SliceEnds(queue, left, cycles))

---------------------------------------------------------------------------
(* Whole cycles, and the list *)

LEMMA WholeCyclesType ==
    ASSUME NEW x \in Int
    PROVE  WholeCycles(x) \in Int
    BY TimeAssumption DEF WholeCycles

\* To round towards zero is right for a deadline: whole cycles fit in the whole
\* part of a time exactly when they fit in the time.
LEMMA CyclesFit ==
    ASSUME NEW x \in Int, NEW c \in Nat \ {0}
    PROVE  c <= WholeCycles(x) <=> Unit * c <= x
<1>1. CASE x < 0
    <2>1. WholeCycles(x) <= 0
        BY <1>1, TimeAssumption DEF WholeCycles
    <2>2. Unit * c > 0
        BY TimeAssumption
    <2> QED
        BY <1>1, <2>1, <2>2, WholeCyclesType, TimeAssumption
<1>2. CASE x >= 0
    <2> DEFINE w == x \div Unit
    <2>1. w \in Int /\ Unit * w <= x /\ x < Unit * (w + 1)
        BY <1>2, TimeAssumption
    <2>2. WholeCycles(x) = w
        BY <1>2 DEF WholeCycles
    <2> HIDE DEF w
    <2>3. c <= w => Unit * c <= Unit * w
        BY <2>1, TimeAssumption
    <2>4. w + 1 <= c => Unit * (w + 1) <= Unit * c
        BY <2>1, TimeAssumption
    <2>5. Unit * c \in Int /\ Unit * w \in Int /\ Unit * (w + 1) \in Int
        BY <2>1, TimeAssumption
    <2> QED
        BY <2>1, <2>2, <2>3, <2>4, <2>5
<1> QED
    BY <1>1, <1>2

LEMMA EntryInserted ==
    ASSUME NEW q \in Seq(Entries), NEW e \in Entries, NEW i \in 1 .. Len(q),
           NEW r, r = InsertAt(q, i, e)
    PROVE  /\ r \in Seq(Entries) /\ Len(r) = Len(q) + 1
           /\ \A j \in 1 .. Len(q) + 1 :
                  r[j] = IF j < i THEN q[j] ELSE IF j = i THEN e ELSE q[j - 1]
<1>1. /\ r \in Seq(Entries) /\ Len(r) = Len(q) + 1
      /\ \A j \in 1 .. i - 1 : r[j] = q[j]
      /\ r[i] = e
      /\ \A j \in i + 1 .. Len(q) + 1 : r[j] = q[j - 1]
    <2>1. i \in 1 .. Len(q) + 1
        OBVIOUS
    <2> QED
        BY <2>1, Inserted
<1>2. ASSUME NEW j \in 1 .. Len(q) + 1
      PROVE  r[j] = IF j < i THEN q[j] ELSE IF j = i THEN e ELSE q[j - 1]
    <2>1. j \in 1 .. i - 1 \/ j = i \/ (j \in i + 1 .. Len(q) + 1 /\ ~(j < i))
        OBVIOUS
    <2>2. j \in 1 .. i - 1 => j < i
        OBVIOUS
    <2>3. CASE j \in 1 .. i - 1
        BY <1>1, <2>2, <2>3
    <2>4. CASE j = i
        BY <1>1, <2>4
    <2>5. CASE j \in i + 1 .. Len(q) + 1 /\ ~(j < i)
        <3>1. r[j] = q[j - 1] /\ j # i
            BY <1>1, <2>5
        <3> QED
            BY <2>5, <3>1
    <2> QED
        BY <2>1, <2>3, <2>4, <2>5
<1> QED
    BY <1>1, <1>2, Zenon

\* Insert adds the entry, and keeps the order
LEMMA InsertedInOrder ==
    ASSUME NEW q \in Seq(Entries), Sorted(q), NEW e \in Entries
    PROVE  LET r == Insert(q, e)
           IN  /\ r \in Seq(Entries) /\ Len(r) = Len(q) + 1 /\ Sorted(r)
               /\ \A i \in DOMAIN r : r[i] = e \/ \E j \in DOMAIN q : r[i] = q[j]
<1> DEFINE I == {i \in 1 .. Len(q) : q[i].at > e.at}
           n == Min(I)
           r == Insert(q, e)
<1>1. /\ Len(q) \in Nat /\ DOMAIN q = 1 .. Len(q)
      /\ \A i \in 1 .. Len(q) : q[i] \in Entries /\ q[i].at \in Int
      /\ e.at \in Int
    <2>1. \A x \in Entries : x.at \in Int
        BY DEF Entries
    <2>2. \A i \in 1 .. Len(q) : q[i] \in Entries
        OBVIOUS
    <2> QED
        BY <2>1, <2>2
<1>2. CASE I = {}
    <2>1. r = Append(q, e)
        BY <1>2 DEF Insert, SelectInSeq
    <2>2. \A i \in 1 .. Len(q) : q[i].at <= e.at
        BY <1>1, <1>2
    <2>3. /\ r \in Seq(Entries) /\ Len(r) = Len(q) + 1 /\ DOMAIN r = 1 .. Len(q) + 1
          /\ \A i \in 1 .. Len(q) : r[i] = q[i]
          /\ r[Len(q) + 1] = e
        BY <2>1, <1>1
    <2> HIDE DEF r, I
    <2>4. \A i \in 1 .. Len(q) + 1 : i \in 1 .. Len(q) \/ i = Len(q) + 1
        BY <1>1
    <2>5. \A i \in 1 .. Len(q) + 1 : r[i] = e \/ \E j \in 1 .. Len(q) : r[i] = q[j]
        BY <2>3, <2>4
    <2>6. Sorted(r)
        BY <1>1, <2>2, <2>3, <2>4 DEF Sorted
    <2> QED
        BY <1>1, <2>3, <2>5, <2>6 DEF r
<1>3. CASE I # {}
    <2>1. I \in SUBSET Nat
        OBVIOUS
    <2>2. n \in 1 .. Len(q) /\ q[n].at > e.at
        BY <1>3, <2>1, SmallestIsMember
    <2>3. \A i \in I : n <= i
        BY <1>3, <2>1, SmallestIsMember
    <2>4. \A i \in 1 .. Len(q) : i < n => q[i].at <= e.at
        <3> HIDE DEF n
        <3>1. n \in Int
            BY <1>1, <2>2
        <3>2. ASSUME NEW i \in 1 .. Len(q), i < n
              PROVE  i \notin I
            <4> HIDE DEF I
            <4>1. i \in Int
                BY <1>1
            <4> QED
                BY <2>3, <3>1, <3>2, <4>1
        <3> QED
            BY <1>1, <3>2
    <2>5. r = InsertAt(q, n, e)
        BY <1>3, <2>2 DEF Insert, SelectInSeq
    <2> HIDE DEF n, I
    <2>6. /\ r \in Seq(Entries) /\ Len(r) = Len(q) + 1
          /\ \A j \in 1 .. Len(q) + 1 :
                 r[j] = IF j < n THEN q[j] ELSE IF j = n THEN e ELSE q[j - 1]
        <3> HIDE DEF r
        <3>1. \E i \in 1 .. Len(q) : i = n
            BY <2>2
        <3>2. PICK i \in 1 .. Len(q) : i = n
            BY <3>1
        <3>3. \E t : t = InsertAt(q, i, e)
            OBVIOUS
        <3>4. PICK t : t = InsertAt(q, i, e)
            BY <3>3
        <3>5. /\ t \in Seq(Entries) /\ Len(t) = Len(q) + 1
              /\ \A j \in 1 .. Len(q) + 1 :
                     t[j] = IF j < i THEN q[j] ELSE IF j = i THEN e ELSE q[j - 1]
            BY <3>4, EntryInserted
        <3> QED
            BY <2>5, <3>2, <3>4, <3>5
    <2>7. DOMAIN r = 1 .. Len(q) + 1
        BY <2>6
    <2> HIDE DEF r
    <2>8. \A i, j \in 1 .. Len(q) : i <= j => q[i].at <= q[j].at
        BY <1>1 DEF Sorted
    <2>9. \A i \in 1 .. Len(q) : n <= i => e.at <= q[i].at
        BY <1>1, <2>2, <2>8
    <2>10. ASSUME NEW i \in 1 .. Len(q) + 1, NEW j \in 1 .. Len(q) + 1, i <= j
           PROVE  r[i].at <= r[j].at
        <3>1. CASE j < n
            BY <1>1, <2>2, <2>6, <2>8, <2>10, <3>1
        <3>2. CASE j = n
            BY <1>1, <2>2, <2>4, <2>6, <2>10, <3>2
        <3>3. CASE j > n /\ i < n
            <4>1. r[i] = q[i] /\ r[j] = q[j - 1] /\ i \in 1 .. Len(q) /\ j - 1 \in 1 .. Len(q)
                BY <1>1, <2>2, <2>6, <3>3
            <4> QED
                BY <1>1, <2>2, <2>8, <3>3, <4>1
        <3>4. CASE j > n /\ i = n
            <4>1. r[i] = e /\ r[j] = q[j - 1] /\ j - 1 \in 1 .. Len(q)
                BY <1>1, <2>2, <2>6, <3>4
            <4> QED
                BY <1>1, <2>2, <2>9, <3>4, <4>1
        <3>5. CASE j > n /\ i > n
            <4>1. /\ r[i] = q[i - 1] /\ r[j] = q[j - 1]
                  /\ i - 1 \in 1 .. Len(q) /\ j - 1 \in 1 .. Len(q)
                BY <1>1, <2>2, <2>6, <3>5
            <4> QED
                BY <1>1, <2>2, <2>8, <2>10, <3>5, <4>1
        <3> QED
            BY <1>1, <2>2, <3>1, <3>2, <3>3, <3>4, <3>5
    <2>11. ASSUME NEW i \in 1 .. Len(q) + 1
           PROVE  r[i] = e \/ \E j \in 1 .. Len(q) : r[i] = q[j]
        <3>1. CASE i < n
            BY <1>1, <2>2, <2>6, <3>1
        <3>2. CASE i > n
            <4>1. r[i] = q[i - 1] /\ i - 1 \in 1 .. Len(q)
                BY <1>1, <2>2, <2>6, <3>2
            <4> QED
                BY <4>1
        <3> QED
            BY <1>1, <2>2, <2>6, <3>1, <3>2
    <2> QED
        BY <1>1, <2>6, <2>7, <2>10, <2>11 DEF Sorted, r
<1> QED
    BY <1>2, <1>3

\* The entries that are not cancelled stay in order
LEMMA OthersInOrder ==
    ASSUME queue \in Seq(Entries), Sorted(queue), NEW kinds
    PROVE  LET r == Others(kinds)
           IN  /\ r \in Seq(Entries) /\ Len(r) \in 0 .. Len(queue) /\ Sorted(r)
               /\ \A i \in DOMAIN r : \E j \in DOMAIN queue : r[i] = queue[j]
<1> DEFINE kept == {i \in DOMAIN queue : queue[i].kind \notin kinds}
           r == Others(kinds)
<1>1. DOMAIN queue = 1 .. Len(queue) /\ Len(queue) \in Nat
    OBVIOUS
<1>2. kept \in SUBSET (1 .. Len(queue)) /\ r = Selection(queue, kept)
    BY <1>1 DEF Others
<1> HIDE DEF kept, r
<1>3. r \in Seq(Entries) /\ Len(r) <= Len(queue)
    BY <1>2, SelectionInOrder
<1>4. PICK place \in [1 .. Len(r) -> kept] :
          /\ \A n \in 1 .. Len(r) : r[n] = queue[place[n]]
          /\ \A m, n \in 1 .. Len(r) : m < n => place[m] < place[n]
    <2>1. PICK place : Landed(place, r, queue, kept)
        BY <1>2, SelectionInOrder
    <2> QED
        BY <2>1 DEF Landed
<1>5. DOMAIN r = 1 .. Len(r) /\ Len(r) \in Nat
    BY <1>3
<1>6. \A n \in 1 .. Len(r) : place[n] \in 1 .. Len(queue)
    BY <1>2, <1>4
<1>7. \A m, n \in 1 .. Len(r) : m <= n => place[m] <= place[n]
    BY <1>1, <1>4, <1>5, <1>6
<1> QED
    BY <1>1, <1>3, <1>4, <1>5, <1>6, <1>7 DEF Sorted, r

---------------------------------------------------------------------------
(* What a device operation leaves *)

LEMMA SliceEndsFirst ==
    ASSUME queue \in Seq(Entries), left \in Int, NEW c \in Int,
           NEW first \in Entries,
           WholeCycles(first.at - Unit * TimeAt(c)) >= c
    PROVE  c <= Granted(1) \/ Unit * (CycleMax - left) <= first.at
<1>1. first.at \in Int /\ CycleMax \in Nat /\ Unit \in Nat
    BY TimeAssumption DEF Entries
<1>2. CASE c <= 0
    BY <1>2 DEF Granted
<1>3. CASE c >= 1
    <2> DEFINE x == first.at - Unit * (CycleMax - left - c)
    <2>1. x \in Int /\ c \in Nat \ {0}
        BY <1>1, <1>3
    <2>2. WholeCycles(x) \in Int /\ c <= WholeCycles(x)
        BY <2>1, WholeCyclesType DEF TimeAt
    <2>3. Unit * c <= x
        <3> HIDE DEF x
        <3> QED
            BY <2>1, <2>2, CyclesFit
    <2>4. Unit * (CycleMax - left - c) = Unit * (CycleMax - left) - Unit * c
        BY <1>1
    <2> QED
        BY <1>1, <2>3, <2>4
<1> QED
    BY <1>2, <1>3

\* A device operation, when CPU_Cycles is c, moves cycles and entries and loses
\* none, keeps the queue in order and behind the event in service, and leaves the
\* core no more than the first deadline allows.
Worked(c) ==
    /\ queue' \in Seq(Entries) /\ free' \in 0 .. Slots
    /\ Len(queue') + free' = Len(queue) + free
    /\ left' \in Int /\ cycles' \in Int /\ left' + cycles' = left + c
    /\ c = 0 => cycles' = 0
    /\ Sorted(queue')
    /\ pc = "handler" => \A i \in DOMAIN queue' : serving.at <= queue'[i].at
    /\ SliceEnds(queue', left', cycles')

Ready(c) ==
    /\ Places /\ NoEntryLost /\ Order
    /\ c \in Int /\ SliceEnds(queue, left, c)

LEMMA Room ==
    ASSUME NoEntryLost, Places
    PROVE  Len(queue) + free <= Slots /\ Len(queue) \in Nat
    BY TimeAssumption DEF NoEntryLost, Places

LEMMA AddEventWorked ==
    ASSUME NEW c \in Int, Ready(c), NEW kind \in Kinds, NEW delay \in Delays,
           AddEvent(c, kind, delay)
    PROVE  Worked(c)
<1> DEFINE base == IF pc = "handler" THEN serving.at ELSE Unit * TimeAt(c)
           e == [kind |-> kind, at |-> delay + base]
<1>0. Places /\ NoEntryLost /\ Order /\ SliceEnds(queue, left, c)
    BY DEF Ready
<1>1. CASE free = 0 /\ Keep(c) /\ UNCHANGED <<queue, free>>
    BY <1>0, <1>1 DEF Worked, Places, Order, Keep
<1>2. CASE free > 0 /\ queue' = Insert(queue, e) /\ free' = free - 1
           /\ CutSlice(c, queue'[1])
    <2>1. /\ e \in Entries /\ (pc = "handler" => serving.at \in Int /\ serving.at <= e.at)
          /\ queue \in Seq(Entries) /\ Sorted(queue) /\ left \in Int
        BY <1>0, TimeAssumption DEF Places, Order, Entries, TimeAt
    <2> HIDE DEF e
    <2>2. /\ queue' \in Seq(Entries) /\ Len(queue') = Len(queue) + 1 /\ Sorted(queue')
          /\ \A i \in DOMAIN queue' :
                 queue'[i] = e \/ \E j \in DOMAIN queue : queue'[i] = queue[j]
        BY <1>2, <2>1, InsertedInOrder
    <2>3. free' \in 0 .. Slots /\ Len(queue') + free' = Len(queue) + free
        <3>1. /\ Len(queue) \in Nat /\ Len(queue') = Len(queue) + 1
              /\ free \in 0 .. Slots /\ free > 0 /\ free' = free - 1 /\ Slots \in Nat
            BY <1>0, <1>2, <2>2, Room, TimeAssumption DEF Places
        <3> QED
            BY <3>1
    <2>4. pc = "handler" => \A i \in DOMAIN queue' : serving.at <= queue'[i].at
        BY <1>0, <2>1, <2>2 DEF Order
    <2>5. CASE GiveBack(c)
        BY <2>1, <2>2, <2>3, <2>4, <2>5 DEF Worked, GiveBack, SliceEnds, Granted
    <2>6. CASE ~(WholeCycles(queue'[1].at - Unit * TimeAt(c)) < c) /\ Keep(c)
        <3> DEFINE first == queue'[1]
        <3>1. first \in Entries /\ first.at \in Int
            <4>1. 1 \in 1 .. Len(queue')
                BY <2>1, <2>2
            <4>2. first \in Entries
                BY <2>2, <4>1
            <4> HIDE DEF first
            <4> QED
                BY <4>2 DEF Entries
        <3>2. first.at - Unit * TimeAt(c) \in Int
            BY <2>1, <3>1, TimeAssumption DEF TimeAt
        <3>3. WholeCycles(first.at - Unit * TimeAt(c)) >= c
            BY <2>6, <3>2, WholeCyclesType
        <3>4. c <= Granted(1) \/ Unit * (CycleMax - left) <= first.at
            <4> HIDE DEF first
            <4> QED
                BY <2>1, <3>1, <3>3, SliceEndsFirst
        <3>5. SliceEnds(queue', left, c)
            BY <1>0, <3>4 DEF SliceEnds
        <3> QED
            BY <2>1, <2>2, <2>3, <2>4, <2>6, <3>5 DEF Worked, Keep
    <2> QED
        BY <1>2, <2>5, <2>6 DEF CutSlice
<1> QED
    BY <1>1, <1>2 DEF AddEvent

LEMMA RemoveEventsWorked ==
    ASSUME NEW c \in Int, Ready(c), NEW kinds, RemoveEvents(c, kinds)
    PROVE  Worked(c)
<1>0. /\ Places /\ NoEntryLost /\ Order /\ SliceEnds(queue, left, c)
      /\ queue \in Seq(Entries) /\ Sorted(queue) /\ left \in Int
    BY DEF Ready, Places, Order
<1>1. /\ queue' = Others(kinds) /\ free' = free + Len(queue) - Len(queue')
      /\ left' = left /\ cycles' = c
    BY DEF RemoveEvents, Keep
<1>2. /\ queue' \in Seq(Entries) /\ Len(queue') \in 0 .. Len(queue) /\ Sorted(queue')
      /\ \A i \in DOMAIN queue' : \E j \in DOMAIN queue : queue'[i] = queue[j]
    BY <1>0, <1>1, OthersInOrder
<1>3. free' \in 0 .. Slots /\ Len(queue') + free' = Len(queue) + free
    <2>1. /\ Len(queue) \in Nat /\ Len(queue') \in 0 .. Len(queue) /\ Slots \in Nat
          /\ free \in 0 .. Slots /\ Len(queue) + free <= Slots
          /\ free' = free + Len(queue) - Len(queue')
        BY <1>0, <1>1, <1>2, Room, TimeAssumption DEF Places
    <2> QED
        BY <2>1
<1>4. pc = "handler" => \A i \in DOMAIN queue' : serving.at <= queue'[i].at
    BY <1>0, <1>2 DEF Order
<1>5. queue' # <<>> => queue # <<>> /\ queue[1].at <= queue'[1].at
    <2> SUFFICES ASSUME queue' # <<>>
                 PROVE  queue # <<>> /\ queue[1].at <= queue'[1].at
        OBVIOUS
    <2>1. 1 \in DOMAIN queue'
        BY <1>2
    <2>2. PICK j \in DOMAIN queue : queue'[1] = queue[j]
        BY <1>2, <2>1
    <2>3. 1 \in DOMAIN queue /\ 1 <= j
        BY <1>0
    <2> QED
        BY <1>0, <2>2, <2>3 DEF Sorted
<1>6. SliceEnds(queue', left, c)
    <2>1. \A x \in Entries : x.at \in Int
        BY DEF Entries
    <2>2. queue' # <<>> => queue'[1].at \in Int /\ queue[1].at \in Int
        BY <1>0, <1>2, <1>5, <2>1
    <2>3. Unit * (CycleMax - left) \in Int
        BY <1>0, TimeAssumption
    <2> QED
        BY <1>0, <1>5, <2>2, <2>3 DEF SliceEnds
<1> QED
    BY <1>0, <1>1, <1>2, <1>3, <1>4, <1>6 DEF Worked

LEMMA StopCoreWorked ==
    ASSUME NEW c \in Int, Ready(c), StopCore(c)
    PROVE  Worked(c)
    BY DEF Ready, Places, Order, StopCore, GiveBack, Worked, SliceEnds, Granted

LEMMA ActivateIRQWorked ==
    ASSUME NEW c \in Int, Ready(c), ActivateIRQ(c)
    PROVE  Worked(c)
    BY DEF Ready, Places, Order, ActivateIRQ, GiveBack, Worked, SliceEnds, Granted

LEMMA DeviceOpWorked ==
    ASSUME NEW c \in Int, Ready(c), DeviceOp(c)
    PROVE  Worked(c)
    BY AddEventWorked, RemoveEventsWorked, StopCoreWorked, ActivateIRQWorked DEF DeviceOp

---------------------------------------------------------------------------
(* The invariant *)

LEMMA QueueInvInit ==
    ASSUME Init
    PROVE  QueueInv
<1>1. /\ queue \in Seq(Entries) /\ Len(queue) = 0 /\ DOMAIN queue = {}
      /\ Slots \in 0 .. Slots
    BY TimeAssumption DEF Init
<1> QED
    BY <1>1, TimeAssumption DEF Init, QueueInv, Places, NoEntryLost, Order, Sorted

\* The core starts with at most the cycles until the first deadline
LEMMA StartCoreStep ==
    ASSUME QueueInv, StartCore
    PROVE  QueueInv'
<1>1. /\ queue \in Seq(Entries) /\ left \in Int /\ cycles = 0 /\ Sorted(queue)
      /\ pc = "serve" /\ pc' = "cpu" /\ UNCHANGED <<queue, serving, free>>
      /\ cycles' = Slice /\ left' = left - Slice /\ ~Due
      /\ NoEntryLost /\ Places
    BY DEF QueueInv, Places, Order, StartCore
<1>2. /\ Slice \in Int /\ Slice <= left
      /\ queue # <<>> => Slice <= Granted(1) \/ Unit * (CycleMax - (left - Slice)) <= queue[1].at
    <2>1. CASE queue = <<>>
        BY <1>1, <2>1 DEF Slice
    <2>2. CASE queue # <<>>
        <3> DEFINE gap == WholeCycles(Head(queue).at - Unit * Now)
        <3>1. Head(queue) = queue[1] /\ queue[1] \in Entries
            BY <1>1, <2>2
        <3>2. queue[1].at \in Int
            BY <3>1 DEF Entries
        <3>3. /\ Now = CycleMax - left /\ CycleMax \in Nat /\ Unit \in Nat
              /\ Unit * Now \in Int
            BY <1>1, TimeAssumption DEF Now, TimeAt
        <3>4. gap \in Int
            BY <3>1, <3>2, <3>3, WholeCyclesType
        <3>5. Slice = Smaller(IF gap = 0 THEN 1 ELSE gap, left)
            BY <2>2 DEF Slice
        <3>6. CASE Slice <= 1
            BY <1>1, <3>4, <3>5, <3>6 DEF Smaller, Granted
        <3>7. CASE ~(Slice <= 1)
            <4>1. Slice \in Nat \ {0} /\ Slice <= gap /\ Slice <= left
                BY <1>1, <3>4, <3>5, <3>7 DEF Smaller
            <4>2. Unit * Slice <= queue[1].at - Unit * Now
                <5> DEFINE x == queue[1].at - Unit * Now
                <5>1. x \in Int /\ gap = WholeCycles(x)
                    BY <3>1, <3>2, <3>3
                <5> HIDE DEF x, gap
                <5>2. Unit * Slice <= x
                    BY <4>1, <5>1, CyclesFit
                <5> QED
                    BY <5>2 DEF x
            <4>3. Unit * (CycleMax - (left - Slice)) = Unit * (CycleMax - left) + Unit * Slice
                BY <1>1, <3>3, <4>1
            <4>4. Unit * Slice \in Int /\ Unit * (CycleMax - left) \in Int
                BY <1>1, <3>3, <4>1
            <4> QED
                BY <1>1, <3>2, <3>3, <4>1, <4>2, <4>3, <4>4
        <3> QED
            BY <3>6, <3>7
    <2> QED
        BY <2>1, <2>2
<1>3. SliceEnds(queue', left', cycles')
    BY <1>1, <1>2 DEF SliceEnds
<1> QED
    BY <1>1, <1>2, <1>3 DEF QueueInv, Places, NoEntryLost, Order, Sorted

LEMMA ServeStep ==
    ASSUME QueueInv, Serve
    PROVE  QueueInv'
<1>1. /\ queue \in Seq(Entries) /\ queue # <<>> /\ Sorted(queue)
      /\ serving' = Head(queue) /\ queue' = Tail(queue)
      /\ pc = "serve" /\ pc' = "handler" /\ UNCHANGED <<free, left, cycles>>
      /\ NoEntryLost /\ Places
    BY DEF QueueInv, Places, Order, Serve, Due
<1>2. /\ Len(queue) \in Nat \ {0}
      /\ queue' \in Seq(Entries) /\ Len(queue') = Len(queue) - 1
      /\ \A i \in 1 .. Len(queue) - 1 : queue'[i] = queue[i + 1]
      /\ serving' = queue[1] /\ serving' \in Entries
    BY <1>1
<1>3. Sorted(queue') /\ \A i \in DOMAIN queue' : serving'.at <= queue'[i].at
    <2>1. DOMAIN queue = 1 .. Len(queue) /\ DOMAIN queue' = 1 .. Len(queue) - 1
        BY <1>1, <1>2
    <2>2. \A i \in 1 .. Len(queue) - 1 : i + 1 \in 1 .. Len(queue) /\ 1 \in 1 .. Len(queue)
        BY <1>2
    <2> QED
        BY <1>1, <1>2, <2>1, <2>2 DEF Sorted
<1> QED
    BY <1>1, <1>2, <1>3, TimeAssumption DEF QueueInv, Places, NoEntryLost, Order

\* A new tick moves all deadlines by the same time
LEMMA AddTickStep ==
    ASSUME QueueInv, AddTick
    PROVE  QueueInv'
<1> DEFINE d == Unit * CycleMax
<1>1. /\ queue \in Seq(Entries) /\ Sorted(queue)
      /\ queue' = [i \in DOMAIN queue |-> [queue[i] EXCEPT !.at = queue[i].at - d]]
      /\ pc = "idle" /\ pc' = "tick" /\ UNCHANGED <<serving, free>>
      /\ left' = CycleMax /\ cycles' = 0
      /\ NoEntryLost /\ Places /\ d \in Int
    BY TimeAssumption DEF QueueInv, Places, Order, AddTick
<1> HIDE DEF d
<1>2. Len(queue) \in Nat /\ DOMAIN queue = 1 .. Len(queue)
    BY <1>1
<1>3. \A x \in Entries : x.at \in Int /\ [x EXCEPT !.at = x.at - d] \in Entries
                         /\ [x EXCEPT !.at = x.at - d].at = x.at - d
    BY <1>1 DEF Entries
<1>4. \A i \in 1 .. Len(queue) : queue[i] \in Entries
    BY <1>1
<1>5. /\ queue' \in Seq(Entries) /\ Len(queue') = Len(queue) /\ DOMAIN queue' = DOMAIN queue
      /\ \A i \in 1 .. Len(queue) : queue'[i].at = queue[i].at - d
    <2> DEFINE r == [i \in 1 .. Len(queue) |-> [queue[i] EXCEPT !.at = queue[i].at - d]]
    <2>1. queue' = r
        BY <1>1, <1>2
    <2>2. \A i \in 1 .. Len(queue) : r[i] \in Entries /\ r[i].at = queue[i].at - d
        BY <1>3, <1>4
    <2>3. r \in Seq(Entries) /\ Len(r) = Len(queue) /\ DOMAIN r = 1 .. Len(queue)
        BY <1>2, <1>3, <1>4
    <2> HIDE DEF r
    <2> QED
        BY <1>2, <2>1, <2>2, <2>3
<1>6. Sorted(queue')
    <2>1. \A i \in 1 .. Len(queue) : queue[i].at \in Int
        BY <1>3, <1>4
    <2>2. \A i, j \in 1 .. Len(queue) : i <= j => queue[i].at <= queue[j].at
        BY <1>1, <1>2 DEF Sorted
    <2>3. \A i, j \in 1 .. Len(queue) : i <= j => queue'[i].at <= queue'[j].at
        BY <1>1, <1>5, <2>1, <2>2
    <2> QED
        BY <1>2, <1>5, <2>3 DEF Sorted
<1> QED
    BY <1>1, <1>5, <1>6, TimeAssumption DEF QueueInv, Places, NoEntryLost, Order

\* The time goes on by what is taken from CPU_Cycles and CPU_CycleLeft together
LEMMA TimeGone ==
    ASSUME left \in Int, cycles \in Int, left' \in Int, cycles' \in Int,
           left' + cycles' <= left + cycles
    PROVE  Now' >= Now
<1>1. \A l, c, m, d \in Int : m + d <= l + c => CycleMax - m - d >= CycleMax - l - c
    BY TimeAssumption
<1>2. CycleMax - left' - cycles' >= CycleMax - left - cycles
    BY <1>1
<1> QED
    BY <1>2 DEF Now, TimeAt

LEMMA InstructionStep ==
    ASSUME QueueInv, NEW n \in 1 .. cycles + Overshoot, Instruction(n)
    PROVE  QueueInv' /\ Now' >= Now
<1>1. /\ Places /\ NoEntryLost /\ Order /\ SliceEnds(queue, left, cycles)
      /\ pc = "cpu" /\ cycles \in Int /\ left \in Int
      /\ pc' \in {"cpu", "loop"} /\ serving' = serving
      /\ queue \in Seq(Entries) /\ free \in 0 .. Slots
    BY DEF QueueInv, Places, Instruction
<1>2. n \in Int /\ n >= 1
    BY <1>1, TimeAssumption
<1>3. Ready(cycles - n)
    <2>1. SliceEnds(queue, left, cycles - n)
        BY <1>1, <1>2 DEF SliceEnds, Granted
    <2> QED
        BY <1>1, <1>2, <2>1 DEF Ready
<1>4. Worked(cycles - n)
    <2>1. CASE Keep(cycles - n) /\ UNCHANGED <<queue, free>>
        BY <1>1, <1>2, <1>3, <2>1 DEF Worked, Ready, Keep, Places, Order
    <2>2. CASE DeviceOp(cycles - n)
        BY <1>1, <1>2, <1>3, <2>2, DeviceOpWorked
    <2> QED
        BY <2>1, <2>2 DEF Instruction
<1>5. /\ QueueInv'
    BY <1>1, <1>2, <1>4 DEF QueueInv, Places, NoEntryLost, Order, Worked
<1>6. Now' >= Now
    <2>1. left' \in Int /\ cycles' \in Int /\ left' + cycles' = left + (cycles - n)
        BY <1>4 DEF Worked
    <2>2. left' + cycles' <= left + cycles
        <3>1. left + (cycles - n) <= left + cycles
            BY <1>1, <1>2
        <3> QED
            BY <2>1, <3>1
    <2> QED
        BY <1>1, <2>1, <2>2, TimeGone
<1> QED
    BY <1>5, <1>6

LEMMA HandlerOpStep ==
    ASSUME QueueInv, HandlerOp
    PROVE  QueueInv' /\ Now' >= Now
<1>1. /\ Places /\ NoEntryLost /\ Order /\ cycles = 0
      /\ pc \in {"handler", "tick", "idle"} /\ UNCHANGED <<serving, pc>>
      /\ DeviceOp(0) /\ left \in Int
    BY DEF QueueInv, Places, HandlerOp
<1>2. Ready(0)
    BY <1>1 DEF Ready, SliceEnds, Granted
<1>3. Worked(0)
    BY <1>1, <1>2, DeviceOpWorked
<1>4. QueueInv'
    BY <1>1, <1>3 DEF QueueInv, Places, NoEntryLost, Order, Worked
<1>5. Now' >= Now
    <2>1. left' \in Int /\ cycles' \in Int /\ left' + cycles' = left + 0
        BY <1>3 DEF Worked
    <2>2. left' + cycles' <= left + cycles
        <3>1. left + 0 <= left + cycles
            BY <1>1
        <3> QED
            BY <2>1, <3>1
    <2>3. cycles \in Int
        BY <1>1
    <2> QED
        BY <1>1, <2>1, <2>2, <2>3, TimeGone
<1> QED
    BY <1>4, <1>5

\* The steps of Normal_Loop that leave the queue alone
LEMMA LoopStep ==
    ASSUME QueueInv, TickOver \/ RunQueue \/ HandlerDone \/ CoreReturn \/ TickDone
    PROVE  QueueInv'
<1>1. Places /\ NoEntryLost /\ Order /\ queue' = queue /\ queue \in Seq(Entries)
    BY DEF QueueInv, Places, TickOver, RunQueue, HandlerDone, CoreReturn, TickDone
<1>2. Len(queue) \in Nat /\ Sorted(queue')
    BY <1>1 DEF Order
<1>3. CASE TickOver \/ RunQueue \/ CoreReturn \/ TickDone
    BY <1>1, <1>2, <1>3
    DEF QueueInv, Places, NoEntryLost, Order, TickOver, RunQueue, CoreReturn, TickDone, GiveBack
<1>4. CASE HandlerDone
    BY <1>1, <1>2, <1>4, TimeAssumption
    DEF QueueInv, Places, NoEntryLost, Order, HandlerDone
<1> QED
    BY <1>3, <1>4

LEMMA QueueInvNext ==
    ASSUME QueueInv, [Next]_vars
    PROVE  QueueInv'
<1>1. CASE Loop
    BY <1>1, StartCoreStep, ServeStep, LoopStep DEF Loop
<1>2. CASE Cpu
    BY <1>2, InstructionStep DEF Cpu
<1>3. CASE HandlerOp
    BY <1>3, HandlerOpStep
<1>4. CASE AddTick
    BY <1>4, AddTickStep
<1>5. CASE UNCHANGED vars
    BY <1>5 DEF vars, QueueInv, Places, NoEntryLost, Order
<1> QED
    BY <1>1, <1>2, <1>3, <1>4, <1>5 DEF Next

LEMMA QueueInvInvariant == Spec => []QueueInv
<1>1. Init => QueueInv
    BY QueueInvInit
<1>2. QueueInv /\ [Next]_vars => QueueInv'
    BY QueueInvNext
<1> QED
    BY <1>1, <1>2, PTL DEF Spec

---------------------------------------------------------------------------
(* The theorems *)

\* The two lists of the queue stay what PIC_Init made them: however devices
\* schedule and cancel events, PIC_QUEUESIZE entries are queued, free or in
\* service.
THEOREM QueueKept == Spec => []QueueOK
<1>1. QueueInv => QueueOK
    BY DEF QueueInv, Places, QueueOK, TypeOK
<1> QED
    BY <1>1, QueueInvInvariant, PTL

\* The first entry of the queue is the earliest, and no handler runs after that
\* of a later event.
THEOREM ServedInOrder == Spec => []InOrder
<1>1. QueueInv => InOrder
    BY DEF QueueInv, Order, Sorted, InOrder
<1> QED
    BY <1>1, QueueInvInvariant, PTL

\* The core never has more cycles than remain to the first deadline and to the
\* end of the tick, but for the one or two it is always granted.
THEOREM SlicesEndInTime == Spec => []DeadlineKept
<1>1. QueueInv => DeadlineKept
    <2> SUFFICES ASSUME QueueInv, pc = "cpu"
                 PROVE  /\ queue # <<>> => \/ cycles <= WholeCycles(queue[1].at - Unit * Now)
                                           \/ cycles <= Granted(1)
                        /\ left < 0 => cycles <= Granted(0)
        BY DEF DeadlineKept, Granted
    <2>1. /\ SliceEnds(queue, left, cycles) /\ queue \in Seq(Entries)
          /\ left \in Int /\ cycles \in Int
        BY DEF QueueInv, Places
    <2>2. ASSUME queue # <<>>, Unit * (CycleMax - left) <= queue[1].at, cycles >= 1
          PROVE  cycles <= WholeCycles(queue[1].at - Unit * Now)
        <3> DEFINE x == queue[1].at - Unit * Now
        <3>1. queue[1] \in Entries
            BY <2>1, <2>2
        <3>2. queue[1].at \in Int
            BY <3>1 DEF Entries
        <3>3. Unit * Now = Unit * (CycleMax - left) - Unit * cycles /\ Unit * Now \in Int
            BY <2>1, TimeAssumption DEF Now, TimeAt
        <3>4. x \in Int /\ Unit * cycles <= x
            <4>1. Unit * (CycleMax - left) \in Int /\ Unit * cycles \in Int
                BY <2>1, TimeAssumption
            <4> QED
                BY <2>2, <3>2, <3>3, <4>1
        <3>5. cycles \in Nat \ {0}
            BY <2>1, <2>2
        <3> HIDE DEF x
        <3>6. cycles <= WholeCycles(x)
            BY <3>4, <3>5, CyclesFit
        <3> QED
            BY <3>6 DEF x
    <2> QED
        BY <2>1, <2>2 DEF SliceEnds, Granted
<1> QED
    BY <1>1, QueueInvInvariant, PTL

\* Only a new tick sets the time back: cutting, giving back and starting slices
\* moves cycles between CPU_Cycles and CPU_CycleLeft and loses none.
THEOREM TimeKept == Spec => TimeForward
<1>1. ASSUME QueueInv, [Next]_vars
      PROVE  (pc = "idle" /\ pc' = "tick") \/ Now' >= Now
    <2>1. left \in Int /\ cycles \in Int /\ CycleMax \in Int
          /\ (pc = "serve" => cycles = 0)
        BY <1>1, TimeAssumption DEF QueueInv, Places
    <2>2. CASE StartCore
        <3>1. left' \in Int /\ cycles' \in Int /\ left' + cycles' <= left + cycles
            <4>1. cycles' \in Int /\ left' = left - cycles'
                BY <1>1, <2>2, QueueInvNext DEF StartCore, QueueInv, Places
            <4> QED
                BY <2>1, <2>2, <4>1 DEF StartCore
        <3> QED
            BY <2>1, <3>1, TimeGone
    <2>3. CASE TickOver \/ RunQueue \/ Serve \/ HandlerDone \/ CoreReturn \/ TickDone
        BY <2>1, <2>3
        DEF Now, TimeAt, TickOver, RunQueue, Serve, HandlerDone, CoreReturn, TickDone, GiveBack
    <2>4. CASE Cpu
        BY <1>1, <2>4, InstructionStep DEF Cpu
    <2>5. CASE HandlerOp
        BY <1>1, <2>5, HandlerOpStep
    <2>6. CASE AddTick
        BY <2>6 DEF AddTick
    <2>7. CASE UNCHANGED vars
        BY <2>1, <2>7 DEF vars, Now, TimeAt
    <2> QED
        BY <1>1, <2>2, <2>3, <2>4, <2>5, <2>6, <2>7 DEF Next, Loop
<1>2. QueueInv /\ [Next]_vars => [(pc = "idle" /\ pc' = "tick") \/ Now' >= Now]_vars
    BY <1>1
<1> QED
    BY <1>2, QueueInvInvariant, PTL DEF Spec, TimeForward

---------------------------------------------------------------------------
(* The code cache: its state *)

Targets == Addresses \cup {<<>>}
LinkSet == [to : Headers \cup {None}, from : SUBSET Headers, target : Targets]
HeaderSet == [page : Handlers \cup {None}, start : Offsets, end : Offsets,
              index : 0 .. PageSize, other : Headers \cup {None}, at : Nat, size : Nat,
              link : [Links -> LinkSet], code : SUBSET Addresses, fresh : BOOLEAN]
PageSet == [phys : Pages \cup {0}, blocks : Int, count : Int, map : [Offsets -> Int]]
CacheSet == [h : [Headers -> HeaderSet], chain : Seq(Headers), active : Nat, free : SUBSET Headers,
             pages : [Handlers -> PageSet], used : Seq(Handlers), freePages : Seq(Handlers),
             code : Handlers \cup {None}, running : Headers \cup {None}]

\* The part of the state that only opening and closing blocks, or pages, changes
SameLists(c, d) ==
    /\ d.chain = c.chain /\ d.active = c.active /\ d.used = c.used /\ d.freePages = c.freePages
    /\ d.code = c.code /\ d.running = c.running

\* What clearing leaves in other headers
SameHeader(h, g) ==
    /\ h.page = g.page /\ h.start = g.start /\ h.end = g.end /\ h.index = g.index
    /\ h.other = g.other /\ h.at = g.at /\ h.size = g.size /\ h.code = g.code /\ h.fresh = g.fresh

LEMMA Numbers ==
    /\ None \notin Headers /\ None \notin Handlers /\ None \in Nat
    /\ Headers \subseteq Nat /\ Handlers \subseteq Nat /\ Pages \subseteq Nat
    /\ PageSize \in Nat /\ PageSize > 0 /\ ActiveCount \in Nat /\ ActiveCount > 0
    /\ Offsets = 0 .. PageSize - 1 /\ 0 \in Offsets
    BY PoolsAssumption DEF None, Offsets

LEMMA BlankHeader == Blank \in HeaderSet /\ NoLink \in LinkSet
<1>1. NoLink \in LinkSet
    BY DEF NoLink, LinkSet, Targets
<1>2. [i \in Links |-> NoLink] \in [Links -> LinkSet]
    BY <1>1
<1> QED
    BY <1>1, <1>2, Numbers DEF Blank, HeaderSet

---------------------------------------------------------------------------
(* Clearing one header *)

\* The links of header x once b has left the lists
Relinked(c, b, x, i) ==
    LET l == c.h[x].link[i]
        kept == CASE x = b                 -> {}
                  [] x = c.h[b].link[i].to -> l.from \ {b}
                  [] OTHER                 -> l.from
    IN  IF x \in c.h[b].link[i].from THEN [NoLink EXCEPT !.from = kept]
        ELSE [l EXCEPT !.from = kept]

\* l is what the link m of header x becomes, when back is the link of b
Relinks(l, m, back, b, x) ==
    /\ l \in LinkSet
    /\ l.from = (IF x = b THEN {} ELSE IF x = back.to THEN m.from \ {b} ELSE m.from)
    /\ x \in back.from => l.to = None
    /\ x \notin back.from => l.to = m.to /\ l.target = m.target

LEMMA RelinkedIs ==
    ASSUME NEW c \in CacheSet, NEW b \in Headers, NEW x \in Headers, NEW i \in Links
    PROVE  Relinks(Relinked(c, b, x, i), c.h[x].link[i], c.h[b].link[i], b, x)
<1> DEFINE m == c.h[x].link[i]
           kept == CASE x = b                 -> {}
                     [] x = c.h[b].link[i].to -> m.from \ {b}
                     [] OTHER                 -> m.from
<1>1. m \in LinkSet
    BY DEF CacheSet, HeaderSet
<1>2. kept = IF x = b THEN {} ELSE IF x = c.h[b].link[i].to THEN m.from \ {b} ELSE m.from
    <2>1. kept = CASE x = b -> {}
                   [] x # b /\ x = c.h[b].link[i].to -> m.from \ {b}
                   [] OTHER -> m.from
        <3>1. b \in Headers
            OBVIOUS
        <3> QED
            OBVIOUS
    <2> QED
        BY <2>1
<1>3. kept \in SUBSET Headers
    BY <1>1, <1>2 DEF LinkSet
<1> HIDE DEF m, kept
<1>4. /\ [NoLink EXCEPT !.from = kept] \in LinkSet /\ [m EXCEPT !.from = kept] \in LinkSet
      /\ [NoLink EXCEPT !.from = kept].from = kept /\ [m EXCEPT !.from = kept].from = kept
      /\ [NoLink EXCEPT !.from = kept].to = None
      /\ [m EXCEPT !.from = kept].to = m.to /\ [m EXCEPT !.from = kept].target = m.target
    BY <1>1, <1>3, BlankHeader DEF LinkSet, NoLink
<1>5. Relinked(c, b, x, i) = IF x \in c.h[b].link[i].from THEN [NoLink EXCEPT !.from = kept]
                             ELSE [m EXCEPT !.from = kept]
    BY DEF Relinked, m, kept
<1> QED
    BY <1>2, <1>4, <1>5 DEF m, Relinks

LEMMA UnlinkedIs ==
    ASSUME NEW c \in CacheSet, NEW b \in Headers
    PROVE  LET d == Unlinked(c, b)
           IN  /\ d \in CacheSet /\ SameLists(c, d) /\ d.free = c.free /\ d.pages = c.pages
               /\ \A x \in Headers : /\ SameHeader(d.h[x], c.h[x])
                                     /\ \A i \in Links : d.h[x].link[i] = Relinked(c, b, x, i)
<1> DEFINE n(x) == [i \in Links |-> Relinked(c, b, x, i)]
           g == [x \in Headers |-> [c.h[x] EXCEPT !.link = n(x)]]
<1>1. Unlinked(c, b) = [c EXCEPT !.h = g]
    BY DEF Unlinked, Relinked
<1>2. \A x \in Headers : n(x) \in [Links -> LinkSet] /\ \A i \in Links : n(x)[i] = Relinked(c, b, x, i)
    BY RelinkedIs DEF Relinks
<1> HIDE DEF n
<1>3. ASSUME NEW x \in Headers
      PROVE  g[x] \in HeaderSet /\ SameHeader(g[x], c.h[x]) /\ g[x].link = n(x)
    <2>1. c.h[x] \in HeaderSet
        BY DEF CacheSet
    <2> QED
        BY <1>2, <2>1 DEF HeaderSet, SameHeader
<1>4. g \in [Headers -> HeaderSet]
    BY <1>3
<1> HIDE DEF g
<1>5. [c EXCEPT !.h = g] \in CacheSet /\ [c EXCEPT !.h = g].h = g
      /\ SameLists(c, [c EXCEPT !.h = g])
      /\ [c EXCEPT !.h = g].free = c.free /\ [c EXCEPT !.h = g].pages = c.pages
    BY <1>4 DEF CacheSet, SameLists
<1> QED
    BY <1>1, <1>2, <1>3, <1>5

\* A header is written.
WithHeader(c, b, e) == [c EXCEPT !.h[b] = e]

LEMMA HeaderIs ==
    ASSUME NEW c \in CacheSet, NEW b \in Headers, NEW e \in HeaderSet
    PROVE  LET d == WithHeader(c, b, e)
           IN  /\ d \in CacheSet /\ SameLists(c, d) /\ d.free = c.free /\ d.pages = c.pages
               /\ d.h[b] = e
               /\ \A x \in Headers : x # b => d.h[x] = c.h[x]
<1> DEFINE g == [c.h EXCEPT ![b] = e]
           d == [c EXCEPT !.h = g]
<1>1. WithHeader(c, b, e) = d
    BY DEF WithHeader
<1>2. c.h \in [Headers -> HeaderSet]
    BY DEF CacheSet
<1>3. g \in [Headers -> HeaderSet] /\ g[b] = e /\ \A x \in Headers : x # b => g[x] = c.h[x]
    BY <1>2
<1> HIDE DEF g
<1>4. d \in CacheSet /\ d.h = g /\ SameLists(c, d) /\ d.free = c.free /\ d.pages = c.pages
    BY <1>3 DEF CacheSet, SameLists
<1> HIDE DEF d
<1> QED
    BY <1>1, <1>3, <1>4

\* The counters p of a page once it loses a block of the bytes at
Fewer(p, at) ==
    [p EXCEPT !.blocks = @ - 1, !.count = ActiveCount,
              !.map = [o \in Offsets |-> IF o \in at /\ p.map[o] > 0 THEN p.map[o] - 1 ELSE p.map[o]]]

LEMMA CountersIs ==
    ASSUME NEW p \in PageSet, NEW n \in Int, NEW a \in Int, NEW m \in [Offsets -> Int]
    PROVE  [p EXCEPT !.blocks = n, !.count = a, !.map = m] \in PageSet
    BY DEF PageSet

LEMMA FewerIs ==
    ASSUME NEW p \in PageSet, NEW at
    PROVE  LET q == Fewer(p, at)
           IN  /\ q \in PageSet /\ q.phys = p.phys /\ q.blocks = p.blocks - 1
               /\ \A o \in Offsets :
                      q.map[o] = IF o \in at /\ p.map[o] > 0 THEN p.map[o] - 1 ELSE p.map[o]
<1> DEFINE m == [o \in Offsets |-> IF o \in at /\ p.map[o] > 0 THEN p.map[o] - 1 ELSE p.map[o]]
<1>1. p.map \in [Offsets -> Int] /\ p.blocks \in Int /\ ActiveCount \in Int
    BY Numbers DEF PageSet
<1>2. m \in [Offsets -> Int]
    BY <1>1
<1>3. Fewer(p, at) = [p EXCEPT !.blocks = @ - 1, !.count = ActiveCount, !.map = m]
    BY DEF Fewer
<1>4. \A o \in Offsets : m[o] = IF o \in at /\ p.map[o] > 0 THEN p.map[o] - 1 ELSE p.map[o]
    OBVIOUS
<1> HIDE DEF m
<1> DEFINE q == [p EXCEPT !.blocks = p.blocks - 1, !.count = ActiveCount, !.map = m]
<1>5. q.phys = p.phys /\ q.blocks = p.blocks - 1 /\ q.map = m
    BY DEF PageSet
<1>6. q \in PageSet
    <2>1. p.blocks - 1 \in Int
        BY <1>1
    <2> QED
        BY CountersIs, <1>1, <1>2, <2>1, Zenon
<1>7. Fewer(p, at) = q
    BY <1>3
<1> HIDE DEF q
<1> QED
    BY <1>4, <1>5, <1>6, <1>7

LEMMA DelIs ==
    ASSUME NEW c \in CacheSet, NEW b \in Headers, c.h[b].page \in Handlers
    PROVE  LET d == DelCacheBlock(c, b)
               g == c.h[b].page
           IN  /\ d \in CacheSet /\ SameLists(c, d) /\ d.free = c.free
               /\ d.h[b] = [c.h[b] EXCEPT !.page = None]
               /\ \A x \in Headers : x # b => d.h[x] = c.h[x]
               /\ d.pages[g] = Fewer(c.pages[g], c.h[b].start .. c.h[b].end)
               /\ \A k \in Handlers : k # g => d.pages[k] = c.pages[k]
<1> DEFINE g == c.h[b].page
           e == Header(c, b, "page", None)
           q == Fewer(c.pages[g], c.h[b].start .. c.h[b].end)
           p == [c.pages EXCEPT ![g] = q]
<1>1. /\ e \in CacheSet /\ SameLists(c, e) /\ e.free = c.free /\ e.pages = c.pages
      /\ e.h[b] = [c.h[b] EXCEPT !.page = None]
      /\ \A x \in Headers : x # b => e.h[x] = c.h[x]
    <2> DEFINE hd == [c.h[b] EXCEPT !.page = None]
    <2>1. hd \in HeaderSet
        <3>1. c.h[b] \in HeaderSet
            BY DEF CacheSet
        <3> QED
            BY <3>1 DEF HeaderSet
    <2>2. e = WithHeader(c, b, hd)
        BY DEF Header, WithHeader
    <2> HIDE DEF e, hd
    <2>3. /\ e \in CacheSet /\ SameLists(c, e) /\ e.free = c.free /\ e.pages = c.pages
          /\ e.h[b] = hd /\ \A x \in Headers : x # b => e.h[x] = c.h[x]
        BY <2>1, <2>2, HeaderIs
    <2> QED
        BY <2>3 DEF hd
<1>2. DelCacheBlock(c, b) = [e EXCEPT !.pages[g] = q]
    BY DEF DelCacheBlock, Fewer
<1> HIDE DEF e, q
<1>3. q \in PageSet /\ c.pages \in [Handlers -> PageSet]
    <2>1. c.pages \in [Handlers -> PageSet] /\ c.pages[g] \in PageSet
        BY DEF CacheSet
    <2> QED
        BY <2>1, FewerIs DEF q
<1>4. p \in [Handlers -> PageSet] /\ p[g] = q /\ \A k \in Handlers : k # g => p[k] = c.pages[k]
    BY <1>3
<1>5. [e EXCEPT !.pages[g] = q] = [e EXCEPT !.pages = p]
    BY <1>1
<1> HIDE DEF p
<1>6. /\ [e EXCEPT !.pages = p] \in CacheSet /\ [e EXCEPT !.pages = p].pages = p
      /\ SameLists(c, [e EXCEPT !.pages = p]) /\ [e EXCEPT !.pages = p].free = c.free
      /\ [e EXCEPT !.pages = p].h = e.h
    BY <1>1, <1>4 DEF CacheSet, SameLists
<1> DEFINE d == [e EXCEPT !.pages = p]
<1>7. DelCacheBlock(c, b) = d
    BY <1>2, <1>5
<1> HIDE DEF d
<1>8. /\ d \in CacheSet /\ d.pages = p /\ SameLists(c, d) /\ d.free = c.free /\ d.h = e.h
    BY <1>6 DEF d
<1> QED
    BY <1>1, <1>4, <1>7, <1>8 DEF q

\* d is what is left of c when the part b, of a block, is cleared
PartGone(c, d, b) ==
    LET old == c.h[b]
        new == d.h[b]
    IN  /\ SameLists(c, d)
        /\ d.free = (IF old.index > 0 THEN c.free ELSE c.free \cup {b})
        /\ \A x \in Headers : x # b => SameHeader(d.h[x], c.h[x])
        /\ new.page = None /\ new.other = None /\ new.at = old.at /\ new.size = old.size
        /\ d.pages[old.page] = Fewer(c.pages[old.page], old.start .. old.end)
        /\ \A k \in Handlers : k # old.page => d.pages[k] = c.pages[k]
        /\ \A x \in Headers, i \in Links : x # b =>
               d.h[x].link[i] = IF old.index > 0 THEN Relinked(c, b, x, i) ELSE c.h[x].link[i]

LEMMA PartIsGone ==
    ASSUME NEW c \in CacheSet, NEW b \in Headers, c.h[b].page \in Handlers
    PROVE  ClearPart(c, b) \in CacheSet /\ PartGone(c, ClearPart(c, b), b)
<1> DEFINE old == c.h[b]
           unlisted == [c EXCEPT !.free = @ \cup {b}]
           c1 == IF old.index > 0 THEN Unlinked(c, b) ELSE unlisted
           c2 == DelCacheBlock(c1, b)
           rest == IF b = c.running THEN c2.h[b] ELSE Blank
           e == [rest EXCEPT !.other = None, !.at = old.at, !.size = old.size]
           d == WithHeader(c2, b, e)
<1>n. None \notin Handlers
    BY Numbers
<1>1. old \in HeaderSet /\ old.page # None
    BY <1>n DEF CacheSet
<1>2. /\ c1 \in CacheSet /\ SameLists(c, c1) /\ c1.pages = c.pages
      /\ c1.free = (IF old.index > 0 THEN c.free ELSE c.free \cup {b})
      /\ \A x \in Headers : SameHeader(c1.h[x], c.h[x])
      /\ \A x \in Headers, i \in Links :
             c1.h[x].link[i] = IF old.index > 0 THEN Relinked(c, b, x, i) ELSE c.h[x].link[i]
    <2>1. /\ unlisted \in CacheSet /\ SameLists(c, unlisted) /\ unlisted.pages = c.pages
          /\ unlisted.h = c.h /\ unlisted.free = c.free \cup {b}
        BY DEF CacheSet, SameLists
    <2>2. \A x \in Headers : SameHeader(c.h[x], c.h[x])
        BY DEF SameHeader
    <2> HIDE DEF unlisted
    <2> QED
        BY UnlinkedIs, <2>1, <2>2
<1> HIDE DEF c1
<1>3. SameHeader(c1.h[b], old) /\ c1.h[b].page = old.page
    BY <1>2 DEF SameHeader
<1>4. /\ c2 \in CacheSet /\ SameLists(c1, c2) /\ c2.free = c1.free
      /\ \A x \in Headers : x # b => c2.h[x] = c1.h[x]
      /\ c2.h[b] = [c1.h[b] EXCEPT !.page = None]
      /\ c2.pages[old.page] = Fewer(c1.pages[old.page], c1.h[b].start .. c1.h[b].end)
      /\ \A k \in Handlers : k # old.page => c2.pages[k] = c1.pages[k]
    BY <1>2, <1>3, DelIs
<1> HIDE DEF c2
<1>5. c2.h[b] \in HeaderSet /\ c2.h[b].page = None
    <2>1. c1.h[b] \in HeaderSet /\ c2.h[b] \in HeaderSet
        BY <1>2, <1>4 DEF CacheSet
    <2> QED
        BY <1>4, <2>1 DEF HeaderSet
<1>6. rest \in HeaderSet /\ rest.page = None
    BY <1>5, BlankHeader DEF Blank
<1> HIDE DEF rest
<1>7. e \in HeaderSet /\ e.page = None /\ e.other = None /\ e.at = old.at /\ e.size = old.size
    BY <1>1, <1>6 DEF HeaderSet
<1> HIDE DEF e
<1>8. /\ d \in CacheSet /\ SameLists(c2, d) /\ d.free = c2.free /\ d.pages = c2.pages
      /\ d.h[b] = e
      /\ \A x \in Headers : x # b => d.h[x] = c2.h[x]
    BY <1>4, <1>7, HeaderIs
<1>9. ClearPart(c, b) = d
    <2>1. ClearPart(c, b) =
              LET f1 == IF c.h[b].index > 0 THEN Unlinked(c, b) ELSE [c EXCEPT !.free = @ \cup {b}]
                  f2 == DelCacheBlock(f1, b)
                  r == IF b = c.running THEN f2.h[b] ELSE Blank
              IN  WithHeader(f2, b, [r EXCEPT !.other = None, !.at = c.h[b].at, !.size = c.h[b].size])
        BY <1>1 DEF ClearPart, WithHeader
    <2> QED
        BY <2>1 DEF c1, c2, rest, e
<1> HIDE DEF d, old
<1>10. SameLists(c, d) /\ d.free = (IF old.index > 0 THEN c.free ELSE c.free \cup {b})
    BY <1>2, <1>4, <1>8 DEF SameLists
<1>11. \A x \in Headers : x # b => d.h[x] = c1.h[x]
    BY <1>4, <1>8
<1>12. /\ d.pages[old.page] = Fewer(c.pages[old.page], old.start .. old.end)
       /\ \A k \in Handlers : k # old.page => d.pages[k] = c.pages[k]
    BY <1>2, <1>3, <1>4, <1>8 DEF SameHeader
<1>13. PartGone(c, d, b)
    BY <1>2, <1>7, <1>8, <1>10, <1>11, <1>12 DEF PartGone, old
<1> QED
    BY <1>8, <1>9, <1>13

---------------------------------------------------------------------------
(* What holds between any two steps: the parts of the inductive invariant *)

\* A block that can run, and a part of one behind the end of its page
Main(c, b) == c.h[b].page # None /\ c.h[b].index > 0
Cross(c, b) == c.h[b].page # None /\ c.h[b].index = 0

\* The memory that a header stands for
Bytes(c, b) == {c.pages[c.h[b].page].phys} \X (c.h[b].start .. c.h[b].end)

\* The two parts of a block know of each other, and the block of all its bytes.
PartOK(c, b) ==
    LET hd == c.h[b]
        x == hd.other
    IN  /\ hd.page = None => x = None
        /\ hd.page # None => hd.fresh = TRUE
        /\ Main(c, b) =>
              /\ hd.index = hd.start + 1
              /\ x = None => hd.code = Bytes(c, b)
              /\ x # None => /\ Cross(c, x) /\ c.h[x].other = b
                             /\ c.h[x].page # hd.page
                             /\ hd.code = Bytes(c, b) \cup Bytes(c, x)
        /\ Cross(c, b) => x # None /\ Main(c, x) /\ c.h[x].other = b /\ hd.code = {}

PartsOK(c) == \A b \in Headers : PartOK(c, b)

\* A handler is in use or free, and no page has two.
HandlersOK(c) ==
    /\ IsInjective(c.used) /\ IsInjective(c.freePages)
    /\ \A g \in Handlers : g \in Used(c) <=> g \notin ToSet(c.freePages)
    /\ \A g \in Used(c) : c.pages[g].phys \in Pages
    /\ \A g, k \in Used(c) : c.pages[g].phys = c.pages[k].phys => g = k

\* The blocks of a page, and those that were translated from its byte o, are
\* counted, and have a handler that is in use.
Covers(c, g, o) == {b \in Blocks(c, g) : o \in c.h[b].start .. c.h[b].end}

CountsOK(c) ==
    /\ \A b \in Headers : c.h[b].page # None => c.h[b].page \in Used(c)
    /\ \A g \in Used(c) : /\ c.pages[g].blocks = Cardinality(Blocks(c, g))
                          /\ \A o \in Offsets : c.pages[g].map[o] = Cardinality(Covers(c, g, o))

\* A header is in one of three places.
PlacesOK(c) ==
    /\ c.active \in 1 .. Len(c.chain) /\ IsInjective(c.chain)
    /\ \A b \in Headers : /\ Main(c, b) => b \in ToSet(c.chain)
                          /\ Cross(c, b) => b \notin ToSet(c.chain) /\ b \notin c.free
                          /\ b \in ToSet(c.chain) => b \notin c.free
                          /\ b \in ToSet(c.chain) \/ b \in c.free \/ Cross(c, b)

\* The links of header x lead to blocks, which list x, and x lists the blocks
\* that lead to it; none of them is b, the block that is being translated.
LinkOK(c, b, x, i) ==
    LET l == c.h[x].link[i]
    IN  /\ l.to # None => /\ l.to # b /\ Main(c, l.to) /\ x \in c.h[l.to].link[i].from
                          /\ l.target = <<c.pages[c.h[l.to].page].phys, c.h[l.to].start>>
        /\ \A y \in l.from : y # b /\ Main(c, y) /\ c.h[y].link[i].to = x

\* Every block that modifies itself is noticed.  Where one is not, links go wrong,
\* and so may what runs, but nothing else.
AllNoticed == OwnWrites = {}

LinksOK(c, b) ==
    AllNoticed => \A x \in Headers, i \in Links : x # b /\ Main(c, x) => LinkOK(c, b, x, i)

\* b is None unless a block is being translated
Good(c, b) ==
    /\ c \in CacheSet
    /\ PartsOK(c) /\ HandlersOK(c) /\ CountsOK(c) /\ PlacesOK(c) /\ LinksOK(c, b)

\* The headers of the chain tile the memory of the cache.
TileOK(c, i) ==
    LET b == c.h[c.chain[i]]
    IN  /\ i = 1 => b.at = 0
        /\ i = Len(c.chain) => b.at + b.size = Total
        /\ i # Len(c.chain) => b.at + b.size = c.h[c.chain[i + 1]].at

Tiled(c) == /\ \A i \in 1 .. Len(c.chain) : TileOK(c, i)
            /\ c.h[c.chain[c.active]].at + MaxSize <= Total

RunOK(c) == AllNoticed => c.running = None \/ Main(c, c.running)

LEMMA FiniteBlocks ==
    ASSUME NEW c, NEW g
    PROVE  /\ IsFiniteSet(Blocks(c, g)) /\ Cardinality(Blocks(c, g)) \in Nat
           /\ \A o : IsFiniteSet(Covers(c, g, o)) /\ Cardinality(Covers(c, g, o)) \in Nat
<1>1. IsFiniteSet(Headers)
    BY PoolsAssumption
<1>2. Blocks(c, g) \in SUBSET Headers
    BY DEF Blocks
<1>3. IsFiniteSet(Blocks(c, g))
    BY <1>1, <1>2, FS_Subset
<1>4. \A o : Covers(c, g, o) \in SUBSET Blocks(c, g)
    BY DEF Covers
<1>5. \A o : IsFiniteSet(Covers(c, g, o))
    BY <1>3, <1>4, FS_Subset
<1> QED
    BY <1>3, <1>5, FS_CardinalityType

LEMMA OneLess ==
    ASSUME NEW S, IsFiniteSet(S), NEW b \in S, NEW T, T = S \ {b}
    PROVE  Cardinality(T) = Cardinality(S) - 1 /\ Cardinality(S) > 0
<1>1. IsFiniteSet(T) /\ Cardinality(T) = Cardinality(S) - 1
    BY FS_RemoveElement
<1>2. Cardinality(T) \in Nat /\ Cardinality(S) \in Nat
    BY <1>1, FS_CardinalityType
<1> QED
    BY <1>1, <1>2

LEMMA OneMore ==
    ASSUME NEW S, IsFiniteSet(S), NEW b, b \notin S, NEW T, T = S \cup {b}
    PROVE  Cardinality(T) = Cardinality(S) + 1
    BY FS_AddElement

\* A part that is cleared is counted no more.
LEMMA PartGoneCounts ==
    ASSUME NEW c \in CacheSet, NEW d \in CacheSet, NEW b \in Headers, c.h[b].page # None,
           PartGone(c, d, b), CountsOK(c)
    PROVE  CountsOK(d) /\ \A k \in Handlers : d.pages[k].phys = c.pages[k].phys
<1> DEFINE g == c.h[b].page
           at == c.h[b].start .. c.h[b].end
<1>1. g \in Handlers /\ Used(d) = Used(c) /\ Used(c) \subseteq Handlers
      /\ g \in Used(c)
    <2>1. c.h[b] \in HeaderSet /\ c.used \in Seq(Handlers)
        BY DEF CacheSet
    <2>2. Used(c) \subseteq Handlers
        BY <2>1 DEF Used, ToSet
    <2>3. d.used = c.used
        BY DEF PartGone, SameLists
    <2> QED
        BY <2>2, <2>3 DEF Used, CountsOK
<1>2. /\ d.pages[g] = Fewer(c.pages[g], at) /\ \A k \in Handlers : k # g => d.pages[k] = c.pages[k]
      /\ d.h[b].page = None
      /\ \A x \in Headers : x # b => /\ d.h[x].page = c.h[x].page /\ d.h[x].start = c.h[x].start
                                     /\ d.h[x].end = c.h[x].end
    BY DEF PartGone, SameHeader
<1>3. c.pages[g] \in PageSet
    BY <1>1 DEF CacheSet
<1>4. /\ d.pages[g].phys = c.pages[g].phys /\ d.pages[g].blocks = c.pages[g].blocks - 1
      /\ \A o \in Offsets : d.pages[g].map[o] =
             IF o \in at /\ c.pages[g].map[o] > 0 THEN c.pages[g].map[o] - 1 ELSE c.pages[g].map[o]
    <2> DEFINE p == c.pages[g]
    <2>1. p \in PageSet /\ d.pages[g] = Fewer(p, at)
        BY <1>2, <1>3
    <2> HIDE DEF p, at
    <2>2. LET q == Fewer(p, at)
          IN  /\ q.phys = p.phys /\ q.blocks = p.blocks - 1
              /\ \A o \in Offsets : q.map[o] = IF o \in at /\ p.map[o] > 0 THEN p.map[o] - 1
                                              ELSE p.map[o]
        BY <2>1, FewerIs
    <2> QED
        BY <2>1, <2>2, Zenon DEF p
<1>5. None \notin Handlers
    BY Numbers
<1> HIDE DEF g, at
<1>6. Blocks(d, g) = Blocks(c, g) \ {b} /\ b \in Blocks(c, g)
    BY <1>1, <1>2, <1>5 DEF Blocks, g
<1>7. \A k \in Handlers : k # g => Blocks(d, k) = Blocks(c, k)
    BY <1>1, <1>2, <1>5 DEF Blocks, g
<1>8. ASSUME NEW o \in Offsets
      PROVE  /\ o \in at => Covers(d, g, o) = Covers(c, g, o) \ {b} /\ b \in Covers(c, g, o)
             /\ o \notin at => Covers(d, g, o) = Covers(c, g, o)
    BY <1>2, <1>6 DEF Covers, Blocks, at
<1>9. ASSUME NEW k \in Handlers, k # g, NEW o \in Offsets
      PROVE  Covers(d, k, o) = Covers(c, k, o)
    <2>1. Blocks(d, k) = Blocks(c, k) /\ b \notin Blocks(c, k)
        BY <1>7, <1>9 DEF Blocks, g
    <2> QED
        BY <1>2, <2>1 DEF Covers, Blocks
<1>10. ASSUME NEW k \in Used(c)
       PROVE  /\ d.pages[k].blocks = Cardinality(Blocks(d, k))
              /\ \A o \in Offsets : d.pages[k].map[o] = Cardinality(Covers(d, k, o))
    <2>1. k \in Handlers /\ c.pages[k].blocks = Cardinality(Blocks(c, k))
          /\ \A o \in Offsets : c.pages[k].map[o] = Cardinality(Covers(c, k, o))
        BY <1>1 DEF CountsOK
    <2>2. CASE k # g
        BY <1>2, <1>7, <1>9, <2>1, <2>2
    <2>3. CASE k = g
        <3>1. Cardinality(Blocks(d, k)) = Cardinality(Blocks(c, k)) - 1
            BY <1>6, <2>3, OneLess, FiniteBlocks
        <3>2. ASSUME NEW o \in Offsets
              PROVE  d.pages[k].map[o] = Cardinality(Covers(d, k, o))
            <4>1. CASE o \in at
                <5>1. /\ Cardinality(Covers(d, k, o)) = Cardinality(Covers(c, k, o)) - 1
                      /\ Cardinality(Covers(c, k, o)) > 0
                    BY <1>8, <2>3, <4>1, OneLess, FiniteBlocks
                <5> QED
                    BY <1>4, <2>1, <2>3, <4>1, <5>1
            <4>2. CASE o \notin at
                BY <1>4, <1>8, <2>1, <2>3, <4>2
            <4> QED
                BY <4>1, <4>2
        <3> QED
            BY <1>4, <2>1, <2>3, <3>1, <3>2
    <2> QED
        BY <2>2, <2>3
<1>11. \A x \in Headers : d.h[x].page # None => d.h[x].page \in Used(d)
    BY <1>1, <1>2 DEF CountsOK
<1> QED
    BY <1>1, <1>2, <1>4, <1>10, <1>11 DEF CountsOK

LEMMA PartGoneLists ==
    ASSUME NEW c \in CacheSet, NEW d \in CacheSet, NEW b \in Headers, c.h[b].page # None,
           PartGone(c, d, b), HandlersOK(c), PlacesOK(c),
           \A k \in Handlers : d.pages[k].phys = c.pages[k].phys
    PROVE  HandlersOK(d) /\ PlacesOK(d)
<1>1. /\ d.chain = c.chain /\ d.active = c.active /\ d.used = c.used /\ d.freePages = c.freePages
      /\ d.free = (IF c.h[b].index > 0 THEN c.free ELSE c.free \cup {b})
      /\ d.h[b].page = None
      /\ \A x \in Headers : x # b => d.h[x].page = c.h[x].page /\ d.h[x].index = c.h[x].index
    BY DEF PartGone, SameLists, SameHeader
<1>2. c.h[b].index \in Nat
    <2>1. c.h[b] \in HeaderSet
        BY DEF CacheSet
    <2> QED
        BY <2>1, Numbers DEF HeaderSet
<1>3. Used(c) \subseteq Handlers
    BY DEF CacheSet, Used, ToSet
<1>4. HandlersOK(d)
    BY <1>1, <1>3 DEF HandlersOK, Used
<1>5. PlacesOK(d)
    <2>1. \A x \in Headers : x # b => (Main(d, x) <=> Main(c, x)) /\ (Cross(d, x) <=> Cross(c, x))
        BY <1>1 DEF Main, Cross
    <2>2. ~Main(d, b) /\ ~Cross(d, b) /\ (c.h[b].index > 0 <=> Main(c, b))
          /\ (c.h[b].index = 0 <=> Cross(c, b))
        BY <1>1 DEF Main, Cross
    <2> QED
        BY <1>1, <1>2, <2>1, <2>2 DEF PlacesOK
<1> QED
    BY <1>4, <1>5

LEMMA PartGoneLinks ==
    ASSUME NEW c \in CacheSet, NEW d \in CacheSet, NEW b \in Headers, c.h[b].page # None,
           PartGone(c, d, b), NEW b0, b # b0, LinksOK(c, b0), CountsOK(c),
           \A k \in Handlers : d.pages[k].phys = c.pages[k].phys
    PROVE  LinksOK(d, b0)
<1>1. /\ d.h[b].page = None
      /\ \A x \in Headers : x # b => /\ d.h[x].page = c.h[x].page /\ d.h[x].index = c.h[x].index
                                     /\ d.h[x].start = c.h[x].start
    BY DEF PartGone, SameHeader
<1>2. \A x \in Headers, i \in Links : x # b =>
          d.h[x].link[i] = IF c.h[b].index > 0 THEN Relinked(c, b, x, i) ELSE c.h[x].link[i]
    BY DEF PartGone
<1>3. \A x \in Headers : Main(d, x) <=> x # b /\ Main(c, x)
    BY <1>1 DEF Main
<1> SUFFICES ASSUME AllNoticed, NEW x \in Headers, NEW i \in Links, x # b0, Main(d, x)
             PROVE  LinkOK(d, b0, x, i)
    BY DEF LinksOK
<1> DEFINE m == c.h[x].link[i]
           l == d.h[x].link[i]
           back == c.h[b].link[i]
<1>4. x # b /\ Main(c, x) /\ LinkOK(c, b0, x, i)
    BY <1>3 DEF LinksOK
<1>5. \A y \in Headers : c.h[y].link[i] \in LinkSet
    BY DEF CacheSet, HeaderSet
<1>6. m.from \subseteq Headers /\ m.to \in Headers \cup {None}
    BY <1>5 DEF LinkSet
<1>7. ASSUME NEW y \in Headers, Main(d, y)
      PROVE  d.pages[d.h[y].page].phys = c.pages[c.h[y].page].phys /\ d.h[y].start = c.h[y].start
    <2>1. c.h[y].page \in Handlers /\ y # b
        <3>1. c.h[y] \in HeaderSet
            BY DEF CacheSet
        <3> QED
            BY <1>3, <1>7, <3>1 DEF HeaderSet, Main
    <2> QED
        BY <1>1, <2>1
<1>8. CASE ~(c.h[b].index > 0)
    <2>1. ~Main(c, b) /\ l = m /\ \A y \in Headers : y # b => d.h[y].link[i] = c.h[y].link[i]
        BY <1>2, <1>4, <1>8 DEF Main
    <2>2. ASSUME l.to # None
          PROVE  /\ l.to # b0 /\ Main(d, l.to) /\ x \in d.h[l.to].link[i].from
                 /\ l.target = <<d.pages[d.h[l.to].page].phys, d.h[l.to].start>>
        <3>1. /\ m.to # b0 /\ Main(c, m.to) /\ x \in c.h[m.to].link[i].from
              /\ m.target = <<c.pages[c.h[m.to].page].phys, c.h[m.to].start>>
            BY <1>4, <2>1, <2>2, Zenon DEF LinkOK
        <3>2. m.to \in Headers /\ m.to # b /\ Main(d, m.to)
            BY <1>3, <1>6, <2>1, <2>2, <3>1, Zenon
        <3> QED
            BY <1>7, <2>1, <3>1, <3>2, Zenon
    <2>3. ASSUME NEW y \in l.from
          PROVE  y # b0 /\ Main(d, y) /\ d.h[y].link[i].to = x
        <3>1. y \in Headers /\ y # b0 /\ Main(c, y) /\ c.h[y].link[i].to = x
            BY <1>4, <1>6, <2>1, Zenon DEF LinkOK
        <3> QED
            BY <1>3, <2>1, <3>1
    <2> QED
        BY <2>2, <2>3, Zenon DEF LinkOK
<1>9. CASE c.h[b].index > 0
    <2>1. Main(c, b) /\ LinkOK(c, b0, b, i)
        BY <1>9 DEF Main, LinksOK
    <2>2. ASSUME NEW y \in Headers, y # b
          PROVE  /\ d.h[y].link[i].from = (IF y = back.to THEN c.h[y].link[i].from \ {b}
                                           ELSE c.h[y].link[i].from)
                 /\ y \in back.from => d.h[y].link[i].to = None
                 /\ y \notin back.from => /\ d.h[y].link[i].to = c.h[y].link[i].to
                                          /\ d.h[y].link[i].target = c.h[y].link[i].target
        <3>1. d.h[y].link[i] = Relinked(c, b, y, i)
            BY <1>2, <1>9, <2>2
        <3>2. Relinks(d.h[y].link[i], c.h[y].link[i], back, b, y)
            BY <3>1, RelinkedIs
        <3> QED
            BY <2>2, <3>2 DEF Relinks
    <2>3. \A y \in back.from : c.h[y].link[i].to = b
        BY <2>1, Zenon DEF LinkOK
    <2>4. back.to # None => b \in c.h[back.to].link[i].from
        BY <2>1, Zenon DEF LinkOK
    <2>5. ASSUME l.to # None
          PROVE  /\ l.to # b0 /\ Main(d, l.to) /\ x \in d.h[l.to].link[i].from
                 /\ l.target = <<d.pages[d.h[l.to].page].phys, d.h[l.to].start>>
        <3>1. x \notin back.from /\ l.to = m.to /\ l.target = m.target
            BY <1>4, <2>2, <2>5, Zenon
        <3>2. /\ m.to # b0 /\ Main(c, m.to) /\ x \in c.h[m.to].link[i].from
              /\ m.target = <<c.pages[c.h[m.to].page].phys, c.h[m.to].start>>
            BY <1>4, <2>5, <3>1, Zenon DEF LinkOK
        <3>3. m.to \in Headers /\ m.to # b /\ Main(d, m.to)
            BY <1>3, <1>6, <2>5, <3>1, <3>2, Zenon
        <3>4. x \in d.h[m.to].link[i].from
            BY <1>4, <2>2, <3>2, <3>3, Zenon
        <3> QED
            BY <1>7, <3>1, <3>2, <3>3, <3>4, Zenon
    <2>6. ASSUME NEW y \in l.from
          PROVE  y # b0 /\ Main(d, y) /\ d.h[y].link[i].to = x
        <3>1. y \in m.from /\ (y = b => x # back.to)
            BY <1>4, <2>2, Zenon
        <3>2. y \in Headers /\ y # b0 /\ Main(c, y) /\ c.h[y].link[i].to = x
            BY <1>4, <1>6, <3>1, Zenon DEF LinkOK
        <3>3. y # b /\ y \notin back.from
            BY <1>4, <2>3, <3>1, <3>2
        <3> QED
            BY <1>3, <2>2, <3>2, <3>3
    <2> QED
        BY <2>5, <2>6 DEF LinkOK
<1> QED
    BY <1>8, <1>9

---------------------------------------------------------------------------
(* Clearing blocks *)

\* d is what is left of c when the headers of the set T are cleared
Gone(c, d, T) ==
    /\ SameLists(c, d) /\ c.free \subseteq d.free
    /\ \A x \in Headers : x \notin T => SameHeader(d.h[x], c.h[x])
    /\ \A x \in T : d.h[x].page = None /\ d.h[x].at = c.h[x].at /\ d.h[x].size = c.h[x].size
    /\ \A k \in Handlers : d.pages[k].phys = c.pages[k].phys

\* The headers S and the other parts of their blocks
Whole(c, S) == {x \in Headers : c.h[x].page # None /\ (x \in S \/ c.h[x].other \in S)}

LEMMA Types ==
    ASSUME NEW c \in CacheSet, NEW b \in Headers
    PROVE  /\ c.h[b] \in HeaderSet /\ c.h[b].page \in Handlers \cup {None}
           /\ c.h[b].other \in Headers \cup {None} /\ c.h[b].start \in Offsets /\ c.h[b].end \in Offsets
           /\ c.h[b].index \in 0 .. PageSize /\ c.h[b].index \in Nat /\ c.h[b].at \in Nat /\ c.h[b].size \in Nat
           /\ c.h[b].code \in SUBSET Addresses
<1>1. c.h[b] \in HeaderSet
    BY DEF CacheSet
<1> QED
    BY <1>1, Numbers DEF HeaderSet

\* The other part of a live part is live and of the other kind.
LEMMA OtherPart ==
    ASSUME NEW c \in CacheSet, PartsOK(c), NEW b \in Headers, c.h[b].other # None
    PROVE  LET x == c.h[b].other
           IN  /\ c.h[b].page # None /\ x \in Headers /\ c.h[x].page # None /\ x # b
               /\ c.h[x].other = b
               /\ Main(c, b) => Cross(c, x)
               /\ Cross(c, b) => Main(c, x)
<1>1. PartOK(c, b) /\ c.h[b].other \in Headers
    BY Types DEF PartsOK
<1>2. c.h[b].index \in Nat
    BY Types
<1> QED
    BY <1>1, <1>2 DEF PartOK, Main, Cross

LEMMA PartsKept ==
    ASSUME NEW c \in CacheSet, PartsOK(c), NEW d \in CacheSet, NEW T \in SUBSET Headers, Gone(c, d, T),
           \A x \in Headers : c.h[x].other \in T => x \in T,
           \A x \in T : d.h[x].other = None
    PROVE  PartsOK(d)
<1> SUFFICES ASSUME NEW b \in Headers PROVE PartOK(d, b)
    BY DEF PartsOK
<1>1. CASE b \in T
    <2>1. d.h[b].page = None /\ d.h[b].other = None
        BY <1>1 DEF Gone
    <2> QED
        BY <2>1 DEF PartOK, Main, Cross
<1>2. CASE b \notin T
    <2> DEFINE x == c.h[b].other
    <2>1. SameHeader(d.h[b], c.h[b]) /\ PartOK(c, b)
        BY <1>2 DEF Gone, PartsOK
    <2>2. CASE x = None
        <3>1. c.h[b].page # None => c.h[b].page \in Handlers
            BY Types
        <3>2. c.h[b].page # None => Bytes(d, b) = Bytes(c, b)
            BY <2>1, <3>1 DEF Bytes, SameHeader, Gone
        <3> QED
            BY <2>1, <2>2, <3>2 DEF PartOK, Main, Cross, SameHeader
    <2>3. CASE x # None
        <3>1. /\ c.h[b].page # None /\ x \in Headers /\ c.h[x].page # None /\ c.h[x].other = b
            BY <2>3, OtherPart
        <3>2. x \notin T
            BY <1>2, <3>1
        <3>3. SameHeader(d.h[x], c.h[x])
            BY <3>1, <3>2 DEF Gone
        <3>4. c.h[b].page \in Handlers /\ c.h[x].page \in Handlers
            BY <3>1, Types
        <3>5. Bytes(d, b) = Bytes(c, b) /\ Bytes(d, x) = Bytes(c, x)
            BY <2>1, <3>3, <3>4, Zenon DEF Bytes, SameHeader, Gone
        <3> QED
            BY <2>1, <2>3, <3>1, <3>3, <3>5 DEF PartOK, Main, Cross, SameHeader
    <2> QED
        BY <2>2, <2>3
<1> QED
    BY <1>1, <1>2

\* All but PartsOK
LEMMA ClearPartKeeps ==
    ASSUME NEW c \in CacheSet, NEW b0, NEW b \in Headers, c.h[b].page # None, b # b0,
           HandlersOK(c), CountsOK(c), PlacesOK(c), LinksOK(c, b0)
    PROVE  LET d == ClearPart(c, b)
           IN  /\ d \in CacheSet /\ Gone(c, d, {b}) /\ d.h[b].other = None
               /\ HandlersOK(d) /\ CountsOK(d) /\ PlacesOK(d) /\ LinksOK(d, b0)
<1> DEFINE d == ClearPart(c, b)
<1>1. c.h[b].page \in Handlers
    BY Types
<1>2. d \in CacheSet /\ PartGone(c, d, b)
    BY <1>1, PartIsGone
<1> HIDE DEF d
<1>3. CountsOK(d) /\ \A k \in Handlers : d.pages[k].phys = c.pages[k].phys
    BY <1>2, PartGoneCounts
<1>4. HandlersOK(d) /\ PlacesOK(d)
    BY <1>2, <1>3, PartGoneLists
<1>5. LinksOK(d, b0)
    BY <1>2, <1>3, PartGoneLinks
<1>6. Gone(c, d, {b}) /\ d.h[b].other = None
    BY <1>2, <1>3 DEF Gone, PartGone
<1> QED
    BY <1>2, <1>3, <1>4, <1>5, <1>6 DEF d

LEMMA GoneTwice ==
    ASSUME NEW c, NEW d, NEW e, NEW S \in SUBSET Headers, NEW T \in SUBSET Headers,
           Gone(c, d, S), Gone(d, e, T)
    PROVE  Gone(c, e, S \cup T)
<1>1. SameLists(c, e) /\ c.free \subseteq e.free /\ \A k \in Handlers : e.pages[k].phys = c.pages[k].phys
    BY DEF Gone, SameLists
<1>2. \A x \in Headers : x \notin S \cup T => SameHeader(e.h[x], c.h[x])
    BY DEF Gone, SameHeader
<1>3. ASSUME NEW x \in S \cup T
      PROVE  e.h[x].page = None /\ e.h[x].at = c.h[x].at /\ e.h[x].size = c.h[x].size
    <2>1. x \in S => d.h[x].page = None /\ d.h[x].at = c.h[x].at /\ d.h[x].size = c.h[x].size
        BY DEF Gone
    <2>2. x \notin S => SameHeader(d.h[x], c.h[x])
        BY DEF Gone
    <2>3. x \in T => e.h[x].page = None /\ e.h[x].at = d.h[x].at /\ e.h[x].size = d.h[x].size
        BY DEF Gone
    <2>4. x \notin T => SameHeader(e.h[x], d.h[x])
        BY DEF Gone
    <2> QED
        BY <2>1, <2>2, <2>3, <2>4 DEF SameHeader
<1> QED
    BY <1>1, <1>2, <1>3 DEF Gone

\* Clear: the whole block is cleared, whichever of its parts b is.
LEMMA ClearKeeps ==
    ASSUME NEW c, NEW b0, Good(c, b0), NEW b \in Headers, c.h[b].page # None,
           b0 \notin Whole(c, {b})
    PROVE  Good(Clear(c, b), b0) /\ Gone(c, Clear(c, b), Whole(c, {b}))
<1> DEFINE x == c.h[b].other
           c1 == IF x = None THEN c ELSE ClearPart(c, x)
           d == ClearPart(c1, b)
           T == Whole(c, {b})
<1>1. Clear(c, b) = d
    BY DEF Clear
<1>2. /\ c \in CacheSet /\ PartsOK(c) /\ HandlersOK(c) /\ CountsOK(c) /\ PlacesOK(c) /\ LinksOK(c, b0)
    BY DEF Good
<1>3. b \in T /\ b # b0 /\ T \in SUBSET Headers
    BY DEF Whole
<1>4. x # None => /\ x \in Headers /\ c.h[x].page # None /\ x # b /\ c.h[x].other = b
                  /\ x \in T /\ x # b0
    <2>1. x # None => x \in Headers /\ c.h[x].page # None /\ x # b /\ c.h[x].other = b
        BY <1>2, OtherPart
    <2> QED
        BY <2>1 DEF Whole
<1>5. ASSUME NEW y \in T
      PROVE  y = b \/ (x # None /\ y = x)
    <2>1. y \in Headers /\ (y = b \/ c.h[y].other = b)
        BY DEF Whole
    <2>2. c.h[y].other = b => c.h[b].other = y /\ y # None
        BY <1>2, <2>1, OtherPart, Numbers
    <2> QED
        BY <2>1, <2>2
<1>6. ASSUME NEW y \in Headers, c.h[y].other \in T PROVE y \in T
    <2>1. c.h[y].other # None
        BY <1>3, <1>6, Numbers
    <2>2. c.h[y].page # None /\ c.h[c.h[y].other].other = y
        BY <1>2, <2>1, OtherPart
    <2>3. CASE c.h[y].other = b
        BY <2>2, <2>3 DEF Whole
    <2>4. CASE x # None /\ c.h[y].other = x
        BY <1>3, <1>4, <2>2, <2>4
    <2> QED
        BY <1>5, <1>6, <2>3, <2>4
<1>7. /\ c1 \in CacheSet /\ HandlersOK(c1) /\ CountsOK(c1) /\ PlacesOK(c1) /\ LinksOK(c1, b0)
      /\ c1.h[b].page # None
      /\ Gone(c, c1, T \ {b}) /\ (x # None => c1.h[x].other = None)
    <2>1. CASE x = None
        <3>1. T \ {b} = {}
            BY <1>5, <2>1
        <3>2. Gone(c, c, {})
            BY DEF Gone, SameLists, SameHeader
        <3> QED
            BY <1>2, <2>1, <3>1, <3>2
    <2>2. CASE x # None
        <3>1. T \ {b} = {x}
            BY <1>4, <1>5, <2>2
        <3> DEFINE e == ClearPart(c, x)
        <3>2. /\ e \in CacheSet /\ Gone(c, e, {x}) /\ e.h[x].other = None
              /\ HandlersOK(e) /\ CountsOK(e) /\ PlacesOK(e) /\ LinksOK(e, b0)
            BY <1>2, <1>4, <2>2, ClearPartKeeps
        <3>3. c1 = e
            BY <2>2
        <3> HIDE DEF e, c1
        <3>4. e.h[b].page = c.h[b].page
            BY <1>4, <2>2, <3>2 DEF Gone, SameHeader
        <3> QED
            BY <3>1, <3>2, <3>3, <3>4
    <2> QED
        BY <2>1, <2>2
<1> HIDE DEF c1
<1>8. /\ d \in CacheSet /\ Gone(c1, d, {b}) /\ d.h[b].other = None
      /\ HandlersOK(d) /\ CountsOK(d) /\ PlacesOK(d) /\ LinksOK(d, b0)
    BY <1>3, <1>7, ClearPartKeeps
<1> HIDE DEF d
<1>9. Gone(c, d, T)
    <2>1. (T \ {b}) \cup {b} = T /\ T \ {b} \in SUBSET Headers /\ {b} \in SUBSET Headers
        BY <1>3
    <2>2. Gone(c, d, (T \ {b}) \cup {b})
        BY <1>7, <1>8, <2>1, GoneTwice
    <2> QED
        BY <2>1, <2>2
<1>10. \A y \in T : d.h[y].other = None
    <2>1. x # None => d.h[x].other = None
        BY <1>4, <1>7, <1>8 DEF Gone, SameHeader
    <2> QED
        BY <1>5, <1>8, <2>1
<1>11. PartsOK(d)
    <2> HIDE DEF T
    <2> QED
        BY <1>2, <1>3, <1>6, <1>8, <1>9, <1>10, PartsKept
<1> QED
    BY <1>1, <1>8, <1>9, <1>11 DEF Good

---------------------------------------------------------------------------
(* Clearing one block after the other *)

\* What fails for some number fails for a first one.
LEMMA FirstFailure ==
    ASSUME NEW S \in SUBSET Nat, S # {}
    PROVE  \E n \in S : n - 1 \notin S /\ (n = 0 \/ n - 1 \in Nat)
<1>1. Min(S) \in S /\ \A x \in S : Min(S) <= x
    BY SmallestIsMember
<1> DEFINE n == Min(S)
<1>2. n \in Nat /\ n - 1 \notin S
    <2>1. n \in Nat
        BY <1>1
    <2> HIDE DEF n
    <2>2. n - 1 \in S => n <= n - 1
        BY <1>1 DEF n
    <2> QED
        BY <2>1, <2>2
<1> HIDE DEF n
<1> QED
    BY <1>1, <1>2 DEF n

LEMMA ListOfSet ==
    ASSUME NEW S, IsFiniteSet(S)
    PROVE  LET s == SetToSeq(S)
           IN  s \in Seq(S) /\ IsInjective(s) /\ ToSet(s) = S /\ Len(s) = Cardinality(S)
<1> DEFINE n == Cardinality(S)
           s == SetToSeq(S)
<1>1. n \in Nat /\ ExistsBijection(1 .. n, S)
    BY FS_CardinalityType
<1>2. IsFiniteSet(1 .. n) /\ Cardinality(1 .. n) = n
    BY <1>1, FirstNumbers
<1> HIDE DEF n
<1>3. \E f \in [1 .. n -> S] : IsInjective(f)
    BY <1>1 DEF ExistsBijection, Bijection, Injection, IsInjective
<1>4. s \in [1 .. n -> S] /\ IsInjective(s)
    BY <1>3 DEF SetToSeq, n
<1> HIDE DEF s
<1>5. s \in Injection(1 .. n, S)
    BY <1>4 DEF Injection, IsInjective
<1>6. s \in Surjection(1 .. n, S)
    BY <1>2, <1>5, FS_Injection DEF n
<1>7. \A x \in S : \E i \in 1 .. n : s[i] = x
    BY <1>6 DEF Surjection
<1>8. s \in Seq(S) /\ Len(s) = n /\ DOMAIN s = 1 .. n
    BY <1>1, <1>4
<1>9. ToSet(s) = S
    BY <1>4, <1>7, <1>8 DEF ToSet
<1> QED
    BY <1>4, <1>8, <1>9 DEF s, n

\* The states between which the blocks of s are cleared
ClearedIn(c, s, f, m) ==
    f = [n \in 0 .. m |-> IF n = 0 THEN c ELSE Clear(f[n - 1], s[n])]

LEMMA ClearedExists ==
    ASSUME NEW c, NEW s, NEW m \in Nat
    PROVE  \E f : ClearedIn(c, s, f, m)
<1> DEFINE S == {n \in Nat : ~ \E f : ClearedIn(c, s, f, n)}
<1>1. SUFFICES ASSUME S # {} PROVE FALSE
    OBVIOUS
<1>2. S \in SUBSET Nat
    OBVIOUS
<1> HIDE DEF S
<1>3. PICK n \in S : n - 1 \notin S /\ (n = 0 \/ n - 1 \in Nat)
    BY <1>1, <1>2, FirstFailure
<1>4. n \in Nat /\ ~ \E f : ClearedIn(c, s, f, n)
    BY <1>3 DEF S
<1>5. CASE n = 0
    <2> DEFINE g == [k \in 0 .. 0 |-> c]
    <2>1. g = [k \in 0 .. 0 |-> IF k = 0 THEN c ELSE Clear(g[k - 1], s[k])]
        OBVIOUS
    <2> QED
        BY <1>4, <1>5, <2>1 DEF ClearedIn
<1>6. CASE n # 0
    <2>1. PICK f : ClearedIn(c, s, f, n - 1)
        BY <1>3, <1>6 DEF S
    <2> DEFINE g == [k \in 0 .. n |-> IF k = n THEN Clear(f[n - 1], s[n]) ELSE f[k]]
    <2>2. ASSUME NEW k \in 0 .. n
          PROVE  g[k] = IF k = 0 THEN c ELSE Clear(g[k - 1], s[k])
        <3>1. k # n => k \in 0 .. n - 1 /\ f[k] = IF k = 0 THEN c ELSE Clear(f[k - 1], s[k])
            BY <1>4, <1>6, <2>1 DEF ClearedIn
        <3>2. k # 0 => k - 1 \in 0 .. n /\ k - 1 # n
            BY <1>4
        <3>3. k # 0 => g[k - 1] = f[k - 1]
            BY <3>2
        <3>4. g[k] = IF k = n THEN Clear(f[n - 1], s[n]) ELSE f[k]
            OBVIOUS
        <3> HIDE DEF g
        <3> QED
            BY <1>6, <3>1, <3>3, <3>4
    <2>3. g = [k \in 0 .. n |-> IF k = 0 THEN c ELSE Clear(g[k - 1], s[k])]
        <3>1. g = [k \in 0 .. n |-> g[k]]
            OBVIOUS
        <3> HIDE DEF g
        <3> QED
            BY <2>2, <3>1
    <2> HIDE DEF g
    <2>4. ClearedIn(c, s, g, n)
        BY <2>3 DEF ClearedIn
    <2> QED
        BY <1>4, <2>4
<1> QED
    BY <1>5, <1>6

\* The blocks S of c may be cleared one after the other: no two are parts of one.
Clearable(c, S, b0) ==
    /\ S \in SUBSET Headers /\ b0 \notin Whole(c, S)
    /\ \A x \in S : c.h[x].page # None /\ c.h[x].other \notin S

\* Cleared: all of them are gone, and nothing else.
LEMMA ClearedKeeps ==
    ASSUME NEW c, NEW b0, Good(c, b0), NEW s \in Seq(Headers), IsInjective(s),
           Clearable(c, ToSet(s), b0)
    PROVE  Good(Cleared(c, s), b0) /\ Gone(c, Cleared(c, s), Whole(c, ToSet(s)))
<1> DEFINE f == CHOOSE g : g = [n \in 0 .. Len(s) |-> IF n = 0 THEN c ELSE Clear(g[n - 1], s[n])]
           first(n) == {s[j] : j \in 1 .. n}
           P(n) == Good(f[n], b0) /\ Gone(c, f[n], Whole(c, first(n)))
           S == {n \in Nat : n <= Len(s) /\ ~P(n)}
<1>1. Len(s) \in Nat /\ DOMAIN s = 1 .. Len(s) /\ \A j \in 1 .. Len(s) : s[j] \in Headers
    OBVIOUS
<1>2. Cleared(c, s) = f[Len(s)]
    BY DEF Cleared, Iterated
<1>3. f = [n \in 0 .. Len(s) |-> IF n = 0 THEN c ELSE Clear(f[n - 1], s[n])]
    <2>1. \E g : g = [n \in 0 .. Len(s) |-> IF n = 0 THEN c ELSE Clear(g[n - 1], s[n])]
        <3>1. \E g : ClearedIn(c, s, g, Len(s))
            BY <1>1, ClearedExists
        <3> QED
            BY <3>1 DEF ClearedIn
    <2> QED
        BY <2>1
<1> HIDE DEF f
<1>4. c \in CacheSet /\ PartsOK(c)
    BY DEF Good
<1>5. P(0)
    <2>1. f[0] = c
        BY <1>1, <1>3
    <2>2. first(0) = {}
        OBVIOUS
    <2>3. Whole(c, {}) = {}
        BY DEF Whole
    <2>4. Gone(c, c, {})
        BY DEF Gone, SameLists, SameHeader
    <2> QED
        BY <2>1, <2>2, <2>3, <2>4
<1>6. ASSUME NEW n \in 1 .. Len(s), P(n - 1) PROVE P(n)
    <2> DEFINE d == f[n - 1]
               b == s[n]
               T == Whole(c, first(n - 1))
    <2>1. f[n] = Clear(d, b)
        BY <1>1, <1>3
    <2>2. b \in Headers /\ b \in ToSet(s) /\ first(n - 1) \subseteq ToSet(s) /\ b \notin first(n - 1)
        <3>1. \A j \in 1 .. n - 1 : j \in 1 .. Len(s) /\ s[j] \in ToSet(s) /\ s[j] # b
            BY <1>1, <1>6 DEF IsInjective, ToSet
        <3> QED
            BY <1>1, <3>1 DEF ToSet
    <2>3. first(n) = first(n - 1) \cup {b}
        <3>1. \A j \in 1 .. n : j \in 1 .. n - 1 \/ j = n
            BY <1>1
        <3>2. \A j \in 1 .. n - 1 : j \in 1 .. n
            BY <1>1
        <3>3. n \in 1 .. n
            BY <1>1
        <3> QED
            BY <3>1, <3>2, <3>3
    <2>4. Good(d, b0) /\ Gone(c, d, T)
        BY <1>6
    <2> HIDE DEF d, b, first, P
    <2>5. c.h[b].page # None /\ b \notin T
        BY <2>2 DEF Clearable, Whole
    <2>6. d.h[b].page = c.h[b].page /\ d.h[b].other = c.h[b].other
        BY <2>2, <2>4, <2>5 DEF Gone, SameHeader
    <2>7. ASSUME NEW x \in Headers
          PROVE  x \in Whole(d, {b}) => x \in Whole(c, {b})
        <3>1. x \in T => d.h[x].page = None
            BY <2>4 DEF Gone
        <3>2. x \notin T => d.h[x].page = c.h[x].page /\ d.h[x].other = c.h[x].other
            BY <2>4 DEF Gone, SameHeader
        <3> QED
            BY <3>1, <3>2 DEF Whole
    <2>8. ASSUME NEW x \in Headers, x \in Whole(c, {b})
          PROVE  x \in Whole(d, {b})
        <3>1. x \notin T
            <4>1. CASE x = b
                BY <2>5, <4>1
            <4>2. CASE x # b
                <5>1. c.h[x].other = b /\ c.h[x].other # None
                    BY <2>2, <2>8, <4>2, Numbers DEF Whole
                <5>2. c.h[b].other = x
                    BY <1>4, <5>1, OtherPart
                <5>3. x \notin ToSet(s)
                    BY <2>2, <5>2 DEF Clearable
                <5> QED
                    BY <2>2, <5>1, <5>3 DEF Whole
            <4> QED
                BY <4>1, <4>2
        <3>2. d.h[x].page = c.h[x].page /\ d.h[x].other = c.h[x].other
            BY <2>4, <3>1 DEF Gone, SameHeader
        <3> QED
            BY <2>8, <3>2 DEF Whole
    <2>9. Whole(d, {b}) = Whole(c, {b})
        <3>1. Whole(d, {b}) \subseteq Headers /\ Whole(c, {b}) \subseteq Headers
            BY DEF Whole
        <3> QED
            BY <2>7, <2>8, <3>1
    <2>10. b0 \notin Whole(d, {b})
        BY <2>2, <2>9 DEF Clearable, Whole
    <2>11. Good(f[n], b0) /\ Gone(d, f[n], Whole(c, {b}))
        BY <2>1, <2>2, <2>4, <2>5, <2>6, <2>9, <2>10, ClearKeeps
    <2>12. T \cup Whole(c, {b}) = Whole(c, first(n))
        BY <2>3 DEF Whole
    <2>13. Gone(c, f[n], Whole(c, first(n)))
        <3>1. T \in SUBSET Headers /\ Whole(c, {b}) \in SUBSET Headers
            BY DEF Whole
        <3>2. Gone(c, f[n], T \cup Whole(c, {b}))
            BY <2>4, <2>11, <3>1, GoneTwice
        <3> QED
            BY <2>12, <3>2
    <2> QED
        BY <2>11, <2>13 DEF P
<1>7. P(Len(s))
    <2> HIDE DEF P
    <2>1. S = {}
        <3>1. SUFFICES ASSUME S # {} PROVE FALSE
            OBVIOUS
        <3>2. S \in SUBSET Nat
            OBVIOUS
        <3> HIDE DEF S
        <3>3. PICK n \in S : n - 1 \notin S /\ (n = 0 \/ n - 1 \in Nat)
            BY <3>1, <3>2, FirstFailure
        <3>4. n \in Nat /\ n <= Len(s) /\ ~P(n)
            BY <3>3 DEF S
        <3>5. n # 0 => n - 1 \in Nat /\ n - 1 <= Len(s) /\ n \in 1 .. Len(s)
            BY <1>1, <3>3, <3>4
        <3>6. n # 0 => P(n - 1)
            BY <3>3, <3>5 DEF S
        <3> QED
            BY <1>5, <1>6, <3>4, <3>5, <3>6
    <2> QED
        BY <1>1, <2>1
<1>8. first(Len(s)) = ToSet(s)
    BY <1>1 DEF ToSet
<1> QED
    BY <1>2, <1>7, <1>8

---------------------------------------------------------------------------
(* Code pages *)

LEMMA SelectionOf ==
    ASSUME NEW S, NEW s \in Seq(S), IsInjective(s), NEW kept \in SUBSET (1 .. Len(s))
    PROVE  LET t == Selection(s, kept)
           IN  t \in Seq(S) /\ IsInjective(t) /\ ToSet(t) = {s[i] : i \in kept}
<1> DEFINE t == Selection(s, kept)
<1>1. t \in Seq(S) /\ \E place : Landed(place, t, s, kept)
    BY SelectionInOrder
<1> HIDE DEF t
<1>2. PICK place : Landed(place, t, s, kept)
    BY <1>1
<1>3. /\ \A n \in 1 .. Len(t) : t[n] = s[place[n]] /\ place[n] \in kept
      /\ \A m, n \in 1 .. Len(t) : m < n => place[m] < place[n]
      /\ \A i \in kept : \E n \in 1 .. Len(t) : place[n] = i
    BY <1>2 DEF Landed
<1>4. DOMAIN s = 1 .. Len(s) /\ DOMAIN t = 1 .. Len(t) /\ Len(t) \in Nat /\ Len(s) \in Nat
    BY <1>1
<1>5. ASSUME NEW m \in 1 .. Len(t), NEW n \in 1 .. Len(t), t[m] = t[n] PROVE m = n
    <2>1. place[m] = place[n]
        BY <1>3, <1>4, <1>5 DEF IsInjective
    <2>2. place[m] \in kept /\ kept \subseteq Int
        BY <1>3, <1>4
    <2>3. m < n \/ m = n \/ n < m
        BY <1>4
    <2>4. ~(m < n) /\ ~(n < m)
        <3>1. place[m] \in Int
            BY <2>2
        <3>2. ~(place[m] < place[n]) /\ ~(place[n] < place[m])
            BY <2>1, <3>1
        <3> QED
            BY <1>3, <3>2
    <2> QED
        BY <2>3, <2>4
<1>6. IsInjective(t)
    BY <1>4, <1>5 DEF IsInjective
<1>7. ToSet(t) = {s[i] : i \in kept}
    <2>1. \A n \in 1 .. Len(t) : \E i \in kept : t[n] = s[i]
        BY <1>3
    <2>2. \A i \in kept : \E n \in 1 .. Len(t) : t[n] = s[i]
        <3> SUFFICES ASSUME NEW i \in kept PROVE \E n \in 1 .. Len(t) : t[n] = s[i]
            OBVIOUS
        <3>1. PICK n \in 1 .. Len(t) : place[n] = i
            BY <1>3
        <3> QED
            BY <1>3, <3>1
    <2>3. ToSet(t) = {t[n] : n \in 1 .. Len(t)}
        BY <1>4 DEF ToSet
    <2>4. \A x : x \in {s[i] : i \in kept} => x \in {t[n] : n \in 1 .. Len(t)}
        BY <2>2
    <2>5. \A x : x \in {t[n] : n \in 1 .. Len(t)} => x \in {s[i] : i \in kept}
        BY <2>1
    <2> QED
        BY <2>3, <2>4, <2>5
<1> QED
    BY <1>1, <1>6, <1>7 DEF t

LEMMA ListSteps ==
    ASSUME NEW S, NEW s \in Seq(S), IsInjective(s)
    PROVE  /\ \A g \in S : g \notin ToSet(s) =>
                  /\ <<g>> \o s \in Seq(S) /\ IsInjective(<<g>> \o s) /\ ToSet(<<g>> \o s) = ToSet(s) \cup {g}
                  /\ Append(s, g) \in Seq(S) /\ IsInjective(Append(s, g))
                  /\ ToSet(Append(s, g)) = ToSet(s) \cup {g}
           /\ s # <<>> => /\ Tail(s) \in Seq(S) /\ IsInjective(Tail(s)) /\ Head(s) \in ToSet(s)
                          /\ ToSet(Tail(s)) = ToSet(s) \ {Head(s)}
<1>1. DOMAIN s = 1 .. Len(s) /\ Len(s) \in Nat
    OBVIOUS
<1>2. ASSUME NEW g \in S, g \notin ToSet(s)
      PROVE  /\ <<g>> \o s \in Seq(S) /\ IsInjective(<<g>> \o s) /\ ToSet(<<g>> \o s) = ToSet(s) \cup {g}
    <2> DEFINE t == <<g>> \o s
    <2>1. t \in Seq(S) /\ Len(t) = Len(s) + 1 /\ t[1] = g /\ \A i \in 1 .. Len(s) : t[i + 1] = s[i]
        BY <1>1
    <2> HIDE DEF t
    <2>2. DOMAIN t = 1 .. Len(s) + 1
        BY <2>1
    <2>3. \A i \in 1 .. Len(s) + 1 : i = 1 \/ (i - 1 \in 1 .. Len(s) /\ t[i] = s[i - 1])
        <3> SUFFICES ASSUME NEW i \in 1 .. Len(s) + 1, i # 1
                     PROVE  i - 1 \in 1 .. Len(s) /\ t[i] = s[i - 1]
            OBVIOUS
        <3>1. i - 1 \in 1 .. Len(s) /\ (i - 1) + 1 = i
            BY <1>1
        <3> QED
            BY <2>1, <3>1
    <2>4. \A i \in 1 .. Len(s) : s[i] # g /\ s[i] \in ToSet(s)
        BY <1>1, <1>2 DEF ToSet
    <2>5. IsInjective(t)
        <3> SUFFICES ASSUME NEW i \in 1 .. Len(s) + 1, NEW j \in 1 .. Len(s) + 1, t[i] = t[j]
                     PROVE  i = j
            BY <2>2 DEF IsInjective
        <3>1. CASE i = 1 \/ j = 1
            BY <2>1, <2>3, <2>4, <3>1
        <3>2. CASE i # 1 /\ j # 1
            <4>1. i - 1 \in 1 .. Len(s) /\ j - 1 \in 1 .. Len(s) /\ s[i - 1] = s[j - 1]
                BY <2>3, <3>2
            <4>2. i - 1 = j - 1
                BY <1>1, <4>1 DEF IsInjective
            <4> QED
                BY <1>1, <4>2
        <3> QED
            BY <3>1, <3>2
    <2>6. ToSet(t) \subseteq ToSet(s) \cup {g}
        BY <2>1, <2>2, <2>3, <2>4 DEF ToSet
    <2>7. ToSet(s) \cup {g} \subseteq ToSet(t)
        <3>1. 1 \in DOMAIN t /\ \A i \in 1 .. Len(s) : i + 1 \in DOMAIN t
            BY <1>1, <2>2
        <3> QED
            BY <1>1, <2>1, <3>1 DEF ToSet
    <2> QED
        BY <2>1, <2>5, <2>6, <2>7 DEF t
<1>3. ASSUME NEW g \in S, g \notin ToSet(s)
      PROVE  /\ Append(s, g) \in Seq(S) /\ IsInjective(Append(s, g))
             /\ ToSet(Append(s, g)) = ToSet(s) \cup {g}
    <2> DEFINE t == Append(s, g)
    <2>1. /\ t \in Seq(S) /\ Len(t) = Len(s) + 1 /\ t[Len(s) + 1] = g
          /\ \A i \in 1 .. Len(s) : t[i] = s[i]
        BY <1>1
    <2> HIDE DEF t
    <2>2. DOMAIN t = 1 .. Len(s) + 1
        BY <2>1
    <2>3. \A i \in 1 .. Len(s) + 1 : i = Len(s) + 1 \/ i \in 1 .. Len(s)
        BY <1>1
    <2>4. \A i \in 1 .. Len(s) : s[i] # g /\ s[i] \in ToSet(s) /\ i # Len(s) + 1
        BY <1>1, <1>3 DEF ToSet
    <2>5. IsInjective(t)
        BY <1>1, <2>1, <2>2, <2>3, <2>4 DEF IsInjective
    <2>6. ToSet(t) \subseteq ToSet(s) \cup {g}
        BY <2>1, <2>2, <2>3, <2>4 DEF ToSet
    <2>7. ToSet(s) \cup {g} \subseteq ToSet(t)
        <3>1. Len(s) + 1 \in DOMAIN t /\ \A i \in 1 .. Len(s) : i \in DOMAIN t
            BY <1>1, <2>2
        <3> QED
            BY <1>1, <2>1, <3>1 DEF ToSet
    <2> QED
        BY <2>1, <2>5, <2>6, <2>7 DEF t
<1>4. ASSUME s # <<>>
      PROVE  /\ Tail(s) \in Seq(S) /\ IsInjective(Tail(s)) /\ Head(s) \in ToSet(s)
             /\ ToSet(Tail(s)) = ToSet(s) \ {Head(s)}
    <2> DEFINE t == Tail(s)
               n == Len(s) - 1
    <2>1. /\ t \in Seq(S) /\ n \in Nat /\ Len(s) = n + 1 /\ Len(t) = n /\ Head(s) = s[1]
          /\ \A i \in 1 .. n : t[i] = s[i + 1]
        <3>1. Len(s) # 0
            BY <1>4, EmptySeq
        <3>2. t \in Seq(S) /\ Len(t) = n /\ Head(s) = s[1] /\ \A i \in 1 .. Len(t) : t[i] = s[i + 1]
            BY <1>4, HeadTailProperties
        <3> QED
            BY <1>1, <3>1, <3>2
    <2> HIDE DEF t, n
    <2>2. DOMAIN t = 1 .. n /\ DOMAIN s = 1 .. n + 1
        BY <1>1, <2>1
    <2>3. \A i \in 1 .. n : i + 1 \in 1 .. n + 1 /\ i + 1 # 1
        BY <2>1
    <2>4. 1 \in 1 .. n + 1 /\ \A i \in 1 .. n + 1 : i = 1 \/ (i - 1 \in 1 .. n /\ (i - 1) + 1 = i)
        BY <2>1
    <2>5. IsInjective(t)
        <3> SUFFICES ASSUME NEW i \in 1 .. n, NEW j \in 1 .. n, t[i] = t[j] PROVE i = j
            BY <2>2 DEF IsInjective
        <3>1. i + 1 \in DOMAIN s /\ j + 1 \in DOMAIN s /\ s[i + 1] = s[j + 1]
            BY <2>1, <2>2, <2>3
        <3>2. i + 1 = j + 1
            BY <3>1 DEF IsInjective
        <3> QED
            BY <2>1, <3>2
    <2>6. \A i \in 1 .. n : t[i] \in ToSet(s) /\ t[i] # s[1]
        BY <2>1, <2>2, <2>3, <2>4 DEF IsInjective, ToSet
    <2>7. \A i \in 1 .. n + 1 : s[i] # s[1] => s[i] \in ToSet(t)
        <3> SUFFICES ASSUME NEW i \in 1 .. n + 1, s[i] # s[1] PROVE s[i] \in ToSet(t)
            OBVIOUS
        <3>1. i - 1 \in 1 .. n /\ (i - 1) + 1 = i
            BY <2>4
        <3>2. t[i - 1] = s[i]
            BY <2>1, <3>1
        <3> QED
            BY <2>2, <3>1, <3>2 DEF ToSet
    <2>8. ToSet(t) = ToSet(s) \ {s[1]}
        BY <2>2, <2>6, <2>7 DEF ToSet
    <2> QED
        BY <2>1, <2>2, <2>4, <2>5, <2>8 DEF t, ToSet
<1> QED
    BY <1>2, <1>3, <1>4

\* d differs from c in handlers that no block has.
PagesChanged(c, d) ==
    /\ d.h = c.h /\ d.chain = c.chain /\ d.active = c.active /\ d.free = c.free
    /\ \A b \in Headers : c.h[b].page # None =>
           c.h[b].page \in Used(d) /\ d.pages[c.h[b].page].phys = c.pages[c.h[b].page].phys
    /\ \A g \in Used(d) :
           \/ /\ g \in Used(c) /\ d.pages[g].blocks = c.pages[g].blocks /\ d.pages[g].map = c.pages[g].map
           \/ /\ Blocks(c, g) = {} /\ d.pages[g].blocks = 0
              /\ \A o \in Offsets : d.pages[g].map[o] = 0

LEMMA PagesChangedKeeps ==
    ASSUME NEW c, NEW b0, Good(c, b0), NEW d \in CacheSet, PagesChanged(c, d), HandlersOK(d)
    PROVE  Good(d, b0)
<1>1. c \in CacheSet /\ PartsOK(c) /\ CountsOK(c) /\ PlacesOK(c) /\ LinksOK(c, b0)
    BY DEF Good
<1>2. d.h = c.h /\ d.chain = c.chain /\ d.active = c.active /\ d.free = c.free
    BY DEF PagesChanged
<1>3. \A b \in Headers : (Main(d, b) <=> Main(c, b)) /\ (Cross(d, b) <=> Cross(c, b))
    BY <1>2 DEF Main, Cross
<1>4. ASSUME NEW b \in Headers, c.h[b].page # None
      PROVE  d.pages[d.h[b].page].phys = c.pages[c.h[b].page].phys /\ Bytes(d, b) = Bytes(c, b)
    BY <1>2, <1>4 DEF PagesChanged, Bytes
<1>5. PartsOK(d)
    <2> SUFFICES ASSUME NEW b \in Headers PROVE PartOK(d, b)
        BY DEF PartsOK
    <2>1. PartOK(c, b)
        BY <1>1 DEF PartsOK
    <2>2. c.h[b].page # None => Bytes(d, b) = Bytes(c, b)
        BY <1>4
    <2>3. c.h[b].other # None => /\ c.h[b].other \in Headers
                                 /\ Bytes(d, c.h[b].other) = Bytes(c, c.h[b].other)
        BY <1>1, <1>4, OtherPart
    <2>4. d.h[b] = c.h[b] /\ d.h[c.h[b].other] = c.h[c.h[b].other]
        BY <1>2
    <2>5. CASE c.h[b].other = None
        BY <1>3, <2>1, <2>2, <2>4, <2>5 DEF PartOK, Main
    <2>6. CASE c.h[b].other # None
        <3> DEFINE x == c.h[b].other
        <3>1. /\ Main(d, b) <=> Main(c, b)
              /\ Cross(d, b) <=> Cross(c, b)
              /\ Main(d, x) <=> Main(c, x)
              /\ Cross(d, x) <=> Cross(c, x)
            BY <1>3, <2>3, <2>6
        <3>2. c.h[b].page # None /\ Bytes(d, b) = Bytes(c, b) /\ Bytes(d, x) = Bytes(c, x)
            BY <1>1, <2>2, <2>3, <2>6, OtherPart
        <3> QED
            BY <2>1, <2>4, <2>6, <3>1, <3>2 DEF PartOK
    <2> QED
        BY <2>5, <2>6
<1>6. CountsOK(d)
    <2>1. \A b \in Headers : d.h[b].page # None => d.h[b].page \in Used(d)
        BY <1>2 DEF PagesChanged
    <2>2. ASSUME NEW g \in Used(d)
          PROVE  /\ d.pages[g].blocks = Cardinality(Blocks(d, g))
                 /\ \A o \in Offsets : d.pages[g].map[o] = Cardinality(Covers(d, g, o))
        <3>1. Blocks(d, g) = Blocks(c, g) /\ \A o \in Offsets : Covers(d, g, o) = Covers(c, g, o)
            BY <1>2 DEF Blocks, Covers
        <3>2. CASE /\ g \in Used(c) /\ d.pages[g].blocks = c.pages[g].blocks
                   /\ d.pages[g].map = c.pages[g].map
            BY <1>1, <3>1, <3>2 DEF CountsOK
        <3>3. CASE /\ Blocks(c, g) = {} /\ d.pages[g].blocks = 0
                   /\ \A o \in Offsets : d.pages[g].map[o] = 0
            <4>1. \A o \in Offsets : Covers(c, g, o) = {}
                BY <3>3 DEF Covers
            <4> QED
                BY <3>1, <3>3, <4>1, FS_EmptySet
        <3> QED
            BY <3>2, <3>3 DEF PagesChanged
    <2> QED
        BY <2>1, <2>2 DEF CountsOK
<1>7. PlacesOK(d)
    BY <1>1, <1>2, <1>3 DEF PlacesOK
<1>8. LinksOK(d, b0)
    <2> SUFFICES ASSUME AllNoticed, NEW x \in Headers, NEW i \in Links, x # b0, Main(d, x)
                 PROVE  LinkOK(d, b0, x, i)
        BY DEF LinksOK
    <2> DEFINE l == c.h[x].link[i]
    <2>1. LinkOK(c, b0, x, i) /\ d.h[x].link[i] = l
        BY <1>1, <1>2, <1>3 DEF LinksOK
    <2>2. l \in LinkSet
        BY <1>1 DEF CacheSet, HeaderSet
    <2>3. l.to \in Headers \cup {None} /\ l.from \subseteq Headers
        BY <2>2 DEF LinkSet
    <2> HIDE DEF l
    <2>4. l.to # None => /\ l.to # b0 /\ Main(d, l.to) /\ x \in d.h[l.to].link[i].from
                         /\ l.target = <<c.pages[c.h[l.to].page].phys, d.h[l.to].start>>
                         /\ c.h[l.to].page # None
        BY <1>2, <1>3, <2>1, <2>3, Zenon DEF LinkOK, Main, l
    <2>5. \A y \in l.from : y # b0 /\ Main(d, y) /\ d.h[y].link[i].to = x
        BY <1>2, <1>3, <2>1, <2>3, Zenon DEF LinkOK, l
    <2> QED
        BY <1>4, <2>1, <2>3, <2>4, <2>5, Zenon DEF LinkOK
<1> QED
    BY <1>5, <1>6, <1>7, <1>8 DEF Good

LEMMA UsedHandlers ==
    ASSUME NEW c \in CacheSet
    PROVE  /\ Used(c) \subseteq Handlers /\ ToSet(c.freePages) \subseteq Handlers
           /\ c.used \in Seq(Handlers) /\ c.freePages \in Seq(Handlers)
           /\ \A g \in Handlers : c.pages[g] \in PageSet
    BY DEF CacheSet, Used, ToSet

LEMMA NewPageIs ==
    ASSUME NEW p \in Pages \cup {0}
    PROVE  /\ NewPage(p) \in PageSet /\ NewPage(p).phys = p /\ NewPage(p).blocks = 0
           /\ \A o \in Offsets : NewPage(p).map[o] = 0
    BY Numbers DEF NewPage, PageSet

\* Release: the handler of a page without blocks is free again.
LEMMA ReleaseKeeps ==
    ASSUME NEW c, NEW b0, Good(c, b0), NEW g \in Used(c), Blocks(c, g) = {}
    PROVE  LET d == Release(c, g)
           IN  /\ Good(d, b0) /\ d.h = c.h /\ d.chain = c.chain /\ d.active = c.active
               /\ d.free = c.free /\ d.code = c.code /\ d.running = c.running
               /\ Used(d) = Used(c) \ {g} /\ d.freePages # <<>>
               /\ \A k \in Used(d) : d.pages[k] = c.pages[k]
<1> DEFINE kept == {i \in DOMAIN c.used : c.used[i] # g}
           used == Selection(c.used, kept)
           spare == <<g>> \o c.freePages
           pages == [c.pages EXCEPT ![g] = NewPage(0)]
           d == [c EXCEPT !.used = used, !.freePages = spare, !.pages = pages]
<1>1. c \in CacheSet /\ HandlersOK(c) /\ CountsOK(c)
    BY DEF Good
<1>2. /\ Used(c) \subseteq Handlers /\ ToSet(c.freePages) \subseteq Handlers
      /\ c.used \in Seq(Handlers) /\ c.freePages \in Seq(Handlers)
      /\ IsInjective(c.used) /\ IsInjective(c.freePages) /\ g \notin ToSet(c.freePages) /\ g \in Handlers
    BY <1>1, UsedHandlers DEF HandlersOK
<1>3. used \in Seq(Handlers) /\ IsInjective(used) /\ ToSet(used) = Used(c) \ {g}
    <2>1. kept \in SUBSET (1 .. Len(c.used)) /\ DOMAIN c.used = 1 .. Len(c.used)
        BY <1>2
    <2>2. {c.used[i] : i \in kept} = Used(c) \ {g}
        BY DEF Used, ToSet
    <2> HIDE DEF kept
    <2> QED
        BY <1>2, <2>1, <2>2, SelectionOf
<1>4. spare \in Seq(Handlers) /\ IsInjective(spare) /\ ToSet(spare) = ToSet(c.freePages) \cup {g}
    BY <1>2, ListSteps
<1>5. c.pages \in [Handlers -> PageSet]
    BY <1>1 DEF CacheSet
<1>6. pages \in [Handlers -> PageSet] /\ \A k \in Handlers : k # g => pages[k] = c.pages[k]
    BY <1>5, NewPageIs
<1>7. spare # <<>>
    <2>1. ToSet(<<>>) = {}
        BY DEF ToSet
    <2> HIDE DEF spare
    <2> QED
        BY <1>4, <2>1
<1>8. Release(c, g) = d
    BY DEF Release
<1> HIDE DEF used, spare, pages
<1>9. /\ d \in CacheSet /\ d.used = used /\ d.freePages = spare /\ d.pages = pages /\ d.h = c.h
      /\ d.chain = c.chain /\ d.active = c.active /\ d.free = c.free /\ d.code = c.code
      /\ d.running = c.running
    BY <1>1, <1>3, <1>4, <1>6 DEF CacheSet
<1> HIDE DEF d
<1>10. Used(d) = Used(c) \ {g} /\ \A k \in Used(d) : d.pages[k] = c.pages[k]
    BY <1>2, <1>3, <1>6, <1>9 DEF Used
<1>11. HandlersOK(d)
    BY <1>1, <1>2, <1>3, <1>4, <1>9, <1>10 DEF HandlersOK
<1>12. PagesChanged(c, d)
    <2>1. \A b \in Headers : c.h[b].page # g
        BY DEF Blocks
    <2>2. \A b \in Headers : c.h[b].page # None => c.h[b].page \in Used(d)
        BY <1>1, <1>10, <2>1 DEF CountsOK
    <2> QED
        BY <1>9, <1>10, <2>2 DEF PagesChanged
<1>13. Good(d, b0)
    BY <1>9, <1>11, <1>12, PagesChangedKeeps
<1> QED
    BY <1>4, <1>7, <1>8, <1>9, <1>10, <1>13

\* The blocks of a page, and the ones of a byte of it, can be cleared.
LEMMA PageClearable ==
    ASSUME NEW c, NEW b0, Good(c, b0), NEW g \in Handlers, NEW S \in SUBSET Blocks(c, g),
           b0 \notin Whole(c, S)
    PROVE  Clearable(c, S, b0)
<1>1. c \in CacheSet /\ PartsOK(c)
    BY DEF Good
<1>2. S \in SUBSET Headers /\ \A x \in S : c.h[x].page = g /\ c.h[x].page # None
    BY Numbers DEF Blocks
<1>3. ASSUME NEW x \in S PROVE c.h[x].other \notin S
    <2>1. SUFFICES ASSUME c.h[x].other \in S PROVE FALSE
        OBVIOUS
    <2> DEFINE y == c.h[x].other
    <2>2. x \in Headers /\ y \in Headers /\ y # None /\ c.h[x].page = g /\ c.h[y].page = g
        BY <1>2, <2>1, Numbers
    <2>3. (Main(c, x) => Cross(c, y)) /\ (Cross(c, x) => Main(c, y)) /\ c.h[y].other = x
        BY <1>1, <2>2, OtherPart
    <2>4. PartOK(c, x) /\ PartOK(c, y)
        BY <1>1, <2>2 DEF PartsOK
    <2>5. c.h[x].index \in Nat
        BY <1>1, <2>2, Types
    <2>6. CASE Main(c, x)
        BY <2>2, <2>4, <2>6 DEF PartOK
    <2>7. CASE Cross(c, x)
        BY <2>2, <2>3, <2>4, <2>7, Numbers DEF PartOK
    <2> QED
        BY <1>2, <2>5, <2>6, <2>7 DEF Main, Cross
<1> QED
    BY <1>2, <1>3 DEF Clearable

\* What making a page leaves alone; b is the block that is being translated, if any.
Kept(c, d, b) ==
    /\ d.chain = c.chain /\ d.active = c.active /\ d.running = c.running /\ d.code = c.code
    /\ c.free \subseteq d.free
    /\ \A x \in Headers : d.h[x].at = c.h[x].at /\ d.h[x].size = c.h[x].size
    /\ b \in Headers => SameHeader(d.h[b], c.h[b])

LEMMA GoneKept ==
    ASSUME NEW c, NEW d, NEW b, NEW T, b \notin T, Gone(c, d, T)
    PROVE  Kept(c, d, b)
<1>1. ASSUME NEW x \in Headers PROVE d.h[x].at = c.h[x].at /\ d.h[x].size = c.h[x].size
    BY DEF Gone, SameHeader
<1> QED
    BY <1>1 DEF Gone, Kept, SameLists

LEMMA ClearReleaseKeeps ==
    ASSUME NEW c, NEW b0, Good(c, b0), NEW g \in Used(c), b0 \notin Whole(c, Blocks(c, g))
    PROVE  LET d == ClearRelease(c, g)
           IN  Good(d, b0) /\ Kept(c, d, b0) /\ d.freePages # <<>> /\ Used(d) = Used(c) \ {g}
               /\ \A k \in Used(d) : d.pages[k].phys = c.pages[k].phys
<1> DEFINE S == Blocks(c, g)
           s == SetToSeq(S)
           c1 == Cleared(c, s)
           T == Whole(c, S)
           d == Release(c1, g)
<1>1. c \in CacheSet /\ g \in Handlers
    BY UsedHandlers DEF Good
<1>2. S \in SUBSET Headers /\ s \in Seq(S) /\ IsInjective(s) /\ ToSet(s) = S
    <2>1. S \in SUBSET Headers
        BY DEF Blocks
    <2>2. IsFiniteSet(S)
        BY FiniteBlocks
    <2> HIDE DEF S
    <2> QED
        BY <2>1, <2>2, ListOfSet
<1>3. Clearable(c, S, b0)
    BY <1>1, PageClearable
<1> HIDE DEF S, s
<1>4. s \in Seq(Headers)
    BY <1>2
<1>5. Good(c1, b0) /\ Gone(c, c1, T)
    BY <1>2, <1>3, <1>4, ClearedKeeps
<1> HIDE DEF c1
<1>6. Used(c1) = Used(c) /\ Kept(c, c1, b0)
    <2>1. b0 \notin T
        BY DEF S
    <2> HIDE DEF T
    <2> QED
        BY <1>5, <2>1, GoneKept DEF Gone, SameLists, Used
<1>7. Blocks(c1, g) = {}
    <2> SUFFICES ASSUME NEW x \in Headers, c1.h[x].page = g PROVE FALSE
        BY DEF Blocks
    <2>1. x \notin T
        BY <1>1, <1>5, Numbers DEF Gone
    <2>2. c.h[x].page = g
        BY <1>5, <2>1 DEF Gone, SameHeader
    <2>3. x \in T
        BY <1>1, <2>2, Numbers DEF S, Blocks, Whole
    <2> QED
        BY <2>1, <2>3
<1>8. /\ Good(d, b0) /\ d.h = c1.h /\ d.chain = c1.chain /\ d.active = c1.active
      /\ d.free = c1.free /\ d.code = c1.code /\ d.running = c1.running
      /\ Used(d) = Used(c1) \ {g} /\ d.freePages # <<>>
      /\ \A k \in Used(d) : d.pages[k] = c1.pages[k]
    BY <1>5, <1>6, <1>7, ReleaseKeeps
<1>9. ClearRelease(c, g) = d
    BY DEF ClearRelease, c1, s, S
<1> HIDE DEF d
<1>10. Kept(c, d, b0)
    BY <1>6, <1>8 DEF Kept
<1>11. \A k \in Used(d) : d.pages[k].phys = c.pages[k].phys
    <2>1. \A k \in Used(d) : k \in Handlers
        BY <1>1, <1>6, <1>8, UsedHandlers
    <2> QED
        BY <1>5, <1>8, <2>1 DEF Gone
<1> QED
    BY <1>6, <1>8, <1>9, <1>10, <1>11

\* The block that is being translated, if any, is in one page so far, decode.page.code.
Translating(c, b) ==
    b = None \/ (b \in Headers /\ Main(c, b) /\ c.h[b].other = None /\ c.h[b].page = c.code)

\* A page that gives way is not the one of the block that is being translated.
LEMMA VictimIs ==
    ASSUME NEW c, NEW b0, Good(c, b0), Translating(c, b0), c.freePages = <<>>
    PROVE  LET v == IF c.used[1] = c.code /\ Len(c.used) > 1 THEN c.used[2] ELSE c.used[1]
           IN  v \in Used(c) /\ v # c.code /\ b0 \notin Whole(c, Blocks(c, v))
<1> DEFINE v == IF c.used[1] = c.code /\ Len(c.used) > 1 THEN c.used[2] ELSE c.used[1]
<1>1. c \in CacheSet /\ HandlersOK(c)
    BY DEF Good
<1>2. c.used \in Seq(Handlers) /\ DOMAIN c.used = 1 .. Len(c.used) /\ Len(c.used) \in Nat
      /\ IsInjective(c.used) /\ Used(c) \subseteq Handlers
    <2>1. c.used \in Seq(Handlers) /\ Used(c) \subseteq Handlers
        BY <1>1, UsedHandlers
    <2> QED
        BY <1>1, <2>1 DEF HandlersOK
<1>3. Used(c) = Handlers
    <2>1. ToSet(c.freePages) = {}
        BY DEF ToSet
    <2> QED
        BY <1>1, <1>2, <2>1 DEF HandlersOK
<1>4. Len(c.used) > 1
    <2>1. SUFFICES ASSUME ~(Len(c.used) > 1) PROVE FALSE
        OBVIOUS
    <2>2. Handlers \subseteq {c.used[1]}
        <3>1. \A i \in DOMAIN c.used : i = 1
            BY <1>2, <2>1
        <3> QED
            BY <1>3, <3>1 DEF Used, ToSet
    <2>3. Cardinality({c.used[1]}) = 1 /\ IsFiniteSet({c.used[1]})
        BY FS_Singleton
    <2>4. Cardinality(Handlers) <= 1 /\ Cardinality(Handlers) \in Nat
        <3>1. Cardinality(Handlers) \in Nat
            BY PoolsAssumption, FS_CardinalityType
        <3>2. Cardinality(Handlers) <= Cardinality({c.used[1]})
            BY <2>2, <2>3, FS_Subset
        <3> QED
            BY <2>3, <3>1, <3>2
    <2> QED
        BY <2>4, PoolsAssumption
<1>5. c.used[1] \in Used(c) /\ c.used[2] \in Used(c) /\ c.used[1] # c.used[2]
    <2>1. 1 \in DOMAIN c.used /\ 2 \in DOMAIN c.used
        BY <1>2, <1>4
    <2> QED
        BY <2>1, <1>2 DEF Used, ToSet, IsInjective
<1>6. v \in Used(c) /\ v # c.code
    BY <1>4, <1>5
<1> HIDE DEF v
<1>7. b0 \notin Whole(c, Blocks(c, v))
    <2>1. None \notin Headers
        BY Numbers
    <2> QED
        BY <1>6, <2>1 DEF Translating, Whole, Blocks
<1> QED
    BY <1>6, <1>7 DEF v

LEMMA MakePageKeeps ==
    ASSUME NEW c, NEW b0, Good(c, b0), Translating(c, b0), NEW p \in Pages
    PROVE  LET d == MakePage(c, p)
           IN  /\ Good(d, b0) /\ Kept(c, d, b0) /\ IsCode(d, p)
               /\ b0 # None => d.pages[d.h[b0].page].phys = c.pages[c.h[b0].page].phys
<1> DEFINE v == IF c.used[1] = c.code /\ Len(c.used) > 1 THEN c.used[2] ELSE c.used[1]
           c1 == IF c.freePages # <<>> THEN c ELSE ClearRelease(c, v)
           g == Head(c1.freePages)
           spare == Tail(c1.freePages)
           used == Append(c1.used, g)
           pages == [c1.pages EXCEPT ![g] = NewPage(p)]
           d == [c1 EXCEPT !.freePages = spare, !.used = used, !.pages = pages]
<1>1. CASE IsCode(c, p)
    <2>1. MakePage(c, p) = c
        BY <1>1 DEF MakePage
    <2>2. Kept(c, c, b0)
        BY DEF Kept, SameHeader
    <2> QED
        BY <1>1, <2>1, <2>2
<1>2. CASE ~IsCode(c, p)
    <2>1. MakePage(c, p) = d
        BY <1>2 DEF MakePage
    <2>2. /\ Good(c1, b0) /\ Kept(c, c1, b0) /\ c1.freePages # <<>>
          /\ \A k \in Used(c1) : c1.pages[k].phys = c.pages[k].phys /\ c1.pages[k].phys # p
        <3>1. CASE c.freePages # <<>>
            <4>1. Kept(c, c, b0)
                BY DEF Kept, SameHeader
            <4>2. c1 = c
                BY <3>1
            <4> QED
                BY <1>2, <3>1, <4>1, <4>2 DEF IsCode
        <3>2. CASE c.freePages = <<>>
            <4>1. v \in Used(c) /\ b0 \notin Whole(c, Blocks(c, v))
                BY <3>2, VictimIs
            <4>2. c1 = ClearRelease(c, v)
                BY <3>2
            <4> HIDE DEF v, c1
            <4>3. /\ Good(c1, b0) /\ Kept(c, c1, b0) /\ c1.freePages # <<>>
                  /\ Used(c1) = Used(c) \ {v} /\ \A k \in Used(c1) : c1.pages[k].phys = c.pages[k].phys
                BY <4>1, <4>2, ClearReleaseKeeps
            <4> QED
                BY <1>2, <4>3 DEF IsCode
        <3> QED
            BY <3>1, <3>2
    <2> HIDE DEF c1
    <2>3. c1 \in CacheSet /\ HandlersOK(c1) /\ CountsOK(c1)
        BY <2>2 DEF Good
    <2>4. /\ Used(c1) \subseteq Handlers /\ ToSet(c1.freePages) \subseteq Handlers
          /\ c1.used \in Seq(Handlers) /\ c1.freePages \in Seq(Handlers)
          /\ IsInjective(c1.used) /\ IsInjective(c1.freePages)
          /\ \A k \in Handlers : k \in Used(c1) <=> k \notin ToSet(c1.freePages)
        BY <2>3, UsedHandlers DEF HandlersOK
    <2>5. /\ spare \in Seq(Handlers) /\ IsInjective(spare) /\ g \in ToSet(c1.freePages)
          /\ ToSet(spare) = ToSet(c1.freePages) \ {g}
        BY <2>2, <2>4, ListSteps
    <2>6. g \in Handlers /\ g \notin Used(c1)
        BY <2>4, <2>5
    <2> HIDE DEF g, spare
    <2>7. used \in Seq(Handlers) /\ IsInjective(used) /\ ToSet(used) = Used(c1) \cup {g}
        BY <2>4, <2>6, ListSteps DEF Used
    <2>8. c1.pages \in [Handlers -> PageSet] /\ NewPage(p) \in PageSet
        BY <2>3, NewPageIs DEF CacheSet
    <2>9. pages \in [Handlers -> PageSet] /\ pages[g] = NewPage(p)
          /\ \A k \in Handlers : k # g => pages[k] = c1.pages[k]
        BY <2>6, <2>8
    <2> HIDE DEF used, pages
    <2>10. /\ d \in CacheSet /\ d.used = used /\ d.freePages = spare /\ d.pages = pages
           /\ d.h = c1.h /\ d.chain = c1.chain /\ d.active = c1.active /\ d.free = c1.free
           /\ d.code = c1.code /\ d.running = c1.running
        BY <2>3, <2>5, <2>7, <2>9 DEF CacheSet
    <2> HIDE DEF d
    <2>11. /\ Used(d) = Used(c1) \cup {g} /\ d.pages[g] = NewPage(p)
           /\ \A k \in Used(c1) : d.pages[k] = c1.pages[k]
        BY <2>4, <2>6, <2>7, <2>9, <2>10 DEF Used
    <2>12. NewPage(p).phys = p /\ NewPage(p).blocks = 0 /\ \A o \in Offsets : NewPage(p).map[o] = 0
        BY NewPageIs
    <2>a. \A k \in Used(c1) : c1.pages[k].phys # p
        BY <2>2
    <2>13. HandlersOK(d)
        BY <2>a, <2>3, <2>4, <2>5, <2>6, <2>7, <2>10, <2>11, <2>12 DEF HandlersOK
    <2>14. PagesChanged(c1, d)
        <3>1. \A b \in Headers : c1.h[b].page # None => c1.h[b].page \in Used(c1)
            BY <2>3 DEF CountsOK
        <3>2. Blocks(c1, g) = {}
            BY <2>6, <3>1, Numbers DEF Blocks
        <3> QED
            BY <2>10, <2>11, <2>12, <3>1, <3>2 DEF PagesChanged
    <2>15. Good(d, b0)
        BY <2>2, <2>10, <2>13, <2>14, PagesChangedKeeps
    <2>16. Kept(c, d, b0)
        BY <2>2, <2>10 DEF Kept
    <2>17. IsCode(d, p)
        BY <2>11, <2>12 DEF IsCode
    <2>18. b0 # None => d.pages[d.h[b0].page].phys = c.pages[c.h[b0].page].phys
        <3> SUFFICES ASSUME b0 # None
                     PROVE  d.pages[d.h[b0].page].phys = c.pages[c.h[b0].page].phys
            OBVIOUS
        <3>1. b0 \in Headers /\ c.h[b0].page # None
            BY DEF Translating, Main
        <3>2. c1.h[b0].page = c.h[b0].page /\ d.h[b0].page = c.h[b0].page
            BY <2>2, <2>10, <3>1 DEF Kept, SameHeader
        <3>3. c.h[b0].page \in Used(c1)
            BY <2>3, <3>1, <3>2 DEF CountsOK
        <3> QED
            BY <2>2, <2>11, <3>2, <3>3
    <2> QED
        BY <2>1, <2>15, <2>16, <2>17, <2>18
<1> QED
    BY <1>1, <1>2

---------------------------------------------------------------------------
(* Writes to memory *)

InvalidatedIn(c, g, o, f, m) ==
    f = [k \in 0 .. m |->
            IF k = 0 THEN c
            ELSE IF f[k - 1].pages[g].map[o] = 0 THEN f[k - 1]
            ELSE Cleared(f[k - 1], SetToSeq(Hit(f[k - 1], g, o, o + 2 - k)))]

\* One bucket of hash.
Bucket(d, g, o, index) ==
    IF d.pages[g].map[o] = 0 THEN d ELSE Cleared(d, SetToSeq(Hit(d, g, o, index)))

LEMMA InvalidatedExists ==
    ASSUME NEW c, NEW g, NEW o, NEW m \in Nat
    PROVE  \E f : InvalidatedIn(c, g, o, f, m)
<1> DEFINE S == {n \in Nat : ~ \E f : InvalidatedIn(c, g, o, f, n)}
<1>1. SUFFICES ASSUME S # {} PROVE FALSE
    OBVIOUS
<1>2. S \in SUBSET Nat
    OBVIOUS
<1> HIDE DEF S
<1>3. PICK n \in S : n - 1 \notin S /\ (n = 0 \/ n - 1 \in Nat)
    BY <1>1, <1>2, FirstFailure
<1>4. n \in Nat /\ ~ \E f : InvalidatedIn(c, g, o, f, n)
    BY <1>3 DEF S
<1>d. ASSUME NEW f, NEW k
      PROVE  InvalidatedIn(c, g, o, f, k) <=>
                 f = [j \in 0 .. k |-> IF j = 0 THEN c ELSE Bucket(f[j - 1], g, o, o + 2 - j)]
    BY DEF InvalidatedIn, Bucket
<1>5. CASE n = 0
    <2> DEFINE f == [k \in 0 .. 0 |-> c]
    <2>1. f = [k \in 0 .. 0 |-> IF k = 0 THEN c ELSE Bucket(f[k - 1], g, o, o + 2 - k)]
        OBVIOUS
    <2> HIDE DEF f
    <2> QED
        BY <1>4, <1>5, <1>d, <2>1
<1>6. CASE n # 0
    <2>1. PICK f : InvalidatedIn(c, g, o, f, n - 1)
        BY <1>3, <1>6 DEF S
    <2>2. f = [k \in 0 .. n - 1 |-> IF k = 0 THEN c ELSE Bucket(f[k - 1], g, o, o + 2 - k)]
        BY <1>d, <2>1
    <2> DEFINE e == [k \in 0 .. n |-> IF k = n THEN Bucket(f[n - 1], g, o, o + 2 - n) ELSE f[k]]
    <2>3. ASSUME NEW k \in 0 .. n
          PROVE  e[k] = IF k = 0 THEN c ELSE Bucket(e[k - 1], g, o, o + 2 - k)
        <3>1. k # n => /\ k \in 0 .. n - 1
                       /\ f[k] = IF k = 0 THEN c ELSE Bucket(f[k - 1], g, o, o + 2 - k)
            BY <1>4, <1>6, <2>2
        <3>2. k # 0 => k - 1 \in 0 .. n /\ k - 1 # n
            BY <1>4
        <3>3. k # 0 => e[k - 1] = f[k - 1]
            BY <3>2
        <3>4. e[k] = IF k = n THEN Bucket(f[n - 1], g, o, o + 2 - n) ELSE f[k]
            OBVIOUS
        <3> HIDE DEF e
        <3> QED
            BY <1>6, <3>1, <3>3, <3>4
    <2>4. e = [k \in 0 .. n |-> IF k = 0 THEN c ELSE Bucket(e[k - 1], g, o, o + 2 - k)]
        <3>1. e = [k \in 0 .. n |-> e[k]]
            OBVIOUS
        <3> HIDE DEF e
        <3> QED
            BY <2>3, <3>1
    <2> HIDE DEF e
    <2> QED
        BY <1>4, <1>d, <2>4
<1> QED
    BY <1>5, <1>6

\* What the blocks of the byte o of a page are once those in the buckets behind
\* index are cleared
Invalidating(c, d, g, o, index) ==
    /\ Good(d, None)
    /\ \E T \in SUBSET Headers : Gone(c, d, T) /\ T \subseteq Whole(c, Covers(c, g, o))
    /\ \A b \in Covers(d, g, o) : d.h[b].index < index

LEMMA BucketKeeps ==
    ASSUME NEW c, Good(c, None), NEW g \in Used(c), NEW o \in Offsets, NEW d, NEW index \in Int,
           Invalidating(c, d, g, o, index + 1)
    PROVE  Invalidating(c, Bucket(d, g, o, index), g, o, index)
<1>1. Good(d, None) /\ d \in CacheSet /\ CountsOK(d) /\ g \in Handlers
    BY UsedHandlers DEF Invalidating, Good
<1>2. PICK T \in SUBSET Headers : Gone(c, d, T) /\ T \subseteq Whole(c, Covers(c, g, o))
    BY DEF Invalidating
<1>3. \A b \in Covers(d, g, o) : b \in Headers /\ d.h[b].index \in Int /\ d.h[b].index < index + 1
    <2>1. \A b \in Covers(d, g, o) : b \in Headers
        BY DEF Covers, Blocks
    <2> QED
        BY <1>1, <2>1, Types DEF Invalidating
<1>4. Used(d) = Used(c)
    BY <1>2 DEF Gone, SameLists, Used
<1>5. CASE d.pages[g].map[o] = 0
    <2>1. Covers(d, g, o) = {}
        <3>1. Cardinality(Covers(d, g, o)) = 0
            BY <1>1, <1>4, <1>5 DEF CountsOK
        <3> QED
            BY <3>1, FiniteBlocks, FS_EmptySet
    <2> QED
        BY <1>1, <1>2, <1>5, <2>1 DEF Invalidating, Bucket
<1>6. CASE d.pages[g].map[o] # 0
    <2> DEFINE S == Hit(d, g, o, index)
               s == SetToSeq(S)
               e == Cleared(d, s)
    <2>1. S \in SUBSET Blocks(d, g) /\ S \subseteq Headers /\ S \subseteq Covers(d, g, o)
        BY DEF Hit, Covers, Blocks
    <2>2. \A b \in Covers(d, g, o) : b \notin S => d.h[b].index # index
        BY DEF Hit, Covers
    <2>3. e = Bucket(d, g, o, index)
        BY <1>6 DEF Bucket
    <2> HIDE DEF S
    <2>4. s \in Seq(S) /\ IsInjective(s) /\ ToSet(s) = S
        <3>1. IsFiniteSet(S)
            BY <2>1, FiniteBlocks, FS_Subset
        <3> QED
            BY <3>1, ListOfSet
    <2> HIDE DEF s
    <2>5. None \notin Whole(d, S)
        BY Numbers DEF Whole
    <2>6. Clearable(d, S, None)
        BY <1>1, <2>1, <2>5, PageClearable
    <2>7. s \in Seq(Headers)
        BY <2>1, <2>4
    <2> DEFINE U == Whole(d, S)
    <2>8. Good(e, None) /\ Gone(d, e, U)
        BY <1>1, <2>4, <2>6, <2>7, ClearedKeeps
    <2> HIDE DEF e
    <2>9. \A x \in Headers : d.h[x].page # None =>
              x \notin T /\ d.h[x].page = c.h[x].page /\ d.h[x].other = c.h[x].other
              /\ d.h[x].start = c.h[x].start /\ d.h[x].end = c.h[x].end
        BY <1>2 DEF Gone, SameHeader
    <2>10. Covers(d, g, o) \subseteq Covers(c, g, o)
        BY <1>1, <2>9, Numbers DEF Covers, Blocks
    <2>11. U \in SUBSET Headers /\ U \subseteq Whole(c, Covers(c, g, o))
        BY <2>1, <2>9, <2>10 DEF Whole
    <2>12. Gone(c, e, T \cup U)
        BY <1>2, <2>8, <2>11, GoneTwice
    <2>13. ASSUME NEW b \in Covers(e, g, o) PROVE e.h[b].index < index
        <3>1. b \in Headers /\ e.h[b].page = g /\ g # None
            BY <1>1, Numbers DEF Covers, Blocks
        <3>2. b \notin U
            BY <2>8, <3>1 DEF Gone
        <3>3. SameHeader(e.h[b], d.h[b])
            BY <2>8, <3>1, <3>2 DEF Gone
        <3>4. b \in Covers(d, g, o) /\ e.h[b].index = d.h[b].index
            BY <3>1, <3>3 DEF Covers, Blocks, SameHeader
        <3>5. b \notin S
            BY <3>1, <3>2, <3>3 DEF Whole, SameHeader
        <3>6. d.h[b].index \in Int /\ d.h[b].index < index + 1 /\ d.h[b].index # index
            BY <1>3, <2>2, <3>4, <3>5
        <3> QED
            BY <3>4, <3>6
    <2>14. T \cup U \subseteq Whole(c, Covers(c, g, o)) /\ T \cup U \in SUBSET Headers
        BY <1>2, <2>11
    <2> QED
        BY <2>3, <2>8, <2>12, <2>13, <2>14 DEF Invalidating
<1> QED
    BY <1>5, <1>6

\* Invalidated: the blocks of the byte are gone, and no others.
LEMMA InvalidatedKeeps ==
    ASSUME NEW c, Good(c, None), NEW g \in Used(c), NEW o \in Offsets
    PROVE  LET d == Invalidated(c, g, o)
           IN  /\ Good(d, None) /\ Covers(d, g, o) = {}
               /\ \E T \in SUBSET Headers : Gone(c, d, T) /\ T \subseteq Whole(c, Covers(c, g, o))
<1> DEFINE f == CHOOSE e : e = [k \in 0 .. o + 2 |->
                   IF k = 0 THEN c
                   ELSE IF e[k - 1].pages[g].map[o] = 0 THEN e[k - 1]
                   ELSE Cleared(e[k - 1], SetToSeq(Hit(e[k - 1], g, o, o + 2 - k)))]
           P(k) == Invalidating(c, f[k], g, o, o + 2 - k)
           S == {k \in Nat : k <= o + 2 /\ ~P(k)}
<1>1. o \in Nat /\ o + 2 \in Nat /\ c \in CacheSet /\ PartsOK(c)
    BY Numbers DEF Good
<1>2. Invalidated(c, g, o) = f[o + 2]
    BY DEF Invalidated
<1>3. InvalidatedIn(c, g, o, f, o + 2)
    <2>1. \E e : InvalidatedIn(c, g, o, e, o + 2)
        BY <1>1, InvalidatedExists
    <2> QED
        BY <2>1, Zenon DEF InvalidatedIn
<1> HIDE DEF f
<1>4. f[0] = c /\ \A k \in 1 .. o + 2 : f[k] = Bucket(f[k - 1], g, o, o + 2 - k)
    <2>1. f = [k \in 0 .. o + 2 |-> IF k = 0 THEN c ELSE Bucket(f[k - 1], g, o, o + 2 - k)]
        BY <1>3, Zenon DEF InvalidatedIn, Bucket
    <2>2. 0 \in 0 .. o + 2 /\ \A k \in 1 .. o + 2 : k \in 0 .. o + 2 /\ k # 0
        BY <1>1
    <2> QED
        BY <2>1, <2>2, Zenon
<1>5. P(0)
    <2>1. Gone(c, c, {}) /\ {} \in SUBSET Headers
        BY DEF Gone, SameLists, SameHeader
    <2>2. ASSUME NEW b \in Covers(c, g, o) PROVE c.h[b].index < o + 2
        <3>1. b \in Headers /\ o \in c.h[b].start .. c.h[b].end /\ PartOK(c, b) /\ c.h[b].page = g
            BY <1>1 DEF Covers, Blocks, PartsOK
        <3>2. /\ c.h[b].index \in Nat /\ c.h[b].start \in Offsets /\ c.h[b].end \in Offsets
              /\ g \in Handlers
            BY <1>1, <3>1, Types, UsedHandlers
        <3>3. c.h[b].index = 0 \/ c.h[b].index = c.h[b].start + 1
            BY <3>1, <3>2, Numbers DEF PartOK, Main
        <3>4. c.h[b].start <= o /\ c.h[b].start \in Int
            BY <3>1, <3>2, Numbers
        <3> QED
            BY <1>1, <3>3, <3>4
    <2>3. Invalidating(c, c, g, o, o + 2)
        BY <2>1, <2>2 DEF Invalidating
    <2>4. o + 2 - 0 = o + 2
        BY <1>1
    <2> QED
        BY <1>4, <2>3, <2>4
<1>6. ASSUME NEW k \in 1 .. o + 2, P(k - 1) PROVE P(k)
    <2>1. o + 2 - k \in Int /\ (o + 2 - k) + 1 = o + 2 - (k - 1)
        BY <1>1
    <2>2. Invalidating(c, f[k - 1], g, o, (o + 2 - k) + 1)
        BY <1>6, <2>1
    <2>3. Invalidating(c, Bucket(f[k - 1], g, o, o + 2 - k), g, o, o + 2 - k)
        BY <2>1, <2>2, BucketKeeps
    <2> QED
        BY <1>4, <2>3
<1>7. P(o + 2)
    <2> HIDE DEF P
    <2>1. S = {}
        <3>1. SUFFICES ASSUME S # {} PROVE FALSE
            OBVIOUS
        <3>2. S \in SUBSET Nat
            OBVIOUS
        <3> HIDE DEF S
        <3>3. PICK n \in S : n - 1 \notin S /\ (n = 0 \/ n - 1 \in Nat)
            BY <3>1, <3>2, FirstFailure
        <3>4. n \in Nat /\ n <= o + 2 /\ ~P(n)
            BY <3>3 DEF S
        <3>5. n # 0 => n - 1 \in Nat /\ n - 1 <= o + 2 /\ n \in 1 .. o + 2
            BY <1>1, <3>3, <3>4
        <3>6. n # 0 => P(n - 1)
            BY <3>3, <3>5 DEF S
        <3> QED
            BY <1>5, <1>6, <3>4, <3>5, <3>6
    <2> QED
        BY <1>1, <2>1
<1>8. Invalidating(c, f[o + 2], g, o, 0)
    <2>1. o + 2 - (o + 2) = 0
        BY <1>1
    <2> QED
        BY <1>7, <2>1
<1>9. Covers(f[o + 2], g, o) = {}
    <2> DEFINE d == f[o + 2]
    <2>1. d \in CacheSet /\ \A b \in Covers(d, g, o) : d.h[b].index < 0
        BY <1>8 DEF Invalidating, Good
    <2> HIDE DEF d
    <2>2. \A b \in Covers(d, g, o) : b \in Headers
        BY DEF Covers, Blocks
    <2>3. \A b \in Covers(d, g, o) : d.h[b].index \in Nat
        BY <2>1, <2>2, Types
    <2>4. Covers(d, g, o) = {}
        BY <2>1, <2>3
    <2> QED
        BY <2>4 DEF d
<1> QED
    BY <1>2, <1>8, <1>9 DEF Invalidating

\* A live block that was translated from the byte at addr has a part in its page there.
LEMMA CodeIsCovered ==
    ASSUME NEW c, Good(c, None), NEW b \in Headers, c.h[b].page # None,
           NEW addr \in Addresses, addr \in c.h[b].code
    PROVE  /\ IsCode(c, addr[1])
           /\ \E z \in Covers(c, HandlerOf(c, addr[1]), addr[2]) : z = b \/ z = c.h[b].other
<1>1. c \in CacheSet /\ PartOK(c, b) /\ CountsOK(c) /\ HandlersOK(c)
    BY DEF Good, PartsOK
<1>2. Main(c, b)
    <2>1. c.h[b].index \in Nat /\ ~Cross(c, b)
        BY <1>1, Types DEF PartOK
    <2> QED
        BY <2>1 DEF Main, Cross
<1>3. PICK z \in Headers : (z = b \/ z = c.h[b].other) /\ c.h[z].page # None /\ addr \in Bytes(c, z)
    <2>1. CASE c.h[b].other = None
        BY <1>1, <1>2, <2>1 DEF PartOK
    <2>2. CASE c.h[b].other # None
        <3>1. c.h[b].other \in Headers /\ c.h[c.h[b].other].page # None
            BY <1>1, <2>2, OtherPart DEF Good
        <3> QED
            BY <1>1, <1>2, <2>2, <3>1 DEF PartOK
    <2> QED
        BY <2>1, <2>2
<1> DEFINE g == c.h[z].page
<1>4. g \in Used(c) /\ g \in Handlers
    BY <1>1, <1>3, UsedHandlers DEF CountsOK
<1>5. c.pages[g].phys = addr[1] /\ addr[2] \in c.h[z].start .. c.h[z].end
    BY <1>3 DEF Bytes
<1>6. HandlerOf(c, addr[1]) = g
    BY <1>1, <1>4, <1>5 DEF HandlerOf, HandlersOK
<1>7. z \in Covers(c, g, addr[2])
    BY <1>3, <1>5 DEF Covers, Blocks
<1> QED
    BY <1>3, <1>4, <1>5, <1>6, <1>7 DEF IsCode

\* The handler of a page
LEMMA HandlerIs ==
    ASSUME NEW c, HandlersOK(c), NEW p, IsCode(c, p)
    PROVE  /\ HandlerOf(c, p) \in Used(c) /\ c.pages[HandlerOf(c, p)].phys = p
           /\ \A g \in Used(c) : c.pages[g].phys = p => g = HandlerOf(c, p)
    BY DEF HandlerOf, IsCode, HandlersOK

\* The counters of one page, beside those of its blocks, are of no account.
LEMMA UnhitKeeps ==
    ASSUME NEW c, Good(c, None), NEW g \in Used(c)
    PROVE  Good(Unhit(c, g), None) /\ Kept(c, Unhit(c, g), None) /\ Unhit(c, g).h = c.h
<1> DEFINE p == [c.pages[g] EXCEPT !.count = @ - 1]
           pages == [c.pages EXCEPT ![g] = p]
           c1 == [c EXCEPT !.pages = pages]
<1>1. c \in CacheSet /\ CountsOK(c) /\ HandlersOK(c)
    BY DEF Good
<1>2. g \in Handlers /\ c.pages \in [Handlers -> PageSet] /\ Used(c) \subseteq Handlers
      /\ c.pages[g] \in PageSet
    BY <1>1, UsedHandlers DEF CacheSet
<1>3. p \in PageSet /\ p.phys = c.pages[g].phys /\ p.blocks = c.pages[g].blocks
      /\ p.map = c.pages[g].map
    <2> DEFINE q == c.pages[g]
    <2>1. q \in PageSet
        BY <1>2
    <2> HIDE DEF q
    <2>2. q.count - 1 \in Int
        BY <2>1 DEF PageSet
    <2>3. [q EXCEPT !.count = q.count - 1] \in PageSet
        BY <2>1, <2>2 DEF PageSet
    <2>4. /\ [q EXCEPT !.count = q.count - 1].phys = q.phys
          /\ [q EXCEPT !.count = q.count - 1].blocks = q.blocks
          /\ [q EXCEPT !.count = q.count - 1].map = q.map
        BY <2>1 DEF PageSet
    <2> QED
        BY <2>3, <2>4 DEF q
<1> HIDE DEF p
<1>4. pages \in [Handlers -> PageSet] /\ pages[g] = p /\ \A k \in Handlers : k # g => pages[k] = c.pages[k]
    BY <1>2, <1>3
<1> HIDE DEF pages
<1>5. /\ c1 \in CacheSet /\ c1.pages = pages /\ c1.h = c.h /\ c1.chain = c.chain
      /\ c1.active = c.active /\ c1.free = c.free /\ c1.used = c.used
      /\ c1.freePages = c.freePages /\ c1.code = c.code /\ c1.running = c.running
    BY <1>1, <1>4 DEF CacheSet
<1>6. \A k \in Handlers : /\ c1.pages[k].phys = c.pages[k].phys
                          /\ c1.pages[k].blocks = c.pages[k].blocks
                          /\ c1.pages[k].map = c.pages[k].map
    BY <1>3, <1>4, <1>5
<1>7. Unhit(c, g) = IF c.pages[g].blocks > 0 THEN c
                    ELSE IF c1.pages[g].count = 0 THEN Release(c1, g) ELSE c1
    <2>1. c1 = [c EXCEPT !.pages[g].count = @ - 1]
        BY DEF pages, p
    <2> QED
        BY <2>1 DEF Unhit
<1> HIDE DEF c1
<1>8. Used(c1) = Used(c) /\ HandlersOK(c1)
    BY <1>1, <1>2, <1>5, <1>6 DEF HandlersOK, Used
<1>9. PagesChanged(c, c1)
    BY <1>1, <1>2, <1>5, <1>6, <1>8 DEF PagesChanged, CountsOK
<1>10. Good(c1, None) /\ Kept(c, c1, None)
    <2>1. Good(c1, None)
        BY <1>5, <1>8, <1>9, PagesChangedKeeps
    <2> QED
        BY <1>5, <2>1, Numbers DEF Kept
<1>11. CASE c.pages[g].blocks > 0
    BY <1>7, <1>11, Numbers DEF Kept
<1>12. CASE ~(c.pages[g].blocks > 0) /\ c1.pages[g].count # 0
    BY <1>5, <1>7, <1>10, <1>12
<1>13. CASE ~(c.pages[g].blocks > 0) /\ c1.pages[g].count = 0
    <2>1. Blocks(c1, g) = {}
        <3>1. Blocks(c1, g) = Blocks(c, g)
            BY <1>5 DEF Blocks
        <3>2. Cardinality(Blocks(c, g)) = c.pages[g].blocks
            BY <1>1 DEF CountsOK
        <3>3. Cardinality(Blocks(c, g)) = 0
            BY <1>13, <3>2, FiniteBlocks
        <3> QED
            BY <3>1, <3>3, FiniteBlocks, FS_EmptySet
    <2> DEFINE d == Release(c1, g)
    <2>2. /\ Good(d, None) /\ d.h = c1.h /\ d.chain = c1.chain /\ d.active = c1.active
          /\ d.free = c1.free /\ d.code = c1.code /\ d.running = c1.running
        BY <1>8, <1>10, <2>1, ReleaseKeeps
    <2>3. Unhit(c, g) = d
        BY <1>7, <1>13
    <2> HIDE DEF d
    <2> QED
        BY <1>5, <2>2, <2>3, Numbers DEF Kept
<1> QED
    BY <1>11, <1>12, <1>13

\* A write to the byte at addr clears what was translated from it, and no other
\* block that can run.
LEMMA NoticedKeeps ==
    ASSUME NEW c, Good(c, None), NEW addr \in Addresses
    PROVE  LET d == Noticed(c, addr)
           IN  /\ Good(d, None) /\ Kept(c, d, None)
               /\ \A b \in Headers : d.h[b].page # None => addr \notin d.h[b].code
               /\ \A b \in Headers : Main(c, b) /\ addr \notin c.h[b].code => Main(d, b)
<1> DEFINE g == HandlerOf(c, addr[1])
           o == addr[2]
           d == Noticed(c, addr)
<1>1. c \in CacheSet /\ HandlersOK(c) /\ CountsOK(c) /\ PartsOK(c) /\ o \in Offsets
    BY DEF Good, Addresses
<1>2. ASSUME NEW e, Good(e, None), ~IsCode(e, addr[1]) \/ Covers(e, HandlerOf(e, addr[1]), o) = {}
      PROVE  \A b \in Headers : e.h[b].page # None => addr \notin e.h[b].code
    <2> SUFFICES ASSUME NEW b \in Headers, e.h[b].page # None, addr \in e.h[b].code PROVE FALSE
        OBVIOUS
    <2>1. /\ IsCode(e, addr[1])
          /\ \E z \in Covers(e, HandlerOf(e, addr[1]), o) : z = b \/ z = e.h[b].other
        BY <1>2, CodeIsCovered
    <2> QED
        BY <1>2, <2>1
<1>3. CASE ~IsCode(c, addr[1])
    <2>1. d = c
        BY <1>3 DEF Noticed
    <2>2. Kept(c, c, None)
        BY Numbers DEF Kept
    <2> QED
        BY <1>2, <1>3, <2>1, <2>2
<1>4. CASE IsCode(c, addr[1]) /\ c.pages[g].map[o] = 0
    <2>1. d = Unhit(c, g)
        BY <1>4 DEF Noticed
    <2>2. g \in Used(c)
        BY <1>1, <1>4, HandlerIs
    <2>3. Covers(c, g, o) = {}
        <3>1. Cardinality(Covers(c, g, o)) = 0
            BY <1>1, <1>4, <2>2 DEF CountsOK
        <3> QED
            BY <3>1, FiniteBlocks, FS_EmptySet
    <2>4. \A b \in Headers : c.h[b].page # None => addr \notin c.h[b].code
        BY <1>2, <2>3
    <2>5. Good(Unhit(c, g), None) /\ Kept(c, Unhit(c, g), None) /\ Unhit(c, g).h = c.h
        BY <2>2, UnhitKeeps
    <2> HIDE DEF d
    <2>6. Good(d, None) /\ Kept(c, d, None) /\ d.h = c.h
        BY <2>1, <2>5
    <2> QED
        BY <2>4, <2>6 DEF Main, d
<1>5. CASE IsCode(c, addr[1]) /\ c.pages[g].map[o] # 0
    <2>1. d = Invalidated(c, g, o)
        BY <1>5 DEF Noticed
    <2>2. g \in Used(c) /\ c.pages[g].phys = addr[1] /\ g \in Handlers
        BY <1>1, <1>5, HandlerIs, UsedHandlers
    <2> HIDE DEF g
    <2>3. /\ Good(Invalidated(c, g, o), None) /\ Covers(Invalidated(c, g, o), g, o) = {}
          /\ \E T \in SUBSET Headers : /\ Gone(c, Invalidated(c, g, o), T)
                                       /\ T \subseteq Whole(c, Covers(c, g, o))
        BY <1>1, <2>2, InvalidatedKeeps
    <2> HIDE DEF d
    <2>4. PICK T \in SUBSET Headers : Gone(c, d, T) /\ T \subseteq Whole(c, Covers(c, g, o))
        BY <2>1, <2>3
    <2>5. Good(d, None) /\ Covers(d, g, o) = {}
        BY <2>1, <2>3
    <2>6. Kept(c, d, None)
        <3>1. None \notin T
            BY Numbers
        <3> QED
            BY <2>4, <3>1, GoneKept
    <2>7. g \in Used(d) /\ d.pages[g].phys = addr[1]
        BY <2>2, <2>4 DEF Gone, SameLists, Used
    <2>8. HandlerOf(d, addr[1]) = g
        <3>1. HandlersOK(d) /\ IsCode(d, addr[1])
            BY <2>5, <2>7 DEF Good, IsCode
        <3> QED
            BY <2>7, <3>1, HandlerIs
    <2>9. \A b \in Headers : d.h[b].page # None => addr \notin d.h[b].code
        BY <1>2, <2>5, <2>8
    <2>10. ASSUME NEW b \in Headers, Main(c, b), addr \notin c.h[b].code
           PROVE  Main(d, b)
        <3>1. b \notin T
            <4>1. SUFFICES ASSUME b \in T PROVE FALSE
                OBVIOUS
            <4>2. PICK z \in Covers(c, g, o) : z = b \/ z = c.h[b].other
                BY <2>4, <4>1 DEF Whole
            <4>3. z \in Headers /\ c.h[z].page = g /\ o \in c.h[z].start .. c.h[z].end
                BY <4>2 DEF Covers, Blocks
            <4>4. addr = <<addr[1], o>>
                BY DEF Addresses
            <4>5. addr \in Bytes(c, z)
                BY <2>2, <4>3, <4>4 DEF Bytes
            <4>6. PartOK(c, b) /\ z # None
                BY <1>1, <4>3, Numbers DEF PartsOK
            <4>7. Bytes(c, z) \subseteq c.h[b].code
                BY <2>10, <4>2, <4>6 DEF PartOK
            <4> QED
                BY <2>10, <4>5, <4>7
        <3>2. SameHeader(d.h[b], c.h[b])
            BY <2>4, <3>1 DEF Gone
        <3> QED
            BY <2>10, <3>2 DEF Main, SameHeader
    <2> QED
        BY <2>5, <2>6, <2>9, <2>10 DEF d
<1> QED
    BY <1>3, <1>4, <1>5

---------------------------------------------------------------------------
(* Translating *)

\* The counters p of a page once it has one more block, of the bytes at
More(p, at) ==
    [p EXCEPT !.blocks = @ + 1, !.map = [o \in Offsets |-> p.map[o] + IF o \in at THEN 1 ELSE 0]]

LEMMA MoreIs ==
    ASSUME NEW p \in PageSet, NEW at
    PROVE  LET q == More(p, at)
           IN  /\ q \in PageSet /\ q.phys = p.phys /\ q.blocks = p.blocks + 1
               /\ \A o \in Offsets : q.map[o] = IF o \in at THEN p.map[o] + 1 ELSE p.map[o]
<1> DEFINE m == [o \in Offsets |-> p.map[o] + IF o \in at THEN 1 ELSE 0]
           q == [p EXCEPT !.blocks = p.blocks + 1, !.map = m]
<1>1. p.map \in [Offsets -> Int] /\ p.blocks + 1 \in Int /\ p.count \in Int
    BY DEF PageSet
<1>2. m \in [Offsets -> Int]
    BY <1>1
<1>3. \A o \in Offsets : m[o] = IF o \in at THEN p.map[o] + 1 ELSE p.map[o]
    BY <1>1
<1>4. More(p, at) = q
    BY DEF More
<1> HIDE DEF m
<1>5. q \in PageSet /\ q.phys = p.phys /\ q.blocks = p.blocks + 1 /\ q.map = m
    BY <1>1, <1>2 DEF PageSet
<1> HIDE DEF q
<1> QED
    BY <1>3, <1>4, <1>5

\* d is c once the part b, of the block m, stands for the bytes at of the page g.
PartTaken(c, d, b, m, g, start, end, index) ==
    /\ d.chain = c.chain /\ d.active = c.active /\ d.free = c.free /\ d.used = c.used
    /\ d.freePages = c.freePages /\ d.running = c.running /\ d.code = g
    /\ d.h[b].page = g /\ d.h[b].start = start /\ d.h[b].end = end /\ d.h[b].index = index
    /\ d.h[m].code = c.h[m].code \cup ({c.pages[g].phys} \X (start .. end))
    /\ \A x \in Headers : /\ d.h[x].other = c.h[x].other /\ d.h[x].at = c.h[x].at
                          /\ d.h[x].size = c.h[x].size /\ d.h[x].link = c.h[x].link
                          /\ d.h[x].fresh = c.h[x].fresh
    /\ \A x \in Headers : x # b => /\ d.h[x].page = c.h[x].page /\ d.h[x].start = c.h[x].start
                                   /\ d.h[x].end = c.h[x].end /\ d.h[x].index = c.h[x].index
    /\ \A x \in Headers : x # m => d.h[x].code = c.h[x].code
    /\ d.pages[g] = More(c.pages[g], start .. end)
    /\ \A k \in Handlers : k # g => d.pages[k] = c.pages[k]

LEMMA PartIs ==
    ASSUME NEW c \in CacheSet, NEW b \in Headers, NEW m \in Headers, NEW g \in Handlers,
           c.pages[g].phys \in Pages, NEW start \in Offsets, NEW len \in Nat \ {0},
           start + len - 1 \in Offsets, NEW index \in 0 .. PageSize
    PROVE  LET d == Part(c, b, m, g, start, len, index)
           IN  d \in CacheSet /\ PartTaken(c, d, b, m, g, start, start + len - 1, index)
<1> DEFINE end == start + len - 1
           at == start .. end
           bytes == {c.pages[g].phys} \X at
           hd == [c.h[b] EXCEPT !.page = g, !.start = start, !.end = end, !.index = index]
           p == More(c.pages[g], at)
           h == [c.h EXCEPT ![b] = hd]
           hm == [h[m] EXCEPT !.code = h[m].code \cup bytes]
           h2 == [h EXCEPT ![m] = hm]
           pages == [c.pages EXCEPT ![g] = p]
           d == [c EXCEPT !.h = h2, !.pages = pages, !.code = g]
<1>1. Part(c, b, m, g, start, len, index) = d
    BY DEF Part, More
<1>2. c.h \in [Headers -> HeaderSet] /\ c.h[b] \in HeaderSet /\ c.pages \in [Handlers -> PageSet]
      /\ c.pages[g] \in PageSet
    BY DEF CacheSet
<1>3. at \subseteq Offsets /\ bytes \subseteq Addresses
    <2>1. at \subseteq Offsets
        BY Numbers
    <2> HIDE DEF at
    <2> QED
        BY <2>1 DEF Addresses
<1>4. p \in PageSet /\ p = More(c.pages[g], at)
    BY <1>2, MoreIs
<1> HIDE DEF p, bytes
<1>5. /\ hd \in HeaderSet /\ hd.page = g /\ hd.start = start /\ hd.end = end /\ hd.index = index
      /\ hd.other = c.h[b].other /\ hd.at = c.h[b].at /\ hd.size = c.h[b].size
      /\ hd.link = c.h[b].link /\ hd.fresh = c.h[b].fresh /\ hd.code = c.h[b].code
    BY <1>2 DEF HeaderSet
<1> HIDE DEF hd
<1>6. h \in [Headers -> HeaderSet] /\ h[b] = hd /\ \A x \in Headers : x # b => h[x] = c.h[x]
    BY <1>2, <1>5
<1> HIDE DEF h
<1>7. h[m] \in HeaderSet
    BY <1>6
<1>8. /\ hm \in HeaderSet /\ hm.page = h[m].page /\ hm.start = h[m].start /\ hm.end = h[m].end
      /\ hm.index = h[m].index /\ hm.other = h[m].other /\ hm.at = h[m].at /\ hm.size = h[m].size
      /\ hm.link = h[m].link /\ hm.fresh = h[m].fresh /\ hm.code = h[m].code \cup bytes
    <2> DEFINE e == h[m]
    <2>1. e \in HeaderSet
        BY <1>7
    <2> HIDE DEF e
    <2>2. e.code \cup bytes \in SUBSET Addresses
        BY <1>3, <2>1 DEF HeaderSet
    <2> DEFINE u == e.code \cup bytes
               r == [e EXCEPT !.code = u]
    <2>3. u \in SUBSET Addresses
        BY <2>2
    <2> HIDE DEF u
    <2>4. /\ r \in HeaderSet /\ r.page = e.page /\ r.start = e.start /\ r.end = e.end
          /\ r.index = e.index /\ r.other = e.other /\ r.at = e.at /\ r.size = e.size
          /\ r.link = e.link /\ r.fresh = e.fresh /\ r.code = u
        BY <2>1, <2>3 DEF HeaderSet
    <2> QED
        BY <2>4 DEF e, u
<1> HIDE DEF hm
<1>9. h2 \in [Headers -> HeaderSet] /\ h2[m] = hm /\ \A x \in Headers : x # m => h2[x] = h[x]
    BY <1>6, <1>8
<1>10. pages \in [Handlers -> PageSet] /\ pages[g] = p /\ \A k \in Handlers : k # g => pages[k] = c.pages[k]
    BY <1>2, <1>4
<1> HIDE DEF h2, pages
<1>11. /\ d \in CacheSet /\ d.h = h2 /\ d.pages = pages /\ d.code = g /\ d.chain = c.chain
       /\ d.active = c.active /\ d.free = c.free /\ d.used = c.used
       /\ d.freePages = c.freePages /\ d.running = c.running
    BY <1>9, <1>10 DEF CacheSet
<1> HIDE DEF d
<1>12. \A x \in Headers : /\ d.h[x].other = c.h[x].other /\ d.h[x].at = c.h[x].at
                          /\ d.h[x].size = c.h[x].size /\ d.h[x].link = c.h[x].link
                          /\ d.h[x].fresh = c.h[x].fresh
    BY <1>5, <1>6, <1>8, <1>9, <1>11
<1>13. \A x \in Headers : x # b => /\ d.h[x].page = c.h[x].page /\ d.h[x].start = c.h[x].start
                                   /\ d.h[x].end = c.h[x].end /\ d.h[x].index = c.h[x].index
    BY <1>6, <1>8, <1>9, <1>11
<1>14. d.h[b].page = g /\ d.h[b].start = start /\ d.h[b].end = end /\ d.h[b].index = index
    BY <1>5, <1>6, <1>8, <1>9, <1>11
<1>15. d.h[m].code = c.h[m].code \cup bytes /\ \A x \in Headers : x # m => d.h[x].code = c.h[x].code
    BY <1>5, <1>6, <1>8, <1>9, <1>11
<1>16. d.pages[g] = More(c.pages[g], at) /\ \A k \in Handlers : k # g => d.pages[k] = c.pages[k]
    BY <1>4, <1>10, <1>11
<1>17. PartTaken(c, d, b, m, g, start, end, index)
    BY <1>11, <1>12, <1>13, <1>14, <1>15, <1>16 DEF PartTaken, bytes
<1> QED
    BY <1>1, <1>11, <1>17

\* A new part is counted.
LEMMA PartTakenCounts ==
    ASSUME NEW c \in CacheSet, NEW d \in CacheSet, NEW b \in Headers, NEW m, NEW g \in Used(c),
           NEW start, NEW end, NEW index, PartTaken(c, d, b, m, g, start, end, index),
           c.h[b].page = None, CountsOK(c), HandlersOK(c)
    PROVE  /\ CountsOK(d) /\ HandlersOK(d) /\ Used(d) = Used(c)
           /\ \A k \in Handlers : d.pages[k].phys = c.pages[k].phys
<1> DEFINE at == start .. end
<1>1. g \in Handlers /\ Used(d) = Used(c) /\ Used(c) \subseteq Handlers
    BY UsedHandlers DEF PartTaken, Used
<1>2. /\ d.pages[g] = More(c.pages[g], at) /\ \A k \in Handlers : k # g => d.pages[k] = c.pages[k]
      /\ d.h[b].page = g /\ d.h[b].start = start /\ d.h[b].end = end
      /\ \A x \in Headers : x # b => /\ d.h[x].page = c.h[x].page /\ d.h[x].start = c.h[x].start
                                     /\ d.h[x].end = c.h[x].end
    BY DEF PartTaken
<1>3. c.pages[g] \in PageSet /\ None \notin Handlers
    BY <1>1, UsedHandlers, Numbers
<1>4. /\ d.pages[g].phys = c.pages[g].phys /\ d.pages[g].blocks = c.pages[g].blocks + 1
      /\ \A o \in Offsets :
             d.pages[g].map[o] = IF o \in at THEN c.pages[g].map[o] + 1 ELSE c.pages[g].map[o]
    <2> DEFINE p == c.pages[g]
    <2>1. p \in PageSet /\ d.pages[g] = More(p, at)
        BY <1>2, <1>3
    <2> HIDE DEF p, at
    <2>2. LET q == More(p, at)
          IN  /\ q.phys = p.phys /\ q.blocks = p.blocks + 1
              /\ \A o \in Offsets : q.map[o] = IF o \in at THEN p.map[o] + 1 ELSE p.map[o]
        BY <2>1, MoreIs
    <2> QED
        BY <2>1, <2>2 DEF p
<1> HIDE DEF at
<1>5. Blocks(d, g) = Blocks(c, g) \cup {b} /\ b \notin Blocks(c, g)
    BY <1>2, <1>3, <1>1 DEF Blocks
<1>6. \A k \in Handlers : k # g => Blocks(d, k) = Blocks(c, k)
    BY <1>1, <1>2, <1>3 DEF Blocks
<1>7. ASSUME NEW o \in Offsets
      PROVE  /\ o \in at => Covers(d, g, o) = Covers(c, g, o) \cup {b} /\ b \notin Covers(c, g, o)
             /\ o \notin at => Covers(d, g, o) = Covers(c, g, o)
    BY <1>2, <1>5 DEF Covers, Blocks, at
<1>8. ASSUME NEW k \in Handlers, k # g, NEW o \in Offsets
      PROVE  Covers(d, k, o) = Covers(c, k, o)
    <2>1. Blocks(d, k) = Blocks(c, k) /\ b \notin Blocks(c, k)
        BY <1>3, <1>6, <1>8 DEF Blocks
    <2> QED
        BY <1>2, <2>1 DEF Covers, Blocks
<1>9. ASSUME NEW k \in Used(c)
      PROVE  /\ d.pages[k].blocks = Cardinality(Blocks(d, k))
             /\ \A o \in Offsets : d.pages[k].map[o] = Cardinality(Covers(d, k, o))
    <2>1. k \in Handlers /\ c.pages[k].blocks = Cardinality(Blocks(c, k))
          /\ \A o \in Offsets : c.pages[k].map[o] = Cardinality(Covers(c, k, o))
        BY <1>1 DEF CountsOK
    <2>2. CASE k # g
        BY <1>2, <1>6, <1>8, <2>1, <2>2
    <2>3. CASE k = g
        <3>1. Cardinality(Blocks(d, k)) = Cardinality(Blocks(c, k)) + 1
            BY <1>5, <2>3, OneMore, FiniteBlocks
        <3>2. ASSUME NEW o \in Offsets
              PROVE  d.pages[k].map[o] = Cardinality(Covers(d, k, o))
            <4>1. CASE o \in at
                <5>1. Cardinality(Covers(d, k, o)) = Cardinality(Covers(c, k, o)) + 1
                    BY <1>7, <2>3, <4>1, OneMore, FiniteBlocks
                <5> QED
                    BY <1>4, <2>1, <2>3, <4>1, <5>1
            <4>2. CASE o \notin at
                BY <1>4, <1>7, <2>1, <2>3, <4>2
            <4> QED
                BY <4>1, <4>2
        <3> QED
            BY <1>4, <2>1, <2>3, <3>1, <3>2
    <2> QED
        BY <2>2, <2>3
<1>10. \A x \in Headers : d.h[x].page # None => d.h[x].page \in Used(d)
    BY <1>1, <1>2 DEF CountsOK
<1>11. \A k \in Handlers : d.pages[k].phys = c.pages[k].phys
    BY <1>2, <1>4
<1>12. HandlersOK(d)
    <2>1. d.used = c.used /\ d.freePages = c.freePages
        BY DEF PartTaken
    <2> QED
        BY <1>1, <1>11, <2>1 DEF HandlersOK
<1> QED
    BY <1>1, <1>9, <1>10, <1>11, <1>12 DEF CountsOK

\* Where no block that can be linked changes, the links stay right.
SameMains(c, d, b, e) ==
    \A x \in Headers :
        /\ (x # e /\ Main(d, x)) <=> (x # b /\ Main(c, x))
        /\ x # b /\ Main(c, x) => /\ d.h[x].link = c.h[x].link /\ d.h[x].start = c.h[x].start
                                  /\ d.pages[d.h[x].page].phys = c.pages[c.h[x].page].phys

LEMMA LinksStay ==
    ASSUME NEW c \in CacheSet, NEW d, NEW b, NEW e, LinksOK(c, b), SameMains(c, d, b, e)
    PROVE  LinksOK(d, e)
<1> SUFFICES ASSUME AllNoticed, NEW x \in Headers, NEW i \in Links, x # e, Main(d, x)
             PROVE  LinkOK(d, e, x, i)
    BY DEF LinksOK
<1> DEFINE l == c.h[x].link[i]
<1>1. x # b /\ Main(c, x) /\ LinkOK(c, b, x, i) /\ d.h[x].link[i] = l
    BY DEF SameMains, LinksOK
<1>2. l \in LinkSet
    BY DEF CacheSet, HeaderSet
<1>3. l.to \in Headers \cup {None} /\ l.from \subseteq Headers
    BY <1>2 DEF LinkSet
<1>4. /\ l.to # None => /\ l.to # b /\ Main(c, l.to) /\ x \in c.h[l.to].link[i].from
                        /\ l.target = <<c.pages[c.h[l.to].page].phys, c.h[l.to].start>>
      /\ \A y \in l.from : y # b /\ Main(c, y) /\ c.h[y].link[i].to = x
    BY <1>1, Zenon DEF LinkOK
<1> HIDE DEF l
<1>5. l.to # None => /\ l.to # e /\ Main(d, l.to) /\ x \in d.h[l.to].link[i].from
                     /\ l.target = <<d.pages[d.h[l.to].page].phys, d.h[l.to].start>>
    BY <1>3, <1>4 DEF SameMains
<1>6. \A y \in l.from : y # e /\ Main(d, y) /\ d.h[y].link[i].to = x
    BY <1>3, <1>4 DEF SameMains
<1> QED
    BY <1>1, <1>5, <1>6, Zenon DEF LinkOK

\* The first part of a new block
LEMMA MainTaken ==
    ASSUME NEW c, Good(c, None), NEW d \in CacheSet, NEW b \in Headers, NEW g \in Used(c),
           NEW start \in Offsets, NEW end \in Offsets, PartTaken(c, d, b, b, g, start, end, start + 1),
           c.h[b].page = None, c.h[b].code = {}, c.h[b].fresh = TRUE, b \in ToSet(c.chain)
    PROVE  Good(d, b) /\ Main(d, b) /\ Translating(d, b)
<1>1. c \in CacheSet /\ PartsOK(c) /\ HandlersOK(c) /\ CountsOK(c) /\ PlacesOK(c) /\ LinksOK(c, None)
    BY DEF Good
<1>2. /\ CountsOK(d) /\ HandlersOK(d) /\ Used(d) = Used(c)
      /\ \A k \in Handlers : d.pages[k].phys = c.pages[k].phys
    BY <1>1, PartTakenCounts
<1>3. g \in Handlers /\ g # None /\ start \in Nat /\ b # None
    BY <1>1, UsedHandlers, Numbers
<1>4. /\ d.h[b].page = g /\ d.h[b].start = start /\ d.h[b].end = end /\ d.h[b].index = start + 1
      /\ d.h[b].code = {} \cup ({c.pages[g].phys} \X (start .. end)) /\ d.code = g
      /\ \A x \in Headers : /\ d.h[x].other = c.h[x].other /\ d.h[x].link = c.h[x].link
                            /\ d.h[x].fresh = c.h[x].fresh
      /\ \A x \in Headers : x # b => /\ d.h[x].page = c.h[x].page /\ d.h[x].start = c.h[x].start
                                     /\ d.h[x].end = c.h[x].end /\ d.h[x].index = c.h[x].index
                                     /\ d.h[x].code = c.h[x].code
    BY DEF PartTaken
<1>5. /\ Main(d, b) /\ ~Cross(d, b) /\ ~Main(c, b) /\ ~Cross(c, b)
      /\ \A x \in Headers : x # b => (Main(d, x) <=> Main(c, x)) /\ (Cross(d, x) <=> Cross(c, x))
    BY <1>3, <1>4 DEF Main, Cross
<1>6. ASSUME NEW x \in Headers, x # b, c.h[x].page # None
      PROVE  Bytes(d, x) = Bytes(c, x) /\ d.pages[d.h[x].page].phys = c.pages[c.h[x].page].phys
    <2>1. c.h[x].page \in Handlers
        BY <1>1, <1>6, Types
    <2> QED
        BY <1>2, <1>4, <1>6, <2>1 DEF Bytes
<1>7. c.h[b].other = None
    BY <1>1 DEF PartsOK, PartOK
<1>8. PartsOK(d)
    <2> SUFFICES ASSUME NEW x \in Headers PROVE PartOK(d, x)
        BY DEF PartsOK
    <2>1. CASE x = b
        <3>1. d.h[b].code = Bytes(d, b)
            BY <1>2, <1>3, <1>4 DEF Bytes
        <3> QED
            BY <1>3, <1>4, <1>5, <1>7, <2>1, <3>1 DEF PartOK
    <2>2. CASE x # b
        <3> DEFINE y == c.h[x].other
        <3>1. PartOK(c, x)
            BY <1>1 DEF PartsOK
        <3>2. CASE y = None
            BY <1>4, <1>5, <1>6, <2>2, <3>1, <3>2 DEF PartOK, Main, Cross
        <3>3. CASE y # None
            <4>1. y \in Headers /\ c.h[y].page # None /\ y # b /\ c.h[x].page # None
                BY <1>1, <3>3, OtherPart
            <4>2. Bytes(d, x) = Bytes(c, x) /\ Bytes(d, y) = Bytes(c, y)
                BY <1>6, <2>2, <4>1
            <4>3. /\ Main(d, x) <=> Main(c, x)
                  /\ Cross(d, x) <=> Cross(c, x)
                  /\ Main(d, y) <=> Main(c, y)
                  /\ Cross(d, y) <=> Cross(c, y)
                BY <1>5, <2>2, <4>1
            <4> QED
                BY <1>4, <2>2, <3>1, <3>3, <4>1, <4>2, <4>3 DEF PartOK
        <3> QED
            BY <3>2, <3>3
    <2> QED
        BY <2>1, <2>2
<1>9. PlacesOK(d)
    <2>1. d.chain = c.chain /\ d.active = c.active /\ d.free = c.free
        BY DEF PartTaken
    <2> QED
        BY <1>1, <1>5, <2>1 DEF PlacesOK
<1>10. LinksOK(d, b)
    <2>1. SameMains(c, d, None, b)
        <3>1. \A x \in Headers : (x # b /\ Main(d, x)) <=> (x # None /\ Main(c, x))
            BY <1>5, Numbers
        <3>2. \A x \in Headers : Main(c, x) => x # b /\ c.h[x].page # None
            BY <1>5 DEF Main
        <3> QED
            BY <1>4, <1>6, <3>1, <3>2 DEF SameMains
    <2> QED
        BY <1>1, <2>1, LinksStay
<1> QED
    BY <1>2, <1>4, <1>5, <1>7, <1>8, <1>9, <1>10 DEF Good, Translating

\* A header is taken for the second part of b.
Taken(c, x, b) == Header([c EXCEPT !.free = @ \ {x}, !.h[x] = [Blank EXCEPT !.other = b]], b, "other", x)

LEMMA TakenIs ==
    ASSUME NEW c \in CacheSet, NEW x \in Headers, NEW b \in Headers, x # b
    PROVE  LET d == Taken(c, x, b)
           IN  /\ d \in CacheSet /\ SameLists(c, d) /\ d.free = c.free \ {x} /\ d.pages = c.pages
               /\ d.h[x] = [Blank EXCEPT !.other = b] /\ d.h[b] = [c.h[b] EXCEPT !.other = x]
               /\ \A y \in Headers : y # x /\ y # b => d.h[y] = c.h[y]
<1> DEFINE e == [Blank EXCEPT !.other = b]
           c1 == [c EXCEPT !.free = @ \ {x}]
           c2 == WithHeader(c1, x, e)
           hb == [c2.h[b] EXCEPT !.other = x]
           d == WithHeader(c2, b, hb)
<1>1. c1 \in CacheSet /\ SameLists(c, c1) /\ c1.free = c.free \ {x} /\ c1.pages = c.pages /\ c1.h = c.h
    BY DEF CacheSet, SameLists
<1>2. e \in HeaderSet
    BY BlankHeader DEF HeaderSet
<1>3. Taken(c, x, b) = d
    <2>1. [c EXCEPT !.free = @ \ {x}, !.h[x] = e] = c2
        BY DEF WithHeader
    <2> QED
        BY <2>1 DEF Taken, Header, WithHeader
<1> HIDE DEF c1, e
<1>4. /\ c2 \in CacheSet /\ SameLists(c1, c2) /\ c2.free = c1.free /\ c2.pages = c1.pages
      /\ c2.h[x] = e /\ \A y \in Headers : y # x => c2.h[y] = c1.h[y]
    BY <1>1, <1>2, HeaderIs
<1> HIDE DEF c2
<1>5. hb \in HeaderSet
    <2>1. c2.h[b] \in HeaderSet
        BY <1>4 DEF CacheSet
    <2> QED
        BY <2>1 DEF HeaderSet
<1>6. hb = [c.h[b] EXCEPT !.other = x]
    BY <1>1, <1>4
<1> HIDE DEF hb
<1>7. /\ d \in CacheSet /\ SameLists(c2, d) /\ d.free = c2.free /\ d.pages = c2.pages
      /\ d.h[b] = hb /\ \A y \in Headers : y # b => d.h[y] = c2.h[y]
    BY <1>4, <1>5, HeaderIs
<1> HIDE DEF d
<1>8. SameLists(c, d)
    BY <1>1, <1>4, <1>7 DEF SameLists
<1> QED
    BY <1>1, <1>3, <1>4, <1>6, <1>7, <1>8 DEF e

\* The second part of a block
LEMMA CrossTaken ==
    ASSUME NEW c, NEW b \in Headers, Good(c, b), Translating(c, b), NEW p \in Pages, IsCode(c, p),
           c.pages[c.h[b].page].phys # p, NEW x \in c.free, NEW len \in 1 .. PageSize
    PROVE  LET c2 == Taken(c, x, b)
               d == Part(c2, x, b, HandlerOf(c2, p), 0, len, 0)
           IN  /\ Good(d, b) /\ Main(d, b) /\ d.free = c.free \ {x} /\ d.chain = c.chain
               /\ d.active = c.active /\ d.running = c.running
               /\ \A y \in ToSet(c.chain) : d.h[y].at = c.h[y].at /\ d.h[y].size = c.h[y].size
<1> DEFINE c2 == Taken(c, x, b)
           g == HandlerOf(c2, p)
           d == Part(c2, x, b, g, 0, len, 0)
<1>1. c \in CacheSet /\ PartsOK(c) /\ HandlersOK(c) /\ CountsOK(c) /\ PlacesOK(c) /\ LinksOK(c, b)
    BY DEF Good
<1>2. /\ Main(c, b) /\ c.h[b].other = None /\ c.h[b].page # None /\ b # None
      /\ x \in Headers /\ x # None
    BY <1>1, Numbers DEF Translating, Main, CacheSet
<1>3. c.h[x].page = None /\ ~Main(c, x) /\ ~Cross(c, x) /\ x # b
    <2>1. c.h[x].index \in Nat
        BY <1>1, <1>2, Types
    <2>2. ~Main(c, x) /\ ~Cross(c, x)
        BY <1>1, <1>2 DEF PlacesOK
    <2> QED
        BY <1>2, <2>1, <2>2 DEF Main, Cross
<1>4. /\ c2 \in CacheSet /\ SameLists(c, c2) /\ c2.free = c.free \ {x} /\ c2.pages = c.pages
      /\ c2.h[x] = [Blank EXCEPT !.other = b] /\ c2.h[b] = [c.h[b] EXCEPT !.other = x]
      /\ \A y \in Headers : y # x /\ y # b => c2.h[y] = c.h[y]
    BY <1>1, <1>2, <1>3, TakenIs
<1> HIDE DEF c2
<1>5. /\ c2.h[x].page = None /\ c2.h[x].other = b /\ c2.h[x].code = {} /\ c2.h[x].fresh = TRUE
      /\ c2.h[b].other = x
    <2>1. c.h[b] \in HeaderSet
        BY <1>1, Types
    <2> QED
        BY <1>4, <2>1 DEF Blank, HeaderSet
<1>6. /\ c2.h[b].page = c.h[b].page /\ c2.h[b].start = c.h[b].start /\ c2.h[b].end = c.h[b].end
      /\ c2.h[b].index = c.h[b].index /\ c2.h[b].code = c.h[b].code /\ c2.h[b].fresh = c.h[b].fresh
      /\ c2.h[b].at = c.h[b].at /\ c2.h[b].size = c.h[b].size /\ c2.h[b].link = c.h[b].link
    <2>1. c.h[b] \in HeaderSet
        BY <1>1, Types
    <2> QED
        BY <1>4, <2>1 DEF HeaderSet
<1>7. Used(c2) = Used(c) /\ HandlersOK(c2) /\ IsCode(c2, p) /\ CountsOK(c2)
    <2>1. c2.used = c.used /\ c2.freePages = c.freePages /\ c2.pages = c.pages
        BY <1>4 DEF SameLists
    <2>2. Used(c2) = Used(c)
        BY <2>1 DEF Used
    <2>3. HandlersOK(c2) /\ IsCode(c2, p)
        BY <1>1, <2>1, <2>2 DEF HandlersOK, IsCode
    <2>4. \A y \in Headers : /\ c2.h[y].page = c.h[y].page
                             /\ y # x => c2.h[y].start = c.h[y].start /\ c2.h[y].end = c.h[y].end
        <3>1. c2.h[x].page = c.h[x].page
            BY <1>3, <1>5
        <3>2. \A y \in Headers : y # x /\ y # b => c2.h[y] = c.h[y]
            BY <1>4
        <3> QED
            BY <1>6, <3>1, <3>2
    <2>5. ASSUME NEW k \in Used(c)
          PROVE  Blocks(c2, k) = Blocks(c, k) /\ \A o : Covers(c2, k, o) = Covers(c, k, o)
        <3>1. x \notin Blocks(c, k)
            BY <1>1, <1>3, UsedHandlers, Numbers DEF Blocks
        <3> QED
            BY <2>4, <3>1 DEF Blocks, Covers
    <2>6. CountsOK(c2)
        BY <1>1, <2>1, <2>2, <2>4, <2>5 DEF CountsOK
    <2> QED
        BY <2>2, <2>3, <2>6
<1>8. g \in Used(c2) /\ c2.pages[g].phys = p /\ g \in Handlers /\ g # None
    BY <1>1, <1>7, HandlerIs, UsedHandlers, Numbers
<1> HIDE DEF g
<1>9. 0 \in Offsets /\ len \in Nat \ {0} /\ 0 + len - 1 = len - 1 /\ len - 1 \in Offsets /\ 0 \in 0 .. PageSize
    BY Numbers
<1>10. d \in CacheSet /\ PartTaken(c2, d, x, b, g, 0, len - 1, 0)
    <2>1. d \in CacheSet /\ PartTaken(c2, d, x, b, g, 0, 0 + len - 1, 0)
        BY <1>2, <1>4, <1>8, <1>9, PartIs
    <2> QED
        BY <1>9, <2>1
<1> HIDE DEF d
<1>11. /\ CountsOK(d) /\ HandlersOK(d) /\ Used(d) = Used(c2)
       /\ \A k \in Handlers : d.pages[k].phys = c.pages[k].phys
    <2>1. /\ CountsOK(d) /\ HandlersOK(d) /\ Used(d) = Used(c2)
          /\ \A k \in Handlers : d.pages[k].phys = c2.pages[k].phys
        <3>1. /\ c2 \in CacheSet /\ x \in Headers /\ g \in Used(c2) /\ c2.h[x].page = None
              /\ CountsOK(c2) /\ HandlersOK(c2)
            BY <1>2, <1>4, <1>5, <1>7, <1>8
        <3> QED
            BY <1>10, <3>1, PartTakenCounts
    <2> QED
        BY <1>4, <2>1
<1>12. /\ d.h[x].page = g /\ d.h[x].start = 0 /\ d.h[x].end = len - 1 /\ d.h[x].index = 0
       /\ d.h[x].other = b /\ d.h[x].code = {} /\ d.h[x].fresh = TRUE
    BY <1>2, <1>3, <1>5, <1>10 DEF PartTaken
<1>13. /\ d.h[b].page = c.h[b].page /\ d.h[b].start = c.h[b].start /\ d.h[b].end = c.h[b].end
       /\ d.h[b].index = c.h[b].index /\ d.h[b].fresh = c.h[b].fresh /\ d.h[b].other = x
       /\ d.h[b].at = c.h[b].at /\ d.h[b].size = c.h[b].size
       /\ d.h[b].code = c.h[b].code \cup ({p} \X (0 .. len - 1))
    BY <1>3, <1>5, <1>6, <1>8, <1>10 DEF PartTaken
<1>14. \A y \in Headers : y # x /\ y # b => SameHeader(d.h[y], c.h[y])
    BY <1>4, <1>10 DEF PartTaken, SameHeader
<1>15. \A y \in Headers : y # x => d.h[y].link = c.h[y].link
    <2>1. \A y \in Headers : d.h[y].link = c2.h[y].link
        BY <1>10 DEF PartTaken
    <2>2. \A y \in Headers : y # x /\ y # b => c2.h[y].link = c.h[y].link
        BY <1>4
    <2> QED
        BY <1>6, <2>1, <2>2
<1>16. /\ \A y \in Headers : Main(d, y) <=> Main(c, y)
       /\ \A y \in Headers : Cross(d, y) <=> Cross(c, y) \/ y = x
    BY <1>3, <1>8, <1>12, <1>13, <1>14 DEF Main, Cross, SameHeader
<1>17. ASSUME NEW y \in Headers, y # x, c.h[y].page # None
       PROVE  /\ Bytes(d, y) = Bytes(c, y) /\ d.h[y].start = c.h[y].start
              /\ d.pages[d.h[y].page].phys = c.pages[c.h[y].page].phys
    <2>1. c.h[y].page \in Handlers
        BY <1>1, <1>17, Types
    <2>2. d.h[y].page = c.h[y].page /\ d.h[y].start = c.h[y].start /\ d.h[y].end = c.h[y].end
        BY <1>13, <1>14, <1>17 DEF SameHeader
    <2> QED
        BY <1>11, <2>1, <2>2 DEF Bytes
<1>18. PartsOK(d)
    <2> SUFFICES ASSUME NEW y \in Headers PROVE PartOK(d, y)
        BY DEF PartsOK
    <2>1. CASE y = b
        <3>1. Bytes(d, x) = {p} \X (0 .. len - 1)
            BY <1>4, <1>8, <1>11, <1>12 DEF Bytes
        <3>2. PartOK(c, b)
            BY <1>1 DEF PartsOK
        <3>3. d.h[b].code = Bytes(d, b) \cup Bytes(d, x)
            BY <1>2, <1>3, <1>13, <1>17, <3>1, <3>2 DEF PartOK
        <3>4. c.h[b].page # g
            BY <1>4, <1>8
        <3>5. /\ Main(d, b) /\ ~Cross(d, b) /\ Cross(d, x) /\ d.h[b].index = d.h[b].start + 1
              /\ d.h[b].fresh = TRUE
            BY <1>2, <1>13, <1>16, <3>2 DEF PartOK, Main, Cross
        <3> QED
            BY <1>2, <1>12, <1>13, <2>1, <3>3, <3>4, <3>5 DEF PartOK
    <2>2. CASE y = x
        <3>1. Main(d, b) /\ ~Main(d, x)
            BY <1>2, <1>3, <1>16
        <3> QED
            BY <1>2, <1>8, <1>12, <1>13, <2>2, <3>1 DEF PartOK
    <2>3. CASE y # b /\ y # x
        <3> DEFINE z == c.h[y].other
        <3>1. PartOK(c, y) /\ SameHeader(d.h[y], c.h[y])
            BY <1>1, <1>14, <2>3 DEF PartsOK
        <3>2. CASE z = None
            <4>1. /\ Main(d, y) <=> Main(c, y)
                  /\ Cross(d, y) <=> Cross(c, y)
                BY <1>16, <2>3
            <4>2. Main(c, y) => Bytes(d, y) = Bytes(c, y)
                BY <1>17, <2>3 DEF Main
            <4> QED
                BY <3>1, <3>2, <4>1, <4>2 DEF PartOK, SameHeader
        <3>3. CASE z # None
            <4>1. z \in Headers /\ c.h[z].page # None /\ c.h[z].other = y /\ c.h[y].page # None
                BY <1>1, <3>3, OtherPart
            <4>2. z # b /\ z # x
                BY <1>2, <1>3, <4>1, <2>3, Numbers
            <4>3. Bytes(d, y) = Bytes(c, y) /\ Bytes(d, z) = Bytes(c, z)
                BY <1>17, <2>3, <4>1, <4>2
            <4>4. /\ Main(d, y) <=> Main(c, y)
                  /\ Cross(d, y) <=> Cross(c, y)
                  /\ Main(d, z) <=> Main(c, z)
                  /\ Cross(d, z) <=> Cross(c, z)
                BY <1>16, <2>3, <4>1, <4>2
            <4>5. SameHeader(d.h[z], c.h[z])
                BY <1>14, <4>1, <4>2
            <4> QED
                BY <3>1, <3>3, <4>3, <4>4, <4>5, Zenon DEF PartOK, SameHeader
        <3> QED
            BY <3>2, <3>3
    <2> QED
        BY <2>1, <2>2, <2>3
<1>19. d.chain = c.chain /\ d.active = c.active /\ d.free = c.free \ {x} /\ d.running = c.running
    BY <1>4, <1>10 DEF PartTaken, SameLists
<1>20. PlacesOK(d)
    BY <1>1, <1>2, <1>16, <1>19 DEF PlacesOK
<1>21. LinksOK(d, b)
    <2>1. SameMains(c, d, b, b)
        <3>1. \A y \in Headers : Main(c, y) => y # x /\ c.h[y].page # None
            BY <1>3 DEF Main
        <3> QED
            BY <1>15, <1>16, <1>17, <3>1 DEF SameMains
    <2> QED
        BY <1>1, <2>1, LinksStay
<1>22. \A y \in ToSet(c.chain) : d.h[y].at = c.h[y].at /\ d.h[y].size = c.h[y].size
    <2>1. \A y \in ToSet(c.chain) : y \in Headers /\ y # x
        <3>1. ToSet(c.chain) \subseteq Headers
            BY <1>1 DEF CacheSet, ToSet
        <3> QED
            BY <1>1, <3>1 DEF PlacesOK
    <2> QED
        BY <1>13, <1>14, <2>1 DEF SameHeader
<1>23. Good(d, b) /\ Main(d, b)
    BY <1>2, <1>10, <1>11, <1>16, <1>18, <1>20, <1>21 DEF Good
<1> QED
    BY <1>19, <1>22, <1>23 DEF d, g, c2

LEMMA CrossedKeeps ==
    ASSUME NEW c, NEW b \in Headers, Good(c, b), Translating(c, b), NEW p \in Pages,
           c.pages[c.h[b].page].phys # p, NEW len \in 1 .. PageSize,
           NEW u \in c.free, NEW v \in c.free, u # v
    PROVE  LET d == Crossed(c, b, p, len)
           IN  /\ Good(d, b) /\ Main(d, b) /\ d.free # {} /\ d.chain = c.chain
               /\ d.active = c.active /\ d.running = c.running
               /\ \A y \in ToSet(c.chain) : d.h[y].at = c.h[y].at /\ d.h[y].size = c.h[y].size
<1> DEFINE c1 == MakePage(c, p)
           x == Min(c1.free)
           c2 == Taken(c1, x, b)
           d == Part(c2, x, b, HandlerOf(c2, p), 0, len, 0)
<1>1. Crossed(c, b, p, len) = d
    BY DEF Crossed, Taken
<1>2. b # None
    BY Numbers
<1>3. /\ Good(c1, b) /\ Kept(c, c1, b) /\ IsCode(c1, p)
      /\ c1.pages[c1.h[b].page].phys = c.pages[c.h[b].page].phys
    BY <1>2, MakePageKeeps
<1> HIDE DEF c1
<1>4. Translating(c1, b)
    BY <1>3 DEF Kept, Translating, Main, SameHeader
<1>5. x \in c1.free
    <2>1. c1.free \in SUBSET Nat /\ c1.free # {}
        <3>1. c1.free \subseteq Headers
            BY <1>3 DEF Good, CacheSet
        <3> QED
            BY <1>3, <3>1, Numbers DEF Kept
    <2> QED
        BY <2>1, SmallestIsMember
<1> HIDE DEF x
<1>6. /\ Good(d, b) /\ Main(d, b) /\ d.free = c1.free \ {x} /\ d.chain = c1.chain
      /\ d.active = c1.active /\ d.running = c1.running
      /\ \A y \in ToSet(c1.chain) : d.h[y].at = c1.h[y].at /\ d.h[y].size = c1.h[y].size
    BY <1>3, <1>4, <1>5, CrossTaken
<1> HIDE DEF d
<1>7. d.free # {}
    BY <1>3, <1>6 DEF Kept
<1>8. c1.chain = c.chain /\ c1.active = c.active /\ c1.running = c.running
    BY <1>3 DEF Kept
<1>9. \A y \in ToSet(c.chain) : d.h[y].at = c.h[y].at /\ d.h[y].size = c.h[y].size
    <2>1. ToSet(c.chain) \subseteq Headers
        BY DEF Good, CacheSet, ToSet
    <2> QED
        BY <1>3, <1>6, <1>8, <2>1 DEF Kept
<1> QED
    BY <1>1, <1>6, <1>7, <1>8, <1>9

---------------------------------------------------------------------------
(* The memory of the cache *)

\* d differs from c in headers that no translated code has, and in their places.
SameBlock(h, g) ==
    /\ h.page = g.page /\ h.start = g.start /\ h.end = g.end /\ h.index = g.index
    /\ h.other = g.other /\ h.code = g.code /\ h.fresh = g.fresh /\ h.link = g.link

DeadChanged(c, d) ==
    /\ d.used = c.used /\ d.freePages = c.freePages /\ d.pages = c.pages
    /\ \A x \in Headers : IF c.h[x].page = None THEN d.h[x].page = None /\ d.h[x].other = None
                          ELSE SameBlock(d.h[x], c.h[x])

LEMMA DeadChangedKeeps ==
    ASSUME NEW c, Good(c, None), NEW d \in CacheSet, DeadChanged(c, d), PlacesOK(d)
    PROVE  Good(d, None)
<1>1. c \in CacheSet /\ PartsOK(c) /\ HandlersOK(c) /\ CountsOK(c) /\ LinksOK(c, None)
    BY DEF Good
<1>2. /\ d.used = c.used /\ d.freePages = c.freePages /\ d.pages = c.pages
      /\ \A x \in Headers : d.h[x].page = c.h[x].page
      /\ \A x \in Headers : c.h[x].page = None => d.h[x].other = None
      /\ \A x \in Headers : c.h[x].page # None => SameBlock(d.h[x], c.h[x])
    BY DEF DeadChanged, SameBlock
<1>3. /\ \A x \in Headers : Main(d, x) <=> Main(c, x)
      /\ \A x \in Headers : Cross(d, x) <=> Cross(c, x)
    BY <1>2 DEF Main, Cross, SameBlock
<1>4. ASSUME NEW x \in Headers, c.h[x].page # None
      PROVE  Bytes(d, x) = Bytes(c, x)
    BY <1>2, <1>4 DEF Bytes, SameBlock
<1>5. PartsOK(d)
    <2> SUFFICES ASSUME NEW x \in Headers PROVE PartOK(d, x)
        BY DEF PartsOK
    <2>1. CASE c.h[x].page = None
        BY <1>2, <2>1 DEF PartOK, Main, Cross
    <2>2. CASE c.h[x].page # None
        <3> DEFINE y == c.h[x].other
        <3>1. PartOK(c, x) /\ SameBlock(d.h[x], c.h[x]) /\ Bytes(d, x) = Bytes(c, x)
            BY <1>1, <1>2, <1>4, <2>2 DEF PartsOK
        <3>2. /\ Main(d, x) <=> Main(c, x)
              /\ Cross(d, x) <=> Cross(c, x)
            BY <1>3
        <3>3. CASE y = None
            BY <3>1, <3>2, <3>3 DEF PartOK, SameBlock
        <3>4. CASE y # None
            <4>1. y \in Headers /\ c.h[y].page # None
                BY <1>1, <3>4, OtherPart
            <4>2. SameBlock(d.h[y], c.h[y]) /\ Bytes(d, y) = Bytes(c, y)
                BY <1>2, <1>4, <4>1
            <4>3. /\ Main(d, y) <=> Main(c, y)
                  /\ Cross(d, y) <=> Cross(c, y)
                BY <1>3, <4>1
            <4> QED
                BY <3>1, <3>2, <3>4, <4>2, <4>3 DEF PartOK, SameBlock
        <3> QED
            BY <3>3, <3>4
    <2> QED
        BY <2>1, <2>2
<1>6. Used(d) = Used(c)
    BY <1>2 DEF Used
<1>7. HandlersOK(d)
    BY <1>1, <1>2, <1>6 DEF HandlersOK
<1>8. CountsOK(d)
    <2>1. ASSUME NEW k \in Used(c)
          PROVE  Blocks(d, k) = Blocks(c, k) /\ \A o : Covers(d, k, o) = Covers(c, k, o)
        <3>1. Blocks(d, k) = Blocks(c, k) /\ \A x \in Blocks(c, k) : x \in Headers /\ c.h[x].page # None
            BY <1>1, <1>2, UsedHandlers, Numbers DEF Blocks
        <3> QED
            BY <1>2, <3>1 DEF Covers, SameBlock
    <2> QED
        BY <1>1, <1>2, <1>6, <2>1 DEF CountsOK
<1>9. LinksOK(d, None)
    <2>1. SameMains(c, d, None, None)
        BY <1>2, <1>3 DEF SameMains, SameBlock, Main
    <2> QED
        BY <1>1, <2>1, LinksStay
<1> QED
    BY <1>5, <1>7, <1>8, <1>9 DEF Good

\* The places behind the active one, the memory up to their ends, and the first
\* of them at which the largest block has room
Ahead(c, k) == c.h[c.chain[c.active + k]]
Span(c, k) == Ahead(c, k).at + Ahead(c, k).size - Ahead(c, 0).at

LEMMA SizesAre ==
    ASSUME NEW c \in CacheSet, Tiled(c), c.active \in 1 .. Len(c.chain), NEW last,
           last = Len(c.chain) - c.active, NEW size,
           size = CHOOSE f : f = [k \in 0 .. last |->
                                     Ahead(c, k).size + IF k = 0 THEN 0 ELSE f[k - 1]]
    PROVE  /\ last \in Nat /\ \A k \in 0 .. last : size[k] = Span(c, k) /\ Span(c, k) \in Nat
           /\ Ahead(c, 0).at \in Nat
           /\ Ahead(c, 0).at + Span(c, last) = Total
           /\ \A k \in 0 .. last : k # last =>
                  Ahead(c, 0).at + Span(c, k) = Ahead(c, k + 1).at
           /\ Span(c, last) >= MaxSize
<1>1. c.chain \in Seq(Headers) /\ Len(c.chain) \in Nat /\ c.active \in Nat /\ c.active >= 1
      /\ c.active <= Len(c.chain) /\ last \in Nat /\ MaxSize \in Nat /\ Total \in Nat
    BY SizesAssumption DEF CacheSet
<1>2. ASSUME NEW k \in 0 .. last
      PROVE  /\ Ahead(c, k).at \in Nat /\ Ahead(c, k).size \in Nat
             /\ k # last => Ahead(c, k).at + Ahead(c, k).size = Ahead(c, k + 1).at
             /\ k = last => Ahead(c, k).at + Ahead(c, k).size = Total
    <2>1. c.active + k \in 1 .. Len(c.chain) /\ (k = last <=> c.active + k = Len(c.chain))
          /\ (c.active + k) + 1 = c.active + (k + 1)
        BY <1>1
    <2>2. c.chain[c.active + k] \in Headers
        BY <1>1, <2>1
    <2>3. TileOK(c, c.active + k)
        BY <2>1 DEF Tiled
    <2> QED
        BY <2>1, <2>2, <2>3, Types DEF TileOK, Ahead
<1> DEFINE Rec(f) == f = [k \in 0 .. last |-> Ahead(c, k).size + IF k = 0 THEN 0 ELSE f[k - 1]]
           g == [k \in 0 .. last |-> Span(c, k)]
           start == Ahead(c, 0).at
<1>3. 0 \in 0 .. last /\ c.active + 0 = c.active /\ start \in Nat
    <2>1. 0 \in 0 .. last /\ c.active + 0 = c.active
        BY <1>1
    <2> QED
        BY <1>2, <2>1
<1>4. ASSUME NEW k \in 0 .. last
      PROVE  /\ Span(c, k) \in Int
             /\ Span(c, k) = Ahead(c, k).size + IF k = 0 THEN 0 ELSE Span(c, k - 1)
    <2>1. k # 0 => k - 1 \in 0 .. last /\ k - 1 # last /\ (k - 1) + 1 = k
        BY <1>1
    <2>2. k # 0 => Ahead(c, k - 1).at + Ahead(c, k - 1).size = Ahead(c, k).at
        BY <1>2, <2>1
    <2>3. k # 0 => Ahead(c, k - 1).at \in Nat /\ Ahead(c, k - 1).size \in Nat
        BY <1>2, <2>1
    <2>4. Ahead(c, k).at \in Nat /\ Ahead(c, k).size \in Nat /\ start \in Nat
        BY <1>2, <1>3
    <2>5. CASE k = 0
        BY <2>4, <2>5 DEF Span
    <2>6. CASE k # 0
        <3>1. Span(c, k) = Ahead(c, k).at + Ahead(c, k).size - start
            BY DEF Span
        <3>2. Span(c, k - 1) = Ahead(c, k - 1).at + Ahead(c, k - 1).size - start
            BY DEF Span
        <3>3. /\ Ahead(c, k - 1).at + Ahead(c, k - 1).size = Ahead(c, k).at
              /\ Ahead(c, k - 1).at \in Nat /\ Ahead(c, k - 1).size \in Nat
            BY <2>2, <2>3, <2>6
        <3>4. Span(c, k - 1) = Ahead(c, k).at - start
            BY <2>4, <3>2, <3>3
        <3> HIDE DEF start
        <3>5. Span(c, k) = Ahead(c, k).size + Span(c, k - 1) /\ Span(c, k) \in Int
            BY <2>4, <3>1, <3>4
        <3> QED
            BY <2>6, <3>5
    <2> QED
        BY <2>5, <2>6
<1>5. Rec(g)
    <2>1. ASSUME NEW k \in 0 .. last PROVE k # 0 => g[k - 1] = Span(c, k - 1)
        <3>1. k # 0 => k - 1 \in 0 .. last
            BY <1>1
        <3> QED
            BY <3>1
    <2>2. \A k \in 0 .. last : g[k] = Ahead(c, k).size + IF k = 0 THEN 0 ELSE g[k - 1]
        <3> SUFFICES ASSUME NEW k \in 0 .. last
                     PROVE  g[k] = Ahead(c, k).size + IF k = 0 THEN 0 ELSE g[k - 1]
            OBVIOUS
        <3>1. g[k] = Span(c, k) /\ (k # 0 => g[k - 1] = Span(c, k - 1))
            BY <2>1
        <3> HIDE DEF g
        <3> QED
            BY <1>4, <3>1
    <2>3. g = [k \in 0 .. last |-> g[k]]
        OBVIOUS
    <2> HIDE DEF g
    <2> QED
        BY <2>2, <2>3
<1>6. Rec(size)
    <2>1. \E f : Rec(f)
        BY <1>5
    <2>2. size = CHOOSE f : Rec(f)
        OBVIOUS
    <2> HIDE DEF Rec
    <2> QED
        BY <2>1, <2>2
<1>7. \A k \in 0 .. last : size[k] = Span(c, k)
    <2> DEFINE S == {k \in Nat : k <= last /\ size[k] # Span(c, k)}
    <2>1. S = {}
        <3>1. SUFFICES ASSUME S # {} PROVE FALSE
            OBVIOUS
        <3>2. S \in SUBSET Nat
            OBVIOUS
        <3> HIDE DEF S
        <3>3. PICK n \in S : n - 1 \notin S /\ (n = 0 \/ n - 1 \in Nat)
            BY <3>1, <3>2, FirstFailure
        <3>4. n \in 0 .. last /\ size[n] # Span(c, n)
            BY <1>1, <3>3 DEF S
        <3>5. size[n] = Ahead(c, n).size + IF n = 0 THEN 0 ELSE size[n - 1]
            BY <1>6, <3>4
        <3>6. n # 0 => n - 1 \in Nat /\ n - 1 <= last
            BY <1>1, <3>3, <3>4
        <3>7. n # 0 => size[n - 1] = Span(c, n - 1)
            BY <3>3, <3>6 DEF S
        <3> QED
            BY <1>4, <3>4, <3>5, <3>7
    <2> QED
        BY <1>1, <2>1
<1>8. ASSUME NEW k \in 0 .. last
      PROVE  /\ Span(c, k) \in Int /\ (k # last => start + Span(c, k) = Ahead(c, k + 1).at)
             /\ (k = last => start + Span(c, k) = Total)
    BY <1>2, <1>3, <1>4 DEF Span
<1>9. last \in 0 .. last /\ Span(c, last) >= MaxSize
    <2>1. last \in 0 .. last
        BY <1>1
    <2>2. start + MaxSize <= Total
        BY <1>3 DEF Tiled, Ahead
    <2>3. start + Span(c, last) = Total /\ Span(c, last) \in Int
        BY <1>8, <2>1
    <2> QED
        BY <1>1, <1>3, <2>1, <2>2, <2>3
<1>10. \A k \in 0 .. last : Span(c, k) \in Nat
    <2> DEFINE S == {k \in Nat : k <= last /\ ~(Span(c, k) \in Nat)}
    <2>1. S = {}
        <3>1. SUFFICES ASSUME S # {} PROVE FALSE
            OBVIOUS
        <3>2. S \in SUBSET Nat
            OBVIOUS
        <3> HIDE DEF S
        <3>3. PICK n \in S : n - 1 \notin S /\ (n = 0 \/ n - 1 \in Nat)
            BY <3>1, <3>2, FirstFailure
        <3>4. n \in 0 .. last /\ ~(Span(c, n) \in Nat)
            BY <1>1, <3>3 DEF S
        <3>5. n # 0 => n - 1 \in Nat /\ n - 1 <= last
            BY <1>1, <3>3, <3>4
        <3>6. n # 0 => Span(c, n - 1) \in Nat
            BY <3>3, <3>5 DEF S
        <3>7. Ahead(c, n).size \in Nat
            BY <1>2, <3>4
        <3> QED
            BY <1>4, <3>4, <3>6, <3>7
    <2> QED
        BY <1>1, <2>1
<1> QED
    BY <1>1, <1>3, <1>7, <1>8, <1>9, <1>10

LEMMA RestOf ==
    ASSUME NEW S, NEW s \in Seq(S), NEW p \in 1 .. Len(s) + 1
    PROVE  LET t == SubSeq(s, p, Len(s))
           IN  /\ t \in Seq(S) /\ Len(t) = Len(s) - p + 1
               /\ \A i \in 1 .. Len(s) - p + 1 : t[i] = s[p + i - 1]
    OBVIOUS

\* The n headers behind the place a leave the chain.
CutAt(s, a, n) == SubSeq(s, 1, a) \o SubSeq(s, a + n + 1, Len(s))

IsCut(t, s, a, n, S) ==
    /\ t \in Seq(S) /\ Len(t) = Len(s) - n /\ IsInjective(t)
    /\ \A i \in 1 .. Len(s) - n : t[i] = IF i <= a THEN s[i] ELSE s[i + n]
    /\ ToSet(t) = ToSet(s) \ {s[a + k] : k \in 1 .. n}

LEMMA ChainCut ==
    ASSUME NEW S, NEW s \in Seq(S), IsInjective(s), NEW a \in 1 .. Len(s), NEW n \in 0 .. Len(s) - a
    PROVE  IsCut(CutAt(s, a, n), s, a, n, S)
<1> DEFINE u == SubSeq(s, 1, a)
           v == SubSeq(s, a + n + 1, Len(s))
           t == u \o v
           m == Len(s) - n
<1>1. Len(s) \in Nat /\ a \in Nat /\ a >= 1 /\ a <= Len(s) /\ n \in Nat /\ a + n <= Len(s)
      /\ m \in Nat /\ a <= m /\ DOMAIN s = 1 .. Len(s)
    OBVIOUS
<1>2. u \in Seq(S) /\ Len(u) = a /\ \A i \in 1 .. a : u[i] = s[i]
    BY <1>1, SubSeqProperties
<1>3. v \in Seq(S) /\ Len(v) = m - a /\ \A i \in 1 .. m - a : v[i] = s[a + n + i]
    <2> DEFINE p == a + n + 1
    <2>1. p \in 1 .. Len(s) + 1 /\ Len(s) - p + 1 = m - a
          /\ \A i \in 1 .. m - a : p + i - 1 = a + n + i
        BY <1>1
    <2>2. v = SubSeq(s, p, Len(s))
        OBVIOUS
    <2> HIDE DEF p, v
    <2>3. v \in Seq(S) /\ Len(v) = Len(s) - p + 1 /\ \A i \in 1 .. Len(s) - p + 1 : v[i] = s[p + i - 1]
        BY <2>1, <2>2, RestOf
    <2> QED
        BY <2>1, <2>3
<1> HIDE DEF u, v
<1>4. t \in Seq(S) /\ Len(t) = m /\ \A i \in 1 .. m : t[i] = IF i <= a THEN u[i] ELSE v[i - a]
    <2>1. /\ t \in Seq(S) /\ Len(t) = Len(u) + Len(v)
          /\ \A i \in 1 .. Len(u) + Len(v) : t[i] = IF i <= Len(u) THEN u[i] ELSE v[i - Len(u)]
        BY <1>2, <1>3, ConcatProperties
    <2> HIDE DEF t
    <2>2. a + (m - a) = m
        BY <1>1
    <2> QED
        BY <1>2, <1>3, <2>1, <2>2
<1> HIDE DEF t
<1>5. ASSUME NEW i \in 1 .. m PROVE t[i] = IF i <= a THEN s[i] ELSE s[i + n]
    <2>1. CASE i <= a
        BY <1>1, <1>2, <1>4, <2>1
    <2>2. CASE ~(i <= a)
        <3>1. i - a \in 1 .. m - a /\ a + n + (i - a) = i + n
            BY <1>1, <2>2
        <3>2. v[i - a] = s[a + n + (i - a)]
            BY <1>3, <3>1
        <3>3. t[i] = v[i - a]
            BY <1>4, <2>2
        <3> QED
            BY <2>2, <3>1, <3>2, <3>3
    <2> QED
        BY <2>1, <2>2
<1> DEFINE to(i) == IF i <= a THEN i ELSE i + n
<1>6. ASSUME NEW i \in 1 .. m
      PROVE  to(i) \in 1 .. Len(s) /\ t[i] = s[to(i)] /\ \A k \in 1 .. n : to(i) # a + k
    BY <1>1, <1>5
<1>7. \A i, j \in 1 .. m : to(i) = to(j) => i = j
    BY <1>1
<1>8. DOMAIN t = 1 .. m
    BY <1>4
<1>9. IsInjective(t)
    <2> SUFFICES ASSUME NEW i \in 1 .. m, NEW j \in 1 .. m, t[i] = t[j] PROVE i = j
        BY <1>8 DEF IsInjective
    <2>1. s[to(i)] = s[to(j)] /\ to(i) \in DOMAIN s /\ to(j) \in DOMAIN s
        BY <1>1, <1>6
    <2> HIDE DEF to
    <2>2. to(i) = to(j)
        BY <2>1 DEF IsInjective
    <2> QED
        BY <1>7, <2>2
<1>10. ASSUME NEW i \in 1 .. m PROVE t[i] \in ToSet(s) \ {s[a + k] : k \in 1 .. n}
    <2>1. s[to(i)] \in ToSet(s) /\ to(i) \in DOMAIN s /\ t[i] = s[to(i)]
          /\ \A k \in 1 .. n : to(i) # a + k
        BY <1>1, <1>6 DEF ToSet
    <2>2. \A k \in 1 .. n : a + k \in DOMAIN s
        BY <1>1
    <2> HIDE DEF to
    <2>3. \A k \in 1 .. n : s[to(i)] # s[a + k]
        BY <2>1, <2>2 DEF IsInjective
    <2> QED
        BY <2>1, <2>3
<1>11. ASSUME NEW j \in 1 .. Len(s), \A k \in 1 .. n : s[j] # s[a + k]
       PROVE  \E i \in 1 .. m : t[i] = s[j]
    <2>1. CASE j <= a
        <3>1. j \in 1 .. m
            BY <1>1, <2>1
        <3> QED
            BY <1>5, <2>1, <3>1
    <2>2. CASE j > a + n
        <3>1. j - n \in 1 .. m /\ ~(j - n <= a) /\ (j - n) + n = j
            BY <1>1, <2>2
        <3> QED
            BY <1>5, <3>1
    <2>3. CASE j > a /\ j <= a + n
        <3>1. j - a \in 1 .. n /\ a + (j - a) = j
            BY <1>1, <2>3
        <3> QED
            BY <1>11, <3>1
    <2> QED
        BY <1>1, <2>1, <2>2, <2>3
<1>12. ToSet(t) = ToSet(s) \ {s[a + k] : k \in 1 .. n}
    <2>1. ToSet(t) \subseteq ToSet(s) \ {s[a + k] : k \in 1 .. n}
        BY <1>8, <1>10 DEF ToSet
    <2>2. ASSUME NEW x \in ToSet(s), x \notin {s[a + k] : k \in 1 .. n} PROVE x \in ToSet(t)
        <3>1. PICK j \in 1 .. Len(s) : x = s[j]
            BY <1>1 DEF ToSet
        <3>2. \A k \in 1 .. n : s[j] # s[a + k]
            BY <2>2, <3>1
        <3>3. PICK i \in 1 .. m : t[i] = s[j]
            BY <1>11, <3>2
        <3> QED
            BY <1>8, <3>1, <3>3 DEF ToSet
    <2> QED
        BY <2>1, <2>2
<1> QED
    BY <1>4, <1>5, <1>9, <1>12 DEF t, u, v, m, CutAt, IsCut

\* Open: the block that is about to be translated has room and is no code any more.
Opened(c, d) ==
    LET b == c.chain[c.active]
    IN  /\ Good(d, None) /\ Tiled(d)
        /\ d.active = c.active /\ d.chain[c.active] = b /\ b \in ToSet(d.chain)
        /\ d.h[b].page = None /\ d.h[b].size >= MaxSize
        /\ c.free \subseteq d.free /\ d.running = c.running /\ d.used = c.used
        /\ \A k \in Handlers : d.pages[k].phys = c.pages[k].phys

\* The blocks of a part of the chain can be cleared.
LEMMA ChainClearable ==
    ASSUME NEW c, Good(c, None), NEW S, S \subseteq ToSet(c.chain), \A x \in S : c.h[x].page # None
    PROVE  Clearable(c, S, None)
<1>1. c \in CacheSet /\ PartsOK(c) /\ PlacesOK(c)
    BY DEF Good
<1>2. ToSet(c.chain) \subseteq Headers
    BY <1>1 DEF CacheSet, ToSet
<1>3. ASSUME NEW x \in S PROVE c.h[x].other \notin S
    <2>1. SUFFICES ASSUME c.h[x].other \in S PROVE FALSE
        OBVIOUS
    <2> DEFINE y == c.h[x].other
    <2>2. x \in Headers /\ y \in Headers /\ y # None /\ ~Cross(c, x) /\ ~Cross(c, y)
        BY <1>1, <1>2, <2>1, Numbers DEF PlacesOK
    <2>3. c.h[x].index \in Nat /\ c.h[x].page # None
        BY <1>1, <2>2, Types
    <2>4. Main(c, x)
        BY <2>2, <2>3 DEF Main, Cross
    <2> QED
        BY <1>1, <2>2, <2>4, OtherPart
<1>4. None \notin Whole(c, S)
    BY Numbers DEF Whole
<1> QED
    BY <1>2, <1>3, <1>4 DEF Clearable

LEMMA OpenKeeps ==
    ASSUME NEW c, Good(c, None), Tiled(c)
    PROVE  Opened(c, Open(c))
<1> DEFINE a == c.active
           taken(k) == c.chain[c.active + k]
           b == taken(0)
           last == Len(c.chain) - c.active
           size == CHOOSE f : f = [k \in 0 .. last |->
                                      c.h[taken(k)].size + IF k = 0 THEN 0 ELSE f[k - 1]]
           n == Min({last} \cup {k \in 0 .. last : size[k] >= MaxSize})
           live == {i \in c.active .. c.active + n : c.h[c.chain[i]].page # None}
           s == Selection(c.chain, live)
           c1 == Cleared(c, s)
           dropped == {taken(k) : k \in 1 .. n}
           chain == SubSeq(c1.chain, 1, c.active) \o SubSeq(c1.chain, c.active + n + 1, Len(c1.chain))
           grown(x) == [c1.h[x] EXCEPT !.size = size[n]]
           hb == grown(b)
           h == [x \in Headers |-> IF x \in dropped THEN Blank
                                   ELSE IF x = b THEN grown(x) ELSE c1.h[x]]
           d == [c1 EXCEPT !.chain = chain, !.free = c1.free \cup dropped, !.h = h]
<1>1. Open(c) = d
    BY DEF Open
<1>2. /\ c \in CacheSet /\ PlacesOK(c) /\ c.chain \in Seq(Headers) /\ IsInjective(c.chain)
      /\ a \in 1 .. Len(c.chain) /\ Len(c.chain) \in Nat /\ a \in Nat /\ a >= 1 /\ a <= Len(c.chain)
      /\ DOMAIN c.chain = 1 .. Len(c.chain) /\ MaxSize \in Nat
    <2>1. c \in CacheSet /\ PlacesOK(c)
        BY DEF Good
    <2>2. c.chain \in Seq(Headers) /\ a \in Nat
        BY <2>1 DEF CacheSet
    <2>3. IsInjective(c.chain) /\ a \in 1 .. Len(c.chain)
        BY <2>1 DEF PlacesOK
    <2> QED
        BY <2>1, <2>2, <2>3, SizesAssumption
<1>3. /\ last \in Nat /\ \A k \in 0 .. last : size[k] = Span(c, k) /\ Span(c, k) \in Nat
      /\ Ahead(c, 0).at \in Nat
      /\ Ahead(c, 0).at + Span(c, last) = Total
      /\ \A k \in 0 .. last : k # last => Ahead(c, 0).at + Span(c, k) = Ahead(c, k + 1).at
      /\ Span(c, last) >= MaxSize
    <2>1. size = CHOOSE f : f = [k \in 0 .. last |->
                                     Ahead(c, k).size + IF k = 0 THEN 0 ELSE f[k - 1]]
        BY DEF Ahead
    <2>2. last = Len(c.chain) - c.active
        OBVIOUS
    <2>3. c \in CacheSet /\ Tiled(c) /\ c.active \in 1 .. Len(c.chain)
        BY <1>2
    <2> HIDE DEF size, last
    <2> QED
        BY ONLY <2>1, <2>2, <2>3, SizesAre
<1>4. last = Len(c.chain) - a
    OBVIOUS
<1> HIDE DEF size, last
<1>5. n \in 0 .. last /\ Span(c, n) >= MaxSize /\ size[n] = Span(c, n) /\ Span(c, n) \in Nat
    <2> DEFINE S == {last} \cup {k \in 0 .. last : size[k] >= MaxSize}
    <2>1. S \in SUBSET Nat /\ S # {}
        BY <1>3
    <2>2. Min(S) \in S
        BY <2>1, SmallestIsMember
    <2>3. n = Min(S)
        OBVIOUS
    <2> HIDE DEF n
    <2>4. n \in 0 .. last /\ (n = last \/ size[n] >= MaxSize)
        BY <1>3, <2>2, <2>3
    <2> QED
        BY <1>3, <2>4
<1> HIDE DEF n
<1>6. \A k \in 0 .. n : a + k \in 1 .. Len(c.chain) /\ taken(k) \in Headers
    <2>1. \A k \in 0 .. n : a + k \in 1 .. Len(c.chain)
        BY <1>2, <1>3, <1>4, <1>5
    <2> QED
        BY <1>2, <2>1
<1>7. b \in Headers /\ b = c.chain[a] /\ 0 \in 0 .. n /\ n \in Nat
    BY <1>2, <1>3, <1>5, <1>6
<1>8. /\ s \in Seq(Headers) /\ IsInjective(s) /\ ToSet(s) = {c.chain[i] : i \in live}
      /\ live \in SUBSET (1 .. Len(c.chain))
    <2>1. live \in SUBSET (1 .. Len(c.chain))
        BY <1>2, <1>3, <1>4, <1>5
    <2> HIDE DEF live
    <2> QED
        BY <1>2, <2>1, SelectionOf
<1>9. Clearable(c, ToSet(s), None)
    <2>1. ToSet(s) \subseteq ToSet(c.chain) /\ \A x \in ToSet(s) : c.h[x].page # None
        BY <1>2, <1>8 DEF ToSet
    <2> HIDE DEF s
    <2> QED
        BY <2>1, ChainClearable
<1> DEFINE T == Whole(c, ToSet(s))
<1>10. Good(c1, None) /\ Gone(c, c1, T)
    <2> HIDE DEF s
    <2> QED
        BY <1>8, <1>9, ClearedKeeps
<1>11. \A k \in 0 .. n : taken(k) \in ToSet(s) \/ c.h[taken(k)].page = None
    <2> SUFFICES ASSUME NEW k \in 0 .. n, c.h[taken(k)].page # None PROVE taken(k) \in ToSet(s)
        OBVIOUS
    <2>1. a + k \in a .. a + n
        BY <1>2, <1>7
    <2>2. a + k \in live
        BY <2>1
    <2> HIDE DEF live, s
    <2> QED
        BY <1>8, <2>2
<1> HIDE DEF s, live, c1
<1>12. /\ c1 \in CacheSet /\ PlacesOK(c1) /\ c1.chain = c.chain /\ c1.active = c.active
       /\ c1.used = c.used /\ c1.running = c.running /\ c.free \subseteq c1.free
       /\ \A k \in Handlers : c1.pages[k].phys = c.pages[k].phys
    BY <1>10 DEF Good, Gone, SameLists
<1>13. \A x \in Headers : c1.h[x].at = c.h[x].at /\ c1.h[x].size = c.h[x].size
    BY <1>10 DEF Gone, SameHeader
<1>14. \A k \in 0 .. n : c1.h[taken(k)].page = None
    <2> SUFFICES ASSUME NEW k \in 0 .. n PROVE c1.h[taken(k)].page = None
        OBVIOUS
    <2>1. taken(k) \in Headers
        BY <1>6
    <2>2. CASE taken(k) \in T
        BY <1>10, <2>2 DEF Gone
    <2>3. CASE taken(k) \notin T
        <3>1. c.h[taken(k)].page = None
            BY <1>11, <2>1, <2>3 DEF Whole
        <3>2. SameHeader(c1.h[taken(k)], c.h[taken(k)])
            BY <1>10, <2>1, <2>3 DEF Gone
        <3> QED
            BY <3>1, <3>2 DEF SameHeader
    <2> QED
        BY <2>2, <2>3
<1> HIDE DEF T
<1>15. dropped \subseteq Headers /\ dropped \subseteq ToSet(c.chain) /\ b \notin dropped
       /\ \A x \in dropped : c1.h[x].page = None
    <2>1. ASSUME NEW k \in 1 .. n
          PROVE  taken(k) \in Headers /\ taken(k) \in ToSet(c.chain) /\ taken(k) # b
                 /\ c1.h[taken(k)].page = None
        <3>1. k \in 0 .. n /\ a + k \in DOMAIN c.chain /\ a \in DOMAIN c.chain /\ a + k # a
            BY <1>2, <1>6, <1>7
        <3>2. taken(k) \in Headers /\ c1.h[taken(k)].page = None
            BY <1>6, <1>14, <3>1
        <3>3. taken(k) \in ToSet(c.chain)
            BY <3>1 DEF ToSet
        <3>4. c.chain[a + k] # c.chain[a]
            BY <1>2, <3>1 DEF IsInjective
        <3> QED
            BY <1>7, <3>2, <3>3, <3>4
    <2> QED
        BY <2>1
<1>16. /\ chain \in Seq(Headers) /\ Len(chain) = Len(c.chain) - n /\ IsInjective(chain)
       /\ \A i \in 1 .. Len(c.chain) - n : chain[i] = IF i <= a THEN c.chain[i] ELSE c.chain[i + n]
       /\ ToSet(chain) = ToSet(c.chain) \ dropped
    <2>1. n \in 0 .. Len(c.chain) - a
        BY <1>4, <1>5
    <2>2. chain = SubSeq(c.chain, 1, a) \o SubSeq(c.chain, a + n + 1, Len(c.chain))
        BY <1>12
    <2>3. dropped = {c.chain[a + k] : k \in 1 .. n}
        OBVIOUS
    <2>4. c.chain \in Seq(Headers) /\ IsInjective(c.chain) /\ a \in 1 .. Len(c.chain)
        BY <1>2
    <2> HIDE DEF chain, dropped, a
    <2>5. IsCut(CutAt(c.chain, a, n), c.chain, a, n, Headers)
        BY <2>1, <2>4, ChainCut
    <2>6. chain = CutAt(c.chain, a, n)
        BY <2>2 DEF CutAt
    <2>7. IsCut(chain, c.chain, a, n, Headers)
        BY <2>5, <2>6
    <2> QED
        BY <2>3, <2>7 DEF IsCut
<1> HIDE DEF chain, dropped
<1>17. /\ hb \in HeaderSet /\ hb.page = None /\ hb.other = None /\ hb.at = c.h[b].at
       /\ hb.size = Span(c, n)
    <2>1. c1.h[b] \in HeaderSet /\ c1.h[b].page = None /\ PartOK(c1, b)
        BY <1>7, <1>10, <1>12, <1>14, Types DEF Good, PartsOK
    <2>2. c1.h[b].other = None /\ c1.h[b].at = c.h[b].at
        BY <1>7, <1>13, <2>1 DEF PartOK
    <2> HIDE DEF b
    <2> QED
        BY <1>5, <2>1, <2>2 DEF HeaderSet
<1>h. \A x \in Headers : h[x] = IF x \in dropped THEN Blank ELSE IF x = b THEN hb ELSE c1.h[x]
    OBVIOUS
<1> HIDE DEF hb
<1>18. h \in [Headers -> HeaderSet]
    <2>1. c1.h \in [Headers -> HeaderSet]
        BY <1>12 DEF CacheSet
    <2>2. \A x \in Headers : h[x] \in HeaderSet
        BY <1>17, <1>h, <2>1, BlankHeader
    <2>3. h = [x \in Headers |-> h[x]]
        OBVIOUS
    <2> HIDE DEF h
    <2> QED
        BY <2>2, <2>3
<1>19. /\ \A x \in dropped : h[x] = Blank
       /\ h[b] = hb
       /\ \A x \in Headers : x \notin dropped /\ x # b => h[x] = c1.h[x]
    BY <1>7, <1>15, <1>h
<1> HIDE DEF h
<1>20. /\ d \in CacheSet /\ d.chain = chain /\ d.free = c1.free \cup dropped /\ d.h = h
       /\ d.active = c1.active /\ d.used = c1.used /\ d.freePages = c1.freePages
       /\ d.pages = c1.pages /\ d.code = c1.code /\ d.running = c1.running
    BY <1>12, <1>15, <1>16, <1>18 DEF CacheSet
<1> HIDE DEF d, b
<1>21. DeadChanged(c1, d)
    <2>1. ASSUME NEW x \in Headers
          PROVE  IF c1.h[x].page = None THEN d.h[x].page = None /\ d.h[x].other = None
                 ELSE SameBlock(d.h[x], c1.h[x])
        <3>1. CASE x \in dropped
            BY <1>15, <1>19, <1>20, <3>1 DEF Blank
        <3>2. CASE x = b
            <4>1. c1.h[b].page = None
                BY <1>7, <1>14 DEF b
            <4> QED
                BY <1>17, <1>19, <1>20, <3>2, <4>1
        <3>3. CASE x \notin dropped /\ x # b
            <4>1. d.h[x] = c1.h[x] /\ PartOK(c1, x)
                BY <1>10, <1>19, <1>20, <3>3 DEF Good, PartsOK
            <4> QED
                BY <4>1 DEF PartOK, SameBlock
        <3> QED
            BY <3>1, <3>2, <3>3
    <2> QED
        BY <1>20, <2>1 DEF DeadChanged
<1>22. \A x \in Headers : (Main(d, x) <=> Main(c1, x)) /\ (Cross(d, x) <=> Cross(c1, x))
    BY <1>21 DEF DeadChanged, SameBlock, Main, Cross
<1>23. PlacesOK(d)
    <2>1. d.active \in 1 .. Len(d.chain)
        BY <1>2, <1>4, <1>5, <1>12, <1>16, <1>20
    <2>2. ToSet(d.chain) = ToSet(c1.chain) \ dropped /\ d.free = c1.free \cup dropped
          /\ dropped \subseteq ToSet(c1.chain) /\ IsInjective(d.chain)
        BY <1>12, <1>15, <1>16, <1>20
    <2>3. \A x \in dropped : ~Main(c1, x) /\ ~Cross(c1, x)
        BY <1>15 DEF Main, Cross
    <2> QED
        BY <1>12, <1>22, <2>1, <2>2, <2>3 DEF PlacesOK
<1>24. Good(d, None)
    BY <1>10, <1>20, <1>21, <1>23, DeadChangedKeeps
<1>25. d.chain[a] = b /\ b \in ToSet(d.chain) /\ d.active = a
    <2>1. a \in 1 .. Len(c.chain) - n /\ a \in DOMAIN d.chain
        BY <1>2, <1>4, <1>5, <1>16, <1>20
    <2>2. d.chain[a] = c.chain[a]
        BY <1>2, <1>16, <1>20, <2>1
    <2> QED
        BY <1>7, <1>12, <1>20, <2>1, <2>2 DEF ToSet
<1>26. ASSUME NEW x \in ToSet(c.chain), x \notin dropped
       PROVE  d.h[x].at = c.h[x].at /\ (x # b => d.h[x].size = c.h[x].size)
    <2>1. x \in Headers
        BY <1>2 DEF ToSet
    <2> QED
        BY <1>13, <1>17, <1>19, <1>20, <1>26, <2>1
<1>27. d.h[b].page = None /\ d.h[b].size = Span(c, n) /\ d.h[b].at = c.h[b].at
    BY <1>17, <1>19, <1>20
<1> DEFINE m == Len(c.chain) - n
           to(i) == IF i <= a THEN i ELSE i + n
<1>28. ASSUME NEW i \in 1 .. m
       PROVE  /\ to(i) \in 1 .. Len(c.chain) /\ d.chain[i] = c.chain[to(i)]
              /\ d.h[d.chain[i]].at = c.h[c.chain[to(i)]].at
              /\ i # a => d.h[d.chain[i]].size = c.h[c.chain[to(i)]].size
    <2>1. to(i) \in 1 .. Len(c.chain) /\ d.chain[i] = c.chain[to(i)]
        BY <1>2, <1>7, <1>16, <1>20
    <2>2. i \in DOMAIN chain /\ DOMAIN chain = 1 .. m /\ a \in DOMAIN chain
        BY <1>2, <1>4, <1>5, <1>16
    <2>3. d.chain[i] \in ToSet(c.chain) /\ d.chain[i] \notin dropped
        BY <1>16, <1>20, <2>2 DEF ToSet
    <2>4. i # a => d.chain[i] # b
        BY <1>16, <1>20, <1>25, <2>2 DEF IsInjective
    <2> QED
        BY <1>26, <2>1, <2>3, <2>4
<1>29. Tiled(d)
    <2>1. m = Len(d.chain) /\ m \in Nat /\ a <= m /\ a \in 1 .. m
        BY <1>2, <1>4, <1>5, <1>16, <1>20
    <2>2. ASSUME NEW i \in 1 .. m PROVE TileOK(d, i)
        <3>1. i # m => i + 1 \in 1 .. m
            BY <2>1
        <3>2. TileOK(c, to(i))
            BY <1>28 DEF Tiled
        <3>3. i = 1 => to(i) = 1
            BY <1>2
        <3>4. CASE i # a
            <4>1. (i = m => to(i) = Len(c.chain)) /\ (i # m => to(i) # Len(c.chain))
                BY <1>2, <1>5, <1>7, <2>1, <3>4
            <4>2. i # m => to(i + 1) = to(i) + 1
                BY <1>2, <1>7, <2>1, <3>4
            <4>3. /\ d.h[d.chain[i]].at = c.h[c.chain[to(i)]].at
                  /\ d.h[d.chain[i]].size = c.h[c.chain[to(i)]].size
                  /\ i # m => d.h[d.chain[i + 1]].at = c.h[c.chain[to(i) + 1]].at
                BY <1>28, <3>1, <3>4, <4>2
            <4> HIDE DEF to, m
            <4> QED
                BY <2>1, <3>2, <3>3, <4>1, <4>3 DEF TileOK
        <3>5. CASE i = a
            <4>1. d.chain[i] = b /\ d.h[b].at = Ahead(c, 0).at /\ d.h[b].size = Span(c, n)
                  /\ (i = 1 => d.h[b].at = 0)
                <5>1. Ahead(c, 0) = c.h[b] /\ to(i) = a
                    BY <1>2, <3>5 DEF Ahead, b
                <5>2. i = 1 => c.h[b].at = 0
                    BY <1>7, <3>2, <3>3, <3>5, <5>1 DEF TileOK
                <5> QED
                    BY <1>25, <1>27, <3>5, <5>1, <5>2
            <4>2. i = m => n = last
                BY <1>2, <1>3, <1>4, <1>5, <3>5
            <4>3. i # m => /\ n # last /\ n \in 0 .. last
                           /\ d.h[d.chain[i + 1]].at = Ahead(c, n + 1).at
                <5>1. i # m => n # last
                    BY <1>2, <1>3, <1>4, <1>5, <3>5
                <5>2. i # m => to(i + 1) = a + (n + 1)
                    BY <1>2, <1>7, <3>5
                <5>3. i # m => d.h[d.chain[i + 1]].at = c.h[c.chain[to(i + 1)]].at
                    BY <1>28, <3>1
                <5> HIDE DEF to, m
                <5> QED
                    BY <1>5, <5>1, <5>2, <5>3 DEF Ahead
            <4> HIDE DEF m, to
            <4> QED
                BY <1>3, <2>1, <4>1, <4>2, <4>3 DEF TileOK
        <3> QED
            BY <3>4, <3>5
    <2>3. d.h[d.chain[d.active]].at + MaxSize <= Total
        <3>1. c.h[b].at + MaxSize <= Total
            BY <1>7 DEF Tiled
        <3> QED
            BY <1>25, <1>27, <3>1
    <2> QED
        BY <2>1, <2>2, <2>3 DEF Tiled
<1>30. d.h[b].size >= MaxSize /\ c.free \subseteq d.free /\ d.running = c.running /\ d.used = c.used
       /\ \A k \in Handlers : d.pages[k].phys = c.pages[k].phys
    BY <1>5, <1>12, <1>20, <1>27
<1> HIDE DEF m, to
<1> QED
    BY <1>1, <1>7, <1>24, <1>25, <1>27, <1>29, <1>30 DEF Opened

\* The headers tile the memory as long as neither they nor their places change.
LEMMA TiledStays ==
    ASSUME NEW c, Tiled(c), PlacesOK(c), NEW d, d.chain = c.chain, d.active = c.active,
           \A x \in ToSet(c.chain) : d.h[x].at = c.h[x].at /\ d.h[x].size = c.h[x].size,
           c.chain \in Seq(Headers)
    PROVE  Tiled(d)
<1>1. DOMAIN c.chain = 1 .. Len(c.chain) /\ Len(c.chain) \in Nat /\ c.active \in 1 .. Len(c.chain)
    BY DEF PlacesOK
<1>2. \A i \in 1 .. Len(c.chain) : c.chain[i] \in ToSet(c.chain)
    BY <1>1 DEF ToSet
<1>3. \A i \in 1 .. Len(c.chain) : i # Len(c.chain) => i + 1 \in 1 .. Len(c.chain)
    BY <1>1
<1>4. ASSUME NEW i \in 1 .. Len(c.chain) PROVE TileOK(d, i)
    <2>1. TileOK(c, i)
        BY DEF Tiled
    <2>2. d.h[c.chain[i]].at = c.h[c.chain[i]].at /\ d.h[c.chain[i]].size = c.h[c.chain[i]].size
        BY <1>2
    <2>3. i # Len(c.chain) => d.h[c.chain[i + 1]].at = c.h[c.chain[i + 1]].at
        BY <1>2, <1>3
    <2> QED
        BY <2>1, <2>2, <2>3 DEF TileOK
<1>5. d.h[d.chain[d.active]].at + MaxSize <= Total
    BY <1>1, <1>2 DEF Tiled
<1> QED
    BY <1>4, <1>5 DEF Tiled

\* cache_closeblock has the exits of a new block lead to link_blocks.
LEMMA LinksReset ==
    ASSUME NEW c, NEW b \in Headers, Good(c, b), Main(c, b)
    PROVE  LET d == Header(c, b, "link", [i \in Links |-> NoLink])
           IN  /\ Good(d, None) /\ SameLists(c, d) /\ d.free = c.free
               /\ \A x \in Headers : SameHeader(d.h[x], c.h[x])
<1>1. c \in CacheSet /\ PartsOK(c) /\ HandlersOK(c) /\ CountsOK(c) /\ PlacesOK(c) /\ LinksOK(c, b)
    BY DEF Good
<1> DEFINE e == [c.h[b] EXCEPT !.link = [i \in Links |-> NoLink]]
           d == WithHeader(c, b, e)
<1>2. Header(c, b, "link", [i \in Links |-> NoLink]) = d
    BY DEF Header, WithHeader
<1>3. e \in HeaderSet /\ SameHeader(e, c.h[b]) /\ \A i \in Links : e.link[i] = NoLink
    <2>1. c.h[b] \in HeaderSet /\ [i \in Links |-> NoLink] \in [Links -> LinkSet]
        BY <1>1, Types, BlankHeader
    <2> QED
        BY <2>1 DEF HeaderSet, SameHeader
<1> HIDE DEF e
<1>4. /\ d \in CacheSet /\ SameLists(c, d) /\ d.free = c.free /\ d.pages = c.pages
      /\ d.h[b] = e /\ \A x \in Headers : x # b => d.h[x] = c.h[x]
    BY <1>1, <1>3, HeaderIs
<1> HIDE DEF d
<1>5. \A x \in Headers : SameHeader(d.h[x], c.h[x])
    BY <1>3, <1>4 DEF SameHeader
<1>6. PartsOK(d)
    <2>1. Gone(c, d, {})
        BY <1>4, <1>5 DEF Gone
    <2> QED
        BY <1>1, <1>4, <2>1, PartsKept
<1>7. \A x \in Headers : (Main(d, x) <=> Main(c, x)) /\ (Cross(d, x) <=> Cross(c, x))
    BY <1>5 DEF SameHeader, Main, Cross
<1>8. HandlersOK(d) /\ PlacesOK(d) /\ Used(d) = Used(c)
    BY <1>1, <1>4, <1>7 DEF SameLists, HandlersOK, PlacesOK, Used
<1>9. CountsOK(d)
    <2>1. \A k : Blocks(d, k) = Blocks(c, k)
        BY <1>5 DEF Blocks, SameHeader
    <2>2. \A k, o : Covers(d, k, o) = Covers(c, k, o)
        BY <1>5, <2>1 DEF Covers, Blocks, SameHeader
    <2> QED
        BY <1>1, <1>4, <1>5, <1>8, <2>1, <2>2 DEF CountsOK, SameHeader
<1>10. LinksOK(d, b)
    <2>1. SameMains(c, d, b, b)
        <3>1. ASSUME NEW x \in Headers
              PROVE  /\ (x # b /\ Main(d, x)) <=> (x # b /\ Main(c, x))
                     /\ x # b /\ Main(c, x) =>
                           /\ d.h[x].link = c.h[x].link /\ d.h[x].start = c.h[x].start
                           /\ d.pages[d.h[x].page].phys = c.pages[c.h[x].page].phys
            BY <1>4, <1>7
        <3> QED
            BY <3>1 DEF SameMains
    <2> QED
        BY <1>1, <2>1, LinksStay
<1>11. LinksOK(d, None)
    <2> SUFFICES ASSUME AllNoticed, NEW x \in Headers, NEW i \in Links, x # None, Main(d, x)
                 PROVE  LinkOK(d, None, x, i)
        BY DEF LinksOK
    <2>1. CASE x = b
        <3>1. d.h[x].link[i].to = None /\ d.h[x].link[i].from = {}
            BY <1>3, <1>4, <2>1 DEF NoLink
        <3> QED
            BY <3>1 DEF LinkOK
    <2>2. CASE x # b
        <3>1. LinkOK(d, b, x, i)
            BY <1>10, <2>2 DEF LinksOK
        <3>2. d.h[x].link[i].from \in SUBSET Headers
            <4>1. d.h[x].link[i] \in LinkSet
                BY <1>4 DEF CacheSet, HeaderSet
            <4> QED
                BY <4>1 DEF LinkSet
        <3> QED
            BY <3>1, <3>2, Numbers, Zenon DEF LinkOK
    <2> QED
        BY <2>1, <2>2
<1> QED
    BY <1>2, <1>4, <1>5, <1>6, <1>8, <1>9, <1>11 DEF Good

\* A header comes into the chain.
IsGrown(t, s, i, e, S) ==
    /\ t \in Seq(S) /\ Len(t) = Len(s) + 1 /\ IsInjective(t) /\ ToSet(t) = ToSet(s) \cup {e}
    /\ \A j \in 1 .. Len(s) + 1 :
           t[j] = IF j < i THEN s[j] ELSE IF j = i THEN e ELSE s[j - 1]

LEMMA ChainGrown ==
    ASSUME NEW S, NEW s \in Seq(S), IsInjective(s), NEW i \in 1 .. Len(s) + 1,
           NEW e \in S, e \notin ToSet(s)
    PROVE  IsGrown(InsertAt(s, i, e), s, i, e, S)
<1> DEFINE t == InsertAt(s, i, e)
           m == Len(s) + 1
           of(j) == IF j < i THEN j ELSE j - 1
<1>1. /\ Len(s) \in Nat /\ i \in Nat /\ i >= 1 /\ i <= m /\ m \in Nat
      /\ DOMAIN s = 1 .. Len(s)
    OBVIOUS
<1>2. /\ t \in Seq(S) /\ Len(t) = m
      /\ \A j \in 1 .. i - 1 : t[j] = s[j]
      /\ t[i] = e
      /\ \A j \in i + 1 .. m : t[j] = s[j - 1]
    BY Inserted
<1> HIDE DEF t
<1>3. DOMAIN t = 1 .. m
    BY <1>2
<1>4. ASSUME NEW j \in 1 .. m, j # i
      PROVE  of(j) \in DOMAIN s /\ t[j] = s[of(j)] /\ t[j] \in ToSet(s)
    <2>1. of(j) \in DOMAIN s
        BY <1>1, <1>4
    <2>2. CASE j < i
        <3>1. j \in 1 .. i - 1
            BY <1>1, <2>2
        <3> QED
            BY <1>2, <2>1, <2>2, <3>1 DEF ToSet
    <2>3. CASE ~(j < i)
        <3>1. j \in i + 1 .. m
            BY <1>1, <1>4, <2>3
        <3> QED
            BY <1>2, <2>1, <2>3, <3>1 DEF ToSet
    <2> QED
        BY <2>2, <2>3
<1>5. \A j, k \in 1 .. m : j # i /\ k # i /\ of(j) = of(k) => j = k
    BY <1>1
<1>6. ASSUME NEW j \in 1 .. Len(s) PROVE \E k \in 1 .. m : k # i /\ of(k) = j
    <2>1. CASE j < i
        <3>1. j \in 1 .. m /\ j # i /\ of(j) = j
            BY <1>1, <2>1
        <3> QED
            BY <3>1
    <2>2. CASE ~(j < i)
        <3>1. j + 1 \in 1 .. m /\ j + 1 # i /\ of(j + 1) = j
            BY <1>1, <2>2
        <3> QED
            BY <3>1
    <2> QED
        BY <2>1, <2>2
<1>7. \A j \in 1 .. m : t[j] = IF j < i THEN s[j] ELSE IF j = i THEN e ELSE s[j - 1]
    BY <1>1, <1>2, <1>4
<1> HIDE DEF of
<1>8. IsInjective(t)
    <2> SUFFICES ASSUME NEW j \in 1 .. m, NEW k \in 1 .. m, t[j] = t[k] PROVE j = k
        BY <1>3 DEF IsInjective
    <2>1. CASE j = i \/ k = i
        BY <1>2, <1>4, <2>1
    <2>2. CASE j # i /\ k # i
        <3>1. s[of(j)] = s[of(k)] /\ of(j) \in DOMAIN s /\ of(k) \in DOMAIN s
            BY <1>4, <2>2
        <3>2. of(j) = of(k)
            BY <3>1 DEF IsInjective
        <3> QED
            BY <1>5, <2>2, <3>2
    <2> QED
        BY <2>1, <2>2
<1>9. ToSet(t) = ToSet(s) \cup {e}
    <2>1. i \in 1 .. m
        BY <1>1
    <2>2. \A j \in 1 .. m : t[j] \in ToSet(s) \cup {e}
        BY <1>2, <1>4
    <2>3. ToSet(t) \subseteq ToSet(s) \cup {e}
        BY <1>3, <2>2 DEF ToSet
    <2>4. e \in ToSet(t)
        BY <1>2, <1>3, <2>1 DEF ToSet
    <2>5. ASSUME NEW x \in ToSet(s) PROVE x \in ToSet(t)
        <3>1. PICK j \in 1 .. Len(s) : x = s[j]
            BY <1>1 DEF ToSet
        <3>2. PICK k \in 1 .. m : k # i /\ of(k) = j
            BY <1>6
        <3>3. t[k] = s[j] /\ k \in DOMAIN t
            BY <1>3, <1>4, <3>2
        <3> QED
            BY <3>1, <3>3 DEF ToSet
    <2> QED
        BY <2>3, <2>4, <2>5
<1> QED
    BY <1>2, <1>7, <1>8, <1>9 DEF IsGrown, t, m

\* The size of a block is a multiple of Align, and that large that the code fits.
RoundedUp(w) == (((w - 1) \div Align) + 1) * Align

LEMMA RoundedUpIs ==
    ASSUME NEW w \in Nat \ {0}
    PROVE  RoundedUp(w) \in Nat /\ RoundedUp(w) >= w /\ RoundedUp(w) < w + Align
<1> DEFINE v == w - 1
           q == v \div Align
           r == v % Align
<1>1. v \in Nat /\ Align \in Nat /\ Align > 0
    BY SizesAssumption
<1> HIDE DEF v
<1>2. q \in Int /\ r \in Int /\ 0 <= r /\ r < Align /\ v = Align * q + r
    BY <1>1
<1> HIDE DEF q, r
<1>3. (q + 1) * Align = Align * q + Align /\ Align * q \in Int
    BY <1>1, <1>2
<1> DEFINE p == Align * q
<1> HIDE DEF p
<1>4. p \in Int /\ v = p + r /\ RoundedUp(w) = p + Align
    BY <1>2, <1>3 DEF p, q, v, RoundedUp
<1>5. w = v + 1
    BY DEF v
<1> QED
    BY <1>1, <1>2, <1>4, <1>5

\* What is left of the memory of a block becomes a block of its own: split in
\* cache_closeblock, once the links of the block are reset.
Splits(c, b, new, size) ==
    [Header(c, b, "size", size) EXCEPT
        !.h[new] = [Blank EXCEPT !.at = c.h[b].at + size, !.size = c.h[b].size - size],
        !.free = @ \ {new}, !.chain = InsertAt(@, c.active + 1, new)]

IsSplit(c, d, b, new, size) ==
    /\ d \in CacheSet /\ d.used = c.used /\ d.freePages = c.freePages
    /\ d.pages = c.pages /\ d.active = c.active /\ d.running = c.running
    /\ d.free = c.free \ {new} /\ new # b /\ new \in Headers /\ new \notin ToSet(c.chain)
    /\ d.h[new] = [Blank EXCEPT !.at = c.h[b].at + size, !.size = c.h[b].size - size]
    /\ d.h[b] = [c.h[b] EXCEPT !.size = size]
    /\ \A x \in Headers : x # b /\ x # new => d.h[x] = c.h[x]
    /\ IsGrown(d.chain, c.chain, c.active + 1, new, Headers)

LEMMA SplitsIs ==
    ASSUME NEW c, Good(c, None), NEW b \in Headers, b = c.chain[c.active], NEW new \in c.free,
           NEW size \in Nat, size <= c.h[b].size
    PROVE  IsSplit(c, Splits(c, b, new, size), b, new, size)
<1> DEFINE hb == [c.h[b] EXCEPT !.size = size]
           rest == [Blank EXCEPT !.at = c.h[b].at + size, !.size = c.h[b].size - size]
           c2 == WithHeader(c, b, hb)
           c3 == WithHeader(c2, new, rest)
           chain == InsertAt(c3.chain, c.active + 1, new)
           d == [c3 EXCEPT !.free = @ \ {new}, !.chain = chain]
<1>1. /\ c \in CacheSet /\ PlacesOK(c) /\ c.chain \in Seq(Headers) /\ c.free \in SUBSET Headers
      /\ new \in Headers /\ c.active \in 1 .. Len(c.chain) /\ IsInjective(c.chain)
    BY DEF Good, CacheSet, PlacesOK
<1>2. new \notin ToSet(c.chain) /\ b \in ToSet(c.chain) /\ new # b
    <2>1. c.active \in DOMAIN c.chain
        BY <1>1
    <2>2. b \in ToSet(c.chain)
        BY <2>1 DEF ToSet
    <2> QED
        BY <1>1, <2>2 DEF PlacesOK
<1>3. hb \in HeaderSet
    BY <1>1, Types DEF HeaderSet
<1>4. rest \in HeaderSet
    <2>1. c.h[b].at \in Nat /\ c.h[b].size \in Nat
        BY <1>1, Types
    <2>2. c.h[b].at + size \in Nat /\ c.h[b].size - size \in Nat
        BY <2>1
    <2> QED
        BY <2>2, BlankHeader DEF HeaderSet
<1>5. Splits(c, b, new, size) = d
    <2>1. c2 = Header(c, b, "size", size)
        BY DEF WithHeader, Header
    <2>2. [c2 EXCEPT !.h[new] = rest, !.free = @ \ {new}, !.chain = InsertAt(@, c.active + 1, new)] = d
        BY DEF WithHeader
    <2> HIDE DEF d
    <2> QED
        BY <2>1, <2>2, Zenon DEF Splits
<1> HIDE DEF hb, rest
<1>6. /\ c2 \in CacheSet /\ SameLists(c, c2) /\ c2.free = c.free /\ c2.pages = c.pages
      /\ c2.h[b] = hb /\ \A x \in Headers : x # b => c2.h[x] = c.h[x]
    BY <1>1, <1>3, HeaderIs
<1> HIDE DEF c2
<1>7. /\ c3 \in CacheSet /\ SameLists(c2, c3) /\ c3.free = c2.free /\ c3.pages = c2.pages
      /\ c3.h[new] = rest /\ \A x \in Headers : x # new => c3.h[x] = c2.h[x]
    BY <1>1, <1>4, <1>6, HeaderIs
<1> HIDE DEF c3
<1>8. IsGrown(chain, c.chain, c.active + 1, new, Headers)
    <2>1. c3.chain = c.chain /\ c.active + 1 \in 1 .. Len(c.chain) + 1
        BY <1>1, <1>6, <1>7 DEF SameLists
    <2> QED
        BY <1>1, <1>2, <2>1, ChainGrown
<1>9. chain \in Seq(Headers)
    BY <1>8 DEF IsGrown
<1> HIDE DEF chain
<1>10. /\ d \in CacheSet /\ d.chain = chain /\ d.free = c3.free \ {new} /\ d.h = c3.h
       /\ d.pages = c3.pages /\ d.used = c3.used /\ d.freePages = c3.freePages
       /\ d.active = c3.active /\ d.running = c3.running
    BY <1>7, <1>9 DEF CacheSet
<1> HIDE DEF d
<1>11. /\ d.h[new] = rest /\ d.h[b] = hb /\ \A x \in Headers : x # b /\ x # new => d.h[x] = c.h[x]
    BY <1>1, <1>2, <1>6, <1>7, <1>10
<1>12. /\ d.used = c.used /\ d.freePages = c.freePages /\ d.pages = c.pages /\ d.active = c.active
       /\ d.running = c.running /\ d.free = c.free \ {new}
    BY <1>6, <1>7, <1>10 DEF SameLists
<1> QED
    BY <1>1, <1>2, <1>5, <1>8, <1>10, <1>11, <1>12 DEF hb, rest, IsSplit

LEMMA SplitsKeeps ==
    ASSUME NEW c, Good(c, None), Tiled(c), NEW b \in Headers, b = c.chain[c.active], NEW new \in c.free,
           NEW size \in Nat, size <= c.h[b].size
    PROVE  LET d == Splits(c, b, new, size)
           IN  /\ Good(d, None) /\ d.active = c.active /\ d.running = c.running
               /\ \A i \in 1 .. Len(d.chain) : TileOK(d, i)
               /\ \A x \in Headers : Main(c, x) => Main(d, x)
<1> DEFINE d == Splits(c, b, new, size)
           a == c.active
<1>0. IsSplit(c, d, b, new, size)
    BY SplitsIs
<1> HIDE DEF d
<1>1. /\ d \in CacheSet /\ d.used = c.used /\ d.freePages = c.freePages
      /\ d.pages = c.pages /\ d.active = a /\ d.running = c.running
      /\ d.free = c.free \ {new} /\ new # b /\ new \in Headers /\ new \notin ToSet(c.chain)
      /\ d.h[new] = [Blank EXCEPT !.at = c.h[b].at + size, !.size = c.h[b].size - size]
      /\ d.h[b] = [c.h[b] EXCEPT !.size = size]
      /\ \A x \in Headers : x # b /\ x # new => d.h[x] = c.h[x]
      /\ IsGrown(d.chain, c.chain, a + 1, new, Headers)
    BY <1>0 DEF IsSplit
<1>2. /\ c \in CacheSet /\ PlacesOK(c) /\ PartsOK(c) /\ c.chain \in Seq(Headers)
      /\ Len(c.chain) \in Nat /\ a \in Nat /\ a >= 1 /\ a <= Len(c.chain)
      /\ DOMAIN c.chain = 1 .. Len(c.chain) /\ IsInjective(c.chain)
    BY DEF Good, CacheSet, PlacesOK
<1>3. /\ d.h[new].page = None /\ d.h[new].other = None /\ d.h[new].at = c.h[b].at + size
      /\ d.h[new].size = c.h[b].size - size /\ d.h[b].size = size /\ d.h[b].at = c.h[b].at
      /\ SameBlock(d.h[b], c.h[b])
    <2>1. c.h[b] \in HeaderSet
        BY <1>2, Types
    <2> QED
        BY <1>1, <2>1 DEF Blank, HeaderSet, SameBlock
<1>4. c.h[new].page = None
    <2>1. ~Main(c, new) /\ ~Cross(c, new)
        BY <1>1, <1>2 DEF PlacesOK
    <2> QED
        BY <1>1, <1>2, <2>1, Types DEF Main, Cross
<1>5. DeadChanged(c, d)
    <2>1. ASSUME NEW x \in Headers
          PROVE  IF c.h[x].page = None THEN d.h[x].page = None /\ d.h[x].other = None
                 ELSE SameBlock(d.h[x], c.h[x])
        <3>1. PartOK(c, x)
            BY <1>2 DEF PartsOK
        <3>2. c.h[x].page = None => c.h[x].other = None
            BY <3>1 DEF PartOK
        <3>3. x # new => SameBlock(d.h[x], c.h[x])
            BY <1>1, <1>3 DEF SameBlock
        <3> QED
            BY <1>3, <1>4, <3>2, <3>3 DEF SameBlock
    <2> QED
        BY <1>1, <2>1 DEF DeadChanged
<1>6. \A x \in Headers : (Main(d, x) <=> Main(c, x)) /\ (Cross(d, x) <=> Cross(c, x))
    BY <1>5 DEF DeadChanged, SameBlock, Main, Cross
<1>7. /\ d.chain \in Seq(Headers) /\ Len(d.chain) = Len(c.chain) + 1 /\ IsInjective(d.chain)
      /\ ToSet(d.chain) = ToSet(c.chain) \cup {new}
      /\ \A j \in 1 .. Len(c.chain) + 1 :
             d.chain[j] = IF j < a + 1 THEN c.chain[j] ELSE IF j = a + 1 THEN new ELSE c.chain[j - 1]
    BY <1>1 DEF IsGrown
<1>8. PlacesOK(d)
    <2>1. ~Main(c, new) /\ ~Cross(c, new)
        BY <1>4 DEF Main, Cross
    <2>2. d.active \in 1 .. Len(d.chain)
        BY <1>1, <1>2, <1>7
    <2> QED
        BY <1>1, <1>2, <1>6, <1>7, <2>1, <2>2 DEF PlacesOK
<1>9. Good(d, None)
    BY <1>1, <1>5, <1>8, DeadChangedKeeps
<1>10. ASSUME NEW j \in 1 .. Len(c.chain)
       PROVE  /\ c.chain[j] \in Headers /\ d.h[c.chain[j]].at = c.h[c.chain[j]].at
              /\ j # a => d.h[c.chain[j]].size = c.h[c.chain[j]].size
              /\ c.h[c.chain[j]].at \in Nat /\ c.h[c.chain[j]].size \in Nat
    <2>1. c.chain[j] \in Headers /\ c.chain[j] # new /\ (j # a => c.chain[j] # b)
        <3>1. c.chain[j] \in Headers /\ c.chain[j] \in ToSet(c.chain)
            BY <1>2 DEF ToSet
        <3>2. j \in DOMAIN c.chain /\ a \in DOMAIN c.chain
            BY <1>2
        <3>3. j # a => c.chain[j] # c.chain[a]
            BY <1>2, <3>2 DEF IsInjective
        <3> QED
            BY <1>1, <3>1, <3>3
    <2>2. c.h[c.chain[j]].at \in Nat /\ c.h[c.chain[j]].size \in Nat
        BY <1>2, <2>1, Types
    <2>3. c.chain[j] # b => d.h[c.chain[j]] = c.h[c.chain[j]]
        BY <1>1, <2>1
    <2>4. c.chain[j] = b => d.h[c.chain[j]].at = c.h[c.chain[j]].at
        BY <1>3
    <2> QED
        BY <2>1, <2>2, <2>3, <2>4
<1>11. ASSUME NEW i \in 1 .. Len(d.chain) PROVE TileOK(d, i)
    <2>0. i \in Nat /\ i >= 1 /\ i <= Len(c.chain) + 1 /\ Len(d.chain) = Len(c.chain) + 1
        BY <1>2, <1>7
    <2>1. CASE i < a
        <3>1. i \in 1 .. Len(c.chain) /\ i + 1 \in 1 .. Len(c.chain) /\ i + 1 < a + 1 /\ i < a + 1
              /\ i # Len(c.chain) /\ i # Len(d.chain) /\ i + 1 \in 1 .. Len(c.chain) + 1 /\ i # a
            BY <1>2, <2>0, <2>1
        <3>2. d.chain[i] = c.chain[i] /\ d.chain[i + 1] = c.chain[i + 1]
            BY <1>7, <2>0, <3>1
        <3>3. TileOK(c, i)
            BY <3>1 DEF Tiled
        <3>4. d.h[c.chain[i]].at = c.h[c.chain[i]].at /\ d.h[c.chain[i]].size = c.h[c.chain[i]].size
              /\ d.h[c.chain[i + 1]].at = c.h[c.chain[i + 1]].at
            BY <1>10, <3>1
        <3> QED
            BY <3>1, <3>2, <3>3, <3>4 DEF TileOK
    <2>2. CASE i = a
        <3>1. i \in 1 .. Len(c.chain) /\ i < a + 1 /\ i # Len(d.chain)
              /\ i + 1 \in 1 .. Len(c.chain) + 1 /\ ~(i + 1 < a + 1) /\ i + 1 = a + 1
            BY <1>2, <2>0, <2>2
        <3>2. d.chain[i] = b /\ d.chain[i + 1] = new
            BY <1>7, <2>0, <2>2, <3>1
        <3>3. TileOK(c, i)
            BY <3>1 DEF Tiled
        <3>4. i = 1 => c.h[b].at = 0
            BY <2>2, <3>3 DEF TileOK
        <3> QED
            BY <1>3, <3>1, <3>2, <3>4 DEF TileOK
    <2>3. CASE i = a + 1
        <3>1. /\ a \in 1 .. Len(c.chain) /\ ~(i < a + 1) /\ i # 1
              /\ i = Len(d.chain) => a = Len(c.chain)
              /\ i # Len(d.chain) => /\ a # Len(c.chain) /\ i + 1 \in 1 .. Len(c.chain) + 1
                                     /\ ~(i + 1 < a + 1) /\ i + 1 # a + 1 /\ (i + 1) - 1 = a + 1
                                     /\ a + 1 \in 1 .. Len(c.chain)
            BY <1>2, <2>0, <2>3
        <3>2. d.chain[i] = new
            BY <1>7, <2>0, <2>3, <3>1
        <3>3. i # Len(d.chain) => d.chain[i + 1] = c.chain[a + 1]
            BY <1>7, <3>1
        <3>4. TileOK(c, a)
            BY <3>1 DEF Tiled
        <3>5. /\ a = Len(c.chain) => c.h[b].at + c.h[b].size = Total
              /\ a # Len(c.chain) => c.h[b].at + c.h[b].size = c.h[c.chain[a + 1]].at
            BY <3>4 DEF TileOK
        <3>6. d.h[new].at + d.h[new].size = c.h[b].at + c.h[b].size
            <4>1. c.h[b].at \in Nat /\ c.h[b].size \in Nat
                BY <1>2, Types
            <4> QED
                BY <1>3, <4>1
        <3>7. i # Len(d.chain) => d.h[c.chain[a + 1]].at = c.h[c.chain[a + 1]].at
            BY <1>10, <3>1
        <3> QED
            BY <3>1, <3>2, <3>3, <3>5, <3>6, <3>7 DEF TileOK
    <2>4. CASE i > a + 1
        <3> DEFINE k == i - 1
        <3>1. /\ k \in 1 .. Len(c.chain) /\ ~(i < a + 1) /\ i # a + 1 /\ i # 1 /\ k # a
              /\ i \in 1 .. Len(c.chain) + 1
              /\ i = Len(d.chain) => k = Len(c.chain)
              /\ i # Len(d.chain) => /\ k # Len(c.chain) /\ i + 1 \in 1 .. Len(c.chain) + 1
                                     /\ ~(i + 1 < a + 1) /\ i + 1 # a + 1 /\ (i + 1) - 1 = k + 1
                                     /\ k + 1 \in 1 .. Len(c.chain)
            BY <1>2, <2>0, <2>4
        <3>2. d.chain[i] = c.chain[k]
            BY <1>7, <3>1
        <3> HIDE DEF k
        <3>3. i # Len(d.chain) => d.chain[i + 1] = c.chain[k + 1]
            BY <1>7, <3>1
        <3>4. TileOK(c, k)
            BY <3>1 DEF Tiled
        <3>5. d.h[c.chain[k]].at = c.h[c.chain[k]].at /\ d.h[c.chain[k]].size = c.h[c.chain[k]].size
            BY <1>10, <3>1
        <3>6. i # Len(d.chain) => d.h[c.chain[k + 1]].at = c.h[c.chain[k + 1]].at
            BY <1>10, <3>1
        <3> QED
            BY <3>1, <3>2, <3>3, <3>4, <3>5, <3>6 DEF TileOK
    <2> QED
        BY <1>2, <2>0, <2>1, <2>2, <2>3, <2>4
<1> QED
    BY <1>1, <1>6, <1>9, <1>11, Zenon DEF d

\* The block that is translated next is the one behind, unless it starts too late.
LEMMA AdvancedKeeps ==
    ASSUME NEW c, Good(c, None), \A i \in 1 .. Len(c.chain) : TileOK(c, i), NEW full,
           full <=> (c.active = Len(c.chain) \/ c.h[c.chain[c.active + 1]].at > LastStart)
    PROVE  LET d == [c EXCEPT !.active = IF full THEN 1 ELSE @ + 1]
           IN  /\ Good(d, None) /\ Tiled(d) /\ d.running = c.running
               /\ \A x \in Headers : Main(c, x) => Main(d, x)
<1> DEFINE a == IF full THEN 1 ELSE c.active + 1
           d == [c EXCEPT !.active = a]
<1>1. /\ c \in CacheSet /\ PlacesOK(c) /\ PartsOK(c) /\ c.chain \in Seq(Headers)
      /\ Len(c.chain) \in Nat /\ c.active \in Nat /\ c.active >= 1 /\ c.active <= Len(c.chain)
    BY DEF Good, CacheSet, PlacesOK
<1>2. a \in 1 .. Len(c.chain) /\ a \in Nat
    BY <1>1
<1>3. c.h[c.chain[a]].at + MaxSize <= Total
    <2>1. Total \in Nat /\ MaxSize \in Nat /\ LastStart \in Nat /\ LastStart + MaxSize <= Total
          /\ MaxSize <= Total
        BY SizesAssumption
    <2>2. c.chain[a] \in Headers
        BY <1>1, <1>2
    <2>3. c.h[c.chain[a]].at \in Nat
        BY <1>1, <2>2, Types
    <2>4. CASE full
        <3>1. a = 1 /\ 1 \in 1 .. Len(c.chain)
            BY <1>1, <2>4
        <3>2. c.h[c.chain[1]].at = 0
            BY <3>1 DEF TileOK
        <3> QED
            BY <2>1, <3>1, <3>2
    <2>5. CASE ~full
        <3>1. a = c.active + 1 /\ ~(c.h[c.chain[c.active + 1]].at > LastStart)
            BY <2>5
        <3> HIDE DEF a
        <3>2. ~(c.h[c.chain[a]].at > LastStart)
            BY <3>1
        <3> QED
            BY <2>1, <2>3, <3>2
    <2> QED
        BY <2>4, <2>5
<1>4. [c EXCEPT !.active = IF full THEN 1 ELSE @ + 1] = d
    OBVIOUS
<1> HIDE DEF a
<1>5. /\ d \in CacheSet /\ d.active = a /\ d.h = c.h /\ d.chain = c.chain /\ d.free = c.free
      /\ d.pages = c.pages /\ d.used = c.used /\ d.freePages = c.freePages /\ d.running = c.running
    <2>1. c \in CacheSet /\ a \in Nat
        BY <1>1, <1>2
    <2> QED
        BY <2>1 DEF CacheSet
<1> HIDE DEF d
<1>6. \A x \in Headers : (Main(d, x) <=> Main(c, x)) /\ (Cross(d, x) <=> Cross(c, x))
    BY <1>5 DEF Main, Cross
<1>7. PlacesOK(d)
    BY <1>1, <1>2, <1>5, <1>6 DEF PlacesOK
<1>8. DeadChanged(c, d)
    BY <1>1, <1>5 DEF DeadChanged, SameBlock, PartsOK, PartOK
<1>9. Good(d, None)
    BY <1>5, <1>7, <1>8, DeadChangedKeeps
<1>10. Tiled(d)
    BY <1>3, <1>5 DEF Tiled, TileOK
<1> QED
    BY <1>4, <1>5, <1>6, <1>9, <1>10

LEMMA ClosedKeeps ==
    ASSUME NEW c, NEW b \in Headers, Good(c, b), Main(c, b), Tiled(c), b = c.chain[c.active],
           c.h[b].size >= MaxSize, c.free # {}, NEW written \in Written
    PROVE  LET d == Close(c, written)
           IN  Good(d, None) /\ Tiled(d) /\ d.running = c.running /\ Main(d, b)
<1> DEFINE unused == c.h[b].size - written
           size == RoundedUp(written)
           new == Min(c.free)
           c1 == Header(c, b, "link", [i \in Links |-> NoLink])
           split == Splits(c1, b, new, size)
           c2 == IF unused > Align THEN split ELSE c1
           full == c2.active = Len(c2.chain) \/ c2.h[c2.chain[c2.active + 1]].at > LastStart
           d == [c2 EXCEPT !.active = IF full THEN 1 ELSE @ + 1]
<1>1. /\ Good(c1, None) /\ SameLists(c, c1) /\ c1.free = c.free
      /\ \A x \in Headers : SameHeader(c1.h[x], c.h[x])
    BY LinksReset
<1>2. c \in CacheSet /\ c.chain \in Seq(Headers) /\ PlacesOK(c) /\ c.free \in SUBSET Headers
    BY DEF Good, CacheSet
<1>3. Close(c, written) = d
    <2>1. /\ c1.active = c.active /\ c1.chain = c.chain /\ c1.h[b].at = c.h[b].at
          /\ c1.h[b].size = c.h[b].size
        BY <1>1, Zenon DEF SameLists, SameHeader
    <2> DEFINE rest == [Blank EXCEPT !.at = c.h[b].at + size, !.size = c.h[b].size - size]
    <2>2. [Header(c1, b, "size", size) EXCEPT !.h[new] = rest, !.free = @ \ {new},
               !.chain = InsertAt(@, c.active + 1, new)] = split
        <3> HIDE DEF c1, new, size
        <3> QED
            BY <2>1 DEF Splits
    <2>3. size = (((written - 1) \div Align) + 1) * Align
        BY DEF RoundedUp
    <2>4. b = c.chain[c.active]
        OBVIOUS
    <2>5. split = [Header(c1, c.chain[c.active], "size", (((written - 1) \div Align) + 1) * Align)
                      EXCEPT
                          !.h[new] = [Blank EXCEPT
                              !.at = c.h[c.chain[c.active]].at + (((written - 1) \div Align) + 1) * Align,
                              !.size = c.h[c.chain[c.active]].size - (((written - 1) \div Align) + 1) * Align],
                          !.free = @ \ {new}, !.chain = InsertAt(@, c.active + 1, new)]
        <3> HIDE DEF c1, new, size, split
        <3> QED
            BY <2>2, <2>3, <2>4
    <2>6. c1 = Header(c, c.chain[c.active], "link", [i \in Links |-> NoLink])
        OBVIOUS
    <2>7. unused = c.h[c.chain[c.active]].size - written
        OBVIOUS
    <2> HIDE DEF c1, split, unused, size
    <2> QED
        BY <2>5, <2>6, <2>7 DEF Close
<1>4. Tiled(c1)
    <2>1. \A x \in ToSet(c.chain) : x \in Headers
        BY <1>2 DEF ToSet
    <2>2. c1.chain = c.chain /\ c1.active = c.active
        BY <1>1 DEF SameLists
    <2>3. \A x \in ToSet(c.chain) : c1.h[x].at = c.h[x].at /\ c1.h[x].size = c.h[x].size
        BY <1>1, <2>1, Zenon DEF SameHeader
    <2> HIDE DEF c1
    <2> QED
        BY <1>2, <2>2, <2>3, TiledStays
<1>5. Main(c1, b) /\ c1.running = c.running /\ b = c1.chain[c1.active] /\ new \in c1.free
    <2>1. c.free \in SUBSET Nat
        BY <1>2, Numbers
    <2>2. new \in c.free
        BY <2>1, SmallestIsMember
    <2> HIDE DEF new, c1
    <2> QED
        BY <1>1, <2>2 DEF SameLists, SameHeader, Main
<1> HIDE DEF c1, new
<1>6. unused > Align => size \in Nat /\ size <= c1.h[b].size
    <2>1. written \in Nat \ {0} /\ Align \in Nat
        BY SizesAssumption
    <2>2. c.h[b].size \in Nat /\ c1.h[b].size = c.h[b].size
        BY <1>1, <1>2, Types DEF SameHeader
    <2>3. size \in Nat /\ size < written + Align
        BY <2>1, RoundedUpIs
    <2> HIDE DEF size
    <2> QED
        BY <2>1, <2>2, <2>3
<1> HIDE DEF size
<1>7. unused > Align =>
          /\ Good(split, None) /\ split.active = c1.active /\ split.running = c1.running
          /\ \A i \in 1 .. Len(split.chain) : TileOK(split, i)
          /\ \A x \in Headers : Main(c1, x) => Main(split, x)
    BY <1>1, <1>4, <1>5, <1>6, SplitsKeeps
<1> HIDE DEF unused, split
<1>8. /\ Good(c2, None) /\ c2.running = c.running /\ Main(c2, b)
      /\ \A i \in 1 .. Len(c2.chain) : TileOK(c2, i)
    <2>1. CASE unused > Align
        <3>1. c2 = split
            BY <2>1
        <3> HIDE DEF c2
        <3> QED
            BY <1>5, <1>7, <2>1, <3>1
    <2>2. CASE ~(unused > Align)
        BY <1>1, <1>4, <1>5, <2>2 DEF Tiled
    <2> QED
        BY <2>1, <2>2
<1> HIDE DEF c2
<1>9. full <=> (c2.active = Len(c2.chain) \/ c2.h[c2.chain[c2.active + 1]].at > LastStart)
    OBVIOUS
<1> HIDE DEF full
<1>10. /\ Good(d, None) /\ Tiled(d) /\ d.running = c2.running
       /\ \A x \in Headers : Main(c2, x) => Main(d, x)
    BY <1>8, <1>9, AdvancedKeeps
<1> QED
    BY <1>3, <1>8, <1>10

LEMMA TwoMembers ==
    ASSUME NEW S, IsFiniteSet(S), Cardinality(S) > 1
    PROVE  \E u, v \in S : u # v
<1> SUFFICES ASSUME \A u, v \in S : u = v PROVE FALSE
    OBVIOUS
<1>1. CASE S = {}
    BY <1>1, FS_EmptySet
<1>2. CASE S # {}
    <2>1. PICK u \in S : TRUE
        BY <1>2
    <2>2. S = {u}
        BY <2>1
    <2>3. Cardinality(S) = 1
        BY <2>2, FS_Singleton
    <2> QED
        BY <2>3
<1> QED
    BY <1>1, <1>2

\* The header of the block to be translated forgets what it was.
NewHeader(c, b) == Header(Header(c, b, "code", {}), b, "fresh", TRUE)

LEMMA NewHeaderIs ==
    ASSUME NEW c, Good(c, None), NEW b \in Headers, c.h[b].page = None
    PROVE  LET d == NewHeader(c, b)
           IN  /\ Good(d, None) /\ SameLists(c, d) /\ d.free = c.free /\ d.pages = c.pages
               /\ d.h[b].page = None /\ d.h[b].code = {} /\ d.h[b].fresh = TRUE
               /\ \A x \in Headers : d.h[x].at = c.h[x].at /\ d.h[x].size = c.h[x].size
<1> DEFINE e == [c.h[b] EXCEPT !.code = {}]
           c1 == WithHeader(c, b, e)
           f == [c1.h[b] EXCEPT !.fresh = TRUE]
           d == WithHeader(c1, b, f)
<1>1. c \in CacheSet /\ PartsOK(c) /\ PlacesOK(c)
    BY DEF Good
<1>2. NewHeader(c, b) = d
    <2>1. Header(c, b, "code", {}) = c1
        BY DEF Header, WithHeader
    <2> QED
        BY <2>1 DEF NewHeader, Header, WithHeader
<1>3. /\ e \in HeaderSet /\ e.page = None /\ e.code = {} /\ e.at = c.h[b].at /\ e.size = c.h[b].size
      /\ e.other = c.h[b].other
    <2>1. c.h[b] \in HeaderSet /\ {} \in SUBSET Addresses
        BY <1>1, Types
    <2> QED
        BY <2>1 DEF HeaderSet
<1> HIDE DEF e
<1>4. /\ c1 \in CacheSet /\ SameLists(c, c1) /\ c1.free = c.free /\ c1.pages = c.pages
      /\ c1.h[b] = e /\ \A x \in Headers : x # b => c1.h[x] = c.h[x]
    BY <1>1, <1>3, HeaderIs
<1> HIDE DEF c1
<1>5. /\ f \in HeaderSet /\ f.page = None /\ f.code = {} /\ f.fresh = TRUE /\ f.at = c.h[b].at
      /\ f.size = c.h[b].size /\ f.other = c.h[b].other
    <2>1. c1.h[b] \in HeaderSet /\ c1.h[b] = e
        BY <1>3, <1>4
    <2> QED
        BY <1>3, <2>1 DEF HeaderSet
<1> HIDE DEF f
<1>6. /\ d \in CacheSet /\ SameLists(c1, d) /\ d.free = c1.free /\ d.pages = c1.pages
      /\ d.h[b] = f /\ \A x \in Headers : x # b => d.h[x] = c1.h[x]
    BY <1>4, <1>5, HeaderIs
<1> HIDE DEF d
<1>7. \A x \in Headers : x # b => d.h[x] = c.h[x]
    BY <1>4, <1>6
<1>8. SameLists(c, d) /\ d.free = c.free /\ d.pages = c.pages
    BY <1>4, <1>6 DEF SameLists
<1>9. ASSUME NEW x \in Headers
      PROVE  IF c.h[x].page = None THEN d.h[x].page = None /\ d.h[x].other = None
             ELSE SameBlock(d.h[x], c.h[x])
    <2>1. c.h[x].page = None => c.h[x].other = None
        BY <1>1 DEF PartsOK, PartOK
    <2>2. x = b => c.h[x].page = None /\ d.h[x].page = None /\ d.h[x].other = None
        BY <1>5, <1>6, <2>1
    <2>3. x # b => d.h[x] = c.h[x]
        BY <1>7
    <2> QED
        BY <2>1, <2>2, <2>3 DEF SameBlock
<1>10. DeadChanged(c, d)
    BY <1>8, <1>9 DEF DeadChanged, SameLists
<1>11. \A x \in Headers : (Main(d, x) <=> Main(c, x)) /\ (Cross(d, x) <=> Cross(c, x))
    BY <1>9 DEF SameBlock, Main, Cross
<1>12. PlacesOK(d)
    BY <1>1, <1>8, <1>11 DEF PlacesOK, SameLists
<1>13. Good(d, None)
    BY <1>6, <1>10, <1>12, DeadChangedKeeps
<1> QED
    BY <1>2, <1>5, <1>6, <1>7, <1>8, <1>13

\* Create: the new block can run, and no other block was harmed.
LEMMA CreateKeeps ==
    ASSUME NEW c, Good(c, None), Tiled(c), NEW page \in Pages, NEW offset \in Offsets,
           IsCode(c, page), Cardinality(c.free) > 1, NEW len \in Lengths, NEW written \in Written,
           offset + len <= PageSize \/ page + 1 \in Pages
    PROVE  LET d == Create(c, <<page, offset>>, len, written)
           IN  Good(d, None) /\ Tiled(d) /\ Main(d, c.chain[c.active])
<1> DEFINE c1 == Open(c)
           b == c1.chain[c1.active]
           here == IF offset + len <= PageSize THEN len ELSE PageSize - offset
           new == NewHeader(c1, b)
           g == HandlerOf(c, page)
           c2 == Part(new, b, b, g, offset, here, offset + 1)
           c3 == IF here = len THEN c2 ELSE Crossed(c2, b, page + 1, len - here)
           d == Close(c3, written)
<1>1. Create(c, <<page, offset>>, len, written) = d
    <2>1. <<page, offset>>[1] = page /\ <<page, offset>>[2] = offset
        OBVIOUS
    <2> QED
        BY <2>1 DEF Create, NewHeader
<1>2. /\ Good(c1, None) /\ Tiled(c1) /\ c1.active = c.active /\ b = c.chain[c.active]
      /\ b \in ToSet(c1.chain) /\ c1.h[b].page = None /\ c1.h[b].size >= MaxSize
      /\ c.free \subseteq c1.free /\ c1.used = c.used
      /\ \A k \in Handlers : c1.pages[k].phys = c.pages[k].phys
    <2>1. Opened(c, c1)
        BY OpenKeeps
    <2> HIDE DEF c1
    <2> QED
        BY <2>1 DEF Opened
<1>3. /\ c1 \in CacheSet /\ PlacesOK(c1) /\ c1.chain \in Seq(Headers)
      /\ ToSet(c1.chain) \subseteq Headers /\ b \in Headers
    <2>1. c1 \in CacheSet /\ PlacesOK(c1)
        BY <1>2 DEF Good
    <2>2. c1.chain \in Seq(Headers)
        BY <2>1 DEF CacheSet
    <2>3. ToSet(c1.chain) \subseteq Headers
        BY <2>2 DEF ToSet
    <2> QED
        BY <1>2, <2>1, <2>2, <2>3
<1>4. b = c1.chain[c1.active]
    OBVIOUS
<1> HIDE DEF c1, b
<1>5. /\ Good(new, None) /\ SameLists(c1, new) /\ new.free = c1.free /\ new.pages = c1.pages
      /\ new.h[b].page = None /\ new.h[b].code = {} /\ new.h[b].fresh = TRUE
      /\ \A x \in Headers : new.h[x].at = c1.h[x].at /\ new.h[x].size = c1.h[x].size
    BY <1>2, <1>3, NewHeaderIs
<1> HIDE DEF new
<1>6. g \in Used(c) /\ c.pages[g].phys = page
    <2>1. HandlersOK(c)
        BY DEF Good
    <2> QED
        BY <2>1, HandlerIs
<1> HIDE DEF g
<1>7. g \in Used(new) /\ g \in Handlers /\ new.pages[g].phys = page
    <2>1. c \in CacheSet
        BY DEF Good
    <2>2. g \in Handlers
        BY <1>6, <2>1, UsedHandlers
    <2> QED
        BY <1>2, <1>5, <1>6, <2>2 DEF Used, SameLists
<1>8. /\ len \in Nat /\ len >= 1 /\ len <= PageSize /\ offset \in Nat /\ PageSize \in Nat
      /\ offset < PageSize
    BY SizesAssumption, Numbers
<1>9. /\ here \in Nat \ {0} /\ offset + here - 1 \in Offsets /\ offset + 1 \in 0 .. PageSize
      /\ here # len => len - here \in 1 .. PageSize /\ page + 1 \in Pages
    BY <1>8, Numbers
<1> HIDE DEF here
<1>10. c2 \in CacheSet /\ PartTaken(new, c2, b, b, g, offset, offset + here - 1, offset + 1)
    <2>1. new \in CacheSet
        BY <1>5 DEF Good
    <2> QED
        BY <1>3, <1>7, <1>9, <2>1, PartIs
<1> HIDE DEF c2
<1>11. Good(c2, b) /\ Main(c2, b) /\ Translating(c2, b)
    <2>1. b \in ToSet(new.chain)
        BY <1>2, <1>5 DEF SameLists
    <2> QED
        BY <1>3, <1>5, <1>7, <1>9, <1>10, <2>1, MainTaken
<1>12. /\ c2.chain = c1.chain /\ c2.active = c1.active /\ c2.free = c1.free
       /\ \A x \in Headers : c2.h[x].at = c1.h[x].at /\ c2.h[x].size = c1.h[x].size
       /\ c2.h[b].page = g
    BY <1>5, <1>10 DEF PartTaken, SameLists
<1>13. Tiled(c2) /\ c2.h[b].size >= MaxSize /\ b = c2.chain[c2.active]
    <2>1. Tiled(c2)
        BY <1>2, <1>3, <1>12, TiledStays
    <2> QED
        BY <1>2, <1>3, <1>4, <1>12, <2>1
<1>14. c2.pages[c2.h[b].page].phys = page
    <2>1. new \in CacheSet /\ CountsOK(new) /\ HandlersOK(new)
        BY <1>5 DEF Good
    <2>2. \A k \in Handlers : c2.pages[k].phys = new.pages[k].phys
        BY <1>3, <1>5, <1>7, <1>10, <2>1, PartTakenCounts
    <2> QED
        BY <1>7, <1>12, <2>2
<1>15. PICK u \in c2.free, v \in c2.free : u # v
    <2>1. c.free \subseteq Headers
        BY DEF Good, CacheSet
    <2>2. IsFiniteSet(c.free)
        BY <2>1, PoolsAssumption, FS_Subset
    <2>3. \E u, v \in c.free : u # v
        BY <2>2, TwoMembers
    <2> QED
        BY <1>2, <1>12, <2>3
<1>16. /\ Good(c3, b) /\ Main(c3, b) /\ c3.free # {} /\ c3.chain = c2.chain /\ c3.active = c2.active
       /\ \A y \in ToSet(c2.chain) : c3.h[y].at = c2.h[y].at /\ c3.h[y].size = c2.h[y].size
    <2>1. CASE here = len
        BY <1>11, <1>15, <2>1
    <2>2. CASE here # len
        <3> DEFINE p == page + 1
                   rest == len - here
                   e == Crossed(c2, b, p, rest)
        <3>1. p \in Pages /\ rest \in 1 .. PageSize /\ c2.pages[c2.h[b].page].phys # p
            <4>1. page \in Nat /\ p \in Pages /\ rest \in 1 .. PageSize
                BY <1>9, <2>2, Numbers
            <4>2. page # page + 1
                BY <4>1
            <4> QED
                BY <1>14, <4>1, <4>2
        <3> HIDE DEF p, rest
        <3>2. /\ Good(e, b) /\ Main(e, b) /\ e.free # {} /\ e.chain = c2.chain /\ e.active = c2.active
              /\ \A y \in ToSet(c2.chain) : e.h[y].at = c2.h[y].at /\ e.h[y].size = c2.h[y].size
            BY <1>3, <1>11, <1>15, <3>1, CrossedKeeps
        <3>3. c3 = e
            BY <2>2 DEF p, rest
        <3> HIDE DEF e, c3
        <3> QED
            BY <3>2, <3>3
    <2> QED
        BY <2>1, <2>2
<1> HIDE DEF c3
<1>17. Tiled(c3) /\ c3.h[b].size >= MaxSize /\ b = c3.chain[c3.active]
    <2>1. Good(c2, b) /\ PlacesOK(c2) /\ c2.chain \in Seq(Headers)
        BY <1>3, <1>11, <1>12 DEF Good
    <2>2. Tiled(c3)
        BY <1>13, <1>16, <2>1, TiledStays
    <2>3. b \in ToSet(c2.chain)
        BY <1>2, <1>12
    <2> QED
        BY <1>13, <1>16, <2>2, <2>3
<1>18. Good(d, None) /\ Tiled(d) /\ Main(d, b)
    BY <1>3, <1>16, <1>17, ClosedKeeps
<1> QED
    BY <1>1, <1>2, <1>18

---------------------------------------------------------------------------
(* The steps *)

\* Another block runs, or none.
LEMMA RunningIs ==
    ASSUME NEW c, Good(c, None), Tiled(c), NEW r \in Headers \cup {None},
           AllNoticed => r = None \/ Main(c, r)
    PROVE  LET d == [c EXCEPT !.running = r]
           IN  Good(d, None) /\ Tiled(d) /\ RunOK(d)
<1> DEFINE d == [c EXCEPT !.running = r]
<1>1. c \in CacheSet /\ PartsOK(c) /\ PlacesOK(c)
    BY DEF Good
<1>2. /\ d \in CacheSet /\ d.running = r /\ d.h = c.h /\ d.chain = c.chain /\ d.active = c.active
      /\ d.free = c.free /\ d.pages = c.pages /\ d.used = c.used /\ d.freePages = c.freePages
    BY <1>1 DEF CacheSet
<1> HIDE DEF d
<1>3. \A x \in Headers : (Main(d, x) <=> Main(c, x)) /\ (Cross(d, x) <=> Cross(c, x))
    BY <1>2 DEF Main, Cross
<1>4. DeadChanged(c, d)
    BY <1>1, <1>2 DEF DeadChanged, SameBlock, PartsOK, PartOK
<1>5. PlacesOK(d)
    BY <1>1, <1>2, <1>3 DEF PlacesOK
<1>6. Good(d, None)
    BY <1>2, <1>4, <1>5, DeadChangedKeeps
<1>7. Tiled(d)
    BY <1>2 DEF Tiled, TileOK
<1>8. RunOK(d)
    BY <1>2, <1>3 DEF RunOK
<1> QED
    BY <1>6, <1>7, <1>8 DEF d

LEMMA TiledKept ==
    ASSUME NEW c, Good(c, None), Tiled(c), NEW d, Kept(c, d, None)
    PROVE  Tiled(d)
<1>1. PlacesOK(c) /\ c.chain \in Seq(Headers)
    BY DEF Good, CacheSet
<1>2. \A x \in ToSet(c.chain) : x \in Headers
    BY <1>1 DEF ToSet
<1>3. /\ d.chain = c.chain /\ d.active = c.active
      /\ \A x \in ToSet(c.chain) : d.h[x].at = c.h[x].at /\ d.h[x].size = c.h[x].size
    BY <1>2 DEF Kept
<1> QED
    BY <1>1, <1>3, TiledStays

LEMMA FoundIsMain ==
    ASSUME NEW c, Good(c, None), NEW page \in Pages, NEW offset \in Offsets,
           NEW b \in FindBlocks(c, <<page, offset>>)
    PROVE  b \in Headers /\ Main(c, b)
<1>1. c \in CacheSet /\ HandlersOK(c)
    BY DEF Good
<1>2. b \in Headers /\ IsCode(c, page) /\ c.h[b].page = HandlerOf(c, page) /\ c.h[b].index = offset + 1
    BY DEF FindBlocks
<1>3. HandlerOf(c, page) \in Handlers
    BY <1>1, <1>2, HandlerIs, UsedHandlers
<1> QED
    BY <1>2, <1>3, Numbers DEF Main

\* LinkTo: both ends know of the link.
IsLinked(c, d, b, i, to, target) ==
    /\ d \in CacheSet /\ SameLists(c, d) /\ d.free = c.free /\ d.pages = c.pages
    /\ \A x \in Headers : SameHeader(d.h[x], c.h[x])
    /\ \A x \in Headers, j \in Links :
          /\ d.h[x].link[j].to = IF x = b /\ j = i THEN to ELSE c.h[x].link[j].to
          /\ d.h[x].link[j].target = IF x = b /\ j = i THEN target ELSE c.h[x].link[j].target
          /\ d.h[x].link[j].from = c.h[x].link[j].from \cup IF x = to /\ j = i THEN {b} ELSE {}

LEMMA LinkToIs ==
    ASSUME NEW c \in CacheSet, NEW b \in Headers, NEW i \in Links, NEW to \in Headers,
           NEW target, target = <<c.pages[c.h[to].page].phys, c.h[to].start>>, target \in Addresses
    PROVE  IsLinked(c, LinkTo(c, b, i, to), b, i, to, target)
<1> DEFINE l == [c.h[b].link[i] EXCEPT !.to = to, !.target = target]
           e == [c.h[b] EXCEPT !.link = [@ EXCEPT ![i] = l]]
           c1 == WithHeader(c, b, e)
           m == [c1.h[to].link[i] EXCEPT !.from = @ \cup {b}]
           f == [c1.h[to] EXCEPT !.link = [@ EXCEPT ![i] = m]]
           d == WithHeader(c1, to, f)
<1>1. LinkTo(c, b, i, to) = d
    <2> DEFINE h == [c.h EXCEPT ![b].link[i] = [@ EXCEPT !.to = to, !.target = target]]
    <2>1. LinkTo(c, b, i, to) = [c EXCEPT !.h = [h EXCEPT ![to].link[i].from = @ \cup {b}]]
        BY DEF LinkTo
    <2>2. c1 = [c EXCEPT !.h = h]
        BY DEF WithHeader
    <2>3. c1.h = h
        BY <2>2 DEF CacheSet
    <2>4. [h EXCEPT ![to].link[i].from = @ \cup {b}] =
              [h EXCEPT ![to] = [h[to] EXCEPT
                  !.link = [@ EXCEPT ![i] = [h[to].link[i] EXCEPT !.from = @ \cup {b}]]]]
        <3> HIDE DEF h
        <3> QED
            OBVIOUS
    <2>5. d = [c1 EXCEPT !.h = [c1.h EXCEPT ![to] = f]]
        BY DEF WithHeader
    <2>6. [c1 EXCEPT !.h = [c1.h EXCEPT ![to] = f]] = [c EXCEPT !.h = [c1.h EXCEPT ![to] = f]]
        <3> HIDE DEF f
        <3> QED
            BY <2>2, <2>3, Zenon
    <2> HIDE DEF c1, h, d
    <2> QED
        BY <2>1, <2>3, <2>4, <2>5, <2>6
<1>2. /\ c.h[b] \in HeaderSet /\ c.h[b].link \in [Links -> LinkSet] /\ c.h[b].link[i] \in LinkSet
    BY DEF CacheSet, HeaderSet
<1>3. l \in LinkSet /\ l.to = to /\ l.target = target /\ l.from = c.h[b].link[i].from
    BY <1>2 DEF LinkSet, Targets
<1> HIDE DEF l
<1>4. e \in HeaderSet /\ SameHeader(e, c.h[b]) /\ e.link = [c.h[b].link EXCEPT ![i] = l]
    BY <1>2, <1>3 DEF HeaderSet, SameHeader
<1> HIDE DEF e
<1>5. /\ c1 \in CacheSet /\ SameLists(c, c1) /\ c1.free = c.free /\ c1.pages = c.pages
      /\ c1.h[b] = e /\ \A x \in Headers : x # b => c1.h[x] = c.h[x]
    BY <1>4, HeaderIs
<1> HIDE DEF c1
<1>6. c1.h[to] \in HeaderSet /\ c1.h[to].link \in [Links -> LinkSet] /\ c1.h[to].link[i] \in LinkSet
    BY <1>5 DEF CacheSet, HeaderSet
<1>7. /\ m \in LinkSet /\ m.to = c1.h[to].link[i].to /\ m.target = c1.h[to].link[i].target
      /\ m.from = c1.h[to].link[i].from \cup {b}
    BY <1>6 DEF LinkSet
<1> HIDE DEF m
<1>8. f \in HeaderSet /\ SameHeader(f, c1.h[to]) /\ f.link = [c1.h[to].link EXCEPT ![i] = m]
    BY <1>6, <1>7 DEF HeaderSet, SameHeader
<1> HIDE DEF f
<1>9. /\ d \in CacheSet /\ SameLists(c1, d) /\ d.free = c1.free /\ d.pages = c1.pages
      /\ d.h[to] = f /\ \A x \in Headers : x # to => d.h[x] = c1.h[x]
    BY <1>5, <1>8, HeaderIs
<1> HIDE DEF d
<1>10. SameLists(c, d)
    BY <1>5, <1>9 DEF SameLists
<1>11. \A x \in Headers : SameHeader(d.h[x], c.h[x])
    BY <1>4, <1>5, <1>8, <1>9 DEF SameHeader
<1>12. ASSUME NEW x \in Headers, NEW j \in Links
       PROVE  /\ c1.h[x].link[j].to = IF x = b /\ j = i THEN to ELSE c.h[x].link[j].to
              /\ c1.h[x].link[j].target = IF x = b /\ j = i THEN target ELSE c.h[x].link[j].target
              /\ c1.h[x].link[j].from = c.h[x].link[j].from
    <2>1. x = b /\ j = i => c1.h[x].link[j] = l
        BY <1>2, <1>4, <1>5
    <2>2. ~(x = b /\ j = i) => c1.h[x].link[j] = c.h[x].link[j]
        BY <1>2, <1>4, <1>5
    <2> QED
        BY <1>3, <2>1, <2>2
<1>13. ASSUME NEW x \in Headers, NEW j \in Links
       PROVE  /\ d.h[x].link[j].to = c1.h[x].link[j].to
              /\ d.h[x].link[j].target = c1.h[x].link[j].target
              /\ d.h[x].link[j].from = c1.h[x].link[j].from \cup IF x = to /\ j = i THEN {b} ELSE {}
    <2>1. x = to /\ j = i => d.h[x].link[j] = m
        BY <1>6, <1>8, <1>9
    <2>2. ~(x = to /\ j = i) => d.h[x].link[j] = c1.h[x].link[j]
        BY <1>6, <1>8, <1>9
    <2> QED
        BY <1>7, <2>1, <2>2
<1>14. ASSUME NEW x \in Headers, NEW j \in Links
       PROVE  /\ d.h[x].link[j].to = IF x = b /\ j = i THEN to ELSE c.h[x].link[j].to
              /\ d.h[x].link[j].target = IF x = b /\ j = i THEN target ELSE c.h[x].link[j].target
              /\ d.h[x].link[j].from = c.h[x].link[j].from \cup IF x = to /\ j = i THEN {b} ELSE {}
    BY <1>12, <1>13
<1> QED
    BY <1>1, <1>5, <1>9, <1>10, <1>11, <1>14 DEF IsLinked

LEMMA LinkToKeeps ==
    ASSUME NEW c, Good(c, None), Tiled(c), NEW b \in Headers, AllNoticed => Main(c, b),
           NEW i \in Links, c.h[b].link[i].to = None, NEW to \in Headers, Main(c, to)
    PROVE  LET d == LinkTo(c, b, i, to)
           IN  Good(d, None) /\ Tiled(d) /\ Main(d, to)
<1> DEFINE d == LinkTo(c, b, i, to)
           target == <<c.pages[c.h[to].page].phys, c.h[to].start>>
<1>1. c \in CacheSet /\ PartsOK(c) /\ HandlersOK(c) /\ CountsOK(c) /\ PlacesOK(c) /\ LinksOK(c, None)
    BY DEF Good
<1>2. target \in Addresses
    <2>1. c.h[to].page \in Used(c)
        BY <1>1 DEF CountsOK, Main
    <2>2. c.pages[c.h[to].page].phys \in Pages
        BY <1>1, <2>1 DEF HandlersOK
    <2>3. c.h[to].start \in Offsets
        BY <1>1, Types
    <2> QED
        BY <2>2, <2>3 DEF Addresses
<1>3. IsLinked(c, d, b, i, to, target)
    BY <1>1, <1>2, LinkToIs
<1> HIDE DEF d
<1>4. /\ d \in CacheSet /\ SameLists(c, d) /\ d.free = c.free /\ d.pages = c.pages
      /\ \A x \in Headers : SameHeader(d.h[x], c.h[x])
      /\ \A x \in Headers, j \in Links :
            /\ d.h[x].link[j].to = IF x = b /\ j = i THEN to ELSE c.h[x].link[j].to
            /\ d.h[x].link[j].target = IF x = b /\ j = i THEN target ELSE c.h[x].link[j].target
            /\ d.h[x].link[j].from = c.h[x].link[j].from \cup IF x = to /\ j = i THEN {b} ELSE {}
    BY <1>3 DEF IsLinked
<1>5. PartsOK(d)
    <2>1. Gone(c, d, {})
        BY <1>4 DEF Gone
    <2> QED
        BY <1>1, <1>4, <2>1, PartsKept
<1>6. \A x \in Headers : (Main(d, x) <=> Main(c, x)) /\ (Cross(d, x) <=> Cross(c, x))
    BY <1>4 DEF SameHeader, Main, Cross
<1>7. HandlersOK(d) /\ PlacesOK(d) /\ Used(d) = Used(c)
    BY <1>1, <1>4, <1>6 DEF SameLists, HandlersOK, PlacesOK, Used
<1>8. CountsOK(d)
    <2>1. \A k : Blocks(d, k) = Blocks(c, k)
        BY <1>4 DEF Blocks, SameHeader
    <2>2. \A k, o : Covers(d, k, o) = Covers(c, k, o)
        BY <1>4, <2>1 DEF Covers, Blocks, SameHeader
    <2> QED
        BY <1>1, <1>4, <1>7, <2>1, <2>2 DEF CountsOK, SameHeader
<1>9. \A x \in Headers : <<d.pages[d.h[x].page].phys, d.h[x].start>>
                             = <<c.pages[c.h[x].page].phys, c.h[x].start>>
    BY <1>4 DEF SameHeader
<1>10. LinksOK(d, None)
    <2> SUFFICES ASSUME AllNoticed, NEW x \in Headers, NEW j \in Links, x # None, Main(d, x)
                 PROVE  LinkOK(d, None, x, j)
        BY DEF LinksOK
    <2> DEFINE l == d.h[x].link[j]
               k == c.h[x].link[j]
    <2>1. Main(c, x) /\ LinkOK(c, None, x, j)
        BY <1>1, <1>6 DEF LinksOK
    <2>2. k.to \in Headers \cup {None} /\ k.from \subseteq Headers
        <3>1. k \in LinkSet
            BY <1>1 DEF CacheSet, HeaderSet
        <3> QED
            BY <3>1 DEF LinkSet
    <2>3. l.to # None => /\ Main(d, l.to) /\ x \in d.h[l.to].link[j].from
                         /\ l.target = <<d.pages[d.h[l.to].page].phys, d.h[l.to].start>>
        <3>1. CASE x = b /\ j = i
            <4>1. l.to = to /\ l.target = target /\ b \in d.h[to].link[i].from
                BY <1>4, <3>1
            <4> QED
                BY <1>6, <1>9, <3>1, <4>1
        <3>2. CASE ~(x = b /\ j = i)
            <4>1. l.to = k.to /\ l.target = k.target
                BY <1>4, <3>2
            <4>2. k.to # None => /\ k.to \in Headers /\ Main(c, k.to) /\ x \in c.h[k.to].link[j].from
                                 /\ k.target = <<c.pages[c.h[k.to].page].phys, c.h[k.to].start>>
                BY <2>1, <2>2, Zenon DEF LinkOK
            <4>3. k.to # None => x \in d.h[k.to].link[j].from
                BY <1>4, <4>2, Zenon
            <4> HIDE DEF l, k
            <4> QED
                BY <1>6, <1>9, <4>1, <4>2, <4>3
        <3> QED
            BY <3>1, <3>2, Zenon
    <2>4. ASSUME NEW y \in l.from PROVE y # None /\ Main(d, y) /\ d.h[y].link[j].to = x
        <3>1. CASE y \in k.from
            <4>1. y \in Headers /\ y # None /\ Main(c, y) /\ c.h[y].link[j].to = x
                BY <2>1, <2>2, <3>1, Zenon DEF LinkOK
            <4>2. ~(y = b /\ j = i)
                BY <4>1
            <4> QED
                BY <1>4, <1>6, <4>1, <4>2
        <3>2. CASE y \notin k.from
            <4>1. x = to /\ j = i /\ y = b
                BY <1>4, <2>4, <3>2
            <4> QED
                BY <1>4, <1>6, <4>1, Numbers
        <3> QED
            BY <3>1, <3>2
    <2> QED
        BY <2>3, <2>4, Numbers, Zenon DEF LinkOK
<1>11. Tiled(d)
    <2>1. c.chain \in Seq(Headers)
        BY <1>1 DEF CacheSet
    <2>2. \A x \in ToSet(c.chain) : x \in Headers
        BY <2>1 DEF ToSet
    <2>3. /\ d.chain = c.chain /\ d.active = c.active
          /\ \A x \in ToSet(c.chain) : d.h[x].at = c.h[x].at /\ d.h[x].size = c.h[x].size
        BY <1>4, <2>2 DEF SameLists, SameHeader
    <2> QED
        BY <1>1, <2>1, <2>3, TiledStays
<1> QED
    BY <1>4, <1>5, <1>6, <1>7, <1>8, <1>10, <1>11 DEF Good, d

\* A write that no block was translated from changes no block.
LEMMA ModifiedKeeps ==
    ASSUME NEW c, Good(c, None), Tiled(c), RunOK(c), NEW addr,
           \A b \in Headers : c.h[b].page # None => addr \notin c.h[b].code
    PROVE  LET d == Modified(c, addr)
           IN  Good(d, None) /\ Tiled(d) /\ RunOK(d)
<1> DEFINE f(b) == c.h[b].fresh /\ addr \notin c.h[b].code
           e(b) == [c.h[b] EXCEPT !.fresh = f(b)]
           h == [b \in Headers |-> e(b)]
           d == [c EXCEPT !.h = h]
<1>1. c \in CacheSet /\ PartsOK(c) /\ PlacesOK(c) /\ c.chain \in Seq(Headers)
    BY DEF Good, CacheSet
<1>2. Modified(c, addr) = d
    BY DEF Modified
<1>3. \A b \in Headers : f(b) \in BOOLEAN
    OBVIOUS
<1>4. ASSUME NEW b \in Headers, c.h[b].page # None PROVE f(b) = TRUE /\ c.h[b].fresh = TRUE
    BY <1>1, <1>4 DEF PartsOK, PartOK
<1> HIDE DEF f
<1>5. ASSUME NEW b \in Headers
      PROVE  /\ e(b) \in HeaderSet /\ e(b).at = c.h[b].at /\ e(b).size = c.h[b].size
             /\ e(b).page = c.h[b].page /\ e(b).index = c.h[b].index /\ e(b).other = c.h[b].other
             /\ c.h[b].page # None => SameBlock(e(b), c.h[b])
    <2>1. c.h[b] \in HeaderSet /\ f(b) \in BOOLEAN
        BY <1>1, <1>3, Types
    <2>2. /\ e(b) \in HeaderSet /\ e(b).at = c.h[b].at /\ e(b).size = c.h[b].size
          /\ e(b).page = c.h[b].page /\ e(b).index = c.h[b].index /\ e(b).other = c.h[b].other
          /\ e(b).start = c.h[b].start /\ e(b).end = c.h[b].end /\ e(b).code = c.h[b].code
          /\ e(b).link = c.h[b].link /\ e(b).fresh = f(b)
        BY <2>1 DEF HeaderSet
    <2> HIDE DEF e
    <2> QED
        BY <1>4, <2>2 DEF SameBlock
<1> HIDE DEF e
<1>6. h \in [Headers -> HeaderSet] /\ \A b \in Headers : h[b] = e(b)
    BY <1>5
<1> HIDE DEF h
<1>7. /\ d \in CacheSet /\ d.h = h /\ d.chain = c.chain /\ d.active = c.active /\ d.free = c.free
      /\ d.pages = c.pages /\ d.used = c.used /\ d.freePages = c.freePages /\ d.running = c.running
    BY <1>1, <1>6 DEF CacheSet
<1> HIDE DEF d
<1>8. ASSUME NEW b \in Headers
      PROVE  /\ Main(d, b) <=> Main(c, b)
             /\ Cross(d, b) <=> Cross(c, b)
             /\ d.h[b].at = c.h[b].at /\ d.h[b].size = c.h[b].size
    BY <1>5, <1>6, <1>7 DEF Main, Cross
<1>9. DeadChanged(c, d)
    <2>1. ASSUME NEW b \in Headers
          PROVE  IF c.h[b].page = None THEN d.h[b].page = None /\ d.h[b].other = None
                 ELSE SameBlock(d.h[b], c.h[b])
        <3>1. d.h[b] = e(b) /\ (c.h[b].page = None => c.h[b].other = None)
            BY <1>1, <1>6, <1>7 DEF PartsOK, PartOK
        <3> QED
            BY <1>5, <3>1
    <2> QED
        BY <1>7, <2>1 DEF DeadChanged
<1>10. PlacesOK(d)
    BY <1>1, <1>7, <1>8 DEF PlacesOK
<1>11. Good(d, None)
    BY <1>7, <1>9, <1>10, DeadChangedKeeps
<1>12. Tiled(d)
    <2>1. \A x \in ToSet(c.chain) : x \in Headers
        BY <1>1 DEF ToSet
    <2> QED
        BY <1>1, <1>7, <1>8, <2>1, TiledStays
<1>13. RunOK(d)
    <2>1. c.running \in Headers \cup {None}
        BY <1>1 DEF CacheSet
    <2> QED
        BY <1>7, <1>8, <2>1 DEF RunOK
<1> QED
    BY <1>2, <1>11, <1>12, <1>13

---------------------------------------------------------------------------
(* The inductive invariant of the code cache *)

CacheInv == Good(cc, None) /\ Tiled(cc) /\ RunOK(cc)

LEMMA CacheInitInv == CacheInit => CacheInv
<1> SUFFICES ASSUME CacheInit PROVE CacheInv
    OBVIOUS
<1> DEFINE first == [Blank EXCEPT !.size = Total]
           h == [b \in Headers |-> IF b = 1 THEN first ELSE Blank]
           pages == [g \in Handlers |-> NewPage(0)]
<1>1. /\ cc.h = h /\ cc.chain = <<1>> /\ cc.active = 1 /\ cc.free = Headers \ {1} /\ cc.pages = pages
      /\ cc.used = <<>> /\ cc.freePages = SetToSeq(Handlers) /\ cc.code = None /\ cc.running = None
      /\ cc = [h |-> h, chain |-> <<1>>, active |-> 1, free |-> Headers \ {1}, pages |-> pages,
               used |-> <<>>, freePages |-> SetToSeq(Handlers), code |-> None, running |-> None]
    BY DEF CacheInit
<1>2. /\ first \in HeaderSet /\ first.page = None /\ first.other = None /\ first.at = 0
      /\ first.size = Total
    <2>1. Total \in Nat
        BY SizesAssumption
    <2> QED
        BY <2>1, BlankHeader DEF Blank, HeaderSet
<1>3. Blank \in HeaderSet /\ Blank.page = None /\ Blank.other = None
    BY BlankHeader DEF Blank
<1> HIDE DEF first
<1>4. h \in [Headers -> HeaderSet] /\ \A b \in Headers : h[b].page = None /\ h[b].other = None
    BY <1>2, <1>3
<1>5. 1 \in Headers /\ h[1] = first
    BY PoolsAssumption
<1> HIDE DEF h
<1>6. pages \in [Handlers -> PageSet]
    BY NewPageIs
<1> HIDE DEF pages
<1>7. /\ SetToSeq(Handlers) \in Seq(Handlers) /\ IsInjective(SetToSeq(Handlers))
      /\ ToSet(SetToSeq(Handlers)) = Handlers
    <2>1. IsFiniteSet(Handlers)
        BY PoolsAssumption
    <2> QED
        BY <2>1, ListOfSet
<1>8. cc \in CacheSet
    <2> DEFINE s == SetToSeq(Handlers)
    <2>1. <<1>> \in Seq(Headers) /\ <<>> \in Seq(Handlers) /\ s \in Seq(Handlers)
        BY <1>5, <1>7
    <2> HIDE DEF s
    <2> QED
        BY <1>1, <1>4, <1>6, <2>1 DEF CacheSet, s
<1>9. /\ \A b \in Headers : ~Main(cc, b) /\ ~Cross(cc, b)
      /\ \A b \in Headers : cc.h[b].page = None /\ cc.h[b].other = None
    BY <1>1, <1>4 DEF Main, Cross
<1>10. PartsOK(cc)
    BY <1>9 DEF PartsOK, PartOK
<1>11. Used(cc) = {}
    BY <1>1 DEF Used, ToSet
<1>12. HandlersOK(cc)
    <2>1. IsInjective(cc.used)
        BY <1>1 DEF IsInjective
    <2> QED
        BY <1>1, <1>7, <1>11, <2>1 DEF HandlersOK
<1>13. CountsOK(cc)
    BY <1>9, <1>11 DEF CountsOK
<1>14. Len(cc.chain) = 1 /\ DOMAIN cc.chain = {1} /\ cc.chain[1] = 1
    BY <1>1
<1>15. PlacesOK(cc)
    <2>1. ToSet(cc.chain) = {1} /\ IsInjective(cc.chain)
        BY <1>14 DEF ToSet, IsInjective
    <2>2. cc.active \in 1 .. Len(cc.chain)
        BY <1>1, <1>14
    <2>3. \A b \in Headers : b \in cc.free <=> b \notin ToSet(cc.chain)
        BY <1>1, <2>1
    <2> QED
        BY <1>9, <2>1, <2>2, <2>3 DEF PlacesOK
<1>16. LinksOK(cc, None)
    BY <1>9 DEF LinksOK
<1>17. Tiled(cc)
    <2>1. Total \in Nat /\ MaxSize \in Nat /\ 0 + MaxSize <= Total /\ 0 + Total = Total
        BY SizesAssumption
    <2>2. cc.h[1].at = 0 /\ cc.h[1].size = Total
        BY <1>1, <1>2, <1>5
    <2> QED
        BY <1>1, <1>14, <2>1, <2>2 DEF Tiled, TileOK
<1> QED
    BY <1>1, <1>8, <1>10, <1>12, <1>13, <1>15, <1>16, <1>17 DEF CacheInv, Good, RunOK

LEMMA DispatchKeeps == CacheInv /\ Dispatch => CacheInv'
<1> SUFFICES ASSUME CacheInv, Dispatch PROVE CacheInv'
    OBVIOUS
<1>1. Good(cc, None) /\ Tiled(cc)
    BY DEF CacheInv
<1>2. PICK addr \in Jumps :
          LET c == MakePage(cc, addr[1])
          IN  \/ \E b \in FindBlocks(c, addr) : cc' = [c EXCEPT !.running = b]
              \/ /\ FindBlocks(c, addr) = {} /\ Cardinality(c.free) > 1
                 /\ \E len \in Lengths, written \in Written :
                       /\ addr[2] + len <= PageSize \/ addr[1] + 1 \in Pages
                       /\ cc' = [Create(c, addr, len, written) EXCEPT !.running = c.chain[c.active]]
    BY DEF Dispatch
<1>3. PICK page \in Pages, offset \in Offsets : addr = <<page, offset>>
    BY <1>2, PoolsAssumption DEF Offsets
<1>4. addr[1] = page /\ addr[2] = offset
    BY <1>3
<1> DEFINE c == MakePage(cc, page)
<1>5. Good(c, None) /\ Kept(cc, c, None) /\ IsCode(c, page)
    <2>1. Translating(cc, None)
        BY DEF Translating
    <2> QED
        BY <1>1, <2>1, MakePageKeeps
<1>6. \/ \E b \in FindBlocks(c, <<page, offset>>) : cc' = [c EXCEPT !.running = b]
      \/ /\ Cardinality(c.free) > 1
         /\ \E len \in Lengths, written \in Written :
               /\ offset + len <= PageSize \/ page + 1 \in Pages
               /\ cc' = [Create(c, <<page, offset>>, len, written) EXCEPT !.running = c.chain[c.active]]
    BY <1>2, <1>3, <1>4
<1> HIDE DEF c
<1>7. Tiled(c)
    BY <1>1, <1>5, TiledKept
<1>8. CASE \E b \in FindBlocks(c, <<page, offset>>) : cc' = [c EXCEPT !.running = b]
    <2>1. PICK b \in FindBlocks(c, <<page, offset>>) : cc' = [c EXCEPT !.running = b]
        BY <1>8
    <2>2. b \in Headers /\ Main(c, b)
        BY <1>5, <2>1, FoundIsMain
    <2>3. Good(cc', None) /\ Tiled(cc') /\ RunOK(cc')
        BY <1>5, <1>7, <2>1, <2>2, RunningIs
    <2> QED
        BY <2>3 DEF CacheInv
<1>9. CASE /\ Cardinality(c.free) > 1
           /\ \E len \in Lengths, written \in Written :
                 /\ offset + len <= PageSize \/ page + 1 \in Pages
                 /\ cc' = [Create(c, <<page, offset>>, len, written)
                              EXCEPT !.running = c.chain[c.active]]
    <2>1. PICK len \in Lengths, written \in Written :
              /\ offset + len <= PageSize \/ page + 1 \in Pages
              /\ cc' = [Create(c, <<page, offset>>, len, written) EXCEPT !.running = c.chain[c.active]]
        BY <1>9
    <2> DEFINE d == Create(c, <<page, offset>>, len, written)
               b == c.chain[c.active]
    <2>2. Good(d, None) /\ Tiled(d) /\ Main(d, b)
        BY <1>5, <1>7, <1>9, <2>1, CreateKeeps
    <2>3. cc' = [d EXCEPT !.running = b]
        BY <2>1
    <2>4. b \in Headers
        BY <1>5 DEF Good, CacheSet, PlacesOK
    <2> HIDE DEF d, b
    <2>5. Good(cc', None) /\ Tiled(cc') /\ RunOK(cc')
        BY <2>2, <2>3, <2>4, RunningIs
    <2> QED
        BY <2>5 DEF CacheInv
<1> QED
    BY <1>6, <1>8, <1>9

LEMMA JumpKeeps == CacheInv /\ Jump => CacheInv'
<1> SUFFICES ASSUME CacheInv, Jump PROVE CacheInv'
    OBVIOUS
<1> DEFINE run == cc.running
<1>1. Good(cc, None) /\ Tiled(cc) /\ cc \in CacheSet /\ LinksOK(cc, None)
    BY DEF CacheInv, Good
<1>2. PICK i \in Links :
          LET to == cc.h[cc.running].link[i].to
          IN  IF to # None THEN cc' = [cc EXCEPT !.running = to]
              ELSE \E addr \in Jumps : \E b \in FindBlocks(cc, addr) :
                      cc' = [LinkTo(cc, cc.running, i, b) EXCEPT !.running = b]
    BY DEF Jump
<1>3. run \in Headers /\ run # None /\ (AllNoticed => Main(cc, run))
    BY <1>1 DEF Jump, CacheInv, RunOK, CacheSet
<1> DEFINE to == cc.h[run].link[i].to
<1>4. /\ to # None => cc' = [cc EXCEPT !.running = to]
      /\ to = None => \E addr \in Jumps : \E b \in FindBlocks(cc, addr) :
                          cc' = [LinkTo(cc, run, i, b) EXCEPT !.running = b]
    BY <1>2
<1>5. to \in Headers \cup {None} /\ (AllNoticed => LinkOK(cc, None, run, i))
    BY <1>1, <1>3 DEF LinksOK, CacheSet, HeaderSet, LinkSet
<1>6. AllNoticed => (to = None \/ Main(cc, to))
    BY <1>5, Zenon DEF LinkOK
<1>7. to = cc.h[run].link[i].to
    OBVIOUS
<1> HIDE DEF to, run
<1>8. CASE to # None
    <2>1. Good(cc', None) /\ Tiled(cc') /\ RunOK(cc')
        BY <1>1, <1>4, <1>5, <1>6, <1>8, RunningIs
    <2> QED
        BY <2>1 DEF CacheInv
<1>9. CASE to = None
    <2>1. PICK addr \in Jumps : \E b \in FindBlocks(cc, addr) :
              cc' = [LinkTo(cc, run, i, b) EXCEPT !.running = b]
        BY <1>4, <1>9
    <2>2. PICK b \in FindBlocks(cc, addr) : cc' = [LinkTo(cc, run, i, b) EXCEPT !.running = b]
        BY <2>1
    <2>3. PICK page \in Pages, offset \in Offsets : addr = <<page, offset>>
        BY <2>1, PoolsAssumption DEF Offsets
    <2>4. b \in Headers /\ Main(cc, b)
        BY <1>1, <2>2, <2>3, FoundIsMain
    <2> DEFINE d == LinkTo(cc, run, i, b)
    <2>5. Good(d, None) /\ Tiled(d) /\ Main(d, b)
        BY <1>1, <1>2, <1>3, <1>7, <1>9, <2>4, LinkToKeeps
    <2>6. cc' = [d EXCEPT !.running = b]
        BY <2>2
    <2> HIDE DEF d
    <2>7. Good(cc', None) /\ Tiled(cc') /\ RunOK(cc')
        BY <2>4, <2>5, <2>6, RunningIs
    <2> QED
        BY <2>7 DEF CacheInv
<1> QED
    BY <1>8, <1>9

LEMMA LeaveKeeps == CacheInv /\ Leave => CacheInv'
<1> SUFFICES ASSUME CacheInv, Leave PROVE CacheInv'
    OBVIOUS
<1>1. Good(cc, None) /\ Tiled(cc) /\ cc' = [cc EXCEPT !.running = None]
    BY DEF CacheInv, Leave
<1>2. Good(cc', None) /\ Tiled(cc') /\ RunOK(cc')
    BY <1>1, RunningIs
<1> QED
    BY <1>2 DEF CacheInv

\* A byte is modified; the running block was not translated from it, if all is noticed.
LEMMA StoredKeeps ==
    ASSUME NEW c, Good(c, None), Tiled(c), RunOK(c), NEW addr \in Addresses,
           AllNoticed => ~Own(c, addr)
    PROVE  LET d == Modified(Noticed(c, addr), addr)
           IN  Good(d, None) /\ Tiled(d) /\ RunOK(d)
<1> DEFINE e == Noticed(c, addr)
<1>1. /\ Good(e, None) /\ Kept(c, e, None)
      /\ \A b \in Headers : e.h[b].page # None => addr \notin e.h[b].code
      /\ \A b \in Headers : Main(c, b) /\ addr \notin c.h[b].code => Main(e, b)
    BY NoticedKeeps
<1> HIDE DEF e
<1>2. Tiled(e)
    BY <1>1, TiledKept
<1>3. RunOK(e)
    <2>1. c.running \in Headers \cup {None} /\ e.running = c.running
        BY <1>1 DEF Good, CacheSet, Kept
    <2> QED
        BY <1>1, <2>1 DEF RunOK, Own
<1> QED
    BY <1>1, <1>2, <1>3, ModifiedKeeps DEF e

LEMMA WritesKeep == CacheInv /\ (WriteChecked \/ Write) => CacheInv'
<1> SUFFICES ASSUME CacheInv, WriteChecked \/ Write PROVE CacheInv'
    OBVIOUS
<1>1. Good(cc, None) /\ Tiled(cc) /\ RunOK(cc)
    BY DEF CacheInv
<1>2. PICK addr \in Addresses :
          \/ cc' = [Noticed(cc, addr) EXCEPT !.running = None]
          \/ (AllNoticed => ~Own(cc, addr)) /\ cc' = Modified(Noticed(cc, addr), addr)
    BY DEF WriteChecked, Write, AllNoticed
<1>3. CASE cc' = [Noticed(cc, addr) EXCEPT !.running = None]
    <2> DEFINE e == Noticed(cc, addr)
    <2>1. Good(e, None) /\ Kept(cc, e, None)
        BY <1>1, <1>2, NoticedKeeps
    <2>2. cc' = [e EXCEPT !.running = None]
        BY <1>3
    <2> HIDE DEF e
    <2>3. Tiled(e)
        BY <1>1, <2>1, TiledKept
    <2>4. Good(cc', None) /\ Tiled(cc') /\ RunOK(cc')
        BY <2>1, <2>2, <2>3, RunningIs
    <2> QED
        BY <2>4 DEF CacheInv
<1>4. CASE (AllNoticed => ~Own(cc, addr)) /\ cc' = Modified(Noticed(cc, addr), addr)
    <2>1. Good(cc', None) /\ Tiled(cc') /\ RunOK(cc')
        BY <1>1, <1>2, <1>4, StoredKeeps
    <2> QED
        BY <2>1 DEF CacheInv
<1> QED
    BY <1>2, <1>3, <1>4

LEMMA CacheInvInductive == CacheSpec => []CacheInv
<1>1. CacheInv /\ [CacheNext]_cc => CacheInv'
    <2> SUFFICES ASSUME CacheInv, [CacheNext]_cc PROVE CacheInv'
        OBVIOUS
    <2>1. CASE Dispatch
        BY <2>1, DispatchKeeps
    <2>2. CASE Jump
        BY <2>2, JumpKeeps
    <2>3. CASE Leave
        BY <2>3, LeaveKeeps
    <2>4. CASE WriteChecked \/ Write
        BY <2>4, WritesKeep
    <2>5. CASE UNCHANGED cc
        BY <2>5 DEF CacheInv
    <2> QED
        BY <2>1, <2>2, <2>3, <2>4, <2>5 DEF CacheNext
<1> QED
    BY <1>1, CacheInitInv, PTL DEF CacheSpec

LEMMA CacheInvPlaces == CacheInv => HeadersPlaced
<1> SUFFICES ASSUME CacheInv PROVE HeadersPlaced
    OBVIOUS
<1>1. cc \in CacheSet /\ PlacesOK(cc) /\ Tiled(cc) /\ cc.chain \in Seq(Headers)
    BY DEF CacheInv, Good, CacheSet
<1>2. IsInjective(cc.chain) /\ DOMAIN cc.chain = 1 .. Len(cc.chain)
    BY <1>1 DEF PlacesOK
<1>3. ASSUME NEW b \in Headers
      PROVE  Cardinality({p \in {"chain", "cross", "free"} :
                             CASE p = "chain" -> b \in ToSet(cc.chain)
                               [] p = "cross" -> Crossing(b)
                               [] p = "free" -> b \in cc.free}) = 1
    <2> DEFINE S == {p \in {"chain", "cross", "free"} :
                        CASE p = "chain" -> b \in ToSet(cc.chain)
                          [] p = "cross" -> Crossing(b)
                          [] p = "free" -> b \in cc.free}
    <2>1. /\ Crossing(b) => b \notin ToSet(cc.chain) /\ b \notin cc.free
          /\ b \in ToSet(cc.chain) => b \notin cc.free
          /\ b \in ToSet(cc.chain) \/ b \in cc.free \/ Crossing(b)
        BY <1>1 DEF PlacesOK, Crossing, Live, Cross
    <2>2. /\ "chain" \in S <=> b \in ToSet(cc.chain)
          /\ "cross" \in S <=> Crossing(b)
          /\ "free" \in S <=> b \in cc.free
          /\ S \subseteq {"chain", "cross", "free"}
        OBVIOUS
    <2> HIDE DEF S
    <2>3. \E p : S = {p}
        <3>1. CASE b \in ToSet(cc.chain)
            <4>1. S = {"chain"}
                BY <2>1, <2>2, <3>1
            <4> QED
                BY <4>1
        <3>2. CASE Crossing(b)
            <4>1. S = {"cross"}
                BY <2>1, <2>2, <3>2
            <4> QED
                BY <4>1
        <3>3. CASE b \in cc.free
            <4>1. S = {"free"}
                BY <2>1, <2>2, <3>3
            <4> QED
                BY <4>1
        <3> QED
            BY <2>1, <3>1, <3>2, <3>3
    <2>4. Cardinality(S) = 1
        BY <2>3, FS_Singleton
    <2> QED
        BY <2>4 DEF S
<1>4. ASSUME NEW i \in DOMAIN cc.chain
      PROVE  LET b == cc.h[cc.chain[i]]
             IN  /\ i = 1 => b.at = 0
                 /\ b.at + b.size = IF i = Len(cc.chain) THEN Total ELSE cc.h[cc.chain[i + 1]].at
                 /\ i = cc.active => b.at + MaxSize <= Total
    <2>1. TileOK(cc, i) /\ cc.h[cc.chain[cc.active]].at + MaxSize <= Total
        BY <1>1, <1>2 DEF Tiled
    <2> QED
        BY <2>1 DEF TileOK
<1> QED
    BY <1>2, <1>3, <1>4 DEF HeadersPlaced

LEMMA CacheInvCounts == CacheInv => PagesCount
    BY DEF CacheInv, Good, CountsOK, Covers, PagesCount, Live

\* However blocks are opened, closed, cleared and given up with their page, no header is
\* lost or in two places, the memory of the cache is tiled by the headers of its chain, and
\* the counters of a page are those of its blocks (cache_openblock, cache_closeblock, Clear,
\* AddCacheBlock, DelCacheBlock), even when a running block modifies itself unnoticed.
THEOREM NoHeaderLost == CacheSpec => []CacheOK
<1>1. CacheSpec => []CacheInv
    BY CacheInvInductive
<1>2. CacheInv => CacheOK
    BY CacheInvPlaces, CacheInvCounts DEF CacheOK
<1> QED
    BY <1>1, <1>2, PTL

\* A block that can run jumps only to blocks that can run and that were translated from the
\* address the link was made for, and both ends know of the link (LinkTo, Clear): no jump
\* leads into code that was cleared, as long as every block that modifies itself is noticed.
THEOREM LinksAreMutual == OwnWrites = {} => (CacheSpec => []LinksLead)
<1> SUFFICES ASSUME OwnWrites = {} PROVE CacheSpec => []LinksLead
    OBVIOUS
<1>1. CacheSpec => []CacheInv
    BY CacheInvInductive
<1>2. CacheInv => LinksLead
    <2> SUFFICES ASSUME CacheInv PROVE LinksLead
        OBVIOUS
    <2>1. ASSUME NEW b \in Headers, NEW i \in Links, Live(b) /\ cc.h[b].index > 0
          PROVE  /\ cc.h[b].link[i].to # None =>
                        LET to == cc.h[b].link[i].to
                        IN  /\ Live(to) /\ cc.h[to].index > 0 /\ b \in cc.h[to].link[i].from
                            /\ cc.h[b].link[i].target =
                                   <<cc.pages[cc.h[to].page].phys, cc.h[to].start>>
                 /\ \A x \in cc.h[b].link[i].from : Live(x) /\ cc.h[x].link[i].to = b
        <3>1. LinksOK(cc, None) /\ b # None /\ Main(cc, b)
            BY <2>1, Numbers DEF CacheInv, Good, Main, Live
        <3>2. LinkOK(cc, None, b, i)
            BY <3>1 DEF LinksOK, AllNoticed
        <3> QED
            BY <3>2, Zenon DEF LinkOK, Main, Live
    <2> QED
        BY <2>1, Zenon DEF LinksLead
<1> QED
    BY <1>1, <1>2, PTL

\* Code that runs, or that a jump can lead to, was translated from what the memory holds,
\* whichever writes, of devices or of the program, come between (InvalidateRange and the
\* map by which a write knows of code), under the same condition.
THEOREM NoStaleCode == OwnWrites = {} => (CacheSpec => []RunsFresh)
<1> SUFFICES ASSUME OwnWrites = {} PROVE CacheSpec => []RunsFresh
    OBVIOUS
<1>1. CacheSpec => []CacheInv
    BY CacheInvInductive
<1>2. CacheInv => RunsFresh
    <2> SUFFICES ASSUME CacheInv PROVE RunsFresh
        OBVIOUS
    <2>1. cc \in CacheSet /\ PartsOK(cc) /\ RunOK(cc)
        BY DEF CacheInv, Good
    <2>2. \A b \in Headers : cc.h[b].page # None => cc.h[b].fresh
        BY <2>1 DEF PartsOK, PartOK
    <2>3. cc.running # None => cc.running \in Headers /\ cc.h[cc.running].page # None
        BY <2>1 DEF CacheSet, RunOK, Main, AllNoticed
    <2> QED
        BY <2>2, <2>3 DEF RunsFresh, Live
<1> QED
    BY <1>1, <1>2, PTL
=============================================================================
