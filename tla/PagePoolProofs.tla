--------------------------- MODULE PagePoolProofs ---------------------------
(***************************************************************************)
(* Proofs about PagePool: for tables, handles and sizes of any number, no  *)
(* page has two holders and none is lost, every block has the pages its    *)
(* size promises, and a locked block stays where it is.                    *)
(*                                                                         *)
(* The code keeps no list of a block's pages: the links in the table are   *)
(* the list. The invariant names it: there is a function c from the owners *)
(* (an XMS block, an EMS handle, a page given to a VCPI client) to         *)
(* sequences of pages, such that the links follow each sequence (IsBlock), *)
(* no page is in two of them, a page in none is free (Pool), and what an   *)
(* owner remembers, its first page and its size, agrees with its sequence  *)
(* (Held).                                                                 *)
(*                                                                         *)
(* Each call gives one owner o other pages t: Becomes says how the table   *)
(* changes then, and Replaced that Pool holds of [c EXCEPT ![o] = t].      *)
(* Taken, GivenBack, CutOff, Longer and Elsewhere show that allocating,    *)
(* releasing, shrinking, extending and moving a block are such changes,    *)
(* XmsChanges, EmsChanges and VcpiChanges that Held follows, and there is  *)
(* one lemma for each action. ChainIs joins the sequence with what the     *)
(* model reads, the chain that starts at a page: at the first place where  *)
(* they differ, a link would be wrong.                                     *)
(*                                                                         *)
(* The hypothesis NoEmptyBlocks leaves out XMS blocks allocated with size  *)
(* 0: the code lets one remember a free page that it does not own.         *)
(***************************************************************************)
EXTENDS PagePool, SequenceTheorems, FiniteSetTheorems, WellFoundedInduction,
        TLAPS

---------------------------------------------------------------------------
(* Blocks of pages and their owners *)

\* The last cell that may be part of a block
Top == Pages + Beyond

Owners ==
    ({"xms"} \X (1 .. XmsBlocks)) \cup ({"ems"} \X (0 .. EmsHandles)) \cup ({"vcpi"} \X (1 .. Top))

Distinct(s) == \A i, j \in 1 .. Len(s) : s[i] = s[j] => i = j

\* The pages s are linked to each other, in this order.
IsBlock(h, s) ==
    /\ Distinct(s)
    /\ \A i \in 1 .. Len(s) : h[s[i]] = IF i = Len(s) THEN -1 ELSE s[i + 1]

\* The pages of the table are those of the blocks c, and free ones; a cell
\* after the table is in a block, free or the end of something else.
Pool(h, c) ==
    /\ h \in [Cells -> -1 .. Top]
    /\ c \in [Owners -> Seq(1 .. Top)]
    /\ \A o \in Owners : IsBlock(h, c[o])
    /\ \A o, u \in Owners : o # u => Range(c[o]) \cap Range(c[u]) = {}
    /\ \A p \in 1 .. Top :
           h[p] > 0 \/ (h[p] # 0 /\ p <= Pages) => \E o \in Owners : p \in Range(c[o])

\* A block s is what page mem stands for
Starts(s, mem) == IF s = <<>> THEN mem <= 0 ELSE mem = s[1]

---------------------------------------------------------------------------
(* Numbers and sequences *)

LEMMA Sizes ==
    /\ Pages \in Nat /\ Beyond \in Nat /\ Top \in Nat /\ Pages > 0 /\ Pages <= Top
    /\ XmsBlocks \in Nat /\ EmsHandles \in Nat /\ EmsPage \in Nat /\ EmsPage > 0
    /\ SystemPages \in Nat /\ LockMax \in Nat /\ LockMax > 0
    BY PoolAssumption DEF Top

LEMMA IsCell ==
    ASSUME NEW p \in 1 .. Top
    PROVE  p \in Cells /\ p \in -1 .. Top /\ p \in Nat /\ p > 0 /\ ~(p <= 0)
    BY Sizes DEF Cells, Top

LEMMA SmallestIsMember ==
    ASSUME NEW S \in SUBSET Nat, S # {}
    PROVE  Min(S) \in S /\ \A x \in S : Min(S) <= x
<1> DEFINE R == {p \in Nat \X Nat : p[1] < p[2]}
<1>1. IsWellFoundedOn(R, Nat)
    BY NatLessThanWellFounded DEF OpToRel
<1>2. PICK x \in S : \A y \in S : ~(<<y, x>> \in R)
    <2> HIDE DEF R
    <2> QED
        BY <1>1, WFMin
<1>3. ASSUME NEW y \in S PROVE x <= y
    <2>1. x \in Nat /\ y \in Nat
        OBVIOUS
    <2>2. y < x => <<y, x>> \in R
        BY <2>1
    <2> QED
        BY <1>2, <2>1, <2>2
<1> QED
    BY <1>3 DEF Min

LEMMA InRange ==
    ASSUME NEW S, NEW s \in Seq(S), NEW p
    PROVE  p \in Range(s) <=> \E i \in 1 .. Len(s) : s[i] = p
    BY DEF Range

LEMMA FunctionIsSeq ==
    ASSUME NEW S, NEW n \in Nat, NEW f \in [1 .. n -> S]
    PROVE  f \in Seq(S) /\ Len(f) = n
    OBVIOUS

LEMMA Suffix ==
    ASSUME NEW S, NEW s \in Seq(S), NEW i \in 1 .. Len(s)
    PROVE  SubSeq(s, i, Len(s)) = <<s[i]>> \o SubSeq(s, i + 1, Len(s))
<1>1. Len(s) \in i .. Len(s)
    OBVIOUS
<1> QED
    BY <1>1, SubSeqRecursiveFirst

LEMMA SuffixEnd ==
    ASSUME NEW S, NEW s \in Seq(S)
    PROVE  SubSeq(s, Len(s) + 1, Len(s)) = <<>>
<1>1. Len(s) \in Int
    OBVIOUS
<1> QED
    BY <1>1, SubSeqEmpty

---------------------------------------------------------------------------
(* Following a chain gives the block that starts there *)

\* f follows the chains of h from each page.
Follows(f, h) == f = [q \in -1 .. Top |-> IF q > 0 THEN <<q>> \o f[h[q]] ELSE <<>>]

\* Every chain ends, that of a page which is in no block at once.
LEMMA ChainsEnd ==
    ASSUME NEW h, NEW c, Pool(h, c)
    PROVE  \E f : Follows(f, h)
<1> DEFINE owner(q) == CHOOSE o \in Owners : q \in Range(c[o])
           place(s, q) == CHOOSE i \in 1 .. Len(s) : s[i] = q
           rest(s, i) == SubSeq(s, i, Len(s))
           f == [q \in -1 .. Top |->
                    IF q <= 0 THEN <<>>
                    ELSE IF \E o \in Owners : q \in Range(c[o])
                    THEN rest(c[owner(q)], place(c[owner(q)], q))
                    ELSE <<q>>]
<1>0. \A q \in 1 .. Top :
          q \in Cells /\ q \in -1 .. Top /\ h[q] \in -1 .. Top /\ q > 0 /\ ~(q <= 0)
    <2>1. h \in [Cells -> -1 .. Top]
        BY DEF Pool
    <2> QED
        BY <2>1, IsCell
<1>1. \A o \in Owners : c[o] \in Seq(1 .. Top) /\ IsBlock(h, c[o])
    BY DEF Pool
<1>2. ASSUME NEW o \in Owners, NEW i \in 1 .. Len(c[o])
      PROVE  f[c[o][i]] = rest(c[o], i)
    <2>1. c[o] \in Seq(1 .. Top) /\ Distinct(c[o])
        BY <1>1 DEF IsBlock
    <2>2. c[o][i] \in 1 .. Top /\ c[o][i] \in Range(c[o])
        BY <2>1, InRange, ElementOfSeq
    <2>3. \A u \in Owners : c[o][i] \in Range(c[u]) => u = o
        BY <2>2 DEF Pool
    <2>4. owner(c[o][i]) = o
        BY <2>2, <2>3
    <2>5. place(c[o], c[o][i]) = i
        BY <2>1 DEF Distinct
    <2> HIDE DEF rest, place, owner
    <2>6. c[o][i] \in -1 .. Top /\ ~(c[o][i] <= 0)
        BY <1>0, <2>2
    <2> QED
        BY <2>2, <2>4, <2>5, <2>6
<1>3. ASSUME NEW q \in 1 .. Top
      PROVE  f[q] = <<q>> \o f[h[q]]
    <2>0. q \in Cells /\ q \in -1 .. Top /\ h[q] \in -1 .. Top /\ q > 0 /\ ~(q <= 0)
        <3> HIDE DEF f, owner, place, rest
        <3> QED
            BY <1>0
    <2>1. CASE \E o \in Owners : q \in Range(c[o])
        <3>1. PICK o \in Owners : q \in Range(c[o])
            BY <2>1
        <3>2. c[o] \in Seq(1 .. Top)
            BY <1>1
        <3>3. PICK i \in 1 .. Len(c[o]) : c[o][i] = q
            BY <3>1, <3>2, InRange
        <3>4. rest(c[o], i) = <<q>> \o rest(c[o], i + 1)
            BY <3>2, <3>3, Suffix
        <3>5. f[h[q]] = rest(c[o], i + 1)
            <4>1. CASE i = Len(c[o])
                <5>1. h[q] = -1
                    BY <1>1, <3>3, <4>1 DEF IsBlock
                <5>2. f[h[q]] = <<>>
                    BY <2>0, <5>1
                <5>3. rest(c[o], i + 1) = <<>>
                    BY <3>2, <4>1, SuffixEnd
                <5> QED
                    BY <5>2, <5>3
            <4>2. CASE i # Len(c[o])
                <5>1. h[q] = c[o][i + 1]
                    BY <1>1, <3>3, <4>2 DEF IsBlock
                <5>2. i + 1 \in 1 .. Len(c[o])
                    BY <3>2, <4>2
                <5> QED
                    BY <1>2, <5>1, <5>2
            <4> QED
                BY <4>1, <4>2
        <3>6. f[q] = rest(c[o], i)
            BY <1>2, <3>3
        <3> QED
            BY <3>4, <3>5, <3>6
    <2>2. CASE ~\E o \in Owners : q \in Range(c[o])
        <3>1. h[q] <= 0
            BY <2>0, <2>2 DEF Pool
        <3>2. f[q] = <<q>>
            BY <2>0, <2>2
        <3>3. f[h[q]] = <<>>
            BY <2>0, <3>1
        <3>4. <<q>> \o <<>> = <<q>>
            <4>1. <<q>> \in Seq(1 .. Top)
                OBVIOUS
            <4> QED
                BY <4>1, ConcatEmptySeq
        <3> QED
            BY <3>2, <3>3, <3>4
    <2> QED
        BY <2>1, <2>2
<1>4. \A q \in -1 .. Top : q <= 0 => f[q] = <<>>
    OBVIOUS
<1>5. f = [q \in -1 .. Top |-> f[q]]
    OBVIOUS
<1> HIDE DEF f
<1>6. \A q \in -1 .. Top : f[q] = IF q > 0 THEN <<q>> \o f[h[q]] ELSE <<>>
    <2> TAKE q \in -1 .. Top
    <2>1. q \in Int /\ (q > 0 => q \in 1 .. Top) /\ (~(q > 0) => q <= 0)
        BY Sizes
    <2> QED
        BY <1>3, <1>4, <2>1
<1> QED
    BY <1>5, <1>6 DEF Follows

LEMMA FollowsBlock ==
    ASSUME NEW h, NEW f, Follows(f, h), NEW s \in Seq(1 .. Top), IsBlock(h, s)
    PROVE  \A i \in 1 .. Len(s) : f[s[i]] = SubSeq(s, i, Len(s))
<1> DEFINE n == Len(s)
           wrong == {k \in 0 .. n : \E i \in 1 .. n : i = n - k /\ f[s[i]] # SubSeq(s, i, n)}
<1>1. n \in Nat
    OBVIOUS
<1>2. ASSUME wrong # {} PROVE FALSE
    <2>1. wrong \in SUBSET Nat
        OBVIOUS
    <2>2. PICK k \in wrong : \A j \in wrong : k <= j
        <3> HIDE DEF wrong
        <3> QED
            BY <1>2, <2>1, SmallestIsMember
    <2>3. PICK i \in 1 .. n : i = n - k /\ f[s[i]] # SubSeq(s, i, n)
        OBVIOUS
    <2>4. s[i] \in 1 .. Top
        BY ElementOfSeq
    <2>5. f[s[i]] = <<s[i]>> \o f[h[s[i]]]
        <3>1. s[i] \in -1 .. Top /\ s[i] > 0
            BY <2>4, IsCell
        <3> QED
            BY <3>1 DEF Follows
    <2>6. SubSeq(s, i, n) = <<s[i]>> \o SubSeq(s, i + 1, n)
        BY Suffix
    <2>7. f[h[s[i]]] = SubSeq(s, i + 1, n)
        <3>1. CASE i = n
            <4>1. h[s[i]] = -1
                BY <3>1 DEF IsBlock
            <4>2. f[-1] = <<>>
                <5>1. -1 \in -1 .. Top /\ ~(-1 > 0)
                    BY Sizes
                <5> QED
                    BY <5>1 DEF Follows
            <4>3. SubSeq(s, i + 1, n) = <<>>
                BY <3>1, SuffixEnd
            <4> QED
                BY <4>1, <4>2, <4>3
        <3>2. CASE i # n
            <4>1. h[s[i]] = s[i + 1]
                BY <3>2 DEF IsBlock
            <4>2. i + 1 \in 1 .. n /\ k - 1 \in 0 .. n /\ i + 1 = n - (k - 1) /\ ~(k <= k - 1)
                BY <1>1, <2>3, <3>2
            <4>3. k - 1 \notin wrong
                <5> HIDE DEF wrong
                <5> QED
                    BY <2>2, <4>2
            <4> QED
                BY <4>1, <4>2, <4>3
        <3> QED
            BY <3>1, <3>2
    <2> QED
        BY <2>3, <2>5, <2>6, <2>7
<1>3. ASSUME NEW i \in 1 .. n PROVE f[s[i]] = SubSeq(s, i, n)
    <2>1. n - i \in 0 .. n /\ i = n - (n - i)
        BY <1>1
    <2>2. n - i \notin wrong
        BY <1>2
    <2> QED
        BY <2>1, <2>2
<1> QED
    BY <1>3

LEMMA ChainIs ==
    ASSUME NEW h, NEW c, Pool(h, c), NEW o \in Owners,
           NEW mem \in -1 .. Top, Starts(c[o], mem)
    PROVE  Chain(h, mem) = c[o]
<1> DEFINE f == CHOOSE f : Follows(f, h)
<1>1. Follows(f, h)
    BY ChainsEnd
<1>2. Chain(h, mem) = f[mem]
    BY DEF Chain, Follows, Top
<1>3. c[o] \in Seq(1 .. Top) /\ IsBlock(h, c[o])
    BY DEF Pool
<1> HIDE DEF f
<1>4. CASE c[o] = <<>>
    <2>1. f[mem] = <<>>
        BY <1>1, <1>4 DEF Follows, Starts
    <2> QED
        BY <1>2, <1>4, <2>1
<1>5. CASE c[o] # <<>>
    <2>1. 1 \in 1 .. Len(c[o]) /\ mem = c[o][1]
        BY <1>3, <1>5 DEF Starts
    <2>2. f[c[o][1]] = SubSeq(c[o], 1, Len(c[o]))
        BY <1>1, <1>3, <2>1, FollowsBlock
    <2> QED
        BY <1>2, <1>3, <2>1, <2>2, SubSeqFull
<1> QED
    BY <1>4, <1>5

---------------------------------------------------------------------------
(* What the operations on the table do to it *)

\* The block s becomes the block t: its pages are from s or were free, those
\* that it does not have any more are free, and no other page changes.
Becomes(h, g, s, t) ==
    /\ g \in [Cells -> -1 .. Top] /\ t \in Seq(1 .. Top) /\ IsBlock(g, t)
    /\ \A p \in Range(t) : p \in Range(s) \/ h[p] = 0
    /\ \A p \in Cells : p \notin Range(t) => g[p] = IF p \in Range(s) THEN 0 ELSE h[p]

LEMMA InUse ==
    ASSUME NEW h, NEW s \in Seq(1 .. Top), IsBlock(h, s), NEW p \in Range(s)
    PROVE  p \in 1 .. Top /\ p \in Cells /\ h[p] # 0
<1>1. PICK i \in 1 .. Len(s) : s[i] = p
    BY InRange
<1>2. h[p] = IF i = Len(s) THEN -1 ELSE s[i + 1]
    BY <1>1 DEF IsBlock
<1>3. i # Len(s) => i + 1 \in 1 .. Len(s)
    OBVIOUS
<1>4. \A j \in 1 .. Len(s) : s[j] \in 1 .. Top /\ s[j] # 0
    <2>1. \A j \in 1 .. Len(s) : s[j] \in 1 .. Top
        BY ElementOfSeq
    <2>2. 0 \notin 1 .. Top
        BY Sizes
    <2> QED
        BY <2>1, <2>2
<1>5. p \in 1 .. Top /\ p \in Cells
    BY <1>1, <1>4, IsCell
<1>6. h[p] # 0
    BY <1>2, <1>3, <1>4
<1> QED
    BY <1>5, <1>6

LEMMA Replaced ==
    ASSUME NEW h, NEW c, Pool(h, c), NEW o \in Owners, NEW g, NEW t, Becomes(h, g, c[o], t)
    PROVE  Pool(g, [c EXCEPT ![o] = t])
<1> DEFINE e == [c EXCEPT ![o] = t]
<1>1. /\ h \in [Cells -> -1 .. Top] /\ c \in [Owners -> Seq(1 .. Top)]
      /\ \A u \in Owners : IsBlock(h, c[u])
      /\ \A u, v \in Owners : u # v => Range(c[u]) \cap Range(c[v]) = {}
    BY DEF Pool
<1>2. /\ g \in [Cells -> -1 .. Top] /\ t \in Seq(1 .. Top) /\ IsBlock(g, t)
      /\ \A p \in Range(t) : p \in Range(c[o]) \/ h[p] = 0
      /\ \A p \in Cells : p \notin Range(t) => g[p] = IF p \in Range(c[o]) THEN 0 ELSE h[p]
    BY DEF Becomes
<1>3. e \in [Owners -> Seq(1 .. Top)] /\ e[o] = t /\ \A u \in Owners : u # o => e[u] = c[u]
    BY <1>1, <1>2
<1> HIDE DEF e
<1>4. ASSUME NEW u \in Owners, NEW i \in 1 .. Len(c[u])
      PROVE  c[u][i] \in Range(c[u])
    BY <1>1, InRange
<1>5. ASSUME NEW u \in Owners, u # o, NEW p \in Range(c[u])
      PROVE  p \in Cells /\ p \notin Range(t) /\ p \notin Range(c[o])
    <2>1. p \in Cells /\ h[p] # 0
        BY <1>1, InUse
    <2>2. p \notin Range(c[o])
        BY <1>1, <1>5
    <2> QED
        BY <1>2, <2>1, <2>2
<1>6. ASSUME NEW u \in Owners, u # o PROVE IsBlock(g, c[u])
    <2>1. IsBlock(h, c[u]) /\ c[u] \in Seq(1 .. Top)
        BY <1>1
    <2>2. ASSUME NEW i \in 1 .. Len(c[u]) PROVE g[c[u][i]] = h[c[u][i]]
        BY <1>2, <1>4, <1>5, <1>6
    <2> QED
        BY <2>1, <2>2 DEF IsBlock
<1>7. \A u \in Owners : IsBlock(g, e[u])
    BY <1>2, <1>3, <1>6
<1>8. \A u, v \in Owners : u # v => Range(e[u]) \cap Range(e[v]) = {}
    <2> TAKE u, v \in Owners
    <2>1. CASE u # o /\ v # o
        BY <1>1, <1>3, <2>1
    <2>2. CASE u = o /\ v # o
        BY <1>3, <1>5, <2>2
    <2>3. CASE u # o /\ v = o
        BY <1>3, <1>5, <2>3
    <2> QED
        BY <2>1, <2>2, <2>3
<1>9. ASSUME NEW p \in 1 .. Top, g[p] > 0 \/ (g[p] # 0 /\ p <= Pages)
      PROVE  \E u \in Owners : p \in Range(e[u])
    <2>1. CASE p \in Range(t)
        BY <1>3, <2>1
    <2>2. CASE p \notin Range(t)
        <3>1. p \notin Range(c[o]) /\ g[p] = h[p]
            BY <1>2, <1>9, <2>2, IsCell
        <3>2. PICK u \in Owners : p \in Range(c[u])
            BY <1>9, <3>1 DEF Pool
        <3> QED
            BY <1>3, <3>1, <3>2
    <2> QED
        BY <2>1, <2>2
<1> QED
    BY <1>2, <1>3, <1>7, <1>8, <1>9 DEF Pool, e

LEMMA LinkedTable ==
    ASSUME NEW h \in [Cells -> -1 .. Top], NEW s \in Seq(1 .. Top), Distinct(s)
    PROVE  /\ Linked(h, s) \in [Cells -> -1 .. Top] /\ IsBlock(Linked(h, s), s)
           /\ \A p \in Cells : p \notin Range(s) => Linked(h, s)[p] = h[p]
<1> DEFINE g == Linked(h, s)
<1>0. Len(s) \in Nat /\ -1 \in -1 .. Top
    BY Sizes
<1>1. ASSUME NEW i \in 1 .. Len(s)
      PROVE  s[i] \in Cells /\ s[i] \in -1 .. Top /\ s[i] \in Range(s)
    BY ElementOfSeq, InRange, IsCell
<1>2. ASSUME NEW i \in 1 .. Len(s)
      PROVE  g[s[i]] = IF i = Len(s) THEN -1 ELSE s[i + 1]
    <2>1. g[s[i]] = IF s[i] = Last(s) THEN -1
                    ELSE s[1 + CHOOSE j \in DOMAIN s : s[j] = s[i]]
        BY <1>1 DEF Linked
    <2>2. s[i] = Last(s) <=> i = Len(s)
        <3>1. Last(s) = s[Len(s)] /\ Len(s) \in 1 .. Len(s)
            BY <1>0 DEF Last
        <3> QED
            BY <3>1 DEF Distinct
    <2>3. (CHOOSE j \in DOMAIN s : s[j] = s[i]) = i
        BY DEF Distinct
    <2>4. 1 + i = i + 1
        OBVIOUS
    <2> HIDE DEF g
    <2> QED
        BY <2>1, <2>2, <2>3, <2>4
<1>3. ASSUME NEW p \in Cells, p \notin Range(s) PROVE g[p] = h[p]
    BY <1>3 DEF Linked
<1>4. ASSUME NEW p \in Cells PROVE g[p] \in -1 .. Top
    <2>1. CASE p \in Range(s)
        <3>1. PICK i \in 1 .. Len(s) : s[i] = p
            BY <2>1, InRange
        <3>2. i # Len(s) => i + 1 \in 1 .. Len(s)
            BY <1>0
        <3> HIDE DEF g
        <3> QED
            BY <1>0, <1>1, <1>2, <3>1, <3>2
    <2>2. CASE p \notin Range(s)
        BY <1>3, <2>2
    <2> QED
        BY <2>1, <2>2
<1>5. g \in [Cells -> -1 .. Top]
    <2>1. g = [p \in Cells |-> g[p]]
        BY DEF Linked
    <2> HIDE DEF g
    <2> QED
        BY <1>4, <2>1
<1> QED
    BY <1>2, <1>3, <1>5 DEF IsBlock

LEMMA ReleasedTable ==
    ASSUME NEW h \in [Cells -> -1 .. Top], NEW s
    PROVE  /\ Released(h, s) \in [Cells -> -1 .. Top]
           /\ \A p \in Cells : Released(h, s)[p] = IF p \in Range(s) THEN 0 ELSE h[p]
<1>1. 0 \in -1 .. Top
    BY Sizes
<1> QED
    BY <1>1 DEF Released

\* n distinct free cells
Fresh(h, t, n) ==
    t \in Seq(1 .. Top) /\ Len(t) = n /\ Distinct(t) /\ \A p \in Range(t) : h[p] = 0

LEMMA NoPages == Range(<<>>) = {} /\ Len(<<>>) = 0 /\ Distinct(<<>>) /\ <<>> \in Seq(1 .. Top)
    BY DEF Range, Distinct

LEMMA Kept ==
    ASSUME NEW h \in [Cells -> -1 .. Top], NEW s \in Seq(1 .. Top), IsBlock(h, s)
    PROVE  Becomes(h, h, s, s)
    BY DEF Becomes

LEMMA Taken ==
    ASSUME NEW h \in [Cells -> -1 .. Top], NEW t, NEW n, Fresh(h, t, n)
    PROVE  Becomes(h, Linked(h, t), <<>>, t)
    BY LinkedTable, NoPages DEF Becomes, Fresh

LEMMA GivenBack ==
    ASSUME NEW h \in [Cells -> -1 .. Top], NEW s \in Seq(1 .. Top)
    PROVE  Becomes(h, Released(h, s), s, <<>>)
    BY ReleasedTable, NoPages DEF Becomes, IsBlock

LEMMA CutOff ==
    ASSUME NEW h \in [Cells -> -1 .. Top], NEW s \in Seq(1 .. Top), IsBlock(h, s),
           NEW n \in 1 .. Len(s)
    PROVE  /\ Becomes(h, Shrunk(h, s, n), s, SubSeq(s, 1, n))
           /\ Len(SubSeq(s, 1, n)) = n
           /\ \A i \in 1 .. n : SubSeq(s, 1, n)[i] = s[i]
<1> DEFINE t == SubSeq(s, 1, n)
           d == SubSeq(s, n + 1, Len(s))
           f == Released(h, d)
           g == Linked(f, t)
<1>0. \A i \in 1 .. Len(s) : s[i] \in 1 .. Top
    BY ElementOfSeq
<1>1. n \in Nat /\ Len(s) \in Nat /\ n <= Len(s) /\ n >= 1
    OBVIOUS
<1>2. t \in Seq(1 .. Top) /\ Len(t) = n /\ \A i \in 1 .. n : t[i] = s[i]
    <2>1. \A i \in 1 .. n : s[i] \in 1 .. Top
        BY <1>0, <1>1
    <2> QED
        BY <1>1, <2>1, SubSeqProperties
<1>3. d \in Seq(1 .. Top)
    <2>1. \A i \in n + 1 .. Len(s) : s[i] \in 1 .. Top
        BY <1>0, <1>1
    <2> QED
        BY <1>1, <2>1, SubSeqProperties
<1>4. s = t \o d
    <2>1. SubSeq(s, 1, n) \o SubSeq(s, n + 1, Len(s)) = SubSeq(s, 1, Len(s))
        <3>1. 1 \in 1 .. Len(s) + 1 /\ n \in 1 - 1 .. Len(s) /\ Len(s) \in n .. Len(s)
            BY <1>1
        <3> QED
            BY <3>1, ConcatAdjacentSubSeq
    <2> QED
        BY <2>1, SubSeqFull
<1> HIDE DEF t, d
<1>5. Range(s) = Range(t) \cup Range(d)
    BY <1>2, <1>3, <1>4, RangeConcatenation
<1>6. Distinct(t)
    BY <1>1, <1>2 DEF IsBlock, Distinct
<1>7. f \in [Cells -> -1 .. Top] /\ \A p \in Cells : f[p] = IF p \in Range(d) THEN 0 ELSE h[p]
    BY ReleasedTable
<1> HIDE DEF f
<1>8. /\ g \in [Cells -> -1 .. Top] /\ IsBlock(g, t)
      /\ \A p \in Cells : p \notin Range(t) => g[p] = f[p]
    BY <1>2, <1>6, <1>7, LinkedTable
<1> HIDE DEF g
<1>9. Becomes(h, g, s, t)
    BY <1>2, <1>5, <1>7, <1>8 DEF Becomes
<1> QED
    BY <1>2, <1>9 DEF Shrunk, f, g, t, d

LEMMA Longer ==
    ASSUME NEW h \in [Cells -> -1 .. Top], NEW s \in Seq(1 .. Top), IsBlock(h, s),
           NEW t, NEW n \in Nat, Fresh(h, t, n)
    PROVE  /\ Becomes(h, Linked(h, s \o t), s, s \o t)
           /\ Len(s \o t) = Len(s) + n
           /\ \A i \in 1 .. Len(s) + n :
                  (s \o t)[i] = IF i <= Len(s) THEN s[i] ELSE t[i - Len(s)]
<1> DEFINE b == s \o t
           g == Linked(h, b)
<1>1. t \in Seq(1 .. Top) /\ Len(t) = n /\ Distinct(t) /\ \A p \in Range(t) : h[p] = 0
    BY DEF Fresh
<1>2. /\ b \in Seq(1 .. Top) /\ Len(b) = Len(s) + n
      /\ \A i \in 1 .. Len(s) + n : b[i] = IF i <= Len(s) THEN s[i] ELSE t[i - Len(s)]
    BY <1>1, ConcatProperties
<1>3. Range(b) = Range(s) \cup Range(t)
    BY <1>1, RangeConcatenation
<1> HIDE DEF b
<1>4. Distinct(b)
    <2>1. ASSUME NEW i \in 1 .. Len(s) + n
          PROVE  \/ i \in 1 .. Len(s) /\ b[i] = s[i] /\ s[i] \in Range(s) /\ h[b[i]] # 0
                 \/ /\ i - Len(s) \in 1 .. n /\ b[i] = t[i - Len(s)] /\ h[b[i]] = 0
                    /\ ~(i \in 1 .. Len(s))
        <3>1. Len(s) \in Nat
            OBVIOUS
        <3>2. CASE i <= Len(s)
            <4>1. i \in 1 .. Len(s) /\ b[i] = s[i]
                BY <1>2, <3>1, <3>2
            <4>2. s[i] \in Range(s)
                BY <4>1, InRange
            <4>3. h[s[i]] # 0
                BY <4>2, InUse
            <4> QED
                BY <4>1, <4>2, <4>3
        <3>3. CASE ~(i <= Len(s))
            <4>1. i - Len(s) \in 1 .. n /\ b[i] = t[i - Len(s)] /\ ~(i \in 1 .. Len(s))
                BY <1>2, <3>1, <3>3
            <4>2. t[i - Len(s)] \in Range(t)
                BY <1>1, <4>1, InRange
            <4> QED
                BY <1>1, <4>1, <4>2
        <3> QED
            BY <3>2, <3>3
    <2>2. ASSUME NEW i \in 1 .. Len(s) + n, NEW j \in 1 .. Len(s) + n, b[i] = b[j]
          PROVE  i = j
        <3>1. Len(s) \in Nat
            OBVIOUS
        <3>2. CASE i \in 1 .. Len(s) /\ j \in 1 .. Len(s)
            <4>1. s[i] = s[j]
                BY <2>1, <2>2, <3>2
            <4> QED
                BY <3>2, <4>1 DEF IsBlock, Distinct
        <3>3. CASE i - Len(s) \in 1 .. n /\ j - Len(s) \in 1 .. n
                   /\ ~(i \in 1 .. Len(s)) /\ ~(j \in 1 .. Len(s))
            <4>1. t[i - Len(s)] = t[j - Len(s)]
                BY <2>1, <2>2, <3>3
            <4>2. i - Len(s) = j - Len(s)
                BY <1>1, <3>3, <4>1 DEF Distinct
            <4> QED
                BY <3>1, <4>2
        <3> QED
            BY <2>1, <2>2, <3>2, <3>3
    <2> QED
        BY <1>2, <2>2 DEF Distinct
<1>5. /\ g \in [Cells -> -1 .. Top] /\ IsBlock(g, b)
      /\ \A p \in Cells : p \notin Range(b) => g[p] = h[p]
    BY <1>2, <1>4, LinkedTable
<1> HIDE DEF g
<1>6. Becomes(h, g, s, b)
    BY <1>1, <1>2, <1>3, <1>5 DEF Becomes
<1> QED
    BY <1>2, <1>6 DEF g, b

LEMMA Elsewhere ==
    ASSUME NEW h \in [Cells -> -1 .. Top], NEW s \in Seq(1 .. Top), IsBlock(h, s),
           NEW t, NEW n \in Nat, Fresh(h, t, n)
    PROVE  Becomes(h, Moved(h, s, t), s, t)
<1> DEFINE f == Linked(h, t)
           g == Released(f, s)
<1>1. t \in Seq(1 .. Top) /\ Distinct(t) /\ \A p \in Range(t) : h[p] = 0
    BY DEF Fresh
<1>2. /\ f \in [Cells -> -1 .. Top] /\ IsBlock(f, t)
      /\ \A p \in Cells : p \notin Range(t) => f[p] = h[p]
    BY <1>1, LinkedTable
<1> HIDE DEF f
<1>3. /\ g \in [Cells -> -1 .. Top]
      /\ \A p \in Cells : g[p] = IF p \in Range(s) THEN 0 ELSE f[p]
    BY <1>2, ReleasedTable
<1> HIDE DEF g
<1>4. \A p \in Range(t) : p \in Cells /\ p \notin Range(s)
    <2>1. \A p \in Range(t) : p \in 1 .. Top
        BY <1>1, RangeOfSeq
    <2> QED
        BY <1>1, <2>1, InUse, IsCell
<1>5. IsBlock(g, t)
    <2>1. ASSUME NEW i \in 1 .. Len(t) PROVE g[t[i]] = f[t[i]]
        BY <1>1, <1>3, <1>4, InRange
    <2> QED
        BY <1>2, <2>1 DEF IsBlock
<1>6. Becomes(h, g, s, t)
    BY <1>1, <1>2, <1>3, <1>5 DEF Becomes
<1> QED
    BY <1>6 DEF Moved, f, g

---------------------------------------------------------------------------
(* Finding free pages *)

LEMMA FreePages ==
    ASSUME NEW h
    PROVE  /\ Free(h) \in SUBSET (1 .. Pages) /\ IsFiniteSet(Free(h))
           /\ FreeTotal(h) \in Nat /\ FreeTotal(h) = Cardinality(Free(h))
<1>1. Free(h) \in SUBSET (1 .. Pages)
    BY DEF Free
<1>2. IsFiniteSet(1 .. Pages)
    BY Sizes, FS_Interval
<1>3. IsFiniteSet(Free(h))
    BY <1>1, <1>2, FS_Subset
<1> QED
    BY <1>1, <1>3, FS_CardinalityType DEF FreeTotal

LEMMA FirstIsMember ==
    ASSUME NEW free \in SUBSET (1 .. Pages), NEW cells \in SUBSET Nat, cells # {}
    PROVE  First(free, cells) \in cells
<1> DEFINE size(r) == Cardinality(Run(free, IF r \in free THEN r ELSE Pages))
           sizes == {size(r) : r \in cells}
           best(m) == {r \in cells : size(r) = m}
<1>1. \A r : size(r) \in Nat
    <2>1. IsFiniteSet(1 .. Pages)
        BY Sizes, FS_Interval
    <2>2. \A r : Run(free, r) \in SUBSET (1 .. Pages)
        BY DEF Run
    <2>3. \A r : IsFiniteSet(Run(free, r))
        BY <2>1, <2>2, FS_Subset
    <2> QED
        BY <2>3, FS_CardinalityType
<1>2. \A p, q : Before(free, p, q) <=> size(p) < size(q) \/ (size(p) = size(q) /\ p < q)
    BY DEF Before
<1> HIDE DEF size
<1>3. sizes \in SUBSET Nat /\ sizes # {}
    BY <1>1
<1>4. PICK m \in sizes : \A x \in sizes : m <= x
    <2> HIDE DEF sizes
    <2> QED
        BY <1>3, SmallestIsMember
<1>5. best(m) \in SUBSET Nat /\ best(m) # {}
    OBVIOUS
<1>6. PICK b \in best(m) : \A x \in best(m) : b <= x
    <2> HIDE DEF best
    <2> QED
        BY <1>5, SmallestIsMember
<1>7. b \in cells /\ size(b) = m
    OBVIOUS
<1>8. ASSUME NEW q \in cells \ {b} PROVE Before(free, b, q)
    <2>1. size(q) \in Nat /\ m \in Nat /\ m <= size(q)
        BY <1>1, <1>4
    <2>2. size(q) = m => b < q
        <3>1. size(q) = m => q \in best(m)
            OBVIOUS
        <3>2. b \in Nat /\ q \in Nat /\ b # q
            BY <1>7
        <3> HIDE DEF best
        <3> QED
            BY <1>6, <3>1, <3>2
    <2> QED
        BY <1>2, <1>7, <2>1, <2>2
<1>9. \E p \in cells : \A q \in cells \ {p} : Before(free, p, q)
    BY <1>7, <1>8
<1> QED
    BY <1>9 DEF First

\* The first of n free pages in a row, at the start of a run
LEMMA BestMatchFits ==
    ASSUME NEW free \in SUBSET (1 .. Pages), NEW n \in Nat, n > 0, BestMatch(free, n) # 0
    PROVE  /\ BestMatch(free, n) \in 1 .. Pages
           /\ \A i \in 0 .. n - 1 : BestMatch(free, n) + i \in free
<1> DEFINE enough == {p \in free : p - 1 \notin free /\ Cardinality(Run(free, p)) >= n}
<1>1. enough # {} /\ BestMatch(free, n) = First(free, enough)
    BY DEF BestMatch
<1>2. enough \in SUBSET Nat
    <2>1. enough \subseteq free /\ 1 .. Pages \subseteq Nat
        OBVIOUS
    <2> HIDE DEF enough
    <2> QED
        BY <2>1
<1>3. PICK p : p = BestMatch(free, n) /\ p \in enough
    <2> HIDE DEF enough
    <2> QED
        BY <1>1, <1>2, FirstIsMember
<1>4. p \in free /\ p \in 1 .. Pages /\ p - 1 \notin free /\ Cardinality(Run(free, p)) >= n
    BY <1>3
<1>5. ASSUME NEW i \in 0 .. n - 1, p + i \notin free PROVE FALSE
    <2>1. p \in Int /\ i \in Nat /\ i < n /\ p + i - 1 \in Int
        BY <1>4
    <2>2. Run(free, p) \in SUBSET (p .. p + i - 1)
        <3> SUFFICES ASSUME NEW q \in free, (p .. q) \cup (q .. p) \subseteq free
                     PROVE  q \in p .. p + i - 1
            BY DEF Run
        <3>1. q \in Int
            BY Sizes
        <3>2. q < p => p - 1 \in q .. p
            BY <2>1, <3>1
        <3>3. q >= p + i => p + i \in p .. q
            BY <2>1, <3>1
        <3>4. ~(q < p) /\ ~(q >= p + i)
            BY <1>4, <1>5, <3>2, <3>3
        <3> QED
            BY <2>1, <3>1, <3>4
    <2>3. IsFiniteSet(p .. p + i - 1) /\ Cardinality(p .. p + i - 1) = i
        <3>1. IsFiniteSet(p .. p + i - 1)
              /\ Cardinality(p .. p + i - 1)
                 = IF p > p + i - 1 THEN 0 ELSE (p + i - 1) - p + 1
            BY <2>1, FS_Interval
        <3> QED
            BY <2>1, <3>1
    <2>4. Cardinality(Run(free, p)) <= i
        BY <2>2, <2>3, FS_Subset
    <2>5. Cardinality(Run(free, p)) \in Nat
        BY <2>2, <2>3, FS_Subset, FS_CardinalityType
    <2> QED
        BY <1>4, <2>1, <2>4, <2>5
<1> QED
    BY <1>3, <1>4, <1>5

\* f takes the first k of the cells, one after the other.
Takes(f, k, free, cells) ==
    f = [i \in 1 .. k |-> First(free, cells \ {f[j] : j \in 1 .. i - 1})]

LEMMA TakesSome ==
    ASSUME NEW n \in Nat, NEW free, NEW cells
    PROVE  \E f : Takes(f, n, free, cells)
<1> DEFINE none == {k \in Nat : ~\E f : Takes(f, k, free, cells)}
<1>1. ASSUME none # {} PROVE FALSE
    <2>1. PICK k \in none : \A j \in none : k <= j
        <3>1. none \in SUBSET Nat
            OBVIOUS
        <3> HIDE DEF none
        <3> QED
            BY <1>1, <3>1, SmallestIsMember
    <2>2. CASE k = 0
        <3> DEFINE f == [i \in 1 .. 0 |-> 0]
        <3>1. f = [i \in 1 .. 0 |-> First(free, cells \ {f[j] : j \in 1 .. i - 1})]
            OBVIOUS
        <3> QED
            BY <2>2, <3>1 DEF Takes
    <2>3. CASE k # 0
        <3>1. k \in Nat /\ k - 1 \in Nat /\ ~(k <= k - 1)
            BY <2>3
        <3>2. PICK g : Takes(g, k - 1, free, cells)
            BY <2>1, <3>1
        <3> DEFINE new == First(free, cells \ {g[j] : j \in 1 .. k - 1})
                   f == [i \in 1 .. k |-> IF i < k THEN g[i] ELSE new]
        <3>3. ASSUME NEW i \in 1 .. k
              PROVE  f[i] = First(free, cells \ {f[j] : j \in 1 .. i - 1})
            <4>1. \A j \in 1 .. i - 1 : f[j] = g[j]
                BY <3>1
            <4>2. {f[j] : j \in 1 .. i - 1} = {g[j] : j \in 1 .. i - 1}
                BY <4>1
            <4>3. CASE i = k
                <5>1. f[i] = new /\ {g[j] : j \in 1 .. k - 1} = {g[j] : j \in 1 .. i - 1}
                    BY <4>3
                <5> QED
                    BY <4>2, <5>1
            <4>4. CASE i # k
                <5>1. i \in 1 .. k - 1 /\ f[i] = g[i]
                    BY <3>1, <4>4
                <5>2. g[i] = First(free, cells \ {g[j] : j \in 1 .. i - 1})
                    BY <3>2, <5>1 DEF Takes
                <5> QED
                    BY <4>2, <5>1, <5>2
            <4> QED
                BY <4>3, <4>4
        <3>4. f = [i \in 1 .. k |-> f[i]]
            OBVIOUS
        <3> HIDE DEF f
        <3>5. Takes(f, k, free, cells)
            BY <3>3, <3>4 DEF Takes
        <3> QED
            BY <2>1, <3>5
    <2> QED
        BY <2>2, <2>3
<1> QED
    BY <1>1

LEMMA ScatteredFree ==
    ASSUME NEW h \in [Cells -> -1 .. Top], NEW n \in Nat, n <= FreeTotal(h)
    PROVE  Fresh(h, Scattered(h, n), n)
<1> DEFINE free == Free(h)
           behind == {p \in Pages + 1 .. Pages + Beyond : \A q \in Pages .. p : h[q] = 0}
           cells == free \cup behind
           t == Scattered(h, n)
<1>1. Takes(t, n, free, cells)
    <2>1. t = CHOOSE f : Takes(f, n, free, cells)
        BY DEF Scattered, Takes
    <2> HIDE DEF t, free, cells
    <2> QED
        BY <2>1, TakesSome
<1>2. cells \subseteq 1 .. Top /\ \A p \in cells : h[p] = 0
    <2>1. \A p \in free : p \in 1 .. Top /\ h[p] = 0
        BY Sizes DEF Free
    <2>2. ASSUME NEW p \in behind PROVE p \in 1 .. Top /\ h[p] = 0
        <3>1. p \in Pages .. p /\ p \in 1 .. Top
            BY Sizes DEF Top
        <3> QED
            BY <3>1
    <2> QED
        BY <2>1, <2>2
<1>3. free \in SUBSET (1 .. Pages) /\ IsFiniteSet(free) /\ Cardinality(free) \in Nat
      /\ n <= Cardinality(free) /\ free \subseteq cells
    BY FreePages
<1> HIDE DEF t, free, cells
<1>4. ASSUME NEW i \in 1 .. n
      PROVE  t[i] \in cells /\ \A j \in 1 .. i - 1 : t[i] # t[j]
    <2> DEFINE before == {t[j] : j \in 1 .. i - 1}
    <2>1. i \in Nat /\ i <= n /\ i >= 1
        OBVIOUS
    <2>2. IsFiniteSet(1 .. i - 1) /\ Cardinality(1 .. i - 1) = i - 1
        <3>1. IsFiniteSet(1 .. i - 1)
              /\ Cardinality(1 .. i - 1) = IF 1 > i - 1 THEN 0 ELSE (i - 1) - 1 + 1
            BY <2>1, FS_Interval
        <3> QED
            BY <2>1, <3>1
    <2>3. IsFiniteSet(before) /\ Cardinality(before) <= i - 1 /\ Cardinality(before) \in Nat
        <3> DEFINE f == [j \in 1 .. i - 1 |-> t[j]]
        <3>1. f \in Surjection(1 .. i - 1, before)
            BY DEF Surjection
        <3> HIDE DEF f, before
        <3>2. IsFiniteSet(before) /\ Cardinality(before) <= Cardinality(1 .. i - 1)
            BY <2>2, <3>1, FS_Surjection
        <3>3. Cardinality(before) \in Nat
            BY <3>2, FS_CardinalityType
        <3> QED
            BY <2>2, <3>2, <3>3
    <2>4. t[i] = First(free, cells \ before)
        BY <1>1 DEF Takes
    <2> HIDE DEF before
    <2>5. cells \ before # {}
        <3> SUFFICES ASSUME cells \ before = {} PROVE FALSE
            OBVIOUS
        <3>1. free \in SUBSET before
            BY <1>3
        <3>2. Cardinality(free) <= Cardinality(before)
            BY <2>3, <3>1, FS_Subset
        <3> QED
            BY <1>3, <2>1, <2>3, <3>2
    <2>6. cells \ before \in SUBSET Nat
        <3>1. \A p \in 1 .. Top : p \in Nat
            BY IsCell
        <3> QED
            BY <1>2, <3>1
    <2>7. t[i] \in cells \ before
        BY <1>3, <2>4, <2>5, <2>6, FirstIsMember
    <2> QED
        BY <2>7 DEF before
<1>5. t = [i \in 1 .. n |-> t[i]]
    BY <1>1 DEF Takes
<1>6. t \in Seq(1 .. Top) /\ Len(t) = n
    <2>1. \A i \in 1 .. n : t[i] \in 1 .. Top
        BY <1>2, <1>4
    <2>2. t \in [1 .. n -> 1 .. Top]
        BY <1>5, <2>1
    <2> HIDE DEF t
    <2> QED
        BY <2>2, FunctionIsSeq
<1>7. Distinct(t)
    <2>1. ASSUME NEW i \in 1 .. n, NEW j \in 1 .. n, t[i] = t[j] PROVE i = j
        <3>1. i < j \/ j < i \/ i = j
            OBVIOUS
        <3>2. (i < j => i \in 1 .. j - 1) /\ (j < i => j \in 1 .. i - 1)
            OBVIOUS
        <3> QED
            BY <1>4, <2>1, <3>1, <3>2
    <2> QED
        BY <1>6, <2>1 DEF Distinct
<1>8. ASSUME NEW p \in Range(t) PROVE h[p] = 0
    <2>1. PICK i \in 1 .. n : t[i] = p
        BY <1>6, InRange
    <2> QED
        BY <1>2, <1>4, <2>1
<1> QED
    BY <1>6, <1>7, <1>8 DEF Fresh, t

\* Pages of the table that follow each other
InARow(s) == \A i \in 1 .. Len(s) : s[i] = s[1] + i - 1 /\ s[i] <= Pages

LEMMA RowFree ==
    ASSUME NEW h, NEW p \in 1 .. Pages, NEW n \in Nat, n > 0,
           \A i \in 0 .. n - 1 : p + i \in Free(h)
    PROVE  Fresh(h, From(p, n), n) /\ InARow(From(p, n)) /\ From(p, n)[1] = p
<1> DEFINE t == From(p, n)
<1>1. \A i \in 1 .. n : t[i] = p + i - 1
    BY DEF From
<1>2. ASSUME NEW i \in 1 .. n
      PROVE  t[i] \in 1 .. Pages /\ t[i] \in 1 .. Top /\ h[t[i]] = 0
    <2>1. i - 1 \in 0 .. n - 1 /\ p + (i - 1) = p + i - 1
        OBVIOUS
    <2>2. p + i - 1 \in Free(h)
        BY <2>1
    <2>3. p + i - 1 \in 1 .. Pages /\ h[p + i - 1] = 0
        BY <2>2 DEF Free
    <2>4. \A q \in 1 .. Pages : q \in 1 .. Top
        BY Sizes
    <2> HIDE DEF t
    <2> QED
        BY <1>1, <2>3, <2>4
<1>3. t \in Seq(1 .. Top) /\ Len(t) = n
    <2>1. t \in [1 .. n -> 1 .. Top]
        BY <1>2 DEF From
    <2> HIDE DEF t
    <2> QED
        BY <2>1, FunctionIsSeq
<1> HIDE DEF t
<1>4. Distinct(t)
    BY <1>1, <1>3 DEF Distinct
<1>5. t[1] = p
    BY <1>1
<1>6. InARow(t)
    BY <1>1, <1>2, <1>3, <1>5 DEF InARow
<1>7. \A q \in Range(t) : h[q] = 0
    BY <1>2, <1>3, InRange
<1> QED
    BY <1>3, <1>4, <1>5, <1>6, <1>7 DEF Fresh, t

\* What an allocation of n pages gives
Got(h, n, sequence, t) ==
    \/ t = <<>> /\ (n > 0 /\ ~sequence => FreeTotal(h) < n)
    \/ t # <<>> /\ n > 0 /\ Fresh(h, t, n) /\ (sequence => InARow(t))

LEMMA Allocated ==
    ASSUME NEW h \in [Cells -> -1 .. Top], NEW n \in Nat, NEW sequence \in BOOLEAN
    PROVE  Got(h, n, sequence, AllocatePages(h, n, sequence))
<1>1. CASE n = 0
    BY <1>1 DEF Got, AllocatePages
<1>2. CASE n > 0 /\ sequence
    <2> DEFINE p == BestMatch(Free(h), n)
    <2>1. AllocatePages(h, n, sequence) = IF p = 0 THEN <<>> ELSE From(p, n)
        BY <1>2 DEF AllocatePages
    <2>2. CASE p = 0
        BY <1>2, <2>1, <2>2 DEF Got
    <2>3. CASE p # 0
        <3>1. p \in 1 .. Pages /\ \A i \in 0 .. n - 1 : p + i \in Free(h)
            BY <1>2, <2>3, FreePages, BestMatchFits
        <3> HIDE DEF p
        <3>2. Fresh(h, From(p, n), n) /\ InARow(From(p, n))
            BY <1>2, <3>1, RowFree
        <3>3. From(p, n) # <<>>
            BY <1>2, <3>2, NoPages DEF Fresh
        <3> QED
            BY <1>2, <2>1, <2>3, <3>2, <3>3 DEF Got
    <2> QED
        BY <2>2, <2>3
<1>3. CASE n > 0 /\ ~sequence
    <2>1. AllocatePages(h, n, sequence) = IF FreeTotal(h) < n THEN <<>> ELSE Scattered(h, n)
        BY <1>3 DEF AllocatePages
    <2>2. CASE FreeTotal(h) < n
        BY <1>3, <2>1, <2>2 DEF Got
    <2>3. CASE ~(FreeTotal(h) < n)
        <3>1. n <= FreeTotal(h)
            BY <2>3, FreePages
        <3>2. Fresh(h, Scattered(h, n), n)
            BY <3>1, ScatteredFree
        <3>3. Scattered(h, n) # <<>>
            BY <1>3, <3>2, NoPages DEF Fresh
        <3> QED
            BY <1>3, <2>1, <2>3, <3>2, <3>3 DEF Got
    <2> QED
        BY <2>2, <2>3
<1> QED
    BY <1>1, <1>2, <1>3

\* r is the answer to a request for n pages for the block s, which becomes t.
Resized(h, s, n, sequence, r, t) ==
    /\ Becomes(h, r.h, s, t)
    /\ r.mem \in -1 .. Top /\ Starts(t, r.mem)
    /\ r.ok \in BOOLEAN /\ (r.ok => Len(t) = n) /\ (~r.ok => t = s)
    /\ sequence /\ InARow(s) => InARow(t)

LEMMA ResizedTo ==
    ASSUME NEW h, NEW s, NEW n, NEW sequence, NEW ok \in BOOLEAN, NEW g, NEW m \in -1 .. Top,
           NEW t, Becomes(h, g, s, t), Starts(t, m), ok => Len(t) = n, ~ok => t = s,
           sequence /\ InARow(s) => InARow(t), NEW r, r = Outcome(ok, g, m)
    PROVE  \E u : Resized(h, s, n, sequence, r, u)
<1>1. r.ok = ok /\ r.h = g /\ r.mem = m
    BY DEF Outcome
<1> QED
    BY <1>1 DEF Resized

LEMMA Reallocated ==
    ASSUME NEW h \in [Cells -> -1 .. Top], NEW s \in Seq(1 .. Top), IsBlock(h, s),
           NEW mem \in -1 .. Top, Starts(s, mem), Chain(h, mem) = s,
           NEW n \in Nat, NEW sequence \in BOOLEAN
    PROVE  \E t : Resized(h, s, n, sequence, ReAllocatePages(h, mem, n, sequence), t)
<1> DEFINE need == n - Len(s)
           r == ReAllocatePages(h, mem, n, sequence)
           fresh == AllocatePages(h, IF sequence THEN n ELSE need, sequence)
           all == AllocatePages(h, n, sequence)
           more == From(Last(s) + 1, need)
           none == s = <<>>
           yes == TRUE
           no == FALSE
<1> SUFFICES \E t : Resized(h, s, n, sequence, r, t)
    OBVIOUS
<1>0. Len(s) \in Nat /\ need \in Int /\ (none <=> Len(s) = 0)
    OBVIOUS
<1>n. need = n - Len(s)
    OBVIOUS
<1>b. none \in BOOLEAN /\ yes \in BOOLEAN /\ no \in BOOLEAN /\ yes /\ ~no
    OBVIOUS
<1>e. /\ n = 0 => ~(n > 0) /\ ~(need > 0)
      /\ need <= 0 => ~(need > 0)
      /\ need > 0 => n > 0 /\ ~(n = 0) /\ ~(need <= 0)
    BY <1>0
<1>1. r = CASE none /\ n = 0 -> Outcome(yes, h, mem)
          [] none /\ n > 0 ->
                 IF all = <<>> THEN Outcome(no, h, 0) ELSE Outcome(yes, Linked(h, all), all[1])
          [] ~none /\ n = 0 -> Outcome(yes, Released(h, s), -1)
          [] ~none /\ n > 0 /\ need <= 0 -> Outcome(yes, Shrunk(h, s, n), mem)
          [] ~none /\ need > 0 /\ sequence /\ Room(h, Last(s), need) ->
                 Outcome(yes, Linked(h, s \o more), mem)
          [] ~none /\ need > 0 /\ sequence /\ ~Room(h, Last(s), need) ->
                 IF fresh = <<>> THEN Outcome(no, h, mem)
                 ELSE Outcome(yes, Moved(h, s, fresh), fresh[1])
          [] ~none /\ need > 0 /\ ~sequence ->
                 IF fresh = <<>> THEN Outcome(no, h, mem)
                 ELSE Outcome(yes, Linked(h, s \o fresh), mem)
    BY DEF ReAllocatePages
<1>2. Becomes(h, h, s, s)
    BY Kept
<1>3. Got(h, n, sequence, all)
    BY Allocated
<1>4. need > 0 => Got(h, IF sequence THEN n ELSE need, sequence, fresh)
    <2>1. need > 0 => (IF sequence THEN n ELSE need) \in Nat
        BY <1>0
    <2> QED
        BY <2>1, Allocated
<1>5. \A t, k : Fresh(h, t, k) /\ t # <<>> => Starts(t, t[1]) /\ t[1] \in -1 .. Top
    <2> TAKE t, k
    <2> SUFFICES ASSUME Fresh(h, t, k), t # <<>> PROVE t[1] \in -1 .. Top
        BY DEF Starts
    <2>1. t \in Seq(1 .. Top) /\ 1 \in 1 .. Len(t)
        BY DEF Fresh
    <2>2. t[1] \in 1 .. Top
        BY <2>1, ElementOfSeq
    <2> QED
        BY <2>2, IsCell
<1> HIDE DEF r, all, fresh, none, need, more, yes, no
<1>6. CASE none /\ n = 0
    <2>1. r = Outcome(yes, h, mem)
        BY <1>b, <1>e, <1>1, <1>6
    <2> QED
        BY <1>b, <1>0, <1>2, <1>6, <2>1, ResizedTo
<1>7. CASE none /\ n > 0 /\ all = <<>>
    <2>1. r = Outcome(no, h, 0)
        BY <1>b, <1>e, <1>1, <1>7
    <2>2. Starts(s, 0) /\ 0 \in -1 .. Top
        BY <1>7, Sizes DEF Starts, none
    <2> QED
        BY <1>b, <1>2, <2>1, <2>2, ResizedTo
<1>8. CASE none /\ n > 0 /\ all # <<>>
    <2>1. r = Outcome(yes, Linked(h, all), all[1])
        BY <1>b, <1>e, <1>1, <1>8
    <2>2. Fresh(h, all, n) /\ (sequence => InARow(all))
        BY <1>3, <1>8 DEF Got
    <2>3. Becomes(h, Linked(h, all), s, all) /\ Len(all) = n
        BY <1>8, <2>2, Taken DEF Fresh, none
    <2>4. Starts(all, all[1]) /\ all[1] \in -1 .. Top
        BY <1>5, <1>8, <2>2
    <2> QED
        BY <1>b, <2>1, <2>2, <2>3, <2>4, ResizedTo
<1>9. CASE ~none /\ n = 0
    <2>1. r = Outcome(yes, Released(h, s), -1)
        BY <1>b, <1>e, <1>1, <1>9
    <2>2. Becomes(h, Released(h, s), s, <<>>)
        BY GivenBack
    <2>3. Starts(<<>>, -1) /\ -1 \in -1 .. Top /\ Len(<<>>) = n /\ InARow(<<>>)
        BY <1>9, Sizes, NoPages DEF Starts, InARow
    <2> QED
        BY <1>b, <2>1, <2>2, <2>3, ResizedTo
<1>10. CASE ~none /\ n > 0 /\ need <= 0
    <2>1. r = Outcome(yes, Shrunk(h, s, n), mem)
        BY <1>b, <1>e, <1>1, <1>10
    <2>2. n \in 1 .. Len(s)
        BY <1>0, <1>n, <1>10
    <2> DEFINE t == SubSeq(s, 1, n)
    <2>3. Becomes(h, Shrunk(h, s, n), s, t) /\ Len(t) = n /\ \A i \in 1 .. n : t[i] = s[i]
        BY <2>2, CutOff
    <2> HIDE DEF t
    <2>4. t # <<>> /\ t[1] = s[1]
        BY <1>10, <2>3, NoPages
    <2>5. Starts(t, mem)
        BY <1>10, <2>4 DEF Starts, none
    <2>6. InARow(s) => InARow(t)
        BY <2>2, <2>3, <2>4 DEF InARow
    <2> QED
        BY <1>b, <2>1, <2>3, <2>5, <2>6, ResizedTo
<1>11. ASSUME ~none, need > 0, NEW x, x # <<>>, Fresh(h, x, need),
              sequence /\ InARow(s) => InARow(s \o x), r = Outcome(yes, Linked(h, s \o x), mem)
       PROVE  \E t : Resized(h, s, n, sequence, r, t)
    <2> DEFINE t == s \o x
    <2>1. need \in Nat /\ Len(s) + need = n
        BY <1>0, <1>n, <1>11
    <2>2. /\ Becomes(h, Linked(h, t), s, t) /\ Len(t) = Len(s) + need
          /\ \A i \in 1 .. Len(s) + need : t[i] = IF i <= Len(s) THEN s[i] ELSE x[i - Len(s)]
        BY <1>11, <2>1, Longer
    <2>3. r = Outcome(yes, Linked(h, t), mem) /\ (sequence /\ InARow(s) => InARow(t))
        BY <1>11
    <2> HIDE DEF t
    <2>4. t # <<>> /\ t[1] = s[1] /\ Len(t) = n
        BY <1>0, <1>11, <2>1, <2>2, NoPages
    <2>5. Starts(t, mem)
        BY <1>11, <2>4 DEF Starts, none
    <2> QED
        BY <1>b, <2>2, <2>3, <2>4, <2>5, ResizedTo
<1>12. CASE ~none /\ need > 0 /\ sequence /\ Room(h, Last(s), need)
    <2>1. r = Outcome(yes, Linked(h, s \o more), mem)
        BY <1>b, <1>e, <1>1, <1>12
    <2>2. need \in Nat /\ Len(s) \in 1 .. Len(s) /\ Last(s) = s[Len(s)]
        BY <1>0, <1>12 DEF Last
    <2>3. Last(s) \in 1 .. Top
        BY <2>2, ElementOfSeq
    <2>4. \A i \in 0 .. need - 1 : (Last(s) + 1) + i \in Free(h)
        <3> TAKE i \in 0 .. need - 1
        <3>1. i + 1 \in 1 .. need /\ Last(s) + (i + 1) = (Last(s) + 1) + i
            BY <1>0, <2>2, <2>3
        <3>2. Last(s) + (i + 1) \in Free(h)
            BY <1>12, <3>1 DEF Room
        <3> QED
            BY <3>1, <3>2
    <2>5. Last(s) + 1 \in 1 .. Pages
        <3>1. 0 \in 0 .. need - 1 /\ (Last(s) + 1) + 0 = Last(s) + 1
            BY <1>12, <2>2, <2>3
        <3>2. Last(s) + 1 \in Free(h)
            BY <2>4, <3>1
        <3> QED
            BY <3>2, FreePages
    <2>6. Fresh(h, more, need) /\ InARow(more) /\ more[1] = Last(s) + 1
        BY <1>12, <2>2, <2>4, <2>5, RowFree DEF more
    <2>7. more # <<>> /\ Len(more) = need
        BY <1>12, <2>6, NoPages DEF Fresh
    <2>8. ASSUME InARow(s) PROVE InARow(s \o more)
        <3> DEFINE t == s \o more
        <3>1. /\ Len(t) = Len(s) + need
              /\ \A i \in 1 .. Len(s) + need : t[i] = IF i <= Len(s) THEN s[i] ELSE more[i - Len(s)]
            BY <2>2, <2>6, Longer
        <3> HIDE DEF t
        <3>2. s[Len(s)] = s[1] + Len(s) - 1 /\ s[1] \in Int
            <4>1. 1 \in 1 .. Len(s)
                BY <1>0, <2>2
            <4>2. s[1] \in 1 .. Top
                BY <4>1, ElementOfSeq
            <4> QED
                BY <2>2, <2>8, <4>2 DEF InARow
        <3>3. ASSUME NEW i \in 1 .. Len(s) + need PROVE t[i] = s[1] + i - 1 /\ t[i] <= Pages
            <4>1. CASE i <= Len(s)
                <5>1. i \in 1 .. Len(s) /\ t[i] = s[i]
                    BY <1>0, <3>1, <4>1
                <5> QED
                    BY <2>8, <5>1 DEF InARow
            <4>2. CASE ~(i <= Len(s))
                <5>1. i - Len(s) \in 1 .. need /\ t[i] = more[i - Len(s)]
                    BY <1>0, <2>2, <3>1, <4>2
                <5>2. /\ more[i - Len(s)] = more[1] + (i - Len(s)) - 1
                      /\ more[i - Len(s)] <= Pages
                    BY <2>6, <2>7, <5>1 DEF InARow
                <5>3. more[1] = s[1] + Len(s)
                    BY <1>0, <2>2, <2>6, <3>2
                <5> QED
                    BY <1>0, <3>2, <5>1, <5>2, <5>3
            <4> QED
                BY <4>1, <4>2
        <3>4. t[1] = s[1]
            BY <1>0, <2>2, <3>1
        <3> QED
            BY <3>1, <3>3, <3>4 DEF InARow, t
    <2> QED
        BY <1>11, <1>12, <2>1, <2>6, <2>7, <2>8
<1>13. CASE ~none /\ need > 0 /\ sequence /\ ~Room(h, Last(s), need) /\ fresh # <<>>
    <2>1. r = Outcome(yes, Moved(h, s, fresh), fresh[1])
        BY <1>b, <1>e, <1>1, <1>13
    <2>2. Fresh(h, fresh, n) /\ InARow(fresh)
        BY <1>4, <1>13 DEF Got
    <2>3. Becomes(h, Moved(h, s, fresh), s, fresh) /\ Len(fresh) = n
        BY <2>2, Elsewhere DEF Fresh
    <2>4. Starts(fresh, fresh[1]) /\ fresh[1] \in -1 .. Top
        BY <1>5, <1>13, <2>2
    <2> QED
        BY <1>b, <2>1, <2>2, <2>3, <2>4, ResizedTo
<1>14. CASE ~none /\ need > 0 /\ ~sequence /\ fresh # <<>>
    <2>1. r = Outcome(yes, Linked(h, s \o fresh), mem)
        BY <1>b, <1>e, <1>1, <1>14
    <2>2. Fresh(h, fresh, need)
        BY <1>4, <1>14 DEF Got
    <2> QED
        BY <1>11, <1>14, <2>1, <2>2
<1>15. CASE ~none /\ need > 0 /\ fresh = <<>> /\ (sequence => ~Room(h, Last(s), need))
    <2>1. r = Outcome(no, h, mem)
        BY <1>b, <1>e, <1>1, <1>15
    <2> QED
        BY <1>b, <1>2, <2>1, ResizedTo
<1>16. n = 0 \/ (n > 0 /\ need <= 0) \/ need > 0
    BY <1>0, <1>n
<1> QED
    BY <1>6, <1>7, <1>8, <1>9, <1>10, <1>12, <1>13, <1>14, <1>15, <1>16

---------------------------------------------------------------------------
(* What the users of the table hold *)

XmsOwner(i) == <<"xms", i>>
EmsOwner(i) == <<"ems", i>>
VcpiOwner(p) == <<"vcpi", p>>

LEMMA OwnerNames ==
    /\ \A i \in 1 .. XmsBlocks : XmsOwner(i) \in Owners
    /\ \A i \in 0 .. EmsHandles : EmsOwner(i) \in Owners
    /\ \A p \in 1 .. Top : VcpiOwner(p) \in Owners
    /\ \A i, j : XmsOwner(i) = XmsOwner(j) => i = j
    /\ \A i, j : EmsOwner(i) = EmsOwner(j) => i = j
    /\ \A i, j : VcpiOwner(i) = VcpiOwner(j) => i = j
    /\ \A i, j : XmsOwner(i) # EmsOwner(j) /\ XmsOwner(i) # VcpiOwner(j)
    /\ \A i, j : EmsOwner(i) # XmsOwner(j) /\ EmsOwner(i) # VcpiOwner(j)
    /\ \A i, j : VcpiOwner(i) # XmsOwner(j) /\ VcpiOwner(i) # EmsOwner(j)
    /\ \A o \in Owners :
           \/ \E i \in 1 .. XmsBlocks : o = XmsOwner(i)
           \/ \E i \in 0 .. EmsHandles : o = EmsOwner(i)
           \/ \E p \in 1 .. Top : o = VcpiOwner(p)
    BY DEF Owners, XmsOwner, EmsOwner, VcpiOwner

\* The pages s of an XMS block b
XmsHeld(s, b) ==
    /\ Starts(s, b.mem) /\ InARow(s) /\ Len(s) = Needed(b.size)
    /\ b.free => b.size = 0

\* The pages s of an EMS handle b
EmsHeld(s, b) ==
    Starts(s, b.mem) /\ Len(s) = IF b.pages = NULL_HANDLE THEN 0 ELSE b.pages * EmsPage

VcpiHeld(s, p, v) == s = IF p \in v THEN <<p>> ELSE <<>>

Held(c) ==
    /\ \A i \in 1 .. XmsBlocks : XmsHeld(c[XmsOwner(i)], xms[i])
    /\ \A i \in 0 .. EmsHandles : EmsHeld(c[EmsOwner(i)], ems[i])
    /\ vcpi \subseteq 1 .. Top
    /\ \A p \in 1 .. Top : VcpiHeld(c[VcpiOwner(p)], p, vcpi)

XmsBlock == [size : Nat, mem : -1 .. Pages, locked : 0 .. LockMax, free : BOOLEAN]
EmsHandle == [pages : Nat \cup {NULL_HANDLE}, mem : -1 .. Top]

\* A step gives the owner o the pages t.  When o is a locked block, or what
\* was one, no page changes.
Step(c, o, t) ==
    /\ Becomes(mhandles, mhandles', c[o], t)
    /\ Held([c EXCEPT ![o] = t])'
    /\ \A i \in 1 .. XmsBlocks :
           xms[i].locked > 0 /\ ~xms[i].free /\ ~xms'[i].free
           => xms'[i].mem = xms[i].mem /\ (o # XmsOwner(i) \/ mhandles' = mhandles)

State(c) == TypeOK /\ Pool(mhandles, c) /\ Held(c)

LEMMA StateHas ==
    ASSUME NEW c, State(c)
    PROVE  /\ mhandles \in [Cells -> -1 .. Top] /\ c \in [Owners -> Seq(1 .. Top)]
           /\ \A o \in Owners : c[o] \in Seq(1 .. Top) /\ IsBlock(mhandles, c[o])
           /\ xms \in [1 .. XmsBlocks -> XmsBlock] /\ ems \in [0 .. EmsHandles -> EmsHandle]
           /\ vcpi \subseteq 1 .. Top
    BY DEF State, Pool, TypeOK, Held, XmsBlock, EmsHandle, Top

LEMMA XmsChanges ==
    ASSUME NEW c, State(c), NEW i \in 1 .. XmsBlocks, NEW b \in XmsBlock, NEW t,
           xms' = [xms EXCEPT ![i] = b], ems' = ems, vcpi' = vcpi, exited' = exited,
           Becomes(mhandles, mhandles', c[XmsOwner(i)], t), XmsHeld(t, b),
           xms[i].locked > 0 /\ ~xms[i].free
           => b.free \/ (b.mem = xms[i].mem /\ mhandles' = mhandles)
    PROVE  TypeOK' /\ Step(c, XmsOwner(i), t)
<1> DEFINE o == XmsOwner(i)
           d == [c EXCEPT ![o] = t]
<1>1. d[o] = t /\ \A u \in Owners : u # o => d[u] = c[u]
    BY StateHas, OwnerNames
<1>2. /\ xms \in [1 .. XmsBlocks -> XmsBlock] /\ xms' \in [1 .. XmsBlocks -> XmsBlock]
      /\ xms'[i] = b /\ \A j \in 1 .. XmsBlocks : j # i => xms'[j] = xms[j]
    BY StateHas
<1>3. Held(c)
    BY DEF State
<1> HIDE DEF d
<1>4. \A j \in 1 .. XmsBlocks : XmsHeld(d[XmsOwner(j)], xms'[j])
    <2> TAKE j \in 1 .. XmsBlocks
    <2>1. CASE j = i
        BY <1>1, <1>2, <2>1
    <2>2. CASE j # i
        <3>1. d[XmsOwner(j)] = c[XmsOwner(j)]
            BY <1>1, <2>2, OwnerNames
        <3> QED
            BY <1>2, <1>3, <2>2, <3>1 DEF Held
    <2> QED
        BY <2>1, <2>2
<1>5. \A j \in 0 .. EmsHandles : EmsHeld(d[EmsOwner(j)], ems'[j])
    <2> TAKE j \in 0 .. EmsHandles
    <2>1. d[EmsOwner(j)] = c[EmsOwner(j)]
        BY <1>1, OwnerNames
    <2> QED
        BY <1>3, <2>1 DEF Held
<1>6. \A p \in 1 .. Top : VcpiHeld(d[VcpiOwner(p)], p, vcpi')
    <2> TAKE p \in 1 .. Top
    <2>1. d[VcpiOwner(p)] = c[VcpiOwner(p)]
        BY <1>1, OwnerNames
    <2> QED
        BY <1>3, <2>1 DEF Held
<1>7. Held(d)'
    BY <1>3, <1>4, <1>5, <1>6 DEF Held
<1>8. \A j \in 1 .. XmsBlocks :
          xms[j].locked > 0 /\ ~xms[j].free /\ ~xms'[j].free
          => xms'[j].mem = xms[j].mem /\ (o # XmsOwner(j) \/ mhandles' = mhandles)
    <2> TAKE j \in 1 .. XmsBlocks
    <2>1. CASE j = i
        BY <1>2, <2>1
    <2>2. CASE j # i
        BY <1>2, <2>2, OwnerNames
    <2> QED
        BY <2>1, <2>2
<1>9. TypeOK'
    <2>1. mhandles' \in [Cells -> -1 .. Top]
        BY DEF Becomes
    <2> QED
        BY <1>2, <2>1 DEF TypeOK, State, XmsBlock, Top
<1> QED
    BY <1>7, <1>8, <1>9 DEF Step, d

LEMMA EmsChanges ==
    ASSUME NEW c, State(c), NEW i \in 0 .. EmsHandles, NEW b \in EmsHandle, NEW t,
           ems' = [ems EXCEPT ![i] = b], xms' = xms, vcpi' = vcpi,
           exited' \in {"no", "allocation", "reallocation"},
           Becomes(mhandles, mhandles', c[EmsOwner(i)], t), EmsHeld(t, b)
    PROVE  TypeOK' /\ Step(c, EmsOwner(i), t)
<1> DEFINE o == EmsOwner(i)
           d == [c EXCEPT ![o] = t]
<1>1. d[o] = t /\ \A u \in Owners : u # o => d[u] = c[u]
    BY StateHas, OwnerNames
<1>2. /\ ems \in [0 .. EmsHandles -> EmsHandle] /\ ems' \in [0 .. EmsHandles -> EmsHandle]
      /\ ems'[i] = b /\ \A j \in 0 .. EmsHandles : j # i => ems'[j] = ems[j]
    BY StateHas
<1>3. Held(c)
    BY DEF State
<1> HIDE DEF d
<1>4. \A j \in 0 .. EmsHandles : EmsHeld(d[EmsOwner(j)], ems'[j])
    <2> TAKE j \in 0 .. EmsHandles
    <2>1. CASE j = i
        BY <1>1, <1>2, <2>1
    <2>2. CASE j # i
        <3>1. d[EmsOwner(j)] = c[EmsOwner(j)]
            BY <1>1, <2>2, OwnerNames
        <3> QED
            BY <1>2, <1>3, <2>2, <3>1 DEF Held
    <2> QED
        BY <2>1, <2>2
<1>5. \A j \in 1 .. XmsBlocks : XmsHeld(d[XmsOwner(j)], xms'[j])
    <2> TAKE j \in 1 .. XmsBlocks
    <2>1. d[XmsOwner(j)] = c[XmsOwner(j)]
        BY <1>1, OwnerNames
    <2> QED
        BY <1>3, <2>1 DEF Held
<1>6. \A p \in 1 .. Top : VcpiHeld(d[VcpiOwner(p)], p, vcpi')
    <2> TAKE p \in 1 .. Top
    <2>1. d[VcpiOwner(p)] = c[VcpiOwner(p)]
        BY <1>1, OwnerNames
    <2> QED
        BY <1>3, <2>1 DEF Held
<1>7. Held(d)'
    BY <1>3, <1>4, <1>5, <1>6 DEF Held
<1>8. \A j \in 1 .. XmsBlocks : xms'[j].mem = xms[j].mem /\ o # XmsOwner(j)
    BY OwnerNames
<1>9. TypeOK'
    <2>1. mhandles' \in [Cells -> -1 .. Top]
        BY DEF Becomes
    <2> QED
        BY <1>2, <2>1 DEF TypeOK, State, EmsHandle, Top
<1> QED
    BY <1>7, <1>8, <1>9 DEF Step, d

LEMMA VcpiChanges ==
    ASSUME NEW c, State(c), NEW p \in 1 .. Top, NEW t,
           xms' = xms, ems' = ems, exited' = exited,
           vcpi' \subseteq 1 .. Top, \A q \in 1 .. Top : q # p => (q \in vcpi' <=> q \in vcpi),
           Becomes(mhandles, mhandles', c[VcpiOwner(p)], t), VcpiHeld(t, p, vcpi')
    PROVE  TypeOK' /\ Step(c, VcpiOwner(p), t)
<1> DEFINE o == VcpiOwner(p)
           d == [c EXCEPT ![o] = t]
<1>1. d[o] = t /\ \A u \in Owners : u # o => d[u] = c[u]
    BY StateHas, OwnerNames
<1>3. Held(c)
    BY DEF State
<1> HIDE DEF d
<1>4. \A j \in 0 .. EmsHandles : EmsHeld(d[EmsOwner(j)], ems'[j])
    <2> TAKE j \in 0 .. EmsHandles
    <2>1. d[EmsOwner(j)] = c[EmsOwner(j)]
        BY <1>1, OwnerNames
    <2> QED
        BY <1>3, <2>1 DEF Held
<1>5. \A j \in 1 .. XmsBlocks : XmsHeld(d[XmsOwner(j)], xms'[j])
    <2> TAKE j \in 1 .. XmsBlocks
    <2>1. d[XmsOwner(j)] = c[XmsOwner(j)]
        BY <1>1, OwnerNames
    <2> QED
        BY <1>3, <2>1 DEF Held
<1>6. \A q \in 1 .. Top : VcpiHeld(d[VcpiOwner(q)], q, vcpi')
    <2> TAKE q \in 1 .. Top
    <2>1. CASE q = p
        BY <1>1, <2>1
    <2>2. CASE q # p
        <3>1. d[VcpiOwner(q)] = c[VcpiOwner(q)] /\ VcpiHeld(c[VcpiOwner(q)], q, vcpi)
            BY <1>1, <1>3, <2>2, OwnerNames DEF Held
        <3> QED
            BY <2>2, <3>1 DEF VcpiHeld
    <2> QED
        BY <2>1, <2>2
<1>7. Held(d)'
    BY <1>4, <1>5, <1>6 DEF Held
<1>8. \A j \in 1 .. XmsBlocks : xms'[j].mem = xms[j].mem /\ o # XmsOwner(j)
    BY OwnerNames
<1>9. TypeOK'
    <2>1. mhandles' \in [Cells -> -1 .. Top]
        BY DEF Becomes
    <2>2. vcpi' \subseteq Cells
        BY IsCell
    <2> QED
        BY <2>1, <2>2 DEF TypeOK, State, Top
<1> QED
    BY <1>7, <1>8, <1>9 DEF Step, d

---------------------------------------------------------------------------
(* Each operation gives one owner new pages *)

\* What the state says of one owner
LEMMA XmsHas ==
    ASSUME NEW c, State(c), NEW i \in 1 .. XmsBlocks
    PROVE  LET s == c[XmsOwner(i)]
           IN  /\ s \in Seq(1 .. Top) /\ IsBlock(mhandles, s) /\ XmsHeld(s, xms[i])
               /\ xms[i] \in XmsBlock /\ xms[i].mem \in -1 .. Top
               /\ Chain(mhandles, xms[i].mem) = s
<1>1. XmsOwner(i) \in Owners
    BY OwnerNames
<1>2. xms[i] \in XmsBlock
    BY StateHas
<1>3. xms[i].mem \in -1 .. Top
    BY <1>2, Sizes DEF XmsBlock
<1>4. XmsHeld(c[XmsOwner(i)], xms[i])
    BY DEF State, Held
<1>5. Starts(c[XmsOwner(i)], xms[i].mem)
    BY <1>4 DEF XmsHeld
<1>6. Chain(mhandles, xms[i].mem) = c[XmsOwner(i)]
    BY <1>1, <1>3, <1>5, ChainIs DEF State
<1> QED
    BY <1>1, <1>2, <1>3, <1>4, <1>6, StateHas

LEMMA EmsHas ==
    ASSUME NEW c, State(c), NEW i \in 0 .. EmsHandles
    PROVE  LET s == c[EmsOwner(i)]
           IN  /\ s \in Seq(1 .. Top) /\ IsBlock(mhandles, s) /\ EmsHeld(s, ems[i])
               /\ ems[i] \in EmsHandle /\ ems[i].mem \in -1 .. Top
               /\ Chain(mhandles, ems[i].mem) = s
<1>1. EmsOwner(i) \in Owners
    BY OwnerNames
<1>2. ems[i] \in EmsHandle /\ ems[i].mem \in -1 .. Top
    BY StateHas DEF EmsHandle
<1>4. EmsHeld(c[EmsOwner(i)], ems[i])
    BY DEF State, Held
<1>5. Starts(c[EmsOwner(i)], ems[i].mem)
    BY <1>4 DEF EmsHeld
<1>6. Chain(mhandles, ems[i].mem) = c[EmsOwner(i)]
    BY <1>1, <1>2, <1>5, ChainIs DEF State
<1> QED
    BY <1>1, <1>2, <1>4, <1>6, StateHas

LEMMA VcpiHas ==
    ASSUME NEW c, State(c), NEW p \in 1 .. Top
    PROVE  /\ p \in vcpi => c[VcpiOwner(p)] = <<p>> /\ Chain(mhandles, p) = <<p>>
                            /\ mhandles[p] # 0
           /\ p \notin vcpi => c[VcpiOwner(p)] = <<>>
<1>1. VcpiOwner(p) \in Owners
    BY OwnerNames
<1>2. VcpiHeld(c[VcpiOwner(p)], p, vcpi)
    BY DEF State, Held
<1>3. ASSUME p \in vcpi PROVE Chain(mhandles, p) = <<p>> /\ mhandles[p] # 0
    <2>1. c[VcpiOwner(p)] = <<p>>
        BY <1>2, <1>3 DEF VcpiHeld
    <2>2. p \in -1 .. Top /\ Starts(c[VcpiOwner(p)], p)
        BY <2>1, IsCell DEF Starts
    <2>3. IsBlock(mhandles, c[VcpiOwner(p)]) /\ c[VcpiOwner(p)] \in Seq(1 .. Top)
        BY <1>1, StateHas
    <2>4. p \in Range(<<p>>)
        BY DEF Range
    <2>5. mhandles[p] # 0
        BY <2>1, <2>3, <2>4, InUse
    <2> QED
        BY <1>1, <2>1, <2>2, <2>5, ChainIs DEF State
<1> QED
    BY <1>2, <1>3 DEF VcpiHeld

LEMMA NoSize ==
    ASSUME NEW s \in Seq(1 .. Top), Len(s) = 0
    PROVE  s = <<>>
    OBVIOUS

\* Where an allocation that succeeds starts
LEMMA GotFirst ==
    ASSUME NEW h, NEW t, NEW n, Fresh(h, t, n), t # <<>>
    PROVE  t[1] \in 1 .. Top /\ t[1] \in -1 .. Top /\ Starts(t, t[1])
<1>1. t \in Seq(1 .. Top) /\ 1 \in 1 .. Len(t)
    BY DEF Fresh
<1>2. t[1] \in 1 .. Top
    BY <1>1, ElementOfSeq
<1> QED
    BY <1>2, IsCell DEF Starts

LEMMA RowFirst ==
    ASSUME NEW t \in Seq(1 .. Top), InARow(t), NEW m \in -1 .. Top, Starts(t, m)
    PROVE  m \in -1 .. Pages
<1>1. CASE t = <<>>
    BY <1>1, Sizes DEF Starts
<1>2. CASE t # <<>>
    <2>1. 1 \in 1 .. Len(t)
        BY <1>2
    <2>2. t[1] <= Pages /\ m = t[1]
        BY <1>2, <2>1 DEF InARow, Starts
    <2> QED
        BY <2>2, Sizes
<1> QED
    BY <1>1, <1>2

\* A step of one of the owners
Changed(c) == TypeOK' /\ \E o \in Owners : \E t : Step(c, o, t)

\* No XMS block is allocated with size 0.
NoEmptyBlocks == 0 \notin XmsSizes

LEMMA NeededNat == ASSUME NEW n \in Nat PROVE Needed(n) \in Nat /\ Needed(0) = 0
    BY DEF Needed

LEMMA XmsAllocateStep ==
    ASSUME NEW c, State(c), NoEmptyBlocks, NEW kb \in XmsSizes, XmsAllocate(kb)
    PROVE  Changed(c)
<1> DEFINE i == Min(FreeXms)
           t == AllocatePages(mhandles, Needed(kb), TRUE)
           b == [size |-> kb, mem |-> IF kb = 0 THEN BestMatch(Free(mhandles), 1) ELSE t[1],
                 locked |-> 0, free |-> FALSE]
<1>1. kb \in Nat /\ kb > 0
    BY PoolAssumption DEF NoEmptyBlocks
<1>2. i \in 1 .. XmsBlocks /\ xms[i].free
    <2>1. /\ FreeXms \in SUBSET Nat /\ FreeXms # {}
          /\ \A j \in FreeXms : j \in 1 .. XmsBlocks /\ xms[j].free
        BY DEF XmsAllocate, FreeXms
    <2> QED
        BY <2>1, SmallestIsMember
<1>3. /\ t # <<>> /\ mhandles' = Linked(mhandles, t) /\ xms' = [xms EXCEPT ![i] = b]
      /\ ems' = ems /\ vcpi' = vcpi /\ exited' = exited
    <2>1. xms' = [xms EXCEPT ![i] = b]
        BY DEF XmsAllocate
    <2>2. ems' = ems /\ vcpi' = vcpi /\ exited' = exited
        BY DEF XmsAllocate
    <2>3. t # <<>>
        BY <1>1 DEF XmsAllocate
    <2>4. mhandles' = Linked(mhandles, t)
        <3>1. mhandles' = IF kb = 0 THEN mhandles ELSE Linked(mhandles, t)
            BY DEF XmsAllocate
        <3> HIDE DEF t
        <3> QED
            BY <1>1, <3>1
    <2> QED
        BY <2>1, <2>2, <2>3, <2>4
<1> HIDE DEF i, t
<1>4. mhandles \in [Cells -> -1 .. Top]
    BY StateHas
<1>5. Fresh(mhandles, t, Needed(kb)) /\ InARow(t)
    <2>1. Needed(kb) \in Nat /\ TRUE \in BOOLEAN
        BY <1>1, NeededNat
    <2>2. Got(mhandles, Needed(kb), TRUE, t)
        BY <1>4, <2>1, Allocated DEF t
    <2> QED
        BY <1>3, <2>2 DEF Got
<1>6. t \in Seq(1 .. Top) /\ Len(t) = Needed(kb)
    BY <1>5 DEF Fresh
<1>7. t[1] \in -1 .. Pages /\ Starts(t, t[1])
    BY <1>3, <1>5, <1>6, GotFirst, RowFirst
<1>8. b \in XmsBlock
    BY <1>1, <1>7, Sizes DEF XmsBlock
<1>9. b.mem = t[1] /\ b.size = kb /\ ~b.free
    BY <1>1
<1> HIDE DEF b
<1>10. XmsHeld(t, b)
    BY <1>5, <1>6, <1>7, <1>9 DEF XmsHeld
<1>11. c[XmsOwner(i)] = <<>>
    <2>1. Len(c[XmsOwner(i)]) = Needed(0) /\ c[XmsOwner(i)] \in Seq(1 .. Top)
        BY <1>2, XmsHas DEF XmsHeld
    <2> QED
        BY <1>1, <2>1, NeededNat, NoSize
<1>12. Becomes(mhandles, mhandles', c[XmsOwner(i)], t)
    BY <1>3, <1>4, <1>5, <1>11, Taken
<1>13. TypeOK' /\ Step(c, XmsOwner(i), t)
    BY <1>2, <1>3, <1>8, <1>10, <1>12, XmsChanges
<1> QED
    BY <1>2, <1>13, OwnerNames DEF Changed

LEMMA XmsFreeStep ==
    ASSUME NEW c, State(c), NEW i \in 1 .. XmsBlocks, XmsFree(i)
    PROVE  Changed(c)
<1> DEFINE s == c[XmsOwner(i)]
           b == [FreeBlock EXCEPT !.locked = xms[i].locked]
<1>1. /\ s \in Seq(1 .. Top) /\ xms[i] \in XmsBlock /\ Chain(mhandles, xms[i].mem) = s
      /\ mhandles \in [Cells -> -1 .. Top]
    BY XmsHas, StateHas
<1>3. /\ mhandles' = Released(mhandles, s) /\ xms' = [xms EXCEPT ![i] = b]
      /\ ems' = ems /\ vcpi' = vcpi /\ exited' = exited
    BY <1>1 DEF XmsFree
<1>4. b \in XmsBlock /\ b.size = 0 /\ b.mem = -1 /\ b.free
    <2>1. FreeBlock \in XmsBlock /\ FreeBlock.size = 0 /\ FreeBlock.mem = -1 /\ FreeBlock.free
        BY Sizes DEF XmsBlock, FreeBlock
    <2> QED
        BY <1>1, <2>1 DEF XmsBlock
<1> HIDE DEF s, b
<1>5. Becomes(mhandles, mhandles', s, <<>>)
    BY <1>1, <1>3, GivenBack
<1>6. XmsHeld(<<>>, b)
    BY <1>4, NeededNat, NoPages DEF XmsHeld, Starts, InARow
<1>7. TypeOK' /\ Step(c, XmsOwner(i), <<>>)
    BY <1>3, <1>4, <1>5, <1>6, XmsChanges DEF s
<1> QED
    BY <1>7, OwnerNames DEF Changed

\* Locking and unlocking change a number.
LEMMA XmsCountStep ==
    ASSUME NEW c, State(c), NEW i \in 1 .. XmsBlocks, NEW k \in 0 .. LockMax,
           xms' = [xms EXCEPT ![i].locked = k], UNCHANGED <<mhandles, ems, vcpi, exited>>
    PROVE  Changed(c)
<1> DEFINE s == c[XmsOwner(i)]
           b == [xms[i] EXCEPT !.locked = k]
<1>1. /\ s \in Seq(1 .. Top) /\ IsBlock(mhandles, s) /\ XmsHeld(s, xms[i])
      /\ xms[i] \in XmsBlock /\ mhandles \in [Cells -> -1 .. Top]
    BY XmsHas, StateHas
<1>2. b \in XmsBlock /\ b.size = xms[i].size /\ b.mem = xms[i].mem /\ b.free = xms[i].free
    BY <1>1 DEF XmsBlock
<1>3. xms' = [xms EXCEPT ![i] = b]
    OBVIOUS
<1> HIDE DEF s, b
<1>4. XmsHeld(s, b)
    BY <1>1, <1>2 DEF XmsHeld
<1>5. Becomes(mhandles, mhandles', s, s)
    BY <1>1, Kept
<1>6. TypeOK' /\ Step(c, XmsOwner(i), s)
    BY <1>2, <1>3, <1>4, <1>5, XmsChanges DEF s
<1> QED
    BY <1>6, OwnerNames DEF Changed

LEMMA XmsLockStep ==
    ASSUME NEW c, State(c), NEW i \in 1 .. XmsBlocks, XmsLock(i) \/ XmsUnlock(i)
    PROVE  Changed(c)
<1>1. xms[i] \in XmsBlock
    BY XmsHas
<1>2. xms[i].locked \in 0 .. LockMax
    BY <1>1 DEF XmsBlock
<1>3. CASE XmsLock(i)
    <2>1. xms[i].locked + 1 \in 0 .. LockMax
        BY <1>2, <1>3, Sizes DEF XmsLock
    <2> QED
        BY <1>3, <2>1, XmsCountStep DEF XmsLock
<1>4. CASE XmsUnlock(i)
    <2>1. xms[i].locked - 1 \in 0 .. LockMax
        BY <1>2, <1>4, Sizes DEF XmsUnlock
    <2> QED
        BY <1>4, <2>1, XmsCountStep DEF XmsUnlock
<1> QED
    BY <1>3, <1>4

LEMMA XmsResizeStep ==
    ASSUME NEW c, State(c), NEW i \in 1 .. XmsBlocks, NEW kb \in XmsResizes, XmsResize(i, kb)
    PROVE  Changed(c)
<1> DEFINE s == c[XmsOwner(i)]
           r == ReAllocatePages(mhandles, xms[i].mem, Needed(kb), TRUE)
           b == [xms[i] EXCEPT !.mem = r.mem, !.size = IF r.ok THEN kb ELSE @]
<1>1. /\ s \in Seq(1 .. Top) /\ IsBlock(mhandles, s) /\ XmsHeld(s, xms[i])
      /\ xms[i] \in XmsBlock /\ xms[i].mem \in -1 .. Top /\ Chain(mhandles, xms[i].mem) = s
      /\ mhandles \in [Cells -> -1 .. Top]
    BY XmsHas, StateHas
<1>2. kb \in Nat /\ Needed(kb) \in Nat /\ TRUE \in BOOLEAN
    BY PoolAssumption, NeededNat
<1>3. xms[i].locked = 0 /\ ~xms[i].free /\ mhandles' = r.h
      /\ xms' = [xms EXCEPT ![i].mem = r.mem, ![i].size = IF r.ok THEN kb ELSE @]
      /\ ems' = ems /\ vcpi' = vcpi /\ exited' = exited
    BY DEF XmsResize
<1>4. Starts(s, xms[i].mem) /\ InARow(s) /\ Len(s) = Needed(xms[i].size)
    BY <1>1 DEF XmsHeld
<1> HIDE DEF s
<1>5. PICK t : Resized(mhandles, s, Needed(kb), TRUE, r, t)
    BY <1>1, <1>2, <1>4, Reallocated
<1> HIDE DEF r
<1>6. /\ Becomes(mhandles, mhandles', s, t) /\ InARow(t) /\ r.mem \in -1 .. Top /\ Starts(t, r.mem)
      /\ r.ok \in BOOLEAN /\ (r.ok => Len(t) = Needed(kb)) /\ (~r.ok => t = s)
    BY <1>3, <1>4, <1>5 DEF Resized
<1>7. t \in Seq(1 .. Top) /\ r.mem \in -1 .. Pages
    BY <1>6, RowFirst DEF Becomes
<1>8. /\ b \in XmsBlock /\ b.mem = r.mem /\ b.free = xms[i].free
      /\ b.size = IF r.ok THEN kb ELSE xms[i].size
    BY <1>1, <1>2, <1>6, <1>7 DEF XmsBlock
<1>9. xms' = [xms EXCEPT ![i] = b]
    BY <1>1, <1>3 DEF XmsBlock
<1> HIDE DEF b
<1>10. XmsHeld(t, b)
    BY <1>3, <1>4, <1>6, <1>8 DEF XmsHeld
<1>11. TypeOK' /\ Step(c, XmsOwner(i), t)
    <2>1. ~(xms[i].locked > 0)
        BY <1>3
    <2> QED
        BY <1>3, <1>6, <1>8, <1>9, <1>10, <2>1, XmsChanges DEF s
<1> QED
    BY <1>11, OwnerNames DEF Changed

\* A handle without pages gets the pages t, for n pages of EMS.
LEMMA EmsTakes ==
    ASSUME NEW c, State(c), NEW i \in 0 .. EmsHandles, ems[i].pages \in {0, NULL_HANDLE},
           NEW n \in Nat, NEW t, t # <<>>, Fresh(mhandles, t, n * EmsPage),
           mhandles' = Linked(mhandles, t),
           ems' = [ems EXCEPT ![i] = [pages |-> n, mem |-> t[1]]],
           xms' = xms, vcpi' = vcpi, exited' = exited
    PROVE  Changed(c)
<1> DEFINE b == [pages |-> n, mem |-> t[1]]
<1>1. /\ mhandles \in [Cells -> -1 .. Top] /\ c[EmsOwner(i)] \in Seq(1 .. Top)
      /\ EmsHeld(c[EmsOwner(i)], ems[i])
    BY EmsHas, StateHas
<1>2. c[EmsOwner(i)] = <<>>
    <2>1. 0 * EmsPage = 0 /\ NULL_HANDLE # 0
        BY Sizes DEF NULL_HANDLE
    <2>2. Len(c[EmsOwner(i)]) = 0
        BY <1>1, <2>1 DEF EmsHeld
    <2> QED
        BY <1>1, <2>2, NoSize
<1>3. Becomes(mhandles, mhandles', c[EmsOwner(i)], t)
    BY <1>1, <1>2, Taken
<1>4. t[1] \in -1 .. Top /\ Starts(t, t[1]) /\ Len(t) = n * EmsPage
    BY GotFirst DEF Fresh
<1>5. b \in EmsHandle /\ b.pages = n /\ b.mem = t[1]
    BY <1>4 DEF EmsHandle
<1>6. ems' = [ems EXCEPT ![i] = b]
    OBVIOUS
<1> HIDE DEF b
<1>7. EmsHeld(t, b)
    <2>1. n # NULL_HANDLE
        BY DEF NULL_HANDLE
    <2> QED
        BY <1>4, <1>5, <2>1 DEF EmsHeld
<1>8. exited' \in {"no", "allocation", "reallocation"}
    BY DEF State, TypeOK
<1>9. TypeOK' /\ Step(c, EmsOwner(i), t)
    BY <1>3, <1>5, <1>6, <1>7, <1>8, EmsChanges
<1> QED
    BY <1>9, OwnerNames DEF Changed

\* The pages of a handle do not change, and it has none.
LEMMA EmsStays ==
    ASSUME NEW c, State(c), NEW i \in 0 .. EmsHandles, ems[i].pages \in {0, NULL_HANDLE},
           NEW b \in EmsHandle, b.pages \in {0, NULL_HANDLE}, b.mem = 0,
           mhandles' = mhandles, ems' = [ems EXCEPT ![i] = b], xms' = xms, vcpi' = vcpi,
           exited' \in {"no", "allocation", "reallocation"}
    PROVE  Changed(c)
<1>1. /\ mhandles \in [Cells -> -1 .. Top] /\ c[EmsOwner(i)] \in Seq(1 .. Top)
      /\ EmsHeld(c[EmsOwner(i)], ems[i]) /\ IsBlock(mhandles, c[EmsOwner(i)])
    BY EmsHas, StateHas
<1>2. 0 * EmsPage = 0 /\ NULL_HANDLE # 0
    BY Sizes DEF NULL_HANDLE
<1>3. c[EmsOwner(i)] = <<>>
    <2>1. Len(c[EmsOwner(i)]) = 0
        BY <1>1, <1>2 DEF EmsHeld
    <2> QED
        BY <1>1, <2>1, NoSize
<1>4. Becomes(mhandles, mhandles', c[EmsOwner(i)], <<>>)
    BY <1>1, <1>3, Kept
<1>5. EmsHeld(<<>>, b)
    BY <1>2, NoPages DEF EmsHeld, Starts
<1>6. TypeOK' /\ Step(c, EmsOwner(i), <<>>)
    BY <1>4, <1>5, EmsChanges
<1> QED
    BY <1>6, OwnerNames DEF Changed

\* So many whole pages of EMS fit in the free pages.
LEMMA WholePages ==
    ASSUME NEW f \in Nat, NEW n \in Nat, NEW k \in Nat, k > 0, f \div k >= n
    PROVE  n * k \in Nat /\ n * k <= f /\ (n > 0 => n * k > 0)
<1>1. f \div k \in Nat /\ k * (f \div k) <= f
    OBVIOUS
<1>2. PICK q \in Nat : q = f \div k /\ n <= q /\ k * q <= f
    BY <1>1
<1>3. n * k <= q * k /\ q * k = k * q
    BY <1>2
<1>4. n * k \in Nat /\ (n > 0 => n * k > 0)
    OBVIOUS
<1>5. n * k <= f
    BY <1>2, <1>3, <1>4
<1> QED
    BY <1>4, <1>5

LEMMA EmsAllocateStep ==
    ASSUME NEW c, State(c), NEW n \in EmsSizes, EmsAllocate(n), exited = "no"
    PROVE  Changed(c) /\ exited' # "allocation"
<1> DEFINE i == Min(FreeEms)
           no == FALSE
           t == AllocatePages(mhandles, n * EmsPage, no)
<1>1. n \in Nat /\ mhandles \in [Cells -> -1 .. Top] /\ no \in BOOLEAN /\ ~no
    BY PoolAssumption, StateHas
<1>2. i \in 0 .. EmsHandles /\ ems[i].pages = NULL_HANDLE
    <2>1. /\ FreeEms \in SUBSET Nat /\ FreeEms # {}
          /\ \A j \in FreeEms : j \in 0 .. EmsHandles /\ ems[j].pages = NULL_HANDLE
        BY DEF EmsAllocate, FreeEms
    <2> QED
        BY <2>1, SmallestIsMember
<1>3. /\ xms' = xms /\ vcpi' = vcpi
      /\ \/ /\ n = 0 \/ t # <<>>
            /\ mhandles' = IF n = 0 THEN mhandles ELSE Linked(mhandles, t)
            /\ ems' = [ems EXCEPT ![i] = [pages |-> n, mem |-> IF n = 0 THEN 0 ELSE t[1]]]
            /\ exited' = exited
         \/ n > 0 /\ t = <<>>
    BY DEF EmsAllocate
<1>4. n * EmsPage \in Nat /\ n * EmsPage <= FreeTotal(mhandles) /\ (n > 0 => n * EmsPage > 0)
    <2>1. FreeTotal(mhandles) \div EmsPage >= n
        BY DEF EmsAllocate, Enough
    <2>2. FreeTotal(mhandles) \in Nat /\ EmsPage \in Nat /\ EmsPage > 0
        BY FreePages, Sizes
    <2> QED
        BY <1>1, <2>1, <2>2, WholePages
<1> HIDE DEF i, no
<1>5. Got(mhandles, n * EmsPage, no, t)
    BY <1>1, <1>4, Allocated
<1> HIDE DEF t
<1>6. CASE n = 0
    <2> DEFINE b == [pages |-> n, mem |-> IF n = 0 THEN 0 ELSE t[1]]
    <2>1. mhandles' = mhandles /\ ems' = [ems EXCEPT ![i] = b] /\ exited' = exited
        BY <1>3, <1>6
    <2>2. b \in EmsHandle /\ b.pages \in {0, NULL_HANDLE} /\ b.mem = 0
        BY <1>1, <1>6, Sizes DEF EmsHandle
    <2> HIDE DEF b
    <2>3. ems[i].pages \in {0, NULL_HANDLE} /\ exited' \in {"no", "allocation", "reallocation"}
        BY <1>2, <2>1
    <2> QED
        BY <1>2, <1>3, <2>1, <2>2, <2>3, EmsStays
<1>7. CASE n > 0
    <2>1. t # <<>> /\ Fresh(mhandles, t, n * EmsPage)
        <3>1. ~(FreeTotal(mhandles) < n * EmsPage)
            <4>1. FreeTotal(mhandles) \in Nat
                BY FreePages
            <4> DEFINE m == n * EmsPage
            <4>2. m \in Nat /\ m <= FreeTotal(mhandles)
                BY <1>4
            <4> HIDE DEF m
            <4>3. ~(FreeTotal(mhandles) < m)
                BY <4>1, <4>2
            <4> QED
                BY <4>3 DEF m
        <3> QED
            BY <1>1, <1>4, <1>5, <1>7, <3>1 DEF Got
    <2>2. n # 0
        BY <1>7
    <2>3. /\ mhandles' = Linked(mhandles, t) /\ exited' = exited
          /\ ems' = [ems EXCEPT ![i] = [pages |-> n, mem |-> t[1]]]
        BY <1>3, <2>1, <2>2
    <2>4. ems[i].pages \in {0, NULL_HANDLE}
        BY <1>2
    <2>5. Changed(c)
        BY <1>1, <1>2, <1>3, <2>1, <2>3, <2>4, EmsTakes
    <2> QED
        BY <2>3, <2>5
<1> QED
    BY <1>1, <1>6, <1>7

LEMMA EmsReallocateStep ==
    ASSUME NEW c, State(c), NEW i \in 0 .. EmsHandles, NEW n \in EmsSizes, EmsReallocate(i, n)
    PROVE  Changed(c)
<1> DEFINE s == c[EmsOwner(i)]
           no == FALSE
           m == n * EmsPage
           r == ReAllocatePages(mhandles, ems[i].mem, m, no)
           b == [pages |-> n, mem |-> r.mem]
<1>1. /\ s \in Seq(1 .. Top) /\ IsBlock(mhandles, s) /\ EmsHeld(s, ems[i])
      /\ ems[i].mem \in -1 .. Top /\ Chain(mhandles, ems[i].mem) = s
      /\ mhandles \in [Cells -> -1 .. Top]
    BY EmsHas, StateHas
<1>2. n \in Nat /\ m \in Nat /\ no \in BOOLEAN
    BY PoolAssumption, Sizes
<1>3. /\ r.ok /\ mhandles' = r.h /\ ems' = [ems EXCEPT ![i] = b]
      /\ xms' = xms /\ vcpi' = vcpi /\ exited' = exited
    BY DEF EmsReallocate
<1>4. Starts(s, ems[i].mem)
    BY <1>1 DEF EmsHeld
<1> HIDE DEF s, no, m
<1>5. PICK t : Resized(mhandles, s, m, no, r, t)
    BY <1>1, <1>2, <1>4, Reallocated
<1> HIDE DEF r
<1>6. Becomes(mhandles, mhandles', s, t) /\ r.mem \in -1 .. Top /\ Starts(t, r.mem) /\ Len(t) = m
    BY <1>3, <1>5 DEF Resized
<1>7. b \in EmsHandle /\ b.pages = n /\ b.mem = r.mem
    BY <1>2, <1>6 DEF EmsHandle
<1> HIDE DEF b
<1>8. EmsHeld(t, b)
    <2>1. n # NULL_HANDLE
        BY <1>2 DEF NULL_HANDLE
    <2> QED
        BY <1>6, <1>7, <2>1 DEF EmsHeld, m
<1>9. exited' \in {"no", "allocation", "reallocation"}
    BY <1>3 DEF State, TypeOK
<1>10. TypeOK' /\ Step(c, EmsOwner(i), t)
    BY <1>3, <1>6, <1>7, <1>8, <1>9, EmsChanges DEF s
<1> QED
    BY <1>10, OwnerNames DEF Changed

LEMMA EmsReallocateEmptyStep ==
    ASSUME NEW c, State(c), NEW i \in 0 .. EmsHandles, NEW n \in EmsSizes,
           EmsReallocateEmpty(i, n)
    PROVE  Changed(c) /\ (exited' = exited \/ exited' = "reallocation")
<1> DEFINE no == FALSE
           m == n * EmsPage
           t == AllocatePages(mhandles, m, no)
<1>1. n \in Nat /\ m \in Nat /\ no \in BOOLEAN /\ mhandles \in [Cells -> -1 .. Top]
    BY PoolAssumption, Sizes, StateHas
<1>2. /\ ems[i].pages = 0 /\ xms' = xms /\ vcpi' = vcpi
      /\ IF t = <<>>
         THEN exited' = "reallocation" /\ mhandles' = mhandles /\ ems' = ems
         ELSE /\ mhandles' = Linked(mhandles, t) /\ exited' = exited
              /\ ems' = [ems EXCEPT ![i] = [pages |-> n, mem |-> t[1]]]
    BY DEF EmsReallocateEmpty
<1> HIDE DEF no, m
<1>3. Got(mhandles, m, no, t)
    BY <1>1, Allocated
<1> HIDE DEF t
<1>4. CASE t = <<>>
    <2> DEFINE s == c[EmsOwner(i)]
    <2>1. /\ s \in Seq(1 .. Top) /\ IsBlock(mhandles, s) /\ EmsHeld(s, ems[i])
          /\ ems[i] \in EmsHandle /\ ems \in [0 .. EmsHandles -> EmsHandle]
        BY EmsHas, StateHas
    <2>2. ems' = [ems EXCEPT ![i] = ems[i]] /\ mhandles' = mhandles /\ exited' = "reallocation"
        BY <1>2, <1>4, <2>1
    <2> HIDE DEF s
    <2>3. Becomes(mhandles, mhandles', s, s)
        BY <1>1, <2>1, <2>2, Kept
    <2>4. TypeOK' /\ Step(c, EmsOwner(i), s)
        BY <1>2, <2>1, <2>2, <2>3, EmsChanges DEF s
    <2> QED
        BY <2>2, <2>4, OwnerNames DEF Changed
<1>5. CASE t # <<>>
    <2>1. Fresh(mhandles, t, n * EmsPage)
        BY <1>3, <1>5 DEF Got, m
    <2>2. /\ mhandles' = Linked(mhandles, t) /\ exited' = exited
          /\ ems' = [ems EXCEPT ![i] = [pages |-> n, mem |-> t[1]]]
        BY <1>2, <1>5
    <2>3. ems[i].pages \in {0, NULL_HANDLE}
        BY <1>2
    <2>4. Changed(c)
        BY <1>1, <1>2, <1>5, <2>1, <2>2, <2>3, EmsTakes
    <2> QED
        BY <2>2, <2>4
<1> QED
    BY <1>4, <1>5

LEMMA EmsReleaseStep ==
    ASSUME NEW c, State(c), NEW i \in 0 .. EmsHandles, EmsRelease(i)
    PROVE  Changed(c)
<1> DEFINE s == c[EmsOwner(i)]
           b == [pages |-> IF i = 0 THEN 0 ELSE NULL_HANDLE, mem |-> 0]
<1>1. /\ s \in Seq(1 .. Top) /\ Chain(mhandles, ems[i].mem) = s
      /\ mhandles \in [Cells -> -1 .. Top]
    BY EmsHas, StateHas
<1>2. b \in EmsHandle /\ b.pages \in {0, NULL_HANDLE} /\ b.mem = 0
    BY Sizes DEF EmsHandle
<1>3. /\ ems' = [ems EXCEPT ![i] = b] /\ xms' = xms /\ vcpi' = vcpi /\ exited' = exited
      /\ mhandles' = IF ems[i].pages # 0 THEN Released(mhandles, s) ELSE mhandles
    BY <1>1 DEF EmsRelease
<1>4. exited' \in {"no", "allocation", "reallocation"}
    BY <1>3 DEF State, TypeOK
<1> HIDE DEF s, b
<1>5. CASE ems[i].pages = 0
    <2>1. ems[i].pages \in {0, NULL_HANDLE} /\ mhandles' = mhandles
        BY <1>3, <1>5
    <2> QED
        BY <1>2, <1>3, <1>4, <2>1, EmsStays
<1>6. CASE ems[i].pages # 0
    <2>1. Becomes(mhandles, mhandles', s, <<>>)
        BY <1>1, <1>3, <1>6, GivenBack
    <2>2. EmsHeld(<<>>, b)
        <3>1. 0 * EmsPage = 0
            BY Sizes
        <3> QED
            BY <1>2, <3>1, NoPages DEF EmsHeld, Starts
    <2>3. TypeOK' /\ Step(c, EmsOwner(i), <<>>)
        BY <1>2, <1>3, <1>4, <2>1, <2>2, EmsChanges DEF s
    <2> QED
        BY <2>3, OwnerNames DEF Changed
<1> QED
    BY <1>5, <1>6

LEMMA VcpiAllocateStep ==
    ASSUME NEW c, State(c), VcpiAllocate
    PROVE  Changed(c)
<1> DEFINE no == FALSE
           t == AllocatePages(mhandles, 1, no)
           p == t[1]
<1>1. mhandles \in [Cells -> -1 .. Top] /\ no \in BOOLEAN /\ 1 \in Nat
    BY StateHas
<1>2. /\ t # <<>> /\ mhandles' = Linked(mhandles, t) /\ vcpi' = vcpi \cup {p}
      /\ xms' = xms /\ ems' = ems /\ exited' = exited
    BY DEF VcpiAllocate
<1> HIDE DEF no
<1>3. Got(mhandles, 1, no, t)
    BY <1>1, Allocated
<1> HIDE DEF t
<1>4. Fresh(mhandles, t, 1)
    BY <1>2, <1>3 DEF Got
<1>5. p \in 1 .. Top
    BY <1>2, <1>4, GotFirst
<1>6. t \in Seq(1 .. Top) /\ Len(t) = 1 /\ mhandles[p] = 0
    <2>1. t \in Seq(1 .. Top) /\ Len(t) = 1 /\ \A q \in Range(t) : mhandles[q] = 0
        BY <1>4 DEF Fresh
    <2>2. 1 \in 1 .. Len(t)
        BY <2>1
    <2>3. p \in Range(t)
        BY <2>1, <2>2, InRange
    <2> QED
        BY <2>1, <2>3
<1>7. t = <<p>>
    BY <1>6
<1> HIDE DEF p
<1>8. p \notin vcpi /\ c[VcpiOwner(p)] = <<>>
    BY <1>5, <1>6, VcpiHas
<1>9. Becomes(mhandles, mhandles', c[VcpiOwner(p)], t)
    BY <1>1, <1>2, <1>4, <1>8, Taken
<1>10. vcpi' \subseteq 1 .. Top /\ VcpiHeld(t, p, vcpi')
    BY <1>2, <1>5, <1>7, StateHas DEF VcpiHeld
<1>11. TypeOK' /\ Step(c, VcpiOwner(p), t)
    BY <1>2, <1>5, <1>9, <1>10, VcpiChanges
<1> QED
    BY <1>5, <1>11, OwnerNames DEF Changed

LEMMA VcpiFreeStep ==
    ASSUME NEW c, State(c), NEW p \in vcpi, VcpiFree(p)
    PROVE  Changed(c)
<1>1. p \in 1 .. Top /\ mhandles \in [Cells -> -1 .. Top]
    BY StateHas
<1>2. c[VcpiOwner(p)] = <<p>> /\ Chain(mhandles, p) = <<p>>
    BY <1>1, VcpiHas
<1>3. /\ mhandles' = Released(mhandles, <<p>>) /\ vcpi' = vcpi \ {p}
      /\ xms' = xms /\ ems' = ems /\ exited' = exited
    BY <1>2 DEF VcpiFree
<1>4. Becomes(mhandles, mhandles', c[VcpiOwner(p)], <<>>)
    <2>1. <<p>> \in Seq(1 .. Top)
        BY <1>1
    <2> QED
        BY <1>1, <1>2, <1>3, <2>1, GivenBack
<1>5. vcpi' \subseteq 1 .. Top /\ VcpiHeld(<<>>, p, vcpi')
    BY <1>3, StateHas DEF VcpiHeld
<1>6. TypeOK' /\ Step(c, VcpiOwner(p), <<>>)
    BY <1>1, <1>3, <1>4, <1>5, VcpiChanges
<1> QED
    BY <1>1, <1>6, OwnerNames DEF Changed

---------------------------------------------------------------------------
(* The invariant *)

Inv == exited # "allocation" /\ \E c : State(c)

LEMMA InitState ==
    ASSUME Init
    PROVE  Inv
<1> DEFINE no == FALSE
           m == SystemPages * EmsPage
           table(more) == [p \in Cells |-> IF p \in DOMAIN more THEN more[p]
                                           ELSE IF p = Pages + Beyond + 1 THEN -1 ELSE 0]
<1>1. PICK more \in [Pages + 1 .. Pages + Beyond -> {0, -1}] :
          LET h == table(more)
              s == AllocatePages(h, m, no)
          IN  /\ s # <<>>
              /\ mhandles = Linked(h, s)
              /\ ems = [i \in 0 .. EmsHandles |->
                           IF i = 0 THEN [pages |-> SystemPages, mem |-> s[1]]
                           ELSE [pages |-> NULL_HANDLE, mem |-> 0]]
    BY DEF Init
<1> DEFINE h == table(more)
           s == AllocatePages(h, m, no)
           none == [o \in Owners |-> <<>>]
           o == EmsOwner(0)
           c == [none EXCEPT ![o] = s]
<1>2. /\ s # <<>> /\ mhandles = Linked(h, s)
      /\ ems = [i \in 0 .. EmsHandles |->
                   IF i = 0 THEN [pages |-> SystemPages, mem |-> s[1]]
                   ELSE [pages |-> NULL_HANDLE, mem |-> 0]]
    BY <1>1
<1>3. /\ h \in [Cells -> -1 .. Top]
      /\ \A p \in Cells : ~(h[p] > 0) /\ (p <= Pages => h[p] = 0)
    <2>1. 0 \in -1 .. Top /\ -1 \in -1 .. Top /\ ~(0 > 0) /\ ~(-1 > 0)
        BY Sizes
    <2>2. ASSUME NEW p \in Cells PROVE h[p] \in {0, -1} /\ (p <= Pages => h[p] = 0)
        <3>1. p \in 1 .. Pages + Beyond + 1
            BY DEF Cells
        <3>2. CASE p \in DOMAIN more
            <4>1. p \in Pages + 1 .. Pages + Beyond /\ ~(p <= Pages)
                BY <3>2, Sizes
            <4> QED
                BY <3>2, <4>1
        <3>3. CASE p \notin DOMAIN more
            <4>1. p <= Pages => p # Pages + Beyond + 1
                BY <3>1, Sizes
            <4> QED
                BY <3>3, <4>1
        <3> QED
            BY <3>2, <3>3
    <2>3. h = [p \in Cells |-> h[p]]
        OBVIOUS
    <2> HIDE DEF h
    <2>4. h \in [Cells -> -1 .. Top]
        BY <2>1, <2>2, <2>3
    <2>5. \A p \in Cells : ~(h[p] > 0) /\ (p <= Pages => h[p] = 0)
        BY <2>1, <2>2
    <2> QED
        BY <2>4, <2>5
<1>4. m \in Nat /\ no \in BOOLEAN /\ o \in Owners
    BY Sizes, OwnerNames
<1> HIDE DEF h, no, table, m
<1>5. Got(h, m, no, s)
    BY <1>3, <1>4, Allocated
<1> HIDE DEF s
<1>6. Fresh(h, s, m)
    BY <1>2, <1>5 DEF Got
<1>7. Pool(h, none)
    <2>1. \A u \in Owners : none[u] = <<>> /\ IsBlock(h, none[u])
        BY NoPages DEF IsBlock
    <2>2. none \in [Owners -> Seq(1 .. Top)]
        BY NoPages
    <2>3. \A p \in 1 .. Top : ~(h[p] > 0 \/ (h[p] # 0 /\ p <= Pages))
        BY <1>3, IsCell
    <2> HIDE DEF none
    <2> QED
        BY <1>3, <2>1, <2>2, <2>3, NoPages DEF Pool
<1>8. none[o] = <<>> /\ none \in [Owners -> Seq(1 .. Top)]
    BY <1>4, NoPages
<1>9. Becomes(h, mhandles, none[o], s)
    BY <1>2, <1>3, <1>6, <1>8, Taken
<1>10. \A u \in Owners : c[u] = IF u = o THEN s ELSE <<>>
    BY <1>4
<1> HIDE DEF none
<1>11. Pool(mhandles, c)
    BY <1>4, <1>7, <1>9, Replaced
<1> HIDE DEF c
<1>12. s[1] \in -1 .. Top /\ Starts(s, s[1]) /\ Len(s) = m
    BY <1>2, <1>6, GotFirst DEF Fresh
<1>13. Held(c)
    <2>1. ASSUME NEW i \in 1 .. XmsBlocks PROVE XmsHeld(c[XmsOwner(i)], xms[i])
        <3>1. c[XmsOwner(i)] = <<>>
            BY <1>10, OwnerNames
        <3>2. xms[i].size = 0 /\ xms[i].mem = -1
            BY DEF Init, FreeBlock
        <3> QED
            BY <3>1, <3>2, NeededNat, NoPages DEF XmsHeld, Starts, InARow
    <2>2. ASSUME NEW i \in 0 .. EmsHandles PROVE EmsHeld(c[EmsOwner(i)], ems[i])
        <3>1. CASE i = 0
            <4>1. c[EmsOwner(i)] = s
                BY <1>4, <1>10, <3>1
            <4>2. ems[i].pages = SystemPages /\ ems[i].mem = s[1]
                BY <1>2, <3>1
            <4>3. SystemPages # NULL_HANDLE
                BY Sizes DEF NULL_HANDLE
            <4> QED
                BY <1>12, <4>1, <4>2, <4>3 DEF EmsHeld, m
        <3>2. CASE i # 0
            <4>1. c[EmsOwner(i)] = <<>>
                BY <1>10, <3>2, OwnerNames
            <4>2. ems[i].pages = NULL_HANDLE /\ ems[i].mem = 0
                BY <1>2, <3>2
            <4> QED
                BY <4>1, <4>2, NoPages DEF EmsHeld, Starts
        <3> QED
            BY <3>1, <3>2
    <2>3. vcpi = {}
        BY DEF Init
    <2>4. ASSUME NEW p \in 1 .. Top PROVE VcpiHeld(c[VcpiOwner(p)], p, vcpi)
        BY <1>10, <2>3, OwnerNames DEF VcpiHeld
    <2> QED
        BY <2>1, <2>2, <2>3, <2>4 DEF Held
<1>14. TypeOK
    <2>1. mhandles \in [Cells -> -1 .. Top]
        BY <1>9 DEF Becomes
    <2>2. FreeBlock \in XmsBlock
        BY Sizes DEF FreeBlock, XmsBlock
    <2>3. xms \in [1 .. XmsBlocks -> XmsBlock]
        BY <2>2 DEF Init
    <2>4. ems \in [0 .. EmsHandles -> EmsHandle]
        <3>1. [pages |-> SystemPages, mem |-> s[1]] \in EmsHandle
            BY <1>12, Sizes DEF EmsHandle
        <3>2. [pages |-> NULL_HANDLE, mem |-> 0] \in EmsHandle
            BY Sizes DEF EmsHandle
        <3> QED
            BY <1>2, <3>1, <3>2
    <2>5. vcpi = {} /\ exited = "no"
        BY DEF Init
    <2> QED
        BY <2>1, <2>3, <2>4, <2>5 DEF TypeOK, XmsBlock, EmsHandle, Top
<1>15. State(c)
    BY <1>11, <1>13, <1>14 DEF State
<1> QED
    BY <1>15 DEF Inv, Init

LEMMA NextChanges ==
    ASSUME NEW c, State(c), NoEmptyBlocks, Next
    PROVE  Changed(c) /\ exited' # "allocation"
<1>0. exited = "no"
    BY DEF Next
<1>1. CASE \E kb \in XmsSizes : XmsAllocate(kb)
    BY <1>0, <1>1, XmsAllocateStep DEF XmsAllocate
<1>2. CASE \E i \in 1 .. XmsBlocks : XmsFree(i)
    BY <1>0, <1>2, XmsFreeStep DEF XmsFree
<1>3. CASE \E i \in 1 .. XmsBlocks : XmsLock(i) \/ XmsUnlock(i)
    BY <1>0, <1>3, XmsLockStep DEF XmsLock, XmsUnlock
<1>4. CASE \E i \in 1 .. XmsBlocks : \E kb \in XmsResizes : XmsResize(i, kb)
    BY <1>0, <1>4, XmsResizeStep DEF XmsResize
<1>5. CASE \E n \in EmsSizes : EmsAllocate(n)
    BY <1>0, <1>5, EmsAllocateStep
<1>6. CASE \E i \in 0 .. EmsHandles : EmsRelease(i)
    BY <1>0, <1>6, EmsReleaseStep DEF EmsRelease
<1>7. CASE \E i \in 0 .. EmsHandles : \E n \in EmsSizes : EmsReallocate(i, n)
    BY <1>0, <1>7, EmsReallocateStep DEF EmsReallocate
<1>8. CASE \E i \in 0 .. EmsHandles : \E n \in EmsSizes : EmsReallocateEmpty(i, n)
    BY <1>0, <1>8, EmsReallocateEmptyStep
<1>9. CASE VcpiAllocate
    BY <1>0, <1>9, VcpiAllocateStep DEF VcpiAllocate
<1>10. CASE \E p \in vcpi : VcpiFree(p)
    BY <1>0, <1>10, VcpiFreeStep DEF VcpiFree
<1> QED
    BY <1>1, <1>2, <1>3, <1>4, <1>5, <1>6, <1>7, <1>8, <1>9, <1>10 DEF Next, Xms, Ems

LEMMA InvStep ==
    ASSUME NoEmptyBlocks, Inv, [Next]_vars
    PROVE  Inv'
<1>1. CASE Next
    <2>1. PICK c : State(c)
        BY DEF Inv
    <2>2. Changed(c) /\ exited' # "allocation"
        BY <1>1, <2>1, NextChanges
    <2>3. PICK o \in Owners : \E t : Step(c, o, t)
        BY <2>2 DEF Changed
    <2>4. PICK t : Step(c, o, t)
        BY <2>3
    <2> DEFINE d == [c EXCEPT ![o] = t]
    <2>5. Pool(mhandles', d)
        <3>1. Becomes(mhandles, mhandles', c[o], t)
            BY <2>4 DEF Step
        <3>2. Pool(mhandles, c)
            BY <2>1 DEF State
        <3> QED
            BY <3>1, <3>2, Replaced
    <2>6. TypeOK' /\ Held(d)'
        BY <2>2, <2>4 DEF Step, Changed
    <2> HIDE DEF d
    <2>7. State(d)'
        BY <2>5, <2>6 DEF State
    <2> QED
        BY <2>2, <2>7 DEF Inv
<1>2. CASE UNCHANGED vars
    <2>1. PICK c : State(c)
        BY DEF Inv
    <2>2. TypeOK' /\ Pool(mhandles', c) /\ Held(c)'
        BY <1>2, <2>1 DEF vars, State, TypeOK, Held
    <2> QED
        BY <1>2, <2>2 DEF Inv, State, vars
<1> QED
    BY <1>1, <1>2

---------------------------------------------------------------------------
(* The properties *)

LEMMA DistinctCount ==
    ASSUME NEW s \in Seq(1 .. Top), Distinct(s)
    PROVE  Cardinality(Range(s)) = Len(s)
<1>1. Len(s) \in Nat /\ s \in [1 .. Len(s) -> Range(s)]
    BY InRange
<1>2. s \in Bijection(1 .. Len(s), Range(s))
    BY <1>1, InRange DEF Distinct, Bijection, Injection, IsInjective, Surjection
<1>3. IsFiniteSet(1 .. Len(s)) /\ Cardinality(1 .. Len(s)) = Len(s)
    BY <1>1, FS_Interval
<1>4. ExistsBijection(1 .. Len(s), Range(s))
    BY <1>2 DEF ExistsBijection
<1> QED
    BY <1>3, <1>4, FS_Bijection

\* The blocks of the definition are those of the invariant.
LEMMA BlocksAre ==
    ASSUME NEW c, State(c)
    PROVE  /\ \A b \in Blocks : \E o \in Owners : b = <<o, c[o]>>
           /\ \A o \in Owners : c[o] # <<>> => <<o, c[o]>> \in Blocks
<1>1. \A i \in 1 .. XmsBlocks : <<<<"xms", i>>, XmsChain(i)>> = <<XmsOwner(i), c[XmsOwner(i)]>>
    BY XmsHas DEF XmsChain, XmsOwner
<1>2. \A i \in 0 .. EmsHandles : <<<<"ems", i>>, EmsChain(i)>> = <<EmsOwner(i), c[EmsOwner(i)]>>
    BY EmsHas DEF EmsChain, EmsOwner
<1>3. \A p \in vcpi :
          /\ p \in 1 .. Top
          /\ <<<<"vcpi", p>>, Chain(mhandles, p)>> = <<VcpiOwner(p), c[VcpiOwner(p)]>>
    BY VcpiHas, StateHas DEF VcpiOwner
<1>4. ASSUME NEW b \in Blocks PROVE \E o \in Owners : b = <<o, c[o]>>
    <2>1. CASE \E i \in 1 .. XmsBlocks : b = <<<<"xms", i>>, XmsChain(i)>>
        BY <1>1, <2>1, OwnerNames
    <2>2. CASE \E i \in 0 .. EmsHandles : b = <<<<"ems", i>>, EmsChain(i)>>
        BY <1>2, <2>2, OwnerNames
    <2>3. CASE \E p \in vcpi : b = <<<<"vcpi", p>>, Chain(mhandles, p)>>
        BY <1>3, <2>3, OwnerNames
    <2> QED
        BY <2>1, <2>2, <2>3 DEF Blocks
<1>5. ASSUME NEW o \in Owners, c[o] # <<>> PROVE <<o, c[o]>> \in Blocks
    <2>1. CASE \E i \in 1 .. XmsBlocks : o = XmsOwner(i)
        BY <1>1, <2>1 DEF Blocks
    <2>2. CASE \E i \in 0 .. EmsHandles : o = EmsOwner(i)
        BY <1>2, <2>2 DEF Blocks
    <2>3. CASE \E p \in 1 .. Top : o = VcpiOwner(p)
        <3>1. PICK p \in 1 .. Top : o = VcpiOwner(p)
            BY <2>3
        <3>2. p \in vcpi
            BY <1>5, <3>1, VcpiHas
        <3> QED
            BY <1>3, <3>1, <3>2 DEF Blocks
    <2> QED
        BY <2>1, <2>2, <2>3, OwnerNames
<1> QED
    BY <1>4, <1>5

LEMMA Owned ==
    ASSUME NEW c, State(c)
    PROVE  PagesOwned
<1>1. \A o \in Owners : c[o] \in Seq(1 .. Top) /\ IsBlock(mhandles, c[o])
    BY StateHas
<1>2. \A o, u \in Owners : o # u => Range(c[o]) \cap Range(c[u]) = {}
    BY DEF State, Pool
<1>3. ASSUME NEW a \in Blocks, NEW b \in Blocks
      PROVE  /\ Cardinality(Range(a[2])) = Len(a[2])
             /\ a # b => Range(a[2]) \cap Range(b[2]) = {}
    <2>1. PICK o \in Owners : a = <<o, c[o]>>
        BY BlocksAre
    <2>2. PICK u \in Owners : b = <<u, c[u]>>
        BY BlocksAre
    <2>3. a[2] = c[o] /\ b[2] = c[u] /\ (a # b => o # u)
        BY <2>1, <2>2
    <2>4. Cardinality(Range(c[o])) = Len(c[o])
        BY <1>1, DistinctCount DEF IsBlock
    <2> QED
        BY <1>2, <2>3, <2>4
<1>4. Disjoint
    BY <1>3 DEF Disjoint
<1>5. NoLeak
    <2> SUFFICES ASSUME NEW p \in 1 .. Pages, mhandles[p] # 0
                 PROVE  \E b \in Blocks : p \in Range(b[2])
        BY DEF NoLeak
    <2>1. p \in 1 .. Top /\ p <= Pages
        BY Sizes
    <2>2. PICK o \in Owners : p \in Range(c[o])
        BY <2>1 DEF State, Pool
    <2>3. c[o] # <<>>
        BY <2>2, NoPages
    <2>4. <<o, c[o]>> \in Blocks
        BY <2>3, BlocksAre
    <2> QED
        BY <2>2, <2>4
<1> QED
    BY <1>4, <1>5 DEF PagesOwned, State

LEMMA Sized ==
    ASSUME Inv
    PROVE  RightSize
<1>1. PICK c : State(c)
    BY DEF Inv
<1>2. ASSUME NEW i \in 1 .. XmsBlocks, NEW s, s = XmsChain(i)
      PROVE  /\ Len(s) = Needed(xms[i].size)
             /\ s # <<>> => s = From(xms[i].mem, Len(s)) /\ Last(s) <= Pages
    <2>1. /\ s \in Seq(1 .. Top) /\ Len(s) = Needed(xms[i].size)
          /\ Starts(s, xms[i].mem) /\ InARow(s)
        BY <1>1, <1>2, XmsHas DEF XmsChain, XmsHeld
    <2>2. ASSUME s # <<>> PROVE s = From(xms[i].mem, Len(s)) /\ Last(s) <= Pages
        <3>1. xms[i].mem = s[1] /\ Len(s) \in 1 .. Len(s) /\ Len(s) \in Nat
            BY <2>1, <2>2 DEF Starts
        <3>2. \A j \in 1 .. Len(s) : s[j] = xms[i].mem + j - 1 /\ s[j] <= Pages
            BY <2>1, <3>1 DEF InARow
        <3>3. From(xms[i].mem, Len(s)) = [j \in 1 .. Len(s) |-> s[j]]
            BY <3>2 DEF From
        <3>4. s = [j \in 1 .. Len(s) |-> s[j]]
            BY <2>1
        <3> QED
            BY <3>1, <3>2, <3>3, <3>4 DEF Last
    <2> QED
        BY <2>1, <2>2
<1>3. ASSUME NEW i \in 0 .. EmsHandles
      PROVE  Len(EmsChain(i)) = Max({0, ems[i].pages}) * EmsPage
    <2>1. /\ Len(EmsChain(i)) = IF ems[i].pages = NULL_HANDLE THEN 0 ELSE ems[i].pages * EmsPage
          /\ ems[i].pages \in Nat \cup {NULL_HANDLE}
        BY <1>1, EmsHas DEF EmsChain, EmsHeld, EmsHandle
    <2>2. Max({0, ems[i].pages}) = IF ems[i].pages = NULL_HANDLE THEN 0 ELSE ems[i].pages
        BY <2>1 DEF Max, NULL_HANDLE
    <2>3. 0 * EmsPage = 0
        BY Sizes
    <2> QED
        BY <2>1, <2>2, <2>3
<1> QED
    BY <1>2, <1>3 DEF RightSize, Inv

\* Nothing but the pages of a block o, and free ones, changes.
Spared(h, g, c, o) == \A u \in Owners : u # o => \A p \in Range(c[u]) : g[p] = h[p]

LEMMA OthersStay ==
    ASSUME NEW h, NEW c, Pool(h, c), NEW o \in Owners, NEW g, NEW t, Becomes(h, g, c[o], t)
    PROVE  Spared(h, g, c, o)
<1> SUFFICES ASSUME NEW u \in Owners, u # o, NEW p \in Range(c[u])
             PROVE  g[p] = h[p]
    BY DEF Spared
<1>1. c[u] \in Seq(1 .. Top) /\ IsBlock(h, c[u]) /\ p \notin Range(c[o])
    BY DEF Pool
<1>2. p \in Cells /\ h[p] # 0
    BY <1>1, InUse
<1> QED
    BY <1>1, <1>2 DEF Becomes

LEMMA LockedStep ==
    ASSUME NoEmptyBlocks, Inv, Next,
           NEW i \in 1 .. XmsBlocks, xms[i].locked > 0, ~xms[i].free, ~xms'[i].free
    PROVE  /\ xms'[i].mem = xms[i].mem
           /\ \A p \in Range(XmsChain(i)) : mhandles'[p] = mhandles[p]
<1>1. PICK c : State(c)
    BY DEF Inv
<1>2. PICK o \in Owners : \E t : Step(c, o, t)
    BY <1>1, NextChanges DEF Changed
<1>3. PICK t : Step(c, o, t)
    BY <1>2
<1>4. xms'[i].mem = xms[i].mem /\ (o # XmsOwner(i) \/ mhandles' = mhandles)
    BY <1>3 DEF Step
<1>5. XmsChain(i) = c[XmsOwner(i)] /\ XmsOwner(i) \in Owners
    BY <1>1, XmsHas, OwnerNames DEF XmsChain
<1>6. ASSUME NEW p \in Range(XmsChain(i)) PROVE mhandles'[p] = mhandles[p]
    <2>1. CASE o # XmsOwner(i)
        <3>1. Pool(mhandles, c)
            BY <1>1 DEF State
        <3>2. Becomes(mhandles, mhandles', c[o], t)
            BY <1>3 DEF Step
        <3>3. Spared(mhandles, mhandles', c, o)
            BY <1>2, <3>1, <3>2, OthersStay
        <3> QED
            BY <1>5, <2>1, <3>3 DEF Spared
    <2>2. CASE mhandles' = mhandles
        BY <2>2
    <2> QED
        BY <1>4, <2>1, <2>2
<1> QED
    BY <1>4, <1>6

\* No page of extended memory has two holders and none is lost, whatever XMS,
\* EMS and VCPI calls allocate, resize, move, lock and release.
THEOREM EveryPageOwned ==
    ASSUME NoEmptyBlocks
    PROVE  Spec => []PagesOwned
<1>1. Init => Inv
    BY InitState
<1>2. Inv /\ [Next]_vars => Inv'
    BY InvStep
<1>3. Inv => PagesOwned
    BY Owned DEF Inv
<1> QED
    BY <1>1, <1>2, <1>3, PTL DEF Spec

\* Every block has the pages its size promises, those of an XMS block one after
\* the other, and EMM_AllocateMemory never exits the program.
THEOREM EveryBlockSized ==
    ASSUME NoEmptyBlocks
    PROVE  Spec => []RightSize
<1>1. Init => Inv
    BY InitState
<1>2. Inv /\ [Next]_vars => Inv'
    BY InvStep
<1>3. Inv => RightSize
    BY Sized
<1> QED
    BY <1>1, <1>2, <1>3, PTL DEF Spec

\* The pages of a locked XMS block stay linked as they are.
THEOREM LockedBlocksStay ==
    ASSUME NoEmptyBlocks
    PROVE  Spec => LockedStay
<1> DEFINE Stays == \A i \in 1 .. XmsBlocks : xms[i].locked > 0 /\ ~xms[i].free /\ ~xms'[i].free
                        => /\ xms'[i].mem = xms[i].mem
                           /\ \A p \in Range(XmsChain(i)) : mhandles'[p] = mhandles[p]
<1>1. Init => Inv
    BY InitState
<1>2. Inv /\ [Next]_vars => Inv'
    BY InvStep
<1>3. Inv /\ [Next]_vars => [Stays]_vars
    <2> SUFFICES ASSUME Inv, Next PROVE Stays
        OBVIOUS
    <2> QED
        BY LockedStep
<1> QED
    BY <1>1, <1>2, <1>3, PTL DEF Spec, LockedStay
=============================================================================
