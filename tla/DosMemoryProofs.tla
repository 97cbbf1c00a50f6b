-------------------------- MODULE DosMemoryProofs ---------------------------
(***************************************************************************)
(* Proofs about DosMemory, for a memory of any size, any place of the UMB  *)
(* chain and any set of processes.                                         *)
(*                                                                         *)
(* The memory control blocks are a function on the segments where one      *)
(* starts. The invariant says that they tile the memory: the end of each   *)
(* block is another block or the end of memory, and no block starts inside *)
(* another, which is Next1(m, s) <= t for every later start t. Walking the *)
(* chain is then the same as going through the blocks in order (Runs),     *)
(* merging free neighbours and cutting, joining and relabelling a block    *)
(* keep the tiling, and what an operation reports can be compared with the *)
(* blocks that remain.                                                     *)
(***************************************************************************)
EXTENDS DosMemory, FiniteSetTheorems, WellFoundedInduction, TLAPS

---------------------------------------------------------------------------
(* Smallest and largest numbers *)

\* A set of numbers has a smallest one
LEMMA SmallestIsMember ==
    ASSUME NEW S \in SUBSET Nat, S # {}
    PROVE  Min(S) \in S /\ \A x \in S : Min(S) <= x
<1> DEFINE R == {p \in Nat \X Nat : p[1] < p[2]}
<1>1. IsWellFoundedOn(R, Nat)
    BY NatLessThanWellFounded DEF OpToRel
<1>2. PICK x \in S : \A y \in S : ~(<<y, x>> \in R)
    <2> HIDE DEF R
    <2> QED
        BY <1>1, WFMin
<1>3. ASSUME NEW y \in S PROVE x <= y
    <2>1. x \in Nat /\ y \in Nat
        OBVIOUS
    <2>2. y < x => <<y, x>> \in R
        BY <2>1
    <2> QED
        BY <1>2, <2>1, <2>2
<1> QED
    BY <1>3 DEF Min

\* One that is bounded has a largest one
LEMMA LargestIsMember ==
    ASSUME NEW n \in Nat, NEW S \in SUBSET (0 .. n), S # {}
    PROVE  Max(S) \in S /\ \A x \in S : Max(S) >= x
<1> DEFINE T == {n - x : x \in S}
<1>0. \A x \in S : x \in Int /\ n - x \in Nat
    OBVIOUS
<1>1. T \in SUBSET Nat /\ T # {}
    BY <1>0
<1>2. PICK t \in T : \A u \in T : t <= u
    <2> DEFINE t == Min(T)
    <2>1. t \in T /\ \A u \in T : t <= u
        BY <1>1, SmallestIsMember
    <2> QED
        BY <2>1
<1>3. PICK x \in S : t = n - x
    BY <1>2
<1>4. \A y \in S : n - x <= n - y
    BY <1>2, <1>3
<1>5. \A y \in S : x >= y
    BY <1>3, <1>4
<1> QED
    BY <1>5 DEF Max

---------------------------------------------------------------------------
(* Well-formed control blocks *)

Blocks(procs) == [owner : procs \cup {Free, System}, size : 0 .. End, last : BOOLEAN]

\* Where a chain ends, when l is whether the UMBs are linked
EndsChain(n, l) == n = End + 1 \/ (l = FALSE /\ n = UmbStart)

Landmarks(m) ==
    /\ DOMAIN m \subseteq First .. End
    /\ First \in DOMAIN m /\ UmbStart \in DOMAIN m
    /\ m[UmbStart].owner = System

Tiling(m) ==
    \A s \in DOMAIN m :
        /\ Next1(m, s) \in DOMAIN m \cup {End + 1}
        /\ \A t \in DOMAIN m : s < t => Next1(m, s) <= t

\* The blocks m tile the memory, the chains end where l says, and the owners are
\* among procs.
Well(m, l, procs) ==
    /\ Landmarks(m) /\ Tiling(m)
    /\ \A s \in DOMAIN m : m[s] \in Blocks(procs)
    /\ \A s \in DOMAIN m : m[s].last <=> EndsChain(Next1(m, s), l)

LEMMA Geometry ==
    /\ First = 0 /\ UmbStart \in Nat /\ End \in Nat
    /\ 0 < UmbStart /\ UmbStart <= End
    BY SizeAssumption DEF First, Locked, Low, UmbStart, End

\* What the tiling of a set of blocks says of one of them
LEMMA Places ==
    ASSUME NEW m, NEW l, NEW procs, Well(m, l, procs), NEW s \in DOMAIN m
    PROVE  /\ s \in Nat /\ s <= End
           /\ m[s].size \in Nat /\ Next1(m, s) \in Nat
           /\ Next1(m, s) = s + m[s].size + 1 /\ s < Next1(m, s) /\ Next1(m, s) <= End + 1
           /\ Next1(m, s) \in DOMAIN m \cup {End + 1}
           /\ \A t \in DOMAIN m : s < t => Next1(m, s) <= t
<1>1. DOMAIN m \subseteq 0 .. End /\ End \in Nat
    BY Geometry DEF Well, Landmarks
<1>2. m[s].size \in 0 .. End
    BY DEF Well, Blocks
<1>3. /\ Next1(m, s) \in DOMAIN m \cup {End + 1}
      /\ \A t \in DOMAIN m : s < t => Next1(m, s) <= t
    BY DEF Well, Tiling
<1> QED
    BY <1>1, <1>2, <1>3 DEF Next1

\* In front of each block but the first is another one
LEMMA Before ==
    ASSUME NEW m, NEW l, NEW procs, Well(m, l, procs),
           NEW t \in DOMAIN m \cup {End + 1}, t # First
    PROVE  \E p \in DOMAIN m : /\ p < t /\ Next1(m, p) = t
                               /\ \A u \in DOMAIN m : u < t => u <= p
<1> DEFINE S == {u \in DOMAIN m : u < t}
<1>1. /\ DOMAIN m \subseteq 0 .. End /\ End \in Nat /\ First = 0 /\ First \in DOMAIN m
    BY Geometry DEF Well, Landmarks
<1>2. S \in SUBSET (0 .. End) /\ S # {}
    BY <1>1
<1>3. PICK p \in S : \A u \in S : p >= u
    BY <1>1, <1>2, LargestIsMember
<1>4. /\ p \in DOMAIN m /\ p < t
      /\ p \in Nat /\ p < Next1(m, p) /\ Next1(m, p) <= End + 1
      /\ Next1(m, p) \in DOMAIN m \cup {End + 1} /\ Next1(m, p) \in Nat
      /\ \A u \in DOMAIN m : p < u => Next1(m, p) <= u
    BY <1>3, Places
<1>5. Next1(m, p) <= t
    BY <1>1, <1>4
<1>6. ~(Next1(m, p) < t)
    BY <1>1, <1>3, <1>4
<1>7. Next1(m, p) = t
    BY <1>1, <1>4, <1>5, <1>6
<1>8. \A u \in DOMAIN m : u < t => u <= p
    BY <1>1, <1>3
<1> QED
    BY <1>4, <1>7, <1>8

\* The walk of the main chain goes to the end of the memory, or to the blocks
\* below the UMBs
LEMMA Walks ==
    ASSUME NEW m, NEW l \in BOOLEAN, NEW procs, Well(m, l, procs)
    PROVE  /\ Main(m) = {s \in DOMAIN m : l = TRUE \/ s < UmbStart}
           /\ Upper(m) = {s \in DOMAIN m : UmbStart <= s}
<1>1. /\ DOMAIN m \subseteq 0 .. End /\ End \in Nat /\ First = 0
      /\ UmbStart \in DOMAIN m /\ UmbStart \in Nat /\ 0 < UmbStart
    BY Geometry DEF Well, Landmarks
<1>2. ASSUME NEW s \in DOMAIN m, NEW t \in DOMAIN m, t < s, m[t].last
      PROVE  l = FALSE /\ Next1(m, t) = UmbStart /\ UmbStart <= s
    <2>1. Next1(m, t) <= s /\ s <= End
        BY <1>2, Places
    <2>2. EndsChain(Next1(m, t), l)
        BY <1>2 DEF Well
    <2> QED
        BY <1>1, <2>1, <2>2 DEF EndsChain
<1>3. ASSUME NEW s \in DOMAIN m
      PROVE  s \in Main(m) <=> l = TRUE \/ s < UmbStart
    <2>1. s \in Nat
        BY <1>1, <1>3
    <2>2. CASE l = TRUE \/ s < UmbStart
        <3>1. ASSUME NEW t \in DOMAIN m, t < s, m[t].last
              PROVE  FALSE
            <4>1. l = FALSE /\ UmbStart <= s
                BY <1>2, <3>1
            <4> QED
                BY <1>1, <2>1, <2>2, <4>1
        <3> QED
            BY <1>1, <2>1, <2>2, <3>1 DEF Main, Chain
    <2>3. CASE ~(l = TRUE \/ s < UmbStart)
        <3>1. PICK p \in DOMAIN m : p < UmbStart /\ Next1(m, p) = UmbStart
            BY <1>1, Before
        <3>2. m[p].last
            BY <2>3, <3>1 DEF Well, EndsChain
        <3>3. p < s /\ 0 <= p
            BY <1>1, <2>1, <2>3, <3>1
        <3> QED
            BY <1>1, <2>3, <3>2, <3>3 DEF Main, Chain
    <2> QED
        BY <2>2, <2>3
<1>4. Main(m) \subseteq DOMAIN m /\ Upper(m) \subseteq DOMAIN m
    BY DEF Main, Upper, Chain
<1>5. ASSUME NEW s \in DOMAIN m
      PROVE  s \in Upper(m) <=> UmbStart <= s
    <2>1. \A t \in DOMAIN m : UmbStart <= t /\ t < s => ~m[t].last
        <3> SUFFICES ASSUME NEW t \in DOMAIN m, UmbStart <= t, t < s, m[t].last
                     PROVE  FALSE
            OBVIOUS
        <3>1. Next1(m, t) = UmbStart
            BY <1>2
        <3>2. t < Next1(m, t) /\ t \in Nat
            BY Places
        <3> QED
            BY <1>1, <3>1, <3>2
    <2> QED
        BY <2>1 DEF Upper, Chain
<1> QED
    BY <1>3, <1>4, <1>5
---------------------------------------------------------------------------
(* Merging, cutting and relabelling blocks *)

\* The blocks of others stay where they are
Kept(m, r) ==
    \A s \in DOMAIN m : m[s].owner \notin {Free, psp} =>
        s \in DOMAIN r /\ r[s].owner = m[s].owner /\ r[s].size = m[s].size

\* The end of the run of free blocks that begins with s
LEMMA Runs ==
    ASSUME NEW m, NEW l \in BOOLEAN, NEW procs, Well(m, l, procs),
           NEW s \in Main(m), IsFree(m, s)
    PROVE  LET run == Run(m, Main(m), s)
               end == Max(run)
           IN  /\ end \in run /\ s <= end
               /\ \A t \in run : t \in Main(m) /\ IsFree(m, t) /\ s <= t /\ t <= end
               /\ \A t \in DOMAIN m : s <= t /\ t <= end => t \in run
               /\ ~(Next1(m, end) \in Main(m) /\ IsFree(m, Next1(m, end)))
<1> DEFINE run == Run(m, Main(m), s)
           end == Max(run)
<1>1. /\ DOMAIN m \subseteq 0 .. End /\ End \in Nat /\ UmbStart \in Nat
      /\ Main(m) = {t \in DOMAIN m : l = TRUE \/ t < UmbStart}
    BY Geometry, Walks DEF Well, Landmarks
<1>2. /\ \A t : t \in run <=> /\ t \in Main(m) /\ s <= t
                              /\ \A u \in Main(m) : s <= u /\ u <= t => IsFree(m, u)
    BY DEF Run
<1>3. run \in SUBSET (0 .. End) /\ s \in run
    <2>1. \A u \in Main(m) : s <= u /\ u <= s => u = s
        BY <1>1
    <2> QED
        BY <1>1, <1>2, <2>1
<1> HIDE DEF run
<1>4. end \in run /\ \A t \in run : end >= t
    BY <1>1, <1>3, LargestIsMember
<1> HIDE DEF end
<1>5. \A t \in run : t \in Main(m) /\ IsFree(m, t) /\ s <= t /\ t <= end
    BY <1>1, <1>2, <1>4
<1>6. ASSUME NEW t \in DOMAIN m, s <= t, t <= end
      PROVE  t \in run
    <2>1. t \in Main(m)
        BY <1>1, <1>4, <1>5, <1>6
    <2>2. \A u \in Main(m) : s <= u /\ u <= t => IsFree(m, u)
        BY <1>1, <1>2, <1>4, <1>6
    <2> QED
        BY <1>2, <1>6, <2>1, <2>2
<1>7. ASSUME Next1(m, end) \in Main(m), IsFree(m, Next1(m, end))
      PROVE  FALSE
    <2> DEFINE n == Next1(m, end)
    <2>1. end \in DOMAIN m /\ n \in DOMAIN m /\ end < n /\ end \in Nat /\ n \in Nat
          /\ \A u \in DOMAIN m : end < u => n <= u
        <3>1. end \in DOMAIN m
            BY <1>1, <1>4, <1>5
        <3> QED
            BY <1>1, <1>7, <3>1, Places
    <2> HIDE DEF n
    <2>2. \A u \in Main(m) : s <= u /\ u <= n => IsFree(m, u)
        <3> SUFFICES ASSUME NEW u \in Main(m), s <= u, u <= n
                     PROVE  IsFree(m, u)
            OBVIOUS
        <3>1. CASE u <= end
            BY <1>1, <1>5, <1>6, <3>1
        <3>2. CASE ~(u <= end)
            <4>1. u = n
                BY <1>1, <2>1, <3>2
            <4> QED
                BY <1>7, <4>1 DEF n
        <3> QED
            BY <3>1, <3>2
    <2>3. s <= n
        BY <1>1, <1>4, <1>5, <2>1
    <2>4. n \in run
        BY <1>2, <1>7, <2>2, <2>3 DEF n
    <2> QED
        BY <1>4, <2>1, <2>4
<1> QED
    BY <1>4, <1>5, <1>6, <1>7 DEF run, end

\* DOS_CompressMemory keeps the blocks in order, changes only free ones, and leaves
\* no two of them together in the main chain.
LEMMA CompressedWell ==
    ASSUME NEW m, NEW l \in BOOLEAN, NEW procs, Well(m, l, procs)
    PROVE  LET c == Compressed(m)
           IN  /\ Well(c, l, procs)
               /\ DOMAIN c \subseteq DOMAIN m
               /\ \A s \in DOMAIN m : ~IsFree(m, s) => s \in DOMAIN c /\ c[s] = m[s]
               /\ \A s \in DOMAIN c : c[s].owner = m[s].owner
               /\ \A s \in Main(c) : IsFree(c, s) => ~(Next1(c, s) \in Main(c) /\ IsFree(c, Next1(c, s)))
<1> DEFINE c == Compressed(m)
           chain == Main(m)
           Absorbed(s) == /\ s \in chain /\ IsFree(m, s)
                          /\ \E p \in chain : Next1(m, p) = s /\ IsFree(m, p)
           stop(s) == Max(Run(m, chain, s))
           merged(s) == s \in chain /\ IsFree(m, s)
           d == {s \in DOMAIN m : ~Absorbed(s)}
<1>1. c = [s \in d |-> IF merged(s) THEN Block(Free, Next1(m, stop(s)) - s - 1, m[stop(s)].last)
                      ELSE m[s]]
    BY DEF Compressed
<1>g. /\ DOMAIN m \subseteq 0 .. End /\ End \in Nat /\ First = 0 /\ UmbStart \in Nat /\ 0 < UmbStart
      /\ First \in DOMAIN m /\ UmbStart \in DOMAIN m /\ m[UmbStart].owner = System
      /\ chain = {t \in DOMAIN m : l = TRUE \/ t < UmbStart}
    BY Geometry, Walks DEF Well, Landmarks
<1>p. \A s \in DOMAIN m :
          /\ s \in Nat /\ s <= End
          /\ m[s].size \in Nat /\ Next1(m, s) \in Nat
          /\ Next1(m, s) = s + m[s].size + 1 /\ s < Next1(m, s) /\ Next1(m, s) <= End + 1
          /\ Next1(m, s) \in DOMAIN m \cup {End + 1}
          /\ \A t \in DOMAIN m : s < t => Next1(m, s) <= t
    BY Places
\* The block that follows s in the end
<1> DEFINE after(s) == IF merged(s) THEN Next1(m, stop(s)) ELSE Next1(m, s)
           tail(s) == IF merged(s) THEN stop(s) ELSE s
<1>2. ASSUME NEW s \in DOMAIN m, merged(s)
      PROVE  /\ stop(s) \in DOMAIN m /\ s <= stop(s) /\ stop(s) \in chain /\ IsFree(m, stop(s))
             /\ \A t \in DOMAIN m : s < t /\ t <= stop(s) => Absorbed(t)
             /\ ~merged(Next1(m, stop(s)))
    <2> DEFINE run == Run(m, Main(m), s)
               end == Max(run)
    <2>1. /\ end \in run /\ s <= end
          /\ \A t \in run : t \in Main(m) /\ IsFree(m, t) /\ s <= t /\ t <= end
          /\ \A t \in DOMAIN m : s <= t /\ t <= end => t \in run
          /\ ~(Next1(m, end) \in Main(m) /\ IsFree(m, Next1(m, end)))
        BY <1>2, Runs
    <2>2. stop(s) = end
        OBVIOUS
    <2> HIDE DEF run, end
    <2>3. ASSUME NEW t \in DOMAIN m, s < t, t <= end
          PROVE  Absorbed(t)
        <3>1. t # First
            BY <1>g, <2>3
        <3>2. PICK p \in DOMAIN m : p < t /\ Next1(m, p) = t /\ \A u \in DOMAIN m : u < t => u <= p
            BY <3>1, Before
        <3>3. s <= p /\ p <= end
            BY <1>g, <2>1, <2>3, <3>2
        <3>4. p \in run /\ t \in run
            BY <1>g, <2>1, <2>3, <3>3
        <3> QED
            BY <2>1, <3>2, <3>4
    <2> QED
        BY <1>g, <2>1, <2>2, <2>3
<1> HIDE DEF stop, c
<1>3. \A s \in d : /\ tail(s) \in DOMAIN m /\ s <= tail(s) /\ after(s) = Next1(m, tail(s))
                   /\ \A t \in DOMAIN m : s < t /\ t <= tail(s) => Absorbed(t)
    BY <1>g, <1>2
<1>4. DOMAIN c = d /\ \A s \in d : c[s] = IF merged(s) THEN Block(Free, after(s) - s - 1, m[tail(s)].last)
                                          ELSE m[s]
    BY <1>1
<1>5. \A s \in d : s \in Nat /\ after(s) \in Nat /\ tail(s) \in Nat /\ s < after(s) /\ after(s) <= End + 1
    BY <1>p, <1>3
<1>6. ASSUME NEW s \in d
      PROVE  /\ c[s] \in Blocks(procs) /\ c[s].size = after(s) - s - 1
             /\ c[s].last = m[tail(s)].last /\ c[s].owner = m[s].owner
             /\ Next1(c, s) = after(s)
    <2>1. CASE merged(s)
        <3>1. after(s) - s - 1 \in 0 .. End
            BY <1>g, <1>5
        <3>2. m[tail(s)].last \in BOOLEAN
            BY <1>3 DEF Well, Blocks
        <3>3. c[s] = Block(Free, after(s) - s - 1, m[tail(s)].last)
            BY <1>4, <2>1
        <3>4. m[s].owner = Free
            BY <2>1 DEF IsFree
        <3> HIDE DEF after, tail, merged
        <3>5. c[s].size = after(s) - s - 1
            BY <3>3 DEF Block
        <3>6. s + c[s].size + 1 = after(s)
            BY <1>5, <3>5
        <3> QED
            BY <3>1, <3>2, <3>3, <3>4, <3>6 DEF Blocks, Block, Next1
    <2>2. CASE ~merged(s)
        <3>1. c[s] = m[s] /\ m[s] \in Blocks(procs)
            BY <1>4, <2>2 DEF Well
        <3> QED
            BY <1>p, <2>2, <3>1 DEF Next1
    <2> QED
        BY <2>1, <2>2
<1>7. ASSUME NEW s \in d
      PROVE  after(s) \in d \cup {End + 1}
    <2>1. /\ tail(s) \in DOMAIN m /\ after(s) = Next1(m, tail(s)) /\ after(s) \in DOMAIN m \cup {End + 1}
        BY <1>3, <1>p
    <2>2. SUFFICES ASSUME after(s) \in DOMAIN m, Absorbed(after(s))
                   PROVE  FALSE
        BY <2>1
    <2>3. PICK p \in chain : Next1(m, p) = after(s) /\ IsFree(m, p)
        BY <2>2
    <2>4. p = tail(s)
        <3>1. p \in DOMAIN m /\ tail(s) \in DOMAIN m /\ Next1(m, p) = Next1(m, tail(s))
            BY <1>g, <2>1, <2>3
        <3> HIDE DEF tail
        <3> QED
            BY <1>p, <3>1
    <2>5. ~merged(s)
        BY <1>2, <2>2
    <2>6. p = s
        BY <2>4, <2>5
    <2> QED
        BY <2>3, <2>5, <2>6
<1>8. ASSUME NEW s \in d, NEW t \in d, s < t
      PROVE  after(s) <= t
    <2>1. ~(t <= tail(s))
        BY <1>3, <1>8
    <2>2. tail(s) \in DOMAIN m /\ after(s) = Next1(m, tail(s)) /\ t \in DOMAIN m
        BY <1>3
    <2> HIDE DEF tail, after
    <2> QED
        BY <1>p, <2>1, <2>2
<1>9. First \in d /\ UmbStart \in d /\ c[UmbStart].owner = System
    <2>1. \A p \in chain : Next1(m, p) # First
        BY <1>g, <1>p
    <2>2. ~IsFree(m, UmbStart)
        BY <1>g DEF IsFree, Free, System
    <2> QED
        BY <1>g, <1>6, <2>1, <2>2
<1>10. Well(c, l, procs)
    <2>1. \A s \in d : c[s].last <=> EndsChain(Next1(c, s), l)
        <3> SUFFICES ASSUME NEW s \in d
                     PROVE  c[s].last <=> EndsChain(Next1(c, s), l)
            OBVIOUS
        <3>1. tail(s) \in DOMAIN m /\ after(s) = Next1(m, tail(s))
            BY <1>3
        <3>2. m[tail(s)].last <=> EndsChain(Next1(m, tail(s)), l)
            BY <3>1 DEF Well
        <3> QED
            BY <1>6, <3>1, <3>2
    <2> QED
        BY <1>g, <1>4, <1>6, <1>7, <1>8, <1>9, <2>1 DEF Well, Landmarks, Tiling
<1>11. \A s \in DOMAIN m : ~IsFree(m, s) => s \in DOMAIN c /\ c[s] = m[s]
    BY <1>4
<1>12. \A s \in Main(c) : IsFree(c, s) => ~(Next1(c, s) \in Main(c) /\ IsFree(c, Next1(c, s)))
    <2>1. Main(c) = {s \in d : l = TRUE \/ s < UmbStart}
        BY <1>4, <1>10, Walks
    <2> SUFFICES ASSUME NEW s \in Main(c), IsFree(c, s),
                        Next1(c, s) \in Main(c), IsFree(c, Next1(c, s))
                 PROVE  FALSE
        OBVIOUS
    <2>2. s \in d /\ s \in DOMAIN m /\ merged(s)
        BY <1>g, <1>6, <2>1 DEF IsFree
    <2>3. Next1(c, s) = Next1(m, stop(s))
        BY <1>6, <2>2
    <2>4. merged(Next1(c, s))
        BY <1>g, <1>6, <2>1 DEF IsFree
    <2> QED
        BY <1>2, <2>2, <2>3, <2>4
<1> QED
    BY <1>4, <1>6, <1>10, <1>11, <1>12 DEF c
\* The block s of m is cut into one of size k and the block b behind it
Cut(r, m, s, k, b, procs) ==
    /\ b = s + k + 1 /\ DOMAIN r = DOMAIN m \cup {b}
    /\ r[s] \in Blocks(procs) /\ r[s].size = k /\ r[s].last = FALSE
    /\ r[b] \in Blocks(procs) /\ r[b].size = m[s].size - k - 1 /\ r[b].last = m[s].last
    /\ \A t \in DOMAIN m \ {s} : r[t] = m[t]

LEMMA CutWell ==
    ASSUME NEW m, NEW l \in BOOLEAN, NEW procs, Well(m, l, procs),
           NEW s \in DOMAIN m, m[s].owner # System, NEW k \in Nat, k < m[s].size,
           NEW b, NEW r, Cut(r, m, s, k, b, procs)
    PROVE  Well(r, l, procs)
<1>0. /\ b = s + k + 1 /\ DOMAIN r = DOMAIN m \cup {b}
      /\ r[s] \in Blocks(procs) /\ r[s].size = k /\ r[s].last = FALSE
      /\ r[b] \in Blocks(procs) /\ r[b].size = m[s].size - k - 1 /\ r[b].last = m[s].last
      /\ \A t \in DOMAIN m \ {s} : r[t] = m[t]
    BY DEF Cut
<1>g. /\ DOMAIN m \subseteq 0 .. End /\ End \in Nat /\ First = 0 /\ UmbStart \in Nat
      /\ First \in DOMAIN m /\ UmbStart \in DOMAIN m /\ m[UmbStart].owner = System
    BY Geometry DEF Well, Landmarks
<1>p. \A t \in DOMAIN m :
          /\ t \in Nat /\ t <= End
          /\ m[t].size \in Nat /\ Next1(m, t) \in Nat
          /\ Next1(m, t) = t + m[t].size + 1 /\ t < Next1(m, t) /\ Next1(m, t) <= End + 1
          /\ Next1(m, t) \in DOMAIN m \cup {End + 1}
          /\ \A u \in DOMAIN m : t < u => Next1(m, t) <= u
    BY Places
<1> DEFINE n == Next1(m, s)
<1>1. s \in Nat /\ b \in Nat /\ s < b /\ b < n /\ n \in Nat /\ n <= End + 1
    BY <1>0, <1>p
<1>2. b \notin DOMAIN m /\ b # End + 1 /\ b # UmbStart
    BY <1>g, <1>p, <1>1
<1>3. Next1(r, s) = b /\ Next1(r, b) = n
    BY <1>0, <1>p, <1>1 DEF Next1
<1>4. \A t \in DOMAIN m \ {s} : r[t] = m[t] /\ Next1(r, t) = Next1(m, t)
    BY <1>0 DEF Next1
<1> HIDE DEF n
<1>5. Landmarks(r)
    BY <1>0, <1>g, <1>1, <1>4 DEF Landmarks
<1>6. Tiling(r)
    <2> SUFFICES ASSUME NEW t \in DOMAIN r
                 PROVE  /\ Next1(r, t) \in DOMAIN r \cup {End + 1}
                        /\ \A u \in DOMAIN r : t < u => Next1(r, t) <= u
        BY DEF Tiling
    <2>n. n \in DOMAIN m \cup {End + 1} /\ (\A u \in DOMAIN m : s < u => n <= u)
        BY <1>p DEF n
    <2>1. CASE t = s
        BY <1>0, <1>1, <1>3, <1>p, <2>1, <2>n
    <2>2. CASE t = b
        BY <1>0, <1>1, <1>2, <1>3, <1>p, <2>2, <2>n
    <2>3. CASE t \in DOMAIN m \ {s}
        <3>1. t < b => Next1(m, t) <= b
            <4>1. t < s \/ t > s
                BY <1>p, <1>1, <2>3
            <4>2. t < s => Next1(m, t) <= s
                BY <1>p, <2>3
            <4>3. t > s => t > b
                BY <1>p, <1>1, <2>3, <2>n
            <4> QED
                BY <1>p, <1>1, <2>3, <4>1, <4>2, <4>3
        <3> QED
            BY <1>0, <1>1, <1>4, <1>p, <2>3, <3>1
    <2> QED
        BY <1>0, <2>1, <2>2, <2>3
<1>7. \A t \in DOMAIN r : r[t] \in Blocks(procs)
    BY <1>0, <1>4 DEF Well
<1>8. \A t \in DOMAIN r : r[t].last <=> EndsChain(Next1(r, t), l)
    <2>1. \A t \in DOMAIN m : m[t].last <=> EndsChain(Next1(m, t), l)
        BY DEF Well
    <2>2. r[s].last <=> EndsChain(Next1(r, s), l)
        BY <1>0, <1>2, <1>3 DEF EndsChain
    <2>3. r[b].last <=> EndsChain(Next1(r, b), l)
        BY <1>0, <1>3, <2>1 DEF n
    <2>4. \A t \in DOMAIN m \ {s} : r[t].last <=> EndsChain(Next1(r, t), l)
        BY <1>4, <2>1
    <2> QED
        BY <1>0, <2>2, <2>3, <2>4
<1> QED
    BY <1>5, <1>6, <1>7, <1>8 DEF Well

\* The block s is joined with the free one behind it
LEMMA JoinedWell ==
    ASSUME NEW m, NEW l \in BOOLEAN, NEW procs, Well(m, l, procs), NEW s \in DOMAIN m
    PROVE  LET r == Joined(m, s)
           IN  /\ Well(r, l, procs)
               /\ s \in DOMAIN r /\ r[s].owner = m[s].owner /\ m[s].size <= r[s].size
               /\ \A t \in DOMAIN m : t # s /\ ~IsFree(m, t) => t \in DOMAIN r /\ r[t] = m[t]
<1> DEFINE n == Next1(m, s)
           r == Joined(m, s)
           q == [t \in DOMAIN m \ {n} |->
                    IF t = s THEN Block(m[s].owner, m[s].size + m[n].size + 1, m[n].last)
                    ELSE m[t]]
<1>g. /\ DOMAIN m \subseteq 0 .. End /\ End \in Nat /\ First = 0 /\ UmbStart \in Nat
      /\ First \in DOMAIN m /\ UmbStart \in DOMAIN m /\ m[UmbStart].owner = System
    BY Geometry DEF Well, Landmarks
<1>p. \A t \in DOMAIN m :
          /\ t \in Nat /\ t <= End
          /\ m[t].size \in Nat /\ Next1(m, t) \in Nat
          /\ Next1(m, t) = t + m[t].size + 1 /\ t < Next1(m, t) /\ Next1(m, t) <= End + 1
          /\ Next1(m, t) \in DOMAIN m \cup {End + 1}
          /\ \A u \in DOMAIN m : t < u => Next1(m, t) <= u
    BY Places
<1>1. r = IF ~m[s].last /\ n \in DOMAIN m /\ IsFree(m, n) THEN q ELSE m
    BY DEF Joined
<1>2. CASE n \in DOMAIN m /\ IsFree(m, n) /\ r = q
    <2> DEFINE k == Next1(m, n)
    <2>1. s < n /\ n < k /\ s \in Nat /\ n \in Nat /\ k \in Nat /\ k <= End + 1
          /\ k \in DOMAIN m \cup {End + 1}
          /\ k = s + (m[s].size + m[n].size + 1) + 1
        BY <1>p, <1>2
    <2>2. n # First /\ n # UmbStart
        BY <1>g, <1>2, <2>1 DEF IsFree, Free, System
    <2>3. /\ DOMAIN r = DOMAIN m \ {n} /\ s \in DOMAIN r
          /\ r[s].size = m[s].size + m[n].size + 1 /\ r[s].last = m[n].last
          /\ r[s].owner = m[s].owner
          /\ \A t \in DOMAIN r \ {s} : r[t] = m[t]
        BY <1>2, <2>1 DEF Block
    <2>4. r[s] \in Blocks(procs)
        <3>1. r[s] = Block(m[s].owner, m[s].size + m[n].size + 1, m[n].last)
            BY <1>2, <2>1
        <3>2. m[s].owner \in procs \cup {Free, System} /\ m[n].last \in BOOLEAN
            BY <1>2 DEF Well, Blocks
        <3>3. m[s].size + m[n].size + 1 \in 0 .. End
            BY <1>g, <1>p, <1>2, <2>1
        <3> QED
            BY <3>1, <3>2, <3>3 DEF Block, Blocks
    <2>5. Next1(r, s) = k
        BY <1>p, <1>2, <2>1, <2>3 DEF Next1
    <2>6. \A t \in DOMAIN r \ {s} : t \in DOMAIN m /\ Next1(r, t) = Next1(m, t)
        BY <2>3 DEF Next1
    <2>7. Landmarks(r)
        <3>1. r[UmbStart].owner = System
            BY <1>g, <2>2, <2>3
        <3> QED
            BY <1>g, <2>2, <2>3, <3>1 DEF Landmarks
    <2>p. /\ \A u \in DOMAIN m : n < u => k <= u
          /\ \A u \in DOMAIN m : s < u => n <= u
        BY <1>p, <1>2
    <2> HIDE DEF r, n, k, q
    <2>8. Tiling(r)
        <3> SUFFICES ASSUME NEW t \in DOMAIN r
                     PROVE  /\ Next1(r, t) \in DOMAIN r \cup {End + 1}
                            /\ \A u \in DOMAIN r : t < u => Next1(r, t) <= u
            BY DEF Tiling
        <3>1. CASE t = s
            <4>1. \A u \in DOMAIN r : s < u => n < u
                BY <1>p, <2>1, <2>3, <2>p
            <4> QED
                BY <2>1, <2>3, <2>5, <2>p, <3>1, <4>1
        <3>2. CASE t # s
            <4>1. Next1(m, t) # n
                <5>1. t < s \/ s < t
                    BY <1>p, <2>3, <3>2
                <5>2. t < s => Next1(m, t) <= s
                    BY <1>p, <2>3
                <5>3. s < t => n < t
                    BY <1>p, <2>1, <2>3, <2>p
                <5> QED
                    BY <1>p, <2>1, <2>3, <5>1, <5>2, <5>3
            <4> QED
                BY <1>p, <2>3, <2>6, <3>2, <4>1
        <3> QED
            BY <3>1, <3>2
    <2>9. \A t \in DOMAIN r : r[t].last <=> EndsChain(Next1(r, t), l)
        <3>1. \A t \in DOMAIN m : m[t].last <=> EndsChain(Next1(m, t), l)
            BY DEF Well
        <3>2. r[s].last <=> EndsChain(Next1(r, s), l)
            BY <1>2, <2>3, <2>5, <3>1 DEF k
        <3>3. \A t \in DOMAIN r \ {s} : r[t].last <=> EndsChain(Next1(r, t), l)
            BY <2>3, <2>6, <3>1
        <3> QED
            BY <3>2, <3>3
    <2>10. \A t \in DOMAIN r : r[t] \in Blocks(procs)
        BY <2>3, <2>4 DEF Well
    <2>11. Well(r, l, procs)
        BY <2>7, <2>8, <2>9, <2>10 DEF Well
    <2>12. m[s].size <= r[s].size
        BY <1>p, <1>2, <2>3
    <2> QED
        BY <1>2, <2>3, <2>11, <2>12 DEF r
<1>3. CASE r = m
    <2>1. m[s].size <= m[s].size
        BY <1>p
    <2> QED
        BY <1>3, <2>1
<1> QED
    BY <1>1, <1>2, <1>3

\* Owners change, and nothing else
LEMMA RelabelledWell ==
    ASSUME NEW m, NEW l \in BOOLEAN, NEW procs, Well(m, l, procs),
           NEW others, NEW r, DOMAIN r = DOMAIN m,
           \A s \in DOMAIN m : /\ r[s] \in Blocks(others)
                               /\ r[s].size = m[s].size /\ r[s].last = m[s].last,
           r[UmbStart].owner = System
    PROVE  Well(r, l, others)
<1>1. \A s \in DOMAIN m : Next1(r, s) = Next1(m, s)
    BY DEF Next1
<1>2. Landmarks(r) /\ Tiling(r)
    BY <1>1 DEF Well, Landmarks, Tiling
<1>3. \A s \in DOMAIN m : m[s].last <=> EndsChain(Next1(m, s), l)
    BY DEF Well
<1>4. \A s \in DOMAIN m : r[s].last <=> EndsChain(Next1(r, s), l)
    BY <1>1, <1>3
<1> QED
    BY <1>2, <1>4 DEF Well
---------------------------------------------------------------------------
(* The operations *)

\* The process that calls, and the others that there are
Caller(procs) == strategy \in Strategies /\ psp \in procs /\ procs \subseteq Procs

\* Only free blocks change
Fixed(m, r) == \A s \in DOMAIN m : ~IsFree(m, s) => s \in DOMAIN r /\ r[s] = m[s]

LEMMA CallerIsProcess ==
    ASSUME NEW procs, Caller(procs)
    PROVE  psp \in Procs /\ psp # Free /\ psp # System /\ Free # System
    BY ProcsAssumption DEF Caller, Free, System

LEMMA SplitFrontWell ==
    ASSUME NEW m, NEW l \in BOOLEAN, NEW procs, Caller(procs), Well(m, l, procs),
           NEW s \in DOMAIN m, m[s].owner # System, NEW n \in Nat, n < m[s].size
    PROVE  LET r == SplitFront(m, s, n)
           IN  /\ Well(r, l, procs)
               /\ s \in DOMAIN r /\ r[s].owner = psp
               /\ \A t \in DOMAIN m \ {s} : t \in DOMAIN r /\ r[t] = m[t]
<1> DEFINE b == s + n + 1
           r == SplitFront(m, s, n)
<1>1. s \in Nat /\ m[s].size \in 0 .. End /\ m[s].last \in BOOLEAN /\ End \in Nat
    BY Geometry, Places DEF Well, Blocks
<1>2. b # s /\ b \in Nat
    BY <1>1
<1>3. /\ DOMAIN r = DOMAIN m \cup {b}
      /\ r[s] = Block(psp, n, FALSE) /\ r[b] = Block(Free, m[s].size - n - 1, m[s].last)
      /\ \A t \in DOMAIN m \ {s, b} : r[t] = m[t]
    BY <1>2 DEF SplitFront
<1>4. b \notin DOMAIN m
    <2>1. \A t \in DOMAIN m : s < t => s + m[s].size + 1 <= t
        BY Places
    <2> QED
        BY <1>1, <2>1
<1>5. n \in 0 .. End /\ m[s].size - n - 1 \in 0 .. End
    BY <1>1
<1>6. psp \in procs \cup {Free, System}
    BY DEF Caller
<1> HIDE DEF b, r
<1>7. /\ r[s] \in Blocks(procs) /\ r[s].size = n /\ r[s].last = FALSE /\ r[s].owner = psp
      /\ r[b] \in Blocks(procs) /\ r[b].size = m[s].size - n - 1 /\ r[b].last = m[s].last
    BY <1>1, <1>3, <1>5, <1>6 DEF Block, Blocks
<1>8. Well(r, l, procs)
    <2>1. \A t \in DOMAIN m \ {s} : r[t] = m[t]
        BY <1>3, <1>4
    <2>2. Cut(r, m, s, n, b, procs)
        BY <1>3, <1>7, <2>1 DEF Cut, b
    <2> QED
        BY <2>2, CutWell
<1> QED
    BY <1>3, <1>4, <1>7, <1>8 DEF r

LEMMA SplitBackWell ==
    ASSUME NEW m, NEW l \in BOOLEAN, NEW procs, Caller(procs), Well(m, l, procs),
           NEW s \in DOMAIN m, IsFree(m, s), NEW n \in Nat, n < m[s].size,
           NEW b, b = s + m[s].size - n
    PROVE  LET r == SplitBack(m, s, n)
           IN  /\ Well(r, l, procs)
               /\ b \in DOMAIN r /\ r[b].owner = psp
               /\ \A t \in DOMAIN m \ {s} : t \in DOMAIN r /\ r[t] = m[t]
<1> DEFINE k == m[s].size - n - 1
           r == SplitBack(m, s, n)
<1>1. s \in Nat /\ m[s].size \in 0 .. End /\ m[s].last \in BOOLEAN /\ End \in Nat
      /\ m[s].owner # System
    BY Geometry, Places DEF Well, Blocks, IsFree, Free, System
<1>2. b # s /\ b \in Nat /\ k \in Nat /\ b = s + k + 1 /\ n = m[s].size - k - 1
    BY <1>1
<1>3. /\ DOMAIN r = DOMAIN m \cup {b}
      /\ r[s] = Block(Free, k, FALSE) /\ r[b] = Block(psp, n, m[s].last)
      /\ \A t \in DOMAIN m \ {s, b} : r[t] = m[t]
    BY <1>2 DEF SplitBack
<1>4. b \notin DOMAIN m
    <2>1. \A t \in DOMAIN m : s < t => s + m[s].size + 1 <= t
        BY Places
    <2> QED
        BY <1>1, <2>1
<1>5. n \in 0 .. End /\ k \in 0 .. End /\ k < m[s].size
    BY <1>1
<1>6. psp \in procs \cup {Free, System}
    BY DEF Caller
<1> HIDE DEF k, r
<1>7. /\ r[s] \in Blocks(procs) /\ r[s].size = k /\ r[s].last = FALSE
      /\ r[b] \in Blocks(procs) /\ r[b].size = m[s].size - k - 1 /\ r[b].last = m[s].last
      /\ r[b].owner = psp
    BY <1>1, <1>2, <1>3, <1>5, <1>6 DEF Block, Blocks
<1>8. Well(r, l, procs)
    <2>1. \A t \in DOMAIN m \ {s} : r[t] = m[t]
        BY <1>3, <1>4
    <2>2. Cut(r, m, s, k, b, procs)
        BY <1>2, <1>3, <1>7, <2>1 DEF Cut
    <2> QED
        BY <1>1, <1>2, <1>5, <2>2, CutWell
<1> QED
    BY <1>3, <1>4, <1>7, <1>8 DEF r

LEMMA PlacedWell ==
    ASSUME NEW m, NEW l \in BOOLEAN, NEW procs, Caller(procs), Well(m, l, procs),
           NEW s \in DOMAIN m, IsFree(m, s), NEW n \in Nat, n <= m[s].size
    PROVE  LET r == Placed(m, s, n)
           IN  /\ Well(r, l, procs) /\ Fixed(m, r)
               /\ Given(m, s, n) \in DOMAIN r /\ r[Given(m, s, n)].owner = psp
<1> DEFINE r == Placed(m, s, n)
           g == Given(m, s, n)
<1>1. s \in Nat /\ m[s].size \in Nat /\ m[s] \in Blocks(procs) /\ m[s].owner # System
    BY Places DEF Well, IsFree, Free, System
<1>2. m[s].size = n \/ n < m[s].size
    BY <1>1
<1>3. CASE m[s].size = n
    <2> DEFINE q == [m EXCEPT ![s].owner = psp]
    <2>1. r = q /\ g = s
        BY <1>1, <1>3 DEF Placed, Given
    <2>2. DOMAIN q = DOMAIN m /\ q[s] = [m[s] EXCEPT !.owner = psp]
          /\ \A t \in DOMAIN m \ {s} : q[t] = m[t]
        OBVIOUS
    <2> HIDE DEF q
    <2>3. q[s] \in Blocks(procs) /\ q[s].size = m[s].size /\ q[s].last = m[s].last
          /\ q[s].owner = psp
        BY <1>1, <2>2 DEF Blocks, Caller
    <2>4. Well(q, l, procs)
        <3>1. UmbStart # s /\ UmbStart \in DOMAIN m /\ m[UmbStart].owner = System
            BY <1>1 DEF Well, Landmarks
        <3>2. \A t \in DOMAIN m : /\ q[t] \in Blocks(procs)
                                  /\ q[t].size = m[t].size /\ q[t].last = m[t].last
            BY <2>2, <2>3 DEF Well
        <3>3. q[UmbStart].owner = System
            BY <2>2, <3>1
        <3> QED
            BY <2>2, <3>2, <3>3, RelabelledWell
    <2> QED
        BY <2>1, <2>2, <2>3, <2>4 DEF Fixed
<1>4. CASE n < m[s].size /\ strategy.fit = "last"
    <2>1. r = SplitBack(m, s, n) /\ g = s + m[s].size - n
        BY <1>1, <1>4 DEF Placed, Given
    <2>2. /\ Well(SplitBack(m, s, n), l, procs)
          /\ g \in DOMAIN SplitBack(m, s, n) /\ SplitBack(m, s, n)[g].owner = psp
          /\ \A t \in DOMAIN m \ {s} : t \in DOMAIN SplitBack(m, s, n) /\ SplitBack(m, s, n)[t] = m[t]
        BY <1>4, <2>1, SplitBackWell
    <2> QED
        BY <2>1, <2>2 DEF Fixed
<1>5. CASE n < m[s].size /\ strategy.fit # "last"
    <2>1. r = SplitFront(m, s, n) /\ g = s
        BY <1>1, <1>5 DEF Placed, Given
    <2>2. /\ Well(SplitFront(m, s, n), l, procs)
          /\ s \in DOMAIN SplitFront(m, s, n) /\ SplitFront(m, s, n)[s].owner = psp
          /\ \A t \in DOMAIN m \ {s} : t \in DOMAIN SplitFront(m, s, n) /\ SplitFront(m, s, n)[t] = m[t]
        BY <1>1, <1>5, SplitFrontWell
    <2> QED
        BY <2>1, <2>2 DEF Fixed
<1> QED
    BY <1>2, <1>3, <1>4, <1>5

\* The block s, which is not the system's, changes its owner, and the processes
\* procs become others
Handed(r, m, s, owner, procs, others) ==
    /\ m[s].owner # System /\ procs \subseteq others /\ owner \in others \cup {Free}
    /\ r = [m EXCEPT ![s].owner = owner]

LEMMA HandedWell ==
    ASSUME NEW m, NEW l \in BOOLEAN, NEW procs, Well(m, l, procs),
           NEW s \in DOMAIN m, NEW owner, NEW others, NEW r,
           Handed(r, m, s, owner, procs, others)
    PROVE  /\ Well(r, l, others) /\ DOMAIN r = DOMAIN m
           /\ \A t \in DOMAIN m \ {s} : r[t] = m[t]
           /\ r[s].owner = owner
<1>0. /\ m[s].owner # System /\ procs \subseteq others /\ owner \in others \cup {Free}
      /\ r = [m EXCEPT ![s].owner = owner]
    BY DEF Handed
<1>1. m[s] \in Blocks(procs) /\ UmbStart # s /\ UmbStart \in DOMAIN m /\ m[UmbStart].owner = System
    BY <1>0 DEF Well, Landmarks
<1>2. DOMAIN r = DOMAIN m /\ r[s] = [m[s] EXCEPT !.owner = owner]
      /\ \A t \in DOMAIN m \ {s} : r[t] = m[t]
    BY <1>0
<1>3. r[s] \in Blocks(others) /\ r[s].size = m[s].size /\ r[s].last = m[s].last
      /\ r[s].owner = owner
    BY <1>0, <1>1, <1>2 DEF Blocks
<1>4. \A t \in DOMAIN m : m[t] \in Blocks(others)
    BY <1>0 DEF Well, Blocks
<1>5. Well(r, l, others)
    <2>1. \A t \in DOMAIN m : /\ r[t] \in Blocks(others)
                              /\ r[t].size = m[t].size /\ r[t].last = m[t].last
        BY <1>2, <1>3, <1>4
    <2>2. r[UmbStart].owner = System
        BY <1>1, <1>2
    <2> QED
        BY <1>2, <2>1, <2>2, RelabelledWell
<1> QED
    BY <1>2, <1>3, <1>5
---------------------------------------------------------------------------
(* The search *)

LEMMA SearchedBlocks ==
    ASSUME NEW m, strategy \in Strategies
    PROVE  /\ Searched(m) \subseteq Main(m) \cup Upper(m)
           /\ strategy.high # "only" => Main(m) \subseteq Searched(m)
<1>1. strategy.high \in {"no", "only", "first"}
    BY StrategyAssumption DEF Strategies
<1>2. CASE strategy.high = "no"
    <2>1. Passes(m) = <<Main(m)>>
        BY <1>2 DEF Passes
    <2>2. Searched(m) = Main(m)
        BY <2>1 DEF Searched
    <2> QED
        BY <2>2
<1>3. CASE strategy.high = "only"
    <2>1. Passes(m) = <<Upper(m)>>
        BY <1>3 DEF Passes
    <2>2. Searched(m) = Upper(m)
        BY <2>1 DEF Searched
    <2> QED
        BY <1>3, <2>2
<1>4. CASE strategy.high = "first"
    <2>1. Passes(m) = <<Upper(m), Main(m)>>
        BY <1>4 DEF Passes
    <2>2. Searched(m) = Upper(m) \cup Main(m)
        BY <2>1 DEF Searched
    <2> QED
        BY <2>2
<1> QED
    BY <1>1, <1>2, <1>3, <1>4

LEMMA FittingBlocks ==
    ASSUME NEW m, strategy \in Strategies, NEW n, NEW s \in Fitting(m, n)
    PROVE  s \in DOMAIN m /\ IsFree(m, s) /\ m[s].size >= n
<1>1. Searched(m) \subseteq DOMAIN m
    BY SearchedBlocks DEF Main, Upper, Chain
<1> QED
    BY <1>1 DEF Fitting

\* What a failed allocation reports can be allocated
LEMMA LargestFits ==
    ASSUME NEW m, NEW l, NEW procs, Well(m, l, procs), strategy \in Strategies
    PROVE  /\ Largest(m) \in 0 .. End
           /\ \A n \in Nat \ {0} : n <= Largest(m) => Fitting(m, n) # {}
<1> DEFINE free == {t \in Searched(m) : IsFree(m, t)}
           S == {0} \cup {m[s].size : s \in free}
<1>1. End \in Nat /\ \A s \in DOMAIN m : m[s].size \in 0 .. End
    BY Geometry DEF Well, Blocks
<1>2. free \subseteq DOMAIN m
    BY SearchedBlocks DEF Main, Upper, Chain
<1>3. S \in SUBSET (0 .. End) /\ S # {}
    BY <1>1, <1>2
<1>4. Max(S) \in S
    BY <1>1, <1>3, LargestIsMember
<1>5. Largest(m) = Max(S)
    BY DEF Largest
<1> HIDE DEF S
<1>6. Largest(m) \in 0 .. End
    BY <1>3, <1>4, <1>5
<1>7. ASSUME NEW n \in Nat \ {0}, n <= Largest(m)
      PROVE  Fitting(m, n) # {}
    <2>1. Largest(m) # 0
        BY <1>1, <1>6, <1>7
    <2>2. PICK s \in free : m[s].size = Largest(m)
        BY <1>4, <1>5, <2>1 DEF S
    <2>3. m[s].size >= n
        BY <1>1, <1>6, <1>7, <2>2
    <2>4. s \in Fitting(m, n)
        BY <2>2, <2>3 DEF Fitting
    <2> QED
        BY <2>4
<1> QED
    BY <1>6, <1>7

\* When the search finds nothing, no run of free blocks in the main chain is large
\* enough: compressed, each run is one block.
LEMMA NoRoom ==
    ASSUME NEW m, NEW l \in BOOLEAN, NEW procs, Well(m, l, procs),
           \A t \in Main(m) : IsFree(m, t) => ~(Next1(m, t) \in Main(m) /\ IsFree(m, Next1(m, t))),
           strategy \in Strategies, strategy.high # "only",
           NEW n \in Nat, Fitting(m, n) = {},
           NEW s \in Main(m), IsFree(m, s)
    PROVE  Next1(m, Max(Run(m, Main(m), s))) - s - 1 < n
<1> DEFINE run == Run(m, Main(m), s)
           end == Max(run)
<1>1. /\ end \in run /\ s <= end
      /\ \A t \in run : t \in Main(m) /\ IsFree(m, t) /\ s <= t /\ t <= end
      /\ \A t \in DOMAIN m : s <= t /\ t <= end => t \in run
    BY Runs
<1>2. Main(m) \subseteq DOMAIN m /\ End \in Nat
    BY Geometry DEF Main, Chain
<1>3. /\ s \in Nat /\ m[s].size \in Nat /\ Next1(m, s) = s + m[s].size + 1
      /\ Next1(m, s) \in DOMAIN m \cup {End + 1} /\ s < Next1(m, s) /\ Next1(m, s) \in Nat
      /\ \A t \in DOMAIN m : s < t => Next1(m, s) <= t
    BY <1>2, Places
<1> HIDE DEF run, end
<1>4. end \in DOMAIN m /\ end \in Nat /\ end <= End
    BY <1>1, <1>2, Places
<1>5. end = s
    <2> SUFFICES ASSUME end # s
                 PROVE  FALSE
        OBVIOUS
    <2>1. Next1(m, s) <= end
        BY <1>1, <1>3, <1>4
    <2>2. Next1(m, s) \in DOMAIN m
        BY <1>2, <1>3, <1>4, <2>1
    <2>3. Next1(m, s) \in run
        BY <1>1, <1>3, <2>1, <2>2
    <2> QED
        BY <1>1, <2>3
<1>6. s \in Searched(m)
    BY SearchedBlocks
<1>7. ~(m[s].size >= n)
    BY <1>6 DEF Fitting
<1>8. Next1(m, s) - s - 1 < n
    BY <1>3, <1>7
<1> QED
    BY <1>5, <1>8 DEF end, run

---------------------------------------------------------------------------
(* The invariant *)

Reported ==
    reply # NoReply /\ strategy.high # "only" =>
        \A s \in Main(mcb) : IsFree(mcb, s) =>
            Next1(mcb, Max(Run(mcb, Main(mcb), s))) - s - 1 < reply.asked

MemInv ==
    /\ Well(mcb, linked, alive) /\ linked \in BOOLEAN
    /\ Caller(alive) /\ exited = FALSE
    /\ reply \in [asked : Sizes \cup {-1}, largest : -1 .. End]
    /\ Reported

LEMMA NoReplyType == NoReply \in [asked : Sizes \cup {-1}, largest : -1 .. End]
    BY Geometry DEF NoReply

LEMMA Compressing ==
    ASSUME MemInv
    PROVE  LET m == Compressed(mcb)
           IN  /\ Well(m, linked, alive) /\ Fixed(mcb, m)
               /\ \A t \in Main(m) : IsFree(m, t) =>
                      ~(Next1(m, t) \in Main(m) /\ IsFree(m, Next1(m, t)))
    BY CompressedWell DEF MemInv, Fixed

LEMMA FixedKept ==
    ASSUME NEW m, NEW r, Fixed(m, r)
    PROVE  Kept(m, r)
    BY DEF Fixed, Kept, IsFree

LEMMA FixedTransitive ==
    ASSUME NEW m, NEW r, NEW q, Fixed(m, r), Fixed(r, q)
    PROVE  Fixed(m, q)
    BY DEF Fixed, IsFree

LEMMA AllocateStep ==
    ASSUME MemInv, NEW n \in Sizes, AllocateMemory(n)
    PROVE  MemInv' /\ Kept(mcb, mcb')
<1> DEFINE m == Compressed(mcb)
<1>1. /\ Well(m, linked, alive) /\ Fixed(mcb, m)
      /\ \A t \in Main(m) : IsFree(m, t) => ~(Next1(m, t) \in Main(m) /\ IsFree(m, Next1(m, t)))
    BY Compressing
<1>2. /\ linked \in BOOLEAN /\ Caller(alive) /\ exited = FALSE /\ strategy \in Strategies
      /\ UNCHANGED <<linked, strategy, exited, psp, alive>>
      /\ n \in Nat
    BY SizeAssumption DEF MemInv, Caller, AllocateMemory
<1>3. CASE (\E s \in Fitting(m, n) : Chosen(m, n, s) /\ mcb' = Placed(m, s, n)) /\ reply' = NoReply
    <2>1. PICK s \in Fitting(m, n) : mcb' = Placed(m, s, n)
        BY <1>3
    <2> HIDE DEF m
    <2>2. s \in DOMAIN m /\ IsFree(m, s) /\ m[s].size >= n
        BY <1>2, FittingBlocks
    <2>3. n <= m[s].size
        BY <1>1, <1>2, <2>2, Places
    <2>4. Well(mcb', linked, alive) /\ Fixed(m, mcb')
        BY <1>1, <1>2, <2>1, <2>2, <2>3, PlacedWell
    <2>5. Kept(mcb, mcb')
        BY <1>1, <2>4, FixedTransitive, FixedKept
    <2> QED
        BY <1>2, <1>3, <2>4, <2>5, NoReplyType DEF MemInv, Caller, Reported
<1>4. CASE Fitting(m, n) = {} /\ mcb' = m /\ reply' = [asked |-> n, largest |-> Largest(m)]
    <2> HIDE DEF m
    <2>1. Largest(m) \in 0 .. End /\ End \in Nat
        BY <1>1, <1>2, LargestFits, Geometry
    <2>2. reply' \in [asked : Sizes \cup {-1}, largest : -1 .. End]
        BY <1>4, <2>1
    <2>3. Reported'
        <3>1. reply'.asked = n
            BY <1>4
        <3>2. ASSUME strategy.high # "only", NEW s \in Main(m), IsFree(m, s)
              PROVE  Next1(m, Max(Run(m, Main(m), s))) - s - 1 < n
            BY <1>1, <1>2, <1>4, <3>2, NoRoom
        <3> QED
            BY <1>2, <1>4, <3>1, <3>2 DEF Reported
    <2> QED
        BY <1>1, <1>2, <1>4, <2>2, <2>3, FixedKept DEF MemInv, Caller
<1> QED
    BY <1>3, <1>4 DEF AllocateMemory
\* What a step must leave, when it is not a failed allocation
LEMMA Leaves ==
    ASSUME MemInv, Well(mcb', linked', alive'), linked' \in BOOLEAN,
           strategy' \in Strategies, psp' \in alive', alive' \subseteq Procs,
           exited' = FALSE, reply' = NoReply
    PROVE  MemInv'
    BY NoReplyType DEF MemInv, Caller, Reported

LEMMA ExecuteStep ==
    ASSUME MemInv, NEW p \in Procs, NEW min \in Sizes \ {0}, NEW max \in Sizes \ {0},
           Execute(p, min, max)
    PROVE  MemInv' /\ Kept(mcb, mcb')
<1> DEFINE m == Compressed(mcb)
<1>1. Well(m, linked, alive) /\ Fixed(mcb, m)
    BY Compressing
<1>2. /\ linked \in BOOLEAN /\ Caller(alive) /\ exited = FALSE /\ strategy \in Strategies
      /\ psp \in alive /\ alive \subseteq Procs
      /\ UNCHANGED <<linked, strategy>> /\ reply' = NoReply
      /\ min \in Nat \ {0} /\ max \in Nat \ {0}
    BY SizeAssumption DEF MemInv, Caller, Execute
<1>3. psp # Free /\ psp # System
    BY <1>2, CallerIsProcess
<1>4. CASE mcb' = m /\ UNCHANGED <<exited, psp, alive>>
    <2> HIDE DEF m
    <2> QED
        BY <1>1, <1>2, <1>4, Leaves, FixedKept
<1>5. CASE \E e \in Fitting(m, EnvSize) : LoadProgram(m, e, p, min, max)
    <2>1. PICK e \in Fitting(m, EnvSize) : LoadProgram(m, e, p, min, max)
        BY <1>5
    <2> DEFINE x   == Placed(m, e, EnvSize)
               m1  == Compressed(x)
               env == Given(m, e, EnvSize)
               size == IF Largest(m1) < max THEN Largest(m1) ELSE max
    <2> HIDE DEF m
    <2>2. e \in DOMAIN m /\ IsFree(m, e) /\ 1 <= m[e].size
        <3>1. e \in DOMAIN m /\ IsFree(m, e) /\ m[e].size >= 1
            BY <1>2, <2>1, FittingBlocks DEF EnvSize
        <3> QED
            BY <1>1, <3>1, Places
    <2>3. Well(x, linked, alive) /\ Fixed(m, x) /\ env \in DOMAIN x /\ x[env].owner = psp
        BY <1>1, <1>2, <2>2, PlacedWell DEF EnvSize
    <2>4. Well(m1, linked, alive) /\ Fixed(x, m1)
        BY <1>2, <2>3, CompressedWell DEF Fixed
    <2>5. env \in DOMAIN m1 /\ m1[env].owner = psp
        BY <1>3, <2>3, <2>4 DEF Fixed, IsFree
    <2>6. Fixed(mcb, m1)
        BY <1>1, <2>3, <2>4, FixedTransitive
    <2>7. CASE /\ mcb' = [m1 EXCEPT ![env].owner = Free]
               /\ UNCHANGED <<exited, psp, alive>>
        <3> HIDE DEF m1, env
        <3>1. /\ Well(mcb', linked, alive) /\ DOMAIN mcb' = DOMAIN m1
              /\ \A t \in DOMAIN m1 \ {env} : mcb'[t] = m1[t]
            <4>1. Handed(mcb', m1, env, Free, alive, alive)
                BY <1>3, <2>5, <2>7 DEF Handed
            <4> QED
                BY <1>2, <2>4, <2>5, <4>1, HandedWell
        <3>2. Kept(mcb, mcb')
            BY <2>5, <2>6, <3>1 DEF Kept, Fixed, IsFree
        <3> QED
            BY <1>2, <2>7, <3>1, <3>2, Leaves
    <2>8. CASE /\ Largest(m1) >= min
               /\ exited' = (Fitting(m1, size) = {})
               /\ mcb' \in {[Placed(m1, s, size) EXCEPT
                                ![env].owner = p, ![Given(m1, s, size)].owner = p] :
                            s \in {t \in Fitting(m1, size) : Chosen(m1, size, t)}}
                           \cup (IF exited' THEN {m1} ELSE {})
               /\ psp' = p /\ alive' = alive \cup {p}
        <3> HIDE DEF m1, env
        <3>1. Largest(m1) \in 0 .. End
              /\ \A n \in Nat \ {0} : n <= Largest(m1) => Fitting(m1, n) # {}
            BY <1>2, <2>4, LargestFits
        <3>2. size \in Nat \ {0} /\ size <= Largest(m1)
            BY <1>2, <2>8, <3>1, Geometry
        <3> HIDE DEF size
        <3>3. exited' = FALSE
            BY <2>8, <3>1, <3>2
        <3>4. PICK s \in Fitting(m1, size) :
                  mcb' = [Placed(m1, s, size) EXCEPT
                             ![env].owner = p, ![Given(m1, s, size)].owner = p]
            BY <2>8, <3>3
        <3> DEFINE y  == Placed(m1, s, size)
                   g  == Given(m1, s, size)
                   y1 == [y EXCEPT ![env].owner = p]
        <3>5. s \in DOMAIN m1 /\ IsFree(m1, s) /\ size <= m1[s].size
            <4>1. s \in DOMAIN m1 /\ IsFree(m1, s) /\ m1[s].size >= size
                BY <1>2, FittingBlocks
            <4> QED
                BY <2>4, <3>2, <4>1, Places
        <3>6. Well(y, linked, alive) /\ Fixed(m1, y) /\ g \in DOMAIN y /\ y[g].owner = psp
            BY <1>2, <2>4, <3>2, <3>5, PlacedWell
        <3>7. env \in DOMAIN y /\ y[env].owner = psp
            BY <1>3, <2>5, <3>6 DEF Fixed, IsFree
        <3>8. mcb' = [y1 EXCEPT ![g].owner = p]
            BY <3>4
        <3> HIDE DEF y, g
        <3>9. /\ Well(y1, linked, alive \cup {p}) /\ DOMAIN y1 = DOMAIN y
              /\ \A t \in DOMAIN y \ {env} : y1[t] = y[t]
              /\ y1[env].owner = p
            <4>1. Handed(y1, y, env, p, alive, alive \cup {p})
                BY <1>3, <3>7 DEF Handed
            <4> HIDE DEF y1
            <4> QED
                BY <1>2, <3>6, <3>7, <4>1, HandedWell
        <3> HIDE DEF y1
        <3>10. p # System
            BY ProcsAssumption
        <3>11. g \in DOMAIN y1 /\ y1[g].owner # System
            BY <1>3, <3>6, <3>9, <3>10
        <3>12. /\ Well(mcb', linked, alive \cup {p}) /\ DOMAIN mcb' = DOMAIN y1
               /\ \A t \in DOMAIN y1 \ {g} : mcb'[t] = y1[t]
            <4>1. Handed(mcb', y1, g, p, alive \cup {p}, alive \cup {p})
                BY <3>8, <3>11 DEF Handed
            <4> QED
                BY <1>2, <3>9, <3>11, <4>1, HandedWell
        <3>13. Fixed(mcb, y)
            BY <2>6, <3>6, FixedTransitive
        <3>14. Kept(mcb, mcb')
            <4> SUFFICES ASSUME NEW t \in DOMAIN mcb, mcb[t].owner \notin {Free, psp}
                         PROVE  /\ t \in DOMAIN mcb' /\ mcb'[t].owner = mcb[t].owner
                                /\ mcb'[t].size = mcb[t].size
                BY DEF Kept
            <4>1. t \in DOMAIN y /\ y[t] = mcb[t]
                BY <3>13 DEF Fixed, IsFree
            <4>2. t # env /\ t # g
                BY <3>6, <3>7, <4>1
            <4> QED
                BY <3>9, <3>12, <4>1, <4>2
        <3> QED
            BY <1>2, <2>8, <3>3, <3>12, <3>14, Leaves
    <2> QED
        BY <2>1, <2>7, <2>8 DEF LoadProgram
<1> QED
    BY <1>4, <1>5 DEF Execute

LEMMA ResizeStep ==
    ASSUME MemInv, NEW s \in DOMAIN mcb, mcb[s].owner = psp, NEW n \in Sizes,
           ResizeMemory(s, n)
    PROVE  MemInv' /\ Kept(mcb, mcb')
<1> DEFINE m == Compressed(mcb)
           j == Joined(m, s)
<1>1. Well(m, linked, alive) /\ Fixed(mcb, m)
    BY Compressing
<1>2. /\ linked \in BOOLEAN /\ Caller(alive) /\ exited = FALSE /\ strategy \in Strategies
      /\ psp \in alive /\ alive \subseteq Procs
      /\ UNCHANGED <<linked, strategy, exited, psp, alive>> /\ reply' = NoReply
      /\ n \in Nat /\ mcb' = Resized(m, s, n)
    BY SizeAssumption DEF MemInv, Caller, ResizeMemory
<1>3. psp # Free /\ psp # System /\ Free # System
    BY <1>2, CallerIsProcess
<1>4. s \in DOMAIN m /\ m[s].owner = psp
    BY <1>1, <1>3 DEF Fixed, IsFree
<1> HIDE DEF m
<1>5. /\ Well(j, linked, alive)
      /\ s \in DOMAIN j /\ j[s].owner = psp /\ m[s].size <= j[s].size
      /\ \A t \in DOMAIN m : t # s /\ ~IsFree(m, t) => t \in DOMAIN j /\ j[t] = m[t]
    BY <1>1, <1>2, <1>4, JoinedWell
<1> HIDE DEF j
<1>6. m[s].size \in Nat /\ j[s].size \in Nat
    BY <1>1, <1>4, <1>5, Places
<1>7. ASSUME Well(mcb', linked, alive),
             \A t \in DOMAIN m : t # s /\ ~IsFree(m, t) => t \in DOMAIN mcb' /\ mcb'[t] = m[t]
      PROVE  MemInv' /\ Kept(mcb, mcb')
    <2>1. Kept(mcb, mcb')
        BY <1>1, <1>7 DEF Kept, Fixed, IsFree
    <2> QED
        BY <1>2, <1>7, <2>1, Leaves
<1>8. CASE mcb' = m
    BY <1>1, <1>7, <1>8
<1>9. CASE n < m[s].size /\ mcb' = SplitFront(m, s, n)
    <2>1. /\ Well(mcb', linked, alive)
          /\ \A t \in DOMAIN m \ {s} : t \in DOMAIN mcb' /\ mcb'[t] = m[t]
        BY <1>1, <1>2, <1>3, <1>4, <1>9, SplitFrontWell
    <2> QED
        BY <1>7, <2>1
<1>10. CASE n < j[s].size /\ mcb' = SplitFront(j, s, n)
    <2>1. /\ Well(mcb', linked, alive)
          /\ \A t \in DOMAIN j \ {s} : t \in DOMAIN mcb' /\ mcb'[t] = j[t]
        BY <1>2, <1>3, <1>5, <1>10, SplitFrontWell
    <2> QED
        BY <1>5, <1>7, <2>1
<1>11. CASE mcb' = [j EXCEPT ![s].owner = psp]
    <2>1. /\ Well(mcb', linked, alive) /\ DOMAIN mcb' = DOMAIN j
          /\ \A t \in DOMAIN j \ {s} : mcb'[t] = j[t]
        <3>1. Handed(mcb', j, s, psp, alive, alive)
            BY <1>2, <1>3, <1>5, <1>11 DEF Handed
        <3> QED
            BY <1>2, <1>5, <3>1, HandedWell
    <2> QED
        BY <1>5, <1>7, <2>1
<1> QED
    BY <1>2, <1>8, <1>9, <1>10, <1>11 DEF Resized, j

LEMMA FreeStep ==
    ASSUME MemInv, NEW s \in DOMAIN mcb, mcb[s].owner = psp, FreeMemory(s)
    PROVE  MemInv' /\ Kept(mcb, mcb')
<1>1. /\ Well(mcb, linked, alive)
      /\ linked \in BOOLEAN /\ Caller(alive) /\ exited = FALSE /\ strategy \in Strategies
      /\ psp \in alive /\ alive \subseteq Procs
      /\ UNCHANGED <<linked, strategy, exited, psp, alive>> /\ reply' = NoReply
      /\ mcb' = [mcb EXCEPT ![s].owner = Free]
    BY DEF MemInv, Caller, FreeMemory
<1>2. psp # System
    BY <1>1, CallerIsProcess
<1>3. /\ Well(mcb', linked, alive) /\ DOMAIN mcb' = DOMAIN mcb
      /\ \A t \in DOMAIN mcb \ {s} : mcb'[t] = mcb[t]
    <2>1. Handed(mcb', mcb, s, Free, alive, alive)
        BY <1>1, <1>2 DEF Handed
    <2> QED
        BY <1>1, <2>1, HandedWell
<1>4. Kept(mcb, mcb')
    BY <1>3 DEF Kept
<1> QED
    BY <1>1, <1>3, <1>4, Leaves

\* A process that ends leaves nothing: the two walks meet every block
LEMMA TerminateStep ==
    ASSUME MemInv, Terminate
    PROVE  MemInv' /\ Kept(mcb, mcb')
<1> DEFINE m == Released(mcb, psp)
           rest == alive \ {psp}
<1>1. /\ Well(mcb, linked, alive)
      /\ linked \in BOOLEAN /\ Caller(alive) /\ exited = FALSE /\ strategy \in Strategies
      /\ psp \in alive /\ alive \subseteq Procs
      /\ UNCHANGED <<linked, strategy, exited>> /\ reply' = NoReply
      /\ mcb' = Compressed(m) /\ alive' = rest /\ psp' \in rest
    BY DEF MemInv, Caller, Terminate
<1>2. psp # Free /\ psp # System
    BY <1>1, CallerIsProcess
<1>3. Main(mcb) \cup Upper(mcb) = DOMAIN mcb
    <2>1. UmbStart \in Nat /\ \A s \in DOMAIN mcb : s \in Nat
        BY <1>1, Geometry, Places
    <2>2. /\ Main(mcb) = {s \in DOMAIN mcb : linked = TRUE \/ s < UmbStart}
          /\ Upper(mcb) = {s \in DOMAIN mcb : UmbStart <= s}
        BY <1>1, Walks
    <2>3. \A s \in DOMAIN mcb : s < UmbStart \/ UmbStart <= s
        BY <2>1
    <2> QED
        BY <2>2, <2>3
<1>4. /\ DOMAIN m = DOMAIN mcb
      /\ \A s \in DOMAIN mcb :
             m[s] = IF mcb[s].owner = psp THEN [mcb[s] EXCEPT !.owner = Free] ELSE mcb[s]
    BY <1>3 DEF Released
<1> HIDE DEF m
<1>5. \A s \in DOMAIN mcb : mcb[s] \in Blocks(alive)
    BY <1>1 DEF Well
<1>6. \A s \in DOMAIN mcb : /\ m[s] \in Blocks(rest)
                            /\ m[s].size = mcb[s].size /\ m[s].last = mcb[s].last
    BY <1>4, <1>5 DEF Blocks
<1>7. UmbStart \in DOMAIN mcb /\ m[UmbStart].owner = System
    BY <1>1, <1>2, <1>4 DEF Well, Landmarks
<1>8. Well(m, linked, rest)
    BY <1>1, <1>4, <1>6, <1>7, RelabelledWell, ZenonT(60)
<1> HIDE DEF rest
<1>9. Well(mcb', linked, rest) /\ Fixed(m, mcb')
    BY <1>1, <1>8, CompressedWell DEF Fixed
<1>10. Kept(mcb, mcb')
    BY <1>4, <1>9 DEF Kept, Fixed, IsFree
<1>11. alive' \subseteq Procs
    BY <1>1 DEF rest
<1> QED
    BY <1>1, <1>9, <1>10, <1>11, Leaves

\* The block below the UMBs is the one whose type changes
LEMMA LinkStep ==
    ASSUME MemInv, NEW link \in BOOLEAN, LinkUMBs(link)
    PROVE  MemInv' /\ Kept(mcb, mcb')
<1> DEFINE end == Max({s \in Main(mcb) : s < UmbStart})
<1>1. /\ Well(mcb, linked, alive)
      /\ linked \in BOOLEAN /\ Caller(alive) /\ exited = FALSE /\ strategy \in Strategies
      /\ psp \in alive /\ alive \subseteq Procs
      /\ UNCHANGED <<strategy, exited, psp, alive>> /\ reply' = NoReply
      /\ linked' = link
      /\ mcb' = IF link = linked THEN mcb ELSE [mcb EXCEPT ![end].last = ~link]
    BY DEF MemInv, Caller, LinkUMBs
<1>2. /\ DOMAIN mcb \subseteq 0 .. End /\ End \in Nat /\ First = 0 /\ UmbStart \in Nat /\ 0 < UmbStart
      /\ First \in DOMAIN mcb /\ UmbStart \in DOMAIN mcb /\ mcb[UmbStart].owner = System
      /\ UmbStart <= End
      /\ Main(mcb) = {t \in DOMAIN mcb : linked = TRUE \/ t < UmbStart}
    BY <1>1, Geometry, Walks DEF Well, Landmarks
<1>3. CASE link = linked
    BY <1>1, <1>3, Leaves DEF Kept
<1>4. CASE link # linked
    <2>1. PICK p \in DOMAIN mcb : /\ p < UmbStart /\ Next1(mcb, p) = UmbStart
                                  /\ \A u \in DOMAIN mcb : u < UmbStart => u <= p
        BY <1>1, <1>2, Before
    <2>2. end = p
        <3> DEFINE S == {s \in Main(mcb) : s < UmbStart}
        <3>1. S \in SUBSET (0 .. End) /\ p \in S /\ \A u \in S : u <= p
            BY <1>2, <2>1
        <3>2. Max(S) \in S /\ \A u \in S : Max(S) >= u
            <4> HIDE DEF S
            <4> QED
                BY <1>2, <3>1, LargestIsMember
        <3> HIDE DEF S
        <3> DEFINE x == Max(S)
        <3>3. x \in S /\ x >= p /\ x <= p
            BY <3>1, <3>2
        <3>4. x \in 0 .. End /\ p \in 0 .. End
            BY <1>2, <3>1, <3>3
        <3> HIDE DEF x
        <3>5. x = p
            BY <1>2, <3>3, <3>4
        <3> QED
            BY <3>5 DEF S, x
    <2> HIDE DEF end
    <2>3. /\ DOMAIN mcb' = DOMAIN mcb
          /\ mcb'[p] = [mcb[p] EXCEPT !.last = ~link]
          /\ \A t \in DOMAIN mcb \ {p} : mcb'[t] = mcb[t]
        BY <1>1, <1>4, <2>2
    <2>4. mcb[p] \in Blocks(alive) /\ \A t \in DOMAIN mcb : mcb[t] \in Blocks(alive)
        BY <1>1 DEF Well
    <2>5. /\ mcb'[p] \in Blocks(alive) /\ mcb'[p].size = mcb[p].size
          /\ mcb'[p].owner = mcb[p].owner /\ (mcb'[p].last <=> link = FALSE)
        BY <2>3, <2>4 DEF Blocks
    <2>6. \A t \in DOMAIN mcb : Next1(mcb', t) = Next1(mcb, t)
        BY <2>3, <2>5 DEF Next1
    <2>7. Landmarks(mcb') /\ Tiling(mcb')
        BY <1>1, <2>3, <2>5, <2>6 DEF Well, Landmarks, Tiling
    <2>8. \A t \in DOMAIN mcb : mcb'[t].last <=> EndsChain(Next1(mcb', t), link)
        <3>1. mcb'[p].last <=> EndsChain(Next1(mcb', p), link)
            <4>1. UmbStart # End + 1
                BY <1>2
            <4> QED
                BY <2>1, <2>5, <2>6, <4>1 DEF EndsChain
        <3>2. ASSUME NEW t \in DOMAIN mcb \ {p}
              PROVE  mcb'[t].last <=> EndsChain(Next1(mcb', t), link)
            <4>1. Next1(mcb, t) # UmbStart
                <5>1. t < p \/ p < t
                    BY <1>2
                <5>2. t < p => Next1(mcb, t) <= p
                    BY <1>1, Places
                <5>3. p < t => UmbStart <= t
                    BY <1>1, <2>1, Places
                <5>4. Next1(mcb, t) \in Nat /\ t < Next1(mcb, t) /\ t \in Nat /\ p \in Nat
                    BY <1>1, Places
                <5> QED
                    BY <1>2, <2>1, <5>1, <5>2, <5>3, <5>4
            <4>2. mcb[t].last <=> EndsChain(Next1(mcb, t), linked)
                BY <1>1 DEF Well
            <4>3. mcb'[t] = mcb[t] /\ Next1(mcb', t) = Next1(mcb, t)
                BY <2>3, <2>6
            <4> QED
                BY <4>1, <4>2, <4>3 DEF EndsChain
        <3> QED
            BY <3>1, <3>2
    <2>9. Well(mcb', link, alive)
        BY <2>3, <2>4, <2>5, <2>7, <2>8 DEF Well
    <2>10. Kept(mcb, mcb')
        BY <2>3, <2>5 DEF Kept
    <2> QED
        BY <1>1, <2>9, <2>10, Leaves
<1> QED
    BY <1>3, <1>4
LEMMA MemInvInit ==
    ASSUME Init
    PROVE  MemInv
<1> DEFINE top == UmbStart + 1
<1>1. /\ First = 0 /\ Locked = SmallSize + 1 /\ Low = Locked + 1
      /\ UmbStart = Low + LowSize + 1 /\ top = UmbStart + 1 /\ End + 1 = top + UmbSize + 1
      /\ SmallSize \in Nat /\ LowSize \in Nat /\ UmbSize \in Nat
      /\ Locked \in Nat /\ Low \in Nat /\ UmbStart \in Nat /\ top \in Nat /\ End \in Nat
      /\ SmallSize <= End /\ LowSize <= End /\ UmbSize <= End
    BY SizeAssumption DEF First, Locked, Low, UmbStart, End
<1>2. /\ First < Locked /\ Locked < Low /\ Low < UmbStart /\ UmbStart < top /\ top <= End
    BY <1>1
<1> HIDE DEF top
<1>3. /\ DOMAIN mcb = {First, Locked, Low, UmbStart, top}
      /\ mcb[First] = Block(Free, SmallSize, FALSE)
      /\ mcb[Locked] = Block(System, 0, FALSE)
      /\ mcb[Low] = Block(Free, LowSize, TRUE)
      /\ mcb[UmbStart] = Block(System, 0, FALSE)
      /\ mcb[top] = Block(Free, UmbSize, TRUE)
    <2>1. /\ First # Locked /\ First # Low /\ First # UmbStart /\ First # top
          /\ Locked # Low /\ Locked # UmbStart /\ Locked # top
          /\ Low # UmbStart /\ Low # top /\ UmbStart # top
        BY <1>1, <1>2
    <2> QED
        BY <2>1 DEF Init, top
<1>4. /\ mcb[First].size = SmallSize /\ mcb[Locked].size = 0 /\ mcb[Low].size = LowSize
      /\ mcb[UmbStart].size = 0 /\ mcb[top].size = UmbSize
      /\ mcb[First].last = FALSE /\ mcb[Locked].last = FALSE /\ mcb[Low].last = TRUE
      /\ mcb[UmbStart].last = FALSE /\ mcb[top].last = TRUE
      /\ mcb[UmbStart].owner = System
    BY <1>3 DEF Block
<1>5. \A s \in DOMAIN mcb : mcb[s] \in Blocks(alive)
    <2>1. \A n \in 0 .. End : \A b \in BOOLEAN :
              Block(Free, n, b) \in Blocks(alive) /\ Block(System, n, b) \in Blocks(alive)
        BY DEF Block, Blocks
    <2>2. SmallSize \in 0 .. End /\ LowSize \in 0 .. End /\ UmbSize \in 0 .. End /\ 0 \in 0 .. End
        BY <1>1
    <2> QED
        BY <1>3, <2>1, <2>2
<1>6. /\ Next1(mcb, First) = Locked /\ Next1(mcb, Locked) = Low /\ Next1(mcb, Low) = UmbStart
      /\ Next1(mcb, UmbStart) = top /\ Next1(mcb, top) = End + 1
    BY <1>1, <1>4 DEF Next1
<1>7. Landmarks(mcb)
    <2>1. {First, Locked, Low, UmbStart, top} \subseteq 0 .. End
        BY <1>1, <1>2
    <2> QED
        BY <1>1, <1>3, <1>4, <2>1 DEF Landmarks
<1>8. Tiling(mcb)
    <2> SUFFICES ASSUME NEW s \in DOMAIN mcb
                 PROVE  /\ Next1(mcb, s) \in DOMAIN mcb \cup {End + 1}
                        /\ \A t \in DOMAIN mcb : s < t => Next1(mcb, s) <= t
        BY DEF Tiling
    <2>1. CASE s = First
        BY <1>1, <1>2, <1>3, <1>6, <2>1
    <2>2. CASE s = Locked
        BY <1>1, <1>2, <1>3, <1>6, <2>2
    <2>3. CASE s = Low
        BY <1>1, <1>2, <1>3, <1>6, <2>3
    <2>4. CASE s = UmbStart
        BY <1>1, <1>2, <1>3, <1>6, <2>4
    <2>5. CASE s = top
        BY <1>1, <1>2, <1>3, <1>6, <2>5
    <2> QED
        BY <1>3, <2>1, <2>2, <2>3, <2>4, <2>5
<1>9. \A s \in DOMAIN mcb : mcb[s].last <=> EndsChain(Next1(mcb, s), FALSE)
    <2>1. /\ Locked # End + 1 /\ Low # End + 1 /\ UmbStart # End + 1 /\ top # End + 1
          /\ Locked # UmbStart /\ Low # UmbStart /\ top # UmbStart
        BY <1>1, <1>2
    <2> QED
        BY <1>3, <1>4, <1>6, <2>1 DEF EndsChain
<1>10. linked = FALSE /\ psp = Shell /\ alive = {Shell} /\ strategy \in Strategies
       /\ exited = FALSE /\ reply = NoReply
    BY DEF Init
<1>11. Well(mcb, linked, alive)
    BY <1>5, <1>7, <1>8, <1>9, <1>10 DEF Well
<1> QED
    BY <1>10, <1>11, NoReplyType, ProcsAssumption DEF MemInv, Caller, Reported

LEMMA MemInvNext ==
    ASSUME MemInv, [Next]_vars
    PROVE  MemInv' /\ (Kept(mcb, mcb') \/ UNCHANGED vars)
<1>1. CASE \E n \in Sizes : AllocateMemory(n)
    BY <1>1, AllocateStep
<1>2. CASE \E s \in DOMAIN mcb : /\ mcb[s].owner = psp
                                 /\ FreeMemory(s) \/ \E n \in Sizes : ResizeMemory(s, n)
    BY <1>2, FreeStep, ResizeStep
<1>3. CASE Terminate
    BY <1>3, TerminateStep
<1>4. CASE \E p \in Procs : \E min, max \in Sizes \ {0} : Execute(p, min, max)
    BY <1>4, ExecuteStep
<1>5. CASE \E link \in BOOLEAN : LinkUMBs(link)
    BY <1>5, LinkStep
<1>6. CASE (\E p \in alive : SetPsp(p)) \/ \E st \in Strategies : SetMemAllocStrategy(st)
    <2>1. /\ UNCHANGED <<mcb, linked, exited, alive>> /\ reply' = NoReply
          /\ psp' \in alive /\ strategy' \in Strategies
        BY <1>6 DEF SetPsp, SetMemAllocStrategy, MemInv, Caller
    <2>2. /\ Well(mcb', linked', alive') /\ linked' \in BOOLEAN /\ exited' = FALSE
          /\ alive' \subseteq Procs
        BY <2>1 DEF MemInv, Caller
    <2> QED
        BY <2>1, <2>2, Leaves DEF Kept
<1>7. CASE UNCHANGED vars
    BY <1>7 DEF vars, MemInv, Caller, Reported
<1> QED
    BY <1>1, <1>2, <1>3, <1>4, <1>5, <1>6, <1>7 DEF Next

LEMMA MemInvInvariant == Spec => []MemInv
<1>1. Init => MemInv
    BY MemInvInit
<1>2. MemInv /\ [Next]_vars => MemInv'
    BY MemInvNext
<1> QED
    BY <1>1, <1>2, PTL DEF Spec

---------------------------------------------------------------------------
(* The theorems *)

\* Whatever is allocated, split, merged, resized, freed and linked, for all sizes
\* of the memory and of the requests: the control blocks tile the memory from the
\* first to the last paragraph, and the chains end where the walks rely on it.
THEOREM ChainKept == Spec => []ChainOK
<1>1. MemInv => ChainOK
    <2> SUFFICES ASSUME MemInv
                 PROVE  ChainOK
        OBVIOUS
    <2>1. Well(mcb, linked, alive) /\ alive \subseteq Procs
        BY DEF MemInv, Caller
    <2>2. TypeOK
        <3>1. \A s \in DOMAIN mcb :
                  mcb[s] \in [owner : Procs \cup {Free, System}, size : 0 .. End, last : BOOLEAN]
            BY <2>1 DEF Well, Blocks
        <3> QED
            BY <2>1, <3>1 DEF MemInv, Caller, Well, Landmarks, TypeOK
    <2>3. Tiled
        BY <2>1 DEF Well, Landmarks, Tiling, Tiled
    <2>4. ChainsEnd
        BY <2>1 DEF Well, EndsChain, ChainsEnd, MemInv
    <2> QED
        BY <2>2, <2>3, <2>4 DEF ChainOK
<1> QED
    BY <1>1, MemInvInvariant, PTL

\* A process that has ended owns no block, in whichever chain.
THEOREM EndedOwnNothing == Spec => []DeadOwnNothing
<1>1. MemInv => DeadOwnNothing
    BY DEF MemInv, Well, Blocks, DeadOwnNothing
<1> QED
    BY <1>1, MemInvInvariant, PTL

\* An allocation from the main chain fails only when no run of free blocks there
\* is large enough, and the size that a failed one reports can be allocated, so
\* that DOS_Execute never exits the emulator.
THEOREM FailuresAreReal == Spec => []FailureIsReal
<1>1. MemInv => FailureIsReal
    BY DEF MemInv, Reported, FailureIsReal
<1> QED
    BY <1>1, MemInvInvariant, PTL

\* No call moves, resizes or takes a block of the system or of another process.
THEOREM OthersKept == Spec => OthersUntouched
<1>1. MemInv /\ [Next]_vars =>
          [\A s \in DOMAIN mcb : mcb[s].owner \notin {Free, psp} =>
               /\ s \in DOMAIN mcb'
               /\ mcb'[s].owner = mcb[s].owner /\ mcb'[s].size = mcb[s].size]_vars
    BY MemInvNext DEF Kept
<1> QED
    BY <1>1, MemInvInvariant, PTL DEF Spec, OthersUntouched
=============================================================================
