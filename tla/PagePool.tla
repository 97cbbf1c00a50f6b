------------------------------ MODULE PagePool ------------------------------
(***************************************************************************)
(* Extended memory: the table of pages of src/hardware/memory.cpp and its  *)
(* three users, the XMS blocks of src/ints/xms.cpp, the EMS handles of     *)
(* src/ints/ems.cpp and the pages handed out one by one through VCPI.      *)
(*                                                                         *)
(* mhandles[p] is 0 for a free page, the next page of the block or -1 for  *)
(* the last one.  Page 1 here is page XMS_START of the code.  An           *)
(* allocation of scattered pages does not stop at the end of the table, so *)
(* the table has Beyond more cells, which belong to other data of the      *)
(* program and may read as free; the cell after them never does.           *)
(***************************************************************************)
EXTENDS Integers, SequencesExt

CONSTANTS
    Pages,         \* the number of pages that can be allocated
    Beyond,        \* the cells after the table that may read as free
    XmsBlocks,     \* XMS_HANDLES - 1 in the code
    EmsHandles,    \* EMM_MAX_HANDLES - 1 in the code, without the system handle
    EmsPage,       \* pages in a page of EMS, 4 in the code
    SystemPages,   \* EMS pages of the system handle, 8 in the code
    XmsSizes,      \* the sizes in kB that XMS blocks are allocated with,
    XmsResizes,    \* and those that blocks are resized to
    EmsSizes,      \* the numbers of EMS pages that are asked for
    LockMax,       \* 255 in the code
    VcpiMax        \* bound on the pages that VCPI gives out

ASSUME PoolAssumption ==
    /\ {Pages, EmsPage, XmsBlocks, LockMax} \subseteq Nat \ {0}
    /\ {Beyond, EmsHandles, SystemPages, VcpiMax} \subseteq Nat /\ SystemPages * EmsPage <= Pages
    /\ XmsSizes \cup XmsResizes \cup EmsSizes \subseteq Nat

Cells == 1 .. Pages + Beyond + 1
NULL_HANDLE == -1

VARIABLES
    mhandles,   \* memory.mhandles
    xms,        \* xms_handles
    ems,        \* emm_handles, and of each the page it starts with
    vcpi,       \* the pages that VCPI gave out
    exited      \* why the program exited

vars == <<mhandles, xms, ems, vcpi, exited>>

---------------------------------------------------------------------------
(* The table of pages *)

From(first, n) == [i \in 1 .. n |-> first + i - 1]

\* The pages of the block that starts with page p
Chain(h, p) ==
    LET from[q \in -1 .. Pages + Beyond] == IF q > 0 THEN <<q>> \o from[h[q]] ELSE <<>>
    IN  from[p]

Free(h) == {p \in 1 .. Pages : h[p] = 0}

\* MEM_FreeTotal
FreeTotal(h) == Cardinality(Free(h))

\* The operators named Bad... are plausible defects: a property is worth
\* having when it fails once one of them replaces the definition below it.
BadLinked(h, s) ==
    [p \in Cells |-> IF p \notin Range(s) \/ p = Last(s) THEN h[p]
                     ELSE s[1 + CHOOSE i \in DOMAIN s : s[i] = p]]

\* The table once the pages s are a block
Linked(h, s) ==
    [p \in Cells |-> IF p \notin Range(s) THEN h[p]
                     ELSE IF p = Last(s) THEN -1
                     ELSE s[1 + CHOOSE i \in DOMAIN s : s[i] = p]]

Released(h, s) == [p \in Cells |-> IF p \in Range(s) THEN 0 ELSE h[p]]

\* The run of free pages that page p is in
Run(free, p) == {q \in free : (p .. q) \cup (q .. p) \subseteq free}

\* Pages are taken from the smallest run first, of those from the first.  What
\* is not free is behind the table, and goes on with the run at its end.
Before(free, p, q) ==
    LET size(r) == Cardinality(Run(free, IF r \in free THEN r ELSE Pages))
    IN  size(p) < size(q) \/ (size(p) = size(q) /\ p < q)

First(free, cells) == CHOOSE p \in cells : \A q \in cells \ {p} : Before(free, p, q)

\* BestMatch: the page where the best run of at least size pages starts, or 0
BestMatch(free, size) ==
    LET enough == {p \in free : p - 1 \notin free /\ Cardinality(Run(free, p)) >= size}
    IN  IF enough = {} THEN 0 ELSE First(free, enough)

\* n pages one by one: each best match for one page is taken to its end, which
\* for the last run is the first cell in use after the table.  (A best match
\* of 0 would be "corruption during allocate".)
Scattered(h, n) ==
    LET behind == {p \in Pages + 1 .. Pages + Beyond : \A q \in Pages .. p : h[q] = 0}
        taken[i \in 1 .. n] ==
            First(Free(h), (Free(h) \cup behind) \ {taken[j] : j \in 1 .. i - 1})
    IN  taken

\* MEM_AllocatePages: the pages, none when the allocation fails
AllocatePages(h, n, sequence) ==
    IF n = 0 THEN <<>>
    ELSE IF sequence
    THEN LET first == BestMatch(Free(h), n) IN IF first = 0 THEN <<>> ELSE From(first, n)
    ELSE IF FreeTotal(h) < n THEN <<>> ELSE Scattered(h, n)

\* The n pages that follow page last are free.
Room(h, last, n) == \A i \in 1 .. n : last + i \in Free(h)

BadShrunk(h, s, n) ==
    IF n = Len(s) THEN h
    ELSE Linked(Released(h, SubSeq(s, n + 2, Len(s))), SubSeq(s, 1, n + 1))

Shrunk(h, s, n) == Linked(Released(h, SubSeq(s, n + 1, Len(s))), SubSeq(s, 1, n))

\* A block of pages s moves to the pages t
Moved(h, s, t) == Released(Linked(h, t), s)

\* What MEM_ReAllocatePages returns, the table and the first page of the block
Outcome(ok, h, mem) == [ok |-> ok, h |-> h, mem |-> mem]

ReAllocatePages(h, mem, n, sequence) ==
    LET s == Chain(h, mem)
        need == n - Len(s)
        fresh == AllocatePages(h, IF sequence THEN n ELSE need, sequence)
        keep == Outcome(FALSE, h, mem)
    IN  CASE s = <<>> /\ n = 0 -> Outcome(TRUE, h, mem)
          [] s = <<>> /\ n > 0 ->
                 LET t == AllocatePages(h, n, sequence)
                 IN  IF t = <<>> THEN Outcome(FALSE, h, 0) ELSE Outcome(TRUE, Linked(h, t), t[1])
          [] s # <<>> /\ n = 0 -> Outcome(TRUE, Released(h, s), -1)
          [] s # <<>> /\ n > 0 /\ need <= 0 -> Outcome(TRUE, Shrunk(h, s, n), mem)
          [] s # <<>> /\ need > 0 /\ sequence /\ Room(h, Last(s), need) ->
                 Outcome(TRUE, Linked(h, s \o From(Last(s) + 1, need)), mem)
          [] s # <<>> /\ need > 0 /\ sequence /\ ~Room(h, Last(s), need) ->
                 IF fresh = <<>> THEN keep ELSE Outcome(TRUE, Moved(h, s, fresh), fresh[1])
          [] s # <<>> /\ need > 0 /\ ~sequence ->
                 IF fresh = <<>> THEN keep ELSE Outcome(TRUE, Linked(h, s \o fresh), mem)

---------------------------------------------------------------------------
(* XMS: size in kB, pages of 4 kB *)

Needed(kb) == (kb + 3) \div 4

FreeXms == {i \in 1 .. XmsBlocks : xms[i].free}
FreeBlock == [size |-> 0, mem |-> -1, locked |-> 0, free |-> TRUE]

\* XMS_AllocateMemory.  A block of no size takes the next free page as its
\* place and does not allocate it.
XmsAllocate(kb) ==
    /\ FreeXms # {}
    /\ LET s == AllocatePages(mhandles, Needed(kb), TRUE)
           mem == IF kb = 0 THEN BestMatch(Free(mhandles), 1) ELSE s[1]
           block == [size |-> kb, mem |-> mem, locked |-> 0, free |-> FALSE]
       IN  /\ kb > 0 => s # <<>>
           /\ mhandles' = IF kb = 0 THEN mhandles ELSE Linked(mhandles, s)
           /\ xms' = [xms EXCEPT ![Min(FreeXms)] = block]
    /\ UNCHANGED <<ems, vcpi, exited>>

XmsFree(i) ==
    /\ ~xms[i].free
    /\ mhandles' = Released(mhandles, Chain(mhandles, xms[i].mem))
    /\ xms' = [xms EXCEPT ![i] = [FreeBlock EXCEPT !.locked = xms[i].locked]]
    /\ UNCHANGED <<ems, vcpi, exited>>

XmsLock(i) ==
    /\ ~xms[i].free /\ xms[i].locked < LockMax
    /\ xms' = [xms EXCEPT ![i].locked = @ + 1]
    /\ UNCHANGED <<mhandles, ems, vcpi, exited>>

XmsUnlock(i) ==
    /\ ~xms[i].free /\ xms[i].locked > 0
    /\ xms' = [xms EXCEPT ![i].locked = @ - 1]
    /\ UNCHANGED <<mhandles, ems, vcpi, exited>>

BadXmsResize(i, kb) ==
    /\ ~xms[i].free
    /\ \E r \in {ReAllocatePages(mhandles, xms[i].mem, Needed(kb), TRUE)} :
           /\ mhandles' = r.h
           /\ xms' = [xms EXCEPT ![i].mem = r.mem, ![i].size = IF r.ok THEN kb ELSE @]
    /\ UNCHANGED <<ems, vcpi, exited>>

\* XMS_ResizeMemory
XmsResize(i, kb) ==
    /\ ~xms[i].free /\ xms[i].locked = 0
    /\ \E r \in {ReAllocatePages(mhandles, xms[i].mem, Needed(kb), TRUE)} :
           /\ mhandles' = r.h
           /\ xms' = [xms EXCEPT ![i].mem = r.mem, ![i].size = IF r.ok THEN kb ELSE @]
    /\ UNCHANGED <<ems, vcpi, exited>>

---------------------------------------------------------------------------
(* EMS: handle 0 belongs to the system *)

FreeEms == {i \in 1 .. EmsHandles : ems[i].pages = NULL_HANDLE}

\* EMM_AllocateMemory asks for enough free EMS pages.
Enough(n) == FreeTotal(mhandles) \div EmsPage >= n

\* EMM_AllocateMemory; function 5A allocates handles of no pages too.
EmsAllocate(n) ==
    /\ Enough(n) /\ FreeEms # {}
    /\ \E s \in {AllocatePages(mhandles, n * EmsPage, FALSE)} :
           \/ /\ n = 0 \/ s # <<>>
              /\ mhandles' = IF n = 0 THEN mhandles ELSE Linked(mhandles, s)
              /\ ems' = [ems EXCEPT ![Min(FreeEms)] =
                            [pages |-> n, mem |-> IF n = 0 THEN 0 ELSE s[1]]]
              /\ UNCHANGED exited
           \/ /\ n > 0 /\ s = <<>>
              /\ exited' = "allocation"
              /\ UNCHANGED <<mhandles, ems>>
    /\ UNCHANGED <<xms, vcpi>>

\* EMM_ReallocatePages of a handle that has pages
EmsReallocate(i, n) ==
    /\ ems[i].pages > 0
    /\ \E r \in {ReAllocatePages(mhandles, ems[i].mem, n * EmsPage, FALSE)} :
           r.ok /\ mhandles' = r.h /\ ems' = [ems EXCEPT ![i] = [pages |-> n, mem |-> r.mem]]
    /\ UNCHANGED <<xms, vcpi, exited>>

\* EMM_ReallocatePages of a handle without pages; the program exits when the
\* allocation fails, and no pages are a failure.
EmsReallocateEmpty(i, n) ==
    /\ ems[i].pages = 0
    /\ \E s \in {AllocatePages(mhandles, n * EmsPage, FALSE)} :
           IF s = <<>>
           THEN exited' = "reallocation" /\ UNCHANGED <<mhandles, ems>>
           ELSE /\ mhandles' = Linked(mhandles, s)
                /\ ems' = [ems EXCEPT ![i] = [pages |-> n, mem |-> s[1]]]
                /\ UNCHANGED exited
    /\ UNCHANGED <<xms, vcpi>>

\* EMM_ReleaseMemory; the system handle stays with no pages.
EmsRelease(i) ==
    /\ ems[i].pages # NULL_HANDLE
    /\ mhandles' = IF ems[i].pages # 0 THEN Released(mhandles, Chain(mhandles, ems[i].mem))
                   ELSE mhandles
    /\ ems' = [ems EXCEPT ![i] = [pages |-> IF i = 0 THEN 0 ELSE NULL_HANDLE, mem |-> 0]]
    /\ UNCHANGED <<xms, vcpi, exited>>

\* VCPI functions 4 and 5; the guest frees only what it was given.
VcpiAllocate ==
    /\ Cardinality(vcpi) < VcpiMax
    /\ LET s == AllocatePages(mhandles, 1, FALSE)
       IN  s # <<>> /\ mhandles' = Linked(mhandles, s) /\ vcpi' = vcpi \cup {s[1]}
    /\ UNCHANGED <<xms, ems, exited>>

VcpiFree(p) ==
    /\ mhandles' = Released(mhandles, Chain(mhandles, p))
    /\ vcpi' = vcpi \ {p}
    /\ UNCHANGED <<xms, ems, exited>>

---------------------------------------------------------------------------

\* The tables are empty but for the system handle (EMM_AllocateSystemHandle),
\* and the cells after the page table hold anything.
Init ==
    /\ \E more \in [Pages + 1 .. Pages + Beyond -> {0, -1}] :
           LET h == [p \in Cells |-> IF p \in DOMAIN more THEN more[p]
                                     ELSE IF p = Pages + Beyond + 1 THEN -1 ELSE 0]
               s == AllocatePages(h, SystemPages * EmsPage, FALSE)
           IN  /\ s # <<>>
               /\ mhandles = Linked(h, s)
               /\ ems = [i \in 0 .. EmsHandles |->
                            IF i = 0 THEN [pages |-> SystemPages, mem |-> s[1]]
                            ELSE [pages |-> NULL_HANDLE, mem |-> 0]]
    /\ xms = [i \in 1 .. XmsBlocks |-> FreeBlock]
    /\ vcpi = {} /\ exited = "no"

Xms ==
    \/ \E kb \in XmsSizes : XmsAllocate(kb)
    \/ \E i \in 1 .. XmsBlocks :
           \/ XmsFree(i) \/ XmsLock(i) \/ XmsUnlock(i)
           \/ \E kb \in XmsResizes : XmsResize(i, kb)

Ems ==
    \/ \E n \in EmsSizes : EmsAllocate(n)
    \/ \E i \in 0 .. EmsHandles :
           \/ EmsRelease(i)
           \/ \E n \in EmsSizes : EmsReallocate(i, n) \/ EmsReallocateEmpty(i, n)
    \/ VcpiAllocate
    \/ \E p \in vcpi : VcpiFree(p)

Next == exited = "no" /\ (Xms \/ Ems)

Spec == Init /\ [][Next]_vars

---------------------------------------------------------------------------
(* Properties *)

XmsChain(i) == Chain(mhandles, xms[i].mem)
EmsChain(i) == Chain(mhandles, ems[i].mem)

\* The blocks of pages in use, with their holders
Blocks ==
    {<<<<"xms", i>>, XmsChain(i)>> : i \in 1 .. XmsBlocks}
    \cup {<<<<"ems", i>>, EmsChain(i)>> : i \in 0 .. EmsHandles}
    \cup {<<<<"vcpi", p>>, Chain(mhandles, p)>> : p \in vcpi}

\* The state variables keep their types.
TypeOK ==
    /\ mhandles \in [Cells -> -1 .. Pages + Beyond]
    /\ xms \in [1 .. XmsBlocks -> [size : Nat, mem : -1 .. Pages, locked : 0 .. LockMax,
                                   free : BOOLEAN]]
    /\ ems \in [0 .. EmsHandles -> [pages : Nat \cup {NULL_HANDLE}, mem : -1 .. Pages + Beyond]]
    /\ vcpi \subseteq Cells /\ exited \in {"no", "allocation", "reallocation"}

\* No page belongs to two blocks or twice to one, whatever XMS, EMS and VCPI
\* calls allocate, resize and release in between.
Disjoint ==
    LET blocks == Blocks
    IN  \A b, c \in blocks :
            /\ Cardinality(Range(b[2])) = Len(b[2])
            /\ b # c => Range(b[2]) \cap Range(c[2]) = {}

\* A page that no block holds is free: resizing and releasing lose none.
NoLeak ==
    {p \in 1 .. Pages : mhandles[p] # 0} \subseteq UNION {Range(b[2]) : b \in Blocks}

\* Every page in use has one holder.
PagesOwned == TypeOK /\ Disjoint /\ NoLeak

\* A block has the pages that its size promises: XMS moves up to size kB from
\* the first page on, EMS maps any of its pages.  Those of an XMS block follow
\* each other and exist, since moves and the address that a lock returns use
\* only the first one.  And what was found to be free can be allocated:
\* EMM_AllocateMemory never exits with "EMS:Memory allocation failure".  (The
\* program may exit when a handle of no pages is reallocated.)
RightSize ==
    /\ exited # "allocation"
    /\ \A i \in 1 .. XmsBlocks :
           LET s == XmsChain(i)
           IN  /\ Len(s) = Needed(xms[i].size)
               /\ s # <<>> => s = From(xms[i].mem, Len(s)) /\ Last(s) <= Pages
    /\ \A i \in 0 .. EmsHandles : Len(EmsChain(i)) = Max({0, ems[i].pages}) * EmsPage

\* The pages of a locked XMS block do not change until it is unlocked or freed.
LockedStay ==
    [][\A i \in 1 .. XmsBlocks : xms[i].locked > 0 /\ ~xms[i].free /\ ~xms'[i].free
          => /\ xms'[i].mem = xms[i].mem
             /\ \A p \in Range(XmsChain(i)) : mhandles'[p] = mhandles[p]]_vars
=============================================================================
