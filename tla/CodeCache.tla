----------------------------- MODULE CodeCache -----------------------------
(***************************************************************************)
(* The cache of translated code of the recompiling core, from              *)
(* src/cpu/core_dynrec/cache.h, its decoder and the loop of                *)
(* core_dynrec.cpp; the core for x86 hosts (core_dyn_x86) has the same.    *)
(*                                                                         *)
(* A block is translated from the bytes of one page of memory, or of two   *)
(* when an instruction goes on behind the end of the first: then a second  *)
(* header, the cross block, stands for the part in the next page.  While a *)
(* page holds translated code a handler of the cache's own receives the    *)
(* writes to it.  What matters of the code is where it was translated from *)
(* and whether the memory still holds that; both are ghosts here.          *)
(*                                                                         *)
(* A hash bucket holds one byte here, sixteen in the code, and accesses are*)
(* bytes.  Left out are paging and ROM, the map that keeps the decoder away*)
(* from bytes that are often modified, and programs that run out of        *)
(* headers, which end the emulator.                                        *)
(***************************************************************************)
EXTENDS Integers, SequencesExt, Lists

CONSTANTS
    Headers,      \* the cache blocks, 1 .. CACHE_BLOCKS
    Handlers,     \* the code page handlers, 1 .. CACHE_PAGES
    Links,        \* the exits of a block that can be linked, 0 and 1
    Pages,        \* the pages of memory, 0 .. n
    PageSize,     \* 4096
    Jumps,        \* the addresses that the program jumps to
    ActiveCount,  \* 16: the writes after which an empty code page is given up
    Total, MaxSize, Align,  \* CACHE_TOTAL, CACHE_MAXSIZE and CACHE_ALIGN
    LastStart,    \* where a block may start last
    Written,      \* the sizes of translated code
    Lengths,      \* the bytes that a block is translated from
    OwnWrites     \* how a running block modifies itself, beside what is found

ASSUME PoolsAssumption ==
    /\ Headers \subseteq Nat \ {0} /\ 1 \in Headers /\ IsFiniteSet(Headers)
    /\ Handlers \subseteq Nat \ {0} /\ IsFiniteSet(Handlers) /\ Cardinality(Handlers) > 1
    /\ Jumps \subseteq Pages \X (0 .. PageSize - 1)
    /\ Pages \subseteq Nat /\ PageSize \in Nat \ {0} /\ ActiveCount \in Nat \ {0}
ASSUME SizesAssumption ==
    /\ Total \in Nat \ {0} /\ MaxSize \in Nat \ {0} /\ Align \in Nat \ {0}
    /\ LastStart \in 0 .. Total - MaxSize
    /\ Written \subseteq 1 .. MaxSize /\ Lengths \subseteq 1 .. PageSize
ASSUME OwnWritesAssumption == OwnWrites \subseteq {"cross", "unchecked"}

\* The fields of cc: h, the headers; chain, those that tile the memory of the
\* cache, in order, with the place of cache.block.active; free, the unused ones;
\* pages, the handlers, in use in the order used, else in freePages; code,
\* decode.page.code; running, the block that runs, if one does.
VARIABLE cc

None == 0  \* no header, handler or target; a link to None leads to link_blocks
Offsets == 0 .. PageSize - 1
Addresses == Pages \X Offsets

\* from stands for the list of the blocks that link here, from and their next
NoLink == [to |-> None, from |-> {}, target |-> <<>>]

\* page, start, end and index say where a block is translated from (index is
\* hash.index, 0 for a cross block); other is crossblock; at and size, its memory
\* in the cache (cache.start, cache.size).  code and fresh are the ghosts.
Blank == [page |-> None, start |-> 0, end |-> 0, index |-> 0, other |-> None,
          at |-> 0, size |-> 0, link |-> [i \in Links |-> NoLink], code |-> {}, fresh |-> TRUE]

NewPage(p) == [phys |-> p, blocks |-> 0, count |-> ActiveCount, map |-> [o \in Offsets |-> 0]]

Header(c, b, f, v) == [c EXCEPT !.h[b] = [@ EXCEPT ![f] = v]]

---------------------------------------------------------------------------
(* Links and clearing *)

LinkTo(c, b, i, to) ==
    LET target == <<c.pages[c.h[to].page].phys, c.h[to].start>>
        h == [c.h EXCEPT ![b].link[i] = [@ EXCEPT !.to = to, !.target = target]]
    IN  [c EXCEPT !.h = [h EXCEPT ![to].link[i].from = @ \cup {b}]]

\* The operators named Bad... are plausible defects: a property is worth having
\* when it fails once one of them replaces the definition below it.
BadUnlinked(c, b) ==
    LET new(x, i) ==
            LET l == c.h[x].link[i]
            IN  CASE x = b                     -> [l EXCEPT !.from = {}]
                  [] x = c.h[b].link[i].to     -> [l EXCEPT !.from = @ \ {b}]
                  [] OTHER                     -> l
    IN  [c EXCEPT !.h = [x \in Headers |-> [c.h[x] EXCEPT !.link = [i \in Links |-> new(x, i)]]]]

\* The blocks that link to b return to the core again, and b leaves the list of
\* the block that it links to
Unlinked(c, b) ==
    LET new(x, i) ==
            LET l == c.h[x].link[i]
                kept == CASE x = b                 -> {}
                          [] x = c.h[b].link[i].to -> l.from \ {b}
                          [] OTHER                 -> l.from
            IN  IF x \in c.h[b].link[i].from THEN [NoLink EXCEPT !.from = kept]
                ELSE [l EXCEPT !.from = kept]
    IN  [c EXCEPT !.h = [x \in Headers |-> [c.h[x] EXCEPT !.link = [i \in Links |-> new(x, i)]]]]

BadDelCacheBlock(c, b) ==
    LET hd == c.h[b]
        p == c.pages[hd.page]
        map == [o \in Offsets |->
                   IF o \in hd.start .. hd.end - 1 /\ p.map[o] > 0 THEN p.map[o] - 1 ELSE p.map[o]]
        left == [p EXCEPT !.blocks = @ - 1, !.count = ActiveCount, !.map = map]
    IN  [Header(c, b, "page", None) EXCEPT !.pages[hd.page] = left]

DelCacheBlock(c, b) ==
    LET hd == c.h[b]
        p == c.pages[hd.page]
        map == [o \in Offsets |->
                   IF o \in hd.start .. hd.end /\ p.map[o] > 0 THEN p.map[o] - 1 ELSE p.map[o]]
        left == [p EXCEPT !.blocks = @ - 1, !.count = ActiveCount, !.map = map]
    IN  [Header(c, b, "page", None) EXCEPT !.pages[hd.page] = left]

\* Clear without its call for the other part.  What is left in the header is of
\* use to nobody, unless it runs, and is forgotten at once.
ClearPart(c, b) ==
    LET c1 == IF c.h[b].index > 0 THEN Unlinked(c, b) ELSE [c EXCEPT !.free = @ \cup {b}]
        c2 == IF c.h[b].page = None THEN c1 ELSE DelCacheBlock(c1, b)
        rest == IF b = c.running THEN c2.h[b] ELSE Blank
    IN  [c2 EXCEPT !.h[b] = [rest EXCEPT !.other = None, !.at = c.h[b].at, !.size = c.h[b].size]]

Clear(c, b) ==
    LET other == c.h[b].other
    IN  ClearPart(IF other = None THEN c ELSE ClearPart(c, other), b)

\* The blocks s are cleared, one after the other
Cleared(c, s) == Iterated(Clear, c, s)

---------------------------------------------------------------------------
(* Code pages *)

Used(c) == ToSet(c.used)
HandlerOf(c, p) == CHOOSE g \in Used(c) : c.pages[g].phys = p
IsCode(c, p) == \E g \in Used(c) : c.pages[g].phys = p
Blocks(c, g) == {b \in Headers : c.h[b].page = g}

Release(c, g) ==
    [c EXCEPT !.used = Selection(@, {i \in DOMAIN @ : @[i] # g}),
              !.freePages = <<g>> \o @, !.pages[g] = NewPage(0)]

\* The code does not count the blocks of the page itself down: that page is
\* set up anew (SetupAt) before it is used again.
ClearRelease(c, g) == Release(Cleared(c, SetToSeq(Blocks(c, g))), g)

\* MakeCodePage: another page than the one being translated gives way
MakePage(c, p) ==
    LET victim == IF c.used[1] = c.code /\ Len(c.used) > 1 THEN c.used[2] ELSE c.used[1]
        c1 == IF c.freePages # <<>> THEN c ELSE ClearRelease(c, victim)
        g == Head(c1.freePages)
    IN  IF IsCode(c, p) THEN c
        ELSE [c1 EXCEPT !.freePages = Tail(@), !.used = Append(@, g), !.pages[g] = NewPage(p)]

FindBlocks(c, addr) ==
    {b \in Headers : /\ IsCode(c, addr[1]) /\ c.h[b].page = HandlerOf(c, addr[1])
                     /\ c.h[b].index = addr[2] + 1}

---------------------------------------------------------------------------
(* Translating *)

\* cache_openblock: the headers that follow are taken until there is room for
\* the largest block
Open(c) ==
    LET taken(k) == c.chain[c.active + k]
        last == Len(c.chain) - c.active
        size[k \in 0 .. last] == c.h[taken(k)].size + IF k = 0 THEN 0 ELSE size[k - 1]
        n == Min({last} \cup {k \in 0 .. last : size[k] >= MaxSize})
        live == {i \in c.active .. c.active + n : c.h[c.chain[i]].page # None}
        c1 == Cleared(c, Selection(c.chain, live))
        dropped == {taken(k) : k \in 1 .. n}
    IN  [c1 EXCEPT
            !.chain = SubSeq(@, 1, c.active) \o SubSeq(@, c.active + n + 1, Len(@)),
            !.free = @ \cup dropped,
            !.h = [b \in Headers |-> IF b \in dropped THEN Blank
                                    ELSE IF b = taken(0) THEN [@[b] EXCEPT !.size = size[n]]
                                    ELSE @[b]]]

\* cache_closeblock: what is left of the memory becomes a block of its own.  The
\* next one is translated behind this one, or at the start of the cache.
Close(c, written) ==
    LET b == c.chain[c.active]
        left == c.h[b].size - written
        size == (((written - 1) \div Align) + 1) * Align
        new == Min(c.free)
        rest == [Blank EXCEPT !.at = c.h[b].at + size, !.size = c.h[b].size - size]
        c1 == Header(c, b, "link", [i \in Links |-> NoLink])
        split == [Header(c1, b, "size", size) EXCEPT
                     !.h[new] = rest, !.free = @ \ {new},
                     !.chain = InsertAt(@, c.active + 1, new)]
        c2 == IF left > Align THEN split ELSE c1
        full == c2.active = Len(c2.chain) \/ c2.h[c2.chain[c2.active + 1]].at > LastStart
    IN  [c2 EXCEPT !.active = IF full THEN 1 ELSE @ + 1]

\* Part of a block m: the bytes of one page.  The map counts each of them.
Part(c, b, m, g, start, len, index) ==
    LET at == start .. start + len - 1
        hd == [c.h[b] EXCEPT !.page = g, !.start = start, !.end = start + len - 1, !.index = index]
        counted == [o \in Offsets |-> c.pages[g].map[o] + IF o \in at THEN 1 ELSE 0]
        p == [c.pages[g] EXCEPT !.blocks = @ + 1, !.map = counted]
        h == [c.h EXCEPT ![b] = hd]
    IN  [c EXCEPT !.h = [h EXCEPT ![m].code = @ \cup ({p.phys} \X at)],
                  !.pages[g] = p, !.code = g]

\* The part behind the end of the page, in a header of its own
Crossed(c, b, p, len) ==
    LET c1 == MakePage(c, p)
        x == Min(c1.free)
        taken == [c1 EXCEPT !.free = @ \ {x}, !.h[x] = [Blank EXCEPT !.other = b]]
        c2 == Header(taken, b, "other", x)
    IN  Part(c2, x, b, HandlerOf(c2, p), 0, len, 0)

\* CreateCacheBlock for code at addr, in a page that is a code page
Create(c, addr, len, written) ==
    LET c1 == Open(c)
        b == c1.chain[c1.active]
        here == IF addr[2] + len <= PageSize THEN len ELSE PageSize - addr[2]
        new == Header(Header(c1, b, "code", {}), b, "fresh", TRUE)
        c2 == Part(new, b, b, HandlerOf(c, addr[1]), addr[2], here, addr[2] + 1)
        c3 == IF here = len THEN c2 ELSE Crossed(c2, b, addr[1] + 1, len - here)
    IN  Close(c3, written)

---------------------------------------------------------------------------
(* The loop of the core *)

CacheInit ==
    cc = [h |-> [b \in Headers |-> IF b = 1 THEN [Blank EXCEPT !.size = Total] ELSE Blank],
          chain |-> <<1>>, active |-> 1, free |-> Headers \ {1},
          pages |-> [g \in Handlers |-> NewPage(0)],
          used |-> <<>>, freePages |-> SetToSeq(Handlers), code |-> None, running |-> None]

\* The core finds the block for CS:EIP, or has it translated, and runs it
Dispatch ==
    /\ cc.running = None
    /\ \E addr \in Jumps : \E c \in {MakePage(cc, addr[1])} :
          \/ \E b \in FindBlocks(c, addr) : cc' = [c EXCEPT !.running = b]
          \/ /\ FindBlocks(c, addr) = {} /\ Cardinality(c.free) > 1
             /\ \E len \in Lengths, written \in Written :
                   /\ addr[2] + len <= PageSize \/ addr[1] + 1 \in Pages
                   /\ \E new \in {Create(c, addr, len, written)} :
                         cc' = [new EXCEPT !.running = c.chain[c.active]]

\* The block ends at an exit that is linked: the code jumps.  Otherwise the core
\* looks for the block to go on with, LinkBlocks.
Jump ==
    /\ cc.running # None
    /\ \E i \in Links :
          LET to == cc.h[cc.running].link[i].to
          IN  IF to # None THEN cc' = [cc EXCEPT !.running = to]
              ELSE \E addr \in Jumps : \E b \in FindBlocks(cc, addr) :
                      cc' = [LinkTo(cc, cc.running, i, b) EXCEPT !.running = b]

\* The block returns to the core: an exit that cannot be linked, a callback, no
\* cycles left or an instruction for the interpreter
Leave == cc.running # None /\ cc' = [cc EXCEPT !.running = None]

---------------------------------------------------------------------------
(* Writes to memory *)

Modified(c, addr) ==
    [c EXCEPT !.h = [b \in Headers |-> [c.h[b] EXCEPT !.fresh = @ /\ addr \notin c.h[b].code]]]

Hit(c, g, o, index) ==
    {b \in Blocks(c, g) : c.h[b].index = index /\ o \in c.h[b].start .. c.h[b].end}

BadInvalidated(c, g, o) ==
    LET after[k \in 0 .. o + 1] ==
            IF k = 0 THEN c
            ELSE IF after[k - 1].pages[g].map[o] = 0 THEN after[k - 1]
            ELSE Cleared(after[k - 1], SetToSeq(Hit(after[k - 1], g, o, o + 2 - k)))
    IN  after[o + 1]

\* InvalidateRange: the blocks of the byte are cleared, bucket by bucket, until
\* the map says that there are no more
Invalidated(c, g, o) ==
    LET after[k \in 0 .. o + 2] ==
            IF k = 0 THEN c
            ELSE IF after[k - 1].pages[g].map[o] = 0 THEN after[k - 1]
            ELSE Cleared(after[k - 1], SetToSeq(Hit(after[k - 1], g, o, o + 2 - k)))
    IN  after[o + 2]

\* Whether InvalidateRange finds the running block, by EIP, which is its start
IsCurrent(c, addr) ==
    LET run == c.h[c.running]
    IN  \E b \in Blocks(c, HandlerOf(c, addr[1])) :
            /\ addr[2] \in c.h[b].start .. c.h[b].end
            /\ run.page = c.h[b].page /\ run.start \in c.h[b].start .. c.h[b].end

\* A write to a byte of a code page that no block was translated from
Unhit(c, g) ==
    IF c.pages[g].blocks > 0 THEN c
    ELSE LET c1 == [c EXCEPT !.pages[g].count = @ - 1]
         IN  IF c1.pages[g].count = 0 THEN Release(c1, g) ELSE c1

\* What becomes of the code when the byte at addr changes
Noticed(c, addr) ==
    LET g == HandlerOf(c, addr[1])
    IN  CASE ~IsCode(c, addr[1]) -> c
          [] IsCode(c, addr[1]) /\ c.pages[g].map[addr[2]] = 0 -> Unhit(c, g)
          [] OTHER -> Invalidated(c, g, addr[2])

Own(c, addr) == c.running # None /\ addr \in c.h[c.running].code

\* writeb_checked, which a running block calls: a write to the block itself does
\* not happen, and the block returns to the core, which has the instruction
\* interpreted
WriteChecked ==
    /\ cc.running # None
    /\ \E addr \in Addresses : \E c \in {Noticed(cc, addr)} :
          \/ IsCode(cc, addr[1]) /\ IsCurrent(cc, addr) /\ cc' = [c EXCEPT !.running = None]
          \/ /\ ~(IsCode(cc, addr[1]) /\ IsCurrent(cc, addr))
             /\ Own(cc, addr) => "cross" \in OwnWrites
             /\ cc' = Modified(c, addr)

\* writeb: the interpreter, a device, or a block that stores without the check
Write ==
    \E addr \in Addresses :
        /\ Own(cc, addr) => "unchecked" \in OwnWrites
        /\ \E c \in {Noticed(cc, addr)} : cc' = Modified(c, addr)

CacheNext == Dispatch \/ Jump \/ Leave \/ WriteChecked \/ Write

CacheSpec == CacheInit /\ [][CacheNext]_cc

---------------------------------------------------------------------------
(* Properties *)

Live(b) == cc.h[b].page # None
Crossing(b) == Live(b) /\ cc.h[b].index = 0

\* Every header is in one place: it tiles the memory of the cache, stands for
\* the second part of a block, or is free; and the next block will have room
HeadersPlaced ==
    /\ IsInjective(cc.chain)
    /\ \A b \in Headers :
          Cardinality({p \in {"chain", "cross", "free"} :
                          CASE p = "chain" -> b \in ToSet(cc.chain)
                            [] p = "cross" -> Crossing(b)
                            [] p = "free" -> b \in cc.free}) = 1
    /\ \A i \in DOMAIN cc.chain :
          LET b == cc.h[cc.chain[i]]
          IN  /\ i = 1 => b.at = 0
              /\ b.at + b.size = IF i = Len(cc.chain) THEN Total ELSE cc.h[cc.chain[i + 1]].at
              /\ i = cc.active => b.at + MaxSize <= Total

\* The counters of a page agree with the blocks that are translated from it
PagesCount ==
    /\ \A b \in Headers : Live(b) => cc.h[b].page \in Used(cc)
    /\ \A g \in Used(cc) :
          /\ cc.pages[g].blocks = Cardinality(Blocks(cc, g))
          /\ \A o \in Offsets :
                cc.pages[g].map[o] =
                    Cardinality({b \in Blocks(cc, g) : o \in cc.h[b].start .. cc.h[b].end})

\* No header of translated code is lost or in two places, and the counters by
\* which a write decides whether there is code at a byte are those of the blocks
\* (cache_openblock, cache_closeblock, AddCacheBlock, DelCacheBlock).
CacheOK == HeadersPlaced /\ PagesCount

\* A block that can run and is linked jumps to a block that can run and that was
\* translated from the address it was linked for; the block knows of the link,
\* so that it is undone when the block is cleared, and of no others (LinkTo,
\* Clear).
LinksLead ==
    \A b \in Headers, i \in Links :
        LET l == cc.h[b].link[i]
            leads(x, to) == /\ Live(to) /\ cc.h[to].index > 0 /\ x \in cc.h[to].link[i].from
                            /\ cc.h[x].link[i].target =
                                   <<cc.pages[cc.h[to].page].phys, cc.h[to].start>>
        IN  Live(b) /\ cc.h[b].index > 0 =>
                /\ l.to # None => leads(b, l.to)
                /\ \A x \in l.from : Live(x) /\ cc.h[x].link[i].to = b

\* The code that runs, or that a jump can lead to, was translated from what the
\* memory holds, whoever modified it and in whatever order (InvalidateRange).
RunsFresh ==
    /\ cc.running # None => Live(cc.running) /\ cc.h[cc.running].fresh
    /\ \A b \in Headers : Live(b) => cc.h[b].fresh
=============================================================================
