----------------------------- MODULE DosMemory -----------------------------
(***************************************************************************)
(* The DOS memory allocator of src/dos/dos_memory.cpp: the chain of memory *)
(* control blocks (MCBs) in conventional memory and its continuation in    *)
(* the upper memory blocks (UMBs), which can be linked to it or not.       *)
(*                                                                         *)
(* mcb maps each segment that holds a live control block to its fields; a  *)
(* block of size n at s is the paragraphs s+1 .. s+n, and the next control *)
(* block is at s+n+1.  last is type 'Z', the end of a chain.  Control      *)
(* blocks that a merge left behind in free memory are forgotten, and a     *)
(* process frees and resizes only blocks that it owns: what stale segments *)
(* do to the chain is not modelled.  Nor are the file names in the blocks, *)
(* the memory map of the PCjr and machines without UMBs.                   *)
(*                                                                         *)
(* Processes come and go as dos_execute.cpp runs and ends them; dos.psp()  *)
(* is the variable psp.                                                    *)
(***************************************************************************)
EXTENDS Integers, FiniteSetsExt

CONSTANTS
    Procs,     \* the processes
    Shell,     \* the one that never ends
    SmallSize, \* the free block below the locked one, 4 in the code
    LowSize,   \* the free conventional memory
    UmbSize,   \* the free upper memory
    Sizes,     \* the sizes that programs ask for
    Fits,      \* the search strategies that programs set: first, best or last
    Highs      \* where they search: bits 6 and 7 of the strategy

ASSUME SizeAssumption ==
    /\ SmallSize \in Nat /\ LowSize \in Nat /\ UmbSize \in Nat
    /\ Sizes \subseteq Nat
ASSUME StrategyAssumption ==
    /\ Fits \subseteq {"first", "best", "last"}
    /\ Highs \subseteq {"no", "only", "first"}

Free   == "free"     \* MCB_FREE
System == "system"   \* the locked block and the cover of the gap below the UMBs

\* No PSP is in segment 0, which is MCB_FREE, or in MCB_DOS, which is 8
ASSUME ProcsAssumption == Shell \in Procs /\ Procs \cap {Free, System} = {}

First    == 0
Locked   == SmallSize + 1
Low      == Locked + 1
UmbStart == Low + LowSize + 1
End      == UmbStart + UmbSize + 1

VARIABLES
    mcb,       \* the control blocks
    linked,    \* the UMB chain state of dos_infoblock
    strategy,  \* memAllocStrategy
    exited,    \* DOS_Execute has called E_Exit
    psp,       \* dos.psp()
    alive,     \* the processes that run or stay resident
    reply      \* what the last call returned, when it was a failed allocation

vars == <<mcb, linked, strategy, exited, psp, alive, reply>>

NoReply == [asked |-> -1, largest |-> -1]

Block(owner, size, last) == [owner |-> owner, size |-> size, last |-> last]

Strategies == [fit : Fits, high : Highs]

\* The size of an environment, and what DOS_Execute asks for to learn the largest block
EnvSize == 1

---------------------------------------------------------------------------
(* The chains of a set m of control blocks *)

Next1(m, s) == s + m[s].size + 1

\* The blocks that a walk from the block start reaches
Chain(m, start) ==
    {s \in DOMAIN m : start <= s /\ \A t \in DOMAIN m : start <= t /\ t < s => ~m[t].last}

Main(m)  == Chain(m, First)
Upper(m) == Chain(m, UmbStart)

IsFree(m, s) == m[s].owner = Free

\* The free blocks of the chain that follow s without a gap, s included
Run(m, chain, s) ==
    {t \in chain : s <= t /\ \A u \in chain : s <= u /\ u <= t => IsFree(m, u)}

\* The operators named Bad... are plausible defects: a property is worth
\* having when it fails once one of them replaces the definition below it.
BadCompressed(m) == m

\* DOS_CompressMemory, which walks the main chain only
Compressed(m) ==
    LET chain == Main(m)
        Absorbed(s) == /\ s \in chain /\ IsFree(m, s)
                       /\ \E p \in chain : Next1(m, p) = s /\ IsFree(m, p)
    IN  [s \in {t \in DOMAIN m : ~Absorbed(t)} |->
            IF s \in chain /\ IsFree(m, s)
            THEN LET end == Max(Run(m, chain, s))
                 IN  Block(Free, Next1(m, end) - s - 1, m[end].last)
            ELSE m[s]]

\* The block s is cut into one of size n and the rest behind it
SplitFront(m, s, n) ==
    [t \in DOMAIN m \cup {s + n + 1} |->
        IF t = s THEN Block(psp, n, FALSE)
        ELSE IF t = s + n + 1 THEN Block(Free, m[s].size - n - 1, m[s].last)
        ELSE m[t]]

BadSplitBack(m, s, n) ==
    LET b == s + m[s].size - n
    IN  [t \in DOMAIN m \cup {b} |->
            IF t = s THEN Block(Free, m[s].size - n - 1, m[s].last)
            ELSE IF t = b THEN Block(psp, n, m[s].last)
            ELSE m[t]]

SplitBack(m, s, n) ==
    LET b == s + m[s].size - n
    IN  [t \in DOMAIN m \cup {b} |->
            IF t = s THEN Block(Free, m[s].size - n - 1, FALSE)
            ELSE IF t = b THEN Block(psp, n, m[s].last)
            ELSE m[t]]

---------------------------------------------------------------------------
(* DOS_AllocateMemory *)

\* The chains it walks, one after the other
Passes(m) ==
    CASE strategy.high = "no"    -> <<Main(m)>>
      [] strategy.high = "only"  -> <<Upper(m)>>
      [] strategy.high = "first" -> <<Upper(m), Main(m)>>

Searched(m) == UNION {Passes(m)[i] : i \in DOMAIN Passes(m)}

Fitting(m, n) == {s \in Searched(m) : IsFree(m, s) /\ m[s].size >= n}

\* The walk meets s on pass i not after t on pass j
NotAfter(i, s, j, t) == i < j \/ (i = j /\ s <= t)

\* What the search settles on: the first fitting block, the first of the
\* smallest, or the last
Chosen(m, n, s) ==
    \E i \in DOMAIN Passes(m) :
        /\ s \in Passes(m)[i] \cap Fitting(m, n)
        /\ \A j \in DOMAIN Passes(m) : \A t \in Passes(m)[j] \cap Fitting(m, n) :
               CASE strategy.fit = "first" -> NotAfter(i, s, j, t)
                 [] strategy.fit = "best"  ->
                        \/ m[s].size < m[t].size
                        \/ m[s].size = m[t].size /\ NotAfter(i, s, j, t)
                 [] strategy.fit = "last"  -> NotAfter(j, t, i, s)

Placed(m, s, n) ==
    IF m[s].size = n THEN [m EXCEPT ![s].owner = psp]
    ELSE IF strategy.fit = "last" THEN SplitBack(m, s, n)
    ELSE SplitFront(m, s, n)

\* The control block of what is cut from the block s
Given(m, s, n) == IF strategy.fit = "last" THEN s + m[s].size - n ELSE s

Largest(m) == Max({0} \cup {m[s].size : s \in {t \in Searched(m) : IsFree(m, t)}})

AllocateMemory(n) ==
    LET m == Compressed(mcb)
    IN  /\ \/ /\ \E s \in Fitting(m, n) : Chosen(m, n, s) /\ mcb' = Placed(m, s, n)
              /\ reply' = NoReply
           \/ /\ Fitting(m, n) = {} /\ mcb' = m
              /\ reply' = [asked |-> n, largest |-> Largest(m)]
        /\ UNCHANGED <<linked, strategy, exited, psp, alive>>

---------------------------------------------------------------------------
(* DOS_Execute of a program that needs min paragraphs and can use max: its  *)
(* environment, then as much memory as there is, both given to the process *)

LoadProgram(m, e, p, min, max) ==
    LET m1    == Compressed(Placed(m, e, EnvSize))
        env   == Given(m, e, EnvSize)
        size  == IF Largest(m1) < max THEN Largest(m1) ELSE max
    IN  \/ /\ Largest(m1) < min
           /\ mcb' = [m1 EXCEPT ![env].owner = Free]
           /\ UNCHANGED <<exited, psp, alive>>
        \/ /\ Largest(m1) >= min
           /\ exited' = (Fitting(m1, size) = {})
           /\ mcb' \in {[Placed(m1, s, size) EXCEPT
                            ![env].owner = p, ![Given(m1, s, size)].owner = p] :
                        s \in {t \in Fitting(m1, size) : Chosen(m1, size, t)}}
                       \cup (IF exited' THEN {m1} ELSE {})
           /\ psp' = p /\ alive' = alive \cup {p}

Execute(p, min, max) ==
    LET m == Compressed(mcb)
    IN  /\ p \notin alive
        /\ \/ /\ Fitting(m, EnvSize) = {} /\ mcb' = m
              /\ UNCHANGED <<exited, psp, alive>>
           \/ \E e \in Fitting(m, EnvSize) :
                 Chosen(m, EnvSize, e) /\ LoadProgram(m, e, p, min, max)
        /\ reply' = NoReply
        /\ UNCHANGED <<linked, strategy>>

---------------------------------------------------------------------------
(* DOS_ResizeMemory of the block whose control block is s *)

BadJoined(m, s) ==
    LET next == Next1(m, s)
    IN  IF ~m[s].last /\ next \in DOMAIN m
        THEN [t \in DOMAIN m \ {next} |->
                 IF t = s THEN Block(m[s].owner, m[s].size + m[next].size + 1, m[next].last)
                 ELSE m[t]]
        ELSE m

\* Without the free block behind it, if any
Joined(m, s) ==
    LET next == Next1(m, s)
    IN  IF ~m[s].last /\ next \in DOMAIN m /\ IsFree(m, next)
        THEN [t \in DOMAIN m \ {next} |->
                 IF t = s THEN Block(m[s].owner, m[s].size + m[next].size + 1, m[next].last)
                 ELSE m[t]]
        ELSE m

\* When the block cannot grow to n it still grows as far as it can.
Resized(m, s, n) ==
    LET j == Joined(m, s)
    IN  IF n = m[s].size THEN m
        ELSE IF n < m[s].size THEN SplitFront(m, s, n)
        ELSE IF n < j[s].size THEN SplitFront(j, s, n)
        ELSE [j EXCEPT ![s].owner = psp]

ResizeMemory(s, n) ==
    /\ mcb' = Resized(Compressed(mcb), s, n)
    /\ reply' = NoReply
    /\ UNCHANGED <<linked, strategy, exited, psp, alive>>

---------------------------------------------------------------------------

FreeMemory(s) ==
    /\ mcb' = [mcb EXCEPT ![s].owner = Free]
    /\ reply' = NoReply
    /\ UNCHANGED <<linked, strategy, exited, psp, alive>>

BadReleased(m, p) ==
    [s \in DOMAIN m |->
        IF s \in Main(m) /\ m[s].owner = p THEN [m[s] EXCEPT !.owner = Free] ELSE m[s]]

\* DOS_FreeProcessMemory walks the main chain and then the upper one
Released(m, p) ==
    [s \in DOMAIN m |->
        IF s \in Main(m) \cup Upper(m) /\ m[s].owner = p
        THEN [m[s] EXCEPT !.owner = Free] ELSE m[s]]

\* DOS_Terminate of the current process, which does not stay resident
Terminate ==
    /\ psp # Shell
    /\ mcb' = Compressed(Released(mcb, psp))
    /\ alive' = alive \ {psp}
    /\ psp' \in alive'
    /\ reply' = NoReply
    /\ UNCHANGED <<linked, strategy, exited>>

\* The current process stays resident, or sets the PSP (int 21h/50h)
SetPsp(p) ==
    /\ psp' = p
    /\ reply' = NoReply
    /\ UNCHANGED <<mcb, linked, strategy, exited, alive>>

SetMemAllocStrategy(st) ==
    /\ strategy' = st
    /\ reply' = NoReply
    /\ UNCHANGED <<mcb, linked, exited, psp, alive>>

\* DOS_LinkUMBsToMemChain: the block below the UMBs ends the main chain or not
LinkUMBs(link) ==
    /\ linked' = link
    /\ LET end == Max({s \in Main(mcb) : s < UmbStart})
       IN  mcb' = IF link = linked THEN mcb ELSE [mcb EXCEPT ![end].last = ~link]
    /\ reply' = NoReply
    /\ UNCHANGED <<strategy, exited, psp, alive>>

\* DOS_SetupMemory and DOS_BuildUMBChain
Init ==
    /\ mcb = [s \in {First, Locked, Low, UmbStart, UmbStart + 1} |->
                 CASE s = First        -> Block(Free, SmallSize, FALSE)
                   [] s = Locked       -> Block(System, 0, FALSE)
                   [] s = Low          -> Block(Free, LowSize, TRUE)
                   [] s = UmbStart     -> Block(System, 0, FALSE)
                   [] s = UmbStart + 1 -> Block(Free, UmbSize, TRUE)]
    /\ linked = FALSE
    /\ strategy \in Strategies /\ exited = FALSE
    /\ psp = Shell /\ alive = {Shell}
    /\ reply = NoReply

Next ==
    \/ \E n \in Sizes : AllocateMemory(n)
    \/ \E s \in DOMAIN mcb : /\ mcb[s].owner = psp
                             /\ FreeMemory(s) \/ \E n \in Sizes : ResizeMemory(s, n)
    \/ Terminate
    \/ \E p \in Procs : \E min, max \in Sizes \ {0} : Execute(p, min, max)
    \/ \E p \in alive : SetPsp(p)
    \/ \E st \in Strategies : SetMemAllocStrategy(st)
    \/ \E link \in BOOLEAN : LinkUMBs(link)

Spec == Init /\ [][Next]_vars

---------------------------------------------------------------------------
(* Properties *)

\* The state variables keep their types.
TypeOK ==
    /\ DOMAIN mcb \subseteq First .. End
    /\ \A s \in DOMAIN mcb :
           mcb[s] \in [owner : Procs \cup {Free, System}, size : 0 .. End, last : BOOLEAN]
    /\ linked \in BOOLEAN /\ strategy \in Strategies /\ exited \in BOOLEAN
    /\ psp \in alive /\ alive \subseteq Procs
    /\ reply \in [asked : Sizes \cup {-1}, largest : -1 .. End]

\* The control blocks tile the memory: behind each block is the next control
\* block, up to the end of the upper memory, so that no paragraph is lost or
\* in two blocks, after any sequence of splits, merges, growth and shrinking.
Tiled ==
    /\ First \in DOMAIN mcb /\ UmbStart \in DOMAIN mcb
    /\ \A s \in DOMAIN mcb :
           /\ Next1(mcb, s) \in DOMAIN mcb \cup {End + 1}
           /\ \A t \in DOMAIN mcb : s < t => Next1(mcb, s) <= t

\* The walks end where they should: the upper chain at the end of memory, the
\* main chain there too or, when the UMBs are not linked, just below them.
ChainsEnd ==
    \A s \in DOMAIN mcb : mcb[s].last <=>
        \/ Next1(mcb, s) = End + 1
        \/ ~linked /\ Next1(mcb, s) = UmbStart

\* The structure that every walk through the chains relies on.
ChainOK == TypeOK /\ Tiled /\ ChainsEnd

\* No memory leaks: a process that ended owns no block in either chain.
DeadOwnNothing == \A s \in DOMAIN mcb : mcb[s].owner \in alive \cup {Free, System}

\* The system's blocks and those of every process but the one that calls DOS
\* stay where they are and keep size and owner.
OthersUntouched ==
    [][\A s \in DOMAIN mcb : mcb[s].owner \notin {Free, psp} =>
           /\ s \in DOMAIN mcb'
           /\ mcb'[s].owner = mcb[s].owner /\ mcb'[s].size = mcb[s].size]_vars

\* An allocation from the main chain fails only when there is no room: no
\* run of adjacent free blocks there could hold it.  And what a failed one
\* reports can be allocated: DOS_Execute asks for more than there is to learn
\* the size of the largest block, and exits the emulator when the allocation
\* of that size then fails.
FailureIsReal ==
    /\ ~exited
    /\ reply # NoReply /\ strategy.high # "only" =>
           \A s \in Main(mcb) : IsFree(mcb, s) =>
               LET end == Max(Run(mcb, Main(mcb), s))
               IN  Next1(mcb, end) - s - 1 < reply.asked
=============================================================================
