---------------------------- MODULE EventQueue ----------------------------
(***************************************************************************)
(* The event queue of src/hardware/pic.cpp and the loop that drives it     *)
(* (Normal_Loop of src/dosbox.cpp).  Emulated time is divided into ticks of*)
(* CPU_CycleMax CPU cycles.  CPU_Cycles is what the CPU core may still     *)
(* consume before it has to return, CPU_CycleLeft the rest of the tick, so *)
(* the time within the tick is                                             *)
(*     PIC_TickIndexND = CPU_CycleMax - CPU_CycleLeft - CPU_Cycles.        *)
(* An entry's index, a fraction of a tick in the code, is kept in units of *)
(* 1/Unit cycle: deadlines fall between cycles, and the conversions to     *)
(* cycles truncate.                                                        *)
(*                                                                         *)
(* Devices schedule and cancel events from four places: an event handler,  *)
(* an instruction of the CPU core, a tick handler, and the host input that *)
(* GFX_Events delivers between ticks.                                      *)
(*                                                                         *)
(* Left out: the rounding of floats, changes of CPU_CycleMax, and the core *)
(* that single-steps, which hides CPU_Cycles while it runs.                *)
(***************************************************************************)
EXTENDS Integers, SequencesExt, Lists

CONSTANTS
    CycleMax,   \* CPU_CycleMax
    Unit,       \* time units of a cycle
    Kinds,      \* the <<handler, value>> pairs of events
    Delays,     \* the delays that devices ask for, in units
    Slots,      \* PIC_QUEUESIZE
    Overshoot,  \* by how many cycles one instruction can overrun its slice
    MaxLate,    \* bound: no interrupt is raised while CPU_CycleLeft is below its negative
    Ops         \* which of "irq" and "stop" devices do besides events

ASSUME TimeAssumption ==
    /\ CycleMax \in Nat \ {0} /\ Unit \in Nat \ {0} /\ Slots \in Nat \ {0}
    /\ Overshoot \in Nat /\ MaxLate \in Nat
    /\ Delays \subseteq Nat \ {0}
ASSUME OpsAssumption == Ops \subseteq {"irq", "stop"}

VARIABLES
    queue,     \* the entries behind next_entry
    serving,   \* the entry whose handler runs, out of both lists
    free,      \* the length of the free list
    left,      \* CPU_CycleLeft
    cycles,    \* CPU_Cycles
    pc         \* where Normal_Loop is

vars == <<queue, serving, free, left, cycles, pc>>

NoEntry == [at |-> 0, kind |-> <<>>]

\* The time within the tick when c cycles remain of the slice
TimeAt(c) == CycleMax - left - c
Now == TimeAt(cycles)

\* The conversion (Bits)x of a time to whole cycles, towards zero
WholeCycles(x) == IF x >= 0 THEN x \div Unit ELSE -((-x) \div Unit)

Smaller(a, b) == IF a < b THEN a ELSE b

\* The operators named Bad... are plausible defects: a property is worth having
\* when it fails once one of them replaces the definition below it.
BadInsert(q, e) == Append(q, e)

\* AddEntry: in front of the first entry that is later
Insert(q, e) ==
    LET later == SelectInSeq(q, LAMBDA x : x.at > e.at)
    IN  IF later = 0 THEN Append(q, e) ELSE InsertAt(q, later, e)

---------------------------------------------------------------------------
(* What device code does, when c is the value of CPU_Cycles *)

GiveBack(c) == left' = left + c /\ cycles' = 0
Keep(c)     == left' = left /\ cycles' = c

BadCutSlice(c, first) == Keep(c)

\* The end of AddEntry: the core must return for an earlier deadline
CutSlice(c, first) ==
    IF WholeCycles(first.at - Unit * TimeAt(c)) < c THEN GiveBack(c) ELSE Keep(c)

AddEvent(c, kind, delay) ==
    LET e == [kind |-> kind,
              at |-> delay + IF pc = "handler" THEN serving.at ELSE Unit * TimeAt(c)]
    IN  \/ /\ free > 0
           /\ queue' = Insert(queue, e)
           /\ free' = free - 1
           /\ CutSlice(c, queue'[1])
        \/ free = 0 /\ Keep(c) /\ UNCHANGED <<queue, free>>

Others(kinds) == Selection(queue, {i \in DOMAIN queue : queue[i].kind \notin kinds})

BadRemoveEvents(c, kinds) ==
    /\ queue' = Others(kinds)
    /\ UNCHANGED free
    /\ Keep(c)

\* PIC_RemoveEvents and PIC_RemoveSpecificEvents
RemoveEvents(c, kinds) ==
    /\ queue' = Others(kinds)
    /\ free' = free + Len(queue) - Len(queue')
    /\ Keep(c)

\* PIC_Controller::activate on the master, as an EOI or a mask write calls it
StopCore(c) == "stop" \in Ops /\ GiveBack(c) /\ UNCHANGED <<queue, free>>

BadActivateIRQ(c) ==
    /\ "irq" \in Ops /\ left >= -MaxLate
    /\ left' = left + c /\ cycles' = 2
    /\ UNCHANGED <<queue, free>>

\* PIC_ActivateIRQ, when the interrupt reaches the CPU: two more cycles
ActivateIRQ(c) ==
    /\ "irq" \in Ops /\ left >= -MaxLate
    /\ IF c = 0 THEN GiveBack(c) ELSE left' = left + c - 2 /\ cycles' = 2
    /\ UNCHANGED <<queue, free>>

DeviceOp(c) ==
    \/ \E kind \in Kinds, delay \in Delays : AddEvent(c, kind, delay)
    \/ \E kind \in Kinds : RemoveEvents(c, {kind})
    \/ \E kind \in Kinds : RemoveEvents(c, {k \in Kinds : k[1] = kind[1]})
    \/ StopCore(c)
    \/ ActivateIRQ(c)

---------------------------------------------------------------------------
(* PIC_RunQueue *)

\* The tick is over: GFX_Events runs, and then the next tick when it is time
TickOver ==
    /\ pc = "loop" /\ left + cycles <= 0
    /\ GiveBack(cycles)
    /\ pc' = "idle"
    /\ UNCHANGED <<queue, serving, free>>

RunQueue ==
    /\ pc = "loop" /\ left + cycles > 0
    /\ GiveBack(cycles)
    /\ pc' = "serve"
    /\ UNCHANGED <<queue, serving, free>>

Due == queue # <<>> /\ Head(queue).at <= Unit * Now

Serve ==
    /\ pc = "serve" /\ Due
    /\ serving' = Head(queue) /\ queue' = Tail(queue)
    /\ pc' = "handler"
    /\ UNCHANGED <<free, left, cycles>>

HandlerDone ==
    /\ pc = "handler"
    /\ free' = free + 1 /\ serving' = NoEntry
    /\ pc' = "serve"
    /\ UNCHANGED <<queue, left, cycles>>

\* The cycles until the first deadline, at least one, at most the tick's rest
Slice ==
    IF queue = <<>> THEN left
    ELSE LET gap == WholeCycles(Head(queue).at - Unit * Now)
         IN  Smaller(IF gap = 0 THEN 1 ELSE gap, left)

StartCore ==
    /\ pc = "serve" /\ ~Due
    /\ cycles' = Slice /\ left' = left - Slice
    /\ pc' = "cpu"
    /\ UNCHANGED <<queue, serving, free>>

---------------------------------------------------------------------------
(* The CPU core, tick handlers and host input *)

\* One instruction (or string of them, or HLT) that takes n cycles and may do
\* I/O; afterwards the core goes on or returns early, for a callback say.
Instruction(n) ==
    /\ pc = "cpu" /\ cycles > 0
    /\ \/ Keep(cycles - n) /\ UNCHANGED <<queue, free>>
       \/ DeviceOp(cycles - n)
    /\ pc' \in {"cpu", "loop"}
    /\ UNCHANGED serving

\* while (CPU_Cycles-- > 0) leaves with one less, the other cores do not
CoreReturn ==
    /\ pc = "cpu" /\ cycles <= 0
    /\ cycles' \in {cycles, cycles - 1}
    /\ pc' = "loop"
    /\ UNCHANGED <<queue, serving, free, left>>

BadAddTick ==
    /\ pc = "idle"
    /\ left' = CycleMax /\ cycles' = 0
    /\ pc' = "tick"
    /\ UNCHANGED <<queue, serving, free>>

\* TIMER_AddTick
AddTick ==
    /\ pc = "idle"
    /\ left' = CycleMax /\ cycles' = 0
    /\ queue' = [i \in DOMAIN queue |-> [queue[i] EXCEPT !.at = @ - Unit * CycleMax]]
    /\ pc' = "tick"
    /\ UNCHANGED <<serving, free>>

TickDone == pc = "tick" /\ pc' = "loop" /\ UNCHANGED <<queue, serving, free, left, cycles>>

\* An event handler, a tick handler or host input
HandlerOp == pc \in {"handler", "tick", "idle"} /\ DeviceOp(0) /\ UNCHANGED <<serving, pc>>

---------------------------------------------------------------------------

Init ==
    /\ queue = <<>> /\ serving = NoEntry /\ free = Slots
    /\ left = 0 /\ cycles = 0
    /\ pc = "loop"

Loop == TickOver \/ RunQueue \/ Serve \/ HandlerDone \/ StartCore \/ CoreReturn \/ TickDone

Cpu == \E n \in 1 .. cycles + Overshoot : Instruction(n)

Next == Loop \/ Cpu \/ HandlerOp \/ AddTick

Spec == Init /\ [][Next]_vars

\* Normal_Loop turns, handlers return, the core executes instructions and the
\* host's clock goes on.
FairSpec == Spec /\ WF_vars(Loop) /\ WF_vars(Cpu) /\ WF_vars(AddTick)

---------------------------------------------------------------------------
(* Properties *)

Entries == [at : Int, kind : Kinds]

\* The state variables keep their types.
TypeOK ==
    /\ queue \in Seq(Entries)
    /\ serving \in Entries \cup {NoEntry}
    /\ free \in 0 .. Slots
    /\ left \in Int /\ cycles \in Int
    /\ pc \in {"loop", "serve", "handler", "cpu", "idle", "tick"}

\* No entry is lost or in both lists: those queued, free and in service
\* make up the array of PIC_QUEUESIZE.
NoEntryLost == Len(queue) + free + (IF pc = "handler" THEN 1 ELSE 0) = Slots

\* The two lists stay what PIC_Init made them.
QueueOK == TypeOK /\ NoEntryLost

\* PIC_RunQueue looks only at the first entry, so none may be behind a later one,
\* and a handler never runs after that of a later event.
InOrder ==
    /\ \A i, j \in DOMAIN queue : i <= j => queue[i].at <= queue[j].at
    /\ pc = "handler" => \A i \in DOMAIN queue : serving.at <= queue[i].at

\* Whatever is scheduled, cancelled or raised while the core runs, it never has
\* more cycles than remain to the first deadline and to the end of the tick, but
\* for the one that a slice has at least before a deadline and the two that
\* PIC_ActivateIRQ grants.
DeadlineKept ==
    LET Granted(n) == IF "irq" \in Ops THEN 2 ELSE n
    IN  pc = "cpu" =>
            /\ queue # <<>> =>
                   \/ cycles <= WholeCycles(queue[1].at - Unit * Now)
                   \/ cycles <= Granted(1)
            /\ left < 0 => cycles <= Granted(0)

\* The time that devices read only goes forward within a tick: cutting, giving
\* back and starting slices moves cycles between CPU_Cycles and CPU_CycleLeft
\* and loses none.
TimeForward == [][(pc = "idle" /\ pc' = "tick") \/ Now' >= Now]_vars

Queued(kind) == \E i \in DOMAIN queue : queue[i].kind = kind

\* Every scheduled event is served or cancelled, whatever else is scheduled.
EventsAreServed ==
    \A kind \in Kinds : Queued(kind) ~> (serving.kind = kind \/ ~Queued(kind))
=============================================================================
