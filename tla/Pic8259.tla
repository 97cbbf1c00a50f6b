------------------------------ MODULE Pic8259 ------------------------------
(***************************************************************************)
(* The two cascaded 8259 interrupt controllers of src/hardware/pic.cpp and *)
(* the flag PIC_IRQCheck through which they stop the CPU core.             *)
(*                                                                         *)
(* pics[0] and pics[1] are the variables master and slave.  The registers  *)
(* irr, imr and isr are sets of lines; imrr and isrr, their complements,   *)
(* are not kept.  The slave has no wire of its own to the CPU: it raises   *)
(* and lowers line 2 of the master.  activate() and deactivate() do not    *)
(* recompute anything, so irqCheck and bit 2 of the master's irr are caches*)
(* of "some line is ready", and the point of the module is when the caches *)
(* are right.                                                              *)
(*                                                                         *)
(* Left out: the vector bases (data), the register a read selects (no      *)
(* effect on delivery), CPU_Cycles (EventQueue has it), and the commands   *)
(* the program refuses by exiting (poll, rotation, 8080 mode, 4-byte       *)
(* interval).                                                              *)
(***************************************************************************)
EXTENDS Naturals

CONSTANTS
    NL,       \* lines of a controller, 8 in the code
    Wired,    \* the <<controller, line>> pairs that devices drive
    Masks,    \* the mask values that the guest writes
    Modes,    \* the optional modes that the guest selects
    Icws,     \* the <<single, icw_words>> of the ICW1 commands of the guest
    NmiLines  \* lines of the master that cannot be masked: {6} on a PCjr

Master  == "master"
Slave   == "slave"
Cascade == 2
Lines   == 0 .. NL - 1
None    == NL             \* active_irq when nothing is in service

ASSUME NLAssumption    == NL \in Nat /\ NL > Cascade
ASSUME WiredAssumption == Wired \subseteq {Master, Slave} \X Lines
ASSUME MasksAssumption == Masks \subseteq SUBSET Lines
ASSUME ModesAssumption == Modes \subseteq {"special mask", "auto eoi"}
ASSUME IcwsAssumption  == Icws \subseteq BOOLEAN \X {2, 3}
ASSUME NmiAssumption   == NmiLines \subseteq Lines

VARIABLES
    master, slave,  \* the registers of the controllers
    irqCheck,       \* PIC_IRQCheck
    accepts,        \* the CPU has IF set and is not single stepping
    fatal           \* E_Exit was called

vars == <<master, slave, irqCheck, accepts, fatal>>

Registers ==
    [irr : SUBSET Lines, imr : SUBSET Lines, isr : SUBSET Lines,
     active : 0 .. NL, special : BOOLEAN, autoEoi : BOOLEAN,
     single : BOOLEAN, icwIndex : 0 .. 3, icwWords : {0, 2, 3}]

Pic(c) == IF c = Master THEN master ELSE slave

---------------------------------------------------------------------------
(* What one controller computes from its registers *)

Eligible(p) == (p.irr \ p.imr) \ p.isr

\* The operators named Bad... are plausible defects: a property is worth having
\* when it fails once one of them replaces the definition below it.
BadLimit(p) == NL
Limit(p) == IF p.special THEN NL ELSE p.active

Ready(p) == \E i \in Eligible(p) : i < Limit(p)

Counts(p, i) == i \in p.irr /\ i \notin p.imr /\ i \notin p.isr /\ i < Limit(p)

BadBest(p, i) == Counts(p, i)
Best(p, i) == Counts(p, i) /\ \A j \in Eligible(p) : i <= j

Recheck(p) == IF Ready(p) THEN "activate" ELSE "deactivate"

\* update_active_irq: the value a that the loop over the bits of isr finds
IsActive(isr, a) == \/ isr = {} /\ a = None
                    \/ a \in isr /\ \A j \in isr : a <= j

Raised(p, i)   == [p EXCEPT !.irr = @ \cup {i}]
Lowered(p, i)  == [p EXCEPT !.irr = @ \ {i}]
WithMask(p, m) == [p EXCEPT !.imr = m]
BadEnded(p, i, a) == [p EXCEPT !.isr = @ \ {i}]
Ended(p, i, a) == [p EXCEPT !.isr = @ \ {i}, !.active = a]

Announced(p, single, words) ==
    [p EXCEPT !.single = single, !.icwIndex = 1, !.icwWords = words]
Configured(p, auto) == [p EXCEPT !.autoEoi = auto, !.icwIndex = 0]

\* The call of activate, of deactivate or of neither that each operation makes
RaiseSignal(p, i) ==
    IF i \notin p.irr /\ Counts(Raised(p, i), i) THEN "activate" ELSE "none"

LowerSignal(p, i) ==
    IF Counts(p, i) THEN Recheck(Lowered(p, i)) ELSE "none"

BadMaskSignal(p, m) == "none"
MaskSignal(p, m) ==
    IF (p.irr \cap ((p.imr \ m) \cup (m \ p.imr))) \ p.isr # {}
    THEN Recheck(WithMask(p, m)) ELSE "none"

BadEoiSignal(p, i, a) == "none"
EoiSignal(p, i, a) ==
    IF Eligible(Ended(p, i, a)) # {} THEN Recheck(Ended(p, i, a)) ELSE "none"

Started(p, i) ==
    IF p.autoEoi
    THEN Lowered(p, i)
    ELSE [Lowered(p, i) EXCEPT !.active = i, !.isr = @ \cup {i}]

---------------------------------------------------------------------------
(* Where the signal goes: from the master to the CPU, from the slave to    *)
(* line 2 of the master                                                    *)

MasterTakes(p, signal) ==
    /\ master' = p
    /\ irqCheck' = (signal = "activate" \/ (signal = "none" /\ irqCheck))

Propagate(signal) ==
    \/ /\ signal = "activate"
       /\ MasterTakes(Raised(master, Cascade), RaiseSignal(master, Cascade))
    \/ /\ signal = "deactivate"
       /\ MasterTakes(Lowered(master, Cascade), LowerSignal(master, Cascade))
    \/ signal = "none" /\ UNCHANGED <<master, irqCheck>>

Settle(c, p, signal) ==
    /\ UNCHANGED <<accepts, fatal>>
    /\ \/ c = Master /\ MasterTakes(p, signal) /\ UNCHANGED slave
       \/ c = Slave  /\ Propagate(signal) /\ slave' = p

---------------------------------------------------------------------------
(* Devices *)

ActivateIRQ(c, i) == Settle(c, Raised(Pic(c), i), RaiseSignal(Pic(c), i))

DeActivateIRQ(c, i) == Settle(c, Lowered(Pic(c), i), LowerSignal(Pic(c), i))

---------------------------------------------------------------------------
(* Masks, written through the data port or by PIC_SetIRQMask *)

SetImr(c, m) ==
    LET mask == IF c = Master THEN m \ NmiLines ELSE m
    IN  Settle(c, WithMask(Pic(c), mask), MaskSignal(Pic(c), mask))

WriteMask(c, m) == Pic(c).icwIndex = 0 /\ SetImr(c, m)

SetIRQMask(c, i, masked) ==
    SetImr(c, IF masked THEN Pic(c).imr \cup {i} ELSE Pic(c).imr \ {i})

---------------------------------------------------------------------------
(* Commands of the guest *)

Eoi(c, i) ==
    \E a \in 0 .. NL :
        /\ IsActive(Pic(c).isr \ {i}, a)
        /\ Settle(c, Ended(Pic(c), i, a), EoiSignal(Pic(c), i, a))

SpecificEoi(c, i) == Eoi(c, i)

NonspecificEoi(c) == Pic(c).active # None /\ Eoi(c, Pic(c).active)

BadSpecialMask(c, on) ==
    /\ "special mask" \in Modes
    /\ Settle(c, [Pic(c) EXCEPT !.special = on], "none")

SpecialMask(c, on) ==
    LET p == [Pic(c) EXCEPT !.special = on]
    IN  "special mask" \in Modes /\ Settle(c, p, Recheck(p))

Icw1(c, single, words) ==
    Settle(c, Announced(Pic(c), single, words), "none")

Icw2(c) ==
    /\ Pic(c).icwIndex = 1
    /\ Settle(c, [Pic(c) EXCEPT !.icwIndex = IF Pic(c).single THEN 3 ELSE 2], "none")

Icw3(c) ==
    /\ Pic(c).icwIndex = 2
    /\ Settle(c, [Pic(c) EXCEPT !.icwIndex = IF 2 >= Pic(c).icwWords THEN 0 ELSE 3],
              "none")

Icw4(c, auto) ==
    /\ Pic(c).icwIndex = 3
    /\ auto => "auto eoi" \in Modes
    /\ Settle(c, Configured(Pic(c), auto), "none")

\* STI, CLI, POPF, IRET, and entering or leaving the single-step core
SetAccepts(b) ==
    /\ accepts' = b
    /\ UNCHANGED <<master, slave, irqCheck, fatal>>

---------------------------------------------------------------------------
(* PIC_runIRQs.  CPU_HW_Interrupt clears IF.                               *)

MasterStartIRQ(i) ==
    /\ master' = Started(master, i)
    /\ accepts' = FALSE
    /\ UNCHANGED <<slave, fatal>>

SlaveStartIRQ ==
    /\ fatal' = ~Ready(slave)
    /\ IF Ready(slave)
       THEN \E j \in Lines :
                /\ Best(slave, j)
                /\ slave' = Started(slave, j)
                /\ master' = Started(master, Cascade)
                /\ accepts' = FALSE
       ELSE UNCHANGED <<master, slave, accepts>>

RunIRQs ==
    /\ accepts /\ irqCheck
    /\ IF Ready(master)
       THEN \/ \E i \in Lines \ {Cascade} : Best(master, i) /\ MasterStartIRQ(i)
            \/ Best(master, Cascade) /\ SlaveStartIRQ
       ELSE UNCHANGED <<master, slave, accepts, fatal>>
    /\ irqCheck' = fatal'      \* E_Exit leaves the function before the reset

---------------------------------------------------------------------------
(* PIC_8259A: lines 0, 1 and 2 of the master and 0 of the slave (irq 8, the *)
(* clock) are unmasked                                                     *)

Reset(unmasked) ==
    [irr |-> {}, imr |-> Lines \ unmasked, isr |-> {}, active |-> None,
     special |-> FALSE, autoEoi |-> FALSE, single |-> FALSE,
     icwIndex |-> 0, icwWords |-> 0]

Init ==
    /\ master = Reset({0, 1, Cascade} \cup NmiLines)
    /\ slave = Reset({0})
    /\ irqCheck = FALSE /\ fatal = FALSE
    /\ accepts \in BOOLEAN

Device == \E w \in Wired : ActivateIRQ(w[1], w[2]) \/ DeActivateIRQ(w[1], w[2])

Guest(c) ==
    \/ \E m \in Masks : WriteMask(c, m)
    \/ \E i \in Lines : SpecificEoi(c, i)
    \/ NonspecificEoi(c)
    \/ \E on \in BOOLEAN : SpecialMask(c, on)
    \/ \E icw \in Icws : Icw1(c, icw[1], icw[2])
    \/ Icw2(c) \/ Icw3(c)
    \/ \E auto \in BOOLEAN : Icw4(c, auto)

Bios == \E w \in Wired, masked \in BOOLEAN : SetIRQMask(w[1], w[2], masked)

Next ==
    /\ ~fatal
    /\ \/ Device
       \/ Bios
       \/ \E c \in {Master, Slave} : Guest(c)
       \/ \E b \in BOOLEAN : SetAccepts(b)
       \/ RunIRQs

Spec == Init /\ [][Next]_vars

\* Normal_Loop calls PIC_RunQueue, and that PIC_runIRQs, for as long as it runs.
FairSpec == Spec /\ WF_vars(RunIRQs)

---------------------------------------------------------------------------
(* Properties *)

\* Every register keeps its width and every state variable its type.
TypeOK ==
    /\ master \in Registers /\ slave \in Registers
    /\ irqCheck \in BOOLEAN /\ accepts \in BOOLEAN /\ fatal \in BOOLEAN

\* The caches are never set without a cause: when PIC_IRQCheck is set some
\* line of the master can be served, and when line 2 of the master is
\* requested some line of the slave can be, whatever the guest did to masks,
\* modes and in-service bits since.
NoFalseSignal ==
    /\ irqCheck => Ready(master)
    /\ Cascade \in master.irr => Ready(slave)

\* The registers and the caches.
SoundSignals == TypeOK /\ NoFalseSignal

\* PIC_runIRQs never reaches the E_Exit of slave_startIRQ, "irq 2 is active,
\* but no irq active on the slave PIC".
CascadeServed == ~fatal

\* No interrupt is lost between the controllers and the CPU: a line that can be
\* served is always announced, by the slave on line 2 and by the master in
\* PIC_IRQCheck, the only things PIC_RunQueue and the CPU cores look at.
NoLostInterrupt ==
    /\ Ready(master) => irqCheck
    /\ Ready(slave) => Cascade \in master.irr

\* active_irq is the highest priority line in service, and so the line that a
\* nonspecific EOI ends.
ActiveIsHighest ==
    \A c \in {Master, Slave} : IsActive(Pic(c).isr, Pic(c).active)

\* Fully nested: a line enters service only above all that is in service
\* on its controller, and only when it was requested and unmasked.
NestedStep ==
    \A c \in {Master, Slave} :
        \A i \in (IF c = Master THEN master'.isr ELSE slave'.isr) \ Pic(c).isr :
            /\ i \in Pic(c).irr \ Pic(c).imr
            /\ \A j \in Pic(c).isr : i < j

Nested == [][NestedStep]_vars

\* What a device, the guest or the CPU can tell of the controllers
requested == [c \in {Master, Slave} |->
                 IF c = Master THEN master.irr \ {Cascade} ELSE slave.irr]
masked    == [c \in {Master, Slave} |-> Pic(c).imr]
serving   == [c \in {Master, Slave} |-> Pic(c).isr]

\* In this mode the controllers implement the abstract priority interrupts:
\* PIC_IRQCheck, active_irq and line 2 of the master are bookkeeping that no
\* device, guest or CPU can tell apart from recomputing everything.
Promise == INSTANCE InterruptPriority WITH
    request <- requested, mask <- masked, service <- serving

ImplementsPriority == Promise!Spec

\* A request that the CPU could take does not wait forever: it is taken, or
\* withdrawn, masked or outranked, or the guest disables interrupts.
PendingIsTaken == (Ready(master) /\ accepts) ~> ~(Ready(master) /\ accepts)
=============================================================================
