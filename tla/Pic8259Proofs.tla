--------------------------- MODULE Pic8259Proofs ---------------------------
(***************************************************************************)
(* Proofs about Pic8259, for controllers of any number of lines.           *)
(*                                                                         *)
(* The argument has one idea.  Every operation on a controller turns its   *)
(* registers p into q and emits a signal, and the signal is sound: it says *)
(* "activate" only when a line of q is ready, "deactivate" only when none  *)
(* is, and nothing only when readiness did not change.  Sound signals keep *)
(* the caches right along the wire from the slave to the CPU; only the     *)
(* start of an interrupt, which clears the caches without asking, needs an *)
(* argument of its own.                                                    *)
(***************************************************************************)
EXTENDS Pic8259, TLAPS

Sound(p, q, s) ==
    /\ s \in {"activate", "deactivate", "none"}
    /\ s = "activate" => Ready(q)
    /\ s = "deactivate" => ~Ready(q)
    /\ s = "none" => (Ready(q) <=> Ready(p))

---------------------------------------------------------------------------
(* The signals of the operations are sound *)

\* Raising a line
LEMMA RaiseSound ==
    ASSUME NEW p \in Registers, NEW i \in Lines
    PROVE  Raised(p, i) \in Registers /\ Sound(p, Raised(p, i), RaiseSignal(p, i))
<1> DEFINE q == Raised(p, i)
<1>1. /\ q \in Registers
      /\ q.irr = p.irr \cup {i} /\ q.imr = p.imr /\ q.isr = p.isr
      /\ Limit(q) = Limit(p)
    BY DEF Raised, Registers, Limit
<1>2. Eligible(p) \subseteq Eligible(q) /\ Eligible(q) \subseteq Eligible(p) \cup {i}
    BY <1>1 DEF Eligible
<1>3. Counts(q, i) <=> i \in Eligible(q) /\ i < Limit(q)
    BY DEF Counts, Eligible
<1>4. i \in p.irr => Eligible(q) = Eligible(p)
    BY <1>1 DEF Eligible
<1> QED
    BY <1>1, <1>2, <1>3, <1>4 DEF Sound, RaiseSignal, Ready

\* Lowering a line
LEMMA LowerSound ==
    ASSUME NEW p \in Registers, NEW i \in Lines
    PROVE  Lowered(p, i) \in Registers /\ Sound(p, Lowered(p, i), LowerSignal(p, i))
<1> DEFINE q == Lowered(p, i)
<1>1. /\ q \in Registers
      /\ q.irr = p.irr \ {i} /\ q.imr = p.imr /\ q.isr = p.isr
      /\ Limit(q) = Limit(p)
    BY DEF Lowered, Registers, Limit
<1>2. Eligible(q) = Eligible(p) \ {i}
    BY <1>1 DEF Eligible
<1>3. Counts(p, i) <=> i \in Eligible(p) /\ i < Limit(p)
    BY DEF Counts, Eligible
<1> QED
    BY <1>1, <1>2, <1>3 DEF Sound, LowerSignal, Recheck, Ready

\* Writing the mask: when no pending line changes, the eligible lines stay
LEMMA MaskSound ==
    ASSUME NEW p \in Registers, NEW m \in SUBSET Lines
    PROVE  WithMask(p, m) \in Registers /\ Sound(p, WithMask(p, m), MaskSignal(p, m))
<1> DEFINE q == WithMask(p, m)
<1>1. /\ q \in Registers
      /\ q.irr = p.irr /\ q.imr = m /\ q.isr = p.isr
      /\ Limit(q) = Limit(p)
    BY DEF WithMask, Registers, Limit
<1>2. (p.irr \cap ((p.imr \ m) \cup (m \ p.imr))) \ p.isr = {} => Eligible(q) = Eligible(p)
    BY <1>1 DEF Eligible
<1> QED
    BY <1>1, <1>2 DEF Sound, MaskSignal, Recheck, Ready

\* Ending an interrupt never makes less eligible
LEMMA EoiSound ==
    ASSUME NEW p \in Registers, NEW i, NEW a \in 0 .. NL
    PROVE  Ended(p, i, a) \in Registers /\ Sound(p, Ended(p, i, a), EoiSignal(p, i, a))
<1> DEFINE q == Ended(p, i, a)
<1>1. /\ q \in Registers
      /\ q.irr = p.irr /\ q.imr = p.imr /\ q.isr = p.isr \ {i}
    BY DEF Ended, Registers
<1>2. Eligible(p) \subseteq Eligible(q)
    BY <1>1 DEF Eligible
<1> QED
    BY <1>1, <1>2 DEF Sound, EoiSignal, Recheck, Ready

\* Recomputing readiness is sound whatever changed
LEMMA RecheckSound ==
    ASSUME NEW p, NEW q
    PROVE  Sound(p, q, Recheck(q))
    BY DEF Sound, Recheck

---------------------------------------------------------------------------
(* Sound signals keep the caches right *)

Inv == TypeOK /\ NoFalseSignal

\* What a sound operation on a controller does to the invariants, when it
\* leaves line 2 of the master to the slave
LEMMA SettleStep ==
    ASSUME Inv, NEW c \in {Master, Slave}, NEW q \in Registers, NEW s,
           Sound(Pic(c), q, s), Settle(c, q, s),
           c = Master => (Cascade \in q.irr <=> Cascade \in master.irr)
    PROVE  Inv' /\ (NoLostInterrupt => NoLostInterrupt') /\ UNCHANGED fatal
<1> USE DEF Master, Slave
<1>0. Cascade \in Lines /\ master \in Registers /\ slave \in Registers
    BY NLAssumption DEF Inv, TypeOK, Cascade, Lines
<1>1. CASE c = Master
    <2>1. master' = q /\ slave' = slave /\ accepts' = accepts /\ fatal' = fatal
          /\ irqCheck' = (s = "activate" \/ (s = "none" /\ irqCheck))
        BY <1>1 DEF Settle, MasterTakes
    <2>2. Sound(master, master', s)
        BY <1>1, <2>1 DEF Pic
    <2>3. irqCheck' => Ready(master')
        BY <2>1, <2>2 DEF Sound, Inv, NoFalseSignal
    <2>4. (Ready(master) => irqCheck) => (Ready(master') => irqCheck')
        BY <2>1, <2>2 DEF Sound
    <2> QED
        BY <1>1, <2>1, <2>3, <2>4 DEF Inv, TypeOK, NoFalseSignal, NoLostInterrupt
<1>2. CASE c = Slave
    <2>1. slave' = q /\ Propagate(s) /\ accepts' = accepts /\ fatal' = fatal
        BY <1>2 DEF Settle
    <2>2. Sound(slave, slave', s)
        BY <1>2, <2>1 DEF Pic
    <2>3. CASE s = "activate"
        <3>1. /\ Sound(master, master', RaiseSignal(master, Cascade))
              /\ master' \in Registers /\ Cascade \in master'.irr
              /\ MasterTakes(master', RaiseSignal(master, Cascade))
            BY <1>0, <2>1, <2>3, RaiseSound DEF Propagate, MasterTakes, Raised, Registers
        <3> QED
            BY <2>1, <2>2, <2>3, <3>1
            DEF Inv, TypeOK, NoFalseSignal, NoLostInterrupt, Sound, MasterTakes
    <2>4. CASE s = "deactivate"
        <3>1. /\ Sound(master, master', LowerSignal(master, Cascade))
              /\ master' \in Registers /\ Cascade \notin master'.irr
              /\ MasterTakes(master', LowerSignal(master, Cascade))
            BY <1>0, <2>1, <2>4, LowerSound DEF Propagate, MasterTakes, Lowered, Registers
        <3> QED
            BY <2>1, <2>2, <2>4, <3>1
            DEF Inv, TypeOK, NoFalseSignal, NoLostInterrupt, Sound, MasterTakes
    <2>5. CASE s = "none"
        <3>1. UNCHANGED <<master, irqCheck>>
            BY <2>1, <2>5 DEF Propagate
        <3> QED
            BY <2>1, <2>2, <2>5, <3>1
            DEF Inv, TypeOK, NoFalseSignal, NoLostInterrupt, Sound
    <2> QED
        BY <2>2, <2>3, <2>4, <2>5 DEF Sound
<1> QED
    BY <1>1, <1>2
---------------------------------------------------------------------------
(* Every operation of a device, the BIOS or the guest is a sound operation *)

\* The normal mode of a controller, with active_irq up to date
NestedOk(p) == ~p.special /\ ~p.autoEoi /\ IsActive(p.isr, p.active)

Operation(c, q, s) ==
    /\ q \in Registers /\ Sound(Pic(c), q, s) /\ Settle(c, q, s)
    /\ c = Master => (Cascade \in q.irr <=> Cascade \in master.irr)
    /\ q.isr \subseteq Pic(c).isr
    /\ Modes = {} /\ NestedOk(Pic(c)) => NestedOk(q)

LEMMA SetImrOperation ==
    ASSUME TypeOK, NEW c \in {Master, Slave}, NEW m \in SUBSET Lines, SetImr(c, m)
    PROVE  \E q, s : Operation(c, q, s)
<1> DEFINE k == IF c = Master THEN m \ NmiLines ELSE m
           q == WithMask(Pic(c), k)
<1>1. Pic(c) \in Registers /\ k \in SUBSET Lines
    BY DEF TypeOK, Pic
<1>2. q \in Registers /\ Sound(Pic(c), q, MaskSignal(Pic(c), k))
    BY <1>1, MaskSound
<1>3. Settle(c, q, MaskSignal(Pic(c), k))
    BY DEF SetImr
<1>4. /\ q.irr = Pic(c).irr /\ q.isr = Pic(c).isr
      /\ NestedOk(Pic(c)) => NestedOk(q)
    BY <1>1 DEF WithMask, Registers, NestedOk
<1>5. Operation(c, q, MaskSignal(Pic(c), k))
    BY <1>2, <1>3, <1>4 DEF Operation, Pic
<1> QED
    BY <1>5

LEMMA EoiOperation ==
    ASSUME TypeOK, NEW c \in {Master, Slave}, NEW i, Eoi(c, i)
    PROVE  \E q, s : Operation(c, q, s)
<1>1. PICK a \in 0 .. NL : /\ IsActive(Pic(c).isr \ {i}, a)
                           /\ Settle(c, Ended(Pic(c), i, a), EoiSignal(Pic(c), i, a))
    BY DEF Eoi
<1> DEFINE q == Ended(Pic(c), i, a)
<1>2. Pic(c) \in Registers
    BY DEF TypeOK, Pic
<1>3. q \in Registers /\ Sound(Pic(c), q, EoiSignal(Pic(c), i, a))
    BY <1>2, EoiSound
<1>4. /\ q.irr = Pic(c).irr /\ q.isr = Pic(c).isr \ {i} /\ q.active = a
      /\ q.special = Pic(c).special /\ q.autoEoi = Pic(c).autoEoi
    BY <1>2 DEF Ended, Registers
<1>5. NestedOk(Pic(c)) => NestedOk(q)
    BY <1>1, <1>4 DEF NestedOk
<1>6. Operation(c, q, EoiSignal(Pic(c), i, a))
    BY <1>1, <1>3, <1>4, <1>5 DEF Operation, Pic
<1> QED
    BY <1>6

\* The commands that only write mode or initialisation fields
LEMMA QuietOperation ==
    ASSUME TypeOK, NEW c \in {Master, Slave}, NEW q \in Registers,
           q.irr = Pic(c).irr, q.imr = Pic(c).imr, q.isr = Pic(c).isr,
           q.active = Pic(c).active, q.special = Pic(c).special,
           Modes = {} => (q.autoEoi => Pic(c).autoEoi),
           Settle(c, q, "none")
    PROVE  \E r, s : Operation(c, r, s)
<1>1. Ready(q) <=> Ready(Pic(c))
    BY DEF Ready, Eligible, Limit
<1>2. NestedOk(Pic(c)) /\ Modes = {} => NestedOk(q)
    BY DEF NestedOk
<1>3. Operation(c, q, "none")
    BY <1>1, <1>2 DEF Operation, Sound, Pic
<1> QED
    BY <1>3

LEMMA AnnouncedFields ==
    ASSUME NEW p \in Registers, NEW b \in BOOLEAN, NEW w \in {2, 3}
    PROVE  LET q == Announced(p, b, w)
           IN  /\ q \in Registers /\ q.irr = p.irr /\ q.imr = p.imr /\ q.isr = p.isr
               /\ q.active = p.active /\ q.special = p.special /\ q.autoEoi = p.autoEoi
<1> DEFINE p1 == [p EXCEPT !.single = b]
           p2 == [p1 EXCEPT !.icwIndex = 1]
           p3 == [p2 EXCEPT !.icwWords = w]
<1>a. p1 \in Registers
    BY DEF Registers
<1>b. p2 \in Registers
    <2> HIDE DEF p1
    <2> QED
        BY <1>a DEF Registers
<1>c. p3 \in Registers
    <2> HIDE DEF p2
    <2> QED
        BY <1>b DEF Registers
<1>1. Announced(p, b, w) \in Registers
    BY <1>c DEF Announced
<1> QED
    BY <1>1 DEF Announced, Registers

LEMMA ConfiguredFields ==
    ASSUME NEW p \in Registers, NEW b \in BOOLEAN
    PROVE  LET q == Configured(p, b)
           IN  /\ q \in Registers /\ q.irr = p.irr /\ q.imr = p.imr /\ q.isr = p.isr
               /\ q.active = p.active /\ q.special = p.special /\ q.autoEoi = b
<1> DEFINE p1 == [p EXCEPT !.autoEoi = b]
           p2 == [p1 EXCEPT !.icwIndex = 0]
<1>a. p1 \in Registers
    BY DEF Registers
<1>b. p2 \in Registers
    <2> HIDE DEF p1
    <2> QED
        BY <1>a DEF Registers
<1>1. Configured(p, b) \in Registers
    BY <1>b DEF Configured
<1> QED
    BY <1>1 DEF Configured, Registers

LEMMA GuestOperation ==
    ASSUME TypeOK, NEW c \in {Master, Slave}, Guest(c)
    PROVE  \E q, s : Operation(c, q, s)
<1>0. Pic(c) \in Registers
    BY DEF TypeOK, Pic
<1>1. CASE \E m \in Masks : WriteMask(c, m)
    BY <1>1, SetImrOperation, MasksAssumption DEF WriteMask
<1>2. CASE \E i \in Lines : SpecificEoi(c, i)
    BY <1>2, EoiOperation DEF SpecificEoi
<1>3. CASE NonspecificEoi(c)
    BY <1>3, EoiOperation DEF NonspecificEoi
<1>4. CASE \E on \in BOOLEAN : SpecialMask(c, on)
    <2>1. PICK on \in BOOLEAN : SpecialMask(c, on)
        BY <1>4
    <2> DEFINE q == [Pic(c) EXCEPT !.special = on]
    <2>2. /\ q \in Registers /\ q.irr = Pic(c).irr /\ q.isr = Pic(c).isr
          /\ Settle(c, q, Recheck(q)) /\ Modes # {}
        BY <1>0, <2>1 DEF SpecialMask, Registers
    <2>3. Operation(c, q, Recheck(q))
        BY <2>2, RecheckSound DEF Operation, Pic
    <2> QED
        BY <2>3
<1>5. CASE \E icw \in Icws : Icw1(c, icw[1], icw[2])
    <2>1. PICK icw \in Icws : Icw1(c, icw[1], icw[2])
        BY <1>5
    <2> DEFINE q == Announced(Pic(c), icw[1], icw[2])
    <2>2. icw[1] \in BOOLEAN /\ icw[2] \in {2, 3}
        BY IcwsAssumption
    <2>3. /\ q \in Registers /\ q.irr = Pic(c).irr /\ q.imr = Pic(c).imr
          /\ q.isr = Pic(c).isr /\ q.active = Pic(c).active
          /\ q.special = Pic(c).special /\ q.autoEoi = Pic(c).autoEoi
        BY <1>0, <2>2, AnnouncedFields
    <2>4. Settle(c, q, "none")
        BY <2>1 DEF Icw1
    <2> QED
        BY <2>3, <2>4, QuietOperation
<1>6. CASE Icw2(c) \/ Icw3(c)
    <2>1. PICK n \in {0, 2, 3} : Settle(c, [Pic(c) EXCEPT !.icwIndex = n], "none")
        BY <1>6 DEF Icw2, Icw3
    <2> DEFINE q == [Pic(c) EXCEPT !.icwIndex = n]
    <2>2. /\ q \in Registers /\ q.irr = Pic(c).irr /\ q.imr = Pic(c).imr
          /\ q.isr = Pic(c).isr /\ q.active = Pic(c).active
          /\ q.special = Pic(c).special /\ q.autoEoi = Pic(c).autoEoi
        BY <1>0 DEF Registers
    <2> QED
        BY <2>1, <2>2, QuietOperation
<1>7. CASE \E auto \in BOOLEAN : Icw4(c, auto)
    <2>1. PICK auto \in BOOLEAN : Icw4(c, auto)
        BY <1>7
    <2> DEFINE q == Configured(Pic(c), auto)
    <2>2. /\ q \in Registers /\ q.irr = Pic(c).irr /\ q.imr = Pic(c).imr
          /\ q.isr = Pic(c).isr /\ q.active = Pic(c).active
          /\ q.special = Pic(c).special /\ q.autoEoi = auto
        BY <1>0, ConfiguredFields
    <2>3. Settle(c, q, "none") /\ (auto => Modes # {})
        BY <2>1 DEF Icw4
    <2> QED
        BY <2>2, <2>3, QuietOperation
<1> QED
    BY <1>1, <1>2, <1>3, <1>4, <1>5, <1>6, <1>7 DEF Guest

LEMMA DeviceOperation ==
    ASSUME TypeOK, <<Master, Cascade>> \notin Wired, Device \/ Bios
    PROVE  \E c \in {Master, Slave} : \E q, s : Operation(c, q, s)
<1>1. CASE Bios
    <2>1. PICK w \in Wired, off \in BOOLEAN : SetIRQMask(w[1], w[2], off)
        BY <1>1 DEF Bios
    <2>2. w[1] \in {Master, Slave} /\ w[2] \in Lines
        BY WiredAssumption
    <2> DEFINE m == IF off THEN Pic(w[1]).imr \cup {w[2]} ELSE Pic(w[1]).imr \ {w[2]}
    <2>3. m \in SUBSET Lines /\ SetImr(w[1], m)
        BY <2>1, <2>2 DEF SetIRQMask, TypeOK, Pic, Registers
    <2> QED
        BY <2>2, <2>3, SetImrOperation
<1>2. CASE Device
    <2>1. PICK w \in Wired : ActivateIRQ(w[1], w[2]) \/ DeActivateIRQ(w[1], w[2])
        BY <1>2 DEF Device
    <2>2. /\ w[1] \in {Master, Slave} /\ w[2] \in Lines
          /\ w[1] = Master => w[2] # Cascade
          /\ Pic(w[1]) \in Registers
        BY WiredAssumption DEF TypeOK, Pic
    <2> DEFINE up == Raised(Pic(w[1]), w[2])
               down == Lowered(Pic(w[1]), w[2])
    <2>3. CASE ActivateIRQ(w[1], w[2])
        <3>1. up \in Registers /\ Sound(Pic(w[1]), up, RaiseSignal(Pic(w[1]), w[2]))
            BY <2>2, RaiseSound
        <3>2. /\ up.irr = Pic(w[1]).irr \cup {w[2]} /\ up.isr = Pic(w[1]).isr
              /\ NestedOk(Pic(w[1])) => NestedOk(up)
            BY <2>2 DEF Raised, Registers, NestedOk
        <3>3. Operation(w[1], up, RaiseSignal(Pic(w[1]), w[2]))
            BY <2>2, <2>3, <3>1, <3>2 DEF Operation, ActivateIRQ, Pic
        <3> QED
            BY <2>2, <3>3
    <2>4. CASE DeActivateIRQ(w[1], w[2])
        <3>1. down \in Registers /\ Sound(Pic(w[1]), down, LowerSignal(Pic(w[1]), w[2]))
            BY <2>2, LowerSound
        <3>2. /\ down.irr = Pic(w[1]).irr \ {w[2]} /\ down.isr = Pic(w[1]).isr
              /\ NestedOk(Pic(w[1])) => NestedOk(down)
            BY <2>2 DEF Lowered, Registers, NestedOk
        <3>3. Operation(w[1], down, LowerSignal(Pic(w[1]), w[2]))
            BY <2>2, <2>4, <3>1, <3>2 DEF Operation, DeActivateIRQ, Pic
        <3> QED
            BY <2>2, <3>3
    <2> QED
        BY <2>1, <2>3, <2>4
<1> QED
    BY <1>1, <1>2
---------------------------------------------------------------------------
(* Starting an interrupt *)

LEMMA StartedFields ==
    ASSUME NEW p \in Registers, NEW i \in Lines
    PROVE  LET q == Started(p, i)
           IN  /\ q \in Registers
               /\ q.irr = p.irr \ {i} /\ q.imr = p.imr
               /\ q.special = p.special /\ q.autoEoi = p.autoEoi
               /\ ~p.autoEoi => q.isr = p.isr \cup {i} /\ q.active = i
<1>1. CASE p.autoEoi
    BY <1>1 DEF Started, Lowered, Registers
<1>2. CASE ~p.autoEoi
    <2> DEFINE p1 == Lowered(p, i)
               p2 == [p1 EXCEPT !.active = i]
               p3 == [p2 EXCEPT !.isr = @ \cup {i}]
    <2>1. p1 \in Registers /\ p1.irr = p.irr \ {i} /\ p1.isr = p.isr
        BY DEF Lowered, Registers
    <2>2. p2 \in Registers /\ p2.irr = p.irr \ {i} /\ p2.isr = p.isr /\ p2.active = i
        <3> HIDE DEF p1
        <3> QED
            BY <2>1, NLAssumption DEF Registers, Lines, Cascade
    <2>3. p3 \in Registers
        <3> HIDE DEF p2
        <3> QED
            BY <2>2 DEF Registers
    <2>4. Started(p, i) = p3
        BY <1>2 DEF Started
    <2> QED
        BY <1>2, <2>3, <2>4 DEF Lowered, Registers
<1> QED
    BY <1>1, <1>2

\* In the nested mode the best line leaves nothing ready behind
LEMMA StartedQuiet ==
    ASSUME NEW p \in Registers, NEW i \in Lines, Best(p, i), NestedOk(p)
    PROVE  /\ ~Ready(Started(p, i)) /\ NestedOk(Started(p, i))
           /\ \A j \in p.isr : i < j
<1> DEFINE q == Started(p, i)
<1>1. /\ q.irr = p.irr \ {i} /\ q.imr = p.imr /\ q.isr = p.isr \cup {i}
      /\ q.active = i /\ ~q.special /\ ~q.autoEoi
    BY StartedFields DEF NestedOk
<1>2. i < p.active /\ \A j \in Eligible(p) : i <= j
    BY DEF Best, Counts, Limit, NestedOk
<1>3. p.isr \subseteq Lines /\ Lines \subseteq Nat /\ NL \in Nat
    BY NLAssumption DEF Registers, Lines, Cascade
<1>4. p.irr \subseteq Lines /\ p.active \in 0 .. NL
    BY DEF Registers
<1>5. \A j \in p.isr : i < j
    <2> SUFFICES ASSUME NEW j \in p.isr PROVE i < j
        OBVIOUS
    <2>1. p.active <= j
        BY DEF NestedOk, IsActive
    <2>2. i \in Nat /\ j \in Nat /\ p.active \in Nat
        BY <1>3, <1>4
    <2> QED
        BY <1>2, <2>1, <2>2
<1>6. Limit(q) = i /\ Eligible(q) \subseteq Eligible(p)
    BY <1>1 DEF Limit, Eligible
<1>7. ~Ready(q)
    <2> SUFFICES ASSUME NEW j \in Eligible(p), j < i PROVE FALSE
        BY <1>6 DEF Ready
    <2>1. i \in Nat /\ j \in Nat
        BY <1>3, <1>4 DEF Eligible
    <2> QED
        BY <1>2, <2>1
<1>8. IsActive(q.isr, q.active)
    BY <1>1, <1>3, <1>5 DEF IsActive
<1> QED
    BY <1>1, <1>5, <1>7, <1>8 DEF NestedOk

\* PIC_runIRQs always finds the line that PIC_IRQCheck announced
LEMMA RunStep ==
    ASSUME Inv, ~fatal, RunIRQs
    PROVE  /\ Inv' /\ ~fatal' /\ irqCheck' = FALSE
           /\ accepts /\ accepts' = FALSE
           /\ \/ \E i \in Lines \ {Cascade} :
                     /\ Best(master, i) /\ master' = Started(master, i)
                     /\ UNCHANGED slave
              \/ \E j \in Lines :
                     /\ Best(master, Cascade) /\ master' = Started(master, Cascade)
                     /\ Best(slave, j) /\ slave' = Started(slave, j)
<1>0. /\ Cascade \in Lines /\ master \in Registers /\ slave \in Registers
      /\ Ready(master) /\ fatal = FALSE /\ accepts
    BY NLAssumption DEF RunIRQs, Inv, TypeOK, NoFalseSignal, Cascade, Lines
<1>1. CASE \E i \in Lines \ {Cascade} : Best(master, i) /\ MasterStartIRQ(i)
    <2>1. PICK i \in Lines \ {Cascade} : Best(master, i) /\ MasterStartIRQ(i)
        BY <1>1
    <2>2. /\ master' = Started(master, i) /\ slave' = slave
          /\ accepts' = FALSE /\ fatal' = fatal
        BY <2>1 DEF MasterStartIRQ
    <2>3. master' \in Registers /\ master'.irr \subseteq master.irr
        BY <1>0, <2>2, StartedFields
    <2>4. irqCheck' = FALSE
        BY <1>0, <2>2 DEF RunIRQs
    <2> QED
        BY <1>0, <2>1, <2>2, <2>3, <2>4 DEF Inv, TypeOK, NoFalseSignal
<1>2. CASE Best(master, Cascade) /\ SlaveStartIRQ
    <2>1. Ready(slave)
        BY <1>2 DEF Best, Counts, Inv, NoFalseSignal
    <2>2. PICK j \in Lines : /\ Best(slave, j)
                             /\ slave' = Started(slave, j)
                             /\ master' = Started(master, Cascade)
                             /\ accepts' = FALSE /\ fatal' = fatal
        BY <1>0, <1>2, <2>1 DEF SlaveStartIRQ
    <2>3. /\ master' \in Registers /\ slave' \in Registers
          /\ Cascade \notin master'.irr
        BY <1>0, <2>2, StartedFields
    <2>4. irqCheck' = FALSE
        BY <1>0, <2>2 DEF RunIRQs
    <2> QED
        BY <1>0, <1>2, <2>2, <2>3, <2>4 DEF Inv, TypeOK, NoFalseSignal
<1> QED
    BY <1>0, <1>1, <1>2 DEF RunIRQs

---------------------------------------------------------------------------
(* The theorems *)

LEMMA InitInv == Init => Inv /\ ~fatal
<1> SUFFICES ASSUME Init PROVE Inv /\ ~fatal
    OBVIOUS
<1>1. \A u : Reset(u) \in Registers /\ Reset(u).irr = {}
    BY NLAssumption DEF Reset, Registers, None, Cascade
<1> QED
    BY <1>1 DEF Init, Inv, TypeOK, NoFalseSignal

\* A step of the specification is an operation, a change of the CPU, a start or
\* a stutter
LEMMA NextInv ==
    ASSUME <<Master, Cascade>> \notin Wired, Inv, ~fatal, [Next]_vars
    PROVE  Inv' /\ ~fatal'
<1>1. CASE \E c \in {Master, Slave} : \E q, s : Operation(c, q, s)
    BY <1>1, SettleStep DEF Operation
<1>2. CASE \E b \in BOOLEAN : SetAccepts(b)
    BY <1>2 DEF SetAccepts, Inv, TypeOK, NoFalseSignal
<1>3. CASE RunIRQs
    BY <1>3, RunStep
<1>4. CASE UNCHANGED vars
    BY <1>4 DEF vars, Inv, TypeOK, NoFalseSignal
<1> QED
    BY <1>1, <1>2, <1>3, <1>4, GuestOperation, DeviceOperation DEF Next, Inv

\* Whatever modes the guest selects and however it initialises the
\* controllers, as long as no device is wired to line 2 of the master: every
\* register keeps its type,
THEOREM TypeCorrect ==
    ASSUME <<Master, Cascade>> \notin Wired
    PROVE  Spec => []TypeOK
<1>1. Inv /\ ~fatal /\ [Next]_vars => Inv' /\ ~fatal'
    BY NextInv
<1>2. Inv => TypeOK
    BY DEF Inv
<1> QED
    BY <1>1, <1>2, InitInv, PTL DEF Spec

\* PIC_IRQCheck and line 2 of the master are never set without a cause,
THEOREM SignalsHaveACause ==
    ASSUME <<Master, Cascade>> \notin Wired
    PROVE  Spec => []SoundSignals
<1>1. Inv /\ ~fatal /\ [Next]_vars => Inv' /\ ~fatal'
    BY NextInv
<1>2. Inv => SoundSignals
    BY DEF Inv, SoundSignals
<1> QED
    BY <1>1, <1>2, InitInv, PTL DEF Spec

\* and slave_startIRQ finds a line to serve whenever PIC_runIRQs calls it.
THEOREM CascadeNeverFails ==
    ASSUME <<Master, Cascade>> \notin Wired
    PROVE  Spec => []CascadeServed
<1>1. Inv /\ ~fatal /\ [Next]_vars => Inv' /\ ~fatal'
    BY NextInv
<1>2. ~fatal => CascadeServed
    BY DEF CascadeServed
<1> QED
    BY <1>1, <1>2, InitInv, PTL DEF Spec

\* The invariant of the nested mode
NestedInv == Inv /\ ~fatal /\ NoLostInterrupt /\ NestedOk(master) /\ NestedOk(slave)

LEMMA InitNested == Init => NestedInv
<1> SUFFICES ASSUME Init PROVE NestedInv
    OBVIOUS
<1>1. \A u : /\ Reset(u).irr = {} /\ Reset(u).isr = {} /\ Reset(u).active = None
             /\ Reset(u).special = FALSE /\ Reset(u).autoEoi = FALSE
    BY DEF Reset
<1>2. ~Ready(master) /\ ~Ready(slave)
    BY <1>1 DEF Init, Ready, Eligible
<1>3. NestedOk(master) /\ NestedOk(slave)
    BY <1>1 DEF Init, NestedOk, IsActive
<1> QED
    BY <1>2, <1>3, InitInv DEF NestedInv, NoLostInterrupt

LEMMA NextNested ==
    ASSUME <<Master, Cascade>> \notin Wired, Modes = {}, NestedInv, [Next]_vars
    PROVE  NestedInv' /\ (NestedStep \/ UNCHANGED vars)
<1>0. Inv' /\ ~fatal'
    BY NextInv DEF NestedInv
<1>1. CASE \E c \in {Master, Slave} : \E q, s : Operation(c, q, s)
    <2>1. PICK c \in {Master, Slave} : \E q, s : Operation(c, q, s)
        BY <1>1
    <2>2. PICK q, s : Operation(c, q, s)
        BY <2>1
    <2>3. NoLostInterrupt'
        BY <2>2, SettleStep DEF Operation, NestedInv
    <2>4. q.isr \subseteq Pic(c).isr /\ NestedOk(q)
        BY <2>2 DEF Operation, NestedInv, Pic
    <2>5. CASE c = Master
        <3>1. master' = q /\ slave' = slave
            BY <2>2, <2>5 DEF Operation, Settle, MasterTakes, Master, Slave
        <3>2. NestedOk(master') /\ NestedOk(slave')
            BY <2>4, <3>1 DEF NestedInv
        <3>3. master'.isr \subseteq master.isr /\ slave'.isr \subseteq slave.isr
            BY <2>4, <2>5, <3>1 DEF Pic
        <3> QED
            BY <1>0, <2>3, <3>2, <3>3 DEF NestedInv, NestedStep, Pic, Master, Slave
    <2>6. CASE c = Slave
        <3>1. slave' = q /\ Propagate(s)
            BY <2>2, <2>6 DEF Operation, Settle, Master, Slave
        <3>2. /\ master'.isr = master.isr /\ master'.active = master.active
              /\ master'.special = master.special /\ master'.autoEoi = master.autoEoi
            BY <3>1 DEF Propagate, MasterTakes, Raised, Lowered, NestedInv, Inv, TypeOK, Registers
        <3>3. NestedOk(master') /\ NestedOk(slave')
            BY <2>4, <3>1, <3>2 DEF NestedInv, NestedOk
        <3>4. slave'.isr \subseteq slave.isr
            BY <2>4, <2>6, <3>1 DEF Pic, Master, Slave
        <3> QED
            BY <1>0, <2>3, <3>2, <3>3, <3>4 DEF NestedInv, NestedStep, Pic, Master, Slave
    <2> QED
        BY <2>5, <2>6
<1>2. CASE (\E b \in BOOLEAN : SetAccepts(b)) \/ UNCHANGED vars
    <2>1. UNCHANGED <<master, slave, irqCheck>>
        BY <1>2 DEF SetAccepts, vars
    <2> QED
        BY <1>0, <2>1 DEF NestedInv, NoLostInterrupt, NestedStep, Pic, Master, Slave
<1>3. CASE RunIRQs
    <2>0. master \in Registers /\ slave \in Registers /\ Cascade \in Lines
        BY NLAssumption DEF NestedInv, Inv, TypeOK, Cascade, Lines
    <2>1. CASE \E i \in Lines \ {Cascade} :
                   /\ Best(master, i) /\ master' = Started(master, i) /\ UNCHANGED slave
        <3>1. PICK i \in Lines \ {Cascade} :
                   /\ Best(master, i) /\ master' = Started(master, i) /\ slave' = slave
            BY <2>1
        <3>2. /\ ~Ready(master') /\ NestedOk(master')
              /\ \A j \in master.isr : i < j
            BY <2>0, <3>1, StartedQuiet DEF NestedInv
        <3>3. master'.isr = master.isr \cup {i} /\ master'.irr = master.irr \ {i}
            BY <2>0, <3>1, StartedFields DEF NestedInv, NestedOk
        <3>4. i \in master.irr \ master.imr
            BY <3>1 DEF Best, Counts
        <3>5. NestedStep
            BY <3>1, <3>2, <3>3, <3>4 DEF NestedStep, Pic, Master, Slave
        <3> QED
            BY <1>0, <3>1, <3>2, <3>3, <3>5 DEF NestedInv, NoLostInterrupt
    <2>2. CASE \E j \in Lines :
                   /\ Best(master, Cascade) /\ master' = Started(master, Cascade)
                   /\ Best(slave, j) /\ slave' = Started(slave, j)
        <3>1. PICK j \in Lines :
                   /\ Best(master, Cascade) /\ master' = Started(master, Cascade)
                   /\ Best(slave, j) /\ slave' = Started(slave, j)
            BY <2>2
        <3>2. /\ ~Ready(master') /\ NestedOk(master')
              /\ \A k \in master.isr : Cascade < k
              /\ ~Ready(slave') /\ NestedOk(slave')
              /\ \A k \in slave.isr : j < k
            BY <2>0, <3>1, StartedQuiet DEF NestedInv
        <3>3. /\ master'.isr = master.isr \cup {Cascade}
              /\ slave'.isr = slave.isr \cup {j}
            BY <2>0, <3>1, StartedFields DEF NestedInv, NestedOk
        <3>4. Cascade \in master.irr \ master.imr /\ j \in slave.irr \ slave.imr
            BY <3>1 DEF Best, Counts
        <3>5. NestedStep
            BY <3>1, <3>2, <3>3, <3>4 DEF NestedStep, Pic, Master, Slave
        <3> QED
            BY <1>0, <3>2, <3>5 DEF NestedInv, NoLostInterrupt
    <2> QED
        BY <1>3, <2>1, <2>2, RunStep DEF NestedInv
<1> QED
    BY <1>1, <1>2, <1>3, GuestOperation, DeviceOperation DEF Next, NestedInv, Inv

\* In the nested mode no interrupt that can be served goes unannounced,
THEOREM NothingIsLost ==
    ASSUME <<Master, Cascade>> \notin Wired, Modes = {}
    PROVE  Spec => []NoLostInterrupt
<1>1. NestedInv /\ [Next]_vars => NestedInv'
    BY NextNested
<1>2. NestedInv => NoLostInterrupt
    BY DEF NestedInv
<1> QED
    BY <1>1, <1>2, InitNested, PTL DEF Spec

\* active_irq is the best line in service, the one a nonspecific EOI ends,
THEOREM ActiveIsBest ==
    ASSUME <<Master, Cascade>> \notin Wired, Modes = {}
    PROVE  Spec => []ActiveIsHighest
<1>1. NestedInv /\ [Next]_vars => NestedInv'
    BY NextNested
<1>2. NestedInv => ActiveIsHighest
    BY DEF NestedInv, NestedOk, ActiveIsHighest, Pic
<1> QED
    BY <1>1, <1>2, InitNested, PTL DEF Spec

\* and interrupts nest: one is started only above those in service.
THEOREM InterruptsNest ==
    ASSUME <<Master, Cascade>> \notin Wired, Modes = {}
    PROVE  Spec => Nested
<1>1. NestedInv /\ [Next]_vars => NestedInv' /\ [NestedStep]_vars
    BY NextNested
<1> QED
    BY <1>1, InitNested, PTL DEF Spec, Nested

---------------------------------------------------------------------------
(* The refinement: in the nested mode the lines that a device, the guest   *)
(* and the CPU see behave as if readiness were recomputed at each moment,  *)
(* and never read from the caches PIC_IRQCheck, active_irq and line 2 of   *)
(* the master.                                                             *)
(*                                                                         *)
(* Every operation changes one controller, and maps to the step of the     *)
(* same name.  Only a start needs the invariants: active_irq bounds what   *)
(* is free, and because no ready line of the slave goes unannounced on     *)
(* line 2, the best line of the master is the best of all.                 *)


\* The registers of c that the others see are those of q
Shows(c, q) ==
    /\ requested' = [requested EXCEPT ![c] = IF c = Master THEN q.irr \ {Cascade} ELSE q.irr]
    /\ masked' = [masked EXCEPT ![c] = q.imr]
    /\ serving' = [serving EXCEPT ![c] = q.isr]

\* An operation shows what it does to its own controller and nothing else: the
\* signal of the slave changes only line 2 of the master
LEMMA SettleShows ==
    ASSUME TypeOK, NEW c \in {Master, Slave}, NEW q, NEW s, Settle(c, q, s)
    PROVE  Shows(c, q) /\ accepts' = accepts
<1> USE DEF Master, Slave
<1>1. CASE c = Master
    BY <1>1 DEF Settle, MasterTakes, Shows, requested, masked, serving, Pic
<1>2. CASE c = Slave
    <2>1. slave' = q /\ Propagate(s) /\ accepts' = accepts
        BY <1>2 DEF Settle
    <2>2. /\ master'.irr \ {Cascade} = master.irr \ {Cascade}
          /\ master'.imr = master.imr /\ master'.isr = master.isr
        BY <2>1 DEF Propagate, MasterTakes, Raised, Lowered, TypeOK, Registers
    <2> QED
        BY <1>2, <2>1, <2>2 DEF Shows, requested, masked, serving, Pic
<1> QED
    BY <1>1, <1>2

\* What the three functions are for one controller
LEMMA Shown ==
    ASSUME NEW c \in {Master, Slave}
    PROVE  /\ requested[c] = IF c = Master THEN Pic(c).irr \ {Cascade} ELSE Pic(c).irr
           /\ masked[c] = Pic(c).imr /\ serving[c] = Pic(c).isr
    BY DEF requested, masked, serving, Pic, Master, Slave

LEMMA SameShown ==
    ASSUME NEW c \in {Master, Slave}
    PROVE  /\ requested = [requested EXCEPT ![c] = requested[c]]
           /\ masked = [masked EXCEPT ![c] = masked[c]]
           /\ serving = [serving EXCEPT ![c] = serving[c]]
    BY DEF requested, masked, serving

LEMMA SetImrMaps ==
    ASSUME TypeOK, NEW c \in {Master, Slave}, NEW m \in SUBSET Lines, SetImr(c, m)
    PROVE  Promise!Next
<1> DEFINE k == IF c = Master THEN m \ NmiLines ELSE m
           q == WithMask(Pic(c), k)
<1>1. Shows(c, q) /\ accepts' = accepts
    BY SettleShows DEF SetImr
<1>2. q.irr = Pic(c).irr /\ q.imr = k /\ q.isr = Pic(c).isr
    BY DEF WithMask, TypeOK, Registers, Pic
<1>3. Promise!SetMask(c, k)
    BY <1>1, <1>2, Shown, SameShown DEF Shows, Promise!SetMask
<1>4. c \in {Promise!Master, Promise!Slave} /\ k \in SUBSET Promise!Lines
    BY DEF Promise!Master, Promise!Slave, Promise!Lines, Master, Slave, Lines
<1> QED
    BY <1>3, <1>4 DEF Promise!Next

LEMMA EoiMaps ==
    ASSUME TypeOK, NEW c \in {Master, Slave}, NEW i \in Lines, Eoi(c, i)
    PROVE  Promise!Next
<1>1. PICK a \in 0 .. NL : Settle(c, Ended(Pic(c), i, a), EoiSignal(Pic(c), i, a))
    BY DEF Eoi
<1> DEFINE q == Ended(Pic(c), i, a)
<1>2. Shows(c, q) /\ accepts' = accepts
    BY <1>1, SettleShows
<1>3. q.irr = Pic(c).irr /\ q.imr = Pic(c).imr /\ q.isr = Pic(c).isr \ {i}
    BY DEF Ended, TypeOK, Registers, Pic
<1>4. Promise!End(c, i)
    BY <1>2, <1>3, Shown, SameShown DEF Shows, Promise!End
<1>5. c \in {Promise!Master, Promise!Slave} /\ i \in Promise!Lines
    BY DEF Promise!Master, Promise!Slave, Promise!Lines, Master, Slave, Lines
<1> QED
    BY <1>4, <1>5 DEF Promise!Next

\* The commands that only write mode or initialisation fields
LEMMA QuietMaps ==
    ASSUME TypeOK, NEW c \in {Master, Slave}, NEW q, Settle(c, q, "none"),
           q.irr = Pic(c).irr, q.imr = Pic(c).imr, q.isr = Pic(c).isr
    PROVE  UNCHANGED Promise!vars
<1>1. Shows(c, q) /\ accepts' = accepts
    BY SettleShows
<1> QED
    BY <1>1, Shown, SameShown DEF Shows, Promise!vars

LEMMA GuestMaps ==
    ASSUME TypeOK, \A p \in {Master, Slave} : IsActive(Pic(p).isr, Pic(p).active),
           Modes = {}, NEW c \in {Master, Slave}, Guest(c)
    PROVE  [Promise!Next]_(Promise!vars)
<1>0. Pic(c) \in Registers
    BY DEF TypeOK, Pic
<1>1. CASE \E m \in Masks : WriteMask(c, m)
    BY <1>1, SetImrMaps, MasksAssumption DEF WriteMask
<1>2. CASE \E i \in Lines : SpecificEoi(c, i)
    BY <1>2, EoiMaps DEF SpecificEoi
<1>3. CASE NonspecificEoi(c)
    <2>1. Pic(c).active \in Lines
        BY <1>0, <1>3 DEF NonspecificEoi, IsActive, Registers
    <2> QED
        BY <1>3, <2>1, EoiMaps DEF NonspecificEoi
<1>4. CASE \E on \in BOOLEAN : SpecialMask(c, on)
    BY <1>4 DEF SpecialMask
<1>5. CASE \E icw \in Icws : Icw1(c, icw[1], icw[2])
    <2>1. PICK icw \in Icws : Settle(c, Announced(Pic(c), icw[1], icw[2]), "none")
        BY <1>5 DEF Icw1
    <2>2. icw[1] \in BOOLEAN /\ icw[2] \in {2, 3}
        BY IcwsAssumption
    <2> QED
        BY <1>0, <2>1, <2>2, AnnouncedFields, QuietMaps
<1>6. CASE Icw2(c) \/ Icw3(c)
    <2>1. PICK n \in {0, 2, 3} : Settle(c, [Pic(c) EXCEPT !.icwIndex = n], "none")
        BY <1>6 DEF Icw2, Icw3
    <2> DEFINE q == [Pic(c) EXCEPT !.icwIndex = n]
    <2>2. q.irr = Pic(c).irr /\ q.imr = Pic(c).imr /\ q.isr = Pic(c).isr
        BY <1>0 DEF Registers
    <2> QED
        BY <2>1, <2>2, QuietMaps
<1>7. CASE \E auto \in BOOLEAN : Icw4(c, auto)
    <2>1. PICK auto \in BOOLEAN : Settle(c, Configured(Pic(c), auto), "none")
        BY <1>7 DEF Icw4
    <2> QED
        BY <1>0, <2>1, ConfiguredFields, QuietMaps
<1> QED
    BY <1>1, <1>2, <1>3, <1>4, <1>5, <1>6, <1>7 DEF Guest

LEMMA DeviceMaps ==
    ASSUME TypeOK, <<Master, Cascade>> \notin Wired, Device \/ Bios
    PROVE  Promise!Next
<1>1. CASE Bios
    <2>1. PICK w \in Wired, hide \in BOOLEAN : SetIRQMask(w[1], w[2], hide)
        BY <1>1 DEF Bios
    <2>2. w[1] \in {Master, Slave} /\ w[2] \in Lines
        BY WiredAssumption
    <2> DEFINE m == IF hide THEN Pic(w[1]).imr \cup {w[2]} ELSE Pic(w[1]).imr \ {w[2]}
    <2>3. m \in SUBSET Lines /\ SetImr(w[1], m)
        BY <2>1, <2>2 DEF SetIRQMask, TypeOK, Pic, Registers
    <2> QED
        BY <2>2, <2>3, SetImrMaps
<1>2. CASE Device
    <2>1. PICK w \in Wired : ActivateIRQ(w[1], w[2]) \/ DeActivateIRQ(w[1], w[2])
        BY <1>2 DEF Device
    <2>2. /\ w[1] \in {Master, Slave} /\ w[2] \in Lines
          /\ w[1] = Master => w[2] # Cascade
          /\ Pic(w[1]) \in Registers
        BY WiredAssumption DEF TypeOK, Pic
    <2> DEFINE c == w[1]
               up == Raised(Pic(c), w[2])
               down == Lowered(Pic(c), w[2])
    <2>3. CASE ActivateIRQ(w[1], w[2])
        <3>1. Shows(c, up) /\ accepts' = accepts
            BY <2>2, <2>3, SettleShows DEF ActivateIRQ
        <3>2. /\ up.irr = Pic(c).irr \cup {w[2]}
              /\ up.imr = Pic(c).imr /\ up.isr = Pic(c).isr
            BY <2>2 DEF Raised, Registers
        <3>3. (IF c = Master THEN up.irr \ {Cascade} ELSE up.irr) = requested[c] \cup {w[2]}
            BY <2>2, <3>2, Shown
        <3>4. Promise!Request(w[1], w[2])
            BY <2>2, <3>1, <3>2, <3>3, Shown, SameShown DEF Shows, Promise!Request
        <3> QED
            BY <3>4 DEF Promise!Next
    <2>4. CASE DeActivateIRQ(w[1], w[2])
        <3>1. Shows(c, down) /\ accepts' = accepts
            BY <2>2, <2>4, SettleShows DEF DeActivateIRQ
        <3>2. /\ down.irr = Pic(c).irr \ {w[2]}
              /\ down.imr = Pic(c).imr /\ down.isr = Pic(c).isr
            BY <2>2 DEF Lowered, Registers
        <3>3. (IF c = Master THEN down.irr \ {Cascade} ELSE down.irr) = requested[c] \ {w[2]}
            BY <2>2, <3>2, Shown
        <3>4. Promise!Withdraw(w[1], w[2])
            BY <2>2, <3>1, <3>2, <3>3, Shown, SameShown DEF Shows, Promise!Withdraw
        <3> QED
            BY <3>4 DEF Promise!Next
    <2> QED
        BY <2>1, <2>3, <2>4
<1> QED
    BY <1>1, <1>2
---------------------------------------------------------------------------
(* The CPU takes the best deliverable line of the two controllers           *)

\* Only lines that a device drives are requested
WiredRequests == \A c \in {Master, Slave} : \A i \in requested[c] : <<c, i>> \in Wired

\* A line that is deliverable is eligible, and below the line in service
LEMMA DeliverableCounts ==
    ASSUME NestedInv, NEW c \in {Master, Slave}, NEW i, Promise!Deliverable(c, i)
    PROVE  i \in Eligible(Pic(c)) /\ i < Limit(Pic(c)) /\ (c = Master => i # Cascade)
<1>1. Pic(c) \in Registers /\ NestedOk(Pic(c))
    BY DEF NestedInv, Inv, TypeOK, Pic
<1>2. /\ i \in requested[c] /\ i \notin masked[c]
      /\ \A j \in serving[c] : i < j
    BY DEF Promise!Deliverable, Promise!Free
<1>3. i \in Pic(c).irr /\ i \notin Pic(c).imr /\ \A j \in Pic(c).isr : i < j
    BY <1>2, Shown
<1>4. i \in Lines /\ Lines \subseteq Nat /\ i < NL
    BY <1>1, <1>3, NLAssumption DEF Registers, Lines, Cascade
<1>5. i \notin Pic(c).isr
    BY <1>3, <1>4
<1>6. Limit(Pic(c)) = Pic(c).active /\ (Pic(c).active \in Pic(c).isr \/ Pic(c).active = NL)
    BY <1>1 DEF Limit, NestedOk, IsActive, None
<1> QED
    BY <1>2, <1>3, <1>4, <1>5, <1>6, Shown DEF Eligible

\* When the slave has a deliverable line, its request stands on line 2
LEMMA SlaveAnnounced ==
    ASSUME NestedInv, NEW i, Promise!Deliverable(Slave, i)
    PROVE  Cascade \in Eligible(master)
<1>1. Pic(Slave) = slave /\ Pic(Master) = master
    BY DEF Pic, Master, Slave
<1>2. Ready(slave)
    BY <1>1, DeliverableCounts DEF Ready
<1>3. Cascade \in master.irr
    BY <1>2 DEF NestedInv, NoLostInterrupt
<1>4. Cascade \notin masked[Master] /\ \A j \in serving[Master] : Cascade < j
    BY DEF Promise!Deliverable, Promise!Free, Promise!Slave, Promise!Master,
           Promise!Cascade, Slave, Master, Cascade
<1>5. Cascade \notin master.imr /\ \A j \in master.isr : Cascade < j
    BY <1>1, <1>4, Shown
<1>6. Cascade \notin master.isr
    BY <1>5 DEF Cascade
<1> QED
    BY <1>3, <1>5, <1>6 DEF Eligible

LEMMA RunMaps ==
    ASSUME NestedInv, WiredRequests, RunIRQs
    PROVE  Promise!Next
<1>0. /\ master \in Registers /\ slave \in Registers /\ Cascade \in Lines
      /\ NestedOk(master) /\ NestedOk(slave)
      /\ Lines \subseteq Nat
    BY NLAssumption DEF NestedInv, Inv, TypeOK, Cascade, Lines
<1>1. accepts /\ accepts' = FALSE
    BY RunStep DEF NestedInv
<1>2. Pic(Slave) = slave /\ Pic(Master) = master
    BY DEF Pic, Master, Slave
<1> USE DEF Promise!Master, Promise!Slave, Promise!Cascade
<1>3. CASE \E i \in Lines \ {Cascade} :
               /\ Best(master, i) /\ master' = Started(master, i) /\ UNCHANGED slave
    <2>1. PICK i \in Lines \ {Cascade} :
               /\ Best(master, i) /\ master' = Started(master, i) /\ slave' = slave
        BY <1>3
    <2>2. \A j \in master.isr : i < j
        BY <1>0, <2>1, StartedQuiet
    <2>3. /\ master'.isr = master.isr \cup {i} /\ master'.irr = master.irr \ {i}
          /\ master'.imr = master.imr
        BY <1>0, <2>1, StartedFields DEF NestedOk
    <2>4. /\ i \in master.irr /\ i \notin master.imr
          /\ \A j \in Eligible(master) : i <= j
        BY <2>1 DEF Best, Counts
    <2>5. Promise!Deliverable(Master, i)
        BY <1>2, <2>1, <2>2, <2>4, Shown
        DEF Promise!Deliverable, Promise!Free, Master, Slave
    <2>6. ASSUME NEW w \in Wired, Promise!Deliverable(w[1], w[2])
          PROVE  \/ Promise!Level(Master, i) < Promise!Level(w[1], w[2])
                 \/ Master = w[1] /\ i <= w[2]
        <3>1. w[1] \in {Master, Slave}
            BY WiredAssumption
        <3>2. CASE w[1] = Master
            BY <1>2, <2>4, <2>6, <3>2, DeliverableCounts
        <3>3. CASE w[1] = Slave
            <4>1. i <= Cascade
                BY <2>4, <2>6, <3>3, SlaveAnnounced
            <4> QED
                BY <1>0, <2>1, <3>3, <4>1 DEF Promise!Level, Master, Slave, Cascade
        <3> QED
            BY <3>1, <3>2, <3>3
    <2>7. Promise!Top(Master, i)
        BY <2>5, <2>6 DEF Promise!Top
    <2>8. /\ requested' = [requested EXCEPT ![Master] = @ \ {i}]
          /\ masked' = masked
        BY <2>1, <2>3 DEF requested, masked, Pic, Master, Slave
    <2>9. serving' = [d \in {Master, Slave} |->
                         IF d = Master THEN serving[Master] \cup {i}
                         ELSE IF d = Master THEN serving[d] \cup {Cascade}
                         ELSE serving[d]]
        BY <2>1, <2>3 DEF serving, Pic, Master, Slave
    <2>10. Promise!Take(Master, i)
        BY <1>1, <2>7, <2>8, <2>9 DEF Promise!Take, Master, Slave, Cascade
    <2>11. <<Master, i>> \in Wired
        BY <2>5 DEF WiredRequests, Promise!Deliverable
    <2> QED
        BY <2>10, <2>11 DEF Promise!Next, Promise!TakeSome
<1>4. CASE \E j \in Lines :
               /\ Best(master, Cascade) /\ master' = Started(master, Cascade)
               /\ Best(slave, j) /\ slave' = Started(slave, j)
    <2>1. PICK i \in Lines :
               /\ Best(master, Cascade) /\ master' = Started(master, Cascade)
               /\ Best(slave, i) /\ slave' = Started(slave, i)
        BY <1>4
    <2>2. /\ \A j \in master.isr : Cascade < j
          /\ \A j \in slave.isr : i < j
        BY <1>0, <2>1, StartedQuiet
    <2>3. /\ master'.isr = master.isr \cup {Cascade} /\ master'.irr = master.irr \ {Cascade}
          /\ slave'.isr = slave.isr \cup {i} /\ slave'.irr = slave.irr \ {i}
          /\ master'.imr = master.imr /\ slave'.imr = slave.imr
        BY <1>0, <2>1, StartedFields DEF NestedOk
    <2>4. /\ Cascade \notin master.imr /\ i \in slave.irr /\ i \notin slave.imr
          /\ \A j \in Eligible(master) : Cascade <= j
          /\ \A j \in Eligible(slave) : i <= j
        BY <2>1 DEF Best, Counts
    <2>5. Promise!Deliverable(Slave, i)
        BY <1>2, <2>1, <2>2, <2>4, Shown
        DEF Promise!Deliverable, Promise!Free, Master, Slave, Cascade
    <2>6. ASSUME NEW w \in Wired, Promise!Deliverable(w[1], w[2])
          PROVE  \/ Promise!Level(Slave, i) < Promise!Level(w[1], w[2])
                 \/ Slave = w[1] /\ i <= w[2]
        <3>1. w[1] \in {Master, Slave}
            BY WiredAssumption
        <3>2. CASE w[1] = Master
            <4>1. w[2] \in Eligible(master) /\ w[2] # Cascade
                BY <1>2, <2>6, <3>2, DeliverableCounts
            <4>2. Cascade <= w[2] /\ w[2] \in Nat
                BY <1>0, <2>4, <4>1 DEF Eligible, Registers
            <4> QED
                BY <3>2, <4>1, <4>2 DEF Promise!Level, Master, Slave, Cascade
        <3>3. CASE w[1] = Slave
            BY <1>2, <2>4, <2>6, <3>3, DeliverableCounts
        <3> QED
            BY <3>1, <3>2, <3>3
    <2>7. Promise!Top(Slave, i)
        BY <2>5, <2>6 DEF Promise!Top
    <2>8. /\ requested' = [requested EXCEPT ![Slave] = @ \ {i}]
          /\ masked' = masked
        BY <2>3 DEF requested, masked, Pic, Master, Slave
    <2>9. serving' = [d \in {Master, Slave} |->
                         IF d = Slave THEN serving[Slave] \cup {i}
                         ELSE IF d = Master THEN serving[d] \cup {Cascade}
                         ELSE serving[d]]
        BY <2>3 DEF serving, Pic, Master, Slave
    <2>10. Promise!Take(Slave, i)
        BY <1>1, <2>7, <2>8, <2>9 DEF Promise!Take, Master, Slave, Cascade
    <2>11. <<Slave, i>> \in Wired
        BY <2>5 DEF WiredRequests, Promise!Deliverable
    <2> QED
        BY <2>10, <2>11 DEF Promise!Next, Promise!TakeSome
<1> QED
    BY <1>3, <1>4, RunStep DEF NestedInv
---------------------------------------------------------------------------
(* The theorem *)

LEMMA InitMaps == Init => Promise!Init /\ WiredRequests
<1> SUFFICES ASSUME Init PROVE Promise!Init /\ WiredRequests
    OBVIOUS
<1>1. \A u : /\ Reset(u).irr = {} /\ Reset(u).isr = {}
             /\ Reset(u).imr = Lines \ u
    BY DEF Reset
<1>2. /\ requested = [c \in {Master, Slave} |-> {}]
      /\ serving = [c \in {Master, Slave} |-> {}]
      /\ masked \in [{Master, Slave} -> SUBSET Lines]
    BY <1>1 DEF Init, requested, serving, masked, Pic
<1> QED
    BY <1>2 DEF Init, WiredRequests, Promise!Init, Promise!Master, Promise!Slave,
                Promise!Lines, Master, Slave, Lines

\* Every step is a step of InterruptPriority, or one that nobody can see
LEMMA NextMaps ==
    ASSUME <<Master, Cascade>> \notin Wired, Modes = {}, NestedInv, WiredRequests, [Next]_vars
    PROVE  [Promise!Next]_(Promise!vars)
<1>1. TypeOK /\ \A p \in {Master, Slave} : IsActive(Pic(p).isr, Pic(p).active)
    BY DEF NestedInv, NestedOk, Inv, Pic
<1>2. CASE \E b \in BOOLEAN : SetAccepts(b)
    <2>1. PICK b \in BOOLEAN : SetAccepts(b)
        BY <1>2
    <2>2. Promise!SetAccepts(b)
        BY <2>1 DEF SetAccepts, Promise!SetAccepts, requested, masked, serving, Pic
    <2> QED
        BY <2>2 DEF Promise!Next
<1>3. CASE UNCHANGED vars
    BY <1>3 DEF vars, Promise!vars, requested, masked, serving, Pic
<1> QED
    BY <1>1, <1>2, <1>3, GuestMaps, DeviceMaps, RunMaps DEF Next

\* What is requested stays wired, whatever the abstract step
LEMMA NextWired ==
    ASSUME WiredRequests, [Promise!Next]_(Promise!vars)
    PROVE  WiredRequests'
<1> USE DEF Promise!Master, Promise!Slave, Master, Slave
<1>0. DOMAIN requested = {Master, Slave}
    BY DEF requested
<1>1. CASE \E w \in Wired : Promise!Request(w[1], w[2]) \/ Promise!Withdraw(w[1], w[2])
    <2>1. PICK w \in Wired : Promise!Request(w[1], w[2]) \/ Promise!Withdraw(w[1], w[2])
        BY <1>1
    <2>2. w = <<w[1], w[2]>> /\ w[1] \in {Master, Slave}
        BY WiredAssumption
    <2>3. \A c \in {Master, Slave} : \A i \in requested'[c] :
              i \in requested[c] \/ (c = w[1] /\ i = w[2])
        BY <1>0, <2>1, <2>2 DEF Promise!Request, Promise!Withdraw
    <2> QED
        BY <2>2, <2>3 DEF WiredRequests
<1>2. CASE \E w \in Wired : Promise!Take(w[1], w[2])
    <2>1. \A c \in {Master, Slave} : requested'[c] \subseteq requested[c]
        BY <1>0, <1>2 DEF Promise!Take
    <2> QED
        BY <2>1 DEF WiredRequests
<1>3. CASE requested' = requested
    BY <1>3 DEF WiredRequests
<1> QED
    BY <1>1, <1>2, <1>3
    DEF Promise!Next, Promise!vars, Promise!SetMask, Promise!End, Promise!SetAccepts,
        Promise!TakeSome

\* In the nested mode the controllers do nothing that the abstract priority
\* interrupts may not do: from the first state on, every change of what devices,
\* guest and CPU see is one of its steps.
THEOREM ImplementsSafety ==
    ASSUME <<Master, Cascade>> \notin Wired, Modes = {}
    PROVE  Spec => Promise!Safety
<1>1. NestedInv /\ [Next]_vars => NestedInv'
    BY NextNested
<1>2. NestedInv /\ WiredRequests /\ [Next]_vars =>
          [Promise!Next]_(Promise!vars) /\ WiredRequests'
    BY NextMaps, NextWired
<1> QED
    BY <1>1, <1>2, InitNested, InitMaps, PTL DEF Spec, Promise!Safety
=============================================================================
