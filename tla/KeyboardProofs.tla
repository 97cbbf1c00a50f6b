--------------------------- MODULE KeyboardProofs ---------------------------
(***************************************************************************)
(* Proofs about Keyboard, for a buffer and a keyboard of any size.         *)
(*                                                                         *)
(* Every function of the source leaves the buffer Consistent: what is said *)
(* of the scheduled transfer and of the port follows from that.  The order *)
(* of the codes is proved apart: each function moves the entries of the    *)
(* ring in one of four ways (Orderly), which are those of a queue.         *)
(***************************************************************************)
EXTENDS Keyboard, TLAPS

\* What holds of the ring and port 60h between two calls: a transfer is in the
\* event queue exactly when keyb.scheduled says so and then there is a code to
\* transfer; codes that wait have a transfer or an unread code before them; and
\* a transfer waits while something is in the port only when that is the output
\* port, which the guest may ask for at any time.
Consistent(s) ==
    /\ s \in Buffers
    /\ s.scheduled <=> s.events = 1
    /\ s.scheduled => s.used > 0
    /\ s.used > 0 => s.scheduled \/ s.p60changed
    /\ s.scheduled /\ s.p60changed => s.p60data = Outport

LEMMA SlotInRing ==
    ASSUME NEW a \in Nat, NEW b \in Nat
    PROVE  (a + b) % KEYBUFSIZE \in Slots
BY BufferAssumption DEF Slots

\* Scheduling a transfer for a code that has none
LEMMA ScheduleConsistent ==
    ASSUME NEW s \in Buffers, s.used > 0, s.events = 0, ~s.p60changed
    PROVE  Consistent(Schedule(s))
<1> DEFINE a == [s EXCEPT !.scheduled = TRUE]
           b == [a EXCEPT !.events = s.events + 1]
<1>1. /\ a \in Buffers /\ a.scheduled /\ a.used = s.used /\ a.events = 0
      /\ ~a.p60changed
    BY DEF Buffers
<1>2. Schedule(s) = b
    BY DEF Schedule, Buffers
<1> HIDE DEF a
<1>3. b \in Buffers /\ b.scheduled /\ b.used = a.used /\ b.events = 1 /\ ~b.p60changed
    BY <1>1 DEF Buffers
<1> QED
    BY <1>1, <1>2, <1>3 DEF Consistent

\* KEYBOARD_AddBuffer keeps the buffer consistent and the port as it is.
LEMMA AddBufferConsistent ==
    ASSUME NEW s, Consistent(s), NEW code \in Codes
    PROVE  /\ Consistent(AddBuffer(s, code))
           /\ AddBuffer(s, code).p60data = s.p60data
           /\ AddBuffer(s, code).p60changed = s.p60changed
<1> DEFINE t == [s EXCEPT !.buffer[Slot(s)] = code, !.used = @ + 1]
<1>1. CASE s.used >= KEYBUFSIZE
    BY <1>1 DEF AddBuffer
<1>2. CASE ~(s.used >= KEYBUFSIZE)
    <2>1. /\ s \in Buffers /\ s.used \in Nat /\ s.used + 1 \in 0 .. KEYBUFSIZE
          /\ s.pos \in Nat
        BY <1>2, BufferAssumption DEF Consistent, Buffers, Slots
    <2>2. Slot(s) \in Slots
        BY <2>1, SlotInRing DEF Slot
    <2>3. [s.buffer EXCEPT ![Slot(s)] = code] \in [Slots -> Codes \cup {Stale}]
        BY <2>1 DEF Buffers
    <2>4. /\ t \in Buffers /\ t.used = s.used + 1 /\ t.scheduled = s.scheduled
          /\ t.events = s.events /\ t.p60changed = s.p60changed /\ t.p60data = s.p60data
        BY <2>1, <2>3 DEF Buffers
    <2> HIDE DEF t
    <2>5. CASE ~s.scheduled /\ ~s.p60changed
        <3>1. AddBuffer(s, code) = Schedule(t)
            BY <1>2, <2>5 DEF AddBuffer, t
        <3>2. t.events = 0 /\ t.used > 0
            BY <2>1, <2>4, <2>5 DEF Consistent, Buffers
        <3>3. Schedule(t).p60data = t.p60data /\ Schedule(t).p60changed = t.p60changed
            BY <2>4 DEF Schedule, Buffers
        <3> QED
            BY <2>4, <2>5, <3>1, <3>2, <3>3, ScheduleConsistent
    <2>6. CASE s.scheduled \/ s.p60changed
        <3>1. AddBuffer(s, code) = t
            BY <1>2, <2>6 DEF AddBuffer, t
        <3> QED
            BY <2>1, <2>4, <2>6, <3>1 DEF Consistent
    <2> QED
        BY <2>5, <2>6
<1> QED
    BY <1>1, <1>2

\* KEYBOARD_ClrBuffer makes any buffer consistent.
LEMMA ClearedConsistent ==
    ASSUME NEW s \in Buffers
    PROVE  /\ Consistent(Cleared(s))
           /\ Cleared(s).p60data = s.p60data
<1> DEFINE a == [s EXCEPT !.buffer = [i \in Slots |-> Stale]]
           b == [a EXCEPT !.used = 0]
           c == [b EXCEPT !.pos = 0]
           d == [c EXCEPT !.scheduled = FALSE]
           e == [d EXCEPT !.events = 0]
<1>1. 0 \in Slots /\ 0 \in 0 .. KEYBUFSIZE
    BY BufferAssumption DEF Slots
<1>2. Cleared(s) = e
    BY DEF Cleared, Buffers
<1>3. a \in Buffers /\ a.p60data = s.p60data
    BY DEF Buffers
<1> HIDE DEF a
<1>4. b \in Buffers /\ b.used = 0 /\ b.p60data = a.p60data
    BY <1>1, <1>3 DEF Buffers
<1> HIDE DEF b
<1>5. c \in Buffers /\ c.used = 0 /\ c.p60data = b.p60data
    BY <1>1, <1>4 DEF Buffers
<1> HIDE DEF c
<1>6. d \in Buffers /\ d.used = 0 /\ ~d.scheduled /\ d.p60data = c.p60data
    BY <1>5 DEF Buffers
<1> HIDE DEF d
<1>7. e \in Buffers /\ e.used = 0 /\ ~e.scheduled /\ e.events = 0 /\ e.p60data = d.p60data
    BY <1>6 DEF Buffers
<1> QED
    BY <1>2, <1>3, <1>4, <1>5, <1>6, <1>7 DEF Consistent

LEMMA TakenConsistent ==
    ASSUME NEW s, Consistent(s)
    PROVE  /\ Consistent(TakenFromPort(s))
           /\ TakenFromPort(s).p60data = s.p60data
<1> DEFINE t == [s EXCEPT !.p60changed = FALSE]
<1>1. /\ t \in Buffers /\ t.used = s.used /\ t.scheduled = s.scheduled
      /\ t.events = s.events /\ ~t.p60changed /\ t.p60data = s.p60data
    BY DEF Consistent, Buffers
<1> HIDE DEF t
<1>2. CASE ~t.scheduled /\ t.used > 0
    <2>1. TakenFromPort(s) = Schedule(t) /\ t.events = 0
        BY <1>1, <1>2 DEF TakenFromPort, t, Consistent, Buffers
    <2>2. Schedule(t).p60data = t.p60data
        BY <1>1 DEF Schedule, Buffers
    <2> QED
        BY <1>1, <1>2, <2>1, <2>2, ScheduleConsistent
<1>3. CASE ~(~t.scheduled /\ t.used > 0)
    <2>1. TakenFromPort(s) = t
        BY <1>3 DEF TakenFromPort, t
    <2> QED
        BY <1>1, <1>3, <2>1 DEF Consistent
<1> QED
    BY <1>2, <1>3

\* KEYBOARD_SetPort60, for a code from the buffer or the output port
LEMMA PortFields ==
    ASSUME NEW s \in Buffers, NEW code \in Codes \cup {Stale, Outport}
    PROVE  LET t == SetPort60(s, code)
           IN  /\ t \in Buffers /\ t.p60changed /\ t.p60data = code
               /\ t.used = s.used /\ t.scheduled = s.scheduled /\ t.events = s.events
<1> DEFINE a == [s EXCEPT !.p60changed = TRUE]
           b == [a EXCEPT !.p60data = code]
<1>1. /\ a \in Buffers /\ a.p60changed /\ a.used = s.used
      /\ a.scheduled = s.scheduled /\ a.events = s.events
    BY DEF Buffers
<1>2. SetPort60(s, code) = b
    BY DEF SetPort60, Buffers
<1> HIDE DEF a
<1>3. /\ b \in Buffers /\ b.p60changed /\ b.p60data = code /\ b.used = a.used
      /\ b.scheduled = a.scheduled /\ b.events = a.events
    BY <1>1 DEF Buffers
<1> QED
    BY <1>1, <1>2, <1>3

LEMMA TransferredFields ==
    ASSUME NEW s \in Buffers, s.used > 0
    PROVE  LET t == Transferred(s)
           IN  /\ t \in Buffers /\ t.p60changed
               /\ t.scheduled = s.scheduled /\ t.events = s.events
<1> DEFINE p == SetPort60(s, s.buffer[s.pos])
           q == [p EXCEPT !.buffer = [p.buffer EXCEPT ![s.pos] = Stale]]
           r == [q EXCEPT !.pos = (p.pos + 1) % KEYBUFSIZE]
           w == [r EXCEPT !.used = p.used - 1]
<1>1. s.used \in 0 .. KEYBUFSIZE /\ s.buffer[s.pos] \in Codes \cup {Stale, Outport}
    BY DEF Buffers
<1>2. /\ p \in Buffers /\ p.p60changed /\ p.used = s.used
      /\ p.scheduled = s.scheduled /\ p.events = s.events
    BY <1>1, PortFields
<1>3. Transferred(s) = [p EXCEPT !.buffer[s.pos] = Stale, !.pos = (@ + 1) % KEYBUFSIZE,
                                 !.used = @ - 1]
    BY DEF Transferred
<1> HIDE DEF p
<1>4. Transferred(s) = w
    BY <1>2, <1>3 DEF Buffers
<1>5. [p.buffer EXCEPT ![s.pos] = Stale] \in [Slots -> Codes \cup {Stale}]
    BY <1>2 DEF Buffers
<1>6. /\ q \in Buffers /\ q.p60changed /\ q.scheduled = p.scheduled
      /\ q.events = p.events
    BY <1>2, <1>5 DEF Buffers
<1> HIDE DEF q
<1>7. (p.pos + 1) % KEYBUFSIZE \in Slots
    <2>1. p.pos \in Slots
        BY <1>2 DEF Buffers
    <2>2. p.pos \in Nat /\ 1 \in Nat
        BY <2>1, BufferAssumption DEF Slots
    <2> HIDE DEF r, w
    <2> QED
        BY <2>2, SlotInRing
<1>8. /\ r \in Buffers /\ r.p60changed /\ r.scheduled = q.scheduled
      /\ r.events = q.events
    BY <1>6, <1>7 DEF Buffers
<1> HIDE DEF r
<1>9. p.used - 1 \in 0 .. KEYBUFSIZE
    BY <1>1, <1>2, BufferAssumption
<1>10. /\ w \in Buffers /\ w.p60changed /\ w.scheduled = r.scheduled
       /\ w.events = r.events
    BY <1>8, <1>9 DEF Buffers
<1> QED
    BY <1>2, <1>4, <1>6, <1>8, <1>10

\* The transfer finds a code, and nothing in the port that is still to be read
\* but the output port.
LEMMA TransferConsistent ==
    ASSUME Consistent(keyb), TransferBuffer
    PROVE  Consistent(keyb') /\ (keyb.p60changed => keyb.p60data = Outport)
<1> DEFINE a == [keyb EXCEPT !.scheduled = FALSE]
           b == [a EXCEPT !.events = keyb.events - 1]
<1>1. /\ keyb \in Buffers /\ keyb.events = 1 /\ keyb.scheduled /\ keyb.used > 0
    BY DEF TransferBuffer, Consistent, Buffers
<1>2. a \in Buffers /\ ~a.scheduled /\ a.used = keyb.used /\ a.events = 1
    BY <1>1 DEF Buffers
<1>3. [keyb EXCEPT !.scheduled = FALSE, !.events = @ - 1] = b
    BY <1>1 DEF Buffers
<1> HIDE DEF a
<1>4. b \in Buffers /\ ~b.scheduled /\ b.used = keyb.used /\ b.events = 0
    BY <1>1, <1>2 DEF Buffers
<1> HIDE DEF b
<1>5. keyb' = Transferred(b)
    <2>1. keyb' = IF b.used = 0 THEN b ELSE Transferred(b)
        BY <1>3 DEF TransferBuffer
    <2> QED
        BY <2>1, <1>1, <1>4 DEF Buffers
<1>6. keyb' \in Buffers /\ keyb'.p60changed /\ ~keyb'.scheduled /\ keyb'.events = 0
    BY <1>1, <1>4, <1>5, TransferredFields
<1> QED
    BY <1>1, <1>6 DEF Consistent

---------------------------------------------------------------------------
(* The invariant *)

\* Together with the types of the other variables, and the key that repeats
Inv == TypeOK /\ Consistent(keyb) /\ OnlyHeldRepeats

LEMMA AckIsCode == Ack \in Codes /\ Outport \notin Codes
BY DEF Ack, Codes, Outport

LEMMA AcknowledgedConsistent ==
    ASSUME Inv
    PROVE  Consistent(Acknowledged) /\ Acknowledged.p60data = keyb.p60data
BY ClearedConsistent, AddBufferConsistent, AckIsCode DEF Inv, TypeOK, Acknowledged

LEMMA EnteredConsistent ==
    ASSUME Consistent(keyb), NEW k \in Keys, NEW pressed \in BOOLEAN
    PROVE  /\ Consistent(Entered(keyb, k, pressed))
           /\ Entered(keyb, k, pressed).p60data = keyb.p60data
<1> DEFINE t == IF k \in Extended THEN AddBuffer(keyb, Prefix(k)) ELSE keyb
           code == IF pressed THEN Make(k) ELSE Break(k)
<1>1. Prefix(k) \in Codes /\ code \in Codes
    BY DEF Prefix, Make, Break, Codes
<1>2. Consistent(t) /\ t.p60data = keyb.p60data
    BY <1>1, AddBufferConsistent
<1>3. Entered(keyb, k, pressed) = AddBuffer(t, code)
    BY DEF Entered
<1> HIDE DEF t, code
<1> QED
    BY <1>1, <1>2, <1>3, AddBufferConsistent

\* What a step may do to the port: keep what is in it, bring the output port,
\* or replace what is not an unread code
PortKept ==
    keyb.p60changed /\ keyb.p60data \in Codes /\ keyb'.p60data # keyb.p60data
        => keyb'.p60data = Outport

LEMMA InitInv == Init => Inv
<1> SUFFICES ASSUME Init PROVE Inv
    OBVIOUS
<1>1. 0 \in Slots /\ 0 \in 0 .. KEYBUFSIZE
    BY BufferAssumption DEF Slots
<1>2. keyb \in Buffers /\ keyb.used = 0 /\ ~keyb.scheduled /\ keyb.events = 0
    BY <1>1 DEF Init, Buffers
<1>3. Consistent(keyb)
    BY <1>2 DEF Consistent
<1>4. PICK rate \in Rates : repeat = [key |-> KBD_NONE, wait |-> 0, pause |-> rate[1],
                                      rate |-> rate[2]]
    BY DEF Init
<1>5. rate[1] \in Nat \ {0} /\ rate[2] \in Nat \ {0}
    BY RatesAssumption
<1>6. /\ repeat \in [key : Keys \cup {KBD_NONE}, wait : Nat, pause : Nat \ {0},
                      rate : Nat \ {0}]
      /\ repeat.key = KBD_NONE /\ repeat.wait = 0
    BY <1>4, <1>5
<1>7. command \in Commands /\ irq \in BOOLEAN /\ held \subseteq Keys
    BY DEF Init, Commands
<1>8. OnlyHeldRepeats
    BY <1>6 DEF OnlyHeldRepeats
<1> QED
    BY <1>2, <1>3, <1>6, <1>7, <1>8 DEF Inv, TypeOK

\* Steps that leave the typematic alone
LEMMA GuestStep ==
    ASSUME Inv, TransferBuffer \/ Guest \/ ClrBuffer
    PROVE  Inv' /\ PortKept
<1>0. TypeOK /\ Consistent(keyb) /\ OnlyHeldRepeats /\ keyb \in Buffers
    BY DEF Inv, Consistent
<1>1. Consistent(keyb') /\ PortKept
    <2>1. CASE TransferBuffer
        BY <1>0, <2>1, TransferConsistent, AckIsCode DEF PortKept
    <2>2. CASE keyb' = TakenFromPort(keyb)
        BY <1>0, <2>2, TakenConsistent DEF PortKept
    <2>3. CASE keyb' = Acknowledged
        BY <2>3, AcknowledgedConsistent DEF PortKept
    <2>4. CASE Activate
        <3>1. CASE keyb.used > 0 /\ ~keyb.scheduled /\ ~keyb.p60changed
            <4>1. keyb' = Schedule(keyb) /\ keyb.events = 0
                BY <1>0, <2>4, <3>1 DEF Activate, Consistent, Buffers
            <4> QED
                BY <1>0, <3>1, <4>1, ScheduleConsistent DEF PortKept
        <3>2. CASE ~(keyb.used > 0 /\ ~keyb.scheduled /\ ~keyb.p60changed)
            BY <1>0, <2>4, <3>2 DEF Activate, PortKept
        <3> QED
            BY <3>1, <3>2
    <2>5. CASE OutportOnBuffer
        <3>1. keyb' = SetPort60(keyb, Outport)
            BY <2>5 DEF OutportOnBuffer
        <3> QED
            BY <1>0, <3>1, PortFields DEF Consistent, PortKept
    <2>6. CASE keyb' = keyb
        BY <1>0, <2>6 DEF PortKept
    <2>7. CASE ClrBuffer
        BY <1>0, <2>7, ClearedConsistent DEF ClrBuffer, PortKept
    <2> QED
        BY <2>1, <2>2, <2>3, <2>4, <2>5, <2>6, <2>7 DEF Guest, ReadPort60, IrqHandler,
           WriteCommand, WriteOutport, WriteRate, WriteLeds, AnnounceOutport
<1>2. /\ command' \in Commands /\ irq' \in BOOLEAN /\ held' = held
      /\ repeat' = repeat \/ \E rate \in Rates :
                                repeat' = [repeat EXCEPT !.pause = rate[1], !.rate = rate[2]]
    BY <1>0 DEF TypeOK, Commands, TransferBuffer, ClrBuffer, Guest, ReadPort60, IrqHandler,
       WriteCommand, WriteOutport, WriteRate, WriteLeds, Activate, OutportOnBuffer,
       AnnounceOutport
<1>3. /\ repeat' \in [key : Keys \cup {KBD_NONE}, wait : Nat, pause : Nat \ {0},
                       rate : Nat \ {0}]
      /\ repeat'.key = repeat.key /\ repeat'.wait = repeat.wait
    <2>1. CASE repeat' = repeat
        BY <1>0, <2>1 DEF TypeOK
    <2>2. ASSUME NEW rate \in Rates,
                 repeat' = [repeat EXCEPT !.pause = rate[1], !.rate = rate[2]]
          PROVE  <1>3
        <3> DEFINE a == [repeat EXCEPT !.pause = rate[1]]
        <3>1. rate[1] \in Nat \ {0} /\ rate[2] \in Nat \ {0}
            BY RatesAssumption
        <3>2. repeat' = [a EXCEPT !.rate = rate[2]]
            BY <1>0, <2>2 DEF TypeOK
        <3>3. /\ a \in [key : Keys \cup {KBD_NONE}, wait : Nat, pause : Nat \ {0},
                        rate : Nat \ {0}]
              /\ a.key = repeat.key /\ a.wait = repeat.wait
            BY <1>0, <3>1 DEF TypeOK
        <3> HIDE DEF a
        <3> QED
            BY <3>1, <3>2, <3>3
    <2> QED
        BY <1>2, <2>1, <2>2
<1> QED
    BY <1>0, <1>1, <1>2, <1>3 DEF Inv, TypeOK, OnlyHeldRepeats, Consistent

\* Keys that go down and up: the repeated key is the last one pressed, and none
\* after its release.
LEMMA AddKeyStep ==
    ASSUME Inv, NEW k \in Keys, NEW pressed \in BOOLEAN, AddKey(k, pressed)
    PROVE  Inv' /\ PortKept
<1>0. TypeOK /\ Consistent(keyb) /\ OnlyHeldRepeats
    BY DEF Inv
<1>1. Consistent(keyb') /\ PortKept
    BY <1>0, EnteredConsistent DEF AddKey, PortKept
<1>2. command' \in Commands /\ irq' \in BOOLEAN /\ held' \subseteq Keys
    BY <1>0 DEF TypeOK, AddKey
<1>3. /\ repeat' \in [key : Keys \cup {KBD_NONE}, wait : Nat, pause : Nat \ {0},
                       rate : Nat \ {0}]
      /\ repeat'.key \in held' \cup {KBD_NONE}
      /\ repeat'.wait > 0 => repeat'.key # KBD_NONE
    <2>1. CASE pressed
        <3> DEFINE a == [repeat EXCEPT !.key = k]
                   wait == IF repeat.key = k THEN repeat.rate ELSE repeat.pause
        <3>1. wait \in Nat /\ k # KBD_NONE
            BY <1>0, KeysAssumption DEF TypeOK, Keys
        <3>2. repeat' = [a EXCEPT !.wait = wait] /\ k \in held'
            BY <1>0, <2>1 DEF AddKey, RepeatAfter, TypeOK
        <3>3. /\ a \in [key : Keys \cup {KBD_NONE}, wait : Nat, pause : Nat \ {0},
                        rate : Nat \ {0}]
              /\ a.key = k
            BY <1>0 DEF TypeOK
        <3> HIDE DEF a, wait
        <3> QED
            BY <3>1, <3>2, <3>3
    <2>2. CASE ~pressed /\ repeat.key = k
        <3> DEFINE a == [repeat EXCEPT !.key = KBD_NONE]
        <3>1. repeat' = [a EXCEPT !.wait = 0]
            BY <1>0, <2>2 DEF AddKey, RepeatAfter, TypeOK
        <3>2. /\ a \in [key : Keys \cup {KBD_NONE}, wait : Nat, pause : Nat \ {0},
                        rate : Nat \ {0}]
              /\ a.key = KBD_NONE
            BY <1>0 DEF TypeOK
        <3> HIDE DEF a
        <3> QED
            BY <3>1, <3>2
    <2>3. CASE ~pressed /\ repeat.key # k
        BY <1>0, <2>3 DEF AddKey, RepeatAfter, TypeOK, OnlyHeldRepeats
    <2> QED
        BY <2>1, <2>2, <2>3
<1> QED
    BY <1>1, <1>2, <1>3 DEF Inv, TypeOK, OnlyHeldRepeats, Consistent

LEMMA TickStep ==
    ASSUME Inv, TickHandler
    PROVE  Inv' /\ PortKept
<1>0. TypeOK /\ Consistent(keyb) /\ OnlyHeldRepeats
    BY DEF Inv
<1>1. repeat.key \in Keys /\ repeat.wait \in Nat /\ repeat.wait > 0
    BY <1>0 DEF TickHandler, OnlyHeldRepeats, TypeOK
<1>2. Consistent(keyb') /\ PortKept
    <2>1. CASE keyb' = Entered(keyb, repeat.key, TRUE)
        BY <1>0, <1>1, <2>1, EnteredConsistent DEF PortKept
    <2>2. CASE keyb' = keyb
        BY <1>0, <2>2 DEF PortKept
    <2> QED
        BY <2>1, <2>2 DEF TickHandler
<1>3. /\ command' \in Commands /\ irq' \in BOOLEAN /\ held' = held
    BY <1>0 DEF TypeOK, TickHandler
<1>4. /\ repeat' \in [key : Keys \cup {KBD_NONE}, wait : Nat, pause : Nat \ {0},
                       rate : Nat \ {0}]
      /\ repeat'.key = repeat.key
    <2>1. repeat.rate \in Nat /\ repeat.wait - 1 \in Nat
        BY <1>0, <1>1 DEF TypeOK
    <2>2. CASE repeat' = [repeat EXCEPT !.wait = repeat.rate]
        BY <1>0, <2>1, <2>2 DEF TypeOK
    <2>3. CASE repeat' = [repeat EXCEPT !.wait = repeat.wait - 1]
        BY <1>0, <2>1, <2>3 DEF TypeOK
    <2> QED
        BY <2>2, <2>3 DEF TickHandler
<1>5. OnlyHeldRepeats'
    BY <1>0, <1>1, <1>3, <1>4, KeysAssumption DEF OnlyHeldRepeats, Keys
<1> QED
    BY <1>0, <1>2, <1>3, <1>4, <1>5 DEF Inv, TypeOK, Consistent

LEMMA StepInv ==
    ASSUME Inv, [Next]_vars
    PROVE  Inv' /\ PortKept
<1>1. CASE TransferBuffer \/ Guest \/ ClrBuffer
    BY <1>1, GuestStep
<1>2. CASE \E k \in Keys, pressed \in BOOLEAN : AddKey(k, pressed)
    BY <1>2, AddKeyStep
<1>3. CASE TickHandler
    BY <1>3, TickStep
<1>4. CASE UNCHANGED vars
    BY <1>4 DEF vars, Inv, TypeOK, OnlyHeldRepeats, Consistent, PortKept
<1> QED
    BY <1>1, <1>2, <1>3, <1>4 DEF Next

---------------------------------------------------------------------------

\* A transfer is in the event queue exactly when keyb.scheduled is set, at most
\* one, and never with an empty buffer.
THEOREM TransferWhenScheduled == Spec => []TransferScheduled
<1>1. Inv => TransferScheduled
    BY DEF Inv, Consistent, TransferScheduled, ScheduledIsQueued
<1>2. Inv /\ [Next]_vars => Inv'
    BY StepInv
<1> QED
    BY InitInv, <1>1, <1>2, PTL DEF Spec

\* The buffer never holds codes that nothing is going to move.
THEOREM KeyboardNeverStuck == Spec => []NeverStuck
<1>1. Inv => NeverStuck
    BY DEF Inv, Consistent, NeverStuck
<1>2. Inv /\ [Next]_vars => Inv'
    BY StepInv
<1> QED
    BY InitInv, <1>1, <1>2, PTL DEF Spec

\* Only a key that is down repeats, so the tick handler never presses KBD_NONE.
THEOREM RepeatsAreHeld == Spec => []OnlyHeldRepeats
<1>1. Inv => OnlyHeldRepeats
    BY DEF Inv
<1>2. Inv /\ [Next]_vars => Inv'
    BY StepInv
<1> QED
    BY InitInv, <1>1, <1>2, PTL DEF Spec

\* No code is overwritten in the port before it was read, but by the output port.
THEOREM CodesAreRead == Spec => NoOverrun
<1>1. Inv /\ [Next]_vars => Inv'
    BY StepInv
<1>2. Inv /\ [Next]_vars =>
          [keyb.p60changed /\ keyb.p60data \in Codes /\ keyb'.p60data # keyb.p60data
              => keyb'.p60data = Outport]_vars
    BY StepInv DEF PortKept
<1> QED
    BY InitInv, <1>1, <1>2, PTL DEF Spec, NoOverrun

---------------------------------------------------------------------------
(* The ring as a queue *)

\* The code that is n-th in the buffer, and that all of them were entered
Entry(s, n) == s.buffer[(s.pos + n - 1) % KEYBUFSIZE]
Contents(s) == [n \in 1 .. s.used |-> Entry(s, n)]
AllCodes(s) == \A n \in 1 .. s.used : Entry(s, n) \in Codes

\* t has the codes of s and perhaps more, or exactly them
Grows(s, t) ==
    s.used <= t.used /\ \A n \in 1 .. s.used : Entry(t, n) = Entry(s, n)
SameRing(s, t) == t.buffer = s.buffer /\ t.used = s.used /\ t.pos = s.pos

\* Indices wrap once at most.
LEMMA Wraps ==
    ASSUME NEW p \in Slots, NEW n \in 0 .. KEYBUFSIZE
    PROVE  (p + n) % KEYBUFSIZE = IF p + n < KEYBUFSIZE THEN p + n ELSE p + n - KEYBUFSIZE
<1>1. KEYBUFSIZE \in Nat /\ KEYBUFSIZE > 0 /\ p \in Nat /\ p < KEYBUFSIZE
      /\ n \in Nat /\ n <= KEYBUFSIZE
    BY BufferAssumption DEF Slots
<1>2. CASE p + n < KEYBUFSIZE
    BY <1>1, <1>2
<1>3. CASE p + n >= KEYBUFSIZE
    <2>1. p + n - KEYBUFSIZE \in 0 .. KEYBUFSIZE - 1
        BY <1>1, <1>3
    <2> QED
        BY <1>1, <1>3, <2>1
<1> QED
    BY <1>1, <1>2, <1>3

\* The slots of the codes in the ring, and that the next free one is none of them
LEMMA SlotsOfRing ==
    ASSUME NEW p \in Slots, NEW u \in 0 .. KEYBUFSIZE, NEW n \in 1 .. u
    PROVE  /\ (p + n - 1) % KEYBUFSIZE \in Slots
           /\ u < KEYBUFSIZE => (p + u) % KEYBUFSIZE # (p + n - 1) % KEYBUFSIZE
           /\ n = 1 => (p + n - 1) % KEYBUFSIZE = p
<1> DEFINE at(i) == IF p + i < KEYBUFSIZE THEN p + i ELSE p + i - KEYBUFSIZE
<1>1. KEYBUFSIZE \in Nat /\ KEYBUFSIZE > 0 /\ p \in Nat /\ p < KEYBUFSIZE
      /\ u \in Nat /\ u <= KEYBUFSIZE /\ n \in Nat /\ n >= 1 /\ n <= u
    BY BufferAssumption DEF Slots
<1>2. n - 1 \in 0 .. KEYBUFSIZE /\ p + n - 1 = p + (n - 1)
    BY <1>1
<1>3. (p + (n - 1)) % KEYBUFSIZE = at(n - 1)
    BY <1>2, Wraps
<1>4. (p + u) % KEYBUFSIZE = at(u)
    BY Wraps
<1> QED
    BY <1>1, <1>2, <1>3, <1>4 DEF Slots

\* The n-th code behind the front is the one before it of the shorter ring.
LEMMA NextSlot ==
    ASSUME NEW p \in Slots, NEW n \in 1 .. KEYBUFSIZE - 1
    PROVE  /\ (p + 1) % KEYBUFSIZE \in Slots
           /\ (((p + 1) % KEYBUFSIZE) + n - 1) % KEYBUFSIZE = (p + (n + 1) - 1) % KEYBUFSIZE
           /\ (p + (n + 1) - 1) % KEYBUFSIZE \in Slots \ {p}
<1> DEFINE at(a, i) == IF a + i < KEYBUFSIZE THEN a + i ELSE a + i - KEYBUFSIZE
           q == (p + 1) % KEYBUFSIZE
<1>1. KEYBUFSIZE \in Nat /\ KEYBUFSIZE > 0 /\ p \in Nat /\ p < KEYBUFSIZE
      /\ n \in Nat /\ n >= 1 /\ n <= KEYBUFSIZE - 1
    BY BufferAssumption DEF Slots
<1>2. 1 \in 0 .. KEYBUFSIZE /\ n \in 0 .. KEYBUFSIZE /\ n - 1 \in 0 .. KEYBUFSIZE
    BY <1>1
<1>3. q = at(p, 1)
    BY <1>2, Wraps
<1>4. q \in Slots
    BY <1>1, <1>3 DEF Slots
<1> HIDE DEF q
<1>5. (q + (n - 1)) % KEYBUFSIZE = at(q, n - 1)
    BY <1>2, <1>4, Wraps
<1>6. (p + n) % KEYBUFSIZE = at(p, n)
    BY <1>2, Wraps
<1>7. at(q, n - 1) = at(p, n) /\ at(p, n) \in Slots \ {p}
    BY <1>1, <1>3 DEF Slots
<1>8. q + n - 1 = q + (n - 1) /\ p + (n + 1) - 1 = p + n
    BY <1>1, <1>4 DEF Slots
<1> QED
    BY <1>4, <1>5, <1>6, <1>7, <1>8 DEF q

LEMMA SameRingKept ==
    ASSUME NEW s \in Buffers, NEW t, SameRing(s, t)
    PROVE  Grows(s, t) /\ (AllCodes(s) => AllCodes(t)) /\ Contents(t) = Contents(s)
BY DEF SameRing, Grows, AllCodes, Contents, Entry, Buffers

LEMMA ScheduleRing ==
    ASSUME NEW s \in Buffers
    PROVE  SameRing(s, Schedule(s))
BY DEF Schedule, SameRing, Buffers

LEMMA TakenRing ==
    ASSUME NEW s \in Buffers
    PROVE  SameRing(s, TakenFromPort(s))
<1> DEFINE t == [s EXCEPT !.p60changed = FALSE]
<1>1. SameRing(s, t) /\ t \in Buffers
    BY DEF SameRing, Buffers
<1>2. TakenFromPort(s) \in {t, Schedule(t)}
    BY DEF TakenFromPort
<1> HIDE DEF t
<1> QED
    BY <1>1, <1>2, ScheduleRing DEF SameRing

LEMMA PortRing ==
    ASSUME NEW s \in Buffers, NEW code
    PROVE  SameRing(s, SetPort60(s, code))
BY DEF SetPort60, SameRing, Buffers

LEMMA ClearedRing ==
    ASSUME NEW s \in Buffers
    PROVE  Cleared(s).used = 0
BY DEF Cleared, Buffers

\* KEYBOARD_AddBuffer puts a code behind the others, or drops it.
LEMMA AddBufferRing ==
    ASSUME NEW s \in Buffers, AllCodes(s), NEW code \in Codes
    PROVE  LET t == AddBuffer(s, code)
           IN  /\ Grows(s, t) /\ AllCodes(t)
               /\ s.used = 0 => t.used = 1 /\ Entry(t, 1) = code
<1> DEFINE b == [s.buffer EXCEPT ![Slot(s)] = code]
           t == [s EXCEPT !.buffer[Slot(s)] = code, !.used = @ + 1]
           r == AddBuffer(s, code)
<1>1. CASE s.used >= KEYBUFSIZE
    <2>1. r = s /\ s.used # 0
        BY <1>1, BufferAssumption DEF AddBuffer
    <2> QED
        BY <2>1 DEF Grows, Buffers
<1>2. CASE ~(s.used >= KEYBUFSIZE)
    <2>1. /\ s.used \in 0 .. KEYBUFSIZE /\ s.used < KEYBUFSIZE /\ s.pos \in Slots
          /\ s.used + 1 \in 1 .. KEYBUFSIZE /\ s.buffer \in [Slots -> Codes \cup {Stale}]
        BY <1>2, BufferAssumption DEF Buffers
    <2>2. /\ Slot(s) = (s.pos + s.used) % KEYBUFSIZE
          /\ Slot(s) = (s.pos + (s.used + 1) - 1) % KEYBUFSIZE
        BY <2>1 DEF Slot, Slots
    <2>3. Slot(s) \in Slots
        BY <2>1, SlotInRing DEF Slot, Slots
    <2>4. b \in [Slots -> Codes \cup {Stale}] /\ b[Slot(s)] = code
          /\ \A i \in Slots : i # Slot(s) => b[i] = s.buffer[i]
        BY <2>1, <2>3
    <2>5. t.buffer = b /\ t.used = s.used + 1 /\ t.pos = s.pos /\ t \in Buffers
        <3> DEFINE a == [s EXCEPT !.buffer = b]
                   w == [a EXCEPT !.used = s.used + 1]
        <3>1. t = w
            BY DEF Buffers
        <3> HIDE DEF t, b
        <3>2. a \in Buffers /\ a.buffer = b /\ a.used = s.used /\ a.pos = s.pos
            BY <2>4 DEF Buffers
        <3>3. s.used + 1 \in 0 .. KEYBUFSIZE
            BY <2>1
        <3> HIDE DEF a
        <3>4. w \in Buffers /\ w.buffer = a.buffer /\ w.used = s.used + 1 /\ w.pos = a.pos
            BY <3>2, <3>3 DEF Buffers
        <3> HIDE DEF w
        <3> QED
            BY <3>1, <3>2, <3>4
    <2>6. r \in {t, Schedule(t)}
        BY <1>2 DEF AddBuffer
    <2> HIDE DEF t, b, r
    <2>7. r.buffer = b /\ r.used = s.used + 1 /\ r.pos = s.pos
        BY <2>5, <2>6, ScheduleRing DEF SameRing
    <2>8. ASSUME NEW n \in 1 .. s.used PROVE Entry(r, n) = Entry(s, n)
        <3>1. /\ (s.pos + n - 1) % KEYBUFSIZE \in Slots
              /\ (s.pos + s.used) % KEYBUFSIZE # (s.pos + n - 1) % KEYBUFSIZE
            BY <2>1, SlotsOfRing
        <3> QED
            BY <2>2, <2>4, <2>7, <3>1 DEF Entry
    <2>9. Entry(r, s.used + 1) = code
        BY <2>2, <2>4, <2>7 DEF Entry
    <2>10. Grows(s, r)
        BY <2>1, <2>7, <2>8 DEF Grows
    <2>11. ASSUME NEW n \in 1 .. r.used PROVE Entry(r, n) \in Codes
        <3>1. n \in 1 .. s.used \/ n = s.used + 1
            BY <2>1, <2>7
        <3> QED
            BY <2>8, <2>9, <3>1 DEF AllCodes
    <2>12. AllCodes(r)
        BY <2>11 DEF AllCodes
    <2>13. s.used = 0 => r.used = 1 /\ Entry(r, 1) = code
        BY <2>7, <2>9
    <2> QED
        BY <2>10, <2>12, <2>13 DEF r
<1> QED
    BY <1>1, <1>2

\* The front code leaves the ring for the port.
LEMMA TransferredRing ==
    ASSUME NEW s \in Buffers, s.used > 0, AllCodes(s)
    PROVE  LET t == Transferred(s)
           IN  /\ t.used = s.used - 1 /\ t.p60data = Entry(s, 1) /\ AllCodes(t)
               /\ \A n \in 1 .. t.used : Entry(t, n) = Entry(s, n + 1)
<1> DEFINE b == [s.buffer EXCEPT ![s.pos] = Stale]
           p == SetPort60(s, s.buffer[s.pos])
           t == Transferred(s)
<1>1. /\ s.used \in 1 .. KEYBUFSIZE /\ s.pos \in Slots
      /\ s.buffer \in [Slots -> Codes \cup {Stale}]
      /\ s.buffer[s.pos] \in Codes \cup {Stale, Outport}
    BY DEF Buffers
<1>2. p \in Buffers /\ p.p60data = s.buffer[s.pos] /\ p.buffer = s.buffer /\ p.pos = s.pos
      /\ p.used = s.used
    BY <1>1, PortFields, PortRing DEF SameRing
<1>3. t = [p EXCEPT !.buffer[s.pos] = Stale, !.pos = (@ + 1) % KEYBUFSIZE, !.used = @ - 1]
    BY DEF Transferred
<1> HIDE DEF p, t
<1>4. /\ t.buffer = b /\ t.pos = (s.pos + 1) % KEYBUFSIZE /\ t.used = s.used - 1
      /\ t.p60data = s.buffer[s.pos]
    BY <1>2, <1>3 DEF Buffers
<1>5. (s.pos + 1 - 1) % KEYBUFSIZE = s.pos
    BY <1>1, SlotsOfRing
<1>6. \A i \in Slots : i # s.pos => b[i] = s.buffer[i]
    BY <1>1
<1>7. ASSUME NEW n \in 1 .. t.used PROVE Entry(t, n) = Entry(s, n + 1)
    <2> DEFINE i == (s.pos + (n + 1) - 1) % KEYBUFSIZE
    <2>1. n \in 1 .. KEYBUFSIZE - 1
        BY <1>1, <1>4, BufferAssumption
    <2>2. (((s.pos + 1) % KEYBUFSIZE) + n - 1) % KEYBUFSIZE = i /\ i \in Slots \ {s.pos}
        BY <1>1, <2>1, NextSlot
    <2>3. Entry(t, n) = t.buffer[(t.pos + n - 1) % KEYBUFSIZE]
        BY DEF Entry
    <2>4. Entry(s, n + 1) = s.buffer[i]
        BY DEF Entry
    <2> HIDE DEF b, i
    <2>5. Entry(t, n) = b[i]
        BY <1>4, <2>2, <2>3
    <2> QED
        BY <1>6, <2>2, <2>4, <2>5
<1>8. AllCodes(t)
    BY <1>1, <1>4, <1>7 DEF AllCodes
<1> QED
    BY <1>4, <1>5, <1>7, <1>8 DEF Entry, t

\* What a step may do to the ring
Orderly(s, t) ==
    \/ Grows(s, t)
    \/ /\ s.used > 0 /\ t.used = s.used - 1 /\ t.p60data = Entry(s, 1)
       /\ \A n \in 1 .. t.used : Entry(t, n) = Entry(s, n + 1)
    \/ t.used = 0
    \/ t.used = 1 /\ Entry(t, 1) = Ack

LEMMA EnteredRing ==
    ASSUME Inv, AllCodes(keyb), NEW k \in Keys, NEW pressed \in BOOLEAN
    PROVE  Grows(keyb, Entered(keyb, k, pressed)) /\ AllCodes(Entered(keyb, k, pressed))
<1> DEFINE t == IF k \in Extended THEN AddBuffer(keyb, Prefix(k)) ELSE keyb
           code == IF pressed THEN Make(k) ELSE Break(k)
           r == AddBuffer(t, code)
<1>1. Prefix(k) \in Codes /\ code \in Codes
    BY DEF Prefix, Make, Break, Codes
<1>2. Consistent(keyb) /\ keyb \in Buffers
    BY DEF Inv, Consistent
<1>3. Consistent(t) /\ t \in Buffers /\ AllCodes(t) /\ Grows(keyb, t)
    <2>1. CASE k \in Extended
        BY <1>1, <1>2, <2>1, AddBufferConsistent, AddBufferRing DEF Consistent
    <2>2. CASE k \notin Extended
        BY <1>2, <2>2 DEF Grows, Buffers
    <2> QED
        BY <2>1, <2>2
<1>4. Entered(keyb, k, pressed) = r
    BY DEF Entered
<1> HIDE DEF t, code
<1>5. Grows(t, r) /\ AllCodes(r) /\ r \in Buffers
    BY <1>1, <1>3, AddBufferRing, AddBufferConsistent DEF Consistent
<1> HIDE DEF r
<1> QED
    <2>1. keyb.used \in Nat /\ t.used \in Nat /\ r.used \in Nat
        BY <1>2, <1>3, <1>5, BufferAssumption DEF Buffers
    <2>2. keyb.used <= t.used /\ t.used <= r.used
        BY <1>3, <1>5 DEF Grows
    <2> QED
        BY <1>3, <1>4, <1>5, <2>1, <2>2 DEF Grows

LEMMA RingStep ==
    ASSUME Inv, AllCodes(keyb), [Next]_vars
    PROVE  Orderly(keyb, keyb') /\ AllCodes(keyb')
<1>0. Consistent(keyb) /\ keyb \in Buffers
    BY DEF Inv, Consistent
<1>1. CASE TransferBuffer
    <2> DEFINE s == [keyb EXCEPT !.scheduled = FALSE, !.events = @ - 1]
    <2>1. /\ keyb.events = 1 /\ keyb.used > 0 /\ keyb.used \in Nat
        BY <1>0, <1>1 DEF TransferBuffer, Consistent, Buffers
    <2>2. s \in Buffers /\ SameRing(keyb, s)
        <3> DEFINE a == [keyb EXCEPT !.scheduled = FALSE]
        <3>1. s = [a EXCEPT !.events = keyb.events - 1]
            BY <1>0 DEF Buffers
        <3>2. a \in Buffers /\ SameRing(keyb, a)
            BY <1>0 DEF Buffers, SameRing
        <3> HIDE DEF a, s
        <3> QED
            BY <2>1, <3>1, <3>2 DEF Buffers, SameRing
    <2>3. keyb' = IF s.used = 0 THEN s ELSE Transferred(s)
        BY <1>1 DEF TransferBuffer
    <2> HIDE DEF s
    <2>4. /\ s.used > 0 /\ s.used = keyb.used /\ AllCodes(s) /\ keyb' = Transferred(s)
          /\ \A n : Entry(s, n) = Entry(keyb, n)
        BY <1>0, <2>1, <2>2, <2>3 DEF SameRing, AllCodes, Entry
    <2>5. /\ keyb'.used = s.used - 1 /\ keyb'.p60data = Entry(s, 1) /\ AllCodes(keyb')
          /\ \A n \in 1 .. keyb'.used : Entry(keyb', n) = Entry(s, n + 1)
        BY <2>2, <2>4, TransferredRing
    <2> QED
        BY <2>1, <2>4, <2>5 DEF Orderly
<1>2. CASE keyb' \in {keyb, TakenFromPort(keyb), Schedule(keyb), SetPort60(keyb, Outport)}
    <2>1. SameRing(keyb, keyb')
        BY <1>0, <1>2, TakenRing, ScheduleRing, PortRing DEF SameRing
    <2> QED
        BY <1>0, <2>1, SameRingKept DEF Orderly
<1>3. CASE keyb' = Acknowledged
    <2> DEFINE c == Cleared(keyb)
    <2>1. c \in Buffers /\ c.used = 0 /\ AllCodes(c)
        BY <1>0, ClearedConsistent, ClearedRing DEF Consistent, AllCodes
    <2>2. keyb' = AddBuffer(c, Ack)
        BY <1>3 DEF Acknowledged
    <2> HIDE DEF c
    <2> QED
        BY <2>1, <2>2, AddBufferRing, AckIsCode DEF Orderly
<1>4. CASE keyb' = Cleared(keyb)
    BY <1>0, <1>4, ClearedRing DEF Orderly, AllCodes
<1>5. ASSUME NEW k \in Keys, NEW pressed \in BOOLEAN, keyb' = Entered(keyb, k, pressed)
      PROVE  Orderly(keyb, keyb') /\ AllCodes(keyb')
    BY <1>5, EnteredRing DEF Orderly
<1>6. CASE TickHandler
    <2>1. repeat.key \in Keys
        BY <1>6 DEF TickHandler, Inv, OnlyHeldRepeats, TypeOK
    <2>2. keyb' = Entered(keyb, repeat.key, TRUE) \/ keyb' = keyb
        BY <1>6 DEF TickHandler
    <2> QED
        BY <1>2, <1>5, <2>1, <2>2
<1>7. CASE \E k \in Keys, pressed \in BOOLEAN : AddKey(k, pressed)
    BY <1>5, <1>7 DEF AddKey
<1>8. CASE Guest
    BY <1>2, <1>3, <1>8 DEF Guest, ReadPort60, IrqHandler, WriteCommand, WriteOutport, WriteRate,
       WriteLeds, Activate, OutportOnBuffer, AnnounceOutport
<1>9. CASE ClrBuffer
    BY <1>4, <1>9 DEF ClrBuffer
<1>10. CASE UNCHANGED vars
    BY <1>2, <1>10 DEF vars
<1> QED
    BY <1>1, <1>6, <1>7, <1>8, <1>9, <1>10 DEF Next

\* In terms of sequences
LEMMA ContentsIsSequence ==
    ASSUME NEW s \in Buffers, AllCodes(s)
    PROVE  /\ Contents(s) \in Seq(Codes) /\ Len(Contents(s)) = s.used
           /\ s.used \in Nat
           /\ \A n \in 1 .. s.used : Contents(s)[n] = Entry(s, n)
<1>1. s.used \in Nat
    BY BufferAssumption DEF Buffers
<1>2. Contents(s) \in [1 .. s.used -> Codes]
    BY DEF Contents, AllCodes
<1> QED
    BY <1>1, <1>2 DEF Contents

LEMMA OrderlyIsFifo ==
    ASSUME NEW s \in Buffers, NEW t \in Buffers, AllCodes(s), AllCodes(t), Orderly(s, t)
    PROVE  /\ \/ IsPrefix(Contents(s), Contents(t))
              \/ /\ s.used > 0 /\ Contents(t) = Tail(Contents(s))
                 /\ t.p60data = Contents(s)[1]
              \/ Contents(t) \in {<<>>, <<Ack>>}
           /\ Stale \notin Range(Contents(t))
<1> PICK a, b : a = Contents(s) /\ b = Contents(t)
    OBVIOUS
<1>1. a \in Seq(Codes) /\ b \in Seq(Codes) /\ Len(a) = s.used /\ Len(b) = t.used
    BY ContentsIsSequence
<1>2. /\ \A n \in 1 .. s.used : a[n] = Entry(s, n)
      /\ \A n \in 1 .. t.used : b[n] = Entry(t, n)
    BY ContentsIsSequence
<1>3. Stale \notin Codes
    BY DEF Stale, Codes, Ack
<1>4. Stale \notin Range(b)
    BY <1>1, <1>3 DEF Range
<1>5. CASE Grows(s, t)
    <2>1. Len(a) <= Len(b) /\ \A n \in 1 .. Len(a) : b[n] = a[n]
        BY <1>1, <1>2, <1>5 DEF Grows
    <2>2. SubSeq(a, 1, Len(a)) = SubSeq(b, 1, Len(a))
        BY <1>1, <2>1
    <2> QED
        BY <1>4, <2>1, <2>2 DEF IsPrefix
<1>6. CASE /\ s.used > 0 /\ t.used = s.used - 1 /\ t.p60data = Entry(s, 1)
           /\ \A n \in 1 .. t.used : Entry(t, n) = Entry(s, n + 1)
    <2>1. Len(b) = Len(a) - 1 /\ \A n \in 1 .. Len(b) : b[n] = a[n + 1]
        BY <1>1, <1>2, <1>6
    <2>2. b = Tail(a)
        BY <1>1, <1>6, <2>1
    <2> QED
        BY <1>1, <1>2, <1>4, <1>6, <2>2
<1>7. CASE t.used = 0
    BY <1>1, <1>4, <1>7
<1>8. CASE t.used = 1 /\ Entry(t, 1) = Ack
    <2>1. b = <<Ack>>
        BY <1>1, <1>2, <1>8
    <2> QED
        BY <1>4, <2>1
<1> QED
    BY <1>5, <1>6, <1>7, <1>8 DEF Orderly

\* Codes leave the ring in the order in which they entered, none is lost but by a
\* command that clears them all, and no slot is read twice.
THEOREM CodesInOrder == Spec => FirstInFirstOut
<1> DEFINE Full == Inv /\ AllCodes(keyb)
           Step == /\ \/ IsPrefix(Queue, Queue')
                      \/ keyb.used > 0 /\ Queue' = Tail(Queue) /\ keyb'.p60data = Queue[1]
                      \/ Queue' \in {<<>>, <<Ack>>}
                   /\ Stale \notin Range(Queue')
<1>1. Init => Full
    BY InitInv DEF Init, AllCodes
<1>2. Full /\ [Next]_vars => Full'
    BY StepInv, RingStep
<1>3. Full /\ [Next]_vars => Step
    <2> SUFFICES ASSUME Full, [Next]_vars PROVE Step
        OBVIOUS
    <2>1. keyb \in Buffers /\ keyb' \in Buffers
        BY StepInv DEF Inv, TypeOK
    <2>2. AllCodes(keyb) /\ AllCodes(keyb') /\ Orderly(keyb, keyb')
        BY RingStep
    <2>3. Queue = Contents(keyb) /\ Queue' = Contents(keyb')
        BY DEF Queue, Contents, Entry
    <2> QED
        BY <2>1, <2>2, <2>3, OrderlyIsFifo
<1> QED
    BY <1>1, <1>2, <1>3, PTL DEF Spec, FirstInFirstOut
=============================================================================
