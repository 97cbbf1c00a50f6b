------------------------------ MODULE Keyboard ------------------------------
(***************************************************************************)
(* The keyboard controller of src/hardware/keyboard.cpp: a ring of codes   *)
(* that a timed event moves one by one into port 60h, where the guest      *)
(* reads them when interrupt 1 tells it to; the commands that the guest    *)
(* writes to ports 60h and 64h; and the typematic repeat.                  *)
(*                                                                         *)
(* A code is a make or break code of a key, a prefix, an acknowledge or    *)
(* the output port.  keyb.events counts the entries of                     *)
(* KEYBOARD_TransferBuffer in the event queue, which is never full here.   *)
(* Interrupt 1 is a request that the guest's handler takes, as the 8259    *)
(* gives it.  The A20 line, port 61h, the PCjr and the pause key, three    *)
(* bytes that do not repeat, are left out.                                 *)
(***************************************************************************)
EXTENDS Integers, SequencesExt

CONSTANTS
    KEYBUFSIZE,    \* 32 in the code
    Plain,         \* keys of one byte
    Extended,      \* keys with the prefix e0
    Rates          \* the pauses and rates <<pause, rate>> that the guest sets, in ticks

ASSUME BufferAssumption == KEYBUFSIZE \in Nat \ {0}
KBD_NONE == "none"

ASSUME KeysAssumption == KBD_NONE \notin Plain \cup Extended
ASSUME RatesAssumption == Rates \subseteq (Nat \ {0}) \X (Nat \ {0}) /\ Rates # {}

Keys == Plain \cup Extended

Prefix(k) == <<k, "prefix">>
Make(k)   == <<k, "make">>
Break(k)  == <<k, "break">>
Ack       == <<"fa", "ack">>
Stale     == <<"stale", "none">>     \* what a slot holds that was read or cleared
Outport   == <<"outport", "none">>

Codes == Keys \X {"make", "break", "prefix"} \cup {Ack}
Commands == {"none", "setleds", "settyperate", "setoutport"}

Slots == 0 .. KEYBUFSIZE - 1

Buffers ==
    [buffer : [Slots -> Codes \cup {Stale}], used : 0 .. KEYBUFSIZE, pos : Slots,
     scheduled : BOOLEAN, events : 0 .. 1, p60changed : BOOLEAN,
     p60data : Codes \cup {Stale, Outport}]

VARIABLES
    keyb,      \* the buffer and port 60h, fields of keyb, and the scheduled transfers
    command,   \* keyb.command
    repeat,    \* keyb.repeat
    irq,       \* interrupt 1 is requested
    held       \* the keys that are down

vars == <<keyb, command, repeat, irq, held>>

---------------------------------------------------------------------------
(* The ring and port 60h: what keyb becomes                                *)

\* The operators named Bad... are plausible defects: a property is worth
\* having when it fails once one of them replaces the definition below it.
\* PIC_AddEvent(KEYBOARD_TransferBuffer, KEYDELAY)
Schedule(s) == [s EXCEPT !.scheduled = TRUE, !.events = @ + 1]

BadSlot(s) == s.pos + s.used
Slot(s) == (s.pos + s.used) % KEYBUFSIZE

BadAddBuffer(s, code) ==
    IF s.used >= KEYBUFSIZE THEN s
    ELSE LET t == [s EXCEPT !.buffer[Slot(s)] = code, !.used = @ + 1]
         IN  IF ~s.scheduled THEN Schedule(t) ELSE t

\* KEYBOARD_AddBuffer, which drops the code when the buffer is full
AddBuffer(s, code) ==
    IF s.used >= KEYBUFSIZE THEN s
    ELSE LET t == [s EXCEPT !.buffer[Slot(s)] = code, !.used = @ + 1]
         IN  IF ~s.scheduled /\ ~s.p60changed THEN Schedule(t) ELSE t

BadCleared(s) ==
    [s EXCEPT !.buffer = [i \in Slots |-> Stale], !.used = 0, !.pos = 0, !.scheduled = FALSE]

\* KEYBOARD_ClrBuffer, which removes the scheduled transfers
Cleared(s) ==
    [s EXCEPT !.buffer = [i \in Slots |-> Stale], !.used = 0, !.pos = 0,
              !.scheduled = FALSE, !.events = 0]

SetPort60(s, code) == [s EXCEPT !.p60changed = TRUE, !.p60data = code]

\* The front code goes to the port
Transferred(s) ==
    [SetPort60(s, s.buffer[s.pos]) EXCEPT
        !.buffer[s.pos] = Stale, !.pos = (@ + 1) % KEYBUFSIZE, !.used = @ - 1]

---------------------------------------------------------------------------
(* The event, and the interrupt handler of the guest *)

TransferBuffer ==
    /\ keyb.events > 0
    /\ LET s == [keyb EXCEPT !.scheduled = FALSE, !.events = @ - 1]
       IN  IF s.used = 0 THEN keyb' = s /\ UNCHANGED irq
           ELSE keyb' = Transferred(s) /\ irq' = TRUE
    /\ UNCHANGED <<command, repeat, held>>

BadTakenFromPort(s) == [s EXCEPT !.p60changed = FALSE]

TakenFromPort(s) ==
    LET t == [s EXCEPT !.p60changed = FALSE]
    IN  IF ~t.scheduled /\ t.used > 0 THEN Schedule(t) ELSE t

ReadPort60 ==
    /\ keyb' = TakenFromPort(keyb)
    /\ UNCHANGED <<command, repeat, irq, held>>

\* The guest serves interrupt 1 and reads the port.
IrqHandler ==
    /\ irq /\ irq' = FALSE
    /\ keyb' = TakenFromPort(keyb)
    /\ UNCHANGED <<command, repeat, held>>

---------------------------------------------------------------------------
(* Writes to port 60h *)

Acknowledged == AddBuffer(Cleared(keyb), Ack)

\* A command byte; next is what it makes of keyb.command.  The bytes that
\* only set keyb.scanning, which nothing reads, do no more.
WriteCommand(next) ==
    /\ command = "none" /\ next \in {"none", "setleds", "settyperate"}
    /\ command' = next
    /\ keyb' = Acknowledged
    /\ UNCHANGED <<repeat, irq, held>>

WriteOutport ==
    /\ command = "setoutport" /\ command' = "none"
    /\ UNCHANGED <<keyb, repeat, irq, held>>

WriteRate(rate) ==
    /\ command = "settyperate" /\ command' = "none"
    /\ repeat' = [repeat EXCEPT !.pause = rate[1], !.rate = rate[2]]
    /\ keyb' = Acknowledged
    /\ UNCHANGED <<irq, held>>

WriteLeds ==
    /\ command = "setleds" /\ command' = "none"
    /\ keyb' = Acknowledged
    /\ UNCHANGED <<repeat, irq, held>>

---------------------------------------------------------------------------
(* Writes to port 64h *)

Activate ==
    /\ keyb' = IF keyb.used > 0 /\ ~keyb.scheduled /\ ~keyb.p60changed
               THEN Schedule(keyb) ELSE keyb
    /\ UNCHANGED <<command, repeat, irq, held>>

OutportOnBuffer ==
    /\ keyb' = SetPort60(keyb, Outport)
    /\ irq' = TRUE
    /\ UNCHANGED <<command, repeat, held>>

AnnounceOutport ==
    /\ command' = "setoutport"
    /\ UNCHANGED <<keyb, repeat, irq, held>>

---------------------------------------------------------------------------
(* Keys *)

\* The buffer s with the codes of the key
Entered(s, k, pressed) ==
    LET t == IF k \in Extended THEN AddBuffer(s, Prefix(k)) ELSE s
    IN  AddBuffer(t, IF pressed THEN Make(k) ELSE Break(k))

BadRepeatAfter(k, pressed) ==
    IF pressed
    THEN [repeat EXCEPT !.key = k,
                        !.wait = IF repeat.key = k THEN repeat.rate ELSE repeat.pause]
    ELSE IF repeat.key = k
    THEN [repeat EXCEPT !.key = KBD_NONE]
    ELSE repeat

RepeatAfter(k, pressed) ==
    IF pressed
    THEN [repeat EXCEPT !.key = k,
                        !.wait = IF repeat.key = k THEN repeat.rate ELSE repeat.pause]
    ELSE IF repeat.key = k
    THEN [repeat EXCEPT !.key = KBD_NONE, !.wait = 0]
    ELSE repeat

\* KEYBOARD_AddKey, called by the mapper for a key that goes down or up
AddKey(k, pressed) ==
    /\ pressed <=> k \notin held
    /\ held' = IF pressed THEN held \cup {k} ELSE held \ {k}
    /\ keyb' = Entered(keyb, k, pressed)
    /\ repeat' = RepeatAfter(k, pressed)
    /\ UNCHANGED <<command, irq>>

\* KEYBOARD_TickHandler: the repeated key is pressed once more
TickHandler ==
    /\ repeat.wait > 0
    /\ IF repeat.wait = 1
       THEN /\ keyb' = Entered(keyb, repeat.key, TRUE)
            /\ repeat' = [repeat EXCEPT !.wait = repeat.rate]
       ELSE /\ repeat' = [repeat EXCEPT !.wait = @ - 1]
            /\ UNCHANGED keyb
    /\ UNCHANGED <<command, irq, held>>

\* The mapper, the debugger and a lost focus clear the buffer.
ClrBuffer ==
    /\ keyb' = Cleared(keyb)
    /\ UNCHANGED <<command, repeat, irq, held>>

---------------------------------------------------------------------------

\* KEYBOARD_Init; the typematic delays are 500 and 33 ms
Init ==
    /\ keyb = [buffer |-> [i \in Slots |-> Stale], used |-> 0, pos |-> 0,
               scheduled |-> FALSE, events |-> 0, p60changed |-> FALSE, p60data |-> Stale]
    /\ command = "none"
    /\ \E rate \in Rates :
           repeat = [key |-> KBD_NONE, wait |-> 0, pause |-> rate[1], rate |-> rate[2]]
    /\ irq = FALSE /\ held = {}

Guest ==
    \/ ReadPort60 \/ IrqHandler
    \/ \E next \in Commands : WriteCommand(next)
    \/ \E rate \in Rates : WriteRate(rate)
    \/ WriteLeds \/ WriteOutport \/ Activate \/ OutportOnBuffer \/ AnnounceOutport

Next ==
    \/ TransferBuffer
    \/ Guest
    \/ \E k \in Keys, pressed \in BOOLEAN : AddKey(k, pressed)
    \/ TickHandler \/ ClrBuffer

Spec == Init /\ [][Next]_vars

\* PIC_RunQueue serves the event, and a guest that uses the keyboard takes
\* the interrupt and reads the port.
FairSpec == Spec /\ WF_vars(TransferBuffer) /\ WF_vars(IrqHandler)

---------------------------------------------------------------------------
(* Properties *)

\* The state variables keep their types; at most one transfer is scheduled.
TypeOK ==
    /\ keyb \in Buffers /\ command \in Commands
    /\ repeat \in [key : Keys \cup {KBD_NONE}, wait : Nat, pause : Nat \ {0}, rate : Nat \ {0}]
    /\ irq \in BOOLEAN /\ held \subseteq Keys

\* keyb.scheduled says that a transfer is in the event queue, which is what
\* keeps AddBuffer, the reads and the commands from scheduling another one or
\* none, and a transfer that comes finds a code ("Transfer started with empty
\* buffer" is never logged).
ScheduledIsQueued ==
    /\ keyb.scheduled <=> keyb.events = 1
    /\ keyb.scheduled => keyb.used > 0

\* The state and the one transfer that may be scheduled.
TransferScheduled == TypeOK /\ ScheduledIsQueued

\* The keyboard never hangs: codes in the buffer have a transfer under way,
\* or a code in the port whose read starts one.
NeverStuck == keyb.used > 0 => keyb.scheduled \/ keyb.p60changed

\* A code in the port that was not read yet is not overwritten by the next
\* one; only the guest's own request for the output port does that.
NoOverrun ==
    [][keyb.p60changed /\ keyb.p60data \in Codes /\ keyb'.p60data # keyb.p60data
          => keyb'.p60data = Outport]_vars

\* The codes in the buffer, oldest first
Queue == [i \in 1 .. keyb.used |-> keyb.buffer[(keyb.pos + i - 1) % KEYBUFSIZE]]

\* The ring is a queue: codes leave at the front one at a time, enter at the
\* back, and keep their order, unless a command clears them all; what the ring
\* holds was entered, and is not the rest of an earlier round.
FirstInFirstOut ==
    [][/\ \/ IsPrefix(Queue, Queue')
          \/ keyb.used > 0 /\ Queue' = Tail(Queue) /\ keyb'.p60data = Queue[1]
          \/ Queue' \in {<<>>, <<Ack>>}
       /\ Stale \notin Range(Queue')]_vars

\* The typematic repeats only a key that is down, so that the tick handler
\* adds no key after its release and never presses KBD_NONE ("Unsupported key
\* press" exits the program).
OnlyHeldRepeats ==
    /\ repeat.key \in held \cup {KBD_NONE}
    /\ repeat.wait > 0 => repeat.key # KBD_NONE

\* The code at the front of the buffer reaches the port or is cleared, as long
\* as the guest serves its interrupt.  (An acknowledge may be cleared and
\* replaced by that of the next command for ever.)
FrontMoves ==
    LET Waiting(i) == keyb.used > 0 /\ keyb.pos = i /\ keyb.buffer[i] # Ack
    IN  \A i \in Slots : Waiting(i) ~> ~Waiting(i)
=============================================================================
