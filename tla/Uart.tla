------------------------------- MODULE Uart -------------------------------
(***************************************************************************)
(* The 16550 UART of src/hardware/serialport/serialport.cpp, as operators  *)
(* on a record that holds its registers.  A module that drives it keeps    *)
(* the record in a variable: NullModem adds the line, the guest and the    *)
(* event queue.                                                            *)
(*                                                                         *)
(* Fields: rx and tx, the bytes in rxfifo and txfifo; err, the marks in    *)
(* errorfifo, and errors, errors_in_fifo; trigger, rx_interrupt_threshold; *)
(* fifo, FCR_ACTIVATE; sync, sync_guardtime; ier and waiting, sets of      *)
(* causes, the second waiting_interrupts; irq, irq_active; line, what the  *)
(* last call of the PIC left the interrupt line at; txEmpty and lsr, the   *)
(* TX_EMPTY bit of LSR and whether an error bit is set; mcr, the bits set; *)
(* in, the modem lines that are on, and delta, their changes; ev, how many *)
(* events of each type are in the event queue; stale, whether data[pos] of *)
(* errorfifo is a mark while that FIFO is empty.                           *)
(*                                                                         *)
(* Two fields are history, of which the code knows nothing: again, whether *)
(* errorfifo gave a mark a second time since errors_in_fifo was last set   *)
(* to 0, and own, the deltas that the guest itself wrote to MSR since it   *)
(* last read them.                                                         *)
(*                                                                         *)
(* The bytes themselves are left out, and so are the scratch register, the *)
(* divisor latch and the line parameters, the delays and the messages that *)
(* count errors.                                                           *)
(***************************************************************************)
EXTENDS Naturals, Sequences

CONSTANTS
    FifoSize,   \* fifosize, 16 in the code
    Word        \* how many values a Bitu has: errors_in_fifo wraps there

ASSUME FifoAssumption == FifoSize \in Nat \ {0} /\ Word \in Nat /\ FifoSize < Word

Up(n)   == IF n = Word - 1 THEN 0 ELSE n + 1
Down(n) == IF n = 0 THEN Word - 1 ELSE n - 1

Events == {"tx loopback", "thr loopback", "tx", "rx", "polling", "thr", "rx timeout",
           "server polling"}

SetEvent(u, e)    == [u EXCEPT !.ev[e] = @ + 1]
RemoveEvent(u, e) == [u EXCEPT !.ev[e] = 0]

\* What an event takes out of the queue when it comes
Taken(u, e) == [u EXCEPT !.ev[e] = @ - 1]

Loopback(u) == "loopback" \in u.mcr
Size(u)     == IF u.fifo THEN FifoSize ELSE 1

---------------------------------------------------------------------------
(* Interrupts *)

ComputeInterrupts(u) ==
    LET val == u.ier \cap u.waiting # {}
    IN  [u EXCEPT !.irq  = val,
                  !.line = IF val # u.irq /\ "op2" \in u.mcr THEN val ELSE @]

Rise(u, p)  == ComputeInterrupts([u EXCEPT !.waiting = @ \cup {p}])
Clear(u, p) == ComputeInterrupts([u EXCEPT !.waiting = @ \ {p}])

---------------------------------------------------------------------------
(* The receiver *)

CanReceiveByte(u) == u.rx < Size(u)

\* The operators named Bad... are plausible defects: a property is worth having
\* when it fails once one of them replaces the definition below it.
BadMarked(u, bad) ==
    IF bad /\ Len(u.err) < Size(u)
    THEN [u EXCEPT !.err = Append(@, bad), !.errors = Up(@), !.stale = FALSE]
    ELSE u

\* errorfifo->addb, which overwrites the last mark when the FIFO is full
Marked(u, bad) ==
    IF Len(u.err) < Size(u)
    THEN [u EXCEPT !.err = Append(@, bad), !.errors = IF bad THEN Up(@) ELSE @,
                   !.stale = FALSE]
    ELSE [u EXCEPT !.err[Len(u.err)] = bad,
                   !.errors = IF bad /\ ~u.err[Len(u.err)] THEN Up(@) ELSE @]

ShowError(u) == [Rise(u, "error") EXCEPT !.lsr = TRUE]

BadStored(u) ==
    LET a == [u EXCEPT !.rx = IF CanReceiveByte(u) THEN @ + 1 ELSE @, !.ev["rx timeout"] = 0]
    IN  IF a.rx = a.trigger THEN Rise(a, "rx") ELSE a

\* The byte is in rxfifo, or lost; the guest is told at once or after a delay
Stored(u) ==
    LET a == [RemoveEvent(u, "rx timeout") EXCEPT !.rx = IF CanReceiveByte(u) THEN @ + 1 ELSE @]
    IN  IF a.rx = a.trigger THEN Rise(a, "rx") ELSE SetEvent(a, "rx timeout")

\* error holds an error of the line
ReceiveByteEx(u, error) ==
    LET bad == error \/ ~CanReceiveByte(u)
        a   == Stored(u)
        b   == IF u.fifo THEN Marked(a, bad) ELSE a
    IN  IF bad /\ (u.fifo => Head(b.err)) THEN ShowError(b) ELSE b

\* errorfifo->getb: the last mark stays where it was, and an empty FIFO gives
\* it again, which counts as one error less each time
TakeMark(u) ==
    IF u.err = <<>>
    THEN [u EXCEPT !.errors = IF u.stale THEN Down(@) ELSE @, !.again = @ \/ u.stale]
    ELSE [u EXCEPT !.errors = IF Head(u.err) THEN Down(@) ELSE @, !.err = Tail(@),
                   !.stale = Len(u.err) = 1 /\ Head(u.err)]

ReadRHR(u) ==
    LET got   == [u EXCEPT !.rx = IF @ > 0 THEN @ - 1 ELSE 0]
        first == IF u.fifo THEN TakeMark(got) ELSE got
        shown == IF u.fifo /\ first.rx > 0 /\ Head(first.err) THEN ShowError(first) ELSE first
        told  == Clear(shown, "timeout")
        below == IF told.rx < told.trigger THEN Clear(told, "rx") ELSE told
        timed == RemoveEvent(below, "rx timeout")
    IN  IF timed.rx > 0 THEN SetEvent(timed, "rx timeout") ELSE timed

---------------------------------------------------------------------------
(* The transmitter *)

\* transmitByte of the null modem, the dummy and the direct port
TransmitByte(u, first) == SetEvent(u, IF first THEN "thr" ELSE "tx")

Drained(u) == IF u.tx = 0 THEN Rise(u, "tx") ELSE u

\* The byte made it from THR to the shift register
ByteTransmitting(u) ==
    Drained(IF u.sync THEN [u EXCEPT !.sync = FALSE, !.tx = IF @ > 0 THEN @ - 1 ELSE 0] ELSE u)

BadByteTransmitted(u) ==
    IF u.tx > 0 THEN TransmitByte(Drained([u EXCEPT !.tx = @ - 1]), FALSE) ELSE u

ByteTransmitted(u) ==
    LET a == [u EXCEPT !.tx = @ - 1]
    IN  IF u.tx = 0 THEN [u EXCEPT !.txEmpty = TRUE]
        ELSE Drained(IF Loopback(u) THEN SetEvent(a, "tx loopback") ELSE TransmitByte(a, FALSE))

WriteTHR(u) ==
    LET a == Clear(u, "tx")
        b == [a EXCEPT !.tx = IF @ < Size(u) THEN @ + 1 ELSE @]
        c == [b EXCEPT !.sync = TRUE, !.txEmpty = FALSE]
    IN  IF ~u.txEmpty THEN b
        ELSE IF Loopback(u) THEN SetEvent(c, "thr loopback")
        ELSE TransmitByte(c, TRUE)

---------------------------------------------------------------------------
(* The other registers *)

WriteIER(u, data) ==
    LET a == IF u.tx = 0 /\ "tx" \in data THEN [u EXCEPT !.waiting = @ \cup {"tx"}] ELSE u
        b == IF u.fifo /\ "rx" \in data THEN {"timeout"} ELSE {}
    IN  ComputeInterrupts([a EXCEPT !.ier = data \cup b])

\* Naming the transmitter clears its cause, unless another one was named
ReadISR(u) ==
    LET val == u.ier \cap u.waiting
    IN  IF "tx" \in val /\ val \cap {"error", "timeout", "rx"} = {} THEN Clear(u, "tx") ELSE u

\* A FIFO that is switched starts again at data[0], which stays as it is: old
\* is whether errorfifo left a mark there when it was switched off. A FIFO that
\* is cleared has data[0] = 0.
Left(u, data) == IF u.fifo /\ ~data.on THEN BOOLEAN ELSE {FALSE}

WriteFCR(u, data, old) ==
    LET a == IF u.fifo # data.on
             THEN [u EXCEPT !.fifo = data.on, !.errors = 0, !.err = <<>>, !.rx = 0, !.tx = 0,
                            !.trigger = IF data.on THEN @ ELSE 1,
                            !.stale = IF data.on THEN @ ELSE old, !.again = FALSE]
             ELSE u
        b == IF data.clearRx
             THEN [a EXCEPT !.errors = 0, !.err = <<>>, !.rx = 0, !.stale = FALSE,
                            !.again = FALSE]
             ELSE a
        c == IF data.clearTx THEN [b EXCEPT !.tx = 0] ELSE b
    IN  IF data.on THEN [c EXCEPT !.trigger = data.trigger] ELSE c

\* In loopback mode the outputs are wired to the modem lines, and OP1 counts
\* when it falls.
Wired == [dsr |-> "dtr", cts |-> "rts", ri |-> "op1", cd |-> "op2"]
Looped(u, data) ==
    {l \in DOMAIN Wired : /\ (Wired[l] \in u.mcr) # (Wired[l] \in data)
                          /\ l \notin u.delta
                          /\ l = "ri" => "op1" \notin data}

BadWriteMCR(u, data) ==
    LET new == Looped(u, data)
        off == "op2" \in u.mcr /\ "op2" \notin data
        a   == IF "loopback" \in data /\ new # {}
               THEN Rise([u EXCEPT !.delta = @ \cup new], "msr") ELSE u
    IN  [a EXCEPT !.mcr = data, !.line = @ \/ off]

\* Without OP2 the interrupt line is tristated, and pulled high
WriteMCR(u, data) ==
    LET new  == Looped(u, data)
        a    == IF "loopback" \in data /\ new # {}
                THEN Rise([u EXCEPT !.delta = @ \cup new], "msr") ELSE u
        on   == "op2" \notin u.mcr /\ "op2" \in data
        off  == "op2" \in u.mcr /\ "op2" \notin data
        line == IF a.irq THEN a.line ELSE IF on THEN FALSE ELSE IF off THEN TRUE ELSE a.line
    IN  [a EXCEPT !.mcr = data, !.line = line]

ReadLSR(u) == Clear([u EXCEPT !.lsr = FALSE], "error")

ReadMSR(u) == Clear([u EXCEPT !.delta = {}, !.own = {}], "msr")

\* The guest may set the deltas to what it likes, which raises and clears nothing
WriteMSR(u, data) == [u EXCEPT !.delta = data, !.own = data]

\* setCTS, setDSR, setCD and setRI: RI has a delta only when it falls
SetModemLine(u, l, on) ==
    LET a == [u EXCEPT !.in = IF on THEN @ \cup {l} ELSE @ \ {l}]
        d == IF l = "ri" /\ on THEN {} ELSE {l}
    IN  IF on = (l \in u.in) THEN u
        ELSE IF Loopback(u) THEN a
        ELSE Rise([a EXCEPT !.delta = @ \cup d], "msr")

\* Init_Registers. The cells of a new FIFO have never been written: old is what
\* the first of errorfifo holds.
InitRegisters(old) ==
    [rx |-> 0, err |-> <<>>, errors |-> 0, stale |-> old, again |-> FALSE, own |-> {},
     trigger |-> 1, fifo |-> FALSE,
     tx |-> 0, sync |-> FALSE, txEmpty |-> TRUE, lsr |-> FALSE,
     ier |-> {}, waiting |-> {}, irq |-> FALSE, line |-> FALSE,
     mcr |-> {}, in |-> {"cts", "dsr", "cd", "ri"}, delta |-> {},
     ev |-> [e \in Events |-> 0]]
=============================================================================
