----------------------------- MODULE NullModem -----------------------------
(***************************************************************************)
(* A serial port whose line is a TCP connection: the UART of Uart with     *)
(* the null modem of src/hardware/serialport/nullmodem.cpp.  The guest     *)
(* programs the UART, the event queue delivers the events that both set,   *)
(* and the peer at the other end sends bytes, changes its modem lines,     *)
(* sends breaks and closes the connection whenever it likes.               *)
(*                                                                         *)
(* Times are left out: a pending event may come at any moment, before or   *)
(* after any other.  Received data stops at the UART's FIFO; what the      *)
(* guest transmits is sent at once, not gathered in a buffer.  The port is *)
(* a server, which waits for a peer to connect; clients, telnet commands   *)
(* and inherited sockets are left out.                                     *)
(***************************************************************************)
EXTENDS Uart, FiniteSets

CONSTANTS
    RetryMax,    \* rx_retry_max
    Transparent, \* is the line without control bytes?
    Peer,        \* the CTS and DSR that the peer's control bytes announce
    Relisten,    \* may opening the server's port again fail?
    DrainClose,  \* may the connection end behind bytes that are overdue?
    Iers, Fcrs, Mcrs, Msrs,   \* what the guest writes to these registers
    Reads        \* those of ISR, LSR and MSR that it reads

ASSUME ModemAssumption ==
    /\ RetryMax \in Nat \ {0}
    /\ Transparent \in BOOLEAN
    /\ Peer \subseteq SUBSET {"cts", "dsr"}
    /\ Relisten \in BOOLEAN /\ DrainClose \in BOOLEAN
    /\ Fcrs \subseteq [on : BOOLEAN, clearRx : BOOLEAN, clearTx : BOOLEAN, trigger : 1 .. FifoSize]

\* The fields of com besides those of the UART: client and server, whether the
\* sockets exist; rxState and retry; fault, set when the program uses a socket
\* that it deleted.
VARIABLE com

vars == <<com>>

---------------------------------------------------------------------------
(* The connection *)

Connected(c) == [SetEvent(c, "polling") EXCEPT !.client = TRUE, !.rxState = "idle"]

\* The port can be opened again, or is taken
Listening(c) ==
    {SetEvent([c EXCEPT !.server = TRUE], "server polling")}
    \cup IF Relisten THEN {c} ELSE {}

Unplugged(c) == SetModemLine(SetModemLine(SetModemLine(c, "dsr", FALSE), "cts", FALSE), "cd", FALSE)

\* A plausible defect of Disconnect, as in Uart
BadDisconnect(c) ==
    Listening(Unplugged([RemoveEvent(c, "rx") EXCEPT !.client = FALSE]))

Disconnect(c) ==
    LET a == RemoveEvent(RemoveEvent(c, "polling"), "rx")
    IN  Listening(Unplugged([a EXCEPT !.client = FALSE]))

\* The lines that a control byte of the peer sets, and perhaps a break
Controlled(c, high) ==
    LET a == SetModemLine(SetModemLine(c, "cts", "cts" \in high), "dsr", "dsr" \in high)
    IN  {a, ReceiveByteEx(a, TRUE)}

\* doReceive: what may have become of the port when a byte was received, and
\* when none was, since nothing came, or a control byte, or the end.
Received(c) == ReceiveByteEx(c, FALSE)
Quiet(c) ==
    {c} \cup IF Transparent THEN {} ELSE UNION {Controlled(c, high) : high \in Peer}
Nothing(c) == Quiet(c) \cup Disconnect(c)

---------------------------------------------------------------------------
(* The events *)

RxTimeout(c) == {Rise(c, "timeout")}

\* The byte in loopback_data comes back
TxLoopback(c) == {ByteTransmitted(ReceiveByteEx(c, FALSE))}

ThrLoopback(c) == {SetEvent(ByteTransmitting(c), "tx loopback")}

Thr(c) == {SetEvent(ByteTransmitting(c), "tx")}

\* The receiver goes on after this state's delay
Await(c, state) == SetEvent([c EXCEPT !.rxState = state], "rx")

Tx(c) ==
    LET listens == c.rxState = "idle" /\ CanReceiveByte(c) /\ c.client
        after   == IF listens THEN Nothing(c) \cup {Await(Received(c), "wait")} ELSE {c}
    IN  {ByteTransmitted(a) : a \in after}

Idle(c) == [c EXCEPT !.rxState = "idle"]

PollIdle(c) ==
    IF CanReceiveByte(c) THEN Nothing(c) \cup {Await(Received(c), "wait")}
    ELSE {Await(c, "blocked")}

\* The guest has not read for RetryMax polls: "read away everything", which
\* costs the last byte in the FIFO, until nothing comes
Overdue(c) ==
    LET a == RemoveEvent([c EXCEPT !.retry = 0], "rx")
        d == Received(a)
    IN  {Idle(x) : x \in Nothing(a)}
        \cup {Await(x, "wait") : x \in IF DrainClose THEN Nothing(d) ELSE Quiet(d)}

PollBlocked(c) ==
    LET a == RemoveEvent([c EXCEPT !.retry = 0], "rx")
    IN  IF CanReceiveByte(c)
        THEN {Idle(x) : x \in Nothing(a)} \cup {Await(Received(a), "fastwait")}
        ELSE IF c.retry + 1 >= RetryMax THEN Overdue(c)
        ELSE {[c EXCEPT !.retry = @ + 1]}

Polling(c) ==
    LET a == SetEvent(c, "polling")
    IN  CASE a.rxState = "idle"    -> PollIdle(a)
          [] a.rxState = "blocked" -> PollBlocked(a)
          [] OTHER                 -> {a}

Rx(c) ==
    LET a == [c EXCEPT !.retry = 0]
        next == IF c.rxState = "wait" THEN "wait" ELSE "fastwait"
    IN  CASE c.rxState \in {"idle", "disc"} -> {c}
          [] ~CanReceiveByte(c)    -> {Await(c, "blocked")}
          [] ~c.client             -> {[c EXCEPT !.fault = TRUE]}
          [] OTHER -> {Idle(x) : x \in Nothing(a)} \cup {Await(Received(a), next)}

\* ServerConnect: somebody is there, or not yet
ServerPolling(c) ==
    LET a == Connected([c EXCEPT !.server = FALSE])
    IN  {SetEvent(c, "server polling"), IF Transparent THEN SetModemLine(a, "cd", TRUE) ELSE a}

Outcomes(e, c) ==
    CASE e = "tx loopback"    -> TxLoopback(c)
      [] e = "thr loopback"   -> ThrLoopback(c)
      [] e = "tx"             -> Tx(c)
      [] e = "rx"             -> Rx(c)
      [] e = "polling"        -> Polling(c)
      [] e = "thr"            -> Thr(c)
      [] e = "rx timeout"     -> RxTimeout(c)
      [] e = "server polling" -> ServerPolling(c)

\* handleEvent and handleUpperEvent
Handle(e) == com.ev[e] > 0 /\ com' \in Outcomes(e, Taken(com, e))

---------------------------------------------------------------------------
(* The guest *)

\* The guest reads and writes the registers in any order, the data register
\* also when there is no data
Guest ==
    \/ com' = WriteTHR(com)
    \/ com' = ReadRHR(com)
    \/ \E data \in Iers : com' = WriteIER(com, data)
    \/ \E data \in Fcrs : \E old \in Left(com, data) : com' = WriteFCR(com, data, old)
    \/ \E data \in Mcrs : com' = WriteMCR(com, data)
    \/ \E data \in Msrs : com' = WriteMSR(com, data)
    \/ "isr" \in Reads /\ com' = ReadISR(com)
    \/ "lsr" \in Reads /\ com' = ReadLSR(com)
    \/ "msr" \in Reads /\ com' = ReadMSR(com)

---------------------------------------------------------------------------

Modem ==
    [client |-> FALSE, server |-> TRUE, rxState |-> "disc", retry |-> 0, fault |-> FALSE]

\* The constructor: the port listens, the UART is reset, and the modem lines
\* are set after that
NewPort(old) ==
    LET u == [f \in DOMAIN InitRegisters(old) \cup DOMAIN Modem |->
                  IF f \in DOMAIN Modem THEN Modem[f] ELSE InitRegisters(old)[f]]
        a == SetEvent(u, "server polling")
        b == SetModemLine(SetModemLine(a, "cts", Transparent), "dsr", Transparent)
    IN  SetModemLine(SetModemLine(b, "ri", FALSE), "cd", FALSE)

Init == \E old \in BOOLEAN : com = NewPort(old)

Next == ~com.fault /\ (Guest \/ \E e \in Events : Handle(e))

Spec == Init /\ [][Next]_vars

---------------------------------------------------------------------------
(* Properties *)

Active(events) == {e \in events : com.ev[e] > 0}

\* The registers and the modem keep their types, and no event is set twice.
TypeOK ==
    /\ com.rx \in 0 .. Size(com) /\ com.tx \in 0 .. Size(com)
    /\ com.trigger \in 1 .. FifoSize
    /\ com.errors \in 0 .. Word - 1
    /\ com.rxState \in {"disc", "idle", "wait", "fastwait", "blocked"}
    /\ com.retry \in 0 .. RetryMax - 1
    /\ \A e \in Events : com.ev[e] \in {0, 1}

\* Received data is never forgotten: while there is some, its interrupt is
\* waiting, or the timeout that raises one is running, however the guest
\* reads, clears the FIFOs, and switches them, their trigger and the loopback.
DataIsAnnounced ==
    com.rx > 0 => {"rx", "timeout"} \cap com.waiting # {} \/ com.ev["rx timeout"] = 1

\* The transmitter neither hangs nor sends two bytes at a time: LSR says that
\* it is busy exactly while one of the four transmit events is pending; idle,
\* it holds no byte ("Serial port internal error 1" to 3, in Write_THR).
TransmitterBusy ==
    LET sending == Active({"thr", "tx", "thr loopback", "tx loopback"})
    IN  /\ sending = {} <=> com.txEmpty
        /\ \A d, e \in sending : d = e
        /\ com.txEmpty => com.tx = 0 /\ ~com.sync
        /\ com.sync => sending \subseteq {"thr", "thr loopback"}

\* A connection is polled for as long as it lasts, and its receiver waits for
\* exactly one event when it is not idle ("internal error in nullmodem"); one
\* that ended is neither polled nor read, and the next one is looked for.
ReceiverRuns ==
    /\ ~com.fault
    /\ com.client =>
           /\ Active({"polling", "server polling"}) = {"polling"}
           /\ com.ev["rx"] = 1 <=> com.rxState # "idle"
    /\ ~com.client =>
           /\ Active({"polling", "rx"}) = {}
           /\ com.ev["server polling"] = 1 <=> com.server

\* The error FIFO stays in step with the data FIFO, so that an error is reported
\* with the byte that it came with, also while the guest reads an empty FIFO.
\* errors_in_fifo counts the marks, unless such a read took one a second time:
\* then it is wrong until the FIFOs are cleared or switched, and it is 0 when
\* they are switched on ("should already be 0", in Write_FCR).
ErrorsInStep ==
    /\ com.fifo => Len(com.err) = com.rx
    /\ ~com.fifo => com.errors = 0
    /\ ~com.again => com.errors = Cardinality({i \in DOMAIN com.err : com.err[i]})

\* The registers keep their types, and the error FIFO is in step.
FifosOK == TypeOK /\ ErrorsInStep

\* What the guest can ask for is what it was told: the line is high only for an
\* enabled cause that waits, and the causes for which it reads LSR and MSR
\* wait as long as there is something to read there, but for deltas that it
\* wrote to MSR itself.
CausesAreReal ==
    /\ com.irq <=> com.ier \cap com.waiting # {}
    /\ "op2" \in com.mcr /\ com.line => com.irq
    /\ com.lsr <=> "error" \in com.waiting
    /\ com.delta \subseteq com.own \/ "msr" \in com.waiting
=============================================================================
