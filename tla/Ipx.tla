-------------------------------- MODULE Ipx --------------------------------
(***************************************************************************)
(* The IPX driver of src/hardware/ipx.cpp: a DOS program submits event     *)
(* control blocks (ECBs) to listen, to send and to wait; packets tunnelled *)
(* over UDP and timer events complete them, and the handler of interrupt   *)
(* 11 gives them back.  The network may lose, delay and reorder packets,   *)
(* refuse to send and not answer: a packet comes whenever it likes or      *)
(* never.                                                                  *)
(*                                                                         *)
(* The memory of an ECB belongs to the program while its in-use flag says  *)
(* "available", and to the driver otherwise.  Programs are assumed to      *)
(* submit only ECBs that are theirs; one whose service routine (ESR) is    *)
(* still to be called may be submitted again.                              *)
(*                                                                         *)
(* Left out are the bytes of packets but for the socket that they are for, *)
(* completion codes, the addresses, the server at the other end, and the   *)
(* end of the driver.                                                      *)
(***************************************************************************)
EXTENDS Integers, FiniteSets, SequencesExt, Lists

CONSTANTS
    Ecbs,        \* the addresses of the ECBs
    Notified,    \* those that have a service routine
    Sockets,     \* the sockets that programs ask for by number
    Dynamic,     \* 0x4002, the first that is given to those who ask for none
    LastDynamic, \* 0x7fff
    TableSize,   \* SOCKTABLESIZE
    MaxOpen,     \* how many sockets programs have open at a time
    TimerSockets, \* the sockets that ECBs name which are submitted to wait
    PingFails,   \* may sending fail while IPXNET waits for the answers to a ping?
    MaxWaiting   \* how many ECBs wait for their service routine

ASSUME EcbsAssumption == Notified \subseteq Ecbs /\ MaxWaiting \in Nat \ {0}
ASSUME SocketsAssumption ==
    /\ \A s \in Sockets : s \in Nat \ {0} /\ s < 65536
    /\ \A s \in TimerSockets : s \in Nat /\ s < 65536
    /\ Dynamic \in Nat \ {0} /\ LastDynamic \in Nat /\ Dynamic < LastDynamic
    /\ TableSize \in Nat \ {0} /\ MaxOpen \in 1 .. TableSize
ASSUME PingAssumption == PingFails \in BOOLEAN

\* The fields of ipx: use, the in-use flags in memory; list and esrs, ECBList and
\* ESRList; inEsr, whether the routine of the first of esrs runs; irq, the request
\* for interrupt 11; events, how often IPX_AES_EventHandler is in the event queue
\* for an ECB; opensockets and socketCount, and opened, the sockets that programs
\* have opened and not closed; connected, incomingPacket.connected; udp, whether
\* ipxClientSocket is open; ticks, how often IPX_ClientLoop is a tick handler;
\* ipxnet, what the program IPXNET waits for; fault, set when a UDP socket is used
\* that is closed.
VARIABLE ipx

NoData == 0  \* databuffer: otherwise the socket of the packet

Ecb(e, use, socket) == [addr |-> e, use |-> use, socket |-> socket, data |-> NoData]

---------------------------------------------------------------------------
(* The lists of ECBs.  Index i is the place of an ECB in ECBList. *)

\* The constructor puts a new ECB at the end of the list
Submitted(d, e, use, socket) ==
    [d EXCEPT !.list = Append(@, Ecb(e, use, socket)), !.use[e] = use]

Deleted(d, i) == [d EXCEPT !.list = RemoveAt(@, i)]

Released(d, i) == [d EXCEPT !.list[i].use = "available", !.use[d.list[i].addr] = "available"]

\* NotifyESR: an ECB without routine and data is deleted
NotifyESR(d, i) ==
    LET ecb == d.list[i]
    IN  IF ecb.addr \in Notified \/ ecb.data # NoData
        THEN [Deleted(d, i) EXCEPT !.esrs = Append(@, ecb), !.irq = TRUE]
        ELSE Deleted(d, i)

\* receivePacket: the ECB that has listened longest gets the packet
ReceivePacket(d, socket) ==
    LET listening == {i \in DOMAIN d.list : d.list[i].use = "listening" /\ d.list[i].socket = socket}
    IN  IF listening = {} THEN d
        ELSE NotifyESR([d EXCEPT !.list[Min(listening)].data = socket], Min(listening))

---------------------------------------------------------------------------
(* Sockets *)

InUse(d) == {d.opensockets[i] : i \in 0 .. d.socketCount - 1}

OpenSocket(d, asked) ==
    LET socket == IF asked # 0 THEN asked
                  ELSE Min({s \in Dynamic .. LastDynamic : s \notin InUse(d) \/ s = LastDynamic})
    IN  IF d.socketCount >= TableSize \/ asked \in InUse(d) THEN d
        ELSE [d EXCEPT !.opensockets[d.socketCount] = socket, !.socketCount = @ + 1,
                       !.opened = @ \cup {socket}]

\* memcpy of that many bytes from index i + 1 to index i, of sockets of two bytes
Copied(sockets, i, bytes) ==
    [j \in DOMAIN sockets |->
        CASE j >= i /\ 2 * (j - i) + 1 < bytes -> sockets[j + 1]
          [] j >= i /\ 2 * (j - i) + 1 = bytes ->
                 ((sockets[j] \div 256) * 256) + (sockets[j + 1] % 256)
          [] OTHER -> sockets[j]]

Realigned(d, socket) ==
    LET at == {i \in 0 .. d.socketCount - 2 : d.opensockets[i] = socket}
    IN  IF at = {} THEN d.opensockets
        ELSE Copied(d.opensockets, Min(at), TableSize - (Min(at) + 1))

\* The operators named Bad... are plausible defects: a property is worth having
\* when it fails once one of them replaces the definition below it.
BadCloseSocket(d, socket) ==
    IF socket \notin InUse(d) THEN d
    ELSE [d EXCEPT !.opensockets = Realigned(d, socket), !.socketCount = @ - 1,
                   !.opened = @ \ {socket}]

\* The timer events of the ECBs stay, and so do the ECBs in ESRList
CloseSocket(d, socket) ==
    LET gone == {d.list[i].addr : i \in {j \in DOMAIN d.list : d.list[j].socket = socket}}
    IN  IF socket \notin InUse(d) THEN d
        ELSE [d EXCEPT
                 !.opensockets = Realigned(d, socket), !.socketCount = @ - 1,
                 !.opened = @ \ {socket},
                 !.list = Selection(@, {i \in DOMAIN @ : @[i].socket # socket}),
                 !.use = [e \in Ecbs |-> IF e \in gone THEN "available" ELSE @[e]]]

---------------------------------------------------------------------------
(* The connection, and the program IPXNET *)

DelTickHandler(d) == [d EXCEPT !.ticks = IF @ > 0 THEN @ - 1 ELSE 0]

BadDisconnectFromServer(d) ==
    IF d.connected THEN [d EXCEPT !.connected = FALSE, !.udp = FALSE] ELSE d

DisconnectFromServer(d) ==
    IF d.connected THEN [DelTickHandler(d) EXCEPT !.connected = FALSE, !.udp = FALSE] ELSE d

\* The registration is sent, and IPXNET waits five seconds for the answer
ConnectToServer ==
    /\ ipx.ipxnet = "" /\ ~ipx.connected
    /\ ipx' = [ipx EXCEPT !.udp = TRUE, !.ipxnet = "connect"]

Connected ==
    /\ ipx.ipxnet = "connect"
    /\ ipx' = [ipx EXCEPT !.connected = TRUE, !.ticks = @ + 1, !.ipxnet = ""]

TimedOut ==
    /\ ipx.ipxnet = "connect"
    /\ ipx' = [ipx EXCEPT !.udp = FALSE, !.ipxnet = ""]

Disconnect == ipx.ipxnet = "" /\ ipx.connected /\ ipx' = DisconnectFromServer(ipx)

\* IPXNET PING reads the answers itself
Ping ==
    /\ ipx.ipxnet = "" /\ ipx.connected
    /\ ipx' = [DelTickHandler(ipx) EXCEPT !.ipxnet = "ping"]

PingOver ==
    /\ ipx.ipxnet = "ping"
    /\ ipx' = [ipx EXCEPT !.ticks = @ + 1, !.ipxnet = "", !.fault = @ \/ ~ipx.udp]

\* IPX_ClientLoop, a tick handler: what it receives is for some socket
ClientLoop ==
    /\ ipx.ticks > 0
    /\ \E socket \in ipx.opened \cup Sockets :
          ipx' = [ReceivePacket(ipx, socket) EXCEPT !.fault = @ \/ ~ipx.udp]

---------------------------------------------------------------------------
(* Calls of the program, at any time and in a service routine too *)

Listen(e, socket) ==
    ipx' = IF socket \in InUse(ipx) THEN Submitted(ipx, e, "listening", socket)
           ELSE [ipx EXCEPT !.use[e] = "available"]

\* sendPacket for the ECB at the end of the list: the packet is sent, or too
\* large, or comes back because it is for this computer as well
Sent(d, socket) ==
    LET n == Len(d.list)
        back == ReceivePacket(d, socket)
        failed == DisconnectFromServer(NotifyESR(d, n))
    IN  {NotifyESR(d, n), NotifyESR(back, Len(back.list))}
        \cup IF PingFails \/ d.ipxnet # "ping" THEN {failed} ELSE {}

SendPacket(e, socket) ==
    IF ipx.connected THEN ipx' \in Sent(Submitted(ipx, e, "available", socket), socket)
    ELSE ipx' = [ipx EXCEPT !.use[e] = "available"]

ScheduleEvent(e) ==
    \E socket \in TimerSockets :
        ipx' = [Submitted(ipx, e, "aesCount", socket) EXCEPT !.events[e] = @ + 1]

BadCancelOperation(e) ==
    LET at == {i \in DOMAIN ipx.list : ipx.list[i].addr = e}
    IN  at # {} /\ ipx' = Deleted(Released(ipx, Min(at)), Min(at))

CancelOperation(e) ==
    LET at == {i \in DOMAIN ipx.list : ipx.list[i].addr = e}
        timed == ipx.use[e] = "aesCount"
    IN  /\ at # {}
        /\ ipx' = [Deleted(Released(ipx, Min(at)), Min(at)) EXCEPT
                      !.events[e] = IF timed THEN 0 ELSE @]

Submit(e) ==
    /\ ipx.use[e] = "available" /\ Len(ipx.esrs) < MaxWaiting
    /\ \/ \E socket \in ipx.opened \cup Sockets : Listen(e, socket) \/ SendPacket(e, socket)
       \/ ScheduleEvent(e)

Guest ==
    \/ \E e \in Ecbs : Submit(e) \/ CancelOperation(e)
    \/ \E s \in Sockets \cup {0} : Cardinality(ipx.opened) < MaxOpen /\ ipx' = OpenSocket(ipx, s)
    \/ \E s \in ipx.opened : ipx' = CloseSocket(ipx, s)

---------------------------------------------------------------------------
(* Events and interrupt 11 *)

\* IPX_AES_EventHandler: the ECB that waits, unless it is not there any more
AesEvent(e) ==
    LET waiting == {i \in DOMAIN ipx.list :
                       ipx.list[i].use = "aesCount" /\ ipx.list[i].addr = e}
        d == [ipx EXCEPT !.events[e] = @ - 1]
    IN  /\ ipx.events[e] > 0
        /\ ipx' = IF waiting = {} THEN d ELSE NotifyESR(Released(d, Min(waiting)), Min(waiting))

\* The loop of IPX_ESRHandler up to the next service routine: the data of the
\* ECBs on the way is written
Served(d) ==
    LET called == {i \in DOMAIN d.esrs : d.esrs[i].addr \in Notified}
        next == IF called = {} THEN Len(d.esrs) + 1 ELSE Min(called)
        written == {d.esrs[i].addr : i \in {j \in DOMAIN d.esrs : j <= next /\ d.esrs[j].data # NoData}}
    IN  [d EXCEPT !.esrs = SubSeq(@, next, Len(@)), !.inEsr = called # {},
                  !.use = [e \in Ecbs |-> IF e \in written THEN "available" ELSE @[e]]]

ESRHandler == ~ipx.inEsr /\ ipx.irq /\ ipx' = Served([ipx EXCEPT !.irq = FALSE])

BadEsrReturns == ipx.inEsr /\ ipx' = [ipx EXCEPT !.esrs = Tail(@), !.inEsr = FALSE]

EsrReturns == ipx.inEsr /\ ipx' = Served([ipx EXCEPT !.esrs = Tail(@)])

---------------------------------------------------------------------------

Init ==
    ipx = [use |-> [e \in Ecbs |-> "available"], list |-> <<>>, esrs |-> <<>>,
           inEsr |-> FALSE, irq |-> FALSE, events |-> [e \in Ecbs |-> 0],
           opensockets |-> [i \in 0 .. TableSize - 1 |-> 0], socketCount |-> 0, opened |-> {},
           connected |-> FALSE, udp |-> FALSE, ticks |-> 0, ipxnet |-> "", fault |-> FALSE]

Next ==
    \/ ConnectToServer \/ Connected \/ TimedOut \/ Disconnect \/ Ping \/ PingOver
    \/ ClientLoop \/ Guest
    \/ \E e \in Ecbs : AesEvent(e)
    \/ ESRHandler \/ EsrReturns

Spec == Init /\ [][Next]_ipx

\* Interrupt 11 is taken, and service routines return
FairSpec == Spec /\ WF_ipx(ESRHandler) /\ WF_ipx(EsrReturns)

---------------------------------------------------------------------------
(* Properties *)

\* The ECBs of the driver, with their use; data that waits to be written is in
\* an ECB that listens still.
Held(e, use) ==
    {i \in DOMAIN ipx.list : ipx.list[i].addr = e /\ ipx.list[i].use = use}

Unwritten(e) ==
    {i \in DOMAIN ipx.esrs : /\ ipx.esrs[i].addr = e /\ ipx.esrs[i].data # NoData
                             /\ ~(ipx.inEsr /\ i = 1)}

\* The in-use flags say what the driver holds: an ECB that listens is in one
\* list, once, and its memory is not written when it is the program's; one that
\* waits has one timer event; and no other ECB, and no other event, is left in
\* the lists or in the event queue ("!!!! Rouge AES !!!!").
EcbsAccounted ==
    /\ \A e \in Ecbs :
          /\ Cardinality(Held(e, "listening")) + Cardinality(Unwritten(e)) =
                 IF ipx.use[e] = "listening" THEN 1 ELSE 0
          /\ Cardinality(Held(e, "aesCount")) = IF ipx.use[e] = "aesCount" THEN 1 ELSE 0
          /\ Cardinality(Held(e, "aesCount")) = ipx.events[e]
    /\ \A i \in DOMAIN ipx.list : ipx.list[i].use # "available"

\* The table has the sockets that are open, each once, and no ECB listens on
\* a socket that was closed.
SocketsOpen ==
    /\ Cardinality(ipx.opened) = ipx.socketCount
    /\ InUse(ipx) = ipx.opened
    /\ \A i \in DOMAIN ipx.list : ipx.list[i].use = "listening" => ipx.list[i].socket \in ipx.opened

\* While there is a connection its socket is open and polled by one tick handler,
\* or by a ping; when it ends, by command, by an error or because the server does
\* not answer in time, nothing uses the socket again.
ConnectionOK ==
    /\ ~ipx.fault
    /\ ipx.udp <=> ipx.connected \/ ipx.ipxnet = "connect"
    /\ ipx.ticks = IF ipx.connected /\ ipx.ipxnet # "ping" THEN 1 ELSE 0

\* An ECB that was completed is given back: its service routine is called, and
\* what it received is written, whatever else is completed meanwhile.
InEsr(e) == ipx.inEsr /\ ipx.esrs[1].addr = e
Waiting(e) == \E i \in DOMAIN ipx.esrs : ipx.esrs[i].addr = e
CompletedIsServed == \A e \in Ecbs : Waiting(e) ~> InEsr(e) \/ ~Waiting(e)
=============================================================================
