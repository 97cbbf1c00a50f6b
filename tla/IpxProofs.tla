----------------------------- MODULE IpxProofs ------------------------------
(***************************************************************************)
(* Proofs about Ipx: that the connection, its UDP socket and its tick      *)
(* handler begin and end together, however it ends; that the in-use flags  *)
(* of the ECBs say what the driver holds; and that the table of sockets    *)
(* has the open ones.                                                      *)
(*                                                                         *)
(* Link names the four states that the connection can be in. What is done  *)
(* to ECBs and sockets keeps the fields of the connection (SameLink), and  *)
(* only a failed send, which disconnects, moves it in the middle of        *)
(* another operation. Sending is assumed not to fail while IPXNET waits    *)
(* for the answers to a ping: with PingFails the handler is restored to a  *)
(* connection that is gone.                                                *)
(*                                                                         *)
(* EcbInv says what ECBList, ESRList, the flags and the timer events say   *)
(* of each other. It is stated of the parts of a state and not of a state  *)
(* (Accounted), so that each operation on the lists has one lemma, and an  *)
(* action that is made of several is followed through the states between   *)
(* them. Those between may have an ECB that is being sent (Sending): it is *)
(* the last of the list. ECBs that wait are assumed to be submitted with   *)
(* numbers that are no socket's (Apart): closing a socket would delete     *)
(* them and leave their timer events.                                      *)
(*                                                                         *)
(* Table is kept because all other operations leave it alone and let no    *)
(* ECB listen on another socket than before (Narrows), as long as the      *)
(* table is at most half full (HalfFull) and there is a free number        *)
(* (Enough).                                                               *)
(***************************************************************************)
EXTENDS Ipx, SequenceTheorems, FiniteSetTheorems, WellFoundedInduction, TLAPS

---------------------------------------------------------------------------
(* Numbers, and entries of a sequence removed or selected *)

\* A set of numbers has a smallest one
LEMMA SmallestIsMember ==
    ASSUME NEW S \in SUBSET Nat, S # {}
    PROVE  Min(S) \in S /\ \A x \in S : Min(S) <= x
<1> DEFINE R == {p \in Nat \X Nat : p[1] < p[2]}
<1>1. IsWellFoundedOn(R, Nat)
    BY NatLessThanWellFounded DEF OpToRel
<1>2. PICK x \in S : \A y \in S : ~(<<y, x>> \in R)
    <2> HIDE DEF R
    <2> QED
        BY <1>1, WFMin
<1>3. ASSUME NEW y \in S PROVE x <= y
    <2>1. x \in Nat /\ y \in Nat
        OBVIOUS
    <2>2. y < x => <<y, x>> \in R
        BY <2>1
    <2> QED
        BY <1>2, <2>1, <2>2
<1> QED
    BY <1>3 DEF Min

LEMMA Removed ==
    ASSUME NEW S, NEW s \in Seq(S), NEW i \in 1 .. Len(s)
    PROVE  LET t == RemoveAt(s, i)
           IN  /\ t \in Seq(S) /\ Len(t) = Len(s) - 1
               /\ \A j \in 1 .. Len(s) - 1 : t[j] = IF j < i THEN s[j] ELSE s[j + 1]
<1> DEFINE a == SubSeq(s, 1, i - 1)
           c == SubSeq(s, i + 1, Len(s))
<1>1. /\ a \in Seq(S) /\ Len(a) = i - 1 /\ \A j \in 1 .. i - 1 : a[j] = s[j]
      /\ c \in Seq(S) /\ Len(c) = Len(s) - i
      /\ \A j \in 1 .. Len(s) - i : c[j] = s[i + j]
    BY SubSeqProperties
<1> HIDE DEF a, c
<1>2. /\ a \o c \in Seq(S) /\ Len(a \o c) = Len(s) - 1
      /\ \A j \in 1 .. Len(s) - 1 : (a \o c)[j] = IF j < i THEN a[j] ELSE c[j - i + 1]
    <2>1. /\ a \o c \in Seq(S) /\ Len(a \o c) = Len(a) + Len(c)
          /\ \A j \in 1 .. Len(a) + Len(c) :
                 (a \o c)[j] = IF j <= Len(a) THEN a[j] ELSE c[j - Len(a)]
        BY <1>1, ConcatProperties
    <2>2. i \in Int /\ Len(s) \in Int /\ i <= Len(s) /\ i >= 1
        OBVIOUS
    <2>3. Len(a) = i - 1 /\ Len(c) = Len(s) - i
        BY <1>1
    <2> DEFINE d == a \o c
    <2>4. Len(d) = Len(s) - 1
        BY <2>1, <2>2, <2>3
    <2>5. ASSUME NEW j \in 1 .. Len(s) - 1
          PROVE  d[j] = IF j < i THEN a[j] ELSE c[j - i + 1]
        <3>1. j \in 1 .. Len(a) + Len(c) /\ (j <= Len(a) <=> j < i) /\ j - Len(a) = j - i + 1
            BY <2>2, <2>3
        <3>2. d[j] = IF j <= Len(a) THEN a[j] ELSE c[j - Len(a)]
            BY <2>1, <3>1
        <3> QED
            BY <3>1, <3>2
    <2> QED
        BY <2>1, <2>4, <2>5
<1>3. RemoveAt(s, i) = a \o c
    BY DEF RemoveAt, a, c
<1> QED
    BY <1>1, <1>2, <1>3

LEMMA FirstNumbers ==
    ASSUME NEW n \in Nat
    PROVE  IsFiniteSet(1 .. n) /\ Cardinality(1 .. n) = n
    BY FS_Interval

\* place says where in s the entries of t were
Landed(place, t, s, kept) ==
    /\ place \in [1 .. Len(t) -> kept]
    /\ \A n \in 1 .. Len(t) : t[n] = s[place[n]]
    /\ \A m, n \in 1 .. Len(t) : m < n => place[m] < place[n]
    /\ \A i \in kept : \E n \in 1 .. Len(t) : place[n] = i

\* The entries that are kept, and no others, are in the new sequence, and they
\* are in their old order.
LEMMA SelectionInOrder ==
    ASSUME NEW S, NEW s \in Seq(S), NEW kept \in SUBSET (1 .. Len(s))
    PROVE  LET t == Selection(s, kept)
           IN  /\ t \in Seq(S) /\ Len(t) = Cardinality(kept) /\ Len(t) <= Len(s)
               /\ \E place : Landed(place, t, s, kept)
<1> DEFINE c == Cardinality(kept)
           r == [i \in kept |-> Rank(kept, i)]
           place == [n \in 1 .. c |-> CHOOSE i \in kept : Rank(kept, i) = n]
           t == Selection(s, kept)
<1>1. Len(s) \in Nat /\ \A i \in 1 .. Len(s) : s[i] \in S
    OBVIOUS
<1>2. /\ IsFiniteSet(kept) /\ c \in Nat /\ c <= Len(s)
      /\ IsFiniteSet(1 .. c) /\ Cardinality(1 .. c) = c
    <2>1. IsFiniteSet(1 .. Len(s)) /\ Cardinality(1 .. Len(s)) = Len(s)
        BY <1>1, FirstNumbers
    <2>2. IsFiniteSet(kept) /\ c <= Len(s)
        BY <2>1, FS_Subset
    <2>3. c \in Nat
        BY <2>2, FS_CardinalityType
    <2> HIDE DEF c
    <2> QED
        BY <2>2, <2>3, FirstNumbers
<1>n. kept \subseteq Int
    BY <1>1
<1>3. ASSUME NEW i \in kept, NEW T, T = {k \in kept : k <= i}
      PROVE  IsFiniteSet(T) /\ Cardinality(T) \in 1 .. c
    <2>1. T \in SUBSET kept /\ i \in T
        BY <1>1, <1>3
    <2>2. IsFiniteSet(T) /\ Cardinality(T) <= c /\ Cardinality(T) \in Nat
        BY <1>2, <2>1, FS_Subset, FS_CardinalityType
    <2>3. Cardinality(T) # 0
        BY <2>1, <2>2, FS_EmptySet
    <2> QED
        BY <1>2, <2>2, <2>3
<1>4. ASSUME NEW i \in kept, NEW j \in kept, i < j
      PROVE  Rank(kept, i) < Rank(kept, j)
    <2> DEFINE A == {k \in kept : k <= i}
               B == {k \in kept : k <= j}
    <2>1. A \in SUBSET B /\ A # B
        <3>1. i \in Int /\ j \in Int /\ j \in B /\ j \notin A
            BY <1>n, <1>4
        <3>2. \A k \in kept : k <= i => k <= j
            BY <1>n, <1>4
        <3> QED
            BY <3>1, <3>2
    <2>2. IsFiniteSet(B) /\ Cardinality(A) \in 1 .. c /\ Cardinality(B) \in 1 .. c
        BY <1>3
    <2>3. Cardinality(A) <= Cardinality(B) /\ Cardinality(A) # Cardinality(B)
        BY <2>1, <2>2, FS_Subset
    <2> HIDE DEF A, B
    <2>4. Cardinality(A) < Cardinality(B)
        BY <1>2, <2>2, <2>3
    <2> QED
        BY <2>4 DEF A, B, Rank
<1>5. r \in [kept -> 1 .. c]
    BY <1>3 DEF Rank
<1>6. \A i, j \in kept : r[i] = r[j] => i = j
    <2>1. \A i, j \in kept : i = j \/ i < j \/ j < i
        BY <1>1
    <2>2. \A i \in kept : r[i] \in Nat /\ r[i] = Rank(kept, i)
        BY <1>5
    <2> HIDE DEF r
    <2> QED
        BY <1>4, <2>1, <2>2
<1>7. \A n \in 1 .. c : \E i \in kept : r[i] = n
    <2>1. r \in Injection(kept, 1 .. c)
        BY <1>5, <1>6 DEF Injection, IsInjective
    <2>2. r \in Surjection(kept, 1 .. c)
        BY <1>2, <2>1, FS_Injection
    <2> QED
        BY <2>2 DEF Surjection
<1>8. \A n \in 1 .. c : place[n] \in kept /\ Rank(kept, place[n]) = n
    BY <1>7
<1> HIDE DEF place, r
<1>9. place \in [1 .. c -> kept]
    BY <1>8 DEF place
<1>10. \A m, n \in 1 .. c : m < n => place[m] < place[n]
    <2> SUFFICES ASSUME NEW m \in 1 .. c, NEW n \in 1 .. c, m < n
                 PROVE  place[m] < place[n]
        OBVIOUS
    <2>1. place[m] \in kept /\ place[n] \in kept
          /\ Rank(kept, place[m]) = m /\ Rank(kept, place[n]) = n
        BY <1>8
    <2>2. place[m] \in Int /\ place[n] \in Int
        BY <1>n, <2>1
    <2>3. place[n] < place[m] => n < m
        BY <1>4, <2>1
    <2>4. place[n] # place[m]
        BY <1>2, <2>1
    <2> QED
        BY <1>2, <2>2, <2>3, <2>4
<1>11. \A i \in kept : \E n \in 1 .. c : place[n] = i
    <2> SUFFICES ASSUME NEW i \in kept
                 PROVE  \E n \in 1 .. c : place[n] = i
        OBVIOUS
    <2>1. r[i] \in 1 .. c /\ r[i] = Rank(kept, i)
        BY <1>5 DEF r
    <2>2. place[r[i]] \in kept /\ r[place[r[i]]] = r[i]
        BY <1>8, <2>1 DEF r
    <2> QED
        BY <1>6, <2>1, <2>2
<1>12. t = [n \in 1 .. c |-> s[place[n]]]
    BY DEF Selection, place
<1>13. t \in Seq(S) /\ Len(t) = c
    <2>1. \A n \in 1 .. c : s[place[n]] \in S
        BY <1>1, <1>9
    <2> QED
        BY <1>2, <1>12, <2>1
<1> HIDE DEF t, c
<1>14. Landed(place, t, s, kept)
    BY <1>9, <1>10, <1>11, <1>12, <1>13 DEF Landed
<1> QED
    BY <1>2, <1>13, <1>14 DEF t, c

---------------------------------------------------------------------------

\* The part of the state that is the connection
Fields == {"use", "list", "esrs", "inEsr", "irq", "events", "opensockets", "socketCount",
           "opened", "connected", "udp", "ticks", "ipxnet", "fault"}

SameLink(c, d) ==
    /\ DOMAIN c = DOMAIN d
    /\ c.connected = d.connected /\ c.udp = d.udp /\ c.ticks = d.ticks
    /\ c.ipxnet = d.ipxnet /\ c.fault = d.fault

State(d, connected, udp, ticks, ipxnet) ==
    /\ d.connected = connected /\ d.udp = udp /\ d.ticks = ticks /\ d.ipxnet = ipxnet

\* The four states of the connection: none, IPXNET waiting for the answer of the
\* server, connected, and connected with a ping that polls instead of the handler
Link(d) ==
    /\ DOMAIN d = Fields /\ d.fault = FALSE
    /\ \/ State(d, FALSE, FALSE, 0, "")
       \/ State(d, FALSE, TRUE, 0, "connect")
       \/ State(d, TRUE, TRUE, 1, "")
       \/ State(d, TRUE, TRUE, 0, "ping")

LEMMA SameIsLink ==
    ASSUME NEW d, Link(d), NEW c, SameLink(c, d)
    PROVE  Link(c)
    BY DEF Link, State, SameLink

LEMMA SameIsTransitive ==
    ASSUME NEW b, NEW c, NEW d, SameLink(b, c), SameLink(c, d)
    PROVE  SameLink(b, d)
    BY DEF SameLink

\* What is done to ECBs and sockets leaves the connection alone
LEMMA SubmittedLink ==
    ASSUME NEW d, DOMAIN d = Fields, NEW e, NEW use, NEW socket
    PROVE  SameLink(Submitted(d, e, use, socket), d)
    BY DEF Submitted, SameLink, State, Fields

LEMMA DeletedLink ==
    ASSUME NEW d, DOMAIN d = Fields, NEW i
    PROVE  SameLink(Deleted(d, i), d)
    BY DEF Deleted, SameLink, State, Fields

LEMMA ReleasedLink ==
    ASSUME NEW d, DOMAIN d = Fields, NEW i
    PROVE  SameLink(Released(d, i), d)
    BY DEF Released, SameLink, State, Fields

LEMMA NotifyLink ==
    ASSUME NEW d, DOMAIN d = Fields, NEW i
    PROVE  SameLink(NotifyESR(d, i), d)
<1> DEFINE c == Deleted(d, i)
           q == [c EXCEPT !.esrs = Append(@, d.list[i]), !.irq = TRUE]
<1>1. SameLink(c, d)
    BY DeletedLink
<1> HIDE DEF c
<1>2. SameLink(q, d)
    BY <1>1 DEF SameLink, State, Fields
<1> HIDE DEF q
<1>3. NotifyESR(d, i) \in {c, q}
    BY DEF NotifyESR, c, q
<1> QED
    BY <1>1, <1>2, <1>3

LEMMA ReceiveLink ==
    ASSUME NEW d, DOMAIN d = Fields, NEW socket
    PROVE  SameLink(ReceivePacket(d, socket), d)
<1> DEFINE listening == {i \in DOMAIN d.list : d.list[i].use = "listening"
                                              /\ d.list[i].socket = socket}
           n == Min(listening)
           c == [d EXCEPT !.list[n].data = socket]
<1>1. SameLink(d, d)
    BY DEF SameLink
<1>2. SameLink(c, d)
    BY DEF SameLink, State, Fields
<1>3. ReceivePacket(d, socket) \in {d, NotifyESR(c, n)}
    BY DEF ReceivePacket
<1> HIDE DEF c, n
<1>4. SameLink(NotifyESR(c, n), d)
    BY <1>2, NotifyLink, SameIsTransitive DEF SameLink
<1> QED
    BY <1>1, <1>3, <1>4

LEMMA SocketsLink ==
    ASSUME NEW d, DOMAIN d = Fields, NEW socket
    PROVE  SameLink(OpenSocket(d, socket), d) /\ SameLink(CloseSocket(d, socket), d)
    BY DEF OpenSocket, CloseSocket, SameLink, State, Fields

LEMMA ServedLink ==
    ASSUME NEW d, DOMAIN d = Fields
    PROVE  SameLink(Served(d), d)
    BY DEF Served, SameLink, State, Fields

---------------------------------------------------------------------------
(* Each action keeps the connection in order *)

LEMMA InitLink == Init => Link(ipx)
<1> SUFFICES ASSUME Init PROVE Link(ipx)
    OBVIOUS
<1>1. DOMAIN ipx = Fields
    BY DEF Init, Fields
<1>2. State(ipx, FALSE, FALSE, 0, "") /\ ipx.fault = FALSE
    BY DEF Init, State
<1> QED
    BY <1>1, <1>2 DEF Link

\* The tick handler that goes was there
LEMMA DelTickLink ==
    ASSUME NEW d, DOMAIN d = Fields, d.ticks = 1
    PROVE  LET c == DelTickHandler(d)
           IN  /\ DOMAIN c = Fields /\ c.ticks = 0 /\ c.connected = d.connected
               /\ c.udp = d.udp /\ c.ipxnet = d.ipxnet /\ c.fault = d.fault
    BY DEF DelTickHandler, Fields

\* The socket that is used is open
LEMMA UsedLink ==
    ASSUME NEW d, DOMAIN d = Fields, d.fault = FALSE, NEW udp, udp = TRUE,
           NEW c, c = [d EXCEPT !.fault = @ \/ ~udp]
    PROVE  SameLink(c, d)
<1>1. (d.fault \/ ~udp) = FALSE
    OBVIOUS
<1>2. c = [d EXCEPT !.fault = FALSE]
    BY <1>1
<1> QED
    BY <1>2 DEF SameLink, Fields

\* The end of the connection, which no ping may be using
LEMMA DisconnectedLink ==
    ASSUME NEW d, Link(d), d.ipxnet # "ping"
    PROVE  Link(DisconnectFromServer(d))
<1>1. CASE State(d, TRUE, TRUE, 1, "")
    <2> DEFINE c == DelTickHandler(d)
               b == [c EXCEPT !.connected = FALSE, !.udp = FALSE]
    <2>1. DOMAIN c = Fields /\ c.ticks = 0 /\ c.ipxnet = "" /\ c.fault = FALSE
        BY <1>1, DelTickLink DEF Link, State
    <2>2. DisconnectFromServer(d) = b
        BY <1>1 DEF DisconnectFromServer, State
    <2> HIDE DEF c
    <2>3. State(b, FALSE, FALSE, 0, "") /\ DOMAIN b = Fields /\ b.fault = FALSE
        BY <2>1 DEF State, Fields
    <2> QED
        BY <2>2, <2>3 DEF Link
<1>2. CASE ~State(d, TRUE, TRUE, 1, "")
    BY <1>2 DEF DisconnectFromServer, Link, State
<1> QED
    BY <1>1, <1>2

\* IPXNET connects, gives up, disconnects and pings
LEMMA CommandsLink ==
    ASSUME Link(ipx),
           ConnectToServer \/ Connected \/ TimedOut \/ Disconnect \/ Ping \/ PingOver
    PROVE  Link(ipx')
<1>1. CASE ConnectToServer
    BY <1>1 DEF ConnectToServer, Link, State, Fields
<1>2. CASE Connected
    BY <1>2 DEF Connected, Link, State, Fields
<1>3. CASE TimedOut
    BY <1>3 DEF TimedOut, Link, State, Fields
<1>4. CASE Disconnect
    BY <1>4, DisconnectedLink DEF Disconnect
<1>5. CASE Ping
    <2> DEFINE c == DelTickHandler(ipx)
    <2>1. State(ipx, TRUE, TRUE, 1, "")
        BY <1>5 DEF Ping, Link, State
    <2>2. State(c, TRUE, TRUE, 0, "") /\ DOMAIN c = Fields /\ c.fault = FALSE
        BY <2>1, DelTickLink DEF Link, State
    <2>3. ipx' = [c EXCEPT !.ipxnet = "ping"]
        BY <1>5 DEF Ping
    <2> HIDE DEF c
    <2> QED
        BY <2>2, <2>3 DEF Link, State, Fields
<1>6. CASE PingOver
    <2> DEFINE c == [ipx EXCEPT !.ticks = @ + 1, !.ipxnet = ""]
    <2>1. State(ipx, TRUE, TRUE, 0, "ping")
        BY <1>6 DEF PingOver, Link, State
    <2>2. Link(c)
        BY <2>1 DEF Link, State, Fields
    <2>3. ipx' = [c EXCEPT !.fault = @ \/ ~ipx.udp]
        BY <1>6 DEF PingOver, Link, Fields
    <2>4. ipx.udp = TRUE
        BY <2>1 DEF State
    <2> HIDE DEF c
    <2> QED
        BY <2>2, <2>3, <2>4, UsedLink, SameIsLink DEF Link
<1> QED
    BY <1>1, <1>2, <1>3, <1>4, <1>5, <1>6

LEMMA SentLink ==
    ASSUME PingFails = FALSE, NEW d, Link(d), NEW socket, NEW c \in Sent(d, socket)
    PROVE  Link(c)
<1> DEFINE n == Len(d.list)
           back == ReceivePacket(d, socket)
<1>1. DOMAIN d = Fields
    BY DEF Link
<1>2. SameLink(NotifyESR(d, n), d)
    BY <1>1, NotifyLink
<1>3. SameLink(back, d) /\ DOMAIN back = Fields
    BY <1>1, ReceiveLink DEF SameLink
<1>4. SameLink(NotifyESR(back, Len(back.list)), d)
    BY <1>3, NotifyLink, SameIsTransitive
<1>5. CASE d.ipxnet # "ping" /\ c = DisconnectFromServer(NotifyESR(d, n))
    <2>1. Link(NotifyESR(d, n)) /\ NotifyESR(d, n).ipxnet # "ping"
        BY <1>2, <1>5, SameIsLink DEF SameLink
    <2> QED
        BY <1>5, <2>1, DisconnectedLink
<1> HIDE DEF back
<1>6. \/ c = NotifyESR(d, n) \/ c = NotifyESR(back, Len(back.list))
      \/ d.ipxnet # "ping" /\ c = DisconnectFromServer(NotifyESR(d, n))
    BY DEF Sent, back
<1> QED
    BY <1>2, <1>4, <1>5, <1>6, SameIsLink

LEMMA SubmitLink ==
    ASSUME PingFails = FALSE, Link(ipx), NEW e \in Ecbs, Submit(e)
    PROVE  Link(ipx')
<1>1. DOMAIN ipx = Fields
    BY DEF Link
<1>2. ASSUME ipx' = [ipx EXCEPT !.use[e] = "available"]
      PROVE  Link(ipx')
    <2>1. SameLink(ipx', ipx)
        BY <1>1, <1>2 DEF SameLink, State, Fields
    <2> QED
        BY <2>1, SameIsLink
<1>3. ASSUME NEW socket, Listen(e, socket)
      PROVE  Link(ipx')
    BY <1>1, <1>2, <1>3, SubmittedLink, SameIsLink DEF Listen
<1>4. ASSUME NEW socket, SendPacket(e, socket)
      PROVE  Link(ipx')
    <2>1. Link(Submitted(ipx, e, "available", socket))
        BY <1>1, SubmittedLink, SameIsLink
    <2> QED
        BY <1>2, <1>4, <2>1, SentLink DEF SendPacket
<1>5. ASSUME ScheduleEvent(e)
      PROVE  Link(ipx')
    <2>1. PICK socket \in TimerSockets :
              ipx' = [Submitted(ipx, e, "aesCount", socket) EXCEPT !.events[e] = @ + 1]
        BY <1>5 DEF ScheduleEvent
    <2> DEFINE d == Submitted(ipx, e, "aesCount", socket)
    <2>2. SameLink(d, ipx)
        BY <1>1, SubmittedLink
    <2> HIDE DEF d
    <2>3. SameLink([d EXCEPT !.events[e] = @ + 1], ipx)
        BY <1>1, <2>2 DEF SameLink, State, Fields
    <2> QED
        BY <2>1, <2>3, SameIsLink DEF d
<1> QED
    BY <1>3, <1>4, <1>5 DEF Submit

LEMMA CancelLink ==
    ASSUME Link(ipx), NEW e \in Ecbs, CancelOperation(e)
    PROVE  Link(ipx')
<1> DEFINE at == {i \in DOMAIN ipx.list : ipx.list[i].addr = e}
           b == Released(ipx, Min(at))
           c == Deleted(b, Min(at))
           d == [c EXCEPT !.events[e] = IF ipx.use[e] = "aesCount" THEN 0 ELSE @]
<1>1. DOMAIN ipx = Fields
    BY DEF Link
<1>2. SameLink(b, ipx) /\ DOMAIN b = Fields
    BY <1>1, ReleasedLink DEF SameLink
<1> HIDE DEF b
<1>3. SameLink(c, ipx) /\ DOMAIN c = Fields
    BY <1>2, DeletedLink, SameIsTransitive DEF SameLink
<1> HIDE DEF c
<1>4. SameLink(d, ipx)
    BY <1>3 DEF SameLink, State, Fields
<1>5. ipx' = d
    BY DEF CancelOperation, b, c
<1> QED
    BY <1>4, <1>5, SameIsLink

LEMMA AesLink ==
    ASSUME Link(ipx), NEW e \in Ecbs, AesEvent(e)
    PROVE  Link(ipx')
<1> DEFINE waiting == {i \in DOMAIN ipx.list :
                          ipx.list[i].use = "aesCount" /\ ipx.list[i].addr = e}
           n == Min(waiting)
           d == [ipx EXCEPT !.events[e] = @ - 1]
           r == Released(d, n)
<1>1. DOMAIN ipx = Fields
    BY DEF Link
<1>2. ipx' \in {d, NotifyESR(r, n)}
    BY DEF AesEvent
<1>3. SameLink(d, ipx) /\ DOMAIN d = Fields
    BY <1>1 DEF SameLink, State, Fields
<1> HIDE DEF d, n
<1>4. SameLink(r, ipx) /\ DOMAIN r = Fields
    BY <1>3, ReleasedLink, SameIsTransitive DEF SameLink
<1> HIDE DEF r
<1>5. SameLink(NotifyESR(r, n), ipx)
    BY <1>4, NotifyLink, SameIsTransitive
<1> QED
    BY <1>2, <1>3, <1>5, SameIsLink

\* A packet comes only while the socket is open
LEMMA ClientLoopLink ==
    ASSUME Link(ipx), ClientLoop
    PROVE  Link(ipx')
<1>1. PICK socket \in ipx.opened \cup Sockets :
          ipx' = [ReceivePacket(ipx, socket) EXCEPT !.fault = @ \/ ~ipx.udp]
    BY DEF ClientLoop
<1> DEFINE d == ReceivePacket(ipx, socket)
<1>2. Link(d) /\ ipx.udp = TRUE
    <2>1. SameLink(d, ipx)
        BY ReceiveLink DEF Link
    <2> QED
        <3>1. ipx.ticks # 0
            BY DEF ClientLoop
        <3>2. ipx.udp = TRUE
            BY <3>1 DEF Link, State
        <3> QED
            BY <2>1, <3>2, SameIsLink
<1> HIDE DEF d
<1>3. ipx' = [d EXCEPT !.fault = @ \/ ~ipx.udp]
    BY <1>1 DEF d
<1> QED
    BY <1>2, <1>3, UsedLink, SameIsLink DEF Link

\* Interrupt 11 and the service routines
LEMMA EsrLink ==
    ASSUME Link(ipx), ESRHandler \/ EsrReturns
    PROVE  Link(ipx')
<1> DEFINE b == [ipx EXCEPT !.irq = FALSE]
           c == [ipx EXCEPT !.esrs = Tail(@)]
<1>1. SameLink(b, ipx) /\ SameLink(c, ipx) /\ DOMAIN b = Fields /\ DOMAIN c = Fields
    BY DEF Link, SameLink, State, Fields
<1>2. ipx' \in {Served(b), Served(c)}
    BY DEF ESRHandler, EsrReturns
<1> HIDE DEF b, c
<1>3. SameLink(Served(b), ipx) /\ SameLink(Served(c), ipx)
    BY <1>1, ServedLink, SameIsTransitive
<1> QED
    BY <1>2, <1>3, SameIsLink

LEMMA StepLink ==
    ASSUME PingFails = FALSE, Link(ipx), [Next]_ipx
    PROVE  Link(ipx')
<1>1. CASE Guest
    <2>1. DOMAIN ipx = Fields
        BY DEF Link
    <2>2. ASSUME NEW s, ipx' = OpenSocket(ipx, s) \/ ipx' = CloseSocket(ipx, s)
          PROVE  Link(ipx')
        BY <2>1, <2>2, SocketsLink, SameIsLink
    <2> QED
        BY <1>1, <2>2, SubmitLink, CancelLink DEF Guest
<1>2. CASE Next /\ ~Guest
    BY <1>2, CommandsLink, ClientLoopLink, AesLink, EsrLink DEF Next
<1>3. CASE UNCHANGED ipx
    BY <1>3
<1> QED
    BY <1>1, <1>2, <1>3

\* For any programs, sockets and ECBs, as long as no send fails during a ping:
\* while there is a connection its socket is open and polled by one tick handler
\* or by a ping, and once it has ended, in whatever way, nothing uses the socket.
THEOREM ConnectionIsOwned ==
    ASSUME PingFails = FALSE
    PROVE  Spec => []ConnectionOK
<1>1. Link(ipx) /\ [Next]_ipx => Link(ipx)'
    BY StepLink
<1>2. Link(ipx) => ConnectionOK
    BY DEF Link, State, ConnectionOK
<1> QED
    BY <1>1, <1>2, InitLink, PTL DEF Spec

---------------------------------------------------------------------------
(* The event control blocks: what the list, the list of ESRs, the in-use   *)
(* flags and the timer events say of each other                            *)

Uses == {"available", "listening", "aesCount"}
Entries == [addr : Ecbs, use : Uses, socket : Nat, data : Nat]

\* The places of esrs whose data has still to be written: running is 1 while the
\* service routine of the first runs, and 0 otherwise
Late(esrs, running) == {i \in DOMAIN esrs : esrs[i].data # NoData /\ i > running}

\* ECB e is in the list, and its flag is not "available"; it is at one of the places
InAt(list, places, e) == \E i \in places : list[i].addr = e /\ list[i].use # "available"
In(list, e) == InAt(list, DOMAIN list, e)

\* An ECB is listed as what its flag says, and once; one that is sent has no flag.
Listed(list, use) ==
    /\ list \in Seq(Entries) /\ use \in [Ecbs -> Uses]
    /\ \A i \in DOMAIN list : list[i].data = NoData
    /\ \A i \in DOMAIN list : list[i].use # "available" => use[list[i].addr] = list[i].use
    /\ \A i, j \in DOMAIN list :
           list[i].use # "available" /\ list[j].use # "available" /\ list[i].addr = list[j].addr
               => i = j
    /\ \A i \in DOMAIN list : list[i].use = "aesCount" => list[i].socket \in TimerSockets

\* Data waits for ECBs that listen and are in no list any more, once for each.
Writing(list, esrs, running, use) ==
    /\ esrs \in Seq(Entries) /\ running \in 0 .. 1 /\ running <= Len(esrs)
    /\ \A i \in Late(esrs, running) : use[esrs[i].addr] = "listening" /\ ~In(list, esrs[i].addr)
    /\ \A i, j \in Late(esrs, running) : esrs[i].addr = esrs[j].addr => i = j

\* No ECB is lost.
Covered(list, esrs, running, use) ==
    /\ \A e \in Ecbs : use[e] = "listening" =>
           In(list, e) \/ \E i \in Late(esrs, running) : esrs[i].addr = e
    /\ \A e \in Ecbs : use[e] = "aesCount" => In(list, e)

Timed(use, events) ==
    /\ events \in [Ecbs -> {0, 1}]
    /\ \A e \in Ecbs : events[e] = 1 <=> use[e] = "aesCount"

Accounted(list, esrs, running, use, events) ==
    /\ Listed(list, use) /\ Writing(list, esrs, running, use)
    /\ Covered(list, esrs, running, use) /\ Timed(use, events)

LEMMA EntryFields ==
    ASSUME NEW s \in Seq(Entries)
    PROVE  \A i \in DOMAIN s :
               /\ s[i] \in Entries /\ s[i].addr \in Ecbs /\ s[i].use \in Uses
               /\ s[i].socket \in Nat /\ s[i].data \in Nat
<1>1. \A i \in DOMAIN s : s[i] \in Entries
    OBVIOUS
<1> QED
    BY <1>1 DEF Entries

LEMMA LateFields ==
    ASSUME NEW s, NEW q, NEW b, NEW u, Writing(s, q, b, u)
    PROVE  \A j \in Late(q, b) :
               /\ j \in DOMAIN q /\ q[j].addr \in Ecbs
               /\ u[q[j].addr] = "listening" /\ ~In(s, q[j].addr)
<1>1. \A j \in DOMAIN q : q[j].addr \in Ecbs
    <2>1. q \in Seq(Entries)
        BY DEF Writing
    <2> QED
        BY <2>1, EntryFields
<1>2. \A j \in Late(q, b) : j \in DOMAIN q
    BY DEF Late
<1> QED
    BY <1>1, <1>2 DEF Writing

\* t has the entries of s at the places kept, in some order
Keeps(t, s, kept) ==
    /\ t \in Seq(Entries)
    /\ \E place \in [DOMAIN t -> kept] :
           /\ \A n \in DOMAIN t : t[n] = s[place[n]]
           /\ \A m, n \in DOMAIN t : place[m] = place[n] => m = n
           /\ \A k \in kept : \E n \in DOMAIN t : place[n] = k

LEMMA RemovedKeeps ==
    ASSUME NEW s \in Seq(Entries), NEW r \in Seq(Entries), Len(r) = Len(s),
           NEW i \in DOMAIN s, \A j \in DOMAIN s \ {i} : r[j] = s[j]
    PROVE  Keeps(RemoveAt(r, i), s, DOMAIN s \ {i})
<1> DEFINE t == RemoveAt(r, i)
           place == [n \in 1 .. Len(s) - 1 |-> IF n < i THEN n ELSE n + 1]
<1>1. DOMAIN s = 1 .. Len(s) /\ Len(s) \in Nat /\ i \in 1 .. Len(s) /\ i \in 1 .. Len(r)
    OBVIOUS
<1>2. /\ t \in Seq(Entries) /\ Len(t) = Len(s) - 1
      /\ \A n \in 1 .. Len(s) - 1 : t[n] = IF n < i THEN r[n] ELSE r[n + 1]
    BY <1>1, Removed
<1> HIDE DEF t
<1>3. DOMAIN t = 1 .. Len(s) - 1
    BY <1>1, <1>2
<1>4. \A n \in DOMAIN t : place[n] \in DOMAIN s \ {i} /\ t[n] = s[place[n]]
    BY <1>1, <1>2, <1>3
<1>5. \A m, n \in DOMAIN t : place[m] = place[n] => m = n
    BY <1>1, <1>3
<1>6. \A k \in DOMAIN s \ {i} : \E n \in DOMAIN t : place[n] = k
    <2> SUFFICES ASSUME NEW k \in DOMAIN s \ {i}
                 PROVE  \E n \in DOMAIN t : place[n] = k
        OBVIOUS
    <2>1. CASE k < i
        <3>1. k \in DOMAIN t /\ place[k] = k
            BY <1>1, <1>3, <2>1
        <3> QED
            BY <3>1
    <2>2. CASE ~(k < i)
        <3>1. k - 1 \in DOMAIN t /\ place[k - 1] = k
            BY <1>1, <1>3, <2>2
        <3> QED
            BY <3>1
    <2> QED
        BY <2>1, <2>2
<1>7. place \in [DOMAIN t -> DOMAIN s \ {i}]
    BY <1>3, <1>4
<1> HIDE DEF place
<1> QED
    BY <1>2, <1>4, <1>5, <1>6, <1>7 DEF Keeps, t

LEMMA SelectedKeeps ==
    ASSUME NEW s \in Seq(Entries), NEW kept \in SUBSET DOMAIN s
    PROVE  Keeps(Selection(s, kept), s, kept)
<1> DEFINE t == Selection(s, kept)
<1>0. kept \in SUBSET (1 .. Len(s))
    OBVIOUS
<1>1. t \in Seq(Entries)
    BY <1>0, SelectionInOrder
<1>2. PICK place : Landed(place, t, s, kept)
    BY <1>0, SelectionInOrder
<1> HIDE DEF t
<1>d. DOMAIN t = 1 .. Len(t) /\ Len(t) \in Nat
    BY <1>1
<1>3. /\ place \in [DOMAIN t -> kept]
      /\ \A n \in DOMAIN t : t[n] = s[place[n]]
      /\ \A m, n \in DOMAIN t : m < n => place[m] < place[n]
      /\ \A i \in kept : \E n \in DOMAIN t : place[n] = i
    BY <1>2, <1>d DEF Landed
<1>4. \A m, n \in DOMAIN t : place[m] = place[n] => m = n
    <2> SUFFICES ASSUME NEW m \in DOMAIN t, NEW n \in DOMAIN t, m # n
                 PROVE  place[m] # place[n]
        OBVIOUS
    <2>1. m < n \/ n < m
        BY <1>d
    <2>2. place[m] \in Int /\ place[n] \in Int
        <3>1. place[m] \in kept /\ place[n] \in kept
            BY <1>3
        <3> QED
            BY <1>0, <3>1
    <2>3. place[m] < place[n] \/ place[n] < place[m]
        BY <1>3, <2>1
    <2> QED
        BY <2>2, <2>3
<1> QED
    BY <1>1, <1>3, <1>4 DEF Keeps, t

\* The flags of what is kept
SameFlags(s, kept, flag, use) ==
    \A k \in kept : s[k].use # "available" => flag[s[k].addr] = use[s[k].addr]

\* What is kept is in order, if the flags of what is kept are.
LEMMA KeptListed ==
    ASSUME NEW s, NEW use, Listed(s, use), NEW kept \in SUBSET DOMAIN s, NEW t, Keeps(t, s, kept),
           NEW flag \in [Ecbs -> Uses], SameFlags(s, kept, flag, use)
    PROVE  Listed(t, flag) /\ \A e : In(t, e) <=> InAt(s, kept, e)
<1>1. PICK place \in [DOMAIN t -> kept] :
           /\ \A n \in DOMAIN t : t[n] = s[place[n]]
           /\ \A m, n \in DOMAIN t : place[m] = place[n] => m = n
           /\ \A k \in kept : \E n \in DOMAIN t : place[n] = k
    BY DEF Keeps
<1>2. \A n \in DOMAIN t : place[n] \in kept /\ place[n] \in DOMAIN s
    BY <1>1
<1>3. /\ t \in Seq(Entries)
      /\ \A i \in DOMAIN t : t[i].data = NoData
      /\ \A i \in DOMAIN t : t[i].use # "available" => flag[t[i].addr] = t[i].use
      /\ \A i \in DOMAIN t : t[i].use = "aesCount" => t[i].socket \in TimerSockets
    <2>1. t \in Seq(Entries)
        BY DEF Keeps
    <2>2. ASSUME NEW i \in DOMAIN t
          PROVE  /\ t[i].data = NoData
                 /\ t[i].use # "available" => flag[t[i].addr] = t[i].use
                 /\ t[i].use = "aesCount" => t[i].socket \in TimerSockets
        <3>1. place[i] \in kept /\ place[i] \in DOMAIN s /\ t[i] = s[place[i]]
            BY <1>1, <1>2
        <3> QED
            BY <3>1 DEF Listed, SameFlags
    <2> QED
        BY <2>1, <2>2
<1>4. ASSUME NEW i \in DOMAIN t, NEW j \in DOMAIN t,
             t[i].use # "available", t[j].use # "available", t[i].addr = t[j].addr
      PROVE  i = j
    <2>1. place[i] = place[j]
        BY <1>1, <1>2, <1>4 DEF Listed
    <2> QED
        BY <1>1, <2>1
<1>5. \A e : In(t, e) <=> InAt(s, kept, e)
    BY <1>1, <1>2 DEF In, InAt
<1> QED
    BY <1>3, <1>4, <1>5 DEF Listed

\* All but one are kept.
LEMMA RestListed ==
    ASSUME NEW s, NEW u, Listed(s, u), NEW i \in DOMAIN s, NEW t, Keeps(t, s, DOMAIN s \ {i})
    PROVE  /\ Listed(t, u)
           /\ \A e : In(t, e) <=> InAt(s, DOMAIN s \ {i}, e)
<1> DEFINE kept == DOMAIN s \ {i}
<1>1. u \in [Ecbs -> Uses]
    BY DEF Listed
<1>2. kept \in SUBSET DOMAIN s
    OBVIOUS
<1> HIDE DEF kept
<1>3. Keeps(t, s, kept)
    BY DEF kept
<1>4. SameFlags(s, kept, u, u)
    BY DEF SameFlags
<1>5. Listed(t, u) /\ \A e : In(t, e) <=> InAt(s, kept, e)
    BY <1>1, <1>2, <1>3, <1>4, KeptListed
<1> QED
    BY <1>5 DEF kept

---------------------------------------------------------------------------
(* What is done to the lists *)

\* One that was sent, or whose wait is over, leaves the list.
LEMMA DeletedWell ==
    ASSUME NEW s, NEW q, NEW b, NEW u, NEW v, Accounted(s, q, b, u, v),
           NEW i \in DOMAIN s, s[i].use = "available", NEW t, Keeps(t, s, DOMAIN s \ {i})
    PROVE  Accounted(t, q, b, u, v)
<1>2. /\ Listed(t, u)
      /\ \A e : In(t, e) <=> InAt(s, DOMAIN s \ {i}, e)
    BY RestListed DEF Accounted
<1>3. \A e : In(t, e) <=> In(s, e)
    BY <1>2 DEF In, InAt
<1>4. Writing(t, q, b, u) /\ Covered(t, q, b, u)
    BY <1>3 DEF Accounted, Writing, Covered
<1> QED
    BY <1>2, <1>4 DEF Accounted

\* The data is remembered with the ECB that listened for it.
LEMMA ReceivedWell ==
    ASSUME NEW s, NEW q, NEW b, NEW u, NEW v, Accounted(s, q, b, u, v),
           NEW i \in DOMAIN s, s[i].use = "listening", NEW t, Keeps(t, s, DOMAIN s \ {i}),
           NEW x \in Entries, x.data # NoData, x.addr = s[i].addr
    PROVE  Accounted(t, Append(q, x), b, u, v)
<1> DEFINE r == Append(q, x)
<1>2. /\ Listed(t, u)
      /\ \A e : In(t, e) <=> InAt(s, DOMAIN s \ {i}, e)
    BY RestListed DEF Accounted
<1>3. \A e : In(t, e) <=> In(s, e) /\ e # x.addr
    <2>1. \A k \in DOMAIN s :
              s[k].use # "available" => (k = i <=> s[k].addr = x.addr)
        BY DEF Accounted, Listed
    <2> QED
        BY <1>2, <2>1 DEF In, InAt
<1>4. In(s, x.addr) /\ u[x.addr] = "listening"
    BY DEF In, InAt, Accounted, Listed
<1>5. q \in Seq(Entries) /\ b \in 0 .. 1 /\ b <= Len(q)
    BY DEF Accounted, Writing
<1>6. /\ r \in Seq(Entries) /\ Len(r) = Len(q) + 1 /\ Len(r) > 0
      /\ \A j \in DOMAIN q : r[j] = q[j]
      /\ r[Len(q) + 1] = x
      /\ DOMAIN q = 1 .. Len(q) /\ DOMAIN r = 1 .. Len(q) + 1 /\ Len(q) \in Nat
    BY <1>5
<1> HIDE DEF r
<1>7. Late(r, b) = Late(q, b) \cup {Len(q) + 1}
    <2>1. Len(q) + 1 \in Late(r, b)
        BY <1>5, <1>6 DEF Late
    <2>2. ASSUME NEW j \in DOMAIN q
          PROVE  j \in Late(r, b) <=> j \in Late(q, b)
        BY <1>6 DEF Late
    <2>3. DOMAIN r = DOMAIN q \cup {Len(q) + 1}
        BY <1>6
    <2> QED
        BY <2>1, <2>2, <2>3 DEF Late
<1>8. \A j \in Late(q, b) : j \in DOMAIN q /\ q[j].addr # x.addr /\ r[j] = q[j]
    BY <1>4, <1>6 DEF Late, Accounted, Writing
<1>9. Writing(t, r, b, u)
    <2>1. \A j \in Late(r, b) : u[r[j].addr] = "listening" /\ ~In(t, r[j].addr)
        BY <1>3, <1>4, <1>6, <1>7, <1>8 DEF Accounted, Writing
    <2>2. \A j, k \in Late(r, b) : r[j].addr = r[k].addr => j = k
        BY <1>6, <1>7, <1>8 DEF Accounted, Writing
    <2> QED
        BY <1>5, <1>6, <2>1, <2>2 DEF Writing
<1>10. Covered(t, r, b, u)
    <2>1. ASSUME NEW e \in Ecbs, u[e] = "listening"
          PROVE  In(t, e) \/ \E j \in Late(r, b) : r[j].addr = e
        <3>1. CASE e = x.addr
            BY <1>6, <1>7, <3>1
        <3>2. CASE e # x.addr
            <4>1. In(s, e) \/ \E j \in Late(q, b) : q[j].addr = e
                BY <2>1 DEF Accounted, Covered
            <4> QED
                BY <1>3, <1>7, <1>8, <3>2, <4>1
        <3> QED
            BY <3>1, <3>2
    <2>2. \A e \in Ecbs : u[e] = "aesCount" => In(t, e)
        BY <1>3, <1>4 DEF Accounted, Covered
    <2> QED
        BY <2>1, <2>2 DEF Covered
<1> QED
    BY <1>2, <1>9, <1>10 DEF Accounted, r

\* An ECB without data waits for its service routine.
LEMMA NotedWell ==
    ASSUME NEW s, NEW q, NEW b, NEW u, NEW v, Accounted(s, q, b, u, v),
           NEW x \in Entries, x.data = NoData
    PROVE  Accounted(s, Append(q, x), b, u, v)
<1> DEFINE r == Append(q, x)
<1>1. q \in Seq(Entries) /\ b \in 0 .. 1 /\ b <= Len(q)
    BY DEF Accounted, Writing
<1>2. /\ r \in Seq(Entries) /\ Len(r) = Len(q) + 1 /\ Len(r) > 0
      /\ \A j \in DOMAIN q : r[j] = q[j]
      /\ r[Len(q) + 1] = x
      /\ DOMAIN q = 1 .. Len(q) /\ DOMAIN r = 1 .. Len(q) + 1 /\ Len(q) \in Nat
    BY <1>1
<1> HIDE DEF r
<1>3. Late(r, b) = Late(q, b)
    <2>1. ASSUME NEW j \in DOMAIN q
          PROVE  j \in Late(r, b) <=> j \in Late(q, b)
        BY <1>2 DEF Late
    <2>2. DOMAIN r = DOMAIN q \cup {Len(q) + 1} /\ Len(q) + 1 \notin Late(r, b)
        BY <1>2 DEF Late
    <2> QED
        BY <2>1, <2>2 DEF Late
<1>4. \A j \in Late(q, b) : r[j] = q[j]
    BY <1>2 DEF Late
<1>5. Writing(s, r, b, u) /\ Covered(s, r, b, u)
    BY <1>1, <1>2, <1>3, <1>4 DEF Accounted, Writing, Covered
<1> QED
    BY <1>5 DEF Accounted, r

\* The wait of an ECB is over, or it does not listen any more.
GoesBack(s, i, u, v, t, w, z) ==
    /\ t = [s EXCEPT ![i].use = "available"]
    /\ w = [u EXCEPT ![s[i].addr] = "available"]
    /\ z = [v EXCEPT ![s[i].addr] = 0]

LEMMA ReleasedWell ==
    ASSUME NEW s, NEW q, NEW b, NEW u, NEW v, Accounted(s, q, b, u, v),
           NEW i \in DOMAIN s, s[i].use # "available",
           NEW t, NEW w, NEW z, GoesBack(s, i, u, v, t, w, z)
    PROVE  Accounted(t, q, b, w, z)
<1> DEFINE a == s[i].addr
<1>1. /\ s \in Seq(Entries) /\ u \in [Ecbs -> Uses] /\ v \in [Ecbs -> {0, 1}]
      /\ a \in Ecbs /\ In(s, a)
    <2>1. s \in Seq(Entries) /\ u \in [Ecbs -> Uses] /\ v \in [Ecbs -> {0, 1}]
        BY DEF Accounted, Listed, Timed
    <2> QED
        BY <2>1, EntryFields DEF In, InAt
<1>2. /\ w \in [Ecbs -> Uses] /\ z \in [Ecbs -> {0, 1}]
      /\ w[a] = "available" /\ z[a] = 0
      /\ \A e \in Ecbs \ {a} : w[e] = u[e] /\ z[e] = v[e]
    BY <1>1 DEF Uses, GoesBack
<1>3. /\ t \in Seq(Entries) /\ DOMAIN t = DOMAIN s
      /\ \A j \in DOMAIN s \ {i} : t[j] = s[j]
      /\ t[i].use = "available" /\ t[i].data = s[i].data
    <2> DEFINE x == [s[i] EXCEPT !.use = "available"]
    <2>1. s[i] \in Entries
        BY <1>1, EntryFields
    <2>2. x \in Entries /\ x.use = "available" /\ x.data = s[i].data
        BY <2>1 DEF Entries, Uses
    <2>3. t = [s EXCEPT ![i] = x]
        BY DEF GoesBack
    <2> HIDE DEF x
    <2> QED
        BY <1>1, <2>2, <2>3
<1>4. \A j \in DOMAIN s \ {i} : s[j].use # "available" => s[j].addr # a /\ s[j].addr \in Ecbs
    <2>1. \A j \in DOMAIN s : s[j].addr \in Ecbs
        BY <1>1, EntryFields
    <2> QED
        BY <2>1 DEF Accounted, Listed
<1>5. Listed(t, w)
    <2>1. \A j \in DOMAIN t : t[j].data = NoData
        BY <1>3 DEF Accounted, Listed
    <2>2. \A j \in DOMAIN t : t[j].use # "available" =>
              j \in DOMAIN s \ {i} /\ t[j] = s[j] /\ s[j].addr \in Ecbs \ {a}
        BY <1>3, <1>4
    <2>3. \A j \in DOMAIN t : t[j].use # "available" => w[t[j].addr] = t[j].use
        BY <1>2, <2>2 DEF Accounted, Listed
    <2>4. \A j, k \in DOMAIN t :
              t[j].use # "available" /\ t[k].use # "available" /\ t[j].addr = t[k].addr => j = k
        BY <2>2 DEF Accounted, Listed
    <2>5. \A j \in DOMAIN t : t[j].use = "aesCount" => t[j].socket \in TimerSockets
        BY <2>2 DEF Accounted, Listed
    <2> QED
        BY <1>2, <1>3, <2>1, <2>3, <2>4, <2>5 DEF Listed
<1>6. \A e : In(t, e) <=> In(s, e) /\ e # a
    BY <1>3, <1>4 DEF In, InAt
<1>7. \A j \in Late(q, b) : q[j].addr \in Ecbs \ {a}
    BY <1>1, LateFields DEF Accounted
<1>8. Writing(t, q, b, w)
    BY <1>2, <1>6, <1>7 DEF Accounted, Writing
<1>9. Covered(t, q, b, w)
    BY <1>2, <1>6 DEF Accounted, Covered
<1>10. Timed(w, z)
    BY <1>2 DEF Accounted, Timed
<1> QED
    BY <1>5, <1>8, <1>9, <1>10 DEF Accounted

\* An ECB of the program is submitted.
LEMMA SubmittedWell ==
    ASSUME NEW s, NEW q, NEW b, NEW u, NEW v, Accounted(s, q, b, u, v),
           NEW e \in Ecbs, u[e] = "available", NEW x \in Entries, x.addr = e, x.data = NoData,
           x.use = "aesCount" => x.socket \in TimerSockets,
           NEW w, w = [u EXCEPT ![e] = x.use],
           NEW z, z = [v EXCEPT ![e] = IF x.use = "aesCount" THEN 1 ELSE 0]
    PROVE  Accounted(Append(s, x), q, b, w, z)
<1> DEFINE t == Append(s, x)
<1>1. /\ s \in Seq(Entries) /\ u \in [Ecbs -> Uses] /\ v \in [Ecbs -> {0, 1}] /\ x.use \in Uses
    BY DEF Accounted, Listed, Timed, Entries
<1>2. ~In(s, e) /\ \A j \in Late(q, b) : q[j].addr # e /\ q[j].addr \in Ecbs
    <2>1. ~In(s, e)
        BY DEF Accounted, Listed, In, InAt
    <2> QED
        BY <2>1, LateFields DEF Accounted
<1>3. /\ w \in [Ecbs -> Uses] /\ w[e] = x.use
      /\ \A d \in Ecbs \ {e} : w[d] = u[d] /\ z[d] = v[d]
      /\ z \in [Ecbs -> {0, 1}] /\ (z[e] = 1 <=> x.use = "aesCount")
    BY <1>1
<1>4. /\ t \in Seq(Entries) /\ DOMAIN t = DOMAIN s \cup {Len(s) + 1}
      /\ Len(s) + 1 \notin DOMAIN s
      /\ \A j \in DOMAIN s : t[j] = s[j]
      /\ t[Len(s) + 1] = x
    BY <1>1
<1> HIDE DEF t
<1>5. \A j \in DOMAIN s : s[j].use # "available" => s[j].addr \in Ecbs \ {e}
    BY <1>1, <1>2, EntryFields DEF In, InAt
<1>6. Listed(t, w)
    <2>1. \A j \in DOMAIN t : t[j].data = NoData
        BY <1>4 DEF Accounted, Listed
    <2>2. \A j \in DOMAIN t : t[j].use # "available" => w[t[j].addr] = t[j].use
        BY <1>3, <1>4, <1>5 DEF Accounted, Listed
    <2>3. \A j, k \in DOMAIN t :
              t[j].use # "available" /\ t[k].use # "available" /\ t[j].addr = t[k].addr => j = k
        BY <1>4, <1>5 DEF Accounted, Listed
    <2>4. \A j \in DOMAIN t : t[j].use = "aesCount" => t[j].socket \in TimerSockets
        BY <1>4 DEF Accounted, Listed
    <2> QED
        BY <1>3, <1>4, <2>1, <2>2, <2>3, <2>4 DEF Listed
<1>7. \A d : In(t, d) <=> In(s, d) \/ (d = e /\ x.use # "available")
    BY <1>4 DEF In, InAt
<1>8. Writing(t, q, b, w)
    BY <1>2, <1>3, <1>7 DEF Accounted, Writing
<1>9. Covered(t, q, b, w)
    BY <1>3, <1>7 DEF Accounted, Covered
<1>10. Timed(w, z)
    BY <1>3 DEF Accounted, Timed
<1> QED
    BY <1>6, <1>8, <1>9, <1>10 DEF Accounted, t

\* The memory of some ECBs is the program's again.
GivenBack(w, u, some) == w = [e \in Ecbs |-> IF e \in some THEN "available" ELSE u[e]]

\* The places of a list whose ECBs name another socket, and the ECBs of the others
Others(s, p) == {i \in DOMAIN s : s[i].socket # p}
Closing(s, p) == {s[i].addr : i \in {j \in DOMAIN s : s[j].socket = p}}

\* A socket is closed: the ECBs that listen on it go back to the program.
LEMMA ClosedWell ==
    ASSUME NEW s, NEW q, NEW b, NEW u, NEW v, Accounted(s, q, b, u, v),
           \A i \in DOMAIN s : s[i].use # "available",
           NEW p, p \notin TimerSockets, NEW t, Keeps(t, s, Others(s, p)),
           NEW w, GivenBack(w, u, Closing(s, p))
    PROVE  Accounted(t, q, b, w, v)
<1> USE DEF Others, Closing
<1> DEFINE kept == Others(s, p)
           gone == Closing(s, p)
<1>1. s \in Seq(Entries) /\ u \in [Ecbs -> Uses] /\ w \in [Ecbs -> Uses]
    BY DEF Accounted, Listed, Uses, GivenBack
<1>2. ASSUME NEW i \in DOMAIN s, s[i].socket = p
      PROVE  s[i].addr \in Ecbs /\ u[s[i].addr] = "listening"
    <2>1. s[i].addr \in Ecbs /\ s[i].use \in Uses
        BY <1>1, EntryFields
    <2> QED
        BY <1>2, <2>1 DEF Accounted, Listed, Uses
<1>3. \A e \in gone : e \in Ecbs /\ u[e] = "listening" /\ w[e] = "available"
    BY <1>2 DEF GivenBack
<1>4. \A e \in Ecbs : e \notin gone => w[e] = u[e]
    BY DEF GivenBack
<1>5. ASSUME NEW k \in kept
      PROVE  s[k].addr \in Ecbs /\ s[k].addr \notin gone
    <2>1. \A j \in DOMAIN s : s[j].addr = s[k].addr => j = k
        BY DEF Accounted, Listed
    <2>2. s[k].addr \in Ecbs
        BY <1>1, EntryFields
    <2> QED
        BY <2>1, <2>2
<1>6. /\ Listed(t, w)
      /\ \A e : In(t, e) <=> InAt(s, kept, e)
    <2>1. kept \in SUBSET DOMAIN s /\ Keeps(t, s, kept) /\ Listed(s, u)
        BY DEF Accounted
    <2>2. SameFlags(s, kept, w, u)
        BY <1>4, <1>5 DEF SameFlags
    <2> HIDE DEF kept
    <2> QED
        BY <1>1, <2>1, <2>2, KeptListed
<1>7. \A e : In(t, e) <=> In(s, e) /\ e \notin gone
    <2>1. ASSUME NEW e, In(s, e), e \notin gone
          PROVE  In(t, e)
        BY <1>6, <2>1 DEF In, InAt
    <2>2. ASSUME NEW e, In(t, e)
          PROVE  In(s, e) /\ e \notin gone
        BY <1>5, <1>6, <2>2 DEF In, InAt
    <2> QED
        BY <2>1, <2>2
<1>8. \A e \in gone : In(s, e)
    BY DEF In, InAt
<1> HIDE DEF kept
<1>9. \A j \in Late(q, b) : q[j].addr \in Ecbs /\ q[j].addr \notin gone
    BY <1>8, LateFields DEF Accounted
<1>10. Writing(t, q, b, w)
    BY <1>4, <1>7, <1>9 DEF Accounted, Writing
<1>11. Covered(t, q, b, w)
    BY <1>3, <1>4, <1>7 DEF Accounted, Covered
<1>12. Timed(w, v)
    BY <1>3, <1>4 DEF Accounted, Timed
<1> QED
    BY <1>6, <1>10, <1>11, <1>12 DEF Accounted

\* A service routine has returned.
LEMMA TailWell ==
    ASSUME NEW s, NEW q, NEW u, NEW v, Accounted(s, q, 1, u, v)
    PROVE  Accounted(s, Tail(q), 0, u, v)
<1> DEFINE r == Tail(q)
<1>1. q \in Seq(Entries) /\ Len(q) > 0
    BY DEF Accounted, Writing
<1>2. /\ r \in Seq(Entries) /\ Len(q) \in Nat
      /\ DOMAIN q = 1 .. Len(q) /\ DOMAIN r = 1 .. Len(q) - 1
      /\ \A j \in DOMAIN r : r[j] = q[j + 1]
    BY <1>1, HeadTailProperties
<1> HIDE DEF r
<1>3. \A j \in Late(r, 0) : j + 1 \in Late(q, 1) /\ r[j] = q[j + 1] /\ j \in Int
    BY <1>2 DEF Late
<1>4. \A k \in Late(q, 1) : k - 1 \in Late(r, 0) /\ r[k - 1] = q[k]
    BY <1>2 DEF Late
<1>5. Writing(s, r, 0, u)
    <2>1. \A j \in Late(r, 0) : u[r[j].addr] = "listening" /\ ~In(s, r[j].addr)
        BY <1>3 DEF Accounted, Writing
    <2>2. ASSUME NEW j \in Late(r, 0), NEW k \in Late(r, 0), r[j].addr = r[k].addr
          PROVE  j = k
        <3>1. j + 1 = k + 1
            BY <1>3, <2>2 DEF Accounted, Writing
        <3> QED
            BY <1>3, <3>1
    <2> QED
        BY <1>2, <2>1, <2>2 DEF Writing
<1>6. Covered(s, r, 0, u)
    BY <1>4 DEF Accounted, Covered
<1> QED
    BY <1>5, <1>6 DEF Accounted, r

\* What is left of ESRList from its entry next on, c being the flag: the data of
\* the entries after it still waits.
Follows(r, c, q, next) ==
    /\ r \in Seq(Entries) /\ c <= Len(r)
    /\ \A i \in Late(r, c) : \E j \in Late(q, 0) : j = next + i - 1 /\ j > next /\ r[i] = q[j]
    /\ \A j \in Late(q, 0) : j > next => \E i \in Late(r, c) : r[i] = q[j]

LEMMA RestFollows ==
    ASSUME NEW q \in Seq(Entries), NEW next \in 1 .. Len(q) + 1, NEW c \in {0, 1},
           c = 1 <=> next <= Len(q), NEW r, r = SubSeq(q, next, Len(q))
    PROVE  Follows(r, c, q, next)
<1>1. /\ Len(q) \in Nat /\ DOMAIN q = 1 .. Len(q) /\ next \in Int
      /\ \A i \in 1 .. Len(q) : q[i] \in Entries
    OBVIOUS
<1>2. \A i \in next .. Len(q) : q[i] \in Entries
    BY <1>1
<1>3. /\ r \in Seq(Entries)
      /\ Len(r) = IF next <= Len(q) THEN Len(q) - next + 1 ELSE 0
      /\ \A i \in 1 .. Len(q) - next + 1 : r[i] = q[next + i - 1]
    <2>1. r \in Seq(Entries)
        BY <1>1, <1>2, SubSeqProperties
    <2>2. Len(r) = IF next <= Len(q) THEN Len(q) - next + 1 ELSE 0
        BY <1>1
    <2>3. \A i \in 1 .. Len(q) - next + 1 : r[i] = q[next + i - 1]
        BY <1>1
    <2> QED
        BY <2>1, <2>2, <2>3
<1>4. Len(r) = Len(q) - next + 1 /\ Len(r) \in Nat /\ DOMAIN r = 1 .. Len(r)
    <2>1. Len(r) = Len(q) - next + 1
        BY <1>1, <1>3
    <2> QED
        BY <1>3, <2>1
<1>5. \A i \in Late(r, c) : \E j \in Late(q, 0) : j = next + i - 1 /\ j > next /\ r[i] = q[j]
    <2> SUFFICES ASSUME NEW i \in Late(r, c)
                 PROVE  /\ next + i - 1 \in Late(q, 0) /\ next + i - 1 > next
                        /\ r[i] = q[next + i - 1]
        OBVIOUS
    <2>1. i \in 1 .. Len(r) /\ r[i].data # NoData /\ i > c
        BY <1>4 DEF Late
    <2>2. i > 1 /\ next + i - 1 \in 1 .. Len(q) /\ r[i] = q[next + i - 1]
        BY <1>1, <1>3, <1>4, <2>1
    <2>3. next + i - 1 > 0 /\ next + i - 1 > next
        BY <1>1, <1>4, <2>1, <2>2
    <2> QED
        BY <1>1, <2>1, <2>2, <2>3 DEF Late
<1>6. \A j \in Late(q, 0) : j > next => \E i \in Late(r, c) : r[i] = q[j]
    <2> SUFFICES ASSUME NEW j \in Late(q, 0), j > next
                 PROVE  j - next + 1 \in Late(r, c) /\ r[j - next + 1] = q[j]
        OBVIOUS
    <2>1. j \in 1 .. Len(q) /\ q[j].data # NoData
        BY <1>1 DEF Late
    <2> DEFINE i == j - next + 1
    <2>2. i \in 1 .. Len(r) /\ i > c /\ next + i - 1 = j /\ i \in 1 .. Len(q) - next + 1
        BY <1>1, <1>4, <2>1
    <2> HIDE DEF i
    <2>3. r[i] = q[j]
        BY <1>3, <2>2
    <2>4. i \in Late(r, c)
        BY <1>4, <2>1, <2>2, <2>3 DEF Late
    <2> QED
        BY <2>3, <2>4 DEF i
<1>7. c <= Len(r)
    BY <1>1, <1>4
<1> QED
    BY <1>3, <1>5, <1>6, <1>7 DEF Follows

\* The loop of the handler writes the data of the ECBs up to the next one with
\* a service routine.
Written(q, next) == {q[i].addr : i \in {j \in Late(q, 0) : j <= next}}

LEMMA WrittenWell ==
    ASSUME NEW s, NEW q, NEW u, NEW v, Accounted(s, q, 0, u, v), NEW next \in Int,
           NEW c \in {0, 1}, NEW r, Follows(r, c, q, next),
           NEW w, GivenBack(w, u, Written(q, next))
    PROVE  Accounted(s, r, c, w, v)
<1> DEFINE late == Late(q, 0)
           written == Written(q, next)
<1>1. /\ Listed(s, u) /\ Writing(s, q, 0, u) /\ Covered(s, q, 0, u) /\ Timed(u, v)
      /\ u \in [Ecbs -> Uses]
    BY DEF Accounted, Listed
<1>2. /\ \A j \in late : q[j].addr \in Ecbs /\ u[q[j].addr] = "listening" /\ ~In(s, q[j].addr)
      /\ \A j, k \in late : q[j].addr = q[k].addr => j = k
      /\ \A j \in late : j \in Int
    <2>1. q \in Seq(Entries)
        BY <1>1 DEF Writing
    <2>2. DOMAIN q \subseteq Int /\ late \subseteq DOMAIN q
        BY <2>1 DEF Late
    <2>3. \A j \in late : q[j].addr \in Ecbs /\ u[q[j].addr] = "listening" /\ ~In(s, q[j].addr)
        BY <1>1, LateFields
    <2>4. \A j, k \in late : q[j].addr = q[k].addr => j = k
        BY <1>1 DEF Writing
    <2> QED
        BY <2>2, <2>3, <2>4
<1>3. \A e : e \in written <=> \E j \in late : j <= next /\ q[j].addr = e
    BY DEF Written
<1> HIDE DEF written
<1>4. \A e \in written : e \in Ecbs /\ u[e] = "listening" /\ ~In(s, e)
    BY <1>2, <1>3
<1>5. /\ \A e \in written : w[e] = "available"
      /\ \A e \in Ecbs : e \notin written => w[e] = u[e]
      /\ w \in [Ecbs -> Uses]
    BY <1>1, <1>4 DEF Uses, written, GivenBack
<1>6. \A i \in Late(r, c) :
          \E j \in late : j = next + i - 1 /\ j > next /\ r[i] = q[j]
    BY DEF Follows
<1>7. \A j \in late : j > next => \E i \in Late(r, c) : r[i] = q[j]
    BY DEF Follows
<1>8. r \in Seq(Entries) /\ c <= Len(r) /\ Late(r, c) \subseteq Int
    BY DEF Follows, Late
<1> HIDE DEF late
<1>9. \A j \in late : j > next => q[j].addr \notin written
    <2> SUFFICES ASSUME NEW j \in late, NEW k \in late, j > next, k <= next, q[j].addr = q[k].addr
                 PROVE  FALSE
        BY <1>3
    <2> QED
        BY <1>2
<1>10. Listed(s, w)
    <2>1. s \in Seq(Entries)
        BY <1>1 DEF Listed
    <2>2. \A i \in DOMAIN s :
              s[i].use # "available" => s[i].addr \in Ecbs /\ s[i].addr \notin written
        BY <1>4, <2>1, EntryFields DEF In, InAt
    <2>3. \A i \in DOMAIN s : s[i].use # "available" => w[s[i].addr] = s[i].use
        BY <1>1, <1>5, <2>2 DEF Listed
    <2> QED
        BY <1>1, <1>5, <2>3 DEF Listed
<1>11. Writing(s, r, c, w)
    <2>1. ASSUME NEW i \in Late(r, c)
          PROVE  w[r[i].addr] = "listening" /\ ~In(s, r[i].addr)
        <3>1. PICK j \in late : j > next /\ r[i] = q[j]
            BY <1>6
        <3> QED
            BY <1>2, <1>5, <1>9, <3>1
    <2>2. ASSUME NEW i \in Late(r, c), NEW k \in Late(r, c), r[i].addr = r[k].addr
          PROVE  i = k
        <3>1. PICK j \in late : j = next + i - 1 /\ r[i] = q[j]
            BY <1>6
        <3>2. PICK l \in late : l = next + k - 1 /\ r[k] = q[l]
            BY <1>6
        <3>3. j = l
            BY <1>2, <2>2, <3>1, <3>2
        <3>4. i \in Int /\ k \in Int
            BY <1>8
        <3> QED
            BY <3>1, <3>2, <3>3, <3>4
    <2>3. c \in 0 .. 1
        OBVIOUS
    <2> QED
        BY <1>8, <2>1, <2>2, <2>3 DEF Writing
<1>12. Covered(s, r, c, w)
    <2>1. ASSUME NEW e \in Ecbs, w[e] = "listening", ~In(s, e)
          PROVE  \E i \in Late(r, c) : r[i].addr = e
        <3>1. e \notin written /\ u[e] = "listening"
            BY <1>5, <2>1
        <3>2. PICK j \in late : q[j].addr = e
            BY <1>1, <2>1, <3>1 DEF Covered, late
        <3>3. j > next
            BY <1>2, <1>3, <3>1, <3>2
        <3> QED
            BY <1>7, <3>2, <3>3
    <2>2. \A e \in Ecbs : w[e] = "aesCount" => u[e] = "aesCount"
        BY <1>5
    <2>3. \A e \in Ecbs : w[e] = "aesCount" => In(s, e)
        BY <1>1, <2>2 DEF Covered
    <2> QED
        BY <2>1, <2>3 DEF Covered
<1>13. Timed(w, v)
    <2>1. \A e \in Ecbs : w[e] = "aesCount" <=> u[e] = "aesCount"
        BY <1>4, <1>5
    <2> QED
        BY <1>1, <2>1 DEF Timed
<1> QED
    BY <1>10, <1>11, <1>12, <1>13 DEF Accounted

Called(q) == {i \in DOMAIN q : q[i].addr \in Notified}
Serving(q) == IF Called(q) = {} THEN 0 ELSE 1
NextCalled(q) == IF Called(q) = {} THEN Len(q) + 1 ELSE Min(Called(q))

LEMMA ServedWell ==
    ASSUME NEW s, NEW q, NEW u, NEW v, Accounted(s, q, 0, u, v), NEW next, next = NextCalled(q),
           NEW w,
           GivenBack(w, u, {q[i].addr : i \in {j \in DOMAIN q : j <= next /\ q[j].data # NoData}})
    PROVE  Accounted(s, SubSeq(q, next, Len(q)), Serving(q), w, v)
<1> DEFINE called == Called(q)
           c == Serving(q)
           written == {q[i].addr : i \in {j \in DOMAIN q : j <= next /\ q[j].data # NoData}}
<1>1. q \in Seq(Entries) /\ Len(q) \in Nat /\ DOMAIN q = 1 .. Len(q)
    <2>1. q \in Seq(Entries)
        BY DEF Accounted, Writing
    <2> QED
        BY <2>1
<1>2. next \in 1 .. Len(q) + 1 /\ c \in {0, 1} /\ (c = 1 <=> next <= Len(q))
    <2>1. CASE called = {}
        BY <1>1, <2>1 DEF NextCalled, Serving
    <2>2. CASE called # {}
        <3>1. called \in SUBSET Nat
            BY <1>1 DEF Called
        <3>2. next \in called
            BY <2>2, <3>1, SmallestIsMember DEF NextCalled
        <3>3. next \in 1 .. Len(q)
            BY <1>1, <3>2 DEF Called
        <3> QED
            BY <1>1, <2>2, <3>3 DEF Serving
    <2> QED
        BY <2>1, <2>2
<1>3. next \in Int
    BY <1>1, <1>2
<1>4. \A i : i \in DOMAIN q /\ q[i].data # NoData <=> i \in Late(q, 0)
    BY <1>1 DEF Late
<1>5. written = Written(q, next)
    BY <1>4 DEF Written
<1>6. PICK r : r = SubSeq(q, next, Len(q))
    OBVIOUS
<1>7. Follows(r, c, q, next)
    BY <1>1, <1>2, <1>6, RestFollows
<1>8. GivenBack(w, u, Written(q, next))
    BY <1>5
<1>9. Accounted(s, r, c, w, v)
    BY <1>2, <1>3, <1>7, <1>8, WrittenWell
<1> QED
    BY <1>6, <1>9

---------------------------------------------------------------------------
(* The operations on the driver's state                                    *)

Ports == Sockets \cup (Dynamic .. LastDynamic)

Settled(list) == \A i \in DOMAIN list : list[i].use # "available"

\* The ECB at the end of the list is being sent
Sending(list) ==
    /\ Len(list) \in DOMAIN list
    /\ \A i \in DOMAIN list : list[i].use = "available" <=> i = Len(list)

Running(d) == IF d.inEsr = TRUE THEN 1 ELSE 0

Flag(d) == d.inEsr \in BOOLEAN

LEMMA FlagKept ==
    ASSUME NEW c, NEW d, c.inEsr = d.inEsr
    PROVE  Running(c) = Running(d) /\ (Flag(d) => Flag(c))
    BY DEF Running, Flag

Accounts(d) ==
    /\ DOMAIN d = Fields /\ Flag(d)
    /\ Accounted(d.list, d.esrs, Running(d), d.use, d.events)
    /\ d.opened \in SUBSET Ports

EcbInv(d) == Accounts(d) /\ Settled(d.list)

SameTable(c, d) ==
    c.opened = d.opened /\ c.opensockets = d.opensockets /\ c.socketCount = d.socketCount

\* An ECB that listens did so before, or its socket is open.
Narrows(c, d) ==
    /\ SameTable(c, d)
    /\ \A i \in DOMAIN c.list : c.list[i].use = "listening" =>
           \/ c.list[i].socket \in InUse(d)
           \/ \E j \in DOMAIN d.list :
                  d.list[j].use = "listening" /\ d.list[j].socket = c.list[i].socket

LEMMA NarrowsBoth ==
    ASSUME NEW a, NEW b, NEW c, Narrows(a, b), Narrows(b, c)
    PROVE  Narrows(a, c)
    BY DEF Narrows, SameTable, InUse

SameEcbs(c, d) ==
    /\ DOMAIN c = Fields
    /\ c.list = d.list /\ c.esrs = d.esrs /\ c.inEsr = d.inEsr /\ c.use = d.use
    /\ c.events = d.events
    /\ SameTable(c, d)

LEMMA SameEcbsWell ==
    ASSUME NEW c, NEW d, SameEcbs(c, d)
    PROVE  /\ Accounts(d) => Accounts(c)
           /\ Settled(d.list) => Settled(c.list)
           /\ Narrows(c, d)
    BY FlagKept DEF SameEcbs, SameTable, Accounts, Narrows

LEMMA KeptSettled ==
    ASSUME NEW s, NEW t, NEW kept \in SUBSET DOMAIN s, Keeps(t, s, kept),
           \A i \in kept : s[i].use # "available"
    PROVE  Settled(t)
    BY DEF Keeps, Settled

LEMMA KeptNarrows ==
    ASSUME NEW c, NEW d, SameTable(c, d),
           NEW kept \in SUBSET DOMAIN d.list, Keeps(c.list, d.list, kept)
    PROVE  Narrows(c, d)
    BY DEF Keeps, Narrows

LEMMA NotifyFields ==
    ASSUME NEW d, DOMAIN d = Fields, NEW i, NEW c, c = NotifyESR(d, i)
    PROVE  /\ DOMAIN c = Fields /\ SameTable(c, d)
           /\ c.list = RemoveAt(d.list, i)
           /\ c.inEsr = d.inEsr /\ c.use = d.use /\ c.events = d.events
           /\ \/ c.esrs = Append(d.esrs, d.list[i])
              \/ c.esrs = d.esrs /\ d.list[i].data = NoData
<1> DEFINE b == Deleted(d, i)
           q == [b EXCEPT !.esrs = Append(@, d.list[i]), !.irq = TRUE]
<1>1. /\ DOMAIN b = Fields /\ SameTable(b, d)
      /\ b.list = RemoveAt(d.list, i) /\ b.esrs = d.esrs
      /\ b.inEsr = d.inEsr /\ b.use = d.use /\ b.events = d.events
    BY DEF Deleted, Fields, SameTable
<1>2. c = q \/ (c = b /\ d.list[i].data = NoData)
    BY DEF NotifyESR
<1> HIDE DEF b
<1>3. /\ DOMAIN q = Fields /\ SameTable(q, b)
      /\ q.list = b.list /\ q.esrs = Append(b.esrs, d.list[i])
      /\ q.inEsr = b.inEsr /\ q.use = b.use /\ q.events = b.events
    BY <1>1 DEF Fields, SameTable
<1> HIDE DEF q
<1> QED
    BY <1>1, <1>2, <1>3 DEF SameTable

\* An ECB whose memory is the program's again is notified.
LEMMA NotifyWell ==
    ASSUME NEW d, Accounts(d), NEW i \in DOMAIN d.list, d.list[i].use = "available",
           NEW c, c = NotifyESR(d, i)
    PROVE  /\ Accounts(c) /\ Narrows(c, d)
           /\ (\A j \in DOMAIN d.list \ {i} : d.list[j].use # "available") => Settled(c.list)
<1>1. /\ d.list \in Seq(Entries) /\ d.list[i] \in Entries /\ d.list[i].data = NoData
      /\ Accounted(d.list, d.esrs, Running(d), d.use, d.events)
    BY DEF Accounts, Accounted, Listed
<1>2. /\ DOMAIN c = Fields /\ SameTable(c, d)
      /\ c.list = RemoveAt(d.list, i)
      /\ c.inEsr = d.inEsr /\ c.use = d.use /\ c.events = d.events
      /\ \/ c.esrs = Append(d.esrs, d.list[i])
         \/ c.esrs = d.esrs
    BY NotifyFields DEF Accounts
<1>3. Keeps(c.list, d.list, DOMAIN d.list \ {i})
    BY <1>1, <1>2, RemovedKeeps
<1>4. Accounted(c.list, d.esrs, Running(d), d.use, d.events)
    BY <1>1, <1>3, DeletedWell
<1>5. Accounted(c.list, c.esrs, Running(c), c.use, c.events)
    <2>1. Accounted(c.list, Append(d.esrs, d.list[i]), Running(d), d.use, d.events)
        BY <1>1, <1>4, NotedWell
    <2>2. Running(c) = Running(d)
        BY <1>2, FlagKept
    <2> QED
        BY <1>2, <1>4, <2>1, <2>2
<1>6. Accounts(c)
    BY <1>2, <1>5, FlagKept DEF Accounts, SameTable
<1>7. DOMAIN d.list \ {i} \in SUBSET DOMAIN d.list
    OBVIOUS
<1> QED
    BY <1>2, <1>3, <1>6, <1>7, KeptNarrows, KeptSettled

\* The ECB that is being sent stays at the end when another one is removed.
LEMMA SendingKept ==
    ASSUME NEW s \in Seq(Entries), Sending(s), NEW r \in Seq(Entries), Len(r) = Len(s),
           NEW i \in DOMAIN s, s[i].use # "available", \A j \in DOMAIN s \ {i} : r[j] = s[j]
    PROVE  Sending(RemoveAt(r, i))
<1> DEFINE t == RemoveAt(r, i)
<1>1. Len(s) \in Nat /\ DOMAIN s = 1 .. Len(s) /\ i \in 1 .. Len(r)
    OBVIOUS
<1>2. i < Len(s)
    BY <1>1 DEF Sending
<1>3. /\ t \in Seq(Entries) /\ Len(t) = Len(s) - 1
      /\ \A j \in 1 .. Len(s) - 1 : t[j] = IF j < i THEN r[j] ELSE r[j + 1]
    BY <1>1, Removed
<1> HIDE DEF t
<1>4. DOMAIN t = 1 .. Len(s) - 1
    BY <1>1, <1>3
<1>5. \A j \in 1 .. Len(s) - 1 : t[j] = IF j < i THEN s[j] ELSE s[j + 1]
    BY <1>1, <1>3, SMTT(30)
<1>6. ASSUME NEW j \in 1 .. Len(s) - 1
      PROVE  t[j].use = "available" <=> j = Len(s) - 1
    <2>1. CASE j < i
        <3>1. t[j] = s[j] /\ j \in DOMAIN s /\ j # Len(s) /\ j # Len(s) - 1
            BY <1>1, <1>2, <1>5, <2>1
        <3> QED
            BY <3>1 DEF Sending
    <2>2. CASE ~(j < i)
        <3>1. t[j] = s[j + 1] /\ j + 1 \in DOMAIN s /\ (j + 1 = Len(s) <=> j = Len(s) - 1)
            BY <1>1, <1>5, <2>2
        <3> QED
            BY <3>1 DEF Sending
    <2> QED
        BY <2>1, <2>2
<1>7. \A j \in DOMAIN t : t[j].use = "available" <=> j = Len(t)
    BY <1>3, <1>4, <1>6
<1>8. Len(t) \in DOMAIN t
    BY <1>1, <1>2, <1>3, <1>4
<1> QED
    BY <1>7, <1>8 DEF Sending, t

LEMMA ReceiveWell ==
    ASSUME NEW d, Accounts(d), NEW p \in Nat \ {0}, NEW c, c = ReceivePacket(d, p)
    PROVE  /\ Accounts(c) /\ Narrows(c, d)
           /\ Settled(d.list) => Settled(c.list)
           /\ Sending(d.list) => Sending(c.list)
<1> DEFINE s == d.list
           listening == {i \in DOMAIN s : s[i].use = "listening" /\ s[i].socket = p}
           m == Min(listening)
           b == [d EXCEPT !.list[m].data = p]
<1>1. CASE listening = {}
    BY <1>1 DEF ReceivePacket, Narrows, SameTable
<1>2. CASE listening # {}
    <2>1. s \in Seq(Entries) /\ Len(s) \in Nat /\ DOMAIN s = 1 .. Len(s)
        BY DEF Accounts, Accounted, Listed
    <2>2. m \in DOMAIN s /\ s[m].use = "listening" /\ s[m] \in Entries
        <3>1. listening \in SUBSET Nat
            BY <2>1
        <3>2. m \in listening
            BY <1>2, <3>1, SmallestIsMember
        <3>3. m \in DOMAIN s /\ s[m].use = "listening"
            BY <3>2
        <3> QED
            BY <2>1, <3>3, EntryFields
    <2>3. c = NotifyESR(b, m)
        BY <1>2 DEF ReceivePacket
    <2> HIDE DEF m
    <2>4. /\ DOMAIN b = Fields /\ SameTable(b, d) /\ b.esrs = d.esrs
          /\ b.inEsr = d.inEsr /\ b.use = d.use /\ b.events = d.events
          /\ b.list = [s EXCEPT ![m].data = p]
        BY DEF Accounts, Fields, SameTable
    <2> HIDE DEF b
    <2>5. /\ b.list \in Seq(Entries) /\ Len(b.list) = Len(s)
          /\ \A j \in DOMAIN s \ {m} : b.list[j] = s[j]
          /\ b.list[m] \in Entries /\ b.list[m].data = p /\ b.list[m].addr = s[m].addr
        <3>1. [s[m] EXCEPT !.data = p] \in Entries
            BY <2>2 DEF Entries
        <3>2. b.list = [s EXCEPT ![m] = [s[m] EXCEPT !.data = p]]
            BY <2>4
        <3> QED
            BY <2>1, <2>2, <3>1, <3>2, SMTT(30) DEF Entries
    <2>6. /\ DOMAIN c = Fields /\ SameTable(c, b)
          /\ c.list = RemoveAt(b.list, m)
          /\ c.inEsr = b.inEsr /\ c.use = b.use /\ c.events = b.events
          /\ c.esrs = Append(b.esrs, b.list[m])
        <3>1. b.list[m].data # NoData
            BY <2>5 DEF NoData
        <3>2. PICK a : a = NotifyESR(b, m)
            OBVIOUS
        <3>3. /\ DOMAIN a = Fields /\ SameTable(a, b) /\ a.list = RemoveAt(b.list, m)
              /\ a.inEsr = b.inEsr /\ a.use = b.use /\ a.events = b.events
              /\ \/ a.esrs = Append(b.esrs, b.list[m])
                 \/ a.esrs = b.esrs /\ b.list[m].data = NoData
            <4>1. DOMAIN b = Fields
                BY <2>4
            <4> QED
                BY <3>2, <4>1, NotifyFields
        <3>4. c = a
            BY <2>3, <3>2
        <3> QED
            BY <3>1, <3>3, <3>4
    <2>7. Keeps(c.list, s, DOMAIN s \ {m})
        BY <2>1, <2>2, <2>5, <2>6, RemovedKeeps
    <2>8. Accounted(c.list, c.esrs, Running(c), c.use, c.events)
        <3>1. Accounted(s, d.esrs, Running(d), d.use, d.events)
            BY DEF Accounts
        <3>2. Accounted(c.list, Append(d.esrs, b.list[m]), Running(d), d.use, d.events)
            BY <2>2, <2>5, <2>7, <3>1, ReceivedWell DEF NoData
        <3> QED
            BY <2>4, <2>6, <3>2, FlagKept
    <2>9. Accounts(c) /\ SameTable(c, d)
        BY <2>4, <2>6, <2>8, FlagKept DEF Accounts, SameTable
    <2>10. Narrows(c, d)
        BY <2>7, <2>9, KeptNarrows
    <2>11. Settled(d.list) => Settled(c.list)
        BY <2>7, KeptSettled DEF Settled
    <2>12. ASSUME Sending(s)
           PROVE  Sending(c.list)
        BY <2>1, <2>2, <2>5, <2>6, <2>12, SendingKept
    <2> QED
        BY <2>9, <2>10, <2>11, <2>12
<1> QED
    BY <1>1, <1>2

LEMMA DisconnectSame ==
    ASSUME NEW d, DOMAIN d = Fields
    PROVE  SameEcbs(DisconnectFromServer(d), d)
<1> DEFINE c == DelTickHandler(d)
           b == [c EXCEPT !.connected = FALSE, !.udp = FALSE]
<1>1. SameEcbs(c, d)
    BY DEF DelTickHandler, SameEcbs, SameTable, Fields
<1>2. DisconnectFromServer(d) \in {d, b}
    BY DEF DisconnectFromServer
<1> HIDE DEF c
<1>3. SameEcbs(b, d)
    BY <1>1 DEF SameEcbs, SameTable, Fields
<1> QED
    BY <1>2, <1>3 DEF SameEcbs, SameTable

LEMMA SentWell ==
    ASSUME NEW d, Accounts(d), Sending(d.list), NEW p \in Nat \ {0}, NEW c \in Sent(d, p)
    PROVE  EcbInv(c) /\ Narrows(c, d)
<1> DEFINE back == ReceivePacket(d, p)
           there == NotifyESR(d, Len(d.list))
           here == NotifyESR(back, Len(back.list))
<1>1. ASSUME NEW b, Accounts(b), Sending(b.list), NEW a, a = NotifyESR(b, Len(b.list))
      PROVE  EcbInv(a) /\ Narrows(a, b)
    <2>1. /\ Len(b.list) \in DOMAIN b.list /\ b.list[Len(b.list)].use = "available"
          /\ \A j \in DOMAIN b.list \ {Len(b.list)} : b.list[j].use # "available"
        BY <1>1 DEF Sending
    <2> QED
        BY <1>1, <2>1, NotifyWell DEF EcbInv
<1>2. EcbInv(there) /\ Narrows(there, d)
    BY <1>1
<1>3. Accounts(back) /\ Narrows(back, d) /\ Sending(back.list)
    BY ReceiveWell
<1>4. c = there \/ c = here \/ c = DisconnectFromServer(there)
    BY DEF Sent
<1> HIDE DEF back
<1>5. EcbInv(here) /\ Narrows(here, d)
    BY <1>1, <1>3, NarrowsBoth
<1> HIDE DEF there, here
<1>6. CASE c = DisconnectFromServer(there)
    <2>1. SameEcbs(c, there)
        BY <1>2, <1>6, DisconnectSame DEF EcbInv, Accounts
    <2> QED
        BY <1>2, <2>1, SameEcbsWell, NarrowsBoth DEF EcbInv
<1> QED
    BY <1>2, <1>4, <1>5, <1>6

---------------------------------------------------------------------------
(* The actions                                                             *)

Apart == TimerSockets \cap Ports = {}

LEMMA PortsNumbered ==
    /\ Ports \subseteq Nat \ {0} /\ Sockets \subseteq Ports /\ TimerSockets \subseteq Nat
<1>1. Sockets \subseteq Nat \ {0} /\ TimerSockets \subseteq Nat
    BY SocketsAssumption
<1>2. Dynamic .. LastDynamic \subseteq Nat \ {0}
    BY SocketsAssumption
<1> QED
    BY <1>1, <1>2 DEF Ports

LEMMA InitEcbs == Init => EcbInv(ipx)
<1> SUFFICES ASSUME Init PROVE EcbInv(ipx)
    OBVIOUS
<1>1. /\ DOMAIN ipx = Fields
      /\ ipx.list = <<>> /\ ipx.esrs = <<>> /\ ipx.inEsr = FALSE /\ ipx.opened = {}
      /\ ipx.use = [e \in Ecbs |-> "available"] /\ ipx.events = [e \in Ecbs |-> 0]
    BY DEF Init, Fields
<1>2. Listed(<<>>, ipx.use)
    BY <1>1 DEF Listed, Uses
<1>3. Writing(<<>>, <<>>, 0, ipx.use) /\ Covered(<<>>, <<>>, 0, ipx.use)
    BY <1>1 DEF Writing, Covered, Late, In, InAt
<1>r. Running(ipx) = 0 /\ Flag(ipx)
    BY <1>1 DEF Running, Flag
<1>4. Timed(ipx.use, ipx.events)
    BY <1>1 DEF Timed
<1> QED
    BY <1>1, <1>2, <1>3, <1>r, <1>4 DEF EcbInv, Accounts, Accounted, Settled

\* An ECB of the program goes to the end of the list.
LEMMA SubmittedEcb ==
    ASSUME EcbInv(ipx), NEW e \in Ecbs, ipx.use[e] = "available", NEW use \in Uses,
           NEW p \in Nat, NEW c, c = Submitted(ipx, e, use, p)
    PROVE  /\ DOMAIN c = Fields /\ SameTable(c, ipx)
           /\ c.list = Append(ipx.list, Ecb(e, use, p))
           /\ c.esrs = ipx.esrs /\ c.inEsr = ipx.inEsr /\ c.events = ipx.events
           /\ c.use = [ipx.use EXCEPT ![e] = use]
           /\ c.list \in Seq(Entries) /\ Len(c.list) = Len(ipx.list) + 1
           /\ DOMAIN ipx.list = 1 .. Len(ipx.list) /\ Len(ipx.list) \in Nat
           /\ \A i \in DOMAIN ipx.list : c.list[i] = ipx.list[i]
           /\ c.list[Len(ipx.list) + 1] = Ecb(e, use, p)
           /\ Ecb(e, use, p) \in Entries
<1>1. Ecb(e, use, p) \in Entries /\ ipx.list \in Seq(Entries)
    BY DEF Ecb, Entries, NoData, EcbInv, Accounts, Accounted, Listed
<1>2. /\ DOMAIN c = Fields /\ SameTable(c, ipx)
      /\ c.list = Append(ipx.list, Ecb(e, use, p))
      /\ c.esrs = ipx.esrs /\ c.inEsr = ipx.inEsr /\ c.events = ipx.events
      /\ c.use = [ipx.use EXCEPT ![e] = use]
    BY DEF Submitted, Fields, SameTable, EcbInv, Accounts
<1> QED
    BY <1>1, <1>2, AppendProperties

LEMMA SubmittedEvents ==
    ASSUME NEW d, DOMAIN d = Fields, NEW e, NEW use, NEW p
    PROVE  LET c == Submitted(d, e, use, p) IN DOMAIN c = Fields /\ c.events = d.events
    BY DEF Submitted, Fields

\* It listens, waits or is sent, and the timer events are those that it needs.
LEMMA SubmittedAccounts ==
    ASSUME EcbInv(ipx), NEW e \in Ecbs, ipx.use[e] = "available", NEW use \in Uses,
           NEW p \in Nat, use = "aesCount" => p \in TimerSockets,
           NEW a, a = Submitted(ipx, e, use, p),
           NEW c, DOMAIN c = Fields, SameTable(c, a), c.list = a.list, c.esrs = a.esrs,
           c.inEsr = a.inEsr, c.use = a.use,
           c.events = [ipx.events EXCEPT ![e] = IF use = "aesCount" THEN 1 ELSE 0]
    PROVE  /\ Accounts(c)
           /\ use # "available" => Settled(c.list)
           /\ use = "available" => Sending(c.list)
           /\ use = "listening" /\ p \in InUse(ipx) => Narrows(c, ipx)
           /\ use # "listening" => Narrows(c, ipx)
<1> DEFINE x == Ecb(e, use, p)
<1>1. x \in Entries /\ x.addr = e /\ x.use = use /\ x.socket = p /\ x.data = NoData
    BY SubmittedEcb DEF Ecb
<1>2. /\ SameTable(c, ipx) /\ c.list = Append(ipx.list, x)
      /\ c.esrs = ipx.esrs /\ c.inEsr = ipx.inEsr
      /\ c.use = [ipx.use EXCEPT ![e] = use]
      /\ DOMAIN c.list = 1 .. Len(ipx.list) + 1 /\ Len(c.list) = Len(ipx.list) + 1
      /\ DOMAIN ipx.list = 1 .. Len(ipx.list) /\ Len(ipx.list) \in Nat
      /\ \A i \in DOMAIN ipx.list : c.list[i] = ipx.list[i]
      /\ c.list[Len(ipx.list) + 1] = x
    <2>1. /\ SameTable(a, ipx)
          /\ a.list = Append(ipx.list, Ecb(e, use, p))
          /\ a.esrs = ipx.esrs /\ a.inEsr = ipx.inEsr
          /\ a.use = [ipx.use EXCEPT ![e] = use]
          /\ a.list \in Seq(Entries) /\ Len(a.list) = Len(ipx.list) + 1
          /\ DOMAIN ipx.list = 1 .. Len(ipx.list) /\ Len(ipx.list) \in Nat
          /\ \A i \in DOMAIN ipx.list : a.list[i] = ipx.list[i]
          /\ a.list[Len(ipx.list) + 1] = Ecb(e, use, p)
        BY SubmittedEcb
    <2>2. DOMAIN a.list = 1 .. Len(a.list)
        BY <2>1
    <2> QED
        BY <2>1, <2>2 DEF SameTable
<1> HIDE DEF x
<1>3. Accounted(Append(ipx.list, x), ipx.esrs, Running(ipx), c.use, c.events)
    <2>1. Accounted(ipx.list, ipx.esrs, Running(ipx), ipx.use, ipx.events)
        BY DEF EcbInv, Accounts
    <2> QED
        BY <1>1, <1>2, <2>1, SubmittedWell
<1>4. Accounts(c)
    BY <1>2, <1>3, FlagKept DEF Accounts, EcbInv, SameTable
<1>5. use # "available" => Settled(c.list)
    BY <1>1, <1>2 DEF EcbInv, Settled
<1>6. use = "available" => Sending(c.list)
    BY <1>1, <1>2 DEF EcbInv, Settled, Sending
<1>7. use = "listening" /\ p \in InUse(ipx) => Narrows(c, ipx)
    BY <1>1, <1>2 DEF Narrows
<1>8. use # "listening" => Narrows(c, ipx)
    BY <1>1, <1>2 DEF Narrows
<1> QED
    BY <1>4, <1>5, <1>6, <1>7, <1>8

LEMMA NoEventPending ==
    ASSUME EcbInv(ipx), NEW e \in Ecbs, ipx.use[e] = "available"
    PROVE  ipx.events[e] = 0 /\ ipx.events \in [Ecbs -> {0, 1}]
    BY DEF EcbInv, Accounts, Accounted, Timed

LEMMA SubmitWell ==
    ASSUME EcbInv(ipx), NEW e \in Ecbs, Submit(e)
    PROVE  EcbInv(ipx') /\ Narrows(ipx', ipx)
<1>1. /\ ipx.use[e] = "available" /\ ipx.events[e] = 0 /\ ipx.events \in [Ecbs -> {0, 1}]
      /\ ipx.use \in [Ecbs -> Uses]
    BY NoEventPending DEF Submit, EcbInv, Accounts, Accounted, Listed
<1>2. ipx.events = [ipx.events EXCEPT ![e] = 0] /\ ipx.use = [ipx.use EXCEPT ![e] = "available"]
    BY <1>1
<1>3. ASSUME ipx' = [ipx EXCEPT !.use[e] = "available"]
      PROVE  EcbInv(ipx') /\ Narrows(ipx', ipx)
    <2>1. SameEcbs(ipx', ipx)
        BY <1>2, <1>3 DEF SameEcbs, SameTable, EcbInv, Accounts, Fields
    <2> QED
        BY <2>1, SameEcbsWell DEF EcbInv
<1>4. ASSUME NEW p \in Ports, Listen(e, p)
      PROVE  EcbInv(ipx') /\ Narrows(ipx', ipx)
    <2>1. CASE p \in InUse(ipx)
        <3> DEFINE a == Submitted(ipx, e, "listening", p)
        <3>1. ipx' = a /\ p \in Nat /\ "listening" \in Uses
            BY <1>4, <2>1, PortsNumbered DEF Listen, Uses
        <3>2. DOMAIN a = Fields /\ a.events = [ipx.events EXCEPT ![e] = 0]
            <4>1. DOMAIN a = Fields /\ a.events = ipx.events
                BY SubmittedEvents DEF EcbInv, Accounts
            <4> QED
                BY <1>2, <4>1
        <3> HIDE DEF a
        <3>3. SameTable(ipx', a)
            BY <3>1 DEF SameTable
        <3>4. Accounts(ipx') /\ Settled(ipx'.list) /\ Narrows(ipx', ipx)
            BY <1>1, <2>1, <3>1, <3>2, <3>3, SubmittedAccounts DEF a
        <3> QED
            BY <3>4 DEF EcbInv
    <2>2. CASE p \notin InUse(ipx)
        BY <1>3, <1>4, <2>2 DEF Listen
    <2> QED
        BY <2>1, <2>2
<1>5. ASSUME NEW p \in Ports, SendPacket(e, p)
      PROVE  EcbInv(ipx') /\ Narrows(ipx', ipx)
    <2> DEFINE a == Submitted(ipx, e, "available", p)
    <2>1. p \in Nat \ {0} /\ "available" \in Uses
        BY PortsNumbered DEF Uses
    <2>2. DOMAIN a = Fields /\ a.events = [ipx.events EXCEPT ![e] = 0]
        BY <1>1, <1>2, <2>1, SubmittedEcb
    <2>3. SameTable(a, a)
        BY DEF SameTable
    <2>4. Accounts(a) /\ Sending(a.list) /\ Narrows(a, ipx)
        BY <1>1, <2>1, <2>2, <2>3, SubmittedAccounts
    <2>5. ipx' \in Sent(a, p) \/ ipx' = [ipx EXCEPT !.use[e] = "available"]
        BY <1>5 DEF SendPacket
    <2> HIDE DEF a
    <2>6. CASE ipx' \in Sent(a, p)
        BY <2>1, <2>4, <2>6, SentWell, NarrowsBoth
    <2> QED
        BY <1>3, <2>5, <2>6
<1>6. ASSUME ScheduleEvent(e)
      PROVE  EcbInv(ipx') /\ Narrows(ipx', ipx)
    <2>1. PICK p \in TimerSockets :
              ipx' = [Submitted(ipx, e, "aesCount", p) EXCEPT !.events[e] = @ + 1]
        BY <1>6 DEF ScheduleEvent
    <2> DEFINE a == Submitted(ipx, e, "aesCount", p)
    <2>2. p \in Nat /\ "aesCount" \in Uses
        BY PortsNumbered DEF Uses
    <2>3. DOMAIN a = Fields /\ a.events = ipx.events
        BY SubmittedEvents DEF EcbInv, Accounts
    <2> HIDE DEF a
    <2>4. ipx' = [a EXCEPT !.events[e] = @ + 1]
        BY <2>1 DEF a
    <2>5. /\ DOMAIN ipx' = Fields /\ SameTable(ipx', a) /\ ipx'.list = a.list
          /\ ipx'.esrs = a.esrs /\ ipx'.inEsr = a.inEsr /\ ipx'.use = a.use
          /\ ipx'.events = [a.events EXCEPT ![e] = @ + 1]
        BY <2>3, <2>4 DEF Fields, SameTable
    <2>6. ipx'.events = [ipx.events EXCEPT ![e] = 1]
        BY <1>1, <2>3, <2>5
    <2>7. Accounts(ipx') /\ Settled(ipx'.list) /\ Narrows(ipx', ipx)
        BY <1>1, <2>2, <2>5, <2>6, SubmittedAccounts DEF a
    <2> QED
        BY <2>7 DEF EcbInv
<1>7. ipx.opened \cup Sockets \subseteq Ports
    BY PortsNumbered DEF EcbInv, Accounts
<1> QED
    BY <1>4, <1>5, <1>6, <1>7 DEF Submit

\* An ECB goes back to the program, with its timer event.
LEMMA ReleasedAccounts ==
    ASSUME EcbInv(ipx), NEW i \in DOMAIN ipx.list, NEW e, e = ipx.list[i].addr,
           NEW v, v = [ipx.events EXCEPT ![e] = 0],
           NEW c, DOMAIN c = Fields, SameTable(c, ipx),
           c.list = [ipx.list EXCEPT ![i].use = "available"],
           c.use = [ipx.use EXCEPT ![e] = "available"],
           c.esrs = ipx.esrs, c.inEsr = ipx.inEsr, c.events = v
    PROVE  /\ Accounts(c) /\ Narrows(c, ipx)
           /\ DOMAIN c.list = DOMAIN ipx.list /\ c.list[i].use = "available"
           /\ \A j \in DOMAIN c.list \ {i} : c.list[j].use # "available"
<1>1. /\ ipx.list \in Seq(Entries) /\ ipx.list[i].use # "available"
      /\ Accounted(ipx.list, ipx.esrs, Running(ipx), ipx.use, ipx.events)
    BY DEF EcbInv, Accounts, Accounted, Listed, Settled
<1>2. Accounted(c.list, c.esrs, Running(c), c.use, c.events)
    <2>1. Running(c) = Running(ipx)
        BY FlagKept
    <2>2. GoesBack(ipx.list, i, ipx.use, ipx.events, c.list, c.use, c.events)
        BY DEF GoesBack
    <2>3. Accounted(c.list, ipx.esrs, Running(ipx), c.use, c.events)
        BY <1>1, <2>2, ReleasedWell
    <2> QED
        BY <2>1, <2>3
<1>3. Accounts(c)
    BY <1>2, FlagKept DEF Accounts, EcbInv, SameTable
<1>4. /\ DOMAIN c.list = DOMAIN ipx.list /\ c.list[i].use = "available"
      /\ \A j \in DOMAIN ipx.list \ {i} : c.list[j] = ipx.list[j]
    BY <1>1 DEF Entries
<1>5. Narrows(c, ipx)
    BY <1>4 DEF Narrows
<1> QED
    BY <1>3, <1>4, <1>5 DEF EcbInv, Settled

LEMMA CancelWell ==
    ASSUME EcbInv(ipx), NEW e \in Ecbs, CancelOperation(e)
    PROVE  EcbInv(ipx') /\ Narrows(ipx', ipx)
<1> DEFINE at == {i \in DOMAIN ipx.list : ipx.list[i].addr = e}
           m == Min(at)
           a == Released(ipx, m)
           b == Deleted(a, m)
           v == [ipx.events EXCEPT ![e] = 0]
           r == [a EXCEPT !.events = v]
<1>1. /\ ipx.list \in Seq(Entries) /\ ipx.use \in [Ecbs -> Uses]
      /\ ipx.events \in [Ecbs -> {0, 1}] /\ DOMAIN ipx = Fields
      /\ ipx.events[e] = 1 <=> ipx.use[e] = "aesCount"
    BY DEF EcbInv, Accounts, Accounted, Listed, Timed
<1>2. m \in DOMAIN ipx.list /\ ipx.list[m].addr = e
    <2>1. at \in SUBSET Nat /\ at # {}
        BY <1>1 DEF CancelOperation
    <2>2. m \in at
        BY <2>1, SmallestIsMember
    <2> QED
        BY <2>2
<1>3. ipx' = [b EXCEPT !.events[e] = IF ipx.use[e] = "aesCount" THEN 0 ELSE @]
    BY DEF CancelOperation
<1> HIDE DEF at, m
<1>4. /\ DOMAIN a = Fields /\ SameTable(a, ipx)
      /\ a.list = [ipx.list EXCEPT ![m].use = "available"]
      /\ a.use = [ipx.use EXCEPT ![e] = "available"]
      /\ a.esrs = ipx.esrs /\ a.inEsr = ipx.inEsr /\ a.events = ipx.events
    BY <1>1, <1>2 DEF Released, Fields, SameTable
<1> HIDE DEF a
<1>5. /\ DOMAIN r = Fields /\ SameTable(r, ipx) /\ r.list = a.list /\ r.use = a.use
      /\ r.esrs = ipx.esrs /\ r.inEsr = ipx.inEsr /\ r.events = v
    BY <1>4 DEF Fields, SameTable
<1> HIDE DEF r
<1>6. /\ Accounts(r) /\ Narrows(r, ipx)
      /\ DOMAIN r.list = DOMAIN ipx.list /\ r.list[m].use = "available"
      /\ \A j \in DOMAIN r.list \ {m} : r.list[j].use # "available"
    BY <1>2, <1>4, <1>5, ReleasedAccounts
<1>7. /\ DOMAIN b = Fields /\ SameTable(b, a) /\ b.list = RemoveAt(a.list, m)
      /\ b.use = a.use /\ b.esrs = a.esrs /\ b.inEsr = a.inEsr /\ b.events = a.events
    BY <1>4 DEF Deleted, Fields, SameTable
<1> HIDE DEF b
<1>8. /\ DOMAIN ipx' = Fields /\ SameTable(ipx', b) /\ ipx'.list = b.list
      /\ ipx'.use = b.use /\ ipx'.esrs = b.esrs /\ ipx'.inEsr = b.inEsr
      /\ ipx'.events = [b.events EXCEPT ![e] = IF ipx.use[e] = "aesCount" THEN 0 ELSE @]
    BY <1>3, <1>7 DEF Fields, SameTable
<1>9. ipx'.events = v
    <2>1. ipx'.events = [ipx.events EXCEPT ![e] = IF ipx.use[e] = "aesCount" THEN 0 ELSE @]
        BY <1>4, <1>7, <1>8
    <2>2. CASE ipx.use[e] = "aesCount"
        BY <2>1, <2>2
    <2>3. CASE ipx.use[e] # "aesCount"
        <3>1. ipx.events[e] = 0
            BY <1>1, <2>3
        <3> QED
            BY <1>1, <2>1, <2>3, <3>1
    <2> QED
        BY <2>2, <2>3
<1> HIDE DEF v
<1>10. Keeps(ipx'.list, r.list, DOMAIN r.list \ {m})
    <2>1. r.list \in Seq(Entries) /\ ipx'.list = RemoveAt(r.list, m)
        BY <1>5, <1>6, <1>7, <1>8 DEF Accounts, Accounted, Listed
    <2> QED
        BY <1>2, <1>6, <2>1, RemovedKeeps
<1>11. Accounted(ipx'.list, ipx'.esrs, Running(ipx'), ipx'.use, ipx'.events)
    <2>1. Accounted(r.list, r.esrs, Running(r), r.use, r.events)
        BY <1>6 DEF Accounts
    <2>2. Accounted(ipx'.list, r.esrs, Running(r), r.use, r.events)
        BY <1>2, <1>6, <1>10, <2>1, DeletedWell
    <2> QED
        BY <1>4, <1>5, <1>7, <1>8, <1>9, <2>2, FlagKept
<1>12. SameTable(ipx', r)
    BY <1>4, <1>5, <1>7, <1>8 DEF SameTable
<1>13. Accounts(ipx')
    BY <1>4, <1>5, <1>6, <1>7, <1>8, <1>11, <1>12, FlagKept DEF Accounts, SameTable
<1>14. DOMAIN r.list \ {m} \in SUBSET DOMAIN r.list
    OBVIOUS
<1>15. Narrows(ipx', r) /\ Settled(ipx'.list)
    BY <1>6, <1>10, <1>12, <1>14, KeptNarrows, KeptSettled
<1> QED
    BY <1>6, <1>13, <1>15, NarrowsBoth DEF EcbInv

LEMMA AesWell ==
    ASSUME EcbInv(ipx), NEW e \in Ecbs, AesEvent(e)
    PROVE  EcbInv(ipx') /\ Narrows(ipx', ipx)
<1> DEFINE waiting == {i \in DOMAIN ipx.list :
                          ipx.list[i].use = "aesCount" /\ ipx.list[i].addr = e}
           m == Min(waiting)
           d == [ipx EXCEPT !.events[e] = @ - 1]
           a == Released(d, m)
           v == [ipx.events EXCEPT ![e] = 0]
<1>1. /\ ipx.list \in Seq(Entries) /\ ipx.use \in [Ecbs -> Uses]
      /\ ipx.events \in [Ecbs -> {0, 1}] /\ DOMAIN ipx = Fields
      /\ ipx.events[e] = 1 <=> ipx.use[e] = "aesCount"
    BY DEF EcbInv, Accounts, Accounted, Listed, Timed
<1>2. ipx.events[e] = 1 /\ ipx.use[e] = "aesCount"
    BY <1>1 DEF AesEvent
<1>3. waiting # {}
    <2>1. In(ipx.list, e)
        BY <1>2 DEF EcbInv, Accounts, Accounted, Covered
    <2> QED
        BY <1>2, <2>1 DEF In, InAt, EcbInv, Accounts, Accounted, Listed
<1>4. m \in DOMAIN ipx.list /\ ipx.list[m].addr = e
    <2>1. waiting \in SUBSET Nat
        BY <1>1
    <2>2. m \in waiting
        BY <1>3, <2>1, SmallestIsMember
    <2> QED
        BY <2>2
<1>5. ipx' = NotifyESR(a, m)
    BY <1>3 DEF AesEvent
<1> HIDE DEF waiting, m
<1>6. /\ DOMAIN d = Fields /\ SameTable(d, ipx) /\ d.list = ipx.list /\ d.use = ipx.use
      /\ d.esrs = ipx.esrs /\ d.inEsr = ipx.inEsr /\ d.events = v
    BY <1>1, <1>2 DEF Fields, SameTable
<1> HIDE DEF d, v
<1>7. /\ DOMAIN a = Fields /\ SameTable(a, d)
      /\ a.list = [d.list EXCEPT ![m].use = "available"]
      /\ a.use = [d.use EXCEPT ![d.list[m].addr] = "available"]
      /\ a.esrs = d.esrs /\ a.inEsr = d.inEsr /\ a.events = d.events
    BY <1>6 DEF Released, Fields, SameTable
<1> HIDE DEF a
<1>8. SameTable(a, ipx)
    BY <1>6, <1>7 DEF SameTable
<1>9. /\ Accounts(a) /\ Narrows(a, ipx)
      /\ DOMAIN a.list = DOMAIN ipx.list /\ a.list[m].use = "available"
      /\ \A j \in DOMAIN a.list \ {m} : a.list[j].use # "available"
    BY <1>4, <1>6, <1>7, <1>8, ReleasedAccounts DEF v
<1>10. Accounts(ipx') /\ Narrows(ipx', a) /\ Settled(ipx'.list)
    BY <1>4, <1>5, <1>9, NotifyWell
<1> QED
    BY <1>9, <1>10, NarrowsBoth DEF EcbInv

\* What is done to the connection
LEMMA CommandsSame ==
    ASSUME DOMAIN ipx = Fields,
           ConnectToServer \/ Connected \/ TimedOut \/ Disconnect \/ Ping \/ PingOver
    PROVE  SameEcbs(ipx', ipx)
<1>1. CASE ConnectToServer \/ Connected \/ TimedOut
    BY <1>1 DEF ConnectToServer, Connected, TimedOut, SameEcbs, SameTable, Fields
<1>2. CASE Disconnect
    BY <1>2, DisconnectSame DEF Disconnect
<1>3. CASE Ping
    <2> DEFINE c == DelTickHandler(ipx)
    <2>1. SameEcbs(c, ipx)
        BY DEF DelTickHandler, SameEcbs, SameTable, Fields
    <2>2. ipx' = [c EXCEPT !.ipxnet = "ping"]
        BY <1>3 DEF Ping
    <2> HIDE DEF c
    <2> QED
        BY <2>1, <2>2 DEF SameEcbs, SameTable, Fields
<1>4. CASE PingOver
    BY <1>4 DEF PingOver, SameEcbs, SameTable, Fields
<1> QED
    BY <1>1, <1>2, <1>3, <1>4

LEMMA ClientLoopWell ==
    ASSUME EcbInv(ipx), ClientLoop
    PROVE  EcbInv(ipx') /\ Narrows(ipx', ipx)
<1>1. PICK p \in ipx.opened \cup Sockets :
          ipx' = [ReceivePacket(ipx, p) EXCEPT !.fault = @ \/ ~ipx.udp]
    BY DEF ClientLoop
<1>2. p \in Nat \ {0}
    BY PortsNumbered DEF EcbInv, Accounts
<1> DEFINE c == ReceivePacket(ipx, p)
<1>3. Accounts(c) /\ Narrows(c, ipx) /\ Settled(c.list)
    BY <1>2, ReceiveWell DEF EcbInv
<1> HIDE DEF c
<1>4. ipx' = [c EXCEPT !.fault = @ \/ ~ipx.udp]
    BY <1>1 DEF c
<1>5. SameEcbs(ipx', c)
    BY <1>3, <1>4 DEF SameEcbs, SameTable, Accounts, Fields
<1> QED
    BY <1>3, <1>5, SameEcbsWell, NarrowsBoth DEF EcbInv

\* The handler of interrupt 11 and what it goes on with
LEMMA ServedAccounts ==
    ASSUME NEW d, DOMAIN d = Fields, d.opened \in SUBSET Ports, Settled(d.list),
           Accounted(d.list, d.esrs, 0, d.use, d.events), NEW c, c = Served(d)
    PROVE  EcbInv(c) /\ Narrows(c, d)
<1> DEFINE q == d.esrs
           next == NextCalled(q)
           written == {q[i].addr : i \in {j \in DOMAIN q : j <= next /\ q[j].data # NoData}}
<1>1. /\ DOMAIN c = Fields /\ SameTable(c, d) /\ c.list = d.list
      /\ c.esrs = SubSeq(q, next, Len(q)) /\ c.inEsr = (Called(q) # {})
      /\ c.use = [e \in Ecbs |-> IF e \in written THEN "available" ELSE d.use[e]]
      /\ c.events = d.events
    BY DEF Served, NextCalled, Called, SameTable, Fields
<1>2. GivenBack(c.use, d.use, written)
    BY <1>1 DEF GivenBack
<1>3. Accounted(d.list, SubSeq(q, next, Len(q)), Serving(q), c.use, d.events)
    BY <1>2, ServedWell
<1>4. Flag(c) /\ Running(c) = Serving(q)
    BY <1>1 DEF Flag, Running, Serving
<1> HIDE DEF next, written
<1>5. Accounts(c)
    BY <1>1, <1>3, <1>4 DEF Accounts, SameTable
<1>6. Narrows(c, d)
    BY <1>1 DEF Narrows
<1> QED
    BY <1>1, <1>5, <1>6 DEF EcbInv

LEMMA EsrWell ==
    ASSUME EcbInv(ipx), ESRHandler \/ EsrReturns
    PROVE  EcbInv(ipx') /\ Narrows(ipx', ipx)
<1>1. DOMAIN ipx = Fields /\ ipx.inEsr \in BOOLEAN
    BY DEF EcbInv, Accounts, Flag
<1>2. CASE ESRHandler
    <2> DEFINE b == [ipx EXCEPT !.irq = FALSE]
    <2>1. SameEcbs(b, ipx)
        BY <1>1 DEF SameEcbs, SameTable, Fields
    <2>2. Running(ipx) = 0
        BY <1>2 DEF ESRHandler, Running
    <2>3. Accounts(b) /\ Settled(b.list) /\ Narrows(b, ipx) /\ Running(b) = 0
        BY <2>1, <2>2, SameEcbsWell, FlagKept DEF EcbInv, SameEcbs
    <2>4. ipx' = Served(b)
        BY <1>2 DEF ESRHandler
    <2> HIDE DEF b
    <2>5. DOMAIN b = Fields /\ b.opened \in SUBSET Ports
          /\ Accounted(b.list, b.esrs, 0, b.use, b.events)
        BY <2>3 DEF Accounts
    <2> QED
        BY <2>3, <2>4, <2>5, ServedAccounts, NarrowsBoth
<1>3. CASE EsrReturns
    <2> DEFINE c == [ipx EXCEPT !.esrs = Tail(@)]
    <2>1. ipx.inEsr = TRUE /\ ipx' = Served(c)
        BY <1>1, <1>3 DEF EsrReturns
    <2>2. /\ DOMAIN c = Fields /\ SameTable(c, ipx) /\ c.list = ipx.list
          /\ c.esrs = Tail(ipx.esrs) /\ c.use = ipx.use /\ c.events = ipx.events
        BY <1>1 DEF Fields, SameTable
    <2>3. Accounted(ipx.list, ipx.esrs, 1, ipx.use, ipx.events)
        BY <2>1 DEF EcbInv, Accounts, Running
    <2> HIDE DEF c
    <2>4. Accounted(c.list, c.esrs, 0, c.use, c.events)
        BY <2>2, <2>3, TailWell
    <2>5. Settled(c.list) /\ c.opened \in SUBSET Ports /\ Narrows(c, ipx)
        BY <2>2 DEF Accounts, EcbInv, SameTable, Narrows
    <2> QED
        BY <2>1, <2>2, <2>4, <2>5, ServedAccounts, NarrowsBoth
<1> QED
    BY <1>2, <1>3

---------------------------------------------------------------------------
(* Opening and closing sockets                                             *)

\* The ECBs that listen on a socket that is closed go back to the program, and
\* no other ECB names it.
LEMMA ClosedEcbs ==
    ASSUME Apart, EcbInv(ipx), NEW p \in Ports, NEW c, c = CloseSocket(ipx, p), p \in InUse(ipx)
    PROVE  /\ EcbInv(c)
           /\ \A i \in DOMAIN c.list : c.list[i].use = "listening" =>
                  /\ c.list[i].socket # p
                  /\ \E j \in DOMAIN ipx.list : ipx.list[j].use = "listening"
                                                /\ ipx.list[j].socket = c.list[i].socket
<1> DEFINE s == ipx.list
           kept == Others(s, p)
           gone == Closing(s, p)
<1>1. /\ DOMAIN c = Fields /\ c.list = Selection(s, kept) /\ c.opened = ipx.opened \ {p}
      /\ c.use = [e \in Ecbs |-> IF e \in gone THEN "available" ELSE ipx.use[e]]
      /\ c.esrs = ipx.esrs /\ c.inEsr = ipx.inEsr /\ c.events = ipx.events
    BY DEF CloseSocket, Fields, EcbInv, Accounts, Others, Closing
<1>2. /\ Accounted(s, ipx.esrs, Running(ipx), ipx.use, ipx.events)
      /\ s \in Seq(Entries) /\ \A i \in DOMAIN s : s[i].use # "available"
    BY DEF EcbInv, Accounts, Accounted, Listed, Settled
<1>3. Keeps(c.list, s, kept)
    BY <1>1, <1>2, SelectedKeeps DEF Others
<1>4. p \notin TimerSockets
    BY DEF Apart
<1>5. Accounted(c.list, ipx.esrs, Running(ipx), c.use, ipx.events)
    <2>1. GivenBack(c.use, ipx.use, gone)
        BY <1>1 DEF GivenBack
    <2> QED
        BY <1>2, <1>3, <1>4, <2>1, ClosedWell
<1>6. Running(c) = Running(ipx) /\ Flag(c)
    BY <1>1, FlagKept DEF EcbInv, Accounts
<1>7. Accounts(c)
    BY <1>1, <1>5, <1>6 DEF EcbInv, Accounts
<1>8. kept \in SUBSET DOMAIN s /\ \A i \in kept : s[i].socket # p
    BY DEF Others
<1> HIDE DEF kept
<1>9. Settled(c.list)
    BY <1>2, <1>3, <1>8, KeptSettled
<1>10. \A i \in DOMAIN c.list : \E k \in kept : c.list[i] = s[k]
    BY <1>3 DEF Keeps
<1> QED
    BY <1>7, <1>8, <1>9, <1>10 DEF EcbInv

\* The first n sockets of a table, and that they are different
FirstOf(t, n) == {t[i] : i \in 0 .. n - 1}
Distinct(t, n) == \A i, j \in 0 .. n - 1 : t[i] = t[j] => i = j

\* The copy moves as many bytes as the table has entries: that is enough for
\* the sockets behind the one that is closed when the table is half full at most.
HalfFull == 2 * MaxOpen <= TableSize + 1

TableIs(d, t, n) == t = d.opensockets /\ n = d.socketCount

LEMMA RealignedTable ==
    ASSUME HalfFull, NEW d, NEW t, NEW n \in 1 .. MaxOpen, TableIs(d, t, n),
           DOMAIN t = 0 .. TableSize - 1, Distinct(t, n),
           NEW p \in FirstOf(t, n), NEW r, r = Realigned(d, p)
    PROVE  /\ DOMAIN r = 0 .. TableSize - 1 /\ Distinct(r, n - 1)
           /\ FirstOf(r, n - 1) = FirstOf(t, n) \ {p}
<1>1. /\ n \in Nat /\ 0 < n /\ n <= MaxOpen /\ MaxOpen <= TableSize
      /\ TableSize \in Nat /\ MaxOpen \in Nat
    BY SocketsAssumption
<1>2. PICK k \in 0 .. n - 1 : t[k] = p
    BY DEF FirstOf
<1>3. \A i \in 0 .. n - 1 : t[i] = p <=> i = k
    BY <1>2 DEF Distinct
<1>4. /\ DOMAIN r = 0 .. TableSize - 1
      /\ \A j \in 0 .. n - 2 : r[j] = IF j < k THEN t[j] ELSE t[j + 1]
    <2> DEFINE at == {i \in 0 .. n - 2 : t[i] = p}
    <2>1. CASE k = n - 1
        <3>1. at = {}
            BY <1>1, <1>3, <2>1
        <3>2. r = t
            BY <3>1 DEF Realigned, TableIs
        <3> QED
            BY <1>1, <2>1, <3>2
    <2>2. CASE k # n - 1
        <3>1. k \in 0 .. n - 2 /\ \A i \in 0 .. n - 2 : i \in 0 .. n - 1
            BY <1>1, <1>2, <2>2
        <3>2. at = {k}
            BY <1>3, <3>1
        <3>3. Min(at) = k
            <4>1. at \in SUBSET Nat /\ at # {}
                BY <3>1, <3>2
            <4>2. Min(at) \in at
                BY <4>1, SmallestIsMember
            <4> QED
                BY <3>2, <4>2
        <3>4. r = Copied(t, k, TableSize - (k + 1))
            BY <3>2, <3>3 DEF Realigned, TableIs
        <3>5. DOMAIN r = 0 .. TableSize - 1
            BY <3>4 DEF Copied
        <3>6. ASSUME NEW j \in 0 .. n - 2
              PROVE  r[j] = IF j < k THEN t[j] ELSE t[j + 1]
            <4>1. j \in 0 .. TableSize - 1 /\ j \in Int /\ k \in Int
                BY <1>1, <3>1, <3>6
            <4>2. CASE j < k
                <5>1. ~(j >= k)
                    BY <4>1, <4>2
                <5> QED
                    BY <3>4, <4>1, <4>2, <5>1 DEF Copied
            <4>3. CASE ~(j < k)
                <5>1. j >= k /\ 2 * (j - k) + 1 < TableSize - (k + 1)
                    BY <1>1, <3>1, <4>1, <4>3 DEF HalfFull
                <5> QED
                    BY <3>4, <4>1, <4>3, <5>1 DEF Copied
            <4> QED
                BY <4>2, <4>3
        <3> QED
            BY <3>5, <3>6
    <2> QED
        BY <2>1, <2>2
<1> DEFINE from(j) == IF j < k THEN j ELSE j + 1
<1>5. \A j \in 0 .. n - 2 : from(j) \in 0 .. n - 1 /\ from(j) # k /\ r[j] = t[from(j)]
    BY <1>1, <1>2, <1>4
<1>6. \A i, j \in 0 .. n - 2 : from(i) = from(j) => i = j
    BY <1>1, <1>2
<1>7. \A i \in 0 .. n - 1 : i # k => \E j \in 0 .. n - 2 : from(j) = i
    <2> SUFFICES ASSUME NEW i \in 0 .. n - 1, i # k
                 PROVE  \E j \in 0 .. n - 2 : from(j) = i
        OBVIOUS
    <2>1. CASE i < k
        <3>1. i \in 0 .. n - 2 /\ from(i) = i
            BY <1>1, <1>2, <2>1
        <3> QED
            BY <3>1
    <2>2. CASE ~(i < k)
        <3>1. i - 1 \in 0 .. n - 2 /\ from(i - 1) = i
            BY <1>1, <1>2, <2>2
        <3> QED
            BY <3>1
    <2> QED
        BY <2>1, <2>2
<1> HIDE DEF from
<1>8. n - 1 - 1 = n - 2
    BY <1>1
<1>9. Distinct(r, n - 1)
    BY <1>5, <1>6, <1>8 DEF Distinct
<1>10. FirstOf(r, n - 1) = FirstOf(t, n) \ {p}
    <2>1. \A j \in 0 .. n - 2 : r[j] \in FirstOf(t, n) /\ r[j] # p
        BY <1>3, <1>5 DEF FirstOf
    <2>2. \A i \in 0 .. n - 1 : t[i] # p => \E j \in 0 .. n - 2 : r[j] = t[i]
        BY <1>3, <1>5, <1>7
    <2>3. \A x : x \in FirstOf(r, n - 1) <=> \E j \in 0 .. n - 2 : r[j] = x
        BY <1>8 DEF FirstOf
    <2>4. \A x : x \in FirstOf(t, n) <=> \E j \in 0 .. n - 1 : t[j] = x
        BY DEF FirstOf
    <2> QED
        BY <2>1, <2>2, <2>3, <2>4
<1> QED
    BY <1>4, <1>9, <1>10

\* The table has the open sockets, each once, and ECBs listen on open sockets.
Table(d) ==
    /\ DOMAIN d.opensockets = 0 .. TableSize - 1 /\ d.socketCount \in 0 .. MaxOpen
    /\ Distinct(d.opensockets, d.socketCount)
    /\ InUse(d) = d.opened
    /\ IsFiniteSet(d.opened) /\ Cardinality(d.opened) = d.socketCount

Listening(d) ==
    \A i \in DOMAIN d.list : d.list[i].use = "listening" => d.list[i].socket \in d.opened

LEMMA NarrowsTable ==
    ASSUME NEW c, NEW d, Narrows(c, d), Table(d), Listening(d)
    PROVE  Table(c) /\ Listening(c)
<1>1. SameTable(c, d)
    BY DEF Narrows
<1>2. Table(c)
    BY <1>1 DEF SameTable, Table, InUse
<1>3. Listening(c)
    BY <1>1 DEF Narrows, SameTable, Table, Listening
<1> QED
    BY <1>2, <1>3

LEMMA ClosedTable ==
    ASSUME Apart, HalfFull, EcbInv(ipx), Table(ipx), Listening(ipx),
           NEW p \in ipx.opened, NEW c, c = CloseSocket(ipx, p)
    PROVE  EcbInv(c) /\ Table(c) /\ Listening(c)
<1> DEFINE n == ipx.socketCount
           t == ipx.opensockets
           r == Realigned(ipx, p)
<1>1. p \in InUse(ipx) /\ p \in Ports /\ p \in FirstOf(t, n)
    BY DEF Table, InUse, FirstOf, EcbInv, Accounts
<1>2. /\ c.opensockets = r /\ c.socketCount = n - 1 /\ c.opened = ipx.opened \ {p}
    BY <1>1 DEF CloseSocket, Fields, EcbInv, Accounts
<1>3. n \in 1 .. MaxOpen
    <2>1. Cardinality(ipx.opened) = n /\ IsFiniteSet(ipx.opened) /\ n \in 0 .. MaxOpen
        BY DEF Table
    <2>2. n # 0
        BY <2>1, FS_EmptySet
    <2> QED
        BY <2>1, <2>2, SocketsAssumption
<1>4. /\ DOMAIN r = 0 .. TableSize - 1 /\ Distinct(r, n - 1)
      /\ FirstOf(r, n - 1) = FirstOf(t, n) \ {p}
    <2>1. DOMAIN t = 0 .. TableSize - 1 /\ Distinct(t, n) /\ TableIs(ipx, t, n)
        BY DEF Table, TableIs
    <2> QED
        BY <1>1, <1>3, <2>1, RealignedTable
<1>5. IsFiniteSet(c.opened) /\ Cardinality(c.opened) = n - 1
    BY <1>2, FS_RemoveElement DEF Table
<1>6. InUse(c) = c.opened
    <2>1. /\ InUse(c) = FirstOf(c.opensockets, c.socketCount)
          /\ InUse(ipx) = FirstOf(t, n)
        BY DEF InUse, FirstOf
    <2>2. InUse(ipx) = ipx.opened
        BY DEF Table
    <2> QED
        BY <1>2, <1>4, <2>1, <2>2
<1>7. n - 1 \in 0 .. MaxOpen
    BY <1>3, SocketsAssumption
<1>8. Table(c)
    BY <1>2, <1>4, <1>5, <1>6, <1>7 DEF Table
<1>9. EcbInv(c)
    BY <1>1, ClosedEcbs
<1>10. Listening(c)
    <2>1. \A i \in DOMAIN c.list : c.list[i].use = "listening" =>
              /\ c.list[i].socket # p
              /\ \E j \in DOMAIN ipx.list : ipx.list[j].use = "listening"
                                            /\ ipx.list[j].socket = c.list[i].socket
        BY <1>1, ClosedEcbs
    <2> QED
        BY <1>2, <2>1 DEF Listening
<1> QED
    BY <1>8, <1>9, <1>10

\* There is a free number for every socket that can be open.
Enough == MaxOpen <= LastDynamic - Dynamic + 1

LEMMA FreeSocket ==
    ASSUME Enough, NEW T, IsFiniteSet(T), Cardinality(T) < MaxOpen
    PROVE  \E s \in Dynamic .. LastDynamic : s \notin T
<1> SUFFICES ASSUME Dynamic .. LastDynamic \subseteq T PROVE FALSE
    OBVIOUS
<1>1. Dynamic \in Int /\ LastDynamic \in Int /\ Dynamic < LastDynamic /\ MaxOpen \in Nat
    BY SocketsAssumption
<1>2. Cardinality(Dynamic .. LastDynamic) = LastDynamic - Dynamic + 1
    BY <1>1, FS_Interval
<1>3. Cardinality(Dynamic .. LastDynamic) <= Cardinality(T)
    BY FS_Subset
<1>4. Cardinality(T) \in Nat
    BY FS_CardinalityType
<1> QED
    BY <1>1, <1>2, <1>3, <1>4 DEF Enough

\* A socket that is opened is not open yet.
LEMMA NewSocket ==
    ASSUME Enough, Table(ipx), Cardinality(ipx.opened) < MaxOpen, NEW asked \in Sockets \cup {0},
           asked \notin InUse(ipx), NEW free,
           free = {s \in Dynamic .. LastDynamic : s \notin InUse(ipx) \/ s = LastDynamic},
           NEW p, p = IF asked # 0 THEN asked ELSE Min(free)
    PROVE  p \in Ports /\ p \notin ipx.opened
<1>1. CASE asked # 0
    BY <1>1 DEF Ports, Table
<1>2. CASE asked = 0
    <2>1. PICK s \in Dynamic .. LastDynamic : s \notin ipx.opened
        BY FreeSocket DEF Table
    <2>2. Dynamic \in Nat /\ LastDynamic \in Nat
        BY SocketsAssumption
    <2>3. free \in SUBSET Nat /\ s \in free
        BY <2>1, <2>2 DEF Table
    <2>4. p \in free /\ p <= s
        BY <1>2, <2>3, SmallestIsMember
    <2>5. p \in Dynamic .. LastDynamic /\ (p \notin InUse(ipx) \/ p = LastDynamic)
        BY <2>4
    <2>6. p = LastDynamic => s = LastDynamic
        BY <2>1, <2>2, <2>4, <2>5
    <2> QED
        BY <2>1, <2>5, <2>6 DEF Ports, Table
<1> QED
    BY <1>1, <1>2

LEMMA OpenedTable ==
    ASSUME Enough, EcbInv(ipx), Table(ipx), Listening(ipx), Cardinality(ipx.opened) < MaxOpen,
           NEW asked \in Sockets \cup {0}, NEW c, c = OpenSocket(ipx, asked)
    PROVE  EcbInv(c) /\ Table(c) /\ Listening(c)
<1> DEFINE n == ipx.socketCount
           t == ipx.opensockets
           free == {s \in Dynamic .. LastDynamic : s \notin InUse(ipx) \/ s = LastDynamic}
           p == IF asked # 0 THEN asked ELSE Min(free)
           b == [ipx EXCEPT !.opensockets[n] = p, !.socketCount = @ + 1, !.opened = @ \cup {p}]
<1>1. n \in 0 .. MaxOpen - 1 /\ MaxOpen \in Nat /\ TableSize \in Nat /\ MaxOpen <= TableSize
    BY SocketsAssumption DEF Table
<1>2. CASE asked \in InUse(ipx)
    BY <1>2 DEF OpenSocket
<1>3. CASE asked \notin InUse(ipx)
    <2>1. p \in Ports /\ p \notin ipx.opened
        BY <1>3, NewSocket
    <2>2. c = b
        BY <1>1, <1>3 DEF OpenSocket
    <2> HIDE DEF p, free
    <2>3. /\ DOMAIN c = Fields /\ c.opensockets = [t EXCEPT ![n] = p] /\ c.socketCount = n + 1
          /\ c.opened = ipx.opened \cup {p}
          /\ c.list = ipx.list /\ c.esrs = ipx.esrs /\ c.inEsr = ipx.inEsr /\ c.use = ipx.use
          /\ c.events = ipx.events
        BY <2>2 DEF Fields, EcbInv, Accounts
    <2>4. EcbInv(c)
        <3>1. Running(c) = Running(ipx) /\ Flag(c)
            BY <2>3, FlagKept DEF EcbInv, Accounts
        <3> QED
            BY <2>1, <2>3, <3>1 DEF EcbInv, Accounts
    <2>5. Listening(c)
        BY <2>3 DEF Listening
    <2> DEFINE r == c.opensockets
    <2>6. /\ DOMAIN t = 0 .. TableSize - 1 /\ DOMAIN r = 0 .. TableSize - 1
          /\ r[n] = p /\ \A i \in 0 .. n - 1 : r[i] = t[i]
        <3>1. DOMAIN t = 0 .. TableSize - 1
            BY DEF Table
        <3>2. n \in 0 .. TableSize - 1 /\ \A i \in 0 .. n - 1 : i \in 0 .. TableSize - 1 /\ i # n
            BY <1>1
        <3> QED
            BY <2>3, <3>1, <3>2
    <2>7. \A i \in 0 .. n - 1 : t[i] \in ipx.opened /\ t[i] # p
        BY <2>1 DEF Table, InUse
    <2>8. 0 .. n = (0 .. n - 1) \cup {n} /\ n \notin 0 .. n - 1 /\ n + 1 - 1 = n
        BY <1>1
    <2> HIDE DEF r
    <2>9. Distinct(r, n + 1)
        <3>1. \A i, j \in 0 .. n - 1 : t[i] = t[j] => i = j
            BY DEF Distinct, Table
        <3>2. \A i, j \in 0 .. n : r[i] = r[j] => i = j
            BY <2>6, <2>7, <2>8, <3>1
        <3> QED
            BY <2>8, <3>2 DEF Distinct
    <2>10. FirstOf(r, n + 1) = FirstOf(t, n) \cup {p}
        <3>1. \A x : x \in FirstOf(r, n + 1) <=> \E j \in 0 .. n : r[j] = x
            BY <2>8 DEF FirstOf
        <3>2. \A x : x \in FirstOf(t, n) <=> \E j \in 0 .. n - 1 : t[j] = x
            BY DEF FirstOf
        <3> QED
            BY <2>6, <2>8, <3>1, <3>2
    <2>11. InUse(c) = c.opened
        BY <2>3, <2>10 DEF InUse, FirstOf, Table, r
    <2>12. IsFiniteSet(c.opened) /\ Cardinality(c.opened) = n + 1
        <3>1. IsFiniteSet(ipx.opened) /\ Cardinality(ipx.opened) = n
            BY DEF Table
        <3>2. IsFiniteSet(ipx.opened \cup {p}) /\ Cardinality(ipx.opened \cup {p}) = n + 1
            BY <2>1, <3>1, FS_AddElement
        <3> QED
            BY <2>3, <3>2
    <2>13. n + 1 \in 0 .. MaxOpen
        BY <1>1
    <2>14. Table(c)
        BY <2>3, <2>6, <2>9, <2>11, <2>12, <2>13 DEF Table, r
    <2> QED
        BY <2>4, <2>5, <2>14
<1> QED
    BY <1>2, <1>3

---------------------------------------------------------------------------
(* The two invariants                                                      *)

\* A socket is opened or closed; everything else leaves the table alone.
LEMMA EcbStep ==
    ASSUME Apart, EcbInv(ipx), [Next]_ipx
    PROVE  \/ EcbInv(ipx') /\ Narrows(ipx', ipx)
           \/ \E s \in Sockets \cup {0} :
                  Cardinality(ipx.opened) < MaxOpen /\ ipx' = OpenSocket(ipx, s)
           \/ \E s \in ipx.opened : ipx' = CloseSocket(ipx, s)
<1>1. DOMAIN ipx = Fields
    BY DEF EcbInv, Accounts
<1>2. ASSUME SameEcbs(ipx', ipx)
      PROVE  EcbInv(ipx') /\ Narrows(ipx', ipx)
    BY <1>2, SameEcbsWell DEF EcbInv
<1>3. CASE ConnectToServer \/ Connected \/ TimedOut \/ Disconnect \/ Ping \/ PingOver
    BY <1>1, <1>2, <1>3, CommandsSame
<1>4. CASE ClientLoop
    BY <1>4, ClientLoopWell
<1>5. CASE Guest
    BY <1>5, SubmitWell, CancelWell DEF Guest
<1>6. CASE \E e \in Ecbs : AesEvent(e)
    BY <1>6, AesWell
<1>7. CASE ESRHandler \/ EsrReturns
    BY <1>7, EsrWell
<1>8. CASE UNCHANGED ipx
    BY <1>1, <1>2, <1>8 DEF SameEcbs, SameTable
<1> QED
    BY <1>3, <1>4, <1>5, <1>6, <1>7, <1>8 DEF Next

\* Opening a socket changes no ECB.
LEMMA OpenedEcbs ==
    ASSUME EcbInv(ipx), NEW asked \in Sockets \cup {0}, NEW c, c = OpenSocket(ipx, asked)
    PROVE  EcbInv(c)
<1> DEFINE free == {s \in Dynamic .. LastDynamic : s \notin InUse(ipx) \/ s = LastDynamic}
           p == IF asked # 0 THEN asked ELSE Min(free)
           b == [ipx EXCEPT !.opensockets[ipx.socketCount] = p, !.socketCount = @ + 1,
                            !.opened = @ \cup {p}]
<1>1. p \in Ports
    <2>1. CASE asked # 0
        BY <2>1 DEF Ports
    <2>2. CASE asked = 0
        <3>1. Dynamic \in Nat /\ LastDynamic \in Nat /\ Dynamic < LastDynamic
            BY SocketsAssumption
        <3>2. free \in SUBSET Nat /\ LastDynamic \in free
            BY <3>1
        <3>3. Min(free) \in free
            BY <3>2, SmallestIsMember
        <3> QED
            BY <2>2, <3>3 DEF Ports
    <2> QED
        BY <2>1, <2>2
<1>2. c \in {ipx, b}
    BY DEF OpenSocket
<1> HIDE DEF p, free
<1>3. CASE c = b
    <2>1. /\ DOMAIN c = Fields /\ c.opened = ipx.opened \cup {p}
          /\ c.list = ipx.list /\ c.esrs = ipx.esrs /\ c.inEsr = ipx.inEsr /\ c.use = ipx.use
          /\ c.events = ipx.events
        BY <1>3 DEF Fields, EcbInv, Accounts
    <2>2. Running(c) = Running(ipx) /\ Flag(c)
        BY <2>1, FlagKept DEF EcbInv, Accounts
    <2> QED
        BY <1>1, <2>1, <2>2 DEF EcbInv, Accounts
<1> QED
    BY <1>2, <1>3

LEMMA EcbsStep ==
    ASSUME Apart, EcbInv(ipx), [Next]_ipx
    PROVE  EcbInv(ipx')
<1>1. ASSUME NEW s \in ipx.opened, ipx' = CloseSocket(ipx, s)
      PROVE  EcbInv(ipx')
    <2>1. CASE s \in InUse(ipx)
        <3>1. s \in Ports
            BY DEF EcbInv, Accounts
        <3> QED
            BY <1>1, <2>1, <3>1, ClosedEcbs
    <2>2. CASE s \notin InUse(ipx)
        BY <1>1, <2>2 DEF CloseSocket
    <2> QED
        BY <2>1, <2>2
<1> QED
    BY <1>1, EcbStep, OpenedEcbs

\* What the invariant says of the places of one ECB
LEMMA AtMostOne ==
    ASSUME NEW S, \A i, j \in S : i = j
    PROVE  Cardinality(S) = (IF S = {} THEN 0 ELSE 1)
<1>1. CASE S = {}
    BY <1>1, FS_EmptySet
<1>2. CASE S # {}
    <2>1. PICK i : S = {i}
        BY <1>2
    <2> QED
        BY <1>2, <2>1, FS_Singleton
<1> QED
    BY <1>1, <1>2

LEMMA EcbsCounted ==
    ASSUME EcbInv(ipx)
    PROVE  EcbsAccounted
<1>1. /\ Listed(ipx.list, ipx.use) /\ Covered(ipx.list, ipx.esrs, Running(ipx), ipx.use)
      /\ Writing(ipx.list, ipx.esrs, Running(ipx), ipx.use) /\ Timed(ipx.use, ipx.events)
      /\ Settled(ipx.list) /\ Flag(ipx)
    BY DEF EcbInv, Accounts, Accounted
<1>2. ASSUME NEW e \in Ecbs
      PROVE  /\ Cardinality(Held(e, "listening")) + Cardinality(Unwritten(e)) =
                    IF ipx.use[e] = "listening" THEN 1 ELSE 0
             /\ Cardinality(Held(e, "aesCount")) = IF ipx.use[e] = "aesCount" THEN 1 ELSE 0
             /\ Cardinality(Held(e, "aesCount")) = ipx.events[e]
    <2>1. \A i \in DOMAIN ipx.esrs : ~(ipx.inEsr /\ i = 1) <=> i > Running(ipx)
        <3>1. DOMAIN ipx.esrs \subseteq Nat \ {0}
            BY <1>1 DEF Writing
        <3>2. CASE ipx.inEsr = TRUE
            BY <3>1, <3>2 DEF Running
        <3>3. CASE ipx.inEsr = FALSE
            BY <3>1, <3>3 DEF Running
        <3> QED
            BY <1>1, <3>2, <3>3 DEF Flag
    <2>2. Unwritten(e) = {i \in Late(ipx.esrs, Running(ipx)) : ipx.esrs[i].addr = e}
        BY <2>1 DEF Unwritten, Late
    <2>3. \A use \in {"listening", "aesCount"} :
              /\ \A i, j \in Held(e, use) : i = j
              /\ Held(e, use) # {} => ipx.use[e] = use /\ In(ipx.list, e)
        BY <1>1 DEF Held, Listed, In, InAt
    <2>4. /\ \A i, j \in Unwritten(e) : i = j
          /\ Unwritten(e) # {} => ipx.use[e] = "listening" /\ ~In(ipx.list, e)
        BY <1>1, <2>2 DEF Writing
    <2>5. \A use \in {"listening", "aesCount"} :
              In(ipx.list, e) /\ ipx.use[e] = use => Held(e, use) # {}
        BY <1>1 DEF Held, Listed, In, InAt
    <2>6. /\ ipx.use[e] = "listening" => In(ipx.list, e) \/ Unwritten(e) # {}
          /\ ipx.use[e] = "aesCount" => In(ipx.list, e)
        BY <1>1, <2>2 DEF Covered
    <2>7. /\ Cardinality(Held(e, "listening")) = IF Held(e, "listening") = {} THEN 0 ELSE 1
          /\ Cardinality(Held(e, "aesCount")) = IF Held(e, "aesCount") = {} THEN 0 ELSE 1
          /\ Cardinality(Unwritten(e)) = IF Unwritten(e) = {} THEN 0 ELSE 1
        BY <2>3, <2>4, AtMostOne
    <2>8. Held(e, "aesCount") # {} <=> ipx.use[e] = "aesCount"
        BY <2>3, <2>5, <2>6
    <2>9. ipx.use[e] = "listening" =>
              (Held(e, "listening") # {} <=> Unwritten(e) = {})
        BY <2>3, <2>4, <2>5, <2>6
    <2>10. ipx.use[e] # "listening" => Held(e, "listening") = {} /\ Unwritten(e) = {}
        BY <2>3, <2>4
    <2>11. ipx.events[e] = IF ipx.use[e] = "aesCount" THEN 1 ELSE 0
        BY <1>1 DEF Timed
    <2>12. Cardinality(Held(e, "listening")) + Cardinality(Unwritten(e)) =
               IF ipx.use[e] = "listening" THEN 1 ELSE 0
        BY <2>7, <2>9, <2>10
    <2> QED
        BY <2>7, <2>8, <2>11, <2>12
<1> QED
    BY <1>1, <1>2 DEF EcbsAccounted, Settled

LEMMA TableStep ==
    ASSUME Apart, HalfFull, Enough, EcbInv(ipx), Table(ipx), Listening(ipx), [Next]_ipx
    PROVE  EcbInv(ipx') /\ Table(ipx') /\ Listening(ipx')
    BY EcbStep, NarrowsTable, OpenedTable, ClosedTable

LEMMA InitTable == Init => Table(ipx) /\ Listening(ipx)
<1> SUFFICES ASSUME Init PROVE Table(ipx) /\ Listening(ipx)
    OBVIOUS
<1>1. /\ ipx.opensockets = [i \in 0 .. TableSize - 1 |-> 0] /\ ipx.socketCount = 0
      /\ ipx.opened = {} /\ ipx.list = <<>>
    BY DEF Init
<1>2. 0 .. 0 - 1 = {} /\ 0 \in 0 .. MaxOpen
    BY SocketsAssumption
<1> QED
    BY <1>1, <1>2, FS_EmptySet DEF Table, Listening, Distinct, InUse

\* For any programs and ECBs, as long as no ECB is submitted to wait with the number
\* of a socket that can be open: the in-use flags say what the driver holds, each
\* ECB that listens is in one list and once, and each that waits has one timer event.
THEOREM EcbsKept ==
    ASSUME Apart
    PROVE  Spec => []EcbsAccounted
<1>1. EcbInv(ipx) /\ [Next]_ipx => EcbInv(ipx)'
    BY EcbsStep
<1>2. EcbInv(ipx) => EcbsAccounted
    BY EcbsCounted
<1> QED
    BY <1>1, <1>2, InitEcbs, PTL DEF Spec

\* For any sockets, as long as the table is at most half full, where the copy that
\* closes the gap moves too few bytes: the table has the open sockets, each once, and
\* no ECB listens on one that was closed.
THEOREM SocketsKept ==
    ASSUME Apart, HalfFull, Enough
    PROVE  Spec => []SocketsOpen
<1> DEFINE Inv == EcbInv(ipx) /\ Table(ipx) /\ Listening(ipx)
<1>1. Init => Inv
    BY InitEcbs, InitTable
<1>2. Inv /\ [Next]_ipx => Inv'
    BY TableStep
<1>3. Inv => SocketsOpen
    BY DEF Table, Listening, SocketsOpen
<1> QED
    BY <1>1, <1>2, <1>3, PTL DEF Spec
=============================================================================
