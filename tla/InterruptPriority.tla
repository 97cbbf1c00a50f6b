------------------------- MODULE InterruptPriority -------------------------
(***************************************************************************)
(* What the pair of 8259s of src/hardware/pic.cpp promises in its normal,  *)
(* fully nested mode, without the caches it keeps: devices hold requests,  *)
(* the guest masks lines and ends interrupts, and when the CPU accepts an  *)
(* interrupt it takes the deliverable request of the highest priority.     *)
(* The lines of the slave stand at the level of the line it is wired to.   *)
(***************************************************************************)
EXTENDS Naturals

CONSTANTS NL, Wired

Master  == "master"
Slave   == "slave"
Cascade == 2
Lines   == 0 .. NL - 1

VARIABLES
    request, mask, service,  \* for each controller, a set of lines
    accepts                  \* the CPU can take an interrupt

vars == <<request, mask, service, accepts>>

Free(c, i) == i \notin mask[c] /\ \A j \in service[c] : i < j

Deliverable(c, i) ==
    /\ i \in request[c]
    /\ Free(c, i)
    /\ c = Slave => Free(Master, Cascade)

Level(c, i) == IF c = Master THEN i ELSE Cascade

Top(c, i) ==
    /\ Deliverable(c, i)
    /\ \A w \in Wired : Deliverable(w[1], w[2]) =>
           \/ Level(c, i) < Level(w[1], w[2])
           \/ c = w[1] /\ i <= w[2]

Request(c, i) ==
    /\ request' = [request EXCEPT ![c] = @ \cup {i}]
    /\ UNCHANGED <<mask, service, accepts>>

Withdraw(c, i) ==
    /\ request' = [request EXCEPT ![c] = @ \ {i}]
    /\ UNCHANGED <<mask, service, accepts>>

SetMask(c, m) ==
    /\ mask' = [mask EXCEPT ![c] = m]
    /\ UNCHANGED <<request, service, accepts>>

End(c, i) ==
    /\ service' = [service EXCEPT ![c] = @ \ {i}]
    /\ UNCHANGED <<request, mask, accepts>>

SetAccepts(b) == accepts' = b /\ UNCHANGED <<request, mask, service>>

Take(c, i) ==
    /\ accepts /\ Top(c, i)
    /\ request' = [request EXCEPT ![c] = @ \ {i}]
    /\ service' = [d \in {Master, Slave} |->
                      IF d = c THEN service[c] \cup {i}
                      ELSE IF d = Master THEN service[d] \cup {Cascade}
                      ELSE service[d]]
    /\ accepts' = FALSE
    /\ UNCHANGED mask

Init ==
    /\ request = [c \in {Master, Slave} |-> {}]
    /\ service = [c \in {Master, Slave} |-> {}]
    /\ mask \in [{Master, Slave} -> SUBSET Lines]
    /\ accepts \in BOOLEAN

TakeSome == \E w \in Wired : Take(w[1], w[2])

Next ==
    \/ \E w \in Wired : Request(w[1], w[2]) \/ Withdraw(w[1], w[2])
    \/ \E c \in {Master, Slave} : \E m \in SUBSET Lines : SetMask(c, m)
    \/ \E c \in {Master, Slave}, i \in Lines : End(c, i)
    \/ \E b \in BOOLEAN : SetAccepts(b)
    \/ TakeSome

\* What may happen, and that the CPU takes what stays deliverable
Safety == Init /\ [][Next]_vars
Spec == Safety /\ WF_vars(TakeSome)
=============================================================================
