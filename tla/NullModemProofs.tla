-------------------------- MODULE NullModemProofs --------------------------
(***************************************************************************)
(* Proofs about NullModem, for a FIFO of any size, any number of polls     *)
(* until a guest counts as unresponsive, and a guest that writes anything  *)
(* to the registers.                                                       *)
(*                                                                         *)
(* Every operation of the UART touches few fields, causes and events: Does *)
(* says which, and leaves the interrupt request what the causes say. The   *)
(* invariant ModemInv is made of parts that look at few fields each, so    *)
(* that most operations keep most parts because they do not touch them:    *)
(* Good, the receiver with what it announced, Sender, the transmitter with *)
(* its one event, and Link, the connection with the events that keep it    *)
(* running.                                                                *)
(*                                                                         *)
(* Link is about a port on which no connection ends behind overdue bytes,  *)
(* DrainClose = FALSE: where one may, the code goes on to receive from a   *)
(* socket that it has deleted. The other parts do not depend on it.        *)
(***************************************************************************)
EXTENDS NullModem, FiniteSetTheorems, FunctionTheorems, SequenceTheorems, TLAPS

---------------------------------------------------------------------------
(* What the operations leave alone *)

Fields == {"rx", "err", "errors", "stale", "again", "own", "trigger", "fifo", "tx", "sync", "txEmpty", "lsr", "ier",
           "waiting", "irq", "line", "mcr", "in", "delta", "ev",
           "client", "server", "rxState", "retry", "fault"}
Causes == {"rx", "tx", "timeout", "error", "msr"}

Shape(u) == DOMAIN u = Fields /\ DOMAIN u.ev = Events

\* The interrupt line is as ComputeInterrupts leaves it
Ints(u) ==
    /\ u.irq \in BOOLEAN /\ u.line \in BOOLEAN
    /\ u.irq = TRUE <=> u.ier \cap u.waiting # {}
    /\ "op2" \in u.mcr /\ u.line = TRUE => u.irq = TRUE

\* From u to a only the fields F, the events E and the causes P change, besides
\* the interrupt request, which stays what the causes say.
Does(F, E, P, a, u) ==
    /\ Shape(a) /\ Shape(u)
    /\ \A f \in Fields \ (F \cup {"ev", "waiting", "irq", "line"}) : a[f] = u[f]
    /\ \A e \in Events \ E : a.ev[e] = u.ev[e]
    /\ \A p \in Causes \ P : p \in a.waiting <=> p \in u.waiting
    /\ Ints(u) => Ints(a)

LEMMA DoesNothing ==
    ASSUME NEW u, Shape(u)
    PROVE  Does({}, {}, {}, u, u)
    BY DEF Does

LEMMA DoesBoth ==
    ASSUME NEW F, NEW G, NEW D, NEW E, NEW P, NEW Q, NEW a, NEW b, NEW c,
           Does(F, D, P, a, b), Does(G, E, Q, b, c)
    PROVE  Does(F \cup G, D \cup E, P \cup Q, a, c)
    BY DEF Does

LEMMA DoesMore ==
    ASSUME NEW F, NEW G, NEW D, NEW E, NEW P, NEW Q, NEW a, NEW b,
           Does(F, D, P, a, b), F \subseteq G, D \subseteq E, P \subseteq Q
    PROVE  Does(G, E, Q, a, b)
    BY DEF Does

\* ComputeInterrupts, after the causes have become w and the mask i
Computes(a, u, w, i) == a = ComputeInterrupts([u EXCEPT !.waiting = w, !.ier = i])

LEMMA Computed ==
    ASSUME NEW u, Shape(u), NEW w, NEW i, NEW a, Computes(a, u, w, i)
    PROVE  /\ Shape(a) /\ a.waiting = w /\ a.ier = i
           /\ \A f \in Fields \ {"waiting", "ier", "irq", "line"} : a[f] = u[f]
           /\ Ints(u) => Ints(a)
<1> DEFINE b == [u EXCEPT !.waiting = w, !.ier = i]
<1>0. a = ComputeInterrupts(b)
    BY DEF Computes
<1>1. /\ Shape(b) /\ b.waiting = w /\ b.ier = i
      /\ \A f \in Fields \ {"waiting", "ier"} : b[f] = u[f]
    BY DEF Shape, Fields
<1> HIDE DEF b
<1>2. /\ Shape(a) /\ a.waiting = w /\ a.ier = i
      /\ \A f \in Fields \ {"waiting", "ier", "irq", "line"} : a[f] = u[f]
    BY <1>0, <1>1 DEF ComputeInterrupts, Shape, Fields
<1>3. CASE i \cap w = {}
    <2>1. a.irq = FALSE
        BY <1>0, <1>1, <1>3 DEF ComputeInterrupts, Shape, Fields
    <2>2. Ints(u) /\ "op2" \in u.mcr => a.line = FALSE
        <3>1. CASE b.irq = TRUE
            BY <1>0, <1>1, <1>3, <3>1 DEF ComputeInterrupts, Shape, Fields
        <3>2. CASE b.irq = FALSE /\ b.line = FALSE
            BY <1>0, <1>1, <1>3, <3>2 DEF ComputeInterrupts, Shape, Fields
        <3>3. b.irq = u.irq /\ b.line = u.line
            BY <1>1 DEF Fields
        <3> QED
            BY <3>1, <3>2, <3>3 DEF Ints
    <2>3. Ints(u) => a.line \in BOOLEAN
        BY <1>0, <1>1, <1>3 DEF ComputeInterrupts, Shape, Fields, Ints
    <2>4. a.mcr = u.mcr
        BY <1>2 DEF Fields
    <2> QED
        BY <1>2, <1>3, <2>1, <2>2, <2>3, <2>4 DEF Ints
<1>4. CASE i \cap w # {}
    <2>1. a.irq = TRUE
        BY <1>0, <1>1, <1>4 DEF ComputeInterrupts, Shape, Fields
    <2>2. Ints(u) => a.line \in BOOLEAN
        BY <1>0, <1>1, <1>4 DEF ComputeInterrupts, Shape, Fields, Ints
    <2> QED
        BY <1>2, <1>4, <2>1, <2>2 DEF Ints
<1> QED
    BY <1>2, <1>3, <1>4

\* The primitives
LEMMA EventSet ==
    ASSUME NEW u, Shape(u), NEW e \in Events
    PROVE  /\ Does({}, {e}, {}, SetEvent(u, e), u)
           /\ u.ev[e] = 0 => SetEvent(u, e).ev[e] = 1
    BY DEF SetEvent, Does, Shape, Fields, Ints

LEMMA EventRemoved ==
    ASSUME NEW u, Shape(u), NEW e \in Events
    PROVE  /\ Does({}, {e}, {}, RemoveEvent(u, e), u)
           /\ RemoveEvent(u, e).ev[e] = 0
    BY DEF RemoveEvent, Does, Shape, Fields, Ints

LEMMA EventTaken ==
    ASSUME NEW u, Shape(u), NEW e \in Events
    PROVE  /\ Does({}, {e}, {}, Taken(u, e), u)
           /\ u.ev[e] = 1 => Taken(u, e).ev[e] = 0
    BY DEF Taken, Does, Shape, Fields, Ints

LEMMA Risen ==
    ASSUME NEW u, Shape(u), NEW p \in Causes
    PROVE  /\ Does({}, {}, {p}, Rise(u, p), u)
           /\ p \in Rise(u, p).waiting
<1> DEFINE a == Rise(u, p)
<1>1. Computes(a, u, u.waiting \cup {p}, u.ier)
    BY DEF Computes, Rise, Shape, Fields
<1> HIDE DEF a
<1>2. /\ Shape(a) /\ a.waiting = u.waiting \cup {p}
      /\ \A f \in Fields \ {"waiting", "ier", "irq", "line"} : a[f] = u[f]
      /\ a.ier = u.ier
      /\ Ints(u) => Ints(a)
    BY <1>1, Computed
<1>3. a.ev = u.ev
    BY <1>2 DEF Fields
<1>4. /\ Does({}, {}, {p}, a, u)
      /\ p \in a.waiting
    BY <1>2, <1>3 DEF Does
<1> QED
    BY <1>4 DEF a

LEMMA Cleared ==
    ASSUME NEW u, Shape(u), NEW p \in Causes
    PROVE  /\ Does({}, {}, {p}, Clear(u, p), u)
           /\ p \notin Clear(u, p).waiting
<1> DEFINE a == Clear(u, p)
<1>1. Computes(a, u, u.waiting \ {p}, u.ier)
    BY DEF Computes, Clear, Shape, Fields
<1> HIDE DEF a
<1>2. /\ Shape(a) /\ a.waiting = u.waiting \ {p}
      /\ \A f \in Fields \ {"waiting", "ier", "irq", "line"} : a[f] = u[f]
      /\ a.ier = u.ier
      /\ Ints(u) => Ints(a)
    BY <1>1, Computed
<1>3. a.ev = u.ev
    BY <1>2 DEF Fields
<1>4. /\ Does({}, {}, {p}, a, u)
      /\ p \notin a.waiting
    BY <1>2, <1>3 DEF Does
<1> QED
    BY <1>4 DEF a

---------------------------------------------------------------------------
(* The marks in the error FIFO *)

Marks(s) == {i \in DOMAIN s : s[i] = TRUE}

LEMMA MarksCounted ==
    ASSUME NEW s \in Seq(BOOLEAN)
    PROVE  /\ IsFiniteSet(Marks(s)) /\ Cardinality(Marks(s)) \in 0 .. Len(s)
           /\ s = <<>> => Cardinality(Marks(s)) = 0
<1>0. Len(s) \in Nat /\ DOMAIN s = 1 .. Len(s)
    BY LenProperties
<1>1. IsFiniteSet(1 .. Len(s)) /\ Marks(s) \in SUBSET (1 .. Len(s))
    BY <1>0, FS_Interval DEF Marks
<1>2. IsFiniteSet(Marks(s)) /\ Cardinality(Marks(s)) <= Cardinality(1 .. Len(s))
    BY <1>1, FS_Subset
<1>3. s = <<>> => Marks(s) = {}
    BY <1>1, EmptySeq
<1>4. Cardinality(1 .. Len(s)) = Len(s)
    BY <1>0, FS_Interval
<1>5. Cardinality(Marks(s)) \in Nat
    BY <1>2, FS_CardinalityType
<1> QED
    BY <1>0, <1>2, <1>3, <1>4, <1>5, FS_EmptySet

LEMMA MarksAdded ==
    ASSUME NEW s \in Seq(BOOLEAN), NEW x \in BOOLEAN
    PROVE  Cardinality(Marks(Append(s, x))) = Cardinality(Marks(s)) + (IF x = TRUE THEN 1 ELSE 0)
<1> DEFINE t == Append(s, x)
           n == Len(s) + 1
<1>1. /\ t \in Seq(BOOLEAN) /\ Len(s) \in Nat /\ Len(t) = n /\ t[n] = x
      /\ \A i \in 1 .. Len(s) : t[i] = s[i]
      /\ DOMAIN s = 1 .. Len(s) /\ DOMAIN t = 1 .. n
    BY AppendProperties, LenProperties
<1> HIDE DEF t
<1>2. n \notin Marks(s)
    BY <1>1 DEF Marks
<1>3. CASE x = TRUE
    <2>0. t[n] = TRUE
        BY <1>1, <1>3
    <2>1. Marks(t) = Marks(s) \cup {n}
        <3>1. \A i \in 1 .. n : i = n \/ i \in 1 .. Len(s)
            BY <1>1
        <3>2. \A i \in 1 .. Len(s) : i \in 1 .. n
            BY <1>1
        <3>3. n \in 1 .. n
            BY <1>1
        <3> HIDE DEF n
        <3> QED
            BY <1>1, <2>0, <3>1, <3>2, <3>3 DEF Marks
    <2>2. Cardinality(Marks(s) \cup {n}) = Cardinality(Marks(s)) + 1
        BY <1>2, MarksCounted, FS_AddElement
    <2> QED
        BY <2>1, <2>2, <1>3 DEF t
<1>4. CASE x = FALSE
    <2>1. Marks(t) = Marks(s)
        BY <1>1, <1>4 DEF Marks
    <2> QED
        BY <2>1, <1>4, MarksCounted DEF t
<1> QED
    BY <1>3, <1>4

LEMMA MarksTaken ==
    ASSUME NEW s \in Seq(BOOLEAN), s # <<>>, NEW t, t = Tail(s)
    PROVE  /\ Head(s) = TRUE => Cardinality(Marks(t)) = Cardinality(Marks(s)) - 1
           /\ Head(s) # TRUE => Cardinality(Marks(t)) = Cardinality(Marks(s))
<1> DEFINE M == Marks(s) \ {1}
           f == [i \in M |-> i - 1]
<1>1. /\ t \in Seq(BOOLEAN) /\ Len(s) \in Nat \ {0} /\ Len(t) = Len(s) - 1
      /\ \A i \in 1 .. Len(t) : t[i] = s[i + 1]
      /\ DOMAIN s = 1 .. Len(s) /\ DOMAIN t = 1 .. Len(t)
      /\ Head(s) = s[1]
    BY HeadTailProperties, LenProperties, EmptySeq
<1>2. \A i \in M : i \in Nat /\ i > 1 /\ i - 1 \in Marks(t)
    BY <1>1 DEF Marks
<1>3. \A j \in Marks(t) : j \in Nat /\ j + 1 \in M
    BY <1>1 DEF Marks
<1>4. f \in Bijection(M, Marks(t))
    <2>1. f \in [M -> Marks(t)]
        BY <1>2
    <2>2. \A a, b \in M : f[a] = f[b] => a = b
        BY <1>2
    <2>3. \A j \in Marks(t) : f[j + 1] = j
        BY <1>3
    <2>4. \A j \in Marks(t) : \E i \in M : f[i] = j
        BY <1>3, <2>3
    <2> HIDE DEF f, M
    <2> QED
        BY <2>1, <2>2, <2>4, Fun_IsBij
<1> HIDE DEF f
<1>5. IsFiniteSet(M)
    BY MarksCounted, FS_RemoveElement
<1> HIDE DEF M
<1>6. Cardinality(Marks(t)) = Cardinality(M)
    BY <1>4, <1>5, FS_Bijection DEF ExistsBijection
<1>7. 1 \in Marks(s) <=> Head(s) = TRUE
    <2>1. 1 \in DOMAIN s
        BY <1>1
    <2> QED
        BY <1>1, <2>1 DEF Marks
<1>8. Cardinality(M) = IF 1 \in Marks(s) THEN Cardinality(Marks(s)) - 1 ELSE Cardinality(Marks(s))
    BY MarksCounted, FS_RemoveElement DEF M
<1>9. Cardinality(Marks(s)) \in Nat
    BY MarksCounted
<1> HIDE DEF M
<1> QED
    BY <1>6, <1>7, <1>8, <1>9

Replaced(t, s, n, x) == t = [s EXCEPT ![n] = x]

LEMMA MarkReplaced ==
    ASSUME NEW s \in Seq(BOOLEAN), NEW n \in 1 .. Len(s), NEW x \in BOOLEAN,
           NEW t, Replaced(t, s, n, x)
    PROVE  /\ t \in Seq(BOOLEAN) /\ Len(t) = Len(s)
           /\ \A i \in 1 .. Len(s) : t[i] = IF i = n THEN x ELSE s[i]
    BY ExceptSeq DEF Replaced

\* A mark is set in place of another
LEMMA MarksSet ==
    ASSUME NEW s \in Seq(BOOLEAN), NEW n \in 1 .. Len(s), NEW x \in BOOLEAN,
           NEW t, Replaced(t, s, n, x)
    PROVE  /\ t \in Seq(BOOLEAN) /\ Len(t) = Len(s)
           /\ x = TRUE =>
                /\ s[n] = TRUE => Cardinality(Marks(t)) = Cardinality(Marks(s))
                /\ s[n] # TRUE => Cardinality(Marks(t)) = Cardinality(Marks(s)) + 1
<1>1. /\ t \in Seq(BOOLEAN) /\ Len(t) = Len(s)
      /\ \A i \in 1 .. Len(s) : t[i] = IF i = n THEN x ELSE s[i]
    BY MarkReplaced
<1>2. /\ DOMAIN s = 1 .. Len(s) /\ DOMAIN t = 1 .. Len(s)
    BY <1>1, LenProperties
<1>3. ASSUME x = TRUE PROVE Marks(t) = Marks(s) \cup {n}
    <2>1. t[n] = TRUE /\ \A i \in 1 .. Len(s) : i # n => t[i] = s[i]
        BY <1>1, <1>3
    <2> QED
        BY <1>2, <2>1 DEF Marks
<1>4. n \in Marks(s) <=> s[n] = TRUE
    BY <1>2 DEF Marks
<1>5. Cardinality(Marks(s) \cup {n}) = IF n \in Marks(s) THEN Cardinality(Marks(s)) ELSE Cardinality(Marks(s)) + 1
    BY MarksCounted, FS_AddElement
<1> QED
    BY <1>1, <1>3, <1>4, <1>5

---------------------------------------------------------------------------
(* The receiver *)

LEMMA UpAndDown ==
    ASSUME NEW n \in 0 .. Word - 1
    PROVE  /\ Up(n) \in 0 .. Word - 1 /\ Down(n) \in 0 .. Word - 1
           /\ n + 1 < Word => Up(n) = n + 1
           /\ n > 0 => Down(n) = n - 1
    BY FifoAssumption DEF Up, Down

Receiver(u) ==
    /\ u.fifo \in BOOLEAN /\ u.trigger \in 1 .. FifoSize /\ u.rx \in 0 .. Size(u)
    /\ u.err \in Seq(BOOLEAN) /\ u.errors \in 0 .. Word - 1
    /\ u.stale \in BOOLEAN /\ u.again \in BOOLEAN
    /\ u.again = FALSE => u.errors = Cardinality(Marks(u.err))
    /\ u.fifo = TRUE => Len(u.err) = u.rx
    /\ u.fifo = FALSE => u.errors = 0

\* What LSR and MSR have to say waits as a cause
Told(u) ==
    /\ Ints(u)
    /\ u.lsr \in BOOLEAN
    /\ u.lsr = TRUE <=> "error" \in u.waiting
    /\ u.delta \subseteq u.own \/ "msr" \in u.waiting

News(u) ==
    /\ u.ev["rx timeout"] \in {0, 1}
    /\ u.rx > 0 => "rx" \in u.waiting \/ "timeout" \in u.waiting \/ u.ev["rx timeout"] = 1

\* From u to a nothing changes but what the receiver and the modem lines may
Listens(a, u) ==
    Does({"rx", "err", "errors", "stale", "again", "lsr", "in", "delta"}, {"rx timeout"},
         {"rx", "timeout", "error", "msr"}, a, u)

LEMMA ListensBoth ==
    ASSUME NEW a, NEW b, NEW c, Listens(a, b), Listens(b, c)
    PROVE  Listens(a, c)
    BY DEF Listens, Does

LEMMA Sized ==
    ASSUME NEW u, u.fifo \in BOOLEAN
    PROVE  /\ Size(u) \in Nat \ {0}
           /\ u.fifo = TRUE => Size(u) = FifoSize
           /\ u.fifo = FALSE => Size(u) = 1
    BY FifoAssumption DEF Size

LEMMA StoredWell ==
    ASSUME NEW u, Shape(u), Receiver(u), NEW a, a = Stored(u)
    PROVE  /\ Does({"rx"}, {"rx timeout"}, {"rx"}, a, u)
           /\ a.rx = IF u.rx < Size(u) THEN u.rx + 1 ELSE u.rx
           /\ News(a)
<1> DEFINE r == RemoveEvent(u, "rx timeout")
           b == [r EXCEPT !.rx = IF CanReceiveByte(u) THEN @ + 1 ELSE @]
<1>1. Does({}, {"rx timeout"}, {}, r, u) /\ r.ev["rx timeout"] = 0
    BY EventRemoved DEF Events
<1> HIDE DEF r
<1>2. /\ Shape(b) /\ Does({"rx"}, {"rx timeout"}, {}, b, u) /\ b.ev["rx timeout"] = 0
      /\ b.rx = IF u.rx < Size(u) THEN u.rx + 1 ELSE u.rx
    BY <1>1 DEF Does, Shape, Fields, Ints, CanReceiveByte
<1>3. CASE b.rx = b.trigger
    <2>1. a = Rise(b, "rx")
        BY <1>3 DEF Stored, r
    <2> HIDE DEF b
    <2>2. /\ Does({}, {}, {"rx"}, a, b)
          /\ "rx" \in a.waiting
        BY <1>2, <2>1, Risen DEF Causes
    <2>3. Does({"rx"}, {"rx timeout"}, {"rx"}, a, u)
        BY <1>2, <2>2 DEF Does
    <2>4. a.rx = b.rx /\ a.ev["rx timeout"] = b.ev["rx timeout"]
        BY <2>2 DEF Does, Fields, Events
    <2> QED
        BY <1>2, <2>2, <2>3, <2>4 DEF News
<1>4. CASE b.rx # b.trigger
    <2>1. a = SetEvent(b, "rx timeout")
        BY <1>4 DEF Stored, r
    <2> HIDE DEF b
    <2>2. /\ Does({}, {"rx timeout"}, {}, a, b)
          /\ a.ev["rx timeout"] = 1
        BY <1>2, <2>1, EventSet DEF Events
    <2>3. Does({"rx"}, {"rx timeout"}, {"rx"}, a, u)
        BY <1>2, <2>2 DEF Does
    <2>4. a.rx = b.rx
        BY <2>2 DEF Does, Fields
    <2> QED
        BY <1>2, <2>2, <2>3, <2>4 DEF News
<1> QED
    BY <1>3, <1>4

\* errors_in_fifo is what the marks are, unless one was taken a second time
Counted(u) ==
    /\ u.errors \in 0 .. Word - 1 /\ u.stale \in BOOLEAN /\ u.again \in BOOLEAN
    /\ u.again = FALSE => u.errors = Cardinality(Marks(u.err))

\* A mark joins the error FIFO, or the last one there when it is full
LEMMA MarkedWell ==
    ASSUME NEW u, Shape(u), u.fifo = TRUE, u.err \in Seq(BOOLEAN), Counted(u),
           NEW bad \in BOOLEAN,
           Len(u.err) < Size(u) \/ (Len(u.err) = Size(u) /\ bad = TRUE),
           NEW a, a = Marked(u, bad)
    PROVE  /\ Does({"err", "errors", "stale"}, {}, {}, a, u)
           /\ a.err \in Seq(BOOLEAN) /\ Counted(a)
           /\ Len(a.err) = IF Len(u.err) < Size(u) THEN Len(u.err) + 1 ELSE Len(u.err)
<1> DEFINE s == u.err
           n == Len(s)
<1>1. /\ n \in Nat /\ Size(u) = FifoSize /\ FifoSize \in Nat \ {0}
      /\ Word \in Nat /\ FifoSize < Word /\ Cardinality(Marks(s)) \in 0 .. n
    <2>1. n \in Nat
        BY LenProperties
    <2> QED
        BY <2>1, MarksCounted, FifoAssumption DEF Size
<1>2. Does({"err", "errors", "stale"}, {}, {}, a, u) /\ a.again = u.again
    BY DEF Marked, Does, Shape, Fields, Ints
<1>3. CASE Len(u.err) < Size(u)
    <2>1. /\ a.err = Append(s, bad) /\ a.errors = IF bad THEN Up(u.errors) ELSE u.errors
          /\ a.stale = FALSE
        BY <1>3 DEF Marked, Shape, Fields
    <2>2. /\ Append(s, bad) \in Seq(BOOLEAN) /\ Len(Append(s, bad)) = n + 1
          /\ Cardinality(Marks(Append(s, bad))) = Cardinality(Marks(s)) + (IF bad = TRUE THEN 1 ELSE 0)
        BY AppendProperties, MarksAdded, ZenonT(60)
    <2>3. CASE bad = TRUE
        <3>1. a.errors \in 0 .. Word - 1
            BY <2>1, <2>3, UpAndDown DEF Counted
        <3>2. ASSUME a.again = FALSE PROVE a.errors = Cardinality(Marks(a.err))
            <4>1. u.errors = Cardinality(Marks(s)) /\ u.errors + 1 < Word
                BY <1>1, <1>2, <1>3, <3>2 DEF Counted
            <4>2. a.errors = u.errors + 1
                BY <2>1, <2>3, <4>1, UpAndDown DEF Counted
            <4> QED
                BY <1>1, <2>1, <2>2, <2>3, <4>1, <4>2
        <3> QED
            BY <1>1, <1>2, <1>3, <2>1, <2>2, <3>1, <3>2 DEF Counted
    <2>4. CASE bad = FALSE
        <3>1. a.errors = u.errors
            BY <2>1, <2>4
        <3>2. Cardinality(Marks(a.err)) = Cardinality(Marks(s))
            BY <1>1, <2>1, <2>2, <2>4
        <3>3. Counted(a)
            BY <1>2, <2>1, <3>1, <3>2 DEF Counted
        <3> QED
            BY <1>2, <1>3, <2>1, <2>2, <3>3
    <2> QED
        BY <2>3, <2>4
<1>4. CASE Len(u.err) = Size(u) /\ bad = TRUE
    <2>1. n \in 1 .. Len(s) /\ ~(Len(u.err) < Size(u))
        BY <1>1, <1>4
    <2>2. /\ Replaced(a.err, s, n, bad)
          /\ a.errors = IF bad /\ ~s[n] THEN Up(u.errors) ELSE u.errors
          /\ a.stale = u.stale
        BY <2>1 DEF Marked, Shape, Fields, Replaced
    <2>3. /\ a.err \in Seq(BOOLEAN) /\ Len(a.err) = n
          /\ bad = TRUE =>
                /\ s[n] = TRUE => Cardinality(Marks(a.err)) = Cardinality(Marks(s))
                /\ s[n] # TRUE => Cardinality(Marks(a.err)) = Cardinality(Marks(s)) + 1
        <3>1. s \in Seq(BOOLEAN) /\ n = Len(s)
            OBVIOUS
        <3> HIDE DEF n, s
        <3> QED
            BY <2>1, <2>2, <3>1, MarksSet
    <2>4. s[n] \in BOOLEAN
        BY <2>1, LenProperties
    <2>5. CASE s[n] = TRUE
        BY <1>1, <1>2, <1>4, <2>1, <2>2, <2>3, <2>5 DEF Counted
    <2>6. CASE s[n] = FALSE
        <3>0. a.errors = Up(u.errors)
            BY <1>4, <2>2, <2>6
        <3>1. a.errors \in 0 .. Word - 1
            BY <3>0, UpAndDown DEF Counted
        <3>2. ASSUME a.again = FALSE PROVE a.errors = Cardinality(Marks(a.err))
            <4>1. Cardinality(Marks(a.err)) \in 0 .. n
                BY <2>3, MarksCounted
            <4>2. u.errors = Cardinality(Marks(s)) /\ u.errors + 1 < Word
                <5>1. u.errors = Cardinality(Marks(s))
                    BY <1>2, <3>2 DEF Counted
                <5>2. Cardinality(Marks(a.err)) = Cardinality(Marks(s)) + 1
                    BY <1>4, <2>3, <2>6
                <5>3. n = FifoSize
                    BY <1>1, <1>4
                <5> HIDE DEF n, s
                <5> QED
                    BY <1>1, <4>1, <5>1, <5>2, <5>3
            <4>3. a.errors = u.errors + 1
                BY <3>0, <4>2, UpAndDown DEF Counted
            <4> QED
                BY <1>1, <1>4, <2>3, <2>6, <4>2, <4>3
        <3>3. Counted(a)
            BY <1>2, <2>2, <3>1, <3>2 DEF Counted
        <3> QED
            BY <1>2, <2>1, <2>3, <3>3
    <2> QED
        BY <2>4, <2>5, <2>6
<1> QED
    BY <1>3, <1>4

\* A mark leaves the error FIFO, or an empty one gives its last again
LEMMA MarkTaken ==
    ASSUME NEW u, Shape(u), u.err \in Seq(BOOLEAN), Counted(u), NEW a, a = TakeMark(u)
    PROVE  /\ Does({"err", "errors", "stale", "again"}, {}, {}, a, u)
           /\ a.err \in Seq(BOOLEAN) /\ Counted(a)
           /\ Len(a.err) = IF Len(u.err) = 0 THEN 0 ELSE Len(u.err) - 1
<1>0. Does({"err", "errors", "stale", "again"}, {}, {}, a, u)
    <2>1. CASE u.err = <<>>
        BY <2>1 DEF TakeMark, Does, Shape, Fields, Ints
    <2>2. CASE u.err # <<>>
        BY <2>2 DEF TakeMark, Does, Shape, Fields, Ints
    <2> QED
        BY <2>1, <2>2
<1>1. CASE u.err = <<>>
    <2>1. /\ a.err = <<>> /\ a.stale = u.stale
          /\ a.errors = IF u.stale THEN Down(u.errors) ELSE u.errors
          /\ a.again = (u.again \/ u.stale)
        BY <1>1 DEF TakeMark, Shape, Fields
    <2>2. CASE u.stale = TRUE
        <3>1. a.errors \in 0 .. Word - 1
            BY <2>1, <2>2, UpAndDown DEF Counted
        <3> QED
            BY <1>0, <1>1, <2>1, <2>2, <3>1, EmptySeq DEF Counted
    <2>3. CASE u.stale = FALSE
        BY <1>0, <1>1, <2>1, <2>3, EmptySeq DEF Counted
    <2> QED
        BY <2>2, <2>3 DEF Counted
<1>2. CASE u.err # <<>>
    <2>1. /\ a.err = Tail(u.err) /\ a.stale = (Len(u.err) = 1 /\ Head(u.err))
          /\ a.errors = IF Head(u.err) THEN Down(u.errors) ELSE u.errors
          /\ a.again = u.again
        BY <1>2 DEF TakeMark, Shape, Fields
    <2>2. /\ Tail(u.err) \in Seq(BOOLEAN) /\ Len(Tail(u.err)) = Len(u.err) - 1
          /\ Head(u.err) \in BOOLEAN /\ Len(u.err) \in Nat \ {0}
        BY <1>2, HeadTailProperties, LenProperties, EmptySeq
    <2>3. /\ Head(u.err) = TRUE => Cardinality(Marks(a.err)) = Cardinality(Marks(u.err)) - 1
          /\ Head(u.err) # TRUE => Cardinality(Marks(a.err)) = Cardinality(Marks(u.err))
        <3>1. \A t : t = Tail(u.err) =>
                 /\ Head(u.err) = TRUE => Cardinality(Marks(t)) = Cardinality(Marks(u.err)) - 1
                 /\ Head(u.err) # TRUE => Cardinality(Marks(t)) = Cardinality(Marks(u.err))
            BY <1>2, MarksTaken
        <3> QED
            BY <2>1, <3>1
    <2>4. CASE Head(u.err) = TRUE
        <3>0. a.errors = Down(u.errors)
            BY <2>1, <2>4
        <3>1. a.errors \in 0 .. Word - 1
            BY <3>0, UpAndDown DEF Counted
        <3>2. ASSUME a.again = FALSE PROVE a.errors = Cardinality(Marks(a.err))
            <4>1. Cardinality(Marks(a.err)) \in 0 .. Len(a.err) /\ Len(a.err) \in Nat
                BY <2>1, <2>2, MarksCounted, LenProperties
            <4>2. u.errors = Cardinality(Marks(u.err))
                BY <2>1, <3>2 DEF Counted
            <4>3. u.errors \in 0 .. Word - 1
                BY DEF Counted
            <4>4. Cardinality(Marks(a.err)) = u.errors - 1
                BY <2>3, <2>4, <4>2
            <4>5. u.errors > 0
                BY <4>1, <4>3, <4>4
            <4> QED
                BY <3>0, <4>3, <4>4, <4>5, UpAndDown
        <3>3. a.stale \in BOOLEAN
            BY <2>1, <2>4
        <3> QED
            BY <1>0, <2>1, <2>2, <3>1, <3>2, <3>3 DEF Counted
    <2>5. CASE Head(u.err) = FALSE
        <3>1. a.stale = FALSE /\ a.errors = u.errors
            BY <2>1, <2>5
        <3>2. Cardinality(Marks(a.err)) = Cardinality(Marks(u.err))
            BY <2>3, <2>5
        <3> QED
            BY <1>0, <2>1, <2>2, <3>1, <3>2 DEF Counted
    <2> QED
        BY <2>2, <2>4, <2>5
<1> QED
    BY <1>1, <1>2

LEMMA ErrorShown ==
    ASSUME NEW u, Shape(u), NEW a, a = ShowError(u)
    PROVE  /\ Does({"lsr"}, {}, {"error"}, a, u)
           /\ a.lsr = TRUE /\ "error" \in a.waiting
<1> DEFINE b == Rise(u, "error")
<1>1. Does({}, {}, {"error"}, b, u) /\ "error" \in b.waiting
    BY Risen DEF Causes
<1>2. a = [b EXCEPT !.lsr = TRUE]
    BY DEF ShowError
<1> HIDE DEF b
<1> QED
    BY <1>1, <1>2 DEF Does, Shape, Fields, Ints

LEMMA ToldOfErrors ==
    ASSUME NEW b, NEW u, NEW P, Does({"rx", "err", "errors", "stale", "again"}, {"rx timeout"}, {"rx", "timeout"}, b, u), Told(u)
    PROVE  /\ Told(b)
           /\ \A a : a = ShowError(b) => Told(a)
<1>1. /\ Shape(b) /\ Ints(b) /\ b.lsr = u.lsr /\ b.delta = u.delta /\ b.own = u.own
      /\ "error" \in b.waiting <=> "error" \in u.waiting
      /\ "msr" \in b.waiting <=> "msr" \in u.waiting
    BY DEF Does, Told, Fields, Causes
<1>2. Told(b)
    BY <1>1 DEF Told
<1>3. ASSUME NEW a, a = ShowError(b) PROVE Told(a)
    <2>1. Does({"lsr"}, {}, {"error"}, a, b) /\ a.lsr = TRUE /\ "error" \in a.waiting
        BY <1>1, <1>3, ErrorShown
    <2>2. /\ Ints(a) /\ a.delta = b.delta /\ a.own = b.own
          /\ "msr" \in a.waiting <=> "msr" \in b.waiting
        BY <1>1, <2>1 DEF Does, Fields, Causes
    <2> QED
        BY <1>2, <2>1, <2>2 DEF Told
<1> QED
    BY <1>2, <1>3

LEMMA ReceivedWell ==
    ASSUME NEW u, Shape(u), Receiver(u), Told(u), NEW error \in BOOLEAN,
           NEW r, r = ReceiveByteEx(u, error)
    PROVE  Listens(r, u) /\ Receiver(r) /\ Told(r) /\ News(r)
<1> DEFINE bad == error \/ ~CanReceiveByte(u)
           a == Stored(u)
           b == IF u.fifo THEN Marked(a, bad) ELSE a
<1>0. bad \in BOOLEAN /\ (u.rx < Size(u) \/ bad = TRUE)
    BY DEF CanReceiveByte
<1>1. r = IF bad /\ (u.fifo => Head(b.err)) THEN ShowError(b) ELSE b
    BY DEF ReceiveByteEx
<1> HIDE DEF bad
<1>2. /\ Does({"rx"}, {"rx timeout"}, {"rx"}, a, u)
      /\ a.rx = IF u.rx < Size(u) THEN u.rx + 1 ELSE u.rx
      /\ News(a)
    BY StoredWell
<1>3. /\ Shape(a) /\ a.fifo = u.fifo /\ a.err = u.err /\ a.errors = u.errors /\ a.stale = u.stale /\ a.again = u.again /\ a.trigger = u.trigger
      /\ Size(a) = Size(u)
    BY <1>2 DEF Does, Fields, Size
<1>4. Size(u) \in Nat \ {0} /\ u.rx \in 0 .. Size(u) /\ a.rx \in 0 .. Size(u)
    <2>1. Size(u) \in Nat \ {0}
        BY FifoAssumption DEF Size
    <2>2. u.rx \in 0 .. Size(u)
        BY DEF Receiver
    <2>3. \A n \in Nat : \A k \in 0 .. n : \A m : m = (IF k < n THEN k + 1 ELSE k) => m \in 0 .. n
        OBVIOUS
    <2>4. a.rx = IF u.rx < Size(u) THEN u.rx + 1 ELSE u.rx
        BY <1>2
    <2> HIDE DEF a
    <2> QED
        BY <2>1, <2>2, <2>3, <2>4
<1>5. /\ Does({"rx", "err", "errors", "stale", "again"}, {"rx timeout"}, {"rx", "timeout"}, b, u)
      /\ Receiver(b) /\ News(b)
    <2>1. CASE u.fifo = TRUE
        <3>1. /\ Len(a.err) < Size(a) \/ (Len(a.err) = Size(a) /\ bad = TRUE)
              /\ a.err \in Seq(BOOLEAN) /\ Counted(a) /\ a.fifo = TRUE
            BY <1>0, <1>3, <1>4, <2>1 DEF Receiver, Counted
        <3>2. b = Marked(a, bad)
            BY <2>1
        <3> HIDE DEF a, b
        <3>3. /\ Does({"err", "errors", "stale"}, {}, {}, b, a)
              /\ b.err \in Seq(BOOLEAN) /\ Counted(b)
              /\ Len(b.err) = IF Len(a.err) < Size(a) THEN Len(a.err) + 1 ELSE Len(a.err)
            BY <1>0, <1>3, <3>1, <3>2, MarkedWell
        <3>4. Does({"rx", "err", "errors", "stale", "again"}, {"rx timeout"}, {"rx", "timeout"}, b, u)
            BY <1>2, <3>3 DEF Does
        <3>5. /\ b.rx = a.rx /\ b.fifo = u.fifo /\ b.trigger = u.trigger /\ Size(b) = Size(u)
              /\ b.ev["rx timeout"] = a.ev["rx timeout"]
              /\ "rx" \in b.waiting <=> "rx" \in a.waiting
              /\ "timeout" \in b.waiting <=> "timeout" \in a.waiting
            BY <1>3, <3>3 DEF Does, Fields, Size, Events, Causes
        <3>6. News(b)
            BY <1>2, <3>5 DEF News
        <3>7. Len(b.err) = b.rx
            BY <1>2, <1>3, <3>3, <3>5, <2>1 DEF Receiver
        <3> QED
            BY <1>4, <2>1, <3>3, <3>4, <3>5, <3>6, <3>7 DEF Receiver, Counted
    <2>2. CASE u.fifo = FALSE
        <3>1. b = a
            BY <2>2
        <3> HIDE DEF a, b
        <3>2. Does({"rx", "err", "errors", "stale", "again"}, {"rx timeout"}, {"rx", "timeout"}, b, u)
            BY <1>2, <3>1 DEF Does
        <3> QED
            BY <1>2, <1>3, <1>4, <2>2, <3>1, <3>2 DEF Receiver
    <2> QED
        BY <2>1, <2>2 DEF Receiver
<1> HIDE DEF b
<1>6. Told(b) /\ \A x : x = ShowError(b) => Told(x)
    BY <1>5, ToldOfErrors
<1>7. CASE r = b
    BY <1>5, <1>6, <1>7 DEF Listens, Does
<1>8. CASE r = ShowError(b)
    <2>1. Shape(b)
        BY <1>5 DEF Does
    <2>2. Does({"lsr"}, {}, {"error"}, r, b)
        BY <1>8, <2>1, ErrorShown
    <2>3. Listens(r, u)
        BY <1>5, <2>2 DEF Listens, Does
    <2>4. /\ r.rx = b.rx /\ r.fifo = b.fifo /\ r.trigger = b.trigger /\ r.err = b.err
          /\ r.errors = b.errors /\ r.stale = b.stale /\ r.again = b.again /\ Size(r) = Size(b)
          /\ r.ev["rx timeout"] = b.ev["rx timeout"]
          /\ "rx" \in r.waiting <=> "rx" \in b.waiting
          /\ "timeout" \in r.waiting <=> "timeout" \in b.waiting
        BY <2>2 DEF Does, Fields, Size, Events, Causes
    <2>5. Receiver(r)
        BY <1>5, <2>4 DEF Receiver
    <2>6. News(r)
        BY <1>5, <2>4 DEF News
    <2> QED
        BY <1>6, <1>8, <2>3, <2>5, <2>6
<1> QED
    BY <1>1, <1>7, <1>8

LEMMA ReadWell ==
    ASSUME NEW u, Shape(u), Receiver(u), Told(u), NEW r, r = ReadRHR(u)
    PROVE  Listens(r, u) /\ Receiver(r) /\ Told(r) /\ News(r)
<1> DEFINE got   == [u EXCEPT !.rx = IF @ > 0 THEN @ - 1 ELSE 0]
           first == IF u.fifo THEN TakeMark(got) ELSE got
           shown == IF u.fifo /\ first.rx > 0 /\ Head(first.err) THEN ShowError(first) ELSE first
           told  == Clear(shown, "timeout")
           below == IF told.rx < told.trigger THEN Clear(told, "rx") ELSE told
           timed == RemoveEvent(below, "rx timeout")
<1>1. r = IF timed.rx > 0 THEN SetEvent(timed, "rx timeout") ELSE timed
    BY DEF ReadRHR
<1>2. /\ Does({"rx", "err", "errors", "stale", "again"}, {"rx timeout"}, {"rx", "timeout"}, first, u)
      /\ Receiver(first)
    <2>0. Size(u) \in Nat \ {0} /\ u.rx \in 0 .. Size(u)
        BY FifoAssumption DEF Size, Receiver
    <2>1. /\ Does({"rx"}, {}, {}, got, u)
          /\ got.rx = IF u.rx > 0 THEN u.rx - 1 ELSE 0
          /\ got.err = u.err /\ got.errors = u.errors /\ got.stale = u.stale
          /\ got.again = u.again /\ got.fifo = u.fifo /\ got.trigger = u.trigger
        BY DEF Does, Shape, Fields, Ints
    <2>2. got.rx \in 0 .. Size(u)
        BY <2>0, <2>1
    <2>3. CASE u.fifo = TRUE
        <3>1. first = TakeMark(got)
            BY <2>3
        <3> HIDE DEF got, first
        <3>2. Shape(got) /\ got.err \in Seq(BOOLEAN) /\ Counted(got)
            BY <2>1 DEF Receiver, Counted, Does
        <3>3. /\ Does({"err", "errors", "stale", "again"}, {}, {}, first, got)
              /\ first.err \in Seq(BOOLEAN) /\ Counted(first)
              /\ Len(first.err) = IF Len(got.err) = 0 THEN 0 ELSE Len(got.err) - 1
            BY <3>1, <3>2, MarkTaken
        <3>4. /\ Does({"rx", "err", "errors", "stale", "again"}, {"rx timeout"}, {"rx", "timeout"}, first, u)
              /\ first.rx = got.rx /\ first.fifo = TRUE /\ first.trigger = u.trigger
            BY <2>1, <2>3, <3>3 DEF Does, Fields
        <3>5. Len(u.err) = u.rx
            BY <2>3 DEF Receiver
        <3>6. Size(first) = Size(u)
            BY <2>3, <3>4 DEF Size
        <3>7. Len(first.err) = first.rx
            <4>1. Len(got.err) = u.rx /\ u.rx \in Nat
                BY <2>0, <2>1, <3>5
            <4>2. first.rx = IF u.rx > 0 THEN u.rx - 1 ELSE 0
                BY <2>1, <3>4
            <4>3. Len(first.err) = IF u.rx = 0 THEN 0 ELSE u.rx - 1
                BY <3>3, <4>1
            <4> QED
                BY <4>1, <4>2, <4>3
        <3>8. first.trigger \in 1 .. FifoSize
            BY <3>4 DEF Receiver
        <3> QED
            BY <2>2, <3>3, <3>4, <3>6, <3>7, <3>8 DEF Receiver, Counted
    <2>4. CASE u.fifo = FALSE
        <3>1. first = got
            BY <2>4
        <3> HIDE DEF got, first
        <3>2. Does({"rx", "err", "errors", "stale", "again"}, {"rx timeout"}, {"rx", "timeout"}, first, u)
            BY <2>1, <3>1 DEF Does
        <3>3. Size(first) = Size(u)
            BY <2>1, <3>1 DEF Size
        <3> QED
            BY <2>1, <2>2, <2>4, <3>1, <3>2, <3>3 DEF Receiver
    <2> QED
        BY <2>3, <2>4 DEF Receiver
<1> HIDE DEF first
<1>3. Told(first) /\ \A x : x = ShowError(first) => Told(x)
    BY <1>2, ToldOfErrors
<1>4. Does({"lsr"}, {}, {"error"}, shown, first) /\ Told(shown)
    <2>1. Shape(first)
        BY <1>2 DEF Does
    <2>2. CASE shown = first
        BY <1>3, <2>1, <2>2 DEF Does
    <2>3. CASE shown = ShowError(first)
        BY <1>3, <2>1, <2>3, ErrorShown
    <2> QED
        BY <2>2, <2>3
<1> HIDE DEF shown
<1>5. Does({}, {}, {"timeout"}, told, shown)
    <2>1. Shape(shown)
        BY <1>4 DEF Does
    <2> QED
        BY <2>1, Cleared DEF Causes
<1> HIDE DEF told
<1>6. Does({}, {}, {"rx"}, below, told)
    <2>1. Shape(told)
        BY <1>5 DEF Does
    <2>2. CASE below = told
        BY <2>1, <2>2 DEF Does
    <2>3. CASE below = Clear(told, "rx")
        BY <2>1, <2>3, Cleared DEF Causes
    <2> QED
        BY <2>2, <2>3
<1> HIDE DEF below
<1>7. /\ Shape(timed) /\ Does({}, {"rx timeout"}, {}, timed, below)
      /\ timed.ev["rx timeout"] = 0
    <2>1. Shape(below)
        BY <1>6 DEF Does
    <2>2. Does({}, {"rx timeout"}, {}, timed, below) /\ timed.ev["rx timeout"] = 0
        BY <2>1, EventRemoved DEF Events
    <2> QED
        BY <2>2 DEF Does
<1> HIDE DEF timed
<1>8. /\ Does({}, {"rx timeout"}, {}, r, timed)
      /\ timed.rx > 0 => r.ev["rx timeout"] = 1
      /\ ~(timed.rx > 0) => r.ev["rx timeout"] = 0
    <2>1. CASE timed.rx > 0
        <3>1. r = SetEvent(timed, "rx timeout")
            BY <1>1, <2>1
        <3> QED
            BY <1>7, <2>1, <3>1, EventSet DEF Events
    <2>2. CASE ~(timed.rx > 0)
        <3>1. r = timed
            BY <1>1, <2>2
        <3> QED
            BY <1>7, <2>2, <3>1 DEF Does
    <2> QED
        BY <2>1, <2>2
<1>9. /\ Does({"lsr"}, {"rx timeout"}, {"rx", "timeout", "error"}, r, first)
      /\ Does({}, {"rx timeout"}, {"rx", "timeout"}, r, shown)
    <2>1. Does({}, {}, {"rx", "timeout"}, below, shown)
        BY <1>5, <1>6 DEF Does
    <2>2. Does({}, {"rx timeout"}, {}, r, below)
        BY <1>7, <1>8 DEF Does
    <2>3. Does({}, {"rx timeout"}, {"rx", "timeout"}, r, shown)
        BY <2>1, <2>2 DEF Does
    <2> QED
        BY <1>4, <2>3 DEF Does
<1>10. Listens(r, u)
    BY <1>2, <1>9 DEF Listens, Does
<1>11. /\ r.rx = first.rx /\ r.fifo = first.fifo /\ r.trigger = first.trigger
       /\ r.err = first.err /\ r.errors = first.errors /\ r.stale = first.stale /\ r.again = first.again /\ Size(r) = Size(first)
    BY <1>9 DEF Does, Fields, Size
<1>12. Receiver(r)
    BY <1>2, <1>11 DEF Receiver
<1>13. timed.rx = r.rx
    BY <1>8 DEF Does, Fields
<1>14. News(r)
    BY <1>8, <1>13 DEF News
<1>15. Told(r)
    <2>1. Does({}, {"rx timeout"}, {"rx", "timeout"}, r, shown)
        BY <1>9
    <2>2. /\ Ints(r) /\ r.lsr = shown.lsr /\ r.delta = shown.delta /\ r.own = shown.own
          /\ "error" \in r.waiting <=> "error" \in shown.waiting
          /\ "msr" \in r.waiting <=> "msr" \in shown.waiting
        BY <1>4, <2>1 DEF Does, Fields, Causes, Told
    <2> QED
        BY <1>4, <2>2 DEF Told
<1> QED
    BY <1>10, <1>12, <1>14, <1>15

---------------------------------------------------------------------------
(* The other registers *)

Good(u) == Receiver(u) /\ Told(u) /\ News(u)

\* What has nothing to do with the receiver
LEMMA GoodKept ==
    ASSUME NEW a, NEW u, Good(u),
           Does({"in", "mcr", "ier", "tx", "sync", "txEmpty", "client", "server", "rxState", "retry", "fault"},
                Events \ {"rx timeout"}, {"tx"}, a, u)
    PROVE  Good(a)
<1>1. /\ a.rx = u.rx /\ a.fifo = u.fifo /\ a.trigger = u.trigger /\ a.err = u.err
      /\ a.errors = u.errors /\ a.stale = u.stale /\ a.again = u.again /\ Size(a) = Size(u)
      /\ a.ev["rx timeout"] = u.ev["rx timeout"]
      /\ "rx" \in a.waiting <=> "rx" \in u.waiting
      /\ "timeout" \in a.waiting <=> "timeout" \in u.waiting
    BY DEF Does, Fields, Size, Events, Causes
<1>2. /\ Ints(u) => Ints(a)
      /\ a.lsr = u.lsr /\ a.delta = u.delta /\ a.own = u.own
      /\ "error" \in a.waiting <=> "error" \in u.waiting
      /\ "msr" \in a.waiting <=> "msr" \in u.waiting
    BY DEF Does, Fields, Causes
<1>3. Receiver(a)
    BY <1>1 DEF Good, Receiver
<1>4. News(a)
    BY <1>1 DEF Good, News
<1>5. Told(a)
    BY <1>2 DEF Good, Told
<1> QED
    BY <1>3, <1>4, <1>5 DEF Good

\* A change of the modem lines, which may have its cause wait
LEMMA DeltaKept ==
    ASSUME NEW a, NEW u, Good(u), Does({"in", "mcr", "delta", "own"}, {}, {"msr"}, a, u),
           a.delta \subseteq a.own \/ "msr" \in a.waiting
    PROVE  Good(a)
<1>1. /\ a.rx = u.rx /\ a.fifo = u.fifo /\ a.trigger = u.trigger /\ a.err = u.err
      /\ a.errors = u.errors /\ a.stale = u.stale /\ a.again = u.again /\ Size(a) = Size(u)
      /\ a.ev["rx timeout"] = u.ev["rx timeout"]
      /\ "rx" \in a.waiting <=> "rx" \in u.waiting
      /\ "timeout" \in a.waiting <=> "timeout" \in u.waiting
    BY DEF Does, Fields, Size, Events, Causes
<1>2. /\ Ints(u) => Ints(a)
      /\ a.lsr = u.lsr
      /\ "error" \in a.waiting <=> "error" \in u.waiting
    BY DEF Does, Fields, Causes
<1>3. Receiver(a)
    BY <1>1 DEF Good, Receiver
<1>4. News(a)
    BY <1>1 DEF Good, News
<1>5. Told(a)
    BY <1>2 DEF Good, Told
<1> QED
    BY <1>3, <1>4, <1>5 DEF Good

LEMMA LineSetWell ==
    ASSUME NEW u, Shape(u), Good(u), NEW l, NEW on \in BOOLEAN, NEW a, a = SetModemLine(u, l, on)
    PROVE  Does({"in", "delta"}, {}, {"msr"}, a, u) /\ Good(a)
<1> DEFINE b == [u EXCEPT !.in = IF on THEN @ \cup {l} ELSE @ \ {l}]
           d == IF l = "ri" /\ on THEN {} ELSE {l}
           c == [b EXCEPT !.delta = @ \cup d]
<1>1. CASE a = u
    <2>1. Does({"in", "delta"}, {}, {"msr"}, a, u)
        BY <1>1 DEF Does
    <2> QED
        BY <1>1, <2>1
<1>2. CASE a = b
    <2>1. /\ Does({"in", "delta"}, {}, {"msr"}, b, u)
          /\ Does({"in", "mcr", "ier", "tx", "sync", "txEmpty", "client", "server", "rxState", "retry", "fault"},
                  Events \ {"rx timeout"}, {"tx"}, b, u)
        BY DEF Does, Shape, Fields, Ints
    <2> HIDE DEF b
    <2> QED
        BY <1>2, <2>1, GoodKept
<1>3. CASE a = Rise(c, "msr")
    <2>1. Shape(c) /\ Does({"in", "delta"}, {}, {}, c, u)
        BY DEF Does, Shape, Fields, Ints
    <2> HIDE DEF c
    <2>2. Does({}, {}, {"msr"}, a, c) /\ "msr" \in a.waiting
        BY <1>3, <2>1, Risen DEF Causes
    <2>3. /\ Does({"in", "delta"}, {}, {"msr"}, a, u)
          /\ Does({"in", "mcr", "delta", "own"}, {}, {"msr"}, a, u)
        BY <2>1, <2>2 DEF Does
    <2> QED
        BY <2>2, <2>3, DeltaKept
<1> QED
    BY <1>1, <1>2, <1>3 DEF SetModemLine

LEMMA LsrReadWell ==
    ASSUME NEW u, Shape(u), Good(u), NEW a, a = ReadLSR(u)
    PROVE  Does({"lsr"}, {}, {"error"}, a, u) /\ Good(a)
<1> DEFINE b == [u EXCEPT !.lsr = FALSE]
<1>1. Shape(b) /\ Does({"lsr"}, {}, {}, b, u) /\ b.lsr = FALSE
    BY DEF Does, Shape, Fields, Ints
<1>2. a = Clear(b, "error")
    BY DEF ReadLSR
<1> HIDE DEF b
<1>3. Does({}, {}, {"error"}, a, b) /\ "error" \notin a.waiting
    BY <1>1, <1>2, Cleared DEF Causes
<1>4. Does({"lsr"}, {}, {"error"}, a, u) /\ a.lsr = FALSE
    BY <1>1, <1>3 DEF Does, Fields
<1>5. /\ a.rx = u.rx /\ a.fifo = u.fifo /\ a.trigger = u.trigger /\ a.err = u.err
      /\ a.errors = u.errors /\ a.stale = u.stale /\ a.again = u.again /\ Size(a) = Size(u) /\ a.delta = u.delta /\ a.own = u.own
      /\ a.ev["rx timeout"] = u.ev["rx timeout"]
      /\ "rx" \in a.waiting <=> "rx" \in u.waiting
      /\ "timeout" \in a.waiting <=> "timeout" \in u.waiting
      /\ "msr" \in a.waiting <=> "msr" \in u.waiting
      /\ Ints(u) => Ints(a)
    BY <1>4 DEF Does, Fields, Size, Events, Causes
<1>6. Receiver(a)
    BY <1>5 DEF Good, Receiver
<1>7. News(a)
    BY <1>5 DEF Good, News
<1>8. Told(a)
    BY <1>3, <1>4, <1>5 DEF Good, Told
<1> QED
    BY <1>4, <1>6, <1>7, <1>8 DEF Good

LEMMA MsrReadWell ==
    ASSUME NEW u, Shape(u), Good(u), NEW a, a = ReadMSR(u)
    PROVE  Does({"delta", "own"}, {}, {"msr"}, a, u) /\ Good(a)
<1> DEFINE b == [u EXCEPT !.delta = {}, !.own = {}]
<1>1. Shape(b) /\ Does({"delta", "own"}, {}, {}, b, u) /\ b.delta = {} /\ b.own = {}
    BY DEF Does, Shape, Fields, Ints
<1>2. a = Clear(b, "msr")
    BY DEF ReadMSR
<1> HIDE DEF b
<1>3. Does({}, {}, {"msr"}, a, b)
    BY <1>1, <1>2, Cleared DEF Causes
<1>4. /\ Does({"delta", "own"}, {}, {"msr"}, a, u) /\ a.delta = {} /\ a.own = {}
      /\ Does({"in", "mcr", "delta", "own"}, {}, {"msr"}, a, u)
    BY <1>1, <1>3 DEF Does, Fields
<1> QED
    BY <1>4, DeltaKept

LEMMA MsrWritten ==
    ASSUME NEW u, Shape(u), Good(u), NEW data, NEW a, a = WriteMSR(u, data)
    PROVE  Does({"delta", "own"}, {}, {"msr"}, a, u) /\ Good(a)
<1>1. /\ Does({"delta", "own"}, {}, {"msr"}, a, u)
      /\ Does({"in", "mcr", "delta", "own"}, {}, {"msr"}, a, u)
      /\ a.delta = data /\ a.own = data
    BY DEF WriteMSR, Does, Shape, Fields, Ints
<1> QED
    BY <1>1, DeltaKept

LEMMA IerWritten ==
    ASSUME NEW u, Shape(u), Good(u), NEW data, NEW a, a = WriteIER(u, data)
    PROVE  Does({"ier"}, {}, {"tx"}, a, u) /\ Good(a)
<1> DEFINE v == IF u.tx = 0 /\ "tx" \in data THEN [u EXCEPT !.waiting = @ \cup {"tx"}] ELSE u
           w == IF u.tx = 0 /\ "tx" \in data THEN u.waiting \cup {"tx"} ELSE u.waiting
           i == data \cup IF u.fifo /\ "rx" \in data THEN {"timeout"} ELSE {}
<1>1. Computes(a, u, w, i)
    BY DEF WriteIER, Computes, Shape, Fields
<1>2. \A p \in Causes \ {"tx"} : p \in w <=> p \in u.waiting
    OBVIOUS
<1> HIDE DEF w, i
<1>3. /\ Shape(a) /\ a.waiting = w /\ a.ier = i
      /\ \A f \in Fields \ {"waiting", "ier", "irq", "line"} : a[f] = u[f]
      /\ Ints(u) => Ints(a)
    BY <1>1, Computed
<1>4. a.ev = u.ev
    BY <1>3 DEF Fields
<1>5. /\ Does({"ier"}, {}, {"tx"}, a, u)
      /\ Does({"in", "mcr", "ier", "tx", "sync", "txEmpty", "client", "server", "rxState", "retry", "fault"},
                  Events \ {"rx timeout"}, {"tx"}, a, u)
    BY <1>2, <1>3, <1>4 DEF Does
<1> QED
    BY <1>5, GoodKept

LEMMA TxCauseCleared ==
    ASSUME NEW u, Shape(u), Good(u), NEW a, a = Clear(u, "tx") \/ a = Rise(u, "tx") \/ a = u
    PROVE  Does({}, {}, {"tx"}, a, u) /\ Good(a)
<1>1. CASE a = u
    BY <1>1 DEF Does
<1>2. CASE a = Clear(u, "tx") \/ a = Rise(u, "tx")
    <2>1. Does({}, {}, {"tx"}, a, u)
        BY <1>2, Cleared, Risen DEF Causes
    <2>2. Does({"in", "mcr", "ier", "tx", "sync", "txEmpty", "client", "server", "rxState", "retry", "fault"},
               Events \ {"rx timeout"}, {"tx"}, a, u)
        BY <2>1 DEF Does
    <2> QED
        BY <2>1, <2>2, GoodKept
<1> QED
    BY <1>1, <1>2

LEMMA IsrReadWell ==
    ASSUME NEW u, Shape(u), Good(u), NEW a, a = ReadISR(u)
    PROVE  Does({}, {}, {"tx"}, a, u) /\ Good(a)
<1>1. a = Clear(u, "tx") \/ a = u
    BY DEF ReadISR
<1> QED
    BY <1>1, TxCauseCleared

LEMMA FcrWritten ==
    ASSUME NEW u, Shape(u), Good(u), NEW data \in Fcrs, NEW old \in BOOLEAN,
           NEW r, r = WriteFCR(u, data, old)
    PROVE  /\ Does({"fifo", "errors", "err", "stale", "again", "rx", "tx", "trigger"}, {}, {}, r, u)
           /\ Good(r)
           /\ r.tx = 0 \/ (r.tx = u.tx /\ Size(r) = Size(u))
<1> DEFINE a == IF u.fifo # data.on
                THEN [u EXCEPT !.fifo = data.on, !.errors = 0, !.err = <<>>, !.rx = 0, !.tx = 0,
                               !.trigger = IF data.on THEN @ ELSE 1,
                               !.stale = IF data.on THEN @ ELSE old, !.again = FALSE]
                ELSE u
           b == IF data.clearRx
                THEN [a EXCEPT !.errors = 0, !.err = <<>>, !.rx = 0, !.stale = FALSE,
                               !.again = FALSE]
                ELSE a
           c == IF data.clearTx THEN [b EXCEPT !.tx = 0] ELSE b
<1>0. /\ data.on \in BOOLEAN /\ data.trigger \in 1 .. FifoSize
      /\ r = IF data.on THEN [c EXCEPT !.trigger = data.trigger] ELSE c
    BY ModemAssumption DEF WriteFCR
<1>1. /\ Does({"fifo", "errors", "err", "stale", "again", "rx", "tx", "trigger"}, {}, {}, a, u)
      /\ a.fifo = data.on
      /\ a.tx = 0 \/ (a.tx = u.tx /\ a.fifo = u.fifo)
      /\ \/ a.rx = 0 /\ a.err = <<>> /\ a.errors = 0 /\ a.again = FALSE
         \/ /\ a.rx = u.rx /\ a.err = u.err /\ a.errors = u.errors
            /\ a.again = u.again /\ a.fifo = u.fifo
      /\ a.stale \in {u.stale, old, FALSE}
      /\ a.trigger \in {u.trigger, 1}
    <2>1. CASE u.fifo # data.on
        BY <2>1 DEF Does, Shape, Fields, Ints
    <2>2. CASE u.fifo = data.on
        BY <2>2 DEF Does
    <2> QED
        BY <2>1, <2>2
<1> HIDE DEF a
<1>2. /\ Does({"fifo", "errors", "err", "stale", "again", "rx", "tx", "trigger"}, {}, {}, b, u)
      /\ b.fifo = data.on
      /\ b.tx = 0 \/ (b.tx = u.tx /\ b.fifo = u.fifo)
      /\ \/ b.rx = 0 /\ b.err = <<>> /\ b.errors = 0 /\ b.again = FALSE
         \/ /\ b.rx = u.rx /\ b.err = u.err /\ b.errors = u.errors
            /\ b.again = u.again /\ b.fifo = u.fifo
      /\ b.stale \in {u.stale, old, FALSE}
      /\ b.trigger \in {u.trigger, 1}
    <2>1. CASE b = a
        BY <1>1, <2>1
    <2>2. CASE b = [a EXCEPT !.errors = 0, !.err = <<>>, !.rx = 0, !.stale = FALSE, !.again = FALSE]
        BY <1>1, <2>2 DEF Does, Shape, Fields, Ints
    <2> QED
        BY <2>1, <2>2
<1> HIDE DEF b
<1>3. /\ Does({"fifo", "errors", "err", "stale", "again", "rx", "tx", "trigger"}, {}, {}, c, u)
      /\ c.fifo = data.on
      /\ c.tx = 0 \/ (c.tx = u.tx /\ c.fifo = u.fifo)
      /\ \/ c.rx = 0 /\ c.err = <<>> /\ c.errors = 0 /\ c.again = FALSE
         \/ /\ c.rx = u.rx /\ c.err = u.err /\ c.errors = u.errors
            /\ c.again = u.again /\ c.fifo = u.fifo
      /\ c.stale \in {u.stale, old, FALSE}
      /\ c.trigger \in {u.trigger, 1}
    <2>1. CASE c = b
        BY <1>2, <2>1
    <2>2. CASE c = [b EXCEPT !.tx = 0]
        BY <1>2, <2>2 DEF Does, Shape, Fields, Ints
    <2> QED
        BY <2>1, <2>2
<1> HIDE DEF c
<1>4. /\ Does({"fifo", "errors", "err", "stale", "again", "rx", "tx", "trigger"}, {}, {}, r, u)
      /\ r.fifo = data.on
      /\ r.tx = 0 \/ (r.tx = u.tx /\ r.fifo = u.fifo)
      /\ \/ r.rx = 0 /\ r.err = <<>> /\ r.errors = 0 /\ r.again = FALSE
         \/ /\ r.rx = u.rx /\ r.err = u.err /\ r.errors = u.errors
            /\ r.again = u.again /\ r.fifo = u.fifo
      /\ r.stale \in {u.stale, old, FALSE}
      /\ r.trigger \in {u.trigger, 1, data.trigger}
    <2>1. CASE r = c
        BY <1>3, <2>1
    <2>2. CASE r = [c EXCEPT !.trigger = data.trigger]
        BY <1>3, <2>2 DEF Does, Shape, Fields, Ints
    <2> QED
        BY <1>0, <2>1, <2>2
<1>5. /\ r.ev["rx timeout"] = u.ev["rx timeout"] /\ r.lsr = u.lsr /\ r.delta = u.delta /\ r.own = u.own
      /\ Ints(u) => Ints(r)
      /\ \A p \in Causes : p \in r.waiting <=> p \in u.waiting
    BY <1>4, ZenonT(60) DEF Does, Fields, Events
<1>6. r.trigger \in 1 .. FifoSize
    BY <1>0, <1>4, FifoAssumption DEF Good, Receiver
<1>7. r.fifo = u.fifo => Size(r) = Size(u)
    BY DEF Size
<1>8. Size(r) \in Nat \ {0}
    BY FifoAssumption DEF Size
<1>9. Receiver(r)
    <2>0. r.stale \in BOOLEAN /\ r.fifo \in BOOLEAN /\ 0 \in 0 .. Word - 1
        <3>1. u.stale \in BOOLEAN
            BY DEF Good, Receiver
        <3>2. r.stale \in BOOLEAN
            BY <1>4, <3>1
        <3>3. 0 \in 0 .. Word - 1
            BY FifoAssumption
        <3> QED
            BY <1>0, <1>4, <3>2, <3>3
    <2>1. CASE r.rx = 0 /\ r.err = <<>> /\ r.errors = 0 /\ r.again = FALSE
        <3>1. <<>> \in Seq(BOOLEAN) /\ Len(<<>>) = 0 /\ Cardinality(Marks(<<>>)) = 0
            BY EmptySeq, MarksCounted
        <3>2. r.rx \in 0 .. Size(r) /\ Len(r.err) = r.rx /\ r.err \in Seq(BOOLEAN)
            BY <1>8, <2>1, <3>1
        <3>3. r.errors = Cardinality(Marks(r.err))
            BY <2>1, <3>1
        <3> QED
            BY <1>6, <2>0, <2>1, <3>2, <3>3 DEF Receiver
    <2>2. CASE /\ r.rx = u.rx /\ r.err = u.err /\ r.errors = u.errors
               /\ r.again = u.again /\ r.fifo = u.fifo
        BY <1>6, <1>7, <2>0, <2>2 DEF Good, Receiver
    <2> QED
        BY <1>4, <2>1, <2>2
<1>10. News(r)
    <2>1. CASE r.rx = 0
        <3>1. ~(r.rx > 0)
            BY <2>1
        <3> QED
            BY <1>5, <3>1 DEF Good, News
    <2>2. CASE r.rx = u.rx
        BY <1>5, <2>2 DEF Good, News, Causes
    <2> QED
        BY <1>4, <2>1, <2>2
<1>11. Told(r)
    BY <1>5 DEF Good, Told, Causes
<1> QED
    BY <1>4, <1>7, <1>9, <1>10, <1>11 DEF Good

LEMMA McrWritten ==
    ASSUME NEW u, Shape(u), Good(u), NEW data, NEW r, r = WriteMCR(u, data)
    PROVE  Does({"delta", "mcr"}, {}, {"msr"}, r, u) /\ Good(r)
<1> DEFINE new == Looped(u, data)
           b   == [u EXCEPT !.delta = @ \cup new]
           a   == IF "loopback" \in data /\ new # {} THEN Rise(b, "msr") ELSE u
           on   == "op2" \notin u.mcr /\ "op2" \in data
           off  == "op2" \in u.mcr /\ "op2" \notin data
           line == IF a.irq THEN a.line ELSE IF on THEN FALSE ELSE IF off THEN TRUE ELSE a.line
<1>1. r = [a EXCEPT !.mcr = data, !.line = line]
    BY DEF WriteMCR
<1>2. Does({"delta"}, {}, {"msr"}, a, u) /\ (a.delta \subseteq a.own \/ "msr" \in a.waiting)
    <2>1. Shape(b) /\ Does({"delta"}, {}, {}, b, u)
        BY DEF Does, Shape, Fields, Ints
    <2>2. CASE a = Rise(b, "msr")
        <3> HIDE DEF b, a
        <3>1. Does({}, {}, {"msr"}, a, b) /\ "msr" \in a.waiting
            BY <2>1, <2>2, Risen DEF Causes
        <3> QED
            BY <2>1, <3>1 DEF Does
    <2>3. CASE a = u
        BY <2>3 DEF Does, Good, Told
    <2> QED
        BY <2>2, <2>3
<1> HIDE DEF a
<1>3. /\ Ints(a) /\ a.mcr = u.mcr
    BY <1>2 DEF Does, Good, Told, Fields
<1>4. /\ Shape(r) /\ r.irq = a.irq /\ r.ier = a.ier /\ r.waiting = a.waiting /\ r.mcr = data
      /\ r.ev = a.ev
      /\ \A f \in Fields \ {"mcr", "line"} : r[f] = a[f]
    BY <1>1, <1>2 DEF Does, Shape, Fields
<1>5. /\ a.irq = TRUE => r.line = a.line
      /\ a.irq = FALSE => r.line \in BOOLEAN /\ ("op2" \in data => r.line = FALSE)
    <2>1. r.line = line
        BY <1>1, <1>2 DEF Does, Shape, Fields
    <2>2. CASE a.irq = TRUE
        BY <2>1, <2>2
    <2>3. CASE a.irq = FALSE /\ "op2" \notin u.mcr
        BY <1>3, <2>1, <2>3 DEF Ints
    <2>4. CASE a.irq = FALSE /\ "op2" \in u.mcr
        <3>1. a.line = FALSE
            BY <1>3, <2>4 DEF Ints
        <3> QED
            BY <2>1, <2>4, <3>1
    <2> QED
        BY <1>3, <2>2, <2>3, <2>4 DEF Ints
<1>6. Ints(r)
    BY <1>3, <1>4, <1>5 DEF Ints
<1>7. /\ Does({"delta", "mcr"}, {}, {"msr"}, r, u)
      /\ Does({"in", "mcr", "delta", "own"}, {}, {"msr"}, r, u)
    BY <1>2, <1>4, <1>6 DEF Does
<1>8. r.delta = a.delta /\ r.own = a.own
    BY <1>4 DEF Fields
<1> QED
    BY <1>2, <1>4, <1>7, <1>8, DeltaKept

---------------------------------------------------------------------------
(* The transmitter *)

Sends == {"thr", "tx", "thr loopback", "tx loopback"}

\* Busy is when exactly one event is pending, and bytes wait only then.
Sender(u) ==
    /\ u.tx \in 0 .. Size(u) /\ u.txEmpty \in BOOLEAN /\ u.sync \in BOOLEAN
    /\ \A e \in Sends : u.ev[e] \in {0, 1}
    /\ \A d, e \in Sends : u.ev[d] = 1 /\ u.ev[e] = 1 => d = e
    /\ u.txEmpty = TRUE => u.tx = 0 /\ u.sync = FALSE /\ \A e \in Sends : u.ev[e] = 0
    /\ u.txEmpty = FALSE => \E e \in Sends : u.ev[e] = 1
    /\ u.sync = TRUE => u.ev["tx"] = 0 /\ u.ev["tx loopback"] = 0

\* The same while the event is handled
Sending(u) ==
    /\ u.tx \in 0 .. Size(u) /\ u.txEmpty = FALSE /\ u.sync \in BOOLEAN
    /\ \A e \in Sends : u.ev[e] = 0

Transmits(a, u) == Does({"tx", "sync", "txEmpty"}, Sends, {"tx"}, a, u)

LEMMA ZeroOne == 0 # 1
    OBVIOUS

LEMMA Positive == 1 > 0 /\ ~ (0 > 0)
    OBVIOUS

LEMMA TransmitsGood ==
    ASSUME NEW a, NEW u, Transmits(a, u), Good(u)
    PROVE  Good(a)
<1>1. Does({"in", "mcr", "ier", "tx", "sync", "txEmpty", "client", "server", "rxState", "retry", "fault"},
           Events \ {"rx timeout"}, {"tx"}, a, u)
    BY DEF Transmits, Does, Events, Sends
<1> QED
    BY <1>1, GoodKept

\* What has nothing to do with the transmitter
LEMMA SenderKept ==
    ASSUME NEW a, NEW u, Does(Fields \ {"tx", "sync", "txEmpty", "fifo"}, Events \ Sends, Causes, a, u)
    PROVE  /\ Sender(u) => Sender(a)
           /\ Sending(u) => Sending(a)
           /\ a.sync = u.sync
<1>1. /\ a.tx = u.tx /\ a.sync = u.sync /\ a.txEmpty = u.txEmpty /\ Size(a) = Size(u)
      /\ \A e \in Sends : a.ev[e] = u.ev[e]
    BY DEF Does, Fields, Size, Events, Sends
<1> QED
    BY <1>1, ZenonT(60) DEF Sender, Sending, Sends

LEMMA ListensSender ==
    ASSUME NEW a, NEW u, Listens(a, u)
    PROVE  /\ Sender(u) => Sender(a)
           /\ Sending(u) => Sending(a)
           /\ a.sync = u.sync
<1>1. Does(Fields \ {"tx", "sync", "txEmpty", "fifo"}, Events \ Sends, Causes, a, u)
    BY DEF Listens, Does, Fields, Events, Sends, Causes
<1> QED
    BY <1>1, SenderKept

LEMMA SendTaken ==
    ASSUME NEW u, Shape(u), Sender(u), NEW e \in Sends, u.ev[e] = 1, NEW a, a = Taken(u, e)
    PROVE  Transmits(a, u) /\ Sending(a) /\ (e \in {"tx", "tx loopback"} => a.sync = FALSE)
<1>1. e \in Events
    BY DEF Events, Sends
<1>2. Does({}, {e}, {}, a, u) /\ a.ev[e] = 0
    BY <1>1, EventTaken
<1>3. Transmits(a, u)
    BY <1>2 DEF Transmits, Does
<1>4. /\ a.tx = u.tx /\ a.sync = u.sync /\ a.txEmpty = u.txEmpty /\ Size(a) = Size(u)
      /\ \A d \in Sends \ {e} : a.ev[d] = u.ev[d]
    BY <1>2 DEF Does, Fields, Size, Events, Sends
<1>5. \A d \in Sends : a.ev[d] = 0
    BY <1>2, <1>4, ZenonT(60) DEF Sender
<1>6. e \in {"tx", "tx loopback"} => u.sync = FALSE
    BY ZeroOne DEF Sender
<1>7. u.txEmpty = FALSE
    BY ZeroOne DEF Sender
<1> QED
    BY <1>3, <1>4, <1>5, <1>6, <1>7 DEF Sending, Sender

LEMMA SendSet ==
    ASSUME NEW u, Shape(u), Sending(u), NEW e \in Sends,
           u.sync = TRUE => e \in {"thr", "thr loopback"},
           NEW a, a = SetEvent(u, e)
    PROVE  Transmits(a, u) /\ Sender(a)
<1>1. e \in Events /\ u.ev[e] = 0
    BY DEF Events, Sends, Sending
<1>2. Does({}, {e}, {}, a, u) /\ a.ev[e] = 1
    BY <1>1, EventSet
<1>3. Transmits(a, u)
    BY <1>2 DEF Transmits, Does
<1>4. /\ a.tx = u.tx /\ a.sync = u.sync /\ a.txEmpty = u.txEmpty /\ Size(a) = Size(u)
      /\ \A d \in Sends \ {e} : a.ev[d] = 0
    BY <1>2 DEF Does, Fields, Size, Events, Sends, Sending
<1>5. u.sync = TRUE => a.ev["tx"] = 0 /\ a.ev["tx loopback"] = 0
    BY <1>4 DEF Sends
<1>6. a.txEmpty = FALSE /\ a.tx \in 0 .. Size(a) /\ a.sync \in BOOLEAN
    BY <1>4 DEF Sending
<1>7. /\ \A d \in Sends : a.ev[d] \in {0, 1}
      /\ \A d \in Sends : a.ev[d] = 1 => d = e
    BY <1>2, <1>4, ZeroOne
<1>8. a.sync = TRUE => a.ev["tx"] = 0 /\ a.ev["tx loopback"] = 0
    BY <1>4, <1>5
<1> QED
    BY <1>2, <1>3, <1>6, <1>7, <1>8 DEF Sender

LEMMA DrainedWell ==
    ASSUME NEW u, Shape(u), NEW a, a = Drained(u)
    PROVE  Does({}, {}, {"tx"}, a, u)
<1>1. CASE a = u
    BY <1>1 DEF Does
<1>2. CASE a = Rise(u, "tx")
    BY <1>2, Risen DEF Causes
<1> QED
    BY <1>1, <1>2 DEF Drained

LEMMA Decreased ==
    ASSUME NEW n \in Nat \ {0}, NEW k \in 0 .. n
    PROVE  /\ (IF k > 0 THEN k - 1 ELSE 0) \in 0 .. n
           /\ k # 0 => k - 1 \in 0 .. n
           /\ (IF k < n THEN k + 1 ELSE k) \in 0 .. n
           /\ 0 \in 0 .. n
    OBVIOUS

LEMMA TransmittingWell ==
    ASSUME NEW u, Shape(u), Sending(u), NEW a, a = ByteTransmitting(u)
    PROVE  Transmits(a, u) /\ Sending(a) /\ a.sync = FALSE
<1> DEFINE b == IF u.sync THEN [u EXCEPT !.sync = FALSE, !.tx = IF @ > 0 THEN @ - 1 ELSE 0] ELSE u
<1>0. Size(u) \in Nat \ {0} /\ u.tx \in 0 .. Size(u)
    BY FifoAssumption DEF Size, Sending
<1>1. /\ Does({"sync", "tx"}, {}, {}, b, u) /\ b.sync = FALSE
      /\ b.tx = u.tx \/ b.tx = IF u.tx > 0 THEN u.tx - 1 ELSE 0
    <2>1. CASE u.sync = TRUE
        BY <2>1 DEF Does, Shape, Fields, Ints
    <2>2. CASE u.sync = FALSE
        BY <2>2 DEF Does
    <2> QED
        BY <2>1, <2>2 DEF Sending
<1>2. a = Drained(b)
    BY DEF ByteTransmitting
<1> HIDE DEF b
<1>3. Does({}, {}, {"tx"}, a, b)
    <2>1. Shape(b)
        BY <1>1 DEF Does
    <2> QED
        BY <1>2, <2>1, DrainedWell
<1>4. /\ a.sync = FALSE /\ a.tx = b.tx /\ a.txEmpty = u.txEmpty /\ Size(a) = Size(u)
      /\ \A e \in Sends : a.ev[e] = u.ev[e]
    BY <1>1, <1>3 DEF Does, Fields, Size, Events, Sends
<1>5. a.tx \in 0 .. Size(u)
    BY <1>0, <1>1, <1>4, Decreased
<1>6. Transmits(a, u)
    BY <1>1, <1>3 DEF Transmits, Does
<1> QED
    BY <1>4, <1>5, <1>6 DEF Sending

LEMMA TransmittedWell ==
    ASSUME NEW u, Shape(u), Sending(u), u.sync = FALSE, NEW a, a = ByteTransmitted(u)
    PROVE  Transmits(a, u) /\ Sender(a)
<1> DEFINE b == [u EXCEPT !.tx = @ - 1]
<1>0. Size(u) \in Nat \ {0} /\ u.tx \in 0 .. Size(u)
    BY FifoAssumption DEF Size, Sending
<1>1. CASE u.tx = 0
    <2>1. a = [u EXCEPT !.txEmpty = TRUE]
        BY <1>1 DEF ByteTransmitted
    <2>2. /\ Does({"txEmpty"}, {}, {}, a, u) /\ a.txEmpty = TRUE
          /\ a.tx = u.tx /\ a.sync = u.sync /\ Size(a) = Size(u)
          /\ \A e \in Sends : a.ev[e] = u.ev[e]
        BY <2>1 DEF Does, Shape, Fields, Ints, Size
    <2>3. Transmits(a, u)
        BY <2>2 DEF Transmits, Does
    <2>4. /\ a.tx \in 0 .. Size(a) /\ a.tx = 0 /\ a.sync = FALSE /\ a.txEmpty = TRUE
          /\ \A e \in Sends : a.ev[e] = 0
        BY <1>1, <2>2 DEF Sending
    <2> QED
        BY <2>3, <2>4, ZeroOne DEF Sender, Sends
<1>2. CASE u.tx # 0
    <2>1. PICK e \in {"tx", "tx loopback"} : a = Drained(SetEvent(b, e))
        BY <1>2 DEF ByteTransmitted, TransmitByte
    <2>2. /\ Shape(b) /\ Transmits(b, u)
          /\ b.tx = u.tx - 1 /\ b.sync = u.sync /\ b.txEmpty = u.txEmpty /\ Size(b) = Size(u)
          /\ \A d \in Sends : b.ev[d] = u.ev[d]
        BY DEF Transmits, Does, Shape, Fields, Ints, Size
    <2> HIDE DEF b
    <2>3. Sending(b)
        BY <1>0, <1>2, <2>2, Decreased DEF Sending
    <2>4. Transmits(SetEvent(b, e), b) /\ Sender(SetEvent(b, e))
        BY <2>2, <2>3, SendSet DEF Sends
    <2>5. Does({}, {}, {"tx"}, a, SetEvent(b, e))
        <3>1. Shape(SetEvent(b, e))
            BY <2>4 DEF Transmits, Does
        <3> QED
            BY <2>1, <3>1, DrainedWell
    <2>6. Sender(a)
        <3>1. Does(Fields \ {"tx", "sync", "txEmpty", "fifo"}, Events \ Sends, Causes, a, SetEvent(b, e))
            BY <2>5 DEF Does, Causes
        <3> QED
            BY <2>4, <3>1, SenderKept
    <2>7. Transmits(SetEvent(b, e), u)
        BY <2>2, <2>4 DEF Transmits, Does
    <2> QED
        BY <2>5, <2>6, <2>7 DEF Transmits, Does
<1> QED
    BY <1>1, <1>2

LEMMA ThrWritten ==
    ASSUME NEW u, Shape(u), Sender(u), NEW r, r = WriteTHR(u)
    PROVE  Transmits(r, u) /\ Sender(r)
<1> DEFINE a == Clear(u, "tx")
           b == [a EXCEPT !.tx = IF @ < Size(u) THEN @ + 1 ELSE @]
           c == [b EXCEPT !.sync = TRUE, !.txEmpty = FALSE]
<1>0. Size(u) \in Nat \ {0} /\ u.tx \in 0 .. Size(u)
    <2>1. Size(u) \in Nat \ {0}
        BY FifoAssumption DEF Size
    <2>2. u.tx \in 0 .. Size(u)
        BY DEF Sender
    <2> QED
        BY <2>1, <2>2
<1>1. Does({}, {}, {"tx"}, a, u)
    BY Cleared DEF Causes
<1>2. /\ Shape(a) /\ a.tx = u.tx /\ a.sync = u.sync /\ a.txEmpty = u.txEmpty /\ Size(a) = Size(u)
      /\ \A e \in Sends : a.ev[e] = u.ev[e]
    BY <1>1 DEF Does, Fields, Size, Events, Sends
<1> HIDE DEF a
<1>3. /\ Does({"tx"}, {}, {}, b, a)
      /\ b.tx = IF u.tx < Size(u) THEN u.tx + 1 ELSE u.tx
      /\ b.sync = u.sync /\ b.txEmpty = u.txEmpty /\ Size(b) = Size(u)
      /\ \A e \in Sends : b.ev[e] = u.ev[e]
    BY <1>2 DEF Does, Shape, Fields, Ints, Size
<1> HIDE DEF b
<1>4. b.tx \in 0 .. Size(u)
    BY <1>0, <1>3, Decreased
<1>5. Transmits(b, u)
    BY <1>1, <1>3 DEF Transmits, Does
<1>6. CASE u.txEmpty = FALSE
    <2>1. r = b
        BY <1>6 DEF WriteTHR, a, b
    <2>2. b.tx \in 0 .. Size(b) /\ b.txEmpty = FALSE
        <3>1. Size(b) = Size(u) /\ b.txEmpty = u.txEmpty
            BY <1>3
        <3> QED
            BY <1>4, <1>6, <3>1
    <2>3. b.sync = u.sync /\ \A e \in Sends : b.ev[e] = u.ev[e]
        BY <1>3
    <2>4. /\ u.sync \in BOOLEAN /\ (u.sync = TRUE => u.ev["tx"] = 0 /\ u.ev["tx loopback"] = 0)
          /\ \A e \in Sends : u.ev[e] \in {0, 1}
          /\ \A d, e \in Sends : u.ev[d] = 1 /\ u.ev[e] = 1 => d = e
          /\ \E e \in Sends : u.ev[e] = 1
        BY <1>6 DEF Sender
    <2>5. "tx" \in Sends /\ "tx loopback" \in Sends
        BY DEF Sends
    <2>6. \E e \in Sends : b.ev[e] = 1
        BY <2>3, <2>4
    <2>7. \A d, e \in Sends : b.ev[d] = 1 /\ b.ev[e] = 1 => d = e
        BY <2>3, <2>4
    <2>8. \A e \in Sends : b.ev[e] \in {0, 1}
        BY <2>3, <2>4
    <2>9. b.sync \in BOOLEAN /\ (b.sync = TRUE => b.ev["tx"] = 0 /\ b.ev["tx loopback"] = 0)
        BY <2>3, <2>4, <2>5
    <2>10. Sender(b)
        BY <2>2, <2>6, <2>7, <2>8, <2>9 DEF Sender
    <2> QED
        BY <1>5, <2>1, <2>10
<1>7. CASE u.txEmpty = TRUE
    <2>1. /\ Does({"sync", "txEmpty"}, {}, {}, c, b)
          /\ c.sync = TRUE /\ c.txEmpty = FALSE /\ c.tx = b.tx /\ Size(c) = Size(u)
          /\ \A e \in Sends : c.ev[e] = u.ev[e]
        BY <1>3 DEF Does, Shape, Fields, Ints, Size
    <2>2. Shape(c) /\ Sending(c) /\ Transmits(c, u)
        <3>1. \A e \in Sends : u.ev[e] = 0
            BY <1>7 DEF Sender
        <3>2. Sending(c)
            BY <1>4, <2>1, <3>1 DEF Sending
        <3> HIDE DEF c
        <3> QED
            BY <1>5, <2>1, <3>2 DEF Transmits, Does
    <2>3. PICK e \in {"thr", "thr loopback"} : r = SetEvent(c, e)
        BY <1>7 DEF WriteTHR, TransmitByte, a, b
    <2> HIDE DEF c
    <2>4. Transmits(r, c) /\ Sender(r)
        BY <2>2, <2>3, SendSet DEF Sends
    <2> QED
        BY <2>2, <2>4 DEF Transmits, Does
<1> QED
    BY <1>6, <1>7 DEF Sender

LEMMA FcrSender ==
    ASSUME NEW r, NEW u, Sender(u),
           Does({"fifo", "errors", "err", "stale", "again", "rx", "tx", "trigger"}, {}, {}, r, u),
           r.tx = 0 \/ (r.tx = u.tx /\ Size(r) = Size(u))
    PROVE  Sender(r)
<1>1. r.tx \in 0 .. Size(r)
    <2>1. Size(r) \in Nat \ {0}
        BY FifoAssumption DEF Size
    <2>2. CASE r.tx = 0
        BY <2>1, <2>2
    <2>3. CASE r.tx = u.tx /\ Size(r) = Size(u)
        BY <2>3 DEF Sender
    <2> QED
        BY <2>2, <2>3
<1>2. r.sync = u.sync /\ r.txEmpty = u.txEmpty /\ \A e \in Sends : r.ev[e] = u.ev[e]
    BY DEF Does, Fields, Events, Sends
<1>3. u.txEmpty = TRUE => r.tx = 0
    BY DEF Sender
<1> QED
    BY <1>1, <1>2, <1>3, ZenonT(60) DEF Sender, Sends

---------------------------------------------------------------------------
(* The connection *)

Waits == {"wait", "fastwait", "blocked"}

\* A connection is polled, and its receiver waits for an event or is idle; a
\* port without one is polled for the next, if it could be opened.
Link(u) == DrainClose = FALSE =>
    /\ u.client \in BOOLEAN /\ u.server \in BOOLEAN /\ u.fault = FALSE
    /\ u.rxState \in {"disc", "idle"} \cup Waits
    /\ u.retry \in 0 .. RetryMax - 1
    /\ \A e \in {"polling", "rx", "server polling"} : u.ev[e] \in {0, 1}
    /\ u.client = TRUE =>
           /\ u.server = FALSE
           /\ u.ev["polling"] = 1 /\ u.ev["server polling"] = 0
           /\ u.ev["rx"] = 1 <=> u.rxState # "idle"
           /\ u.rxState # "disc"
    /\ u.client = FALSE =>
           /\ u.ev["polling"] = 0 /\ u.ev["rx"] = 0
           /\ u.ev["server polling"] = 1 <=> u.server = TRUE

\* A connection whose receiver has no event pending
Free(u) == DrainClose = FALSE =>
    /\ u.client = TRUE /\ u.server = FALSE /\ u.fault = FALSE
    /\ u.rxState \in {"disc", "idle"} \cup Waits
    /\ u.retry \in 0 .. RetryMax - 1
    /\ u.ev["polling"] = 1 /\ u.ev["server polling"] = 0 /\ u.ev["rx"] = 0

\* A port that has lost its connection
Alone(u) == DrainClose = FALSE =>
    /\ u.client = FALSE /\ u.server \in BOOLEAN /\ u.fault = FALSE
    /\ u.rxState \in {"disc", "idle"} \cup Waits
    /\ u.retry \in 0 .. RetryMax - 1
    /\ u.ev["polling"] = 0 /\ u.ev["rx"] = 0
    /\ u.ev["server polling"] \in {0, 1}
    /\ u.ev["server polling"] = 1 <=> u.server = TRUE

LinkFields == {"client", "server", "rxState", "retry", "fault"}
LinkEvents == {"polling", "rx", "server polling"}

LEMMA LinkKept ==
    ASSUME NEW a, NEW u, Does(Fields \ LinkFields, Events \ LinkEvents, Causes, a, u)
    PROVE  /\ Link(u) => Link(a)
           /\ Free(u) => Free(a)
<1>1. /\ a.client = u.client /\ a.server = u.server /\ a.rxState = u.rxState
      /\ a.retry = u.retry /\ a.fault = u.fault
      /\ \A e \in LinkEvents : a.ev[e] = u.ev[e]
    BY DEF Does, Fields, LinkFields, LinkEvents, Events
<1> QED
    BY <1>1 DEF Link, Free, LinkEvents

LEMMA ListensLink ==
    ASSUME NEW a, NEW u, Listens(a, u) \/ Transmits(a, u)
    PROVE  /\ Link(u) => Link(a)
           /\ Free(u) => Free(a)
<1>1. Does(Fields \ LinkFields, Events \ LinkEvents, Causes, a, u)
    BY DEF Listens, Transmits, Does, Fields, LinkFields, LinkEvents, Events, Sends
<1> QED
    BY <1>1, LinkKept

LEMMA AloneWell ==
    ASSUME NEW u, Alone(u)
    PROVE  Link(u)
    BY DEF Alone, Link

LEMMA LinkIdle ==
    ASSUME NEW u, Link(u), DrainClose = FALSE => u.client = TRUE, u.rxState = "idle"
    PROVE  Free(u)
    BY DEF Link, Free

LEMMA FreeIdle ==
    ASSUME NEW u, Free(u), u.rxState = "idle"
    PROVE  Link(u)
<1>1. CASE DrainClose # FALSE
    BY <1>1 DEF Link
<1>2. CASE DrainClose = FALSE
    <2>1. /\ u.client = TRUE /\ u.server = FALSE /\ u.fault = FALSE
          /\ u.retry \in 0 .. RetryMax - 1
          /\ u.ev["polling"] = 1 /\ u.ev["server polling"] = 0 /\ u.ev["rx"] = 0
        BY <1>2 DEF Free
    <2> QED
        BY <2>1, ZeroOne DEF Link
<1> QED
    BY <1>1, <1>2

\* The receiver of this port is left alone, the transmitter is not.
Receives(a, u) ==
    Does(Fields \ {"tx", "sync", "txEmpty", "fifo"}, Events \ Sends, Causes, a, u) /\ Good(a)

LEMMA ReceivesBoth ==
    ASSUME NEW a, NEW b, NEW c, Receives(a, b), Receives(b, c)
    PROVE  Receives(a, c)
    BY DEF Receives, Does

LEMMA AwaitWell ==
    ASSUME NEW u, Shape(u), Good(u), Free(u), NEW s \in Waits, NEW a, a = Await(u, s)
    PROVE  Receives(a, u) /\ Link(a)
<1> DEFINE b == [u EXCEPT !.rxState = s]
<1>1. /\ Shape(b) /\ Does({"rxState"}, {}, {}, b, u)
      /\ b.rxState = s /\ b.ev = u.ev
    BY DEF Does, Shape, Fields, Ints
<1>2. a = SetEvent(b, "rx")
    BY DEF Await
<1> HIDE DEF b
<1>3. Does({}, {"rx"}, {}, a, b) /\ (u.ev["rx"] = 0 => a.ev["rx"] = 1)
    BY <1>1, <1>2, EventSet, ZenonT(60) DEF Events
<1>4. /\ Does({"rxState"}, {"rx"}, {}, a, u)
      /\ a.rxState = s
    BY <1>1, <1>3 DEF Does, Fields
<1>5. /\ Does(Fields \ {"tx", "sync", "txEmpty", "fifo"}, Events \ Sends, Causes, a, u)
      /\ Does({"in", "mcr", "ier", "tx", "sync", "txEmpty", "client", "server", "rxState", "retry", "fault"},
              Events \ {"rx timeout"}, {"tx"}, a, u)
    BY <1>4 DEF Does, Fields, Events, Sends
<1>6. Good(a)
    BY <1>5, GoodKept
<1>7. DrainClose = FALSE =>
      /\ a.client = TRUE /\ a.server = FALSE /\ a.fault = FALSE /\ a.retry = u.retry
      /\ a.ev["polling"] = 1 /\ a.ev["server polling"] = 0
    BY <1>4 DEF Does, Fields, Events, Free
<1>8. Link(a)
    BY <1>3, <1>4, <1>7 DEF Link, Free, Waits
<1> QED
    BY <1>5, <1>6, <1>8 DEF Receives

LEMMA IdleWell ==
    ASSUME NEW u, Shape(u), Good(u), Free(u) \/ Alone(u), NEW a, a = Idle(u)
    PROVE  Receives(a, u) /\ Link(a)
<1>1. /\ Does({"rxState"}, {}, {}, a, u) /\ a.rxState = "idle"
    BY DEF Idle, Does, Shape, Fields, Ints
<1>2. /\ Does(Fields \ {"tx", "sync", "txEmpty", "fifo"}, Events \ Sends, Causes, a, u)
      /\ Does({"in", "mcr", "ier", "tx", "sync", "txEmpty", "client", "server", "rxState", "retry", "fault"},
              Events \ {"rx timeout"}, {"tx"}, a, u)
    BY <1>1 DEF Does, Fields, Events, Sends
<1>3. Good(a)
    BY <1>2, GoodKept
<1>4. /\ a.client = u.client /\ a.server = u.server /\ a.fault = u.fault /\ a.retry = u.retry
      /\ \A e \in LinkEvents : a.ev[e] = u.ev[e]
    BY <1>1 DEF Does, Fields, Events, LinkEvents
<1>5. Link(a)
    <2>1. CASE Free(u)
        <3>1. Free(a)
            BY <1>1, <1>4, <2>1 DEF Free, LinkEvents
        <3> QED
            BY <1>1, <3>1, FreeIdle
    <2>2. CASE Alone(u)
        BY <1>1, <1>4, <2>2, ZeroOne DEF Link, Alone, LinkEvents
    <2> QED
        BY <2>1, <2>2
<1> QED
    BY <1>2, <1>3, <1>5 DEF Receives

LEMMA ListensReceives ==
    ASSUME NEW a, NEW u, Listens(a, u), Good(a)
    PROVE  Receives(a, u)
    BY DEF Receives, Listens, Does, Fields, Events, Sends, Causes

LEMMA QuietWell ==
    ASSUME NEW u, Shape(u), Good(u), NEW x \in Quiet(u)
    PROVE  Shape(x) /\ Listens(x, u) /\ Good(x)
<1>1. CASE x = u
    BY <1>1 DEF Listens, Does
<1>2. ASSUME NEW high \in Peer, x \in Controlled(u, high)
      PROVE  Shape(x) /\ Listens(x, u) /\ Good(x)
    <2> DEFINE b == SetModemLine(u, "cts", "cts" \in high)
               a == SetModemLine(b, "dsr", "dsr" \in high)
    <2>0. PICK cts \in BOOLEAN, dsr \in BOOLEAN :
              b = SetModemLine(u, "cts", cts) /\ a = SetModemLine(b, "dsr", dsr)
        <3>1. ("cts" \in high) \in BOOLEAN /\ ("dsr" \in high) \in BOOLEAN
            OBVIOUS
        <3> QED
            BY <3>1, Zenon
    <2> HIDE DEF a, b
    <2>1. Does({"in", "delta"}, {}, {"msr"}, b, u) /\ Good(b)
        BY <2>0, LineSetWell
    <2>2. Does({"in", "delta"}, {}, {"msr"}, a, b) /\ Good(a)
        <3>1. Shape(b)
            BY <2>1 DEF Does
        <3> QED
            BY <2>0, <2>1, <3>1, LineSetWell
    <2>3. Shape(a) /\ Listens(a, u)
        BY <2>1, <2>2 DEF Listens, Does
    <2>4. x = a \/ x = ReceiveByteEx(a, TRUE)
        BY <1>2 DEF Controlled, a, b
    <2>5. CASE x = a
        BY <2>2, <2>3, <2>5
    <2>6. CASE x = ReceiveByteEx(a, TRUE)
        <3>1. Listens(x, a) /\ Good(x)
            BY <2>2, <2>3, <2>6, ReceivedWell DEF Good
        <3> QED
            BY <2>3, <3>1, ListensBoth DEF Listens, Does
    <2> QED
        BY <2>4, <2>5, <2>6
<1> QED
    BY <1>1, <1>2 DEF Quiet

LEMMA UnpluggedWell ==
    ASSUME NEW u, Shape(u), Good(u), NEW a, a = Unplugged(u)
    PROVE  Shape(a) /\ Listens(a, u) /\ Good(a)
<1> DEFINE b == SetModemLine(u, "dsr", FALSE)
           c == SetModemLine(b, "cts", FALSE)
<1>1. Does({"in", "delta"}, {}, {"msr"}, b, u) /\ Good(b)
    BY LineSetWell
<1>2. a = SetModemLine(c, "cd", FALSE)
    BY DEF Unplugged
<1> HIDE DEF b
<1>3. Does({"in", "delta"}, {}, {"msr"}, c, b) /\ Good(c)
    <2>1. Shape(b)
        BY <1>1 DEF Does
    <2> QED
        BY <1>1, <2>1, LineSetWell
<1> HIDE DEF c
<1>4. Does({"in", "delta"}, {}, {"msr"}, a, c) /\ Good(a)
    <2>1. Shape(c)
        BY <1>3 DEF Does
    <2> QED
        BY <1>2, <1>3, <2>1, LineSetWell
<1> QED
    BY <1>1, <1>3, <1>4 DEF Listens, Does

LEMMA DisconnectWell ==
    ASSUME NEW u, Shape(u), Good(u), Free(u), NEW x \in Disconnect(u)
    PROVE  Receives(x, u) /\ Alone(x)
<1> DEFINE p == RemoveEvent(u, "polling")
           a == RemoveEvent(p, "rx")
           b == [a EXCEPT !.client = FALSE]
           c == Unplugged(b)
<1>1. Does({}, {"polling"}, {}, p, u) /\ p.ev["polling"] = 0
    BY EventRemoved DEF Events
<1> HIDE DEF p
<1>2. Does({}, {"rx"}, {}, a, p) /\ a.ev["rx"] = 0
    <2>1. Shape(p)
        BY <1>1 DEF Does
    <2> QED
        BY <2>1, EventRemoved DEF Events
<1> HIDE DEF a
<1>3. /\ Shape(a) /\ Does({}, {"polling", "rx"}, {}, a, u)
      /\ a.ev["polling"] = 0 /\ a.ev["rx"] = 0
    BY <1>1, <1>2 DEF Does, Events
<1>4. /\ Shape(b) /\ Does({"client"}, {"polling", "rx"}, {}, b, u)
      /\ b.client = FALSE /\ b.ev["polling"] = 0 /\ b.ev["rx"] = 0
    BY <1>3 DEF Does, Shape, Fields, Ints
<1> HIDE DEF b
<1>5. Does({"in", "mcr", "ier", "tx", "sync", "txEmpty", "client", "server", "rxState", "retry", "fault"},
           Events \ {"rx timeout"}, {"tx"}, b, u)
    BY <1>4 DEF Does, Events
<1>6. Good(b)
    BY <1>5, GoodKept
<1>7. Shape(c) /\ Listens(c, b) /\ Good(c)
    BY <1>4, <1>6, UnpluggedWell
<1> HIDE DEF c
<1>8. /\ Does(Fields \ {"tx", "sync", "txEmpty", "fifo"}, Events \ Sends, Causes, c, u)
      /\ c.client = FALSE /\ c.rxState = u.rxState /\ c.retry = u.retry
      /\ c.ev["polling"] = 0 /\ c.ev["rx"] = 0
      /\ DrainClose = FALSE => c.server = FALSE /\ c.fault = FALSE /\ c.ev["server polling"] = 0
    <2>1. Does({"client", "rx", "err", "errors", "stale", "again", "lsr", "in", "delta"}, {"polling", "rx", "rx timeout"}, Causes, c, u)
        BY <1>4, <1>7 DEF Listens, Does
    <2>2. c.client = FALSE /\ c.ev["polling"] = 0 /\ c.ev["rx"] = 0
        BY <1>4, <1>7 DEF Listens, Does, Fields, Events
    <2>3. /\ c.rxState = u.rxState /\ c.retry = u.retry
          /\ DrainClose = FALSE => c.server = FALSE /\ c.fault = FALSE /\ c.ev["server polling"] = 0
        BY <2>1 DEF Does, Fields, Events, Free
    <2> QED
        BY <2>1, <2>2, <2>3 DEF Does, Fields, Events, Sends
<1>9. x = c \/ x = SetEvent([c EXCEPT !.server = TRUE], "server polling")
    BY DEF Disconnect, Listening, p, a, b, c
<1>10. CASE x = c
    BY <1>7, <1>8, <1>10, ZeroOne DEF Receives, Alone, Free
<1>11. CASE x = SetEvent([c EXCEPT !.server = TRUE], "server polling")
    <2> DEFINE d == [c EXCEPT !.server = TRUE]
    <2>1. Shape(d) /\ Does({"server"}, {}, {}, d, c) /\ d.server = TRUE /\ d.ev = c.ev
        BY <1>7 DEF Does, Shape, Fields, Ints
    <2> HIDE DEF d
    <2>2. /\ Does({}, {"server polling"}, {}, x, d)
          /\ c.ev["server polling"] = 0 => x.ev["server polling"] = 1
        <3>1. x = SetEvent(d, "server polling")
            BY <1>11 DEF d
        <3> QED
            BY <2>1, <3>1, EventSet DEF Events
    <2>3. Does({"server"}, {"server polling"}, {}, x, c)
        BY <2>1, <2>2 DEF Does
    <2>4. /\ x.server = TRUE /\ x.client = FALSE /\ x.fault = c.fault
          /\ x.rxState = u.rxState /\ x.retry = u.retry
          /\ x.ev["polling"] = 0 /\ x.ev["rx"] = 0
        BY <1>8, <2>1, <2>2, <2>3, ZenonT(60) DEF Does, Fields, Events
    <2>5. Good(x)
        <3>1. Does({"in", "mcr", "ier", "tx", "sync", "txEmpty", "client", "server", "rxState", "retry", "fault"},
                   Events \ {"rx timeout"}, {"tx"}, x, c)
            BY <2>3 DEF Does, Events
        <3> QED
            BY <1>7, <3>1, GoodKept
    <2>6. Does(Fields \ {"tx", "sync", "txEmpty", "fifo"}, Events \ Sends, Causes, x, u)
        BY <1>8, <2>3 DEF Does, Fields, Events, Sends
    <2> QED
        BY <1>8, <2>2, <2>4, <2>5, <2>6 DEF Receives, Alone, Free
<1> QED
    BY <1>9, <1>10, <1>11

\* Nothing was received: the connection goes on, or it has ended.
LEMMA NothingWell ==
    ASSUME NEW u, Shape(u), Good(u), Free(u), NEW x \in Nothing(u)
    PROVE  Receives(x, u) /\ ((Free(x) /\ x.rxState = u.rxState) \/ Alone(x))
<1>1. CASE x \in Quiet(u)
    <2>1. Shape(x) /\ Listens(x, u) /\ Good(x)
        BY <1>1, QuietWell
    <2>2. Receives(x, u) /\ Free(x)
        BY <2>1, ListensReceives, ListensLink
    <2>3. x.rxState = u.rxState
        BY <2>1 DEF Listens, Does, Fields
    <2> QED
        BY <2>2, <2>3
<1>2. CASE x \in Disconnect(u)
    BY <1>2, DisconnectWell
<1> QED
    BY <1>1, <1>2 DEF Nothing

LEMMA ByteWell ==
    ASSUME NEW u, Shape(u), Good(u), NEW x, x = Received(u)
    PROVE  Shape(x) /\ Listens(x, u) /\ Good(x)
<1>1. Listens(x, u) /\ Good(x)
    BY ReceivedWell DEF Received, Good
<1> QED
    BY <1>1 DEF Listens, Does

---------------------------------------------------------------------------
(* The events *)

ModemInv(u) == Shape(u) /\ Good(u) /\ Sender(u) /\ Link(u)

LEMMA Pending ==
    ASSUME NEW n \in {0, 1}, n > 0
    PROVE  n = 1
    OBVIOUS

LEMMA ReceivesSender ==
    ASSUME NEW a, NEW u, Receives(a, u)
    PROVE  /\ Shape(a) /\ Good(a) /\ a.sync = u.sync
           /\ Sender(u) => Sender(a)
           /\ Sending(u) => Sending(a)
<1>1. Does(Fields \ {"tx", "sync", "txEmpty", "fifo"}, Events \ Sends, Causes, a, u) /\ Good(a)
    BY DEF Receives
<1>2. Shape(a)
    BY <1>1 DEF Does
<1> QED
    BY <1>1, <1>2, SenderKept

\* A byte comes, and the receiver waits before it takes the next one
LEMMA ByteAwaited ==
    ASSUME NEW u, Shape(u), Good(u), Free(u), NEW s \in Waits, NEW x, x = Await(Received(u), s)
    PROVE  Receives(x, u) /\ Link(x)
<1> DEFINE b == Received(u)
<1>1. Shape(b) /\ Listens(b, u) /\ Good(b)
    BY ByteWell
<1> HIDE DEF b
<1>2. Free(b)
    BY <1>1, ListensLink
<1>3. x = Await(b, s)
    BY DEF b
<1>4. Receives(x, b) /\ Link(x)
    BY <1>1, <1>2, <1>3, AwaitWell
<1>5. Receives(b, u)
    BY <1>1, ListensReceives
<1> QED
    BY <1>4, <1>5, ReceivesBoth

LEMMA SendsWell ==
    ASSUME NEW u, ModemInv(u), NEW e \in Sends, u.ev[e] > 0, NEW x \in Outcomes(e, Taken(u, e))
    PROVE  ModemInv(x)
<1> DEFINE c == Taken(u, e)
<1>1. u.ev[e] = 1
    <2>1. u.ev[e] \in {0, 1}
        BY DEF ModemInv, Sender
    <2> QED
        BY <2>1, Pending
<1>2. Transmits(c, u) /\ Sending(c) /\ (e \in {"tx", "tx loopback"} => c.sync = FALSE)
    BY <1>1, SendTaken DEF ModemInv
<1>3. x \in Outcomes(e, c)
    OBVIOUS
<1> HIDE DEF c
<1>4. Shape(c) /\ Good(c) /\ Link(c)
    BY <1>2, TransmitsGood, ListensLink DEF ModemInv, Transmits, Does
<1>5. ASSUME NEW a, Shape(a), Good(a), Link(a), Sending(a), a.sync = FALSE, x = ByteTransmitted(a)
      PROVE  ModemInv(x)
    <2>1. Transmits(x, a) /\ Sender(x)
        BY <1>5, TransmittedWell
    <2>2. Shape(x)
        BY <2>1 DEF Transmits, Does
    <2> QED
        BY <1>5, <2>1, <2>2, TransmitsGood, ListensLink DEF ModemInv
<1>6. ASSUME NEW d \in {"tx", "tx loopback"}, x = SetEvent(ByteTransmitting(c), d)
      PROVE  ModemInv(x)
    <2> DEFINE b == ByteTransmitting(c)
    <2>1. Transmits(b, c) /\ Sending(b) /\ b.sync = FALSE
        BY <1>2, <1>4, TransmittingWell
    <2>2. x = SetEvent(b, d) /\ d \in Sends
        BY <1>6 DEF Sends
    <2> HIDE DEF b
    <2>3. Shape(b) /\ Good(b) /\ Link(b)
        BY <1>4, <2>1, TransmitsGood, ListensLink DEF Transmits, Does
    <2>4. Transmits(x, b) /\ Sender(x)
        BY <2>1, <2>2, <2>3, SendSet
    <2>5. Shape(x)
        BY <2>4 DEF Transmits, Does
    <2> QED
        BY <2>3, <2>4, <2>5, TransmitsGood, ListensLink DEF ModemInv
<1>7. CASE e = "thr" \/ e = "thr loopback"
    <2>1. x = SetEvent(ByteTransmitting(c), "tx") \/ x = SetEvent(ByteTransmitting(c), "tx loopback")
        BY <1>3, <1>7 DEF Outcomes, Thr, ThrLoopback
    <2> QED
        BY <1>6, <2>1
<1>8. CASE e = "tx loopback"
    <2> DEFINE a == ReceiveByteEx(c, FALSE)
    <2>1. x = ByteTransmitted(a)
        BY <1>3, <1>8 DEF Outcomes, TxLoopback
    <2>2. Listens(a, c) /\ Good(a)
        BY <1>4, ReceivedWell DEF Good
    <2> HIDE DEF a
    <2>3. Shape(a) /\ Link(a) /\ Sending(a) /\ a.sync = FALSE
        BY <1>2, <1>4, <1>8, <2>2, ListensLink, ListensSender DEF Listens, Does
    <2> QED
        BY <1>5, <2>1, <2>2, <2>3
<1>9. CASE e = "tx"
    <2> DEFINE listens == c.rxState = "idle" /\ CanReceiveByte(c) /\ c.client
               after   == IF listens THEN Nothing(c) \cup {Await(Received(c), "wait")} ELSE {c}
    <2>1. PICK a \in after : x = ByteTransmitted(a)
        BY <1>3, <1>9 DEF Outcomes, Tx
    <2>2. CASE a = c
        BY <1>2, <1>4, <1>5, <1>9, <2>1, <2>2
    <2>3. CASE listens
        <3>1. c.rxState = "idle" /\ (DrainClose = FALSE => c.client = TRUE)
            BY <1>4, <2>3 DEF Link
        <3>2. Free(c)
            BY <1>4, <3>1, LinkIdle
        <3>3. CASE a \in Nothing(c)
            <4>1. Receives(a, c) /\ ((Free(a) /\ a.rxState = "idle") \/ Alone(a))
                BY <1>4, <3>1, <3>2, <3>3, NothingWell
            <4>2. Link(a)
                <5>1. CASE Free(a) /\ a.rxState = "idle"
                    BY <5>1, FreeIdle
                <5>2. CASE Alone(a)
                    BY <5>2, AloneWell
                <5> QED
                    BY <4>1, <5>1, <5>2
            <4> QED
                BY <1>2, <1>5, <1>9, <2>1, <4>1, <4>2, ReceivesSender
        <3>4. CASE a = Await(Received(c), "wait")
            <4>1. Receives(a, c) /\ Link(a)
                BY <1>4, <3>2, <3>4, ByteAwaited DEF Waits
            <4> QED
                BY <1>2, <1>5, <1>9, <2>1, <4>1, ReceivesSender
        <3> QED
            BY <2>1, <2>3, <3>3, <3>4
    <2> QED
        BY <2>1, <2>2, <2>3
<1> QED
    BY <1>7, <1>8, <1>9 DEF Sends

LEMMA TimeoutWell ==
    ASSUME NEW u, ModemInv(u), u.ev["rx timeout"] > 0,
           NEW x \in Outcomes("rx timeout", Taken(u, "rx timeout"))
    PROVE  ModemInv(x)
<1> DEFINE c == Taken(u, "rx timeout")
<1>1. u.ev["rx timeout"] = 1
    <2>1. u.ev["rx timeout"] \in {0, 1}
        BY DEF ModemInv, Good, News
    <2> QED
        BY <2>1, Pending
<1>2. Does({}, {"rx timeout"}, {}, c, u) /\ c.ev["rx timeout"] = 0
    BY <1>1, EventTaken DEF ModemInv, Events
<1>3. x = Rise(c, "timeout")
    BY DEF Outcomes, RxTimeout
<1> HIDE DEF c
<1>4. Does({}, {}, {"timeout"}, x, c) /\ "timeout" \in x.waiting
    <2>1. Shape(c)
        BY <1>2 DEF Does
    <2> QED
        BY <1>3, <2>1, Risen DEF Causes
<1>5. Does({}, {"rx timeout"}, {"timeout"}, x, u)
    BY <1>2, <1>4 DEF Does
<1>6. x.ev["rx timeout"] = 0
    BY <1>2, <1>4 DEF Does, Events
<1>7. /\ x.rx = u.rx /\ x.fifo = u.fifo /\ x.trigger = u.trigger /\ x.err = u.err
      /\ x.errors = u.errors /\ x.stale = u.stale /\ x.again = u.again /\ Size(x) = Size(u)
    BY <1>5 DEF Does, Fields, Size
<1>8. Good(x)
    <2>1. Receiver(x)
        BY <1>7 DEF ModemInv, Good, Receiver
    <2>2. News(x)
        BY <1>4, <1>6 DEF News
    <2>3. /\ Ints(u) => Ints(x)
          /\ x.lsr = u.lsr /\ x.delta = u.delta /\ x.own = u.own
          /\ "error" \in x.waiting <=> "error" \in u.waiting
          /\ "msr" \in x.waiting <=> "msr" \in u.waiting
        BY <1>5 DEF Does, Fields, Causes
    <2>4. Told(x)
        BY <2>3 DEF ModemInv, Good, Told
    <2> QED
        BY <2>1, <2>2, <2>4 DEF Good
<1>9. Listens(x, u) /\ Shape(x)
    BY <1>5 DEF Listens, Does
<1> QED
    BY <1>8, <1>9, ListensSender, ListensLink DEF ModemInv

\* The steps of the connection, from a state that has Free or Link
LEMMA ConnectionWell ==
    ASSUME NEW x, NEW u, Receives(x, u), Link(x), Sender(u)
    PROVE  ModemInv(x)
    BY ReceivesSender DEF ModemInv

LEMMA IdledWell ==
    ASSUME NEW u, Shape(u), Good(u), Free(u), NEW y \in Nothing(u), NEW x, x = Idle(y)
    PROVE  Receives(x, u) /\ Link(x)
<1>1. Receives(y, u) /\ (Free(y) \/ Alone(y))
    BY NothingWell
<1>2. Receives(x, y) /\ Link(x)
    BY <1>1, IdleWell, ReceivesSender
<1> QED
    BY <1>1, <1>2, ReceivesBoth

LEMMA RxWell ==
    ASSUME NEW u, ModemInv(u), u.ev["rx"] > 0, NEW x \in Outcomes("rx", Taken(u, "rx"))
    PROVE  ModemInv(x)
<1> DEFINE c == Taken(u, "rx")
           a == [c EXCEPT !.retry = 0]
<1>1. DrainClose = FALSE => u.ev["rx"] = 1 /\ u.client = TRUE /\ u.rxState \in Waits
    <2>1. DrainClose = FALSE => u.ev["rx"] \in {0, 1}
        BY DEF ModemInv, Link
    <2>2. DrainClose = FALSE => u.ev["rx"] = 1
        BY <2>1, Pending
    <2> QED
        BY <2>2, ZeroOne DEF ModemInv, Link
<1>2. Does({}, {"rx"}, {}, c, u) /\ (u.ev["rx"] = 1 => c.ev["rx"] = 0)
    BY EventTaken DEF ModemInv, Events
<1>3. x \in Rx(c)
    BY DEF Outcomes
<1> HIDE DEF c
<1>4. DrainClose = FALSE =>
      /\ c.ev["rx"] = 0
      /\ c.client = TRUE /\ c.rxState \in Waits /\ c.server = FALSE /\ c.fault = FALSE
      /\ c.retry = u.retry /\ c.ev["polling"] = 1 /\ c.ev["server polling"] = 0
    BY <1>1, <1>2 DEF Does, Fields, Events, ModemInv, Link
<1>5. Free(c)
    BY <1>4 DEF ModemInv, Link, Free
<1>6. Shape(c) /\ Good(c) /\ Receives(c, u)
    <2>1. Does({"in", "mcr", "ier", "tx", "sync", "txEmpty", "client", "server", "rxState", "retry", "fault"},
               Events \ {"rx timeout"}, {"tx"}, c, u)
        BY <1>2 DEF Does, Events
    <2>2. Good(c)
        BY <2>1, GoodKept DEF ModemInv
    <2>3. Does(Fields \ {"tx", "sync", "txEmpty", "fifo"}, Events \ Sends, Causes, c, u)
        BY <1>2 DEF Does, Fields, Events, Sends
    <2> QED
        BY <2>2, <2>3 DEF Receives, Does
<1>7. Sender(c)
    BY <1>6, ReceivesSender DEF ModemInv
<1>8. Free(a) /\ Shape(a) /\ Good(a) /\ Receives(a, c)
    <2>1. Does({"retry"}, {}, {}, a, c) /\ a.retry = 0
        BY <1>6 DEF Does, Shape, Fields, Ints
    <2> HIDE DEF a
    <2>2. DrainClose = FALSE =>
          /\ a.client = TRUE /\ a.rxState \in Waits /\ a.server = FALSE /\ a.fault = FALSE
          /\ a.ev["polling"] = 1 /\ a.ev["server polling"] = 0 /\ a.ev["rx"] = 0
        BY <1>4, <2>1 DEF Does, Fields, Events
    <2>3. 0 \in 0 .. RetryMax - 1
        BY ModemAssumption
    <2>4. Free(a)
        BY <2>1, <2>2, <2>3 DEF Free
    <2>5. Does({"in", "mcr", "ier", "tx", "sync", "txEmpty", "client", "server", "rxState", "retry", "fault"},
               Events \ {"rx timeout"}, {"tx"}, a, c)
        BY <2>1 DEF Does, Events
    <2>6. Good(a)
        BY <1>6, <2>5, GoodKept
    <2>7. Does(Fields \ {"tx", "sync", "txEmpty", "fifo"}, Events \ Sends, Causes, a, c)
        BY <2>1 DEF Does, Fields, Events, Sends
    <2> QED
        BY <2>4, <2>6, <2>7 DEF Receives, Does
<1>9. \/ x = Await(c, "blocked")
      \/ \E y \in Nothing(a) : x = Idle(y)
      \/ \E s \in Waits : x = Await(Received(a), s)
      \/ DrainClose # FALSE /\ (x = c \/ x = [c EXCEPT !.fault = TRUE])
    <2> DEFINE next == IF c.rxState = "wait" THEN "wait" ELSE "fastwait"
    <2>1. next \in Waits
        BY DEF Waits
    <2>2. CASE DrainClose = FALSE
        <3>1. c.rxState \notin {"idle", "disc"} /\ c.client = TRUE
            BY <1>4, <2>2 DEF Waits
        <3>2. x = Await(c, "blocked") \/ x \in {Idle(y) : y \in Nothing(a)} \cup {Await(Received(a), next)}
            BY <1>3, <3>1 DEF Rx
        <3> HIDE DEF next
        <3> QED
            BY <2>1, <3>2
    <2>3. CASE DrainClose # FALSE
        <3>1. \/ x = c \/ x = [c EXCEPT !.fault = TRUE] \/ x = Await(c, "blocked")
              \/ x \in {Idle(y) : y \in Nothing(a)} \cup {Await(Received(a), next)}
            BY <1>3 DEF Rx
        <3> HIDE DEF next
        <3> QED
            BY <2>1, <2>3, <3>1
    <2> QED
        BY <2>2, <2>3
<1> HIDE DEF a
<1>10. Receives(x, c) /\ Link(x)
    <2>1. CASE x = Await(c, "blocked")
        BY <1>5, <1>6, <2>1, AwaitWell DEF Waits
    <2>2. ASSUME NEW y \in Nothing(a), x = Idle(y)
          PROVE  Receives(x, c) /\ Link(x)
        <3>1. Receives(x, a) /\ Link(x)
            BY <1>8, <2>2, IdledWell
        <3> QED
            BY <1>8, <3>1, ReceivesBoth
    <2>3. ASSUME NEW s \in Waits, x = Await(Received(a), s)
          PROVE  Receives(x, c) /\ Link(x)
        <3>1. Receives(x, a) /\ Link(x)
            BY <1>8, <2>3, ByteAwaited
        <3> QED
            BY <1>8, <3>1, ReceivesBoth
    <2>4. CASE DrainClose # FALSE /\ (x = c \/ x = [c EXCEPT !.fault = TRUE])
        <3>1. Does({"fault"}, {}, {}, x, c)
            BY <1>6, <2>4 DEF Does, Shape, Fields, Ints
        <3>2. Does({"in", "mcr", "ier", "tx", "sync", "txEmpty", "client", "server", "rxState", "retry", "fault"},
                   Events \ {"rx timeout"}, {"tx"}, x, c)
            BY <3>1 DEF Does
        <3>3. Does(Fields \ {"tx", "sync", "txEmpty", "fifo"}, Events \ Sends, Causes, x, c)
            BY <3>1 DEF Does, Fields
        <3> QED
            BY <1>6, <2>4, <3>2, <3>3, GoodKept DEF Receives, Link
    <2> QED
        BY <1>9, <2>1, <2>2, <2>3, <2>4
<1> QED
    BY <1>7, <1>10, ConnectionWell

\* Nothing but the retries and the receiver's event changes
LEMMA Rested ==
    ASSUME NEW u, Shape(u), Good(u), Link(u), DrainClose = FALSE => u.client = TRUE,
           NEW a, a = RemoveEvent([u EXCEPT !.retry = 0], "rx")
    PROVE  Free(a) /\ Receives(a, u) /\ a.rxState = u.rxState
<1> DEFINE b == [u EXCEPT !.retry = 0]
<1>1. Shape(b) /\ Does({"retry"}, {}, {}, b, u) /\ b.retry = 0
    BY DEF Does, Shape, Fields, Ints
<1> HIDE DEF b
<1>2. Does({}, {"rx"}, {}, a, b) /\ a.ev["rx"] = 0
    <2>1. a = RemoveEvent(b, "rx")
        BY DEF b
    <2> QED
        BY <1>1, <2>1, EventRemoved DEF Events
<1>3. Does({"retry"}, {"rx"}, {}, a, u) /\ a.retry = 0
    BY <1>1, <1>2 DEF Does, Fields
<1>4. /\ a.client = u.client /\ a.server = u.server /\ a.fault = u.fault /\ a.rxState = u.rxState
      /\ a.ev["polling"] = u.ev["polling"] /\ a.ev["server polling"] = u.ev["server polling"]
    BY <1>3 DEF Does, Fields, Events
<1>5. 0 \in 0 .. RetryMax - 1
    BY ModemAssumption
<1>6. Free(a)
    BY <1>2, <1>3, <1>4, <1>5 DEF Free, Link
<1>7. Does({"in", "mcr", "ier", "tx", "sync", "txEmpty", "client", "server", "rxState", "retry", "fault"},
           Events \ {"rx timeout"}, {"tx"}, a, u)
    BY <1>3 DEF Does, Events
<1>8. Good(a)
    BY <1>7, GoodKept
<1>9. Does(Fields \ {"tx", "sync", "txEmpty", "fifo"}, Events \ Sends, Causes, a, u)
    BY <1>3 DEF Does, Fields, Events, Sends
<1> QED
    BY <1>4, <1>6, <1>8, <1>9 DEF Receives

\* The event of a poll comes and is set again
LEMMA EventRenewed ==
    ASSUME NEW u, ModemInv(u), NEW e \in LinkEvents, u.ev[e] > 0,
           NEW a, a = SetEvent(Taken(u, e), e)
    PROVE  /\ ModemInv(a)
           /\ DrainClose = FALSE => a.ev[e] = 1
<1>1. /\ e \in Events
      /\ DrainClose = FALSE => u.ev[e] = 1
    <2>1. DrainClose = FALSE => u.ev[e] \in {0, 1}
        BY DEF ModemInv, Link, LinkEvents
    <2> QED
        BY <2>1, Pending DEF Events, LinkEvents
<1> DEFINE c == Taken(u, e)
<1>2. Does({}, {e}, {}, c, u) /\ (u.ev[e] = 1 => c.ev[e] = 0)
    BY <1>1, EventTaken DEF ModemInv
<1>3. a = SetEvent(c, e)
    OBVIOUS
<1> HIDE DEF c
<1>4. Does({}, {e}, {}, a, c) /\ (c.ev[e] = 0 => a.ev[e] = 1)
    <2>1. Shape(c)
        BY <1>2 DEF Does
    <2> QED
        BY <1>1, <1>3, <2>1, EventSet
<1>5. Does({}, {e}, {}, a, u)
    BY <1>2, <1>4 DEF Does
<1>6. Does({"in", "mcr", "ier", "tx", "sync", "txEmpty", "client", "server", "rxState", "retry", "fault"},
           Events \ {"rx timeout"}, {"tx"}, a, u)
    BY <1>5 DEF Does, Events, LinkEvents
<1>7. Does(Fields \ {"tx", "sync", "txEmpty", "fifo"}, Events \ Sends, Causes, a, u)
    BY <1>5 DEF Does, Fields, Events, Sends, LinkEvents
<1>8. DrainClose = FALSE => Does({}, {}, {}, a, u)
    BY <1>1, <1>2, <1>4, <1>5 DEF Does
<1>9. DrainClose = FALSE => Does(Fields \ LinkFields, Events \ LinkEvents, Causes, a, u)
    BY <1>8 DEF Does, Fields, LinkFields
<1>10. Link(a)
    BY <1>9, LinkKept DEF ModemInv, Link
<1> QED
    BY <1>1, <1>2, <1>4, <1>6, <1>7, <1>10, GoodKept, SenderKept DEF ModemInv, Does

LEMMA BlockedWell ==
    ASSUME NEW u, ModemInv(u), DrainClose = FALSE => u.client = TRUE, u.rxState = "blocked",
           NEW x \in PollBlocked(u)
    PROVE  ModemInv(x)
<1> DEFINE a == RemoveEvent([u EXCEPT !.retry = 0], "rx")
           d == Received(a)
<1>0. Shape(u) /\ Good(u) /\ Sender(u) /\ Link(u)
    BY DEF ModemInv
<1>10. RetryMax \in Nat /\ (DrainClose = FALSE => u.retry \in 0 .. RetryMax - 1)
    <2>1. RetryMax \in Nat
        BY ModemAssumption
    <2>2. DrainClose = FALSE => u.retry \in 0 .. RetryMax - 1
        BY <1>0 DEF Link
    <2> QED
        BY <2>1, <2>2
<1>1. Free(a) /\ Receives(a, u)
    BY <1>0, Rested
<1>2. \/ \E y \in Nothing(a) : x = Idle(y)
      \/ \E s \in Waits : x = Await(Received(a), s)
      \/ \E y \in Nothing(d) : x = Await(y, "wait") /\ (DrainClose = FALSE => y \in Quiet(d))
      \/ x = [u EXCEPT !.retry = @ + 1] /\ (DrainClose = FALSE => u.retry + 1 < RetryMax)
    <2>1. CASE CanReceiveByte(u)
        BY <2>1 DEF PollBlocked, Waits
    <2>2. CASE ~CanReceiveByte(u) /\ u.retry + 1 >= RetryMax
        <3>1. x \in Overdue(u)
            BY <2>2 DEF PollBlocked
        <3>2. x \in {Idle(y) : y \in Nothing(a)}
                   \cup {Await(y, "wait") : y \in IF DrainClose THEN Nothing(d) ELSE Quiet(d)}
            BY <3>1 DEF Overdue
        <3>3. Quiet(d) \subseteq Nothing(d)
            BY DEF Nothing
        <3> QED
            BY <3>2, <3>3, ModemAssumption
    <2>3. CASE ~CanReceiveByte(u) /\ ~(u.retry + 1 >= RetryMax)
        <3>1. x = [u EXCEPT !.retry = @ + 1]
            BY <2>3 DEF PollBlocked
        <3>2. RetryMax \in Nat /\ (DrainClose = FALSE => u.retry \in Nat)
            BY <1>10
        <3> QED
            BY <2>3, <3>1, <3>2
    <2> QED
        BY <2>1, <2>2, <2>3
<1> HIDE DEF a
<1>3. Shape(a) /\ Good(a)
    BY <1>1 DEF Receives, Does
<1>4. Shape(d) /\ Listens(d, a) /\ Good(d)
    BY <1>3, ByteWell
<1> HIDE DEF d
<1>5. ASSUME Receives(x, a), Link(x) PROVE ModemInv(x)
    BY <1>0, <1>1, <1>5, ReceivesBoth, ConnectionWell
<1>6. ASSUME NEW y \in Nothing(a), x = Idle(y) PROVE ModemInv(x)
    BY <1>1, <1>3, <1>5, <1>6, IdledWell
<1>7. ASSUME NEW s \in Waits, x = Await(Received(a), s) PROVE ModemInv(x)
    BY <1>1, <1>3, <1>5, <1>7, ByteAwaited
<1>8. ASSUME NEW y \in Nothing(d), x = Await(y, "wait"), DrainClose = FALSE => y \in Quiet(d)
      PROVE  ModemInv(x)
    <2>1. Free(d)
        BY <1>1, <1>4, ListensLink
    <2>2. Receives(y, d)
        BY <1>4, <2>1, NothingWell
    <2>3. Shape(y) /\ Good(y)
        BY <2>2, ReceivesSender
    <2>4. Free(y)
        <3>1. CASE y \in Quiet(d)
            BY <1>4, <2>1, <3>1, QuietWell, ListensLink
        <3>2. CASE DrainClose # FALSE
            BY <3>2 DEF Free
        <3> QED
            BY <1>8, <3>1, <3>2
    <2>5. Receives(y, a)
        BY <1>4, <2>2, ListensReceives, ReceivesBoth
    <2>6. Receives(x, y) /\ Link(x)
        BY <1>8, <2>3, <2>4, AwaitWell DEF Waits
    <2> QED
        BY <1>5, <2>5, <2>6, ReceivesBoth
<1>9. CASE x = [u EXCEPT !.retry = @ + 1] /\ (DrainClose = FALSE => u.retry + 1 < RetryMax)
    <2>1. Does({"retry"}, {}, {}, x, u) /\ x.retry = u.retry + 1
        BY <1>0, <1>9 DEF Does, Shape, Fields, Ints
    <2>2. DrainClose = FALSE => x.retry \in 0 .. RetryMax - 1
        BY <1>10, <1>9, <2>1
    <2>3. /\ x.client = u.client /\ x.server = u.server /\ x.rxState = u.rxState /\ x.fault = u.fault
          /\ \A e \in LinkEvents : x.ev[e] = u.ev[e]
        BY <2>1 DEF Does, Fields, Events, LinkEvents
    <2>4. Link(x)
        BY <1>0, <2>2, <2>3 DEF Link, LinkEvents
    <2>5. Does({"in", "mcr", "ier", "tx", "sync", "txEmpty", "client", "server", "rxState", "retry", "fault"},
               Events \ {"rx timeout"}, {"tx"}, x, u)
        BY <2>1 DEF Does, Events
    <2>6. Good(x)
        BY <1>0, <2>5, GoodKept
    <2>7. Does(Fields \ {"tx", "sync", "txEmpty", "fifo"}, Events \ Sends, Causes, x, u)
        BY <2>1 DEF Does, Fields, Events, Sends
    <2> QED
        BY <1>0, <2>4, <2>6, <2>7, ConnectionWell DEF Receives
<1> QED
    BY <1>2, <1>6, <1>7, <1>8, <1>9

LEMMA PollingWell ==
    ASSUME NEW u, ModemInv(u), u.ev["polling"] > 0,
           NEW x \in Outcomes("polling", Taken(u, "polling"))
    PROVE  ModemInv(x)
<1> DEFINE c == SetEvent(Taken(u, "polling"), "polling")
<1>1. ModemInv(c) /\ (DrainClose = FALSE => c.ev["polling"] = 1)
    BY EventRenewed DEF LinkEvents
<1>2. x \in Polling(Taken(u, "polling"))
    BY DEF Outcomes
<1>3. \/ c.rxState = "idle" /\ x \in PollIdle(c)
      \/ c.rxState = "blocked" /\ x \in PollBlocked(c)
      \/ x = c
    BY <1>2 DEF Polling
<1> HIDE DEF c
<1>4. Shape(c) /\ Good(c) /\ Sender(c) /\ Link(c)
    BY <1>1 DEF ModemInv
<1>5. DrainClose = FALSE => c.client = TRUE
    BY <1>1, <1>4, ZeroOne DEF Link
<1>6. CASE c.rxState = "idle" /\ x \in PollIdle(c)
    <2>1. Free(c)
        BY <1>4, <1>5, <1>6, LinkIdle
    <2>2. x \in Nothing(c) \/ x = Await(Received(c), "wait") \/ x = Await(c, "blocked")
        BY <1>6 DEF PollIdle
    <2>3. CASE x \in Nothing(c)
        <3>1. Receives(x, c) /\ ((Free(x) /\ x.rxState = "idle") \/ Alone(x))
            BY <1>4, <1>6, <2>1, <2>3, NothingWell
        <3>2. Link(x)
            <4>1. CASE Free(x) /\ x.rxState = "idle"
                BY <4>1, FreeIdle
            <4>2. CASE Alone(x)
                BY <4>2, AloneWell
            <4> QED
                BY <3>1, <4>1, <4>2
        <3> QED
            BY <1>4, <3>1, <3>2, ConnectionWell
    <2>4. CASE x = Await(Received(c), "wait")
        BY <1>4, <2>1, <2>4, ByteAwaited, ConnectionWell DEF Waits
    <2>5. CASE x = Await(c, "blocked")
        BY <1>4, <2>1, <2>5, AwaitWell, ConnectionWell DEF Waits
    <2> QED
        BY <2>2, <2>3, <2>4, <2>5
<1>7. CASE c.rxState = "blocked" /\ x \in PollBlocked(c)
    BY <1>1, <1>5, <1>7, BlockedWell
<1> QED
    BY <1>1, <1>3, <1>6, <1>7

LEMMA ServerPollingWell ==
    ASSUME NEW u, ModemInv(u), u.ev["server polling"] > 0,
           NEW x \in Outcomes("server polling", Taken(u, "server polling"))
    PROVE  ModemInv(x)
<1> DEFINE t == Taken(u, "server polling")
           b == [t EXCEPT !.server = FALSE]
           p == SetEvent(b, "polling")
           a == Connected(b)
<1>1. x = SetEvent(t, "server polling") \/ x = a \/ x = SetModemLine(a, "cd", TRUE)
    BY DEF Outcomes, ServerPolling
<1>2. CASE x = SetEvent(t, "server polling")
    BY <1>2, EventRenewed DEF LinkEvents
<1>3. DrainClose = FALSE => u.ev["server polling"] = 1 /\ u.client = FALSE
    <2>1. DrainClose = FALSE => u.ev["server polling"] \in {0, 1}
        BY DEF ModemInv, Link
    <2>2. DrainClose = FALSE => u.ev["server polling"] = 1
        BY <2>1, Pending
    <2> QED
        BY <2>2, ZeroOne DEF ModemInv, Link
<1>4. /\ Does({}, {"server polling"}, {}, t, u)
      /\ u.ev["server polling"] = 1 => t.ev["server polling"] = 0
    BY EventTaken DEF ModemInv, Events
<1> HIDE DEF t
<1>5. /\ Shape(b) /\ Does({"server"}, {}, {}, b, t) /\ b.server = FALSE /\ b.ev = t.ev
    BY <1>4 DEF Does, Shape, Fields, Ints
<1> HIDE DEF b
<1>6. /\ Does({"server"}, {"server polling"}, {}, b, u)
      /\ DrainClose = FALSE => b.ev["server polling"] = 0 /\ b.ev["polling"] = 0 /\ b.ev["rx"] = 0
    <2>1. Does({"server"}, {"server polling"}, {}, b, u)
        BY <1>4, <1>5 DEF Does
    <2> QED
        BY <1>3, <1>4, <1>5, <2>1 DEF Does, Events, ModemInv, Link
<1>7. Does({}, {"polling"}, {}, p, b) /\ (b.ev["polling"] = 0 => p.ev["polling"] = 1)
    BY <1>5, EventSet DEF Events
<1>8. a = [p EXCEPT !.client = TRUE, !.rxState = "idle"]
    BY DEF Connected
<1> HIDE DEF p, a
<1>9. Does({"client", "rxState"}, {}, {}, a, p) /\ a.client = TRUE /\ a.rxState = "idle" /\ a.ev = p.ev
    BY <1>7, <1>8 DEF Does, Shape, Fields, Ints
<1>10. Does({"client", "server", "rxState"}, {"polling", "server polling"}, {}, a, u)
    BY <1>6, <1>7, <1>9, ZenonT(60) DEF Does
<1>11. DrainClose = FALSE =>
       /\ a.server = FALSE /\ a.retry = u.retry /\ a.fault = u.fault
       /\ a.ev["polling"] = 1 /\ a.ev["server polling"] = 0 /\ a.ev["rx"] = 0
    BY <1>5, <1>6, <1>7, <1>9, <1>10, ZenonT(60) DEF Does, Fields, Events
<1>12. Link(a)
    <2>1. Free(a)
        BY <1>9, <1>11 DEF Free, Link, ModemInv
    <2> QED
        BY <1>9, <2>1, FreeIdle
<1>13. Does({"in", "mcr", "ier", "tx", "sync", "txEmpty", "client", "server", "rxState", "retry", "fault"},
            Events \ {"rx timeout"}, {"tx"}, a, u)
    BY <1>10 DEF Does, Events
<1>14. Good(a)
    BY <1>13, GoodKept DEF ModemInv
<1>15. Receives(a, u)
    BY <1>10, <1>14 DEF Receives, Does, Fields, Events, Sends
<1>16. ModemInv(a)
    BY <1>12, <1>15, ConnectionWell DEF ModemInv
<1>17. CASE x = SetModemLine(a, "cd", TRUE)
    <2>1. Does({"in", "delta"}, {}, {"msr"}, x, a) /\ Good(x)
        BY <1>16, <1>17, LineSetWell DEF ModemInv
    <2>2. Listens(x, a) /\ Shape(x)
        BY <2>1 DEF Listens, Does
    <2> QED
        BY <1>16, <2>1, <2>2, ListensSender, ListensLink DEF ModemInv
<1> QED
    BY <1>1, <1>2, <1>16, <1>17

---------------------------------------------------------------------------
(* The guest *)

LEMMA RegisterWell ==
    ASSUME NEW x, NEW u, ModemInv(u), Good(x),
           Does({"ier", "mcr", "in", "delta", "own", "lsr"}, {}, Causes, x, u)
    PROVE  ModemInv(x)
<1>1. Does(Fields \ {"tx", "sync", "txEmpty", "fifo"}, Events \ Sends, Causes, x, u)
    BY DEF Does, Fields
<1>2. Does(Fields \ LinkFields, Events \ LinkEvents, Causes, x, u)
    BY DEF Does, Fields, LinkFields
<1> QED
    BY <1>1, <1>2, SenderKept, LinkKept DEF ModemInv, Does

LEMMA GuestWell ==
    ASSUME ModemInv(com), Guest
    PROVE  ModemInv(com')
<1>0. Shape(com) /\ Good(com) /\ Sender(com) /\ Link(com)
    BY DEF ModemInv
<1>1. CASE com' = WriteTHR(com)
    <2>1. Transmits(com', com) /\ Sender(com')
        BY <1>0, <1>1, ThrWritten
    <2>2. Shape(com')
        BY <2>1 DEF Transmits, Does
    <2> QED
        BY <1>0, <2>1, <2>2, TransmitsGood, ListensLink DEF ModemInv
<1>2. CASE com' = ReadRHR(com)
    <2>1. Listens(com', com) /\ Good(com')
        BY <1>0, <1>2, ReadWell DEF Good
    <2>2. Shape(com')
        BY <2>1 DEF Listens, Does
    <2> QED
        BY <1>0, <2>1, <2>2, ListensSender, ListensLink DEF ModemInv
<1>3. ASSUME NEW data, com' = WriteIER(com, data) PROVE ModemInv(com')
    <2>1. Does({"ier"}, {}, {"tx"}, com', com) /\ Good(com')
        BY <1>0, <1>3, IerWritten
    <2>2. Does({"ier", "mcr", "in", "delta", "own", "lsr"}, {}, Causes, com', com)
        BY <2>1 DEF Does
    <2> QED
        BY <2>1, <2>2, RegisterWell
<1>4. ASSUME NEW data \in Fcrs, NEW old \in Left(com, data), com' = WriteFCR(com, data, old)
      PROVE  ModemInv(com')
    <2>0. old \in BOOLEAN
        BY DEF Left
    <2>1. /\ Does({"fifo", "errors", "err", "stale", "again", "rx", "tx", "trigger"}, {}, {}, com', com)
          /\ Good(com')
          /\ com'.tx = 0 \/ (com'.tx = com.tx /\ Size(com') = Size(com))
        BY <1>0, <1>4, <2>0, FcrWritten
    <2>2. Sender(com')
        BY <1>0, <2>1, FcrSender
    <2>3. Does(Fields \ LinkFields, Events \ LinkEvents, Causes, com', com) /\ Shape(com')
        BY <2>1 DEF Does, Fields, LinkFields
    <2> QED
        BY <1>0, <2>1, <2>2, <2>3, LinkKept DEF ModemInv
<1>5. ASSUME NEW data, com' = WriteMCR(com, data) PROVE ModemInv(com')
    <2>1. Does({"delta", "mcr"}, {}, {"msr"}, com', com) /\ Good(com')
        BY <1>0, <1>5, McrWritten
    <2>2. Does({"ier", "mcr", "in", "delta", "own", "lsr"}, {}, Causes, com', com)
        BY <2>1 DEF Does
    <2> QED
        BY <2>1, <2>2, RegisterWell
<1>6. CASE com' = ReadISR(com)
    <2>1. Does({}, {}, {"tx"}, com', com) /\ Good(com')
        BY <1>0, <1>6, IsrReadWell
    <2>2. Does({"ier", "mcr", "in", "delta", "own", "lsr"}, {}, Causes, com', com)
        BY <2>1 DEF Does
    <2> QED
        BY <2>1, <2>2, RegisterWell
<1>7. CASE com' = ReadLSR(com)
    <2>1. Does({"lsr"}, {}, {"error"}, com', com) /\ Good(com')
        BY <1>0, <1>7, LsrReadWell
    <2>2. Does({"ier", "mcr", "in", "delta", "own", "lsr"}, {}, Causes, com', com)
        BY <2>1 DEF Does
    <2> QED
        BY <2>1, <2>2, RegisterWell
<1>8. CASE com' = ReadMSR(com)
    <2>1. Does({"delta", "own"}, {}, {"msr"}, com', com) /\ Good(com')
        BY <1>0, <1>8, MsrReadWell
    <2>2. Does({"ier", "mcr", "in", "delta", "own", "lsr"}, {}, Causes, com', com)
        BY <2>1 DEF Does
    <2> QED
        BY <2>1, <2>2, RegisterWell
<1>9. ASSUME NEW data, com' = WriteMSR(com, data) PROVE ModemInv(com')
    <2>1. Does({"delta", "own"}, {}, {"msr"}, com', com) /\ Good(com')
        BY <1>0, <1>9, MsrWritten
    <2>2. Does({"ier", "mcr", "in", "delta", "own", "lsr"}, {}, Causes, com', com)
        BY <2>1 DEF Does
    <2> QED
        BY <2>1, <2>2, RegisterWell
<1> QED
    BY <1>1, <1>2, <1>3, <1>4, <1>5, <1>6, <1>7, <1>8, <1>9 DEF Guest

LEMMA InitWell ==
    ASSUME Init
    PROVE  ModemInv(com)
<1>0. PICK old \in BOOLEAN : com = NewPort(old)
    BY DEF Init
<1> DEFINE u == [f \in DOMAIN InitRegisters(old) \cup DOMAIN Modem |->
                     IF f \in DOMAIN Modem THEN Modem[f] ELSE InitRegisters(old)[f]]
           a == SetEvent(u, "server polling")
           b == SetModemLine(a, "cts", Transparent)
           c == SetModemLine(b, "dsr", Transparent)
           d == SetModemLine(c, "ri", FALSE)
<1>1. com = SetModemLine(d, "cd", FALSE)
    BY <1>0 DEF NewPort
<1>2. /\ Shape(u)
      /\ u.stale \in BOOLEAN /\ u.again = FALSE /\ u.own = {}
      /\ u.rx = 0 /\ u.err = <<>> /\ u.errors = 0 /\ u.trigger = 1 /\ u.fifo = FALSE
      /\ u.tx = 0 /\ u.sync = FALSE /\ u.txEmpty = TRUE /\ u.lsr = FALSE
      /\ u.ier = {} /\ u.waiting = {} /\ u.irq = FALSE /\ u.line = FALSE /\ u.delta = {}
      /\ \A e \in Events : u.ev[e] = 0
      /\ u.client = FALSE /\ u.server = TRUE /\ u.rxState = "disc" /\ u.retry = 0 /\ u.fault = FALSE
    BY DEF InitRegisters, Modem, Shape, Fields
<1> HIDE DEF u
<1>3. Does({}, {"server polling"}, {}, a, u) /\ a.ev["server polling"] = 1
    BY <1>2, EventSet DEF Events
<1> HIDE DEF a
<1>4. Good(u) /\ Sender(u)
    <2>1. Size(u) = 1 /\ FifoSize \in Nat \ {0}
        BY <1>2, FifoAssumption DEF Size
    <2>2. <<>> \in Seq(BOOLEAN) /\ Cardinality(Marks(<<>>)) = 0
        BY EmptySeq, MarksCounted
    <2>3. Receiver(u)
        <3>1. u.trigger \in 1 .. FifoSize /\ u.rx \in 0 .. Size(u)
            BY <1>2, <2>1
        <3>2. /\ u.err \in Seq(BOOLEAN) /\ u.errors = Cardinality(Marks(u.err))
              /\ u.errors \in 0 .. Word - 1
            BY <1>2, <2>2, FifoAssumption
        <3> QED
            BY <1>2, <3>1, <3>2 DEF Receiver
    <2>4. News(u)
        <3>1. ~(0 > 0)
            OBVIOUS
        <3> QED
            BY <1>2, <3>1 DEF News, Events
    <2>5. Told(u)
        BY <1>2 DEF Told, Ints
    <2>6. Sender(u)
        <3>1. u.tx \in 0 .. Size(u)
            BY <1>2, <2>1
        <3> QED
            BY <1>2, <3>1, ZeroOne, ZenonT(60) DEF Sender, Sends, Events
    <2> QED
        BY <2>3, <2>4, <2>5, <2>6 DEF Good
<1>5. Does({"in", "mcr", "ier", "tx", "sync", "txEmpty", "client", "server", "rxState", "retry", "fault"},
           Events \ {"rx timeout"}, {"tx"}, a, u)
    BY <1>3 DEF Does, Events
<1>6. Does(Fields \ {"tx", "sync", "txEmpty", "fifo"}, Events \ Sends, Causes, a, u)
    BY <1>3 DEF Does, Fields, Events, Sends
<1>7. Link(a)
    <2>1. /\ a.client = FALSE /\ a.server = TRUE /\ a.rxState = "disc" /\ a.retry = 0 /\ a.fault = FALSE
          /\ a.ev["polling"] = 0 /\ a.ev["rx"] = 0
        BY <1>2, <1>3, ZenonT(60) DEF Does, Fields, Events
    <2>2. 0 \in 0 .. RetryMax - 1
        BY ModemAssumption
    <2> QED
        BY <1>3, <2>1, <2>2, ZeroOne DEF Link
<1>8. ModemInv(a)
    BY <1>4, <1>5, <1>6, <1>7, GoodKept, SenderKept DEF ModemInv, Does
<1>9. ASSUME NEW x, ModemInv(x), NEW l, NEW on \in BOOLEAN, NEW y, y = SetModemLine(x, l, on)
      PROVE  ModemInv(y)
    <2>1. Does({"in", "delta"}, {}, {"msr"}, y, x) /\ Good(y)
        BY <1>9, LineSetWell DEF ModemInv
    <2>2. Does({"ier", "mcr", "in", "delta", "own", "lsr"}, {}, Causes, y, x)
        BY <2>1 DEF Does
    <2> QED
        BY <1>9, <2>1, <2>2, RegisterWell
<1>10. Transparent \in BOOLEAN
    BY ModemAssumption
<1>11. ModemInv(b)
    BY <1>8, <1>9, <1>10
<1> HIDE DEF b
<1>12. ModemInv(c)
    BY <1>9, <1>10, <1>11
<1> HIDE DEF c
<1>13. ModemInv(d)
    BY <1>9, <1>12
<1> HIDE DEF d
<1> QED
    BY <1>1, <1>9, <1>13

---------------------------------------------------------------------------
(* The theorems *)

\* The invariant is inductive
LEMMA InvariantKept ==
    Spec => []ModemInv(com)
<1>1. Init => ModemInv(com)
    BY InitWell
<1>2. ModemInv(com) /\ [Next]_vars => ModemInv(com)'
    <2> SUFFICES ASSUME ModemInv(com), [Next]_vars
                 PROVE  ModemInv(com')
        OBVIOUS
    <2>1. CASE Guest
        BY <2>1, GuestWell
    <2>2. ASSUME NEW e \in Events, Handle(e)
          PROVE  ModemInv(com')
        <3>1. com.ev[e] > 0 /\ com' \in Outcomes(e, Taken(com, e))
            BY <2>2 DEF Handle
        <3>2. CASE e \in Sends
            BY <3>1, <3>2, SendsWell
        <3>3. CASE e = "rx timeout"
            BY <3>1, <3>3, TimeoutWell
        <3>4. CASE e = "rx"
            BY <3>1, <3>4, RxWell
        <3>5. CASE e = "polling"
            BY <3>1, <3>5, PollingWell
        <3>6. CASE e = "server polling"
            BY <3>1, <3>6, ServerPollingWell
        <3> QED
            BY <3>2, <3>3, <3>4, <3>5, <3>6 DEF Events, Sends
    <2>3. CASE UNCHANGED vars
        BY <2>3 DEF vars
    <2> QED
        BY <2>1, <2>2, <2>3 DEF Next
<1> QED
    BY <1>1, <1>2, PTL DEF Spec

\* Received data is announced to the guest or about to be, whatever it does with
\* the FIFOs, their trigger and the loopback (receiveByteEx, Read_RHR, Write_FCR)
THEOREM DataAnnounced == Spec => []DataIsAnnounced
<1>1. ModemInv(com) => DataIsAnnounced
    <2> SUFFICES ASSUME ModemInv(com), com.rx > 0
                 PROVE  {"rx", "timeout"} \cap com.waiting # {} \/ com.ev["rx timeout"] = 1
        BY DEF DataIsAnnounced
    <2>1. "rx" \in com.waiting \/ "timeout" \in com.waiting \/ com.ev["rx timeout"] = 1
        BY DEF ModemInv, Good, News
    <2> QED
        BY <2>1
<1> QED
    BY <1>1, InvariantKept, PTL

LEMMA SendsActive ==
    ASSUME ModemInv(com)
    PROVE  Active(Sends) = {e \in Sends : com.ev[e] = 1}
<1>1. \A e \in Sends : com.ev[e] \in {0, 1}
    BY DEF ModemInv, Sender
<1>2. ASSUME NEW e \in Sends
      PROVE  com.ev[e] > 0 <=> com.ev[e] = 1
    <2>1. com.ev[e] \in {0, 1}
        BY <1>1
    <2> QED
        BY <2>1
<1> QED
    BY <1>2 DEF Active

\* The transmitter neither hangs nor sends two bytes at a time: LSR's TX_EMPTY
\* and the transmit events agree (Write_THR, ByteTransmitting, ByteTransmitted)
THEOREM TransmitterRuns == Spec => []TransmitterBusy
<1>1. ModemInv(com) => TransmitterBusy
    <2> SUFFICES ASSUME ModemInv(com)
                 PROVE  TransmitterBusy
        OBVIOUS
    <2> DEFINE sending == Active({"thr", "tx", "thr loopback", "tx loopback"})
    <2>1. sending = {e \in Sends : com.ev[e] = 1}
        BY SendsActive DEF Sends
    <2> HIDE DEF sending
    <2>2. sending = {} <=> com.txEmpty
        <3>1. CASE com.txEmpty = TRUE
            <4>1. \A e \in Sends : com.ev[e] = 0
                BY <3>1 DEF ModemInv, Sender
            <4> QED
                BY <2>1, <3>1, <4>1, ZeroOne
        <3>2. CASE com.txEmpty = FALSE
            <4>1. \E e \in Sends : com.ev[e] = 1
                BY <3>2 DEF ModemInv, Sender
            <4> QED
                BY <2>1, <3>2, <4>1
        <3> QED
            BY <3>1, <3>2 DEF ModemInv, Sender
    <2>3. \A d, e \in sending : d = e
        BY <2>1 DEF ModemInv, Sender
    <2>4. com.txEmpty => com.tx = 0 /\ ~com.sync
        <3>1. CASE com.txEmpty = TRUE
            <4>1. com.tx = 0 /\ com.sync = FALSE
                BY <3>1 DEF ModemInv, Sender
            <4> QED
                BY <4>1
        <3>2. CASE com.txEmpty = FALSE
            BY <3>2
        <3> QED
            BY <3>1, <3>2 DEF ModemInv, Sender
    <2>5. com.sync => sending \subseteq {"thr", "thr loopback"}
        <3>1. CASE com.sync = TRUE
            <4>1. com.ev["tx"] = 0 /\ com.ev["tx loopback"] = 0
                BY <3>1 DEF ModemInv, Sender
            <4> QED
                BY <2>1, <4>1, ZeroOne DEF Sends
        <3>2. CASE com.sync = FALSE
            BY <3>2
        <3> QED
            BY <3>1, <3>2 DEF ModemInv, Sender
    <2> QED
        BY <2>2, <2>3, <2>4, <2>5 DEF TransmitterBusy, sending
<1> QED
    BY <1>1, InvariantKept, PTL

\* What the guest can ask for is what it was told: the interrupt line and LSR's
\* errors agree with the causes that wait, and a delta of MSR has its cause wait
\* unless the guest wrote it there itself (ComputeInterrupts, Write_MSR)
THEOREM CausesReal == Spec => []CausesAreReal
<1>1. ModemInv(com) => CausesAreReal
    <2> SUFFICES ASSUME ModemInv(com)
                 PROVE  CausesAreReal
        OBVIOUS
    <2>1. Ints(com) /\ com.lsr \in BOOLEAN
        BY DEF ModemInv, Good, Told
    <2>2. com.irq <=> com.ier \cap com.waiting # {}
        <3>1. CASE com.irq = TRUE
            BY <2>1, <3>1 DEF Ints
        <3>2. CASE com.irq = FALSE
            BY <2>1, <3>2 DEF Ints
        <3> QED
            BY <2>1, <3>1, <3>2 DEF Ints
    <2>3. "op2" \in com.mcr /\ com.line => com.irq
        <3>1. CASE com.line = TRUE
            BY <2>1, <3>1 DEF Ints
        <3>2. CASE com.line = FALSE
            BY <3>2
        <3> QED
            BY <2>1, <3>1, <3>2 DEF Ints
    <2>4. com.lsr <=> "error" \in com.waiting
        <3>1. CASE com.lsr = TRUE
            BY <3>1 DEF ModemInv, Good, Told
        <3>2. CASE com.lsr = FALSE
            BY <3>2 DEF ModemInv, Good, Told
        <3> QED
            BY <2>1, <3>1, <3>2
    <2>5. com.delta \subseteq com.own \/ "msr" \in com.waiting
        BY DEF ModemInv, Good, Told
    <2> QED
        BY <2>2, <2>3, <2>4, <2>5 DEF CausesAreReal
<1> QED
    BY <1>1, InvariantKept, PTL

\* No event of a port is ever set twice, the error FIFO is in step with the data
\* FIFO however the guest reads it, and errors_in_fifo counts the marks until the
\* guest takes one a second time, when the connection never ends behind overdue
\* bytes (Read_RHR, MyFifo::getb, Write_FCR)
THEOREM FifosKept == ASSUME DrainClose = FALSE PROVE Spec => []FifosOK
<1>1. ModemInv(com) => FifosOK
    <2> SUFFICES ASSUME ModemInv(com)
                 PROVE  FifosOK
        OBVIOUS
    <2>1. Receiver(com)
        BY DEF ModemInv, Good
    <2>2. \A e \in Events : com.ev[e] \in {0, 1}
        <3>1. \A e \in Sends : com.ev[e] \in {0, 1}
            BY DEF ModemInv, Sender
        <3>2. \A e \in LinkEvents : com.ev[e] \in {0, 1}
            BY DEF ModemInv, Link, LinkEvents
        <3>3. com.ev["rx timeout"] \in {0, 1}
            BY DEF ModemInv, Good, News
        <3>4. Events = Sends \cup LinkEvents \cup {"rx timeout"}
            BY DEF Events, Sends, LinkEvents
        <3> QED
            BY <3>1, <3>2, <3>3, <3>4
    <2>3. /\ com.tx \in 0 .. Size(com)
          /\ com.rxState \in {"disc", "idle", "wait", "fastwait", "blocked"}
          /\ com.retry \in 0 .. RetryMax - 1
        BY DEF ModemInv, Sender, Link, Waits
    <2>4. com.fifo => Len(com.err) = com.rx
        <3>1. CASE com.fifo = TRUE
            BY <2>1, <3>1 DEF Receiver
        <3>2. CASE com.fifo = FALSE
            BY <3>2
        <3> QED
            BY <2>1, <3>1, <3>2 DEF Receiver
    <2>5. Marks(com.err) = {i \in DOMAIN com.err : com.err[i]}
        <3>1. \A i \in DOMAIN com.err : com.err[i] \in BOOLEAN
            BY <2>1 DEF Receiver
        <3> QED
            BY <3>1, Zenon DEF Marks
    <2>6. ~com.fifo => com.errors = 0
        <3>1. CASE com.fifo = FALSE
            BY <2>1, <3>1 DEF Receiver
        <3>2. CASE com.fifo = TRUE
            BY <3>2
        <3> QED
            BY <2>1, <3>1, <3>2 DEF Receiver
    <2>7. ~com.again => com.errors = Cardinality({i \in DOMAIN com.err : com.err[i]})
        <3>1. CASE com.again = FALSE
            BY <2>1, <2>5, <3>1 DEF Receiver
        <3>2. CASE com.again = TRUE
            BY <3>2
        <3> QED
            BY <2>1, <3>1, <3>2 DEF Receiver
    <2> QED
        BY <2>1, <2>2, <2>3, <2>4, <2>6, <2>7 DEF FifosOK, TypeOK, ErrorsInStep, Receiver
<1> QED
    BY <1>1, InvariantKept, PTL

\* Under the same condition a connection is polled for as long as it lasts, and
\* no deleted socket is used (Disconnect, handleUpperEvent)
THEOREM ReceiverKept == ASSUME DrainClose = FALSE PROVE Spec => []ReceiverRuns
<1>1. ModemInv(com) => ReceiverRuns
    <2> SUFFICES ASSUME ModemInv(com)
                 PROVE  ReceiverRuns
        OBVIOUS
    <2>1. Link(com)
        BY DEF ModemInv
    <2>2. com.client \in BOOLEAN /\ com.server \in BOOLEAN /\ com.fault = FALSE
        BY <2>1 DEF Link
    <2>3. ASSUME com.client = TRUE
          PROVE  /\ Active({"polling", "server polling"}) = {"polling"}
                 /\ com.ev["rx"] = 1 <=> com.rxState # "idle"
        <3>1. /\ com.ev["polling"] = 1 /\ com.ev["server polling"] = 0
              /\ com.ev["rx"] = 1 <=> com.rxState # "idle"
            BY <2>1, <2>3 DEF Link
        <3>2. com.ev["polling"] > 0 /\ ~ (com.ev["server polling"] > 0)
            BY <3>1, Positive, Zenon
        <3>3. Active({"polling", "server polling"}) = {"polling"}
            BY <3>2 DEF Active
        <3> QED
            BY <3>1, <3>3
    <2>4. ASSUME com.client = FALSE
          PROVE  /\ Active({"polling", "rx"}) = {}
                 /\ com.ev["server polling"] = 1 <=> com.server
        <3>1. /\ com.ev["polling"] = 0 /\ com.ev["rx"] = 0
              /\ com.ev["server polling"] = 1 <=> com.server = TRUE
            BY <2>1, <2>4 DEF Link
        <3>2. ~ (com.ev["polling"] > 0) /\ ~ (com.ev["rx"] > 0)
            BY <3>1, Positive, Zenon
        <3>3. Active({"polling", "rx"}) = {}
            BY <3>2 DEF Active
        <3>4. CASE com.server = TRUE
            BY <3>1, <3>3, <3>4
        <3>5. CASE com.server = FALSE
            BY <3>1, <3>3, <3>5
        <3> QED
            BY <2>2, <3>4, <3>5
    <2>5. CASE com.client = TRUE
        BY <2>2, <2>3, <2>5 DEF ReceiverRuns
    <2>6. CASE com.client = FALSE
        BY <2>2, <2>4, <2>6 DEF ReceiverRuns
    <2> QED
        BY <2>2, <2>5, <2>6
<1> QED
    BY <1>1, InvariantKept, PTL
=============================================================================
