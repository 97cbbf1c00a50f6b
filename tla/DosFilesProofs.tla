--------------------------- MODULE DosFilesProofs ---------------------------
(***************************************************************************)
(* Proofs about DosFiles: the reference counts, for tables of any size and *)
(* any number of processes.                                                *)
(*                                                                         *)
(* Counted is inductive with Tree: a file's count is the number of handles *)
(* of it that existing processes have, it is open as long as that is not   *)
(* 0, and a slot with no handle is free. The lemmas follow the calls.      *)
(* Opened, Duplicated and Closed write one handle of the current process,  *)
(* so one file gains or loses the pair <<process, handle>>, and one count  *)
(* changes by 1. Starting a process adds {p} \X copied to the handles,     *)
(* ending one takes all of its pairs away, and the counts follow, file by  *)
(* file. Calls made of several are the composition: what Opened has done   *)
(* Closed undoes, which is what a failed call needs (Same). What one call  *)
(* leaves to the other processes is Kept.                                  *)
(***************************************************************************)
EXTENDS DosFiles, FiniteSetTheorems, WellFoundedInduction, TLAPS

\* A set of numbers has a smallest one
LEMMA SmallestIsMember ==
    ASSUME NEW S \in SUBSET Nat, S # {}
    PROVE  Min(S) \in S /\ \A x \in S : Min(S) <= x
<1> DEFINE R == {p \in Nat \X Nat : p[1] < p[2]}
<1>1. IsWellFoundedOn(R, Nat)
    BY NatLessThanWellFounded DEF OpToRel
<1>2. PICK x \in S : \A y \in S : ~(<<y, x>> \in R)
    <2> HIDE DEF R
    <2> QED
        BY <1>1, WFMin
<1>3. ASSUME NEW y \in S PROVE x <= y
    <2>1. x \in Nat /\ y \in Nat
        OBVIOUS
    <2>2. y < x => <<y, x>> \in R
        BY <2>1
    <2> QED
        BY <1>2, <2>1, <2>2
<1> QED
    BY <1>3 DEF Min


---------------------------------------------------------------------------

\* What the calls on handles leave alone
SameProcesses(c, d) ==
    /\ c.parent = d.parent /\ c.psp = d.psp
    /\ c.running = d.running /\ c.resident = d.resident

LEMMA SetFileHandleFields ==
    ASSUME NEW d \in Tables, NEW e \in Entries, NEW v \in Slots \cup {Unused}
    PROVE  LET c == SetFileHandle(d, e, v)
           IN  /\ c \in Tables /\ SameProcesses(c, d) /\ c.files = d.files
               /\ c.table = [d.table EXCEPT ![d.psp] = [d.table[d.psp] EXCEPT ![e] = v]]
    BY DEF SetFileHandle, Tables, SameProcesses

LEMMA FileEqual ==
    ASSUME NEW f \in File, NEW g \in File,
           f.refs = g.refs, f.open = g.open, f.inherit = g.inherit
    PROVE  f = g
    BY DEF File

LEMMA OneMore ==
    ASSUME NEW f \in File
    PROVE  LET g == [f EXCEPT !.refs = @ + 1]
           IN  g \in File /\ g.refs = f.refs + 1 /\ g.open = f.open /\ g.inherit = f.inherit
    BY DEF File

LEMMA SetFileFields ==
    ASSUME NEW d \in Tables, NEW s \in Slots, NEW f \in File
    PROVE  LET c == [d EXCEPT !.files[s] = f]
           IN  /\ c \in Tables /\ SameProcesses(c, d) /\ c.table = d.table
               /\ c.files = [d.files EXCEPT ![s] = f]
<1>1. [d.files EXCEPT ![s] = f] \in [Slots -> File]
    BY DEF Tables
<1>2. [d EXCEPT !.files = [d.files EXCEPT ![s] = f]] \in Tables
    BY <1>1 DEF Tables
<1> QED
    BY <1>2 DEF Tables, SameProcesses

LEMMA AddRefFields ==
    ASSUME NEW d \in Tables, NEW s \in Slots
    PROVE  LET c == AddRef(d, s)
           IN  /\ c \in Tables /\ SameProcesses(c, d) /\ c.table = d.table
               /\ c.files = [d.files EXCEPT ![s] = [d.files[s] EXCEPT !.refs = @ + 1]]
<1> DEFINE f == [d.files[s] EXCEPT !.refs = @ + 1]
<1>1. f \in File
    BY DEF Tables, File
<1>2. AddRef(d, s) = [d EXCEPT !.files[s] = f]
    BY DEF AddRef
<1> HIDE DEF f
<1> QED
    BY <1>1, <1>2, SetFileFields DEF f

---------------------------------------------------------------------------
(* Counting handles                                                        *)

LEMMA HandlesFinite ==
    ASSUME NEW d \in Tables, NEW s
    PROVE  IsFiniteSet(Handles(d, s)) /\ Cardinality(Handles(d, s)) \in Nat
<1>1. Existing(d) \in SUBSET Procs
    BY DEF Existing, Tables
<1>2. IsFiniteSet(Existing(d) \X Entries)
    BY <1>1, FiniteAssumption, FS_Subset, FS_Product
<1>3. Handles(d, s) \in SUBSET (Existing(d) \X Entries)
    BY DEF Handles
<1> QED
    BY <1>2, <1>3, FS_Subset, FS_CardinalityType

\* Writing a handle of the current process
LEMMA HandlesAfterSet ==
    ASSUME NEW c \in Tables, NEW d \in Tables, SameProcesses(c, d),
           d.psp \in Existing(d), NEW e \in Entries, NEW v \in Slots \cup {Unused},
           c.table = [d.table EXCEPT ![d.psp] = [d.table[d.psp] EXCEPT ![e] = v]]
    PROVE  \A s \in Slots : Handles(c, s) = IF s = v THEN Handles(d, s) \cup {<<d.psp, e>>}
                                            ELSE Handles(d, s) \ {<<d.psp, e>>}
<1> DEFINE p == d.psp
<1>1. p \in Procs /\ d.table \in [Procs -> [Entries -> Slots \cup {Unused}]]
      /\ Existing(c) = Existing(d) /\ Existing(d) \subseteq Procs
    BY DEF Tables, SameProcesses, Existing
<1>2. \A h \in Existing(d) \X Entries :
          c.table[h[1]][h[2]] = IF h = <<p, e>> THEN v ELSE d.table[h[1]][h[2]]
    BY <1>1
<1>3. <<p, e>> \in Existing(d) \X Entries
    OBVIOUS
<1> HIDE DEF p
<1> SUFFICES ASSUME NEW s \in Slots
             PROVE  Handles(c, s) = IF s = v THEN Handles(d, s) \cup {<<p, e>>}
                                    ELSE Handles(d, s) \ {<<p, e>>}
    BY DEF p
<1> QED
    BY <1>1, <1>2, <1>3 DEF Handles

---------------------------------------------------------------------------
(* The invariant of the tables, and what it says of a handle and a free slot *)

Counted(d) ==
    /\ d \in Tables /\ d.psp \in Existing(d)
    /\ \A s \in Slots : /\ d.files[s].refs = Cardinality(Handles(d, s))
                        /\ d.files[s].open <=> d.files[s].refs > 0
                        /\ d.files[s].refs = 0 => d.files[s] = NoFile

LEMMA HandleIsOpen ==
    ASSUME NEW d, Counted(d), NEW p \in Existing(d), NEW e \in Entries,
           d.table[p][e] # Unused
    PROVE  LET s == d.table[p][e]
           IN  /\ s \in Slots /\ <<p, e>> \in Handles(d, s) /\ d.files[s] \in File
               /\ d.files[s].refs > 0 /\ d.files[s].open /\ d.files[s] # NoFile
<1> DEFINE s == d.table[p][e]
<1>1. s \in Slots /\ d.files[s] \in File
    BY DEF Counted, Tables, Existing
<1>2. <<p, e>> \in Handles(d, s)
    BY DEF Handles
<1>3. Cardinality(Handles(d, s)) \in Nat /\ Cardinality(Handles(d, s)) # 0
    BY <1>2, HandlesFinite, FS_EmptySet DEF Counted
<1> HIDE DEF s
<1>4. d.files[s].refs > 0 /\ d.files[s].open
    BY <1>1, <1>3 DEF Counted
<1> QED
    BY <1>1, <1>2, <1>4 DEF s, NoFile

LEMMA UnusedIsNoHandle ==
    ASSUME NEW d, NEW p, NEW e, d.table[p][e] = Unused
    PROVE  Unused \notin Slots /\ \A s \in Slots : <<p, e>> \notin Handles(d, s)
<1>1. Unused \notin Slots
    BY TablesAssumption DEF Unused
<1> QED
    BY <1>1 DEF Handles

LEMMA FreeHasNoHandle ==
    ASSUME NEW d, Counted(d), NEW s \in Slots, d.files[s] = NoFile
    PROVE  Handles(d, s) = {}
    BY HandlesFinite, FS_EmptySet DEF Counted, NoFile

\* A change of one file and of its handles
LEMMA CountedStep ==
    ASSUME NEW d, Counted(d), NEW c \in Tables, SameProcesses(c, d), NEW s \in Slots,
           \A t \in Slots \ {s} : c.files[t] = d.files[t] /\ Handles(c, t) = Handles(d, t),
           c.files[s].refs = Cardinality(Handles(c, s)),
           c.files[s].open <=> c.files[s].refs > 0,
           c.files[s].refs = 0 => c.files[s] = NoFile
    PROVE  Counted(c)
<1>1. c.psp \in Existing(c)
    BY DEF Counted, SameProcesses, Existing
<1> QED
    BY <1>1 DEF Counted

\* The other processes keep their files
Kept(c, d) ==
    \A p \in Existing(d) \ {d.psp} :
        /\ c.table[p] = d.table[p]
        /\ \A e \in Entries :
               LET s == d.table[p][e]
               IN  s # Unused => /\ c.files[s].open = d.files[s].open
                                 /\ c.files[s].inherit = d.files[s].inherit

LEMMA KeptTransitive ==
    ASSUME NEW b, NEW c, NEW d, Kept(b, c), Kept(c, d),
           c.psp = d.psp, Existing(d) \subseteq Existing(c)
    PROVE  Kept(b, d)
    BY DEF Kept

---------------------------------------------------------------------------
(* The calls on handles keep the count                                     *)

Same(c, d) == SameProcesses(c, d) /\ Kept(c, d) /\ Counted(c)

\* Opening a file takes a slot and a handle that were free,
LEMMA OpenedCounted ==
    ASSUME NEW d, Counted(d), CanOpen(d), NEW inherit \in BOOLEAN
    PROVE  LET c == Opened(d, inherit)
               s == Min(FreeSlots(d))
               e == Min(FreeEntries(d))
           IN  /\ Same(c, d)
               /\ s \in Slots /\ d.files[s] = NoFile
               /\ e \in Entries /\ d.table[d.psp][e] = Unused
               /\ c.table = [d.table EXCEPT ![d.psp] = [d.table[d.psp] EXCEPT ![e] = s]]
               /\ c.files = [d.files EXCEPT ![s] = [refs |-> 1, open |-> TRUE, inherit |-> inherit]]
<1> DEFINE s == Min(FreeSlots(d))
           e == Min(FreeEntries(d))
           f == [refs |-> 0, open |-> TRUE, inherit |-> inherit]
           g == [refs |-> 1, open |-> TRUE, inherit |-> inherit]
           a == [d EXCEPT !.files[s] = f]
           b == AddRef(a, s)
           c == SetFileHandle(b, e, s)
<1>0. d \in Tables /\ d.psp \in Procs /\ d.psp \in Existing(d)
    BY DEF Counted, Tables
<1>1. s \in Slots /\ d.files[s] = NoFile
    <2>1. s \in FreeSlots(d)
        BY SmallestIsMember, TablesAssumption DEF CanOpen, FreeSlots
    <2> QED
        BY <2>1 DEF FreeSlots
<1>2. e \in Entries /\ d.table[d.psp][e] = Unused
    <2>1. e \in FreeEntries(d)
        BY SmallestIsMember, TablesAssumption DEF CanOpen, FreeEntries
    <2> QED
        BY <2>1 DEF FreeEntries
<1>3. Opened(d, inherit) = c
    BY DEF Opened
<1> HIDE DEF s, e
<1>4. f \in File /\ g \in File /\ [f EXCEPT !.refs = @ + 1] = g
    <2>1. f \in File /\ g \in File
        BY DEF File
    <2>2. f.refs = 0 /\ g.refs = 1 /\ g.open = f.open /\ g.inherit = f.inherit
        OBVIOUS
    <2> HIDE DEF f, g
    <2> DEFINE h == [f EXCEPT !.refs = @ + 1]
    <2>3. h \in File /\ h.refs = f.refs + 1 /\ h.open = f.open /\ h.inherit = f.inherit
        BY <2>1, OneMore
    <2> HIDE DEF h
    <2>4. h = g
        BY <2>1, <2>2, <2>3, FileEqual
    <2> QED
        BY <2>1, <2>4 DEF h
<1> HIDE DEF f, g
<1>5. /\ a \in Tables /\ SameProcesses(a, d) /\ a.table = d.table
      /\ a.files = [d.files EXCEPT ![s] = f]
    BY <1>0, <1>1, <1>4, SetFileFields
<1> HIDE DEF a
<1>6. a.files[s] = f
    BY <1>0, <1>1, <1>5 DEF Tables
<1>7. /\ b \in Tables /\ SameProcesses(b, a) /\ b.table = a.table
      /\ b.files = [a.files EXCEPT ![s] = g]
    BY <1>1, <1>4, <1>5, <1>6, AddRefFields
<1> HIDE DEF b
<1>8. b.files = [d.files EXCEPT ![s] = g]
    BY <1>0, <1>5, <1>7 DEF Tables
<1>9. /\ c \in Tables /\ SameProcesses(c, d) /\ c.files = b.files
      /\ c.table = [d.table EXCEPT ![d.psp] = [d.table[d.psp] EXCEPT ![e] = s]]
    BY <1>1, <1>2, <1>5, <1>7, SetFileHandleFields DEF SameProcesses
<1> HIDE DEF c
<1>10. \A t \in Slots : Handles(c, t) = IF t = s THEN Handles(d, t) \cup {<<d.psp, e>>}
                                        ELSE Handles(d, t) \ {<<d.psp, e>>}
    BY <1>0, <1>1, <1>2, <1>9, HandlesAfterSet
<1>11. Handles(c, s) = {<<d.psp, e>>}
    BY <1>1, <1>10, FreeHasNoHandle
<1>12. \A t \in Slots \ {s} : c.files[t] = d.files[t] /\ Handles(c, t) = Handles(d, t)
    <2>1. \A t \in Slots : <<d.psp, e>> \notin Handles(d, t)
        BY <1>2, UnusedIsNoHandle
    <2>2. d.files \in [Slots -> File]
        BY <1>0 DEF Tables
    <2> QED
        BY <1>8, <1>9, <1>10, <2>1, <2>2, ZenonT(60)
<1>13. c.files[s] = g
    BY <1>0, <1>1, <1>8, <1>9 DEF Tables
<1>14. Counted(c)
    <2>1. g.refs = 1 /\ g.open
        BY DEF g
    <2>2. Cardinality(Handles(c, s)) = 1
        BY <1>11, FS_Singleton
    <2> QED
        BY <1>1, <1>9, <1>12, <1>13, <2>1, <2>2, CountedStep
<1>15. Kept(c, d)
    <2> SUFFICES ASSUME NEW p \in Existing(d) \ {d.psp} PROVE
            /\ c.table[p] = d.table[p]
            /\ \A x \in Entries : d.table[p][x] # Unused =>
                   /\ c.files[d.table[p][x]].open = d.files[d.table[p][x]].open
                   /\ c.files[d.table[p][x]].inherit = d.files[d.table[p][x]].inherit
        BY DEF Kept
    <2>1. c.table[p] = d.table[p]
        BY <1>0, <1>9 DEF Tables, Existing
    <2>2. ASSUME NEW x \in Entries, d.table[p][x] # Unused
          PROVE  c.files[d.table[p][x]] = d.files[d.table[p][x]]
        <3> DEFINE t == d.table[p][x]
        <3>1. t \in Slots /\ d.files[t] # NoFile
            BY <2>2, HandleIsOpen
        <3> QED
            BY <1>1, <1>12, <3>1
    <2> QED
        BY <2>1, <2>2
<1> QED
    BY <1>1, <1>2, <1>3, <1>8, <1>9, <1>14, <1>15 DEF Same, s, e, g

\* duplicating one adds a reference to a file that is open,
LEMMA DuplicatedCounted ==
    ASSUME NEW d, Counted(d), NEW entry \in Entries, NEW new \in Entries,
           d.table[d.psp][entry] # Unused, d.table[d.psp][new] = Unused
    PROVE  Same(Duplicated(d, entry, new), d)
<1> DEFINE s == d.table[d.psp][entry]
           g == [d.files[s] EXCEPT !.refs = @ + 1]
           b == AddRef(d, s)
           c == SetFileHandle(b, new, s)
<1>a. d \in Tables /\ d.psp \in Existing(d)
    BY DEF Counted
<1>0. d \in Tables /\ d.psp \in Existing(d) /\ d.psp \in Procs /\ Existing(d) \subseteq Procs
      /\ d.files \in [Slots -> File] /\ d.table \in [Procs -> [Entries -> Slots \cup {Unused}]]
    BY DEF Counted, Tables, Existing
<1>1. /\ s \in Slots /\ <<d.psp, entry>> \in Handles(d, s) /\ d.files[s] \in File
      /\ d.files[s].refs > 0 /\ d.files[s].open
    BY <1>0, HandleIsOpen
<1>2. Duplicated(d, entry, new) = c
    BY DEF Duplicated, RealHandle
<1> HIDE DEF s
<1>3. /\ g \in File /\ g.refs = d.files[s].refs + 1
      /\ g.open = d.files[s].open /\ g.inherit = d.files[s].inherit
    BY <1>1, OneMore
<1>4. /\ b \in Tables /\ SameProcesses(b, d) /\ b.table = d.table
      /\ b.files = [d.files EXCEPT ![s] = g]
    BY <1>0, <1>1, AddRefFields
<1> HIDE DEF g, b
<1>5. /\ c \in Tables /\ SameProcesses(c, d) /\ c.files = b.files
      /\ c.table = [d.table EXCEPT ![d.psp] = [d.table[d.psp] EXCEPT ![new] = s]]
    BY <1>1, <1>4, SetFileHandleFields DEF SameProcesses
<1> HIDE DEF c
<1>6. \A t \in Slots : Handles(c, t) = IF t = s THEN Handles(d, t) \cup {<<d.psp, new>>}
                                       ELSE Handles(d, t) \ {<<d.psp, new>>}
    BY <1>a, <1>1, <1>5, HandlesAfterSet
<1>7. \A t \in Slots : <<d.psp, new>> \notin Handles(d, t)
    BY UnusedIsNoHandle
<1>8. \A t \in Slots \ {s} : c.files[t] = d.files[t] /\ Handles(c, t) = Handles(d, t)
    <2>1. \A t \in Slots \ {s} : c.files[t] = d.files[t]
        BY <1>0, <1>4, <1>5
    <2>2. \A t \in Slots \ {s} : Handles(c, t) = Handles(d, t)
        BY <1>6, <1>7
    <2> QED
        BY <2>1, <2>2
<1>9. c.files[s] = g
    BY <1>0, <1>1, <1>4, <1>5
<1>10. Counted(c)
    <2>1. Cardinality(Handles(c, s)) = Cardinality(Handles(d, s)) + 1
        <3>1. Handles(c, s) = Handles(d, s) \cup {<<d.psp, new>>}
            BY <1>1, <1>6
        <3>2. <<d.psp, new>> \notin Handles(d, s) /\ IsFiniteSet(Handles(d, s))
            BY <1>a, <1>1, <1>7, HandlesFinite
        <3> QED
            BY <3>1, <3>2, FS_AddElement
    <2>2. d.files[s].refs = Cardinality(Handles(d, s))
        BY <1>1 DEF Counted
    <2>3. d.files[s].refs \in Nat
        BY <1>1 DEF File
    <2>4. g.refs = Cardinality(Handles(c, s)) /\ g.refs > 0 /\ g.open
        BY <1>1, <1>3, <2>1, <2>2, <2>3
    <2> QED
        BY <1>1, <1>5, <1>8, <1>9, <2>4, CountedStep
<1>11. Kept(c, d)
    <2> SUFFICES ASSUME NEW p \in Existing(d) \ {d.psp} PROVE
            /\ c.table[p] = d.table[p]
            /\ \A x \in Entries : d.table[p][x] # Unused =>
                   /\ c.files[d.table[p][x]].open = d.files[d.table[p][x]].open
                   /\ c.files[d.table[p][x]].inherit = d.files[d.table[p][x]].inherit
        BY DEF Kept
    <2>1. c.table[p] = d.table[p]
        BY <1>0, <1>5
    <2>2. \A x \in Entries : d.table[p][x] # Unused => d.table[p][x] \in Slots
        BY HandleIsOpen
    <2> QED
        BY <1>3, <1>8, <1>9, <2>1, <2>2
<1> QED
    BY <1>2, <1>5, <1>10, <1>11 DEF Same

LEMMA OneLess ==
    ASSUME NEW f \in File, f.refs > 0
    PROVE  LET g == [f EXCEPT !.open = @ /\ f.refs # 1, !.refs = @ - 1]
           IN  /\ g \in File /\ g.refs = f.refs - 1
               /\ g.open = (f.open /\ f.refs # 1) /\ g.inherit = f.inherit
<1> DEFINE a == [f EXCEPT !.open = @ /\ f.refs # 1]
           b == [a EXCEPT !.refs = @ - 1]
<1>1. /\ a \in File /\ a.refs = f.refs
      /\ a.open = (f.open /\ f.refs # 1) /\ a.inherit = f.inherit
    BY DEF File
<1> HIDE DEF a
<1>2. /\ b \in File /\ b.refs = a.refs - 1
      /\ b.open = a.open /\ b.inherit = a.inherit
    BY <1>1 DEF File
<1>3. [f EXCEPT !.open = @ /\ f.refs # 1, !.refs = @ - 1] = b
    BY DEF a
<1> QED
    BY <1>1, <1>2, <1>3

\* and closing one takes a reference away, the file with the last of them.
LEMMA ClosedCounted ==
    ASSUME NEW d, Counted(d), NEW entry \in Entries
    PROVE  LET c == Closed(d, entry)
               s == d.table[d.psp][entry]
           IN  /\ Same(c, d)
               /\ c.table = [d.table EXCEPT ![d.psp] = [d.table[d.psp] EXCEPT ![entry] = Unused]]
               /\ s # Unused /\ d.files[s].refs = 1 => c.files = [d.files EXCEPT ![s] = NoFile]
<1> DEFINE s == d.table[d.psp][entry]
           f == [d.files[s] EXCEPT !.open = @ /\ d.files[s].refs # 1, !.refs = @ - 1]
           g == IF f.refs <= 0 THEN NoFile ELSE f
           b == SetFileHandle(d, entry, Unused)
           c == [b EXCEPT !.files[s] = g]
<1>a. d \in Tables /\ d.psp \in Existing(d)
    BY DEF Counted
<1>0. d \in Tables /\ d.psp \in Existing(d) /\ d.psp \in Procs /\ Existing(d) \subseteq Procs
      /\ d.files \in [Slots -> File] /\ d.table \in [Procs -> [Entries -> Slots \cup {Unused}]]
    BY DEF Counted, Tables, Existing
<1>1. CASE s = Unused
    <2>1. Closed(d, entry) = d
        BY <1>1 DEF Closed, RealHandle
    <2>2. d.table = [d.table EXCEPT ![d.psp] = [d.table[d.psp] EXCEPT ![entry] = Unused]]
        BY <1>0, <1>1
    <2> QED
        BY <1>1, <2>1, <2>2 DEF Same, SameProcesses, Kept
<1>2. CASE s # Unused
    <2>1. /\ s \in Slots /\ <<d.psp, entry>> \in Handles(d, s) /\ d.files[s] \in File
          /\ d.files[s].refs > 0 /\ d.files[s].open /\ d.files[s] # NoFile
        BY <1>0, <1>2, HandleIsOpen, SMTT(30)
    <2>2. Closed(d, entry) = c
        BY <1>2, <2>1 DEF Closed, RealHandle
    <2> HIDE DEF s
    <2>3. /\ f \in File /\ f.refs = d.files[s].refs - 1
          /\ f.open = (d.files[s].open /\ d.files[s].refs # 1)
          /\ f.inherit = d.files[s].inherit
        BY <2>1, OneLess
    <2> HIDE DEF f
    <2>4. d.files[s].refs \in Nat /\ f.refs \in Nat
        BY <2>1, <2>3 DEF File
    <2>5. NoFile \in File /\ NoFile.refs = 0 /\ ~NoFile.open
        BY DEF NoFile, File
    <2>6. /\ g \in File /\ g.refs = d.files[s].refs - 1
          /\ (g.open <=> g.refs > 0) /\ (g.refs = 0 => g = NoFile)
          /\ g.refs > 0 => g.inherit = d.files[s].inherit
        <3>1. CASE f.refs <= 0
            BY <2>1, <2>3, <2>4, <2>5, <3>1
        <3>2. CASE ~(f.refs <= 0)
            <4>1. g = f /\ f.refs # 0 /\ f.refs > 0 /\ d.files[s].refs # 1
                BY <2>3, <2>4, <3>2
            <4>2. f.open
                BY <2>1, <2>3, <4>1
            <4> QED
                BY <2>3, <4>1, <4>2
        <3> QED
            BY <3>1, <3>2
    <2> HIDE DEF g
    <2>7. /\ b \in Tables /\ SameProcesses(b, d) /\ b.files = d.files
          /\ b.table = [d.table EXCEPT ![d.psp] = [d.table[d.psp] EXCEPT ![entry] = Unused]]
        <3>1. Unused \in Slots \cup {Unused}
            OBVIOUS
        <3> QED
            BY <1>a, <3>1, SetFileHandleFields
    <2> HIDE DEF b
    <2>8. /\ c \in Tables /\ SameProcesses(c, d) /\ c.table = b.table
          /\ c.files = [d.files EXCEPT ![s] = g]
        BY <2>1, <2>6, <2>7, SetFileFields DEF SameProcesses
    <2> HIDE DEF c
    <2>9. \A t \in Slots : Handles(c, t) = Handles(d, t) \ {<<d.psp, entry>>}
        <3>1. \A t \in Slots : t # Unused
            BY TablesAssumption DEF Unused
        <3>2. Unused \in Slots \cup {Unused}
            OBVIOUS
        <3> QED
            BY <1>a, <2>7, <2>8, <3>1, <3>2, HandlesAfterSet
    <2>10. \A t \in Slots \ {s} : c.files[t] = d.files[t] /\ Handles(c, t) = Handles(d, t)
        <3>1. \A t \in Slots \ {s} : <<d.psp, entry>> \notin Handles(d, t)
            BY DEF Handles, s
        <3> QED
            BY <1>0, <2>8, <2>9, <3>1, ZenonT(60)
    <2>11. c.files[s] = g
        BY <1>0, <2>1, <2>8
    <2>12. Cardinality(Handles(d, s)) = d.files[s].refs
        BY <2>1 DEF Counted
    <2>13. g.refs = Cardinality(Handles(c, s))
        <3>1. Handles(c, s) = Handles(d, s) \ {<<d.psp, entry>>}
            BY <2>1, <2>9
        <3>2. <<d.psp, entry>> \in Handles(d, s) /\ IsFiniteSet(Handles(d, s))
            BY <1>a, <2>1, HandlesFinite
        <3>3. Cardinality(Handles(c, s)) = Cardinality(Handles(d, s)) - 1
            BY <3>1, <3>2, FS_RemoveElement
        <3> QED
            BY <2>6, <2>12, <3>3
    <2>14. Counted(c)
        <3>1. SameProcesses(c, d) /\ c \in Tables
            BY <2>8
        <3>2. /\ c.files[s].refs = Cardinality(Handles(c, s))
              /\ c.files[s].open <=> c.files[s].refs > 0
              /\ c.files[s].refs = 0 => c.files[s] = NoFile
            BY <2>6, <2>11, <2>13
        <3> QED
            BY <2>1, <2>10, <3>1, <3>2, CountedStep
    <2>15. Kept(c, d)
        <3> SUFFICES ASSUME NEW p \in Existing(d) \ {d.psp} PROVE
                /\ c.table[p] = d.table[p]
                /\ \A x \in Entries : d.table[p][x] # Unused =>
                       /\ c.files[d.table[p][x]].open = d.files[d.table[p][x]].open
                       /\ c.files[d.table[p][x]].inherit = d.files[d.table[p][x]].inherit
            BY DEF Kept
        <3>1. c.table[p] = d.table[p]
            BY <1>0, <2>7, <2>8
        <3>2. \A x \in Entries : d.table[p][x] # Unused =>
                  d.table[p][x] \in Slots /\ <<p, x>> \in Handles(d, d.table[p][x])
            BY HandleIsOpen
        <3>3. ASSUME NEW x \in Entries, d.table[p][x] = s
              PROVE  g.refs > 0
            <4>1. <<p, x>> \in Handles(c, s)
                BY <2>1, <2>9, <3>3 DEF Handles
            <4>2. Cardinality(Handles(c, s)) # 0 /\ Cardinality(Handles(c, s)) \in Nat
                BY <2>8, <4>1, HandlesFinite, FS_EmptySet
            <4> QED
                BY <2>13, <4>2
        <3>4. (g.refs > 0) => g.open /\ g.inherit = d.files[s].inherit
            BY <2>6
        <3>5. ASSUME NEW x \in Entries, d.table[p][x] # Unused
              PROVE  /\ c.files[d.table[p][x]].open = d.files[d.table[p][x]].open
                     /\ c.files[d.table[p][x]].inherit = d.files[d.table[p][x]].inherit
            <4> DEFINE u == d.table[p][x]
            <4>1. u \in Slots
                BY <3>2, <3>5
            <4>2. u = s => c.files[u].open = d.files[u].open /\ c.files[u].inherit = d.files[u].inherit
                <5>1. \A k \in File : k.open => k.open = TRUE
                    BY DEF File
                <5>2. u = s => g.open = TRUE /\ g.inherit = d.files[s].inherit
                    BY <2>6, <3>3, <3>4, <5>1
                <5>3. d.files[s].open = TRUE
                    BY <2>1, <5>1
                <5> HIDE DEF u
                <5> QED
                    BY <2>11, <5>2, <5>3
            <4>3. u # s => c.files[u] = d.files[u]
                BY <2>10, <4>1
            <4> QED
                BY <4>2, <4>3
        <3> QED
            BY <3>1, <3>5
    <2>16. d.files[s].refs = 1 => g = NoFile
        BY <2>6
    <2> QED
        BY <2>2, <2>7, <2>8, <2>14, <2>15, <2>16 DEF Same, s
<1> QED
    BY <1>1, <1>2

LEMMA SameReflexive ==
    ASSUME NEW d, Counted(d)
    PROVE  Same(d, d)
    BY DEF Same, SameProcesses, Kept

LEMMA SameTransitive ==
    ASSUME NEW b, NEW c, NEW d, Same(b, c), Same(c, d)
    PROVE  Same(b, d)
<1>1. c.psp = d.psp /\ Existing(c) = Existing(d) /\ SameProcesses(b, d)
    BY DEF Same, SameProcesses, Existing
<1> QED
    BY <1>1, KeptTransitive DEF Same

\* Forcing a duplicate: the handle is free when it is overwritten
LEMMA ForcedCounted ==
    ASSUME NEW d, Counted(d), NEW entry \in Entries, NEW new \in Entries,
           entry # new, Valid(d, entry)
    PROVE  Same(Forced(d, entry, new), d)
<1> DEFINE c == Closed(d, new)
<1>1. /\ Same(c, d)
      /\ c.table = [d.table EXCEPT ![d.psp] = [d.table[d.psp] EXCEPT ![new] = Unused]]
    BY ClosedCounted
<1> HIDE DEF c
<1>2. d.table \in [Procs -> [Entries -> Slots \cup {Unused}]] /\ d.psp \in Procs
    BY DEF Counted, Tables
<1>3. d.table[d.psp][entry] # Unused
    BY DEF Valid, RealHandle
<1>4. c.psp = d.psp /\ Counted(c)
    BY <1>1 DEF Same, SameProcesses
<1>5. c.table[c.psp][entry] # Unused /\ c.table[c.psp][new] = Unused
    BY <1>1, <1>2, <1>3, <1>4
<1>6. Same(Duplicated(c, entry, new), c)
    BY <1>4, <1>5, DuplicatedCounted
<1> QED
    BY <1>1, <1>6, SameTransitive DEF Forced, c

\* A file that is opened and closed again leaves the tables as they were
LEMMA OpenedThenClosed ==
    ASSUME NEW d, Counted(d), CanOpen(d), NEW inherit \in BOOLEAN
    PROVE  LET b == Closed(Opened(d, inherit), Min(FreeEntries(d)))
           IN  Same(b, d) /\ b.files = d.files /\ b.table = d.table
<1> DEFINE c == Opened(d, inherit)
           s == Min(FreeSlots(d))
           e == Min(FreeEntries(d))
           b == Closed(c, e)
<1>1. /\ Same(c, d) /\ s \in Slots /\ d.files[s] = NoFile
      /\ e \in Entries /\ d.table[d.psp][e] = Unused
      /\ c.table = [d.table EXCEPT ![d.psp] = [d.table[d.psp] EXCEPT ![e] = s]]
      /\ c.files = [d.files EXCEPT ![s] = [refs |-> 1, open |-> TRUE, inherit |-> inherit]]
    BY OpenedCounted
<1> HIDE DEF c, s, e
<1>2. d.table \in [Procs -> [Entries -> Slots \cup {Unused}]] /\ d.psp \in Procs
      /\ d.files \in [Slots -> File]
    BY DEF Counted, Tables
<1>3. c.psp = d.psp /\ Counted(c)
    BY <1>1 DEF Same, SameProcesses
<1>4. c.table[c.psp][e] = s /\ c.files[s].refs = 1 /\ s # Unused
    BY <1>1, <1>2, <1>3, TablesAssumption DEF Unused
<1>5. /\ Same(b, c)
      /\ b.table = [c.table EXCEPT ![c.psp] = [c.table[c.psp] EXCEPT ![e] = Unused]]
      /\ b.files = [c.files EXCEPT ![s] = NoFile]
    BY <1>1, <1>3, <1>4, ClosedCounted
<1> HIDE DEF b
<1>6. b.files = d.files
    BY <1>1, <1>2, <1>5
<1>7. b.table = d.table
    <2>1. [d.table[d.psp] EXCEPT ![e] = Unused] = d.table[d.psp]
        BY <1>1, <1>2
    <2>2. [c.table[c.psp] EXCEPT ![e] = Unused] = d.table[d.psp]
        BY <1>1, <1>2, <1>3, <2>1
    <2> QED
        BY <1>1, <1>2, <1>3, <1>5, <2>2
<1>8. Same(b, d)
    BY <1>1, <1>5, SameTransitive
<1> QED
    BY <1>6, <1>7, <1>8 DEF b, c, e

---------------------------------------------------------------------------
(* Processes that start and end keep the count                             *)

LEMMA HandlesOfOne ==
    ASSUME NEW p, NEW A \in SUBSET Entries
    PROVE  /\ IsFiniteSet({p} \X A) /\ Cardinality({p} \X A) = Cardinality(A)
           /\ Cardinality(A) \in Nat
<1>1. IsFiniteSet(A) /\ Cardinality(A) \in Nat
    BY FiniteAssumption, FS_Subset, FS_CardinalityType
<1>2. IsFiniteSet({p}) /\ Cardinality({p}) = 1
    BY FS_Singleton
<1>3. IsFiniteSet({p} \X A) /\ Cardinality({p} \X A) = 1 * Cardinality(A)
    BY <1>1, <1>2, FS_Product
<1> QED
    BY <1>1, <1>3

\* The handles that a child inherits, and how many of them a file has
Copied(d) == {e \in Entries : LET s == d.table[d.psp][e]
                              IN  s # Unused /\ d.files[s] # NoFile /\ d.files[s].inherit}
CopiedOf(d, s) == {e \in Copied(d) : d.table[d.psp][e] = s}
Gained(d, s) == [d.files[s] EXCEPT !.refs = @ + Cardinality(CopiedOf(d, s))]

InheritedTable(d) == [e \in Entries |-> IF e \in Copied(d) THEN d.table[d.psp][e] ELSE Unused]
InheritedFiles(d) == [s \in Slots |-> Gained(d, s)]

LEMMA GainedFields ==
    ASSUME NEW d \in Tables, NEW s \in Slots
    PROVE  LET f == d.files[s]
               g == Gained(d, s)
           IN  /\ g \in File /\ g.refs = f.refs + Cardinality(CopiedOf(d, s))
               /\ g.open = f.open /\ g.inherit = f.inherit
<1>1. CopiedOf(d, s) \in SUBSET Entries
    BY DEF CopiedOf, Copied
<1>2. Cardinality(CopiedOf(d, s)) \in Nat /\ d.files[s] \in File
    BY <1>1, HandlesOfOne DEF Tables
<1> QED
    BY <1>2 DEF Gained, File

LEMMA StartedFields ==
    ASSUME NEW d \in Tables, NEW p \in Procs
    PROVE  LET c == Started(d, p)
           IN  /\ c \in Tables /\ c.psp = p /\ c.running = d.running \cup {p}
               /\ c.resident = d.resident /\ c.parent = [d.parent EXCEPT ![p] = d.psp]
               /\ c.table = [d.table EXCEPT ![p] = InheritedTable(d)]
               /\ c.files = InheritedFiles(d)
<1> DEFINE t == InheritedTable(d)
           f == InheritedFiles(d)
           c1 == [d EXCEPT !.table[p] = t]
           c2 == [c1 EXCEPT !.files = f]
           c3 == [c2 EXCEPT !.parent[p] = d.psp]
           c4 == [c3 EXCEPT !.running = @ \cup {p}]
           c5 == [c4 EXCEPT !.psp = p]
<1>1. Started(d, p) = c5
    BY DEF Started, Inherited, InheritedTable, InheritedFiles, Copied, Gained, CopiedOf
<1>2. t \in [Entries -> Slots \cup {Unused}] /\ f \in [Slots -> File]
    BY GainedFields DEF Tables, InheritedTable, InheritedFiles
<1> HIDE DEF t, f
<1>3. /\ c1 \in Tables /\ c1.table = [d.table EXCEPT ![p] = t]
      /\ SameProcesses(c1, d) /\ c1.files = d.files
    BY <1>2 DEF Tables, SameProcesses
<1> HIDE DEF c1
<1>4. c2 \in Tables /\ c2.table = c1.table /\ SameProcesses(c2, c1) /\ c2.files = f
    BY <1>2, <1>3 DEF Tables, SameProcesses
<1> HIDE DEF c2
<1>5. /\ c3 \in Tables /\ c3.table = c2.table /\ c3.files = c2.files
      /\ c3.running = c2.running /\ c3.resident = c2.resident
      /\ c3.parent = [c2.parent EXCEPT ![p] = d.psp]
    BY <1>4 DEF Tables
<1> HIDE DEF c3
<1>6. /\ c4 \in Tables /\ c4.table = c3.table /\ c4.files = c3.files
      /\ c4.running = c3.running \cup {p} /\ c4.resident = c3.resident
      /\ c4.parent = c3.parent
    BY <1>5 DEF Tables
<1> HIDE DEF c4
<1>7. /\ c5 \in Tables /\ c5.table = c4.table /\ c5.files = c4.files
      /\ c5.running = c4.running /\ c5.resident = c4.resident
      /\ c5.parent = c4.parent /\ c5.psp = p
    BY <1>6 DEF Tables
<1> HIDE DEF c5
<1> QED
    BY <1>1, <1>3, <1>4, <1>5, <1>6, <1>7 DEF t, f, SameProcesses

LEMMA StartedCounted ==
    ASSUME NEW d, Counted(d), NEW p \in Procs \ Existing(d)
    PROVE  Counted(Started(d, p)) /\ Kept(Started(d, p), d)
<1> DEFINE c == Started(d, p)
           own == d.table[d.psp]
<1>1. d \in Tables /\ d.psp \in Existing(d) /\ Existing(d) \subseteq Procs
      /\ d.table \in [Procs -> [Entries -> Slots \cup {Unused}]]
    BY DEF Counted, Tables, Existing
<1>2. /\ c \in Tables /\ c.psp = p /\ c.running = d.running \cup {p}
      /\ c.resident = d.resident
      /\ c.table = [d.table EXCEPT ![p] = InheritedTable(d)]
      /\ c.files = InheritedFiles(d)
    BY <1>1, StartedFields, ZenonT(60)
<1> HIDE DEF c
<1>3. Existing(c) = Existing(d) \cup {p}
    BY <1>2 DEF Existing
<1>4. ASSUME NEW s \in Slots
      PROVE  /\ Handles(c, s) = Handles(d, s) \cup ({p} \X CopiedOf(d, s))
             /\ Handles(d, s) \cap ({p} \X CopiedOf(d, s)) = {}
    <2>1. \A q \in Existing(d) : c.table[q] = d.table[q]
        BY <1>1, <1>2
    <2>2. \A e \in Entries : c.table[p][e] = IF e \in Copied(d) THEN own[e] ELSE Unused
        BY <1>1, <1>2 DEF InheritedTable
    <2>3. s # Unused
        BY TablesAssumption DEF Unused
    <2>4. \A e \in Entries : c.table[p][e] = s <=> e \in CopiedOf(d, s)
        BY <2>2, <2>3 DEF CopiedOf
    <2>5. CopiedOf(d, s) \subseteq Entries
        BY DEF CopiedOf, Copied
    <2> QED
        BY <1>3, <2>1, <2>4, <2>5 DEF Handles
<1>5. ASSUME NEW s \in Slots
      PROVE  /\ c.files[s].refs = Cardinality(Handles(c, s))
             /\ c.files[s].open <=> c.files[s].refs > 0
             /\ c.files[s].refs = 0 => c.files[s] = NoFile
             /\ c.files[s].open = d.files[s].open /\ c.files[s].inherit = d.files[s].inherit
    <2> DEFINE A == CopiedOf(d, s)
    <2>1. A \in SUBSET Entries
        BY DEF CopiedOf, Copied
    <2>2. /\ IsFiniteSet({p} \X A) /\ Cardinality({p} \X A) = Cardinality(A)
          /\ Cardinality(A) \in Nat
        BY <2>1, HandlesOfOne
    <2>3. IsFiniteSet(Handles(d, s)) /\ Cardinality(Handles(d, s)) \in Nat
        BY <1>1, HandlesFinite
    <2>4. Cardinality(Handles(c, s)) = Cardinality(Handles(d, s)) + Cardinality(A)
        <3> DEFINE X == Handles(d, s)
                   Y == {p} \X A
        <3>1. Handles(c, s) = X \cup Y /\ X \cap Y = {}
            BY <1>4
        <3>2. Cardinality(X \cap Y) = 0
            BY <3>1, FS_EmptySet
        <3> HIDE DEF X, Y
        <3>3. IsFiniteSet(X) /\ IsFiniteSet(Y)
            BY <2>2, <2>3 DEF X, Y
        <3>4. Cardinality(X \cup Y) = Cardinality(X) + Cardinality(Y) - Cardinality(X \cap Y)
            BY <3>3, FS_Union
        <3>5. Cardinality(X) \in Nat /\ Cardinality(Y) \in Nat /\ Cardinality(Y) = Cardinality(A)
            BY <2>2, <2>3 DEF X, Y
        <3>6. Cardinality(Handles(c, s)) = Cardinality(X) + Cardinality(Y)
            BY <3>1, <3>2, <3>4, <3>5
        <3> QED
            BY <3>5, <3>6 DEF X
    <2>5. /\ c.files[s] \in File /\ c.files[s].refs = d.files[s].refs + Cardinality(A)
          /\ c.files[s].open = d.files[s].open /\ c.files[s].inherit = d.files[s].inherit
        BY <1>1, <1>2, GainedFields DEF InheritedFiles
    <2>6. /\ d.files[s].refs = Cardinality(Handles(d, s)) /\ d.files[s] \in File
          /\ d.files[s].open <=> d.files[s].refs > 0
          /\ d.files[s].refs = 0 => d.files[s] = NoFile
        BY <1>1 DEF Counted, Tables
    <2>7. Cardinality(A) > 0 => d.files[s].refs > 0
        <3>1. ASSUME NEW e \in A PROVE d.files[s].refs > 0
            <4>1. e \in Entries /\ own[e] = s /\ own[e] # Unused
                BY DEF CopiedOf, Copied
            <4> QED
                BY <1>1, <4>1, HandleIsOpen
        <3>2. A = {} => Cardinality(A) = 0
            BY FS_EmptySet
        <3> QED
            BY <3>1, <3>2
    <2>8. c.files[s].refs = 0 => c.files[s] = NoFile
        <3>1. c.files[s].refs = 0 => d.files[s].refs = 0
            BY <2>2, <2>3, <2>5, <2>6
        <3>2. NoFile.refs = 0
            BY DEF NoFile
        <3> QED
            BY <2>5, <2>6, <3>1, <3>2, FileEqual
    <2>9. c.files[s].open <=> c.files[s].refs > 0
        BY <2>2, <2>3, <2>5, <2>6, <2>7
    <2> QED
        BY <2>4, <2>5, <2>6, <2>8, <2>9
<1>6. Counted(c)
    BY <1>2, <1>3, <1>5 DEF Counted
<1>7. Kept(c, d)
    <2>1. \A q \in Existing(d) \ {d.psp} : c.table[q] = d.table[q]
        BY <1>1, <1>2
    <2>2. \A q \in Existing(d) : \A e \in Entries :
              d.table[q][e] # Unused => d.table[q][e] \in Slots
        BY <1>1
    <2> QED
        BY <1>5, <2>1, <2>2 DEF Kept
<1> QED
    BY <1>6, <1>7 DEF c

\* The handles that a process holds, and what is left of its files when it ends
OwnOf(d, s) == {e \in Entries : d.table[d.psp][e] = s}
ClosedOf(d) == {e \in Entries : d.table[d.psp][e] # Unused /\ d.files[d.table[d.psp][e]] # NoFile}
Left(d, s) == d.files[s].refs - Cardinality({e \in ClosedOf(d) : d.table[d.psp][e] = s})
LeftFile(d, s) ==
    IF \A e \in ClosedOf(d) : d.table[d.psp][e] # s THEN d.files[s]
    ELSE IF Left(d, s) <= 0 THEN NoFile ELSE [d.files[s] EXCEPT !.refs = Left(d, s)]
ClosedTable(d) == [e \in Entries |-> IF e \in ClosedOf(d) THEN Unused ELSE d.table[d.psp][e]]
ClosedFiles(d) == [s \in Slots |-> LeftFile(d, s)]

LEMMA RefsFields ==
    ASSUME NEW f \in File, NEW n \in Nat
    PROVE  LET g == [f EXCEPT !.refs = n]
           IN  g \in File /\ g.refs = n /\ g.open = f.open /\ g.inherit = f.inherit
    BY DEF File

\* A file loses exactly the handles of the process
LEMMA LeftCounted ==
    ASSUME NEW d, Counted(d), NEW s \in Slots
    PROVE  LET f == d.files[s]
               g == LeftFile(d, s)
               left == Handles(d, s) \ ({d.psp} \X Entries)
           IN  /\ g \in File /\ g.refs = Cardinality(left)
               /\ g.open <=> g.refs > 0
               /\ g.refs = 0 => g = NoFile
               /\ left # {} => g.open /\ f.open /\ g.inherit = f.inherit
<1> DEFINE f == d.files[s]
           g == LeftFile(d, s)
           H == Handles(d, s)
           A == OwnOf(d, s)
           left == H \ ({d.psp} \X Entries)
<1>1. /\ d \in Tables /\ d.psp \in Existing(d)
      /\ f \in File /\ f.refs = Cardinality(H)
      /\ f.open <=> f.refs > 0
      /\ f.refs = 0 => f = NoFile
    BY DEF Counted, Tables
<1>2. A \in SUBSET Entries
    BY DEF OwnOf
<1>3. {e \in ClosedOf(d) : d.table[d.psp][e] = s} = A
    <2>1. s # Unused
        BY TablesAssumption DEF Unused
    <2>2. \A e \in Entries : d.table[d.psp][e] # Unused => d.files[d.table[d.psp][e]] # NoFile
        BY <1>1, HandleIsOpen
    <2> QED
        BY <2>1, <2>2 DEF ClosedOf, OwnOf
<1>4. /\ IsFiniteSet(H) /\ Cardinality(H) \in Nat
      /\ IsFiniteSet({d.psp} \X A) /\ Cardinality({d.psp} \X A) = Cardinality(A)
      /\ Cardinality(A) \in Nat
    BY <1>1, <1>2, HandlesFinite, HandlesOfOne
<1>5. left = H \ ({d.psp} \X A) /\ H \cap ({d.psp} \X A) = {d.psp} \X A
    BY <1>1 DEF OwnOf, Handles
<1>6. /\ IsFiniteSet(left) /\ Cardinality(left) \in Nat
      /\ Cardinality(left) = f.refs - Cardinality(A)
    <2> DEFINE T == {d.psp} \X A
    <2>1. left = H \ T /\ H \cap T = T
        BY <1>5
    <2> HIDE DEF T, left, f, H
    <2>2. IsFiniteSet(H \ T) /\ Cardinality(H \ T) = Cardinality(H) - Cardinality(H \cap T)
        BY <1>4, FS_Difference
    <2> QED
        BY <1>1, <1>4, <2>1, <2>2, FS_CardinalityType DEF T
<1>7. left # {} <=> Cardinality(left) > 0
    <2> HIDE DEF left
    <2> QED
        BY <1>6, FS_EmptySet
<1>8. Left(d, s) = Cardinality(left)
    BY <1>3, <1>6 DEF Left
<1>9. (\A e \in ClosedOf(d) : d.table[d.psp][e] # s) <=> A = {}
    BY <1>3
<1>10. A = {} => Cardinality(left) = f.refs
    <2>1. A = {} => Cardinality(A) = 0
        BY FS_EmptySet
    <2> HIDE DEF A, left, f
    <2> QED
        BY <1>1, <1>6, <2>1 DEF File
<1>11. g = IF A = {} THEN f ELSE IF Cardinality(left) <= 0 THEN NoFile
                              ELSE [f EXCEPT !.refs = Cardinality(left)]
    BY <1>8, <1>9 DEF LeftFile
<1>12. A # {} => f.open
    <2>1. A # {} => \E e \in Entries : d.table[d.psp][e] = s
        BY DEF OwnOf
    <2>2. s # Unused
        BY TablesAssumption DEF Unused
    <2> QED
        BY <1>1, <2>1, <2>2, HandleIsOpen
<1> HIDE DEF f, g, H, A, left
<1>13. CASE A = {}
    <2>1. g = f
        BY <1>11, <1>13
    <2> QED
        BY <1>1, <1>7, <1>10, <1>13, <2>1 DEF f, g, H, left
<1>14. CASE A # {} /\ Cardinality(left) <= 0
    <2>1. g = NoFile /\ Cardinality(left) = 0
        BY <1>6, <1>11, <1>14
    <2>2. NoFile \in File /\ NoFile.refs = 0 /\ ~NoFile.open
        BY DEF NoFile, File
    <2>3. left = {}
        BY <1>7, <2>1
    <2> QED
        BY <2>1, <2>2, <2>3 DEF f, g, H, left
<1>15. CASE A # {} /\ ~(Cardinality(left) <= 0)
    <2>1. g = [f EXCEPT !.refs = Cardinality(left)] /\ Cardinality(left) > 0
        BY <1>6, <1>11, <1>15
    <2>2. /\ g \in File /\ g.refs = Cardinality(left)
          /\ g.open = f.open /\ g.inherit = f.inherit
        BY <1>1, <1>6, <2>1, RefsFields
    <2> QED
        BY <1>12, <1>15, <2>1, <2>2 DEF f, g, H, left
<1> QED
    BY <1>13, <1>14, <1>15

LEMMA LeftKept ==
    ASSUME NEW d, Counted(d), NEW s \in Slots, NEW p, NEW e,
           <<p, e>> \in Handles(d, s), p # d.psp
    PROVE  /\ d.files[s].open = TRUE /\ LeftFile(d, s).open = TRUE
           /\ LeftFile(d, s).inherit = d.files[s].inherit
<1> DEFINE left == Handles(d, s) \ ({d.psp} \X Entries)
           f == d.files[s]
           g == LeftFile(d, s)
<1>1. left # {}
    BY DEF Handles
<1>2. g.open /\ f.open /\ g.inherit = f.inherit
    BY <1>1, LeftCounted
<1>3. g \in File /\ f \in File
    BY LeftCounted DEF Counted, Tables
<1> HIDE DEF f, g
<1>4. f.open = TRUE /\ g.open = TRUE
    BY <1>2, <1>3 DEF File
<1> QED
    BY <1>2, <1>4 DEF f, g

LEMMA ClosedFields ==
    ASSUME NEW d, Counted(d)
    PROVE  LET c == CloseFiles(d)
           IN  /\ c \in Tables /\ SameProcesses(c, d)
               /\ c.table = [d.table EXCEPT ![d.psp] = ClosedTable(d)]
               /\ c.files = ClosedFiles(d)
<1> DEFINE t == ClosedTable(d)
           f == ClosedFiles(d)
           c1 == [d EXCEPT !.table[d.psp] = t]
           c2 == [c1 EXCEPT !.files = f]
<1>1. CloseFiles(d) = c2
    BY DEF CloseFiles, ClosedTable, ClosedFiles, LeftFile, Left, ClosedOf
<1>2. d \in Tables
    BY DEF Counted
<1>3. t \in [Entries -> Slots \cup {Unused}] /\ f \in [Slots -> File]
    <2>1. d.table[d.psp] \in [Entries -> Slots \cup {Unused}]
        BY <1>2 DEF Tables
    <2>2. t \in [Entries -> Slots \cup {Unused}]
        BY <2>1 DEF ClosedTable
    <2>3. \A s \in Slots : LeftFile(d, s) \in File
        BY LeftCounted
    <2> QED
        BY <2>2, <2>3 DEF ClosedFiles
<1> HIDE DEF t, f
<1>4. /\ c1 \in Tables /\ c1.table = [d.table EXCEPT ![d.psp] = t]
      /\ SameProcesses(c1, d) /\ c1.files = d.files
    BY <1>2, <1>3 DEF Tables, SameProcesses
<1> HIDE DEF c1
<1>5. c2 \in Tables /\ c2.table = c1.table /\ SameProcesses(c2, c1) /\ c2.files = f
    BY <1>3, <1>4 DEF Tables, SameProcesses
<1> HIDE DEF c2
<1> QED
    BY <1>1, <1>4, <1>5 DEF t, f, SameProcesses

\* Leaving the current process, which goes to its parent
Leave(d, p, q, r) == [d EXCEPT !.psp = p, !.running = q, !.resident = r]

LEMMA LeaveFields ==
    ASSUME NEW d \in Tables, NEW p \in Procs, NEW q \in SUBSET Procs, NEW r \in SUBSET Procs,
           NEW c, c = Leave(d, p, q, r)
    PROVE  /\ c \in Tables /\ c.table = d.table /\ c.files = d.files
           /\ c.parent = d.parent /\ c.psp = p
           /\ c.running = q /\ c.resident = r
<1> DEFINE c1 == [d EXCEPT !.psp = p]
           c2 == [c1 EXCEPT !.running = q]
           c3 == [c2 EXCEPT !.resident = r]
<1>1. /\ c1 \in Tables /\ c1.table = d.table /\ c1.files = d.files /\ c1.parent = d.parent
      /\ c1.psp = p /\ c1.running = d.running /\ c1.resident = d.resident
    BY DEF Tables
<1> HIDE DEF c1
<1>2. /\ c2 \in Tables /\ c2.table = d.table /\ c2.files = d.files /\ c2.parent = d.parent
      /\ c2.psp = p /\ c2.running = q /\ c2.resident = d.resident
    BY <1>1 DEF Tables
<1> HIDE DEF c2
<1>3. /\ c3 \in Tables /\ c3.table = d.table /\ c3.files = d.files /\ c3.parent = d.parent
      /\ c3.psp = p /\ c3.running = q /\ c3.resident = r
    BY <1>2 DEF Tables
<1> HIDE DEF c3
<1>4. Leave(d, p, q, r) = c3
    BY DEF Leave, c1, c2, c3
<1> QED
    BY <1>3, <1>4

\* A program that stays resident keeps its handles,
LEMMA ResidentCounted ==
    ASSUME NEW d, Counted(d), NEW c \in Tables, d.psp \in d.running,
           c.table = d.table, c.files = d.files, c.psp \in Existing(d),
           c.running = d.running \ {d.psp}, c.resident = d.resident \cup {d.psp}
    PROVE  Counted(c) /\ Kept(c, d)
<1>1. Existing(c) = Existing(d)
    BY DEF Existing
<1> QED
    BY <1>1 DEF Counted, Handles, Kept

\* and one that ends gives them back.
LEMMA EndedCounted ==
    ASSUME NEW d, Counted(d), NEW c \in Tables, d.psp \in d.running, d.psp \notin d.resident,
           c.table = [d.table EXCEPT ![d.psp] = ClosedTable(d)], c.files = ClosedFiles(d),
           c.psp \in Existing(d) \ {d.psp},
           c.running = d.running \ {d.psp}, c.resident = d.resident
    PROVE  Counted(c) /\ Kept(c, d)
<1>1. /\ Existing(c) = Existing(d) \ {d.psp} /\ Existing(d) \subseteq Procs
      /\ d.table \in [Procs -> [Entries -> Slots \cup {Unused}]]
    BY DEF Existing, Counted, Tables
<1>2. \A p \in Existing(c) : c.table[p] = d.table[p]
    BY <1>1
<1>3. \A s \in Slots : Handles(c, s) = Handles(d, s) \ ({d.psp} \X Entries)
    BY <1>1, <1>2 DEF Handles
<1>4. \A s \in Slots : c.files[s] = LeftFile(d, s)
    BY DEF ClosedFiles
<1>5. Counted(c)
    <2>1. ASSUME NEW s \in Slots
          PROVE  /\ c.files[s].refs = Cardinality(Handles(c, s))
                 /\ c.files[s].open <=> c.files[s].refs > 0
                 /\ c.files[s].refs = 0 => c.files[s] = NoFile
        <3>1. /\ LeftFile(d, s).refs = Cardinality(Handles(d, s) \ ({d.psp} \X Entries))
              /\ LeftFile(d, s).open <=> LeftFile(d, s).refs > 0
              /\ LeftFile(d, s).refs = 0 => LeftFile(d, s) = NoFile
            BY LeftCounted
        <3> QED
            BY <1>3, <1>4, <3>1
    <2> QED
        BY <1>1, <2>1 DEF Counted
<1>6. ASSUME NEW p \in Existing(d) \ {d.psp}, NEW e \in Entries, d.table[p][e] # Unused
      PROVE  LET s == d.table[p][e]
             IN  /\ c.files[s].open = d.files[s].open
                 /\ c.files[s].inherit = d.files[s].inherit
    <2> DEFINE s == d.table[p][e]
    <2>1. s \in Slots /\ <<p, e>> \in Handles(d, s)
        BY <1>6, HandleIsOpen
    <2> HIDE DEF s
    <2>2. /\ d.files[s].open = TRUE /\ LeftFile(d, s).open = TRUE
          /\ LeftFile(d, s).inherit = d.files[s].inherit
        BY <1>6, <2>1, LeftKept, Zenon
    <2>6. c.files[s].open = d.files[s].open /\ c.files[s].inherit = d.files[s].inherit
        BY <1>4, <2>1, <2>2
    <2> QED
        BY <2>6 DEF s
<1> QED
    BY <1>1, <1>2, <1>5, <1>6 DEF Kept
---------------------------------------------------------------------------
(* The steps                                                               *)

\* A process that runs returns to one that exists
Tree(d) ==
    /\ d.running \cap d.resident = {}
    /\ \A p \in d.running : d.parent[p] \in Existing(d)

FilesInv == Counted(dos) /\ Tree(dos) /\ failed \in BOOLEAN

LEMMA SameTree ==
    ASSUME NEW c, NEW d, SameProcesses(c, d), Tree(d)
    PROVE  Tree(c)
    BY DEF Tree, SameProcesses, Existing

\* A step keeps the invariant, and the files of all but the current process
Good == Counted(dos') /\ Tree(dos') /\ failed' \in BOOLEAN /\ Kept(dos', dos)

\* A call that fails leaves both tables as they are
Unharmed == failed' => dos'.files = dos.files /\ dos'.table = dos.table

LEMMA SameIsGood ==
    ASSUME FilesInv, Same(dos', dos), failed' \in BOOLEAN
    PROVE  Good
    BY SameTree DEF FilesInv, Same, Good

LEMMA FailIsGood ==
    ASSUME FilesInv, Fail
    PROVE  Good /\ Unharmed
    BY SameReflexive, SameIsGood DEF Fail, FilesInv, Unharmed

LEMMA ReturnIsGood ==
    ASSUME FilesInv, NEW d, Same(d, dos), Return(d)
    PROVE  Good /\ Unharmed
    BY SameIsGood DEF Return, Unharmed

LEMMA OpenFileGood ==
    ASSUME FilesInv, OpenFile
    PROVE  Good /\ Unharmed
<1>1. CASE \E inherit \in BOOLEAN : CanOpen(dos) /\ Return(Opened(dos, inherit))
    BY <1>1, OpenedCounted, ReturnIsGood DEF FilesInv
<1> QED
    BY <1>1, FailIsGood DEF OpenFile

LEMMA CloseFileGood ==
    ASSUME FilesInv, CloseFile
    PROVE  Good /\ Unharmed
<1>1. CASE \E entry \in Entries : Return(Closed(dos, entry))
    BY <1>1, ClosedCounted, ReturnIsGood DEF FilesInv
<1> QED
    BY <1>1, FailIsGood DEF CloseFile

LEMMA DuplicateEntryGood ==
    ASSUME FilesInv, DuplicateEntry
    PROVE  Good /\ Unharmed
<1>1. CASE \E entry \in Entries :
               /\ Valid(dos, entry) /\ FreeEntries(dos) # {}
               /\ Return(Duplicated(dos, entry, Min(FreeEntries(dos))))
    <2>1. PICK entry \in Entries :
               /\ Valid(dos, entry) /\ FreeEntries(dos) # {}
               /\ Return(Duplicated(dos, entry, Min(FreeEntries(dos))))
        BY <1>1
    <2> DEFINE new == Min(FreeEntries(dos))
    <2>2. new \in FreeEntries(dos)
        BY <2>1, SmallestIsMember, TablesAssumption DEF FreeEntries
    <2>3. new \in Entries /\ dos.table[dos.psp][new] = Unused
        BY <2>2 DEF FreeEntries
    <2>4. dos.table[dos.psp][entry] # Unused
        BY <2>1 DEF Valid, RealHandle
    <2> HIDE DEF new
    <2>5. Same(Duplicated(dos, entry, new), dos)
        BY <2>3, <2>4, DuplicatedCounted DEF FilesInv
    <2> QED
        BY <2>1, <2>5, ReturnIsGood DEF new
<1> QED
    BY <1>1, FailIsGood DEF DuplicateEntry

LEMMA ForceDuplicateEntryGood ==
    ASSUME FilesInv, Targets \subseteq Entries, ForceDuplicateEntry
    PROVE  Good /\ Unharmed
<1>1. CASE \E entry \in Entries, new \in Targets :
               entry # new /\ Valid(dos, entry) /\ Return(Forced(dos, entry, new))
    BY <1>1, ForcedCounted, ReturnIsGood DEF FilesInv
<1> QED
    BY <1>1, FailIsGood DEF ForceDuplicateEntry

\* Creating the file anew takes the slot and the handle that were given back
LEMMA ReplacedGood ==
    ASSUME FilesInv, CanOpen(dos), NEW inherit \in BOOLEAN, NEW created \in BOOLEAN
    PROVE  LET c == Replaced(Opened(dos, inherit), created)
           IN  /\ Same(c, dos)
               /\ ~created => c.files = dos.files /\ c.table = dos.table
<1> DEFINE b == Closed(Opened(dos, inherit), Min(FreeEntries(dos)))
<1>1. Same(b, dos) /\ b.files = dos.files /\ b.table = dos.table
    BY OpenedThenClosed DEF FilesInv
<1>2. Replaced(Opened(dos, inherit), created) = IF created THEN Opened(b, TRUE) ELSE b
    BY DEF Replaced
<1> HIDE DEF b
<1>3. CanOpen(b) /\ Counted(b)
    BY <1>1 DEF CanOpen, FreeSlots, FreeEntries, Same, SameProcesses
<1>4. Same(Opened(b, TRUE), b)
    BY <1>3, OpenedCounted
<1>5. Same(Opened(b, TRUE), dos)
    BY <1>1, <1>4, SameTransitive
<1> QED
    BY <1>1, <1>2, <1>5

LEMMA OpenFileExtendedGood ==
    ASSUME FilesInv, OpenFileExtended
    PROVE  Good /\ ("fail" \notin Replies => Unharmed)
<1>1. CanOpen(dos) /\ Counted(dos)
    BY DEF OpenFileExtended, FilesInv
<1>2. PICK inherit \in BOOLEAN :
          LET d == Opened(dos, inherit)
          IN  \/ "open" \in Replies /\ Return(d)
              \/ "fail" \in Replies /\ dos' = d /\ failed' = TRUE
              \/ /\ "replace" \in Replies
                 /\ \E created \in BOOLEAN :
                        dos' = Replaced(d, created) /\ failed' = ~created
    BY DEF OpenFileExtended
<1> DEFINE d == Opened(dos, inherit)
<1>3. Same(d, dos)
    BY <1>1, OpenedCounted
<1>4. CASE Return(d)
    BY <1>3, <1>4, SameIsGood DEF Return, Unharmed
<1>5. CASE "fail" \in Replies /\ dos' = d /\ failed' = TRUE
    BY <1>3, <1>5, SameIsGood
<1>6. CASE \E created \in BOOLEAN : dos' = Replaced(d, created) /\ failed' = ~created
    <2>1. PICK created \in BOOLEAN : dos' = Replaced(d, created) /\ failed' = ~created
        BY <1>6
    <2>2. Same(dos', dos) /\ (~created => dos'.files = dos.files /\ dos'.table = dos.table)
        BY <1>1, <2>1, ReplacedGood
    <2> QED
        BY <2>1, <2>2, SameIsGood DEF Unharmed
<1> QED
    BY <1>2, <1>4, <1>5, <1>6

LEMMA StartedGood ==
    ASSUME FilesInv, NEW d, Same(d, dos), NEW p \in Procs \ Existing(d), Return(Started(d, p))
    PROVE  Good /\ Unharmed
<1> DEFINE c == Started(d, p)
<1>1. Counted(d) /\ SameProcesses(d, dos) /\ Kept(d, dos) /\ Tree(d)
    BY SameTree DEF Same, FilesInv
<1>2. Counted(c) /\ Kept(c, d)
    BY <1>1, StartedCounted
<1>3. d \in Tables /\ d.psp \in Existing(d)
    BY <1>1 DEF Counted
<1>4. /\ c.running = d.running \cup {p} /\ c.resident = d.resident
      /\ c.parent = [d.parent EXCEPT ![p] = d.psp]
    BY <1>3, StartedFields
<1> HIDE DEF c
<1>5. Tree(c)
    <2>1. d.parent \in [Procs -> Procs] /\ d.running \subseteq Procs
        BY <1>3 DEF Tables
    <2>2. \A q \in c.running : c.parent[q] = IF q = p THEN d.psp ELSE d.parent[q]
        BY <1>4, <2>1
    <2> QED
        BY <1>1, <1>3, <1>4, <2>2 DEF Tree, Existing
<1>6. Kept(c, dos)
    BY <1>1, <1>2, KeptTransitive DEF SameProcesses, Existing
<1> QED
    BY <1>2, <1>5, <1>6 DEF Return, Good, Unharmed, c

LEMMA ExecuteGood ==
    ASSUME FilesInv, Execute
    PROVE  Good /\ Unharmed
<1>1. CASE Fail
    BY <1>1, FailIsGood
<1>2. CASE ~Fail
    <2> DEFINE d == Closed(Opened(dos, TRUE), Min(FreeEntries(dos)))
    <2>1. CanOpen(dos) /\ Counted(dos)
        BY <1>2 DEF Execute, FilesInv
    <2>2. Same(d, dos) /\ d.files = dos.files /\ d.table = dos.table
        BY <2>1, OpenedThenClosed
    <2>3. \/ \E p \in Procs \ Existing(dos) : Return(Started(d, p))
          \/ Return(d)
          \/ dos' = d /\ failed' = TRUE
        BY <1>2 DEF Execute
    <2> HIDE DEF d
    <2>4. Existing(d) = Existing(dos)
        BY <2>2 DEF Same, SameProcesses, Existing
    <2>5. CASE \E p \in Procs \ Existing(dos) : Return(Started(d, p))
        BY <2>2, <2>4, <2>5, StartedGood
    <2>6. CASE dos' = d /\ failed' \in BOOLEAN
        BY <2>2, <2>6, SameIsGood DEF Unharmed
    <2> QED
        BY <2>3, <2>5, <2>6 DEF Return
<1> QED
    BY <1>1, <1>2

LEMMA SetPSPGood ==
    ASSUME FilesInv, SetPSP
    PROVE  Good /\ Unharmed
<1>1. PICK p \in Existing(dos) : Return([dos EXCEPT !.psp = p])
    BY DEF SetPSP
<1> DEFINE c == [dos EXCEPT !.psp = p]
<1>2. dos \in Tables /\ p \in Procs
    BY DEF FilesInv, Counted, Existing, Tables
<1>3. /\ c \in Tables /\ c.files = dos.files /\ c.table = dos.table /\ c.parent = dos.parent
      /\ c.psp = p /\ c.running = dos.running /\ c.resident = dos.resident
    BY <1>2 DEF Tables
<1> HIDE DEF c
<1>4. Existing(c) = Existing(dos)
    BY <1>3 DEF Existing
<1>5. Counted(c) /\ Tree(c) /\ Kept(c, dos)
    BY <1>3, <1>4 DEF FilesInv, Counted, Handles, Tree, Kept
<1> QED
    BY <1>1, <1>5 DEF Return, Good, Unharmed, c

LEMMA TerminateGood ==
    ASSUME FilesInv, NEW tsr \in BOOLEAN, Terminate(tsr)
    PROVE  Good /\ Unharmed
<1> DEFINE d == IF tsr THEN dos ELSE CloseFiles(dos)
           r == IF tsr THEN d.resident \cup {dos.psp} ELSE d.resident
           up == dos.parent[dos.psp]
           c == Leave(d, up, d.running \ {dos.psp}, r)
<1>1. /\ dos.psp \in dos.running /\ \A p \in dos.running : dos.parent[p] # dos.psp
      /\ dos' = c /\ failed' = FALSE
    BY DEF Terminate, Return, Leave
<1>2. /\ Counted(dos) /\ dos \in Tables /\ dos.running \subseteq Procs
      /\ dos.resident \subseteq Procs /\ dos.psp \in Procs
      /\ dos.psp \notin dos.resident /\ up \in Existing(dos) \ {dos.psp}
      /\ dos.running \cap dos.resident = {}
      /\ \A p \in dos.running : dos.parent[p] \in Existing(dos)
    BY <1>1 DEF FilesInv, Counted, Tables, Tree
<1>3. up \in Procs
    BY <1>2 DEF Existing
<1>4. d \in Tables /\ SameProcesses(d, dos)
    BY <1>2, ClosedFields DEF SameProcesses
<1>5. r \in SUBSET Procs /\ d.running \ {dos.psp} \in SUBSET Procs
    BY <1>2, <1>4 DEF SameProcesses
<1> HIDE DEF d, r, up
<1>6. /\ c \in Tables /\ c.table = d.table /\ c.files = d.files /\ c.parent = dos.parent
      /\ c.psp = up /\ c.running = dos.running \ {dos.psp} /\ c.resident = r
    <2>1. /\ c \in Tables /\ c.table = d.table /\ c.files = d.files /\ c.parent = d.parent
          /\ c.psp = up /\ c.running = d.running \ {dos.psp} /\ c.resident = r
        BY <1>3, <1>4, <1>5, LeaveFields DEF SameProcesses
    <2> HIDE DEF c
    <2> QED
        BY <1>4, <2>1 DEF SameProcesses
<1> HIDE DEF c
<1>7. Counted(c) /\ Kept(c, dos)
    <2>1. CASE tsr
        BY <1>1, <1>2, <1>6, <2>1, ResidentCounted DEF d, r
    <2>2. CASE ~tsr
        <3>1. /\ c.table = [dos.table EXCEPT ![dos.psp] = ClosedTable(dos)]
              /\ c.files = ClosedFiles(dos)
            BY <1>2, <1>6, <2>2, ClosedFields DEF d
        <3>2. c.resident = dos.resident
            BY <1>4, <1>6, <2>2 DEF r, SameProcesses
        <3> QED
            BY <1>1, <1>2, <1>6, <3>1, <3>2, EndedCounted
    <2> QED
        BY <2>1, <2>2
<1>8. Tree(c)
    <2>1. dos.resident \subseteq c.resident /\ c.resident \subseteq dos.resident \cup {dos.psp}
        BY <1>4, <1>6 DEF r, SameProcesses
    <2> QED
        BY <1>1, <1>2, <1>6, <2>1 DEF Tree, Existing
<1> QED
    BY <1>1, <1>7, <1>8 DEF Good, Unharmed
---------------------------------------------------------------------------
(* The theorems                                                            *)

LEMMA InitFiles == Init => FilesInv
<1> SUFFICES ASSUME Init PROVE FilesInv
    OBVIOUS
<1>1. NoFile \in File /\ NoFile.refs = 0 /\ ~NoFile.open
    BY DEF NoFile, File
<1>2. /\ dos.files = [s \in Slots |-> NoFile]
      /\ dos.table = [p \in Procs |-> [e \in Entries |-> Unused]]
      /\ dos.psp = Shell /\ dos.running = {Shell} /\ dos.resident = {}
      /\ dos.parent = [p \in Procs |-> Shell]
    BY DEF Init
<1>3. dos \in Tables
    BY <1>1, ProcsAssumption DEF Init, Tables
<1>4. Existing(dos) = {Shell}
    BY <1>2 DEF Existing
<1>5. \A s \in Slots : Handles(dos, s) = {}
    <2>1. \A s \in Slots : s # Unused
        BY TablesAssumption DEF Unused
    <2>2. \A h \in Existing(dos) \X Entries : dos.table[h[1]][h[2]] = Unused
        BY <1>2, <1>4, ProcsAssumption
    <2> QED
        BY <2>1, <2>2 DEF Handles
<1>6. Counted(dos)
    BY <1>1, <1>2, <1>3, <1>4, <1>5, FS_EmptySet DEF Counted
<1>7. Tree(dos)
    BY <1>2, <1>4, ProcsAssumption DEF Tree
<1> QED
    BY <1>6, <1>7 DEF Init, FilesInv

LEMMA NextFiles ==
    ASSUME FilesInv, Targets \subseteq Entries, Next
    PROVE  Good /\ ("fail" \notin Replies => Unharmed)
<1>1. CASE ChildPSP
    BY <1>1, SameReflexive, StartedGood DEF ChildPSP, FilesInv
<1> QED
    BY <1>1, OpenFileGood, CloseFileGood, OpenFileExtendedGood, DuplicateEntryGood,
       ForceDuplicateEntryGood, ExecuteGood, SetPSPGood, TerminateGood DEF Next

LEMMA StepFiles ==
    ASSUME FilesInv, Targets \subseteq Entries, [Next]_vars
    PROVE  FilesInv'
<1>1. CASE Next
    BY <1>1, NextFiles DEF Good, FilesInv
<1>2. CASE UNCHANGED vars
    BY <1>2 DEF vars, FilesInv, Counted, Tree, Existing, Handles
<1> QED
    BY <1>1, <1>2

\* Whatever the sizes of the tables and however many processes there are, as
\* long as duplicates are forced only into handles that the tables have: every
\* file is counted once for each handle of a process that has not ended, and
\* open exactly as long as there is one;
THEOREM FilesCounted ==
    ASSUME Targets \subseteq Entries
    PROVE  Spec => []HandlesCounted
<1>1. FilesInv /\ [Next]_vars => FilesInv'
    BY StepFiles
<1>2. FilesInv => HandlesCounted
    BY DEF FilesInv, Counted, Tree, HandlesCounted, TypeOK
<1> QED
    BY <1>1, <1>2, InitFiles, PTL DEF Spec

\* no process, neither by what it does with its handles nor by ending, touches
\* the files of another;
THEOREM FilesAreKept ==
    ASSUME Targets \subseteq Entries
    PROVE  Spec => OthersKeepFiles
<1>1. FilesInv /\ [Next]_vars => FilesInv'
    BY StepFiles
<1>2. FilesInv /\ Next => Kept(dos', dos)
    BY NextFiles DEF Good
<1>3. FilesInv /\ [Next]_vars =>
          [\A p \in Existing(dos) \ {dos.psp} :
               /\ dos'.table[p] = dos.table[p]
               /\ \A e \in Entries :
                      LET s == dos.table[p][e]
                      IN  s # Unused => /\ dos'.files[s].open = dos.files[s].open
                                        /\ dos'.files[s].inherit = dos.files[s].inherit]_vars
    BY <1>2 DEF Kept
<1> QED
    BY <1>1, <1>3, InitFiles, PTL DEF Spec, OthersKeepFiles

\* and a call that fails, but for the one reply of int 21h/6Ch that leaves the
\* file open, has closed all that it opened.
THEOREM FailuresUndo ==
    ASSUME Targets \subseteq Entries, "fail" \notin Replies
    PROVE  Spec => FailureChangesNothing
<1>1. FilesInv /\ [Next]_vars => FilesInv'
    BY StepFiles
<1>2. FilesInv /\ [Next]_vars =>
          [failed' => dos'.files = dos.files /\ dos'.table = dos.table]_vars
    BY NextFiles DEF Unharmed
<1> QED
    BY <1>1, <1>2, InitFiles, PTL DEF Spec, FailureChangesNothing
=============================================================================
