------------------------------ MODULE DosFiles ------------------------------
(***************************************************************************)
(* Open files and processes in DOS: the table Files of open files, with    *)
(* their reference counts, and the handle tables of the processes (PSPs)   *)
(* that share them, from src/dos/dos_files.cpp, dos_classes.cpp and        *)
(* dos_execute.cpp.                                                        *)
(*                                                                         *)
(* A handle is an index into the table of the process that is current, the *)
(* index that the table holds is one into Files.  Drives, names and data   *)
(* are left out: whether a file is there and may be opened is the drive's  *)
(* choice.  Devices differ only in that closing them does nothing to them. *)
(*                                                                         *)
(* Left out are file control blocks, which name handles from the memory of *)
(* the program, tables larger than 20 handles and int 21h/26h, which copies*)
(* a table without counting the references.  A program ends with int       *)
(* 21h/4Ch, so that it is the current process, or stays resident; none ends*)
(* before the ones that it started.                                        *)
(***************************************************************************)
EXTENDS Integers, FiniteSetsExt

CONSTANTS
    Procs,     \* the segments that a PSP can be at
    Shell,     \* the first of them, which never ends
    Slots,     \* the indices of Files, 0 .. DOS_FILES - 1
    Entries,   \* the handles of a process, 0 .. max_files - 1
    Targets,   \* the handles that programs force a duplicate into
    Replies    \* what int 21h/6Ch does with a file that exists

ASSUME ProcsAssumption == Shell \in Procs
ASSUME TablesAssumption ==
    /\ Slots \subseteq Nat /\ Entries \subseteq Nat /\ Targets \subseteq Nat
    /\ Slots # {} /\ Entries # {}
ASSUME FiniteAssumption == IsFiniteSet(Procs) /\ IsFiniteSet(Entries)
ASSUME RepliesAssumption == Replies \subseteq {"fail", "open", "replace"}

\* The fields of dos: files, the table Files; table, the handle tables; psp,
\* dos.psp(); parent, the PSPs' psp_parent; running and resident, the processes
\* that have not ended.  failed says whether the last call did.
VARIABLES dos, failed

vars == <<dos, failed>>

Unused == -1   \* 0xff in a handle table
NoFile == [refs |-> 0, open |-> FALSE, inherit |-> FALSE]

Existing(d) == d.running \cup d.resident

---------------------------------------------------------------------------
(* The two tables *)

RealHandle(d, entry) == IF entry \in Entries THEN d.table[d.psp][entry] ELSE Unused

SetFileHandle(d, entry, slot) ==
    IF entry \in Entries THEN [d EXCEPT !.table[d.psp][entry] = slot] ELSE d

AddRef(d, slot) == [d EXCEPT !.files[slot].refs = @ + 1]

FreeSlots(d)   == {s \in Slots : d.files[s] = NoFile}
FreeEntries(d) == {e \in Entries : d.table[d.psp][e] = Unused}
CanOpen(d)     == FreeSlots(d) # {} /\ FreeEntries(d) # {}

\* The handle refers to an open file
Valid(d, entry) ==
    LET s == RealHandle(d, entry) IN s # Unused /\ d.files[s] # NoFile /\ d.files[s].open

\* The operators named Bad... are plausible defects: a property is worth having
\* when it fails once one of them replaces the definition below it.
BadClosed(d, entry) ==
    LET s == RealHandle(d, entry)
    IN  IF s = Unused \/ d.files[s] = NoFile THEN d
        ELSE [SetFileHandle(d, entry, Unused) EXCEPT !.files[s] = NoFile]

\* DOS_CloseFile: the file's own Close does its work for the last reference only
Closed(d, entry) ==
    LET s == RealHandle(d, entry)
        f == [d.files[s] EXCEPT !.open = @ /\ d.files[s].refs # 1, !.refs = @ - 1]
    IN  IF s = Unused \/ d.files[s] = NoFile THEN d
        ELSE [SetFileHandle(d, entry, Unused) EXCEPT
                 !.files[s] = IF f.refs <= 0 THEN NoFile ELSE f]

\* DOS_OpenFile and DOS_CreateFile, when a file is there and both tables have room
Opened(d, inherit) ==
    LET s == Min(FreeSlots(d))
        new == [d EXCEPT !.files[s] = [refs |-> 0, open |-> TRUE, inherit |-> inherit]]
    IN  SetFileHandle(AddRef(new, s), Min(FreeEntries(d)), s)

Duplicated(d, entry, new) ==
    LET s == RealHandle(d, entry) IN SetFileHandle(AddRef(d, s), new, s)

---------------------------------------------------------------------------
(* Calls on handles *)

Fail == failed' = TRUE /\ dos' = dos
Return(d) == failed' = FALSE /\ dos' = d

\* The drive finds the file, or creates it, or not.  A file that is created
\* can be inherited.
OpenFile ==
    \/ CanOpen(dos) /\ \E inherit \in BOOLEAN : Return(Opened(dos, inherit))
    \/ Fail

CloseFile ==
    \E entry \in Entries :
        LET s == RealHandle(dos, entry)
        IN  IF s = Unused \/ dos.files[s] = NoFile THEN Fail ELSE Return(Closed(dos, entry))

DuplicateEntry ==
    \E entry \in Entries :
        IF Valid(dos, entry) /\ FreeEntries(dos) # {}
        THEN Return(Duplicated(dos, entry, Min(FreeEntries(dos)))) ELSE Fail

\* The file that was at the new handle is closed first
Forced(d, entry, new) == Duplicated(Closed(d, new), entry, new)

ForceDuplicateEntry ==
    \E entry \in Entries, new \in Targets :
        IF entry # new /\ Valid(dos, entry) THEN Return(Forced(dos, entry, new)) ELSE Fail

BadReplaced(d, created) ==
    IF created THEN Opened(Closed(d, Min(FreeEntries(dos))), TRUE) ELSE d

\* The file is closed again, and created anew, if the drive can
Replaced(d, created) ==
    LET c == Closed(d, Min(FreeEntries(dos))) IN IF created THEN Opened(c, TRUE) ELSE c

\* The file exists; otherwise DOS_OpenFileExtended creates it or fails as
\* OpenFile does.
OpenFileExtended ==
    /\ CanOpen(dos)
    /\ \E inherit \in BOOLEAN :
           LET d == Opened(dos, inherit)
           IN  \/ "open" \in Replies /\ Return(d)
               \/ "fail" \in Replies /\ dos' = d /\ failed' = TRUE
               \/ /\ "replace" \in Replies
                  /\ \E created \in BOOLEAN :
                         dos' = Replaced(d, created) /\ failed' = ~created

---------------------------------------------------------------------------
(* Processes *)

BadInherited(d, p) ==
    [d EXCEPT !.table[p] =
        [e \in Entries |-> LET s == d.table[d.psp][e]
                           IN  IF s # Unused /\ d.files[s].inherit THEN s ELSE Unused]]

\* CopyFileTable for a child
Inherited(d, p) ==
    LET copied == {e \in Entries : LET s == d.table[d.psp][e]
                                   IN  s # Unused /\ d.files[s] # NoFile /\ d.files[s].inherit}
        own  == d.table[d.psp]
        Refs(s) == Cardinality({e \in copied : own[e] = s})
    IN  [d EXCEPT !.table[p] = [e \in Entries |-> IF e \in copied THEN own[e] ELSE Unused],
                  !.files = [s \in Slots |-> [d.files[s] EXCEPT !.refs = @ + Refs(s)]]]

\* A PSP is made at p and becomes the current one
Started(d, p) ==
    [Inherited(d, p) EXCEPT !.parent[p] = d.psp, !.running = @ \cup {p}, !.psp = p]

\* DOS_Execute opens the program file, and closes it before it makes the PSP.
\* It fails without the file or without memory; an overlay gets no PSP.
Execute ==
    \/ /\ CanOpen(dos)
       /\ LET d == Closed(Opened(dos, TRUE), Min(FreeEntries(dos)))
          IN  \/ \E p \in Procs \ Existing(dos) : Return(Started(d, p))
              \/ Return(d)
              \/ dos' = d /\ failed' = TRUE
    \/ Fail

\* Int 21h/55h
ChildPSP == \E p \in Procs \ Existing(dos) : Return(Started(dos, p))

\* Int 21h/50h: a resident program, or one that runs others, changes the PSP
SetPSP == \E p \in Existing(dos) : Return([dos EXCEPT !.psp = p])

\* DOS_PSP::CloseFiles closes every handle, so a file loses as many references
\* as the process has handles of it
CloseFiles(d) ==
    LET own == d.table[d.psp]
        closed == {e \in Entries : own[e] # Unused /\ d.files[own[e]] # NoFile}
        Left(s) == d.files[s].refs - Cardinality({e \in closed : own[e] = s})
    IN  [d EXCEPT !.table[d.psp] = [e \in Entries |-> IF e \in closed THEN Unused ELSE own[e]],
                  !.files = [s \in Slots |->
                                IF \A e \in closed : own[e] # s THEN d.files[s]
                                ELSE IF Left(s) <= 0 THEN NoFile
                                ELSE [d.files[s] EXCEPT !.refs = Left(s)]]]

\* DOS_Terminate
Terminate(tsr) ==
    /\ dos.psp \in dos.running \ {Shell}
    /\ \A p \in dos.running : dos.parent[p] # dos.psp
    /\ LET d == IF tsr THEN dos ELSE CloseFiles(dos)
       IN  Return([d EXCEPT !.psp = dos.parent[dos.psp],
                            !.running = @ \ {dos.psp},
                            !.resident = IF tsr THEN @ \cup {dos.psp} ELSE @])

---------------------------------------------------------------------------

Init ==
    /\ dos = [files |-> [s \in Slots |-> NoFile],
              table |-> [p \in Procs |-> [e \in Entries |-> Unused]],
              parent |-> [p \in Procs |-> Shell],
              psp |-> Shell, running |-> {Shell}, resident |-> {}]
    /\ failed = FALSE

Next ==
    \/ OpenFile \/ CloseFile \/ OpenFileExtended
    \/ DuplicateEntry \/ ForceDuplicateEntry
    \/ Execute \/ ChildPSP \/ SetPSP
    \/ \E tsr \in BOOLEAN : Terminate(tsr)

Spec == Init /\ [][Next]_vars

---------------------------------------------------------------------------
(* Properties *)

File == [refs : Nat, open : BOOLEAN, inherit : BOOLEAN]
Tables == [files : [Slots -> File], table : [Procs -> [Entries -> Slots \cup {Unused}]],
           parent : [Procs -> Procs], psp : Procs,
           running : SUBSET Procs, resident : SUBSET Procs]

\* The tables keep their types, and no process outlives the one that it
\* returns to.
TypeOK ==
    /\ dos \in Tables
    /\ dos.psp \in Existing(dos)
    /\ dos.running \cap dos.resident = {}
    /\ \A p \in dos.running : dos.parent[p] \in Existing(dos)
    /\ failed \in BOOLEAN

\* The handles of existing processes that refer to an open file
Handles(d, s) == {h \in Existing(d) \X Entries : d.table[h[1]][h[2]] = s}

\* A file is in the table, and open, exactly as long as a process that has not
\* ended has a handle for it, and its count is the number of these handles: no
\* handle outlives its file, and no file is left that nobody can close.
HandlesCounted ==
    TypeOK /\ \A s \in Slots :
        /\ dos.files[s].refs = Cardinality(Handles(dos, s))
        /\ dos.files[s].open <=> dos.files[s].refs > 0

\* Whatever a process does with its handles, and when it ends, the handles of
\* the others refer to the same open files as before.
OthersKeepFiles ==
    [][\A p \in Existing(dos) \ {dos.psp} :
           /\ dos'.table[p] = dos.table[p]
           /\ \A e \in Entries :
                  LET s == dos.table[p][e]
                  IN  s # Unused => /\ dos'.files[s].open = dos.files[s].open
                                    /\ dos'.files[s].inherit = dos.files[s].inherit]_vars

\* A call that fails has opened and closed nothing, also when it is made of
\* several that succeeded.
FailureChangesNothing ==
    [][failed' => dos'.files = dos.files /\ dos'.table = dos.table]_vars
=============================================================================
