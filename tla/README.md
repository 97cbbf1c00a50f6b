# A TLA+ development of Boxon

Boxon is a DOSBox derivative that runs on bare hardware: a PC emulator in C++ whose
devices, DOS and BIOS services are all driven by one loop. This directory holds TLA+
modules translated from its source, TLC configurations that model-check them, and
proofs for TLAPS. Paths below are relative to the emulator's sources, `src/src/`.

Reading order: this file, then `Pic8259.tla` and `Pic8259Proofs.tla` (the core),
`EventQueue.tla`, `Keyboard.tla`; then in any order `DosMemory.tla`, `DosFiles.tla`,
`PagePool.tla`, `Uart.tla` with `NullModem.tla`, `Ipx.tla`, `CodeCache.tla`.

## 1. Inventory of the system

One thread runs `Normal_Loop` (`dosbox.cpp`). It asks `PIC_RunQueue` for a slice of CPU
cycles, lets the CPU core consume it, runs callbacks into DOS and BIOS code, and once per
emulated millisecond delivers host input and advances time. So there is no preemption
inside the emulator, but *logical* concurrency everywhere: a device handler, an instruction of
the guest, a tick handler and a host event can come in any order, and each of them can call
into the interrupt controllers, the event queue and other devices. The guest itself is an
arbitrary program and an interrupt can stop it between any two instructions. The one
real thread besides is SDL's audio callback. Two devices face an unreliable outside: the
null modem (a TCP peer that may leave at any moment) and IPX (UDP packets).

| Component | State | Operations | Interacts with | What is hard, what makes it correct |
|---|---|---|---|---|
| Interrupt controllers, `hardware/pic.cpp` | irr, imr, isr, active_irq, modes and ICW state of two 8259s; `PIC_IRQCheck` | raise, lower, mask, EOI, OCW3, ICW1-4, `PIC_runIRQs` | devices (requests), guest (ports), CPU cores (`PIC_IRQCheck`) | `PIC_IRQCheck` and line 2 of the master are caches of "something is ready"; none may be stale, no interrupt lost, nesting by priority |
| Event queue and loop, `hardware/pic.cpp`, `dosbox.cpp` | list of 512 entries, `CPU_Cycles`, `CPU_CycleLeft`, tick | `PIC_AddEvent`, removal, `PIC_RunQueue`, `TIMER_AddTick` | every timed device; the CPU core | rescheduling while the core runs, deadlines between cycles, events in order, time that does not jump |
| DOS memory, `dos/dos_memory.cpp` | chain of MCBs in guest memory, UMB link, strategy | allocate, resize, free, release of a process, link | EXEC (`dos/dos_execute.cpp`), XMS UMB calls | splits and merges keep the chain whole; failure only for want of room; no leak at exit |
| DOS files and processes, `dos/dos_files.cpp`, `dos/dos_execute.cpp`, `dos/dos_classes.cpp` | file table with reference counts, handle table per PSP, parent links | open, create, duplicate, force-duplicate, close, extended open, EXEC, child PSP, terminate | drives, devices, DOS memory | counts equal to the handles that refer to a file, over inheritance and exit; calls made of several that fail half way |
| Keyboard, `hardware/keyboard.cpp` | ring of 32 codes, port 60h, pending command, typematic repeat | key, tick, timed transfer, port reads and writes | event queue, PIC line 1, BIOS int 9, mapper | every code waits for the read of the one before it; one missed restart hangs the keyboard |
| Extended memory, `hardware/memory.cpp`, `ints/xms.cpp`, `ints/ems.cpp` | table of pages, XMS and EMS handles | allocate, resize, lock, release through XMS, EMS, VCPI | each other through the table | three owners of one table: no page twice, none lost, blocks of the promised size |
| Serial ports, `hardware/serialport/` | UART registers, two FIFOs and one of errors, interrupt causes, modem lines, events; sockets and receiver state of the null modem | register accesses, eight events | event queue, PIC, host sockets | chains of events that hand themselves on; causes against an OP2-gated line; a peer that leaves inside a receive |
| IPX, `hardware/ipx.cpp` | event control blocks in two lists, socket table, connection | open, close, listen, send, wait, cancel; packets, timer events, interrupt 11; IPXNET | tick handler, event queue, PIC line 11, host UDP | lost, late and reordered packets against ECBs that are cancelled, closed or given back |
| Code cache, `cpu/core_dynrec/cache.h`, `cpu/core_dyn_x86/cache.h` | block headers, cache memory, page handlers with hash buckets and byte counts, links | translate, link, run, invalidate on write, evict | dynamic cores, paging, every writer of memory | code that was modified must not run; links and counters survive eviction in any order |
| Interval timer, `hardware/timer.cpp` | three counters, latches, modes | port writes and reads, counter 0's event | event queue, PIC line 0 | reprogramming between two events, latches read in two halves |
| DMA, `hardware/dma.cpp` | base and current registers, masks, callbacks | programming, reads and writes by devices | sound cards | terminal count and auto-initialisation |
| Mixer, `hardware/mixer.cpp` | ring of samples, channel list | tick (producer), audio callback (consumer), channel changes | sound devices; the audio *thread* | shared list and ring between two threads |
| BIOS keyboard, `ints/bios_keyboard.cpp` | ring in the BIOS data area | int 9 (producer), int 16 (consumer) | Keyboard, PIC | two halves of a ring that interrupt each other |
| Loader, `firmware/` | multiboot header and modules | boot | - | search and placement |
| Sound devices, CPU cores and paging, drives, CD-ROM, remaining DOS services, shell, video, BIOS and mouse, I/O ports, configuration, host window and debugger, libraries | - | - | - | not modelled; reasons in section 8 and in `PROJECT.json` |

`PROJECT.json` repeats this list with the sources of each component and its status, and
lists the hazards: for each, the line where it bites and the properties that watch it.

## 2. Modules

| Module | What it is |
|---|---|
| `InterruptPriority` | Abstract specification: what a pair of cascaded controllers promises, without caches |
| `Pic8259` | The controllers, in every mode the code supports; implements `InterruptPriority` in the nested mode |
| `Pic8259Proofs` | Proofs of seven theorems about `Pic8259`, its refinement of `InterruptPriority` among them |
| `EventQueue` | The event queue together with the loop, the core's cycles and the ticks |
| `Keyboard` | The keyboard controller |
| `KeyboardProofs` | Proofs of five theorems about `Keyboard` |
| `DosMemory` | The MCB allocator with programs that start and end |
| `DosMemoryProofs` | Proofs of four theorems about `DosMemory` |
| `DosFiles` | Open files, handle tables and processes |
| `DosFilesProofs` | Proofs of three theorems about `DosFiles` |
| `PagePool` | The table of pages under XMS, EMS and VCPI |
| `PagePoolProofs` | Proofs of three theorems about `PagePool` |
| `Uart` | The 16550 as operators on a record, without a line |
| `NullModem` | `Uart` composed with the null modem, the guest, the event queue and a peer |
| `NullModemProofs` | Proofs of five theorems about `NullModem` |
| `Ipx` | The IPX driver with its programs and a network that loses packets |
| `IpxProofs` | Proofs of three theorems about `Ipx` |
| `Lists` | Lists in a form for proofs: deleting entries, doing something for each; used by `EventQueue`, `Ipx` and `CodeCache` |
| `CodeCache` | The cache of translated code, the loop of the core and writes to memory |
| `CoreProofs` | Proofs of four theorems about `EventQueue` and three about `CodeCache`, the two structures that the loop of the CPU core lives on |
| `MC...` | One per component, with the constants of the runs that a `.cfg` cannot write down |

Operators named `Bad...` stand before the definition they distort. They are plausible
defects of that code (a dropped guard, a missing reset, an off-by-one); `PROJECT.json`
pairs each property with one that breaks it, as evidence that the property says
something about the code. No specification uses them.

### Pic8259 and the code (`hardware/pic.cpp`, `hardware/pic.h`)

A controller is a record; `irr`, `imr`, `isr` are sets of lines. The complements `imrr` and
`isrr` that the code keeps are derived. `check_for_irq` is `Recheck`, `update_active_irq` is
`IsActive`, and the `activate` / `deactivate` calls are a *signal* that each operation
emits (`RaiseSignal`, `LowerSignal`, `MaskSignal`, `EoiSignal`) and that `Settle`
carries to `PIC_IRQCheck` or, through `Propagate`, to line 2 of the master. The actions
are `ActivateIRQ` and `DeActivateIRQ` (devices), `WriteMask` and `SetIRQMask` (`set_imr`),
`SpecificEoi` and `NonspecificEoi` (OCW2), `SpecialMask` (OCW3), `Icw1` to `Icw4`, and
`RunIRQs` (`PIC_runIRQs` with `slave_startIRQ`). `SetAccepts` is the CPU: IF and the single-step
core. What a signal does besides setting the flag (cutting the slice) is in `EventQueue`.

### EventQueue and the code (`hardware/pic.cpp`, `dosbox.cpp`, `cpu/core_normal.cpp`)

Time within a tick is `CPU_CycleMax - CPU_CycleLeft - CPU_Cycles`. Deadlines are kept in
units of 1/`Unit` cycle, so that they fall between cycles and the truncating conversions of
the code matter; the rounding of floats is left out. `pc` says where `Normal_Loop` is: at
the call of `PIC_RunQueue` (`RunQueue`, `TickOver`), in its service loop (`Serve`,
`HandlerDone`, `StartCore`), in the core (`Instruction`, `CoreReturn`), between two ticks
(`AddTick`) or in tick handlers. `DeviceOp` is what device code does wherever it runs: schedule, cancel,
raise an interrupt that reaches the CPU (which costs two cycles) or stop the core.
What `PIC_RemoveEvents` and `PIC_RemoveSpecificEvents` leave of the queue is a `Selection` of `Lists`
and not `SelectSeq`, which is recursive and so has no meaning for the provers; `CloseSocket` of `Ipx` uses it for the same reason.

### DosMemory and the code (`dos/dos_memory.cpp`, `dos/dos_execute.cpp`)

`mcb` maps the segments of live control blocks to owner, size and end-of-chain mark. Each
action is a DOS call with everything it does, compression of the chain included:
`AllocateMemory`, `ResizeMemory`, `FreeMemory`, `Terminate` (`DOS_FreeProcessMemory`),
`LinkUMBs`, `SetMemAllocStrategy`, and `Execute`, which allocates an environment, asks for
more than there is to learn the largest block, and allocates that. That no program is called `Free` or
`System` (`ProcsAssumption`) says that PSPs are neither in segment 0 nor in segment 8, the owners by which the code marks blocks.

### DosFiles and the code (`dos/dos_files.cpp`, `dos/dos_classes.cpp`, `dos/dos_execute.cpp`)

`dos.files` is the table `Files` with each file's `refCtr`, whether it is open and whether a
child inherits it; `dos.table[p]` is the handle table in the PSP at `p`, `dos.psp` the current
one. `Closed` is `DOS_CloseFile`, `Opened` the common part of `DOS_OpenFile` and
`DOS_CreateFile`, `Inherited` is `DOS_PSP::CopyFileTable`, `CloseFiles` `DOS_PSP::CloseFiles`, whose
loop over the handles is written as what it leaves: a file loses as many references as the process has handles
of it. What the drive says is chosen freely. The actions are `OpenFile` (create included), `CloseFile`,
`DuplicateEntry`, `ForceDuplicateEntry`, `OpenFileExtended` (which opens, then fails, closes
or creates anew), `Execute` (which opens and closes the program file around steps that can
fail), `ChildPSP`, `SetPSP` and `Terminate`, to stay resident or not.

### Keyboard and the code (`hardware/keyboard.cpp`)

`keyb` is the record of the same name without the parts held in `command` and `repeat`;
`keyb.events` counts the entries of `KEYBOARD_TransferBuffer` in the event queue, which
the code does not keep and `keyb.scheduled` is meant to mirror. The actions are the timed
`TransferBuffer`, `ReadPort60` (a poll) and `IrqHandler` (the read that answers
interrupt 1), the commands at ports 60h and 64h, `AddKey`, `TickHandler` and `ClrBuffer`.

### PagePool and the code (`hardware/memory.cpp`, `ints/xms.cpp`, `ints/ems.cpp`)

`mhandles` is the table with the code's own links (0 free, -1 last). `BestMatch`,
`AllocatePages`, `ReAllocatePages` are the functions of `memory.cpp`; the actions are the
calls of XMS (`XmsAllocate`, `XmsFree`, `XmsLock`, `XmsUnlock`, `XmsResize`), EMS
(`EmsAllocate`, `EmsReallocate`, `EmsReallocateEmpty`, `EmsRelease`) and VCPI. An allocation of
scattered pages that begins in the last run of free pages goes on past the end of
the table for as long as the words there read 0 (`memory.cpp:304`); what is there is
undefined, so `Init` chooses it and the cells after the table are part of the state.
`BestMatch` is stated of the free pages and the runs they are in (`Run`) and not as the scan of the code: `Before` is the
order in which its choices come, and `Scattered` takes pages in that order, one after the other.

### Uart and NullModem and the code (`hardware/serialport/serialport.cpp`, `nullmodem.cpp`)

`Uart` is a library of operators on a record, one for each register and event of
`CSerial`; `Rise`, `Clear` and `ComputeInterrupts` have their source's names. `rx` and `tx` count the bytes of a
FIFO, `err` holds the marks of `errorfifo`, and `stale` what that FIFO gives when it is empty: its last mark once
more (`serialport.h:100`), or what was in `data[0]` before it was switched (`Left`; a new FIFO's cells were never written, so
`Init` chooses). `errors_in_fifo` wraps at `Word`. `again` and `own` are history that only properties read: whether a
mark was taken a second time since `errors_in_fifo` was set to 0, and the deltas that the guest wrote to MSR itself.
`NullModem` keeps the record, extended by the
fields of `CNullModem`, in `com`. `Guest` reads and writes any register at any moment, RHR also when
there is no data; `Handle(e)` is
`handleEvent` or `handleUpperEvent` for an event that is due, and `Outcomes` gives what may
have become of the port, since a receive finds a byte, nothing, a control byte with modem
lines or a break, or the end of the connection. Delays are left out, so every order of pending events
is considered, also those the code's delays exclude: the properties hold without relying on them.

### Ipx and the code (`hardware/ipx.cpp`)

`list` and `esrs` are `ECBList` and `ESRList`; `use` is the in-use flag in the program's
memory, which the driver's own copy should agree with. `Submitted`, `NotifyESR`,
`ReceivePacket`, `CloseSocket`, `DisconnectFromServer` follow the functions of these names. `Guest` is the
program: it submits, cancels, opens and closes at any moment, also while a service routine runs.
`ClientLoop` is a packet, `AesEvent` a timer event, `ESRHandler` with `EsrReturns` the
handler of interrupt 11 around the calls into the program. `ConnectToServer`, `Connected`, `TimedOut`,
`Ping` and `PingOver` are the program IPXNET, which waits in a loop while all the rest goes on.

### CodeCache and the code (`cpu/core_dynrec/cache.h`, `decoder.h`, `decoder_basic.h`, `cpu/core_dynrec.cpp`)

`h` holds the headers (`CacheBlockDynRec`), `pages` the handlers (`CodePageHandlerDynRec`) with
the count of blocks per byte (`write_map`), `chain` the headers in the order in which their code
lies in the cache. `Open` and `Close` are `cache_openblock` and `cache_closeblock`, `MakePage`
`MakeCodePage`, `Crossed` the second header of a block that goes on in the next
page, `Clear` and `DelCacheBlock` what removes it. A header's `at` and `size` are its place in the cache's memory. `Cleared` is what
the loops of `cache_openblock`, `ClearRelease` and `InvalidateRange` have in common: headers are cleared one after the other, and
clearing one may clear one that comes later, its other part. The actions are `Dispatch` (find or
translate, and run), `Jump` (a linked exit, or `LinkBlocks`), `Leave`, and two
kinds of writes: `WriteChecked` by a running block, which leaves when it hits itself, and
`Write` by the interpreter or a device. `code` and `fresh` are ghosts: where a block was translated from, and
whether memory still holds that.

## 3. Runs

| Run | Module, configuration | States | What it shows |
|---|---|---|---|
| `pic_nested` | `MCPic8259`, `PicNested.cfg` | 262,144 | Nested mode, devices above and below the cascade: every line that can be served is announced, `active_irq` is right, interrupts nest; refinement of `InterruptPriority`, fairness included; a ready interrupt is taken or stops being ready |
| `pic_modes` | `MCPic8259`, `PicModes.cfg` | 664,560 | Special mask mode, automatic EOI, re-initialisation at any moment, an unmaskable line: no stale signal, and the cascade never comes up empty |
| `event_queue` | `MCEventQueue`, `EventQueue.cfg` | 368,849 | Order and integrity of the queue, slices that respect the first deadline and the tick, time that only goes forward; every scheduled event is served or cancelled |
| `dos_memory` | `MCDosMemory`, `DosMemory.cfg` | 23,202 | Blocks tile the memory, both chains end where they should, an ended process leaves nothing, failures are real and never end the emulator, other processes' blocks are left alone |
| `dos_files` | `MCDosFiles`, `DosFiles.cfg` | 522,334 | A file's count is the number of handles of existing processes, it is open exactly that long, no process disturbs another's files, a failed call changes nothing |
| `keyboard` | `MCKeyboard`, `Keyboard.cfg` | 180,032 | A transfer is scheduled exactly when needed, codes leave in order, none is overwritten unread, the front always moves |
| `page_pool` | `MCPagePool`, `PagePool.cfg` | 266,164 | No page has two owners or none, blocks have the promised size, XMS blocks are contiguous, locked ones stay |
| `serial` | `MCNullModem`, `NullModem.cfg` | 1,789,476 | Received data is announced, the transmitter neither hangs nor sends twice, the FIFOs stay in step also when the guest reads an empty one, the interrupt line has a cause, deltas the guest did not write have theirs, the receiver's events fit the connection through disconnects and reconnects |
| `ipx` | `MCIpx`, `Ipx.cfg` | 117,048 | ECBs are in one list while the driver holds them and in none after, sockets in the table are those that are open, the connection owns its socket and tick handler, completed ECBs are given back |
| `code_cache` | `MCCodeCache`, `CodeCache.cfg` | 29,443 | Headers, cache memory and byte counts agree, links lead to live code, what runs is what memory holds |
| `pic_auto_eoi_loses` | `MCPic8259`, `PicAutoEoiLoses.cfg` | violation | With automatic EOI a pending interrupt is forgotten |
| `code_cache_cross` | `MCCodeCache`, `CacheCross.cfg` | violation | A block that modifies its own part in the next page goes on with old code |

The passing runs are exhaustive within their bounds. To repeat one:
`tlc -config PicNested.cfg MCPic8259.tla`; a proof: `tlapm Pic8259Proofs.tla`.

## 4. Findings

The two violation runs check a statement that the source makes of itself.

- **Automatic EOI loses an interrupt** (`hardware/pic.cpp:358`). `PIC_runIRQs` clears
  `PIC_IRQCheck` after it started one interrupt. In the nested mode nothing else can be
  ready then (theorem `NothingIsLost`). With automatic EOI nothing is left in service, so a
  second line that waits is ready, and is served only when some later operation
  happens to check again. `check_for_irq` says "There is an irq ready to be served => signal
  master and/or cpu".
- **Self-modification across a page** (`cpu/core_dynrec/cache.h:132`). "if the current block is
  modified, it has to be exited as soon as possible", but the current block is recognised
  by where EIP lies in the page that is written. A block that goes on behind a page boundary starts in the page
  before, so a write to its own second part is performed, both headers are cleared, and the block goes on
  with the instructions it was translated from. Such a block is not in use any more while it runs, but still is the one that
  `LinkBlocks` links when it leaves (`core_dynrec.cpp:169`).

The passing runs leave out some behaviour through a named constant, because a property fails with
it. Each is an observation on the code, with the constant that shows it:

- `Wired` without line 2: a device on irq 2 of the master makes `slave_startIRQ` exit ("irq 2 is active, but
  no irq active on the slave PIC.", `pic.cpp:328`). The Gravis Ultrasound (`hardware/gus.cpp:51`) and the
  serial ports accept irq 2, and `PIC_ActivateIRQ` does not turn it into irq 9. `CascadeServed` fails.
- `IcwsLegal`: in single mode ICW2 moves on to expect ICW4 without looking whether ICW1 announced one
  (`pic.cpp:241`), so the next mask is taken for an ICW4.
- `DrainClose = FALSE`: `while(doReceive());` (`nullmodem.cpp:305`) also ends when the peer closed; the code
  then sets an RX event, and that reads the deleted socket. `ReceiverRuns` fails with `TRUE`.
- `Replies` without `"fail"`: int 21h/6Ch told to fail if the file exists has opened it by then
  and returns without closing it (`dos_files.cpp:598`). `FailureChangesNothing` fails with it.
- `Targets` within `Entries`: forcing a duplicate into a handle that the table does not have
  (`dos_files.cpp:731`) counts a reference that no handle holds. `HandlesCounted` fails beyond.
- `TimerSockets = {0}`: `CloseSocket` (`ipx.cpp:325`) deletes the ECBs of a socket but not their
  timer events, which then end the next wait of the same ECB or find nothing ("!!!! Rouge AES !!!!").
  `EcbsAccounted` fails when waiting ECBs name a socket.
- `MaxOpen` of half the table: `CloseSocket` moves `SOCKTABLESIZE - (i + 1)` *bytes* of a table of two-byte
  sockets (`ipx.cpp:315`). `SocketsOpen` fails with one socket more.
- `XmsSizes` without 0: an XMS block of size 0 remembers the next free page and does not allocate it
  (`ints/xms.cpp:146`); when another block has taken the page, freeing or resizing the empty one gives it away.
  `PagesOwned` and `RightSize` fail with 0.
- `OwnWrites = {}`: no running block modifies itself where the code does not find out: in its part behind a page boundary (the second
  violation run), or by a store that is not checked. `RunsFresh` and `LinksLead` fail with either, `CacheOK` does not.
- `PingFails = FALSE`: when a send fails during IPXNET PING the connection is closed, but the ping goes on
  to poll its socket and adds the tick handler again (`ipx.cpp:1047`). `ConnectionOK` fails with `TRUE`.

Seen while modelling and outside what a property says:

- "try high memory first, then low" (`dos_memory.cpp:157`) goes on to low memory after an upper
  block fitted.
- only the main chain of MCBs is ever compressed (`dos_memory.cpp:29`).
- PagePool reaches the exit of `EMM_ReallocatePages` for an empty EMS handle (`ints/ems.cpp:286`),
  releasing an EMS handle leaves its pages mapped (`ems.cpp:408`).
- a request for the keyboard's output port while a transfer is scheduled loses its answer
  (`keyboard.cpp:204`).
- a full event queue drops the transfer while `keyb.scheduled` stays set (`keyboard.cpp:93`).
- an extended key can leave its prefix without its code in a nearly full ring (`keyboard.cpp:361`).
- the cycles by which an instruction overran the tick are forgotten by `TIMER_AddTick`, so time can
  step back at that boundary.
- `TIMER_AddTick` saves the next handler before it runs one (`pic.cpp:553`).
- after OP2 is first set the serial interrupt line stays low for a cause that was there before
  (`serialport.cpp:788`).
- reading RHR while the FIFO is on and empty takes the last mark again and counts it off again
  (`serialport.cpp:547`, `serialport.h:100`), so `errors_in_fifo` is less than the marks, or wraps below 0, and bit 7 of LSR is
  wrong until the FIFOs are cleared or switched. `FifosOK` asks for the count only as long as that did not happen
  (`again`); without the condition TLC finds it violated.
- a write to MSR (`serialport.cpp:817`) sets deltas without raising the cause and clears deltas without clearing
  it, and a delta set so keeps a change of MCR in loopback from raising it. `CausesAreReal` excepts the deltas that the
  guest wrote (`own`); without the exception TLC finds it violated. A cause without a delta is not excluded.
- `write_map` is a `Bit8u` (`cpu/core_dynrec/cache.h:384`), so the 256th block over one byte of a page makes
  its count 0; the counts of `CodeCache` have no limit.
- closing an IPX socket leaves ECBs in `ESRList`, whose data is written after the close.
- the IPX server looks a registration up by the source address in it, which clients leave 0, and so
  registers a client anew each time until its table is full (`ipxserver.cpp:188`).
- int 21h/26h copies handles without counting them (`dos_execute.cpp:211`).
- a DMA read up to the terminal count copies more than is left (`dma.cpp:290`).
- `MIXER_DelChannel` unlinks without the audio lock (`mixer.cpp:105`).
- the single-step core hides `CPU_Cycles` from what the instruction does to them
  (`core_normal.cpp:193`).
- the multiboot search tests only the magic of its last candidate (`firmware/smboot.cpp:138`).

## 5. Bounds, and why they are enough

Every bound is a constant, given in the `.cfg` or in the `MC` module.

- **Pic8259**: four lines (`NL`) where the code has eight, three in `pic_modes`. The code
  treats lines alike but for the cascade, so what matters is which lines stand above it,
  below it, and against each other on the slave: `PicNested` drives one master line on
  each side of line 2 and two slave lines; `PicModes` one of each, since every mode
  bit and ICW state multiplies the states. The theorems hold for any `NL`.
- **EventQueue**: ticks of 4 cycles with two units each, so that deadlines
  fall on and between cycles; one delay within a tick and one beyond it (3 and 9 units);
  three slots and two kinds of events, so that the queue overflows and an entry is in service while others
  are queued; an instruction overruns its slice by one cycle at most (`Overshoot`). `MaxLate = 0`
  keeps interrupts, which take two cycles out of the tick each, from
  pushing it further into debt; without a bound that number grows without limit.
- **DosMemory**: three paragraphs of conventional and two of upper memory, and requests for 1, 2
  and 9: exact fits, remainders of size 0, fits only after compression, and requests
  that nothing satisfies. The allocator compares sizes and addresses only, and
  a hole in its arithmetic shows at the smallest remainders. One program besides the shell.
- **DosFiles**: three files for three processes with two handles each: both the table of files and
  a process's table can be full first, a file can have handles in several processes and twice
  in one. The code names slots and handles only by "the first free one". The two programs are symmetric.
- **Keyboard**: a ring of three codes, which an acknowledge or a prefixed key can overflow at
  every position and which wraps; one key of each kind; one typematic rate of (2, 1) ticks,
  so that the delay before the first and between later repeats differ. The theorems hold for any
  ring, keys and rates.
- **PagePool**: five pages and one cell after the table, EMS pages of two, one such EMS page
  for the system handle, so that three pages are left to give out, two XMS blocks, one EMS handle besides the system's, one VCPI page; sizes in kB that round
  up to the same and to different numbers of pages. Traces confirm that
  the run meets fragmented EMS chains, blocks that have to move, and allocation past the table.
- **NullModem**: FIFOs of two bytes, so that empty, half full, full and overrun differ; `Word = 4`, more than the marks
  of a FIFO and few enough for the count to wrap; two polls until the guest counts as unresponsive. The guest enables no
  cause or all data causes, sets no output or OP2 with loopback, writes no delta or that of CD to MSR, and switches the FIFOs
  off (threshold 1), on (threshold 2), or on while it clears both. A threshold that changes above data that is
  there, OP2 without loopback and loopback without OP2 are left to the theorems, for any values. Bytes have no values.
- **Ipx**: an ECB with a service routine and one without, two sockets, a table of three. Three ECBs with one
  socket (28,632 states), and a table of five with three open (382,824), were checked as well. `MaxWaiting`
  bounds how often an ECB with a routine is submitted again before the interrupt is taken.
- **CodeCache**: three pages of two bytes with two handlers, so that pages give way; blocks of one or two bytes, of which
  two can cross into the next page; cache memory for two or three blocks and five headers, so
  that every translation but the first ones evicts; one exit per block; two writes until an empty page
  is given up. A fourth address (62,371 states) and a cache of four units (`Total = 4`, `LastStart = 2`) were checked as well.

`CHECK_DEADLOCK FALSE` is used in `PagePool.cfg` only, where the program may have exited.

## 6. Fairness

- `Pic8259!FairSpec` has WF of `RunIRQs`: `Normal_Loop` calls `PIC_RunQueue` again and again and
  that calls `PIC_runIRQs` (`pic.cpp:505`). Nothing is assumed of devices or the guest, which
  may withdraw, mask or disable; so `PendingIsTaken` says only that an interrupt
  cannot stay ready for ever while the CPU accepts it.
- `EventQueue!FairSpec` has WF of `Loop` (the code of the emulator, handlers included, returns),
  of `Cpu` (the core executes instructions, `HLT` too, which consume cycles) and of
  `AddTick` (the host's clock goes on). Devices may schedule and cancel without end.
- `Keyboard!FairSpec` has WF of `TransferBuffer` (the event queue serves what is in it, which
  `EventsAreServed` shows of `EventQueue`) and of `IrqHandler`: a guest that
  uses the keyboard takes interrupt 1 and reads the port. `FrontMoves` needs that, since each
  transfer waits for the read of the code before it. Acknowledges are excluded: a guest that keeps
  sending commands replaces one by the next for ever.
- `Ipx!FairSpec` has WF of `ESRHandler` (interrupt 11 is taken, which `PendingIsTaken` shows of a
  guest that enables interrupts) and of `EsrReturns` (a program's service routine returns). The network
  gets none: it may be silent for ever, and `CompletedIsServed` speaks of completed ECBs only.

## 7. What is proved

Assumptions are those named in the modules (`NLAssumption`, `WiredAssumption`, ...,
`BufferAssumption`, `KeysAssumption`, `RatesAssumption`, `PoolAssumption`, `PoolsAssumption`, `SizesAssumption`), and TLC evaluates them on every run. What a theorem
assumes besides is in its table, and holds in the run of its property. All but one of these hypotheses are described in section 4:
without them TLC finds the property violated. The other one, `Enough`, holds of the code, which has 16,382 numbers (4002h to 7fffh) for a table of 150 sockets. `FiniteAssumption` (`DosFiles`) and the range of `Fcrs` (`NullModem`) only
say that tables and registers are finite; that a code cache has two page handlers at least (`PoolsAssumption`; the code has 512) is needed
to translate over a page boundary.

Each proof module begins with its argument. They have one form: an inductive invariant that is the conjunction of
named parts, one lemma for each operation of the source about the record it gets and the record it leaves, and one step per
action that composes them.

**Pic8259Proofs**, for controllers of any number of lines and any devices, masks and ICWs,
when no device drives line 2 of the master (section 4):

| Theorem | States |
|---|---|
| `TypeCorrect` | `[]TypeOK`, in every mode |
| `SignalsHaveACause` | `[]SoundSignals` (`TypeOK` and `NoFalseSignal`), in every mode |
| `CascadeNeverFails` | `[]CascadeServed`, in every mode |
| `NothingIsLost` | `[]NoLostInterrupt`, in the nested mode (`Modes = {}`) |
| `ActiveIsBest` | `[]ActiveIsHighest`, in the nested mode |
| `InterruptsNest` | `Nested`, in the nested mode |
| `ImplementsSafety` | `Spec => Promise!Safety`, in the nested mode: the refinement of `InterruptPriority` but for its fairness |

The argument: every operation turns the registers `p` of a controller into `q` and emits a signal that is
`Sound`: "activate" only when a line of `q` is ready, "deactivate" only when none is, nothing only
when readiness did not change. That is one lemma for each kind of operation (`RaiseSound`,
`LowerSound`, `MaskSound`, `EoiSound`, `RecheckSound`) and is where the code's shortcuts, which
avoid rechecking, are justified. `SettleStep` shows that sound signals keep both caches
right along the wire slave, master, CPU. Only the start of an interrupt clears caches without
asking. For the absence of false signals that needs no more (`Inv == TypeOK /\ NoFalseSignal` is
inductive). For the absence of lost ones it does: `NestedInv` adds that `active_irq` is the best
line in service and that neither special mask mode nor automatic EOI is on; then a start raises the limit above everything
that waits, nothing is ready (`StartedQuiet`), and clearing `PIC_IRQCheck` is right. Without the last conjunct
the step fails, which is the finding on automatic EOI.

The refinement needs one fact more, that only lines with a device are requested (`WiredRequests`). Operations of
devices and the guest are steps of their abstract counterparts, or change nothing that the abstract specification sees.
`RunIRQs` starts the interrupt that the caches name; that this is the one which the
abstract priorities deliver, the slave's through the cascade included, is `NestedInv` read in terms of the abstract state.

**CoreProofs** on `EventQueue`, for any lengths of tick and unit, any delays and events, a queue of any size:

| Theorem | States |
|---|---|
| `QueueKept` | `[]QueueOK` |
| `ServedInOrder` | `[]InOrder` |
| `SlicesEndInTime` | `[]DeadlineKept` |
| `TimeKept` | `TimeForward` |

`DeadlineKept` compares the cycles that are left with the deadline rounded to cycles, which no instruction preserves by
itself. `QueueInv` says instead where the slice ends (`SliceEnds`): its end, `CPU_CycleMax - CPU_CycleLeft`, does not move while the core consumes
`CPU_Cycles`, and lies before the first deadline in units. The rounding is needed once, when a slice begins (`CyclesFit`).
The rest is about the two lists (`Places`, `NoEntryLost`, `Order`): inserting keeps the order because of where the loop of `AddEntry`
stops, removing because a `Selection` keeps it (`SelectionInOrder`).

**CoreProofs** on `CodeCache`, for any numbers of headers, page handlers, exits and pages, pages and a cache of any size, code of any
length, and any program:

| Theorem | States |
|---|---|
| `NoHeaderLost` | `[]CacheOK` |
| `LinksAreMutual` | `[]LinksLead`, when `OwnWrites = {}` |
| `NoStaleCode` | `[]RunsFresh`, when `OwnWrites = {}` |

A write finds a block only if the counts and buckets of its page are right, and those are kept only if clearing a header finds the other part and only
headers in use are cleared. So there is one invariant, `CacheInv`, for all three. What it says of links and of the block that runs holds when `OwnWrites = {}`; the rest does not
depend on that, so a block that modifies itself unnoticed spoils links, and what runs, but neither headers nor counts. Its main conjunct `Good(c, b)` is stated of a state in the middle of a call, in which the block `b` is being translated: it is
counted in its page and not linked yet, and nothing else differs from a state between two calls (`Good(c, None)`). TLC checked `CacheInv` on the
constants of `code_cache` before it was proved, and `CacheOK` with each of the writes that `OwnWrites` can allow. Each function of the source gets a lemma on such states (`ClearKeeps`, `MakePageKeeps`,
`InvalidatedKeeps`, `OpenKeeps`, `CrossedKeeps`, `ClosedKeeps`), and a call is their composition, in the order of the code.

The loops are the difficulty, as they clear headers that a header cleared before may have taken with it. What a loop keeps
would be an induction over its steps; it is proved from a smallest step at which the claim fails (`FirstFailure`), as in `PagePoolProofs`. What a loop
achieves is the set of headers that it cleared: `Gone(c, d, T)` says that `d` is `c` without the headers `T` and that everything else stayed. For `InvalidateRange` a second
loop runs around the first, from the last bucket that can hold the byte down to that of cross blocks; after each bucket no block in it or in those
above contains the byte, and when the loop ends early because the count of the byte is 0 the counts say the same of all buckets. `Tiled` states
the memory of the cache by the place and size of each header of the chain, so that taking room from those that follow, splitting what is left and
starting again at the front need no sum over the chain.

**KeyboardProofs**, for a ring of any size, any keys and any rates:

| Theorem | States |
|---|---|
| `TransferWhenScheduled` | `[]TransferScheduled` (`TypeOK` and `ScheduledIsQueued`) |
| `KeyboardNeverStuck` | `[]NeverStuck` |
| `RepeatsAreHeld` | `[]OnlyHeldRepeats` |
| `CodesAreRead` | `NoOverrun` |
| `CodesInOrder` | `FirstInFirstOut` |

`ScheduledIsQueued` and `NeverStuck` are not inductive alone: `Consistent` adds that a transfer
is under way while something unread is in the port only when that is the output port, which a
command puts there at any time. One lemma per function of the source (`AddBuffer`, `ClrBuffer`,
the transfer, the read) shows that it keeps `Consistent`; the actions compose them. For the order, `Wraps`, `SlotsOfRing`
and `NextSlot` say what the indices modulo `KEYBUFSIZE` reach, and each function moves the entries in one of the four ways of `Orderly`;
`AllCodes` (no entry is a slot that was read) has to be kept along with it.

**DosMemoryProofs**, for memory of any size, upper memory anywhere, any requests and any programs:

| Theorem | States |
|---|---|
| `ChainKept` | `[]ChainOK` |
| `EndedOwnNothing` | `[]DeadOwnNothing` |
| `FailuresAreReal` | `[]FailureIsReal` |
| `OthersKept` | `OthersUntouched` |

`MemInv` says that the control blocks, a function on the segments where one starts, tile the memory: the end of a block is
another block or the end, and no block starts inside another. Walking the chain is then going through the
blocks in order, which replaces an induction along the chain, and compression is merging runs of free blocks (`Runs`). `Reported` ties
the size that a failed call reports to the blocks that are there: without it `Execute` could reach the exit of the
emulator, so `FailureIsReal` is part of what is inductive.

**DosFilesProofs**, for tables of any size and any number of processes, when duplicates are forced only into handles that the
tables have (`Targets \subseteq Entries`):

| Theorem | States |
|---|---|
| `FilesCounted` | `[]HandlesCounted` |
| `FilesAreKept` | `OthersKeepFiles` |
| `FailuresUndo` | `FailureChangesNothing`, when `"fail" \notin Replies` |

`Counted` is the reference count as the cardinality of a set of pairs of process and handle: opening, duplicating and closing move one
pair, starting a process adds a block of them and ending one takes a block away. `Tree` (no process outlives the one it returns to) is needed because
the handles of a process that ended do not count. `FailuresUndo` follows from the composition of what `Opened` and `Closed` do.

**PagePoolProofs**, for tables, handles and sizes of any number, when no XMS block is allocated with size 0
(`NoEmptyBlocks`):

| Theorem | States |
|---|---|
| `EveryPageOwned` | `[]PagesOwned` |
| `EveryBlockSized` | `[]RightSize` |
| `LockedBlocksStay` | `LockedStay` |

The code has no list of the pages of a block, only links in the table, and `PagesOwned` reads them with a function that follows
a chain to its end. `Inv` says that there is a function `c` from the owners (XMS blocks, EMS handles, pages given to VCPI) to sequences of
pages such that the links follow each sequence, no page is in two, a page that is in none is free (`Pool`), and each
owner's first page and size are those of its sequence (`Held`). Every call changes the sequence of one owner, and
`Replaced` says once for all of them which changes of the table keep `Pool`. That following a chain gives the sequence (`ChainIs`) would be an
induction along the chain; it is proved from a smallest counterexample instead (`WFMin`): the function that follows
chains exists, and where it first differs from the sequence a link would be wrong. The same way `FirstIsMember` shows that
the best match exists, `BestMatchFits` that it is a run of free pages that is long enough, and `ScatteredFree` that pages taken one by one are free
and different, which is why `EMM_AllocateMemory` never exits.

**NullModemProofs**, for FIFOs of any size below `Word` (`FifoAssumption`), any number of polls, and a guest that reads and writes
the registers at any time and writes anything to them:

| Theorem | States |
|---|---|
| `DataAnnounced` | `[]DataIsAnnounced` |
| `TransmitterRuns` | `[]TransmitterBusy` |
| `CausesReal` | `[]CausesAreReal`: the line and the error bits of LSR always agree with the causes, and a delta that the guest did not write has the MSR cause waiting |
| `FifosKept` | `[]FifosOK`, when `DrainClose = FALSE`: both FIFOs have the same length whatever is read, and `errors_in_fifo` counts the marks until one is taken twice |
| `ReceiverKept` | `[]ReceiverRuns`, when `DrainClose = FALSE` |

`ModemInv` has four parts, of which each looks at few fields of the port: `Shape` (types), `Good` (what was received, what was
announced and the interrupt line), `Sender` (the transmitter and its one pending event) and `Link` (the connection and the events that
keep it running). `Counted` (within `Good`) says of `errors_in_fifo` that it stays a `Word` and, until `again` is set, is the number of
marks; it is stated with `stale` because taking a mark from an empty FIFO is the one step that may set `again`. `Does(u, v, fields, causes, events)` states of an operation what it may touch; a part is kept by every
operation that touches none of its fields, and needs a lemma for the others only. `Good` and `Sender` hold through the close of a connection in the middle of a receive, `Link` only
when that does not happen behind overdue bytes.

**IpxProofs**, for any programs, ECBs and sockets:

| Theorem | States |
|---|---|
| `ConnectionIsOwned` | `[]ConnectionOK`, when `PingFails = FALSE` |
| `EcbsKept` | `[]EcbsAccounted`, when programs wait with numbers that are no socket's (`Apart`) |
| `SocketsKept` | `[]SocketsOpen`, when also the table is at most half full (`HalfFull`) and there are numbers enough (`Enough`) |

`Link` names the four states of the connection. `EcbInv` says what `ECBList`, `ESRList`, the in-use flags and the timer events say of each
other: an ECB in the list has the flag of its use and is there once (`Listed`), data that waits is for ECBs that listen and are in no list any
more (`Writing`), none is lost (`Covered`), and timer events are those of the ECBs that wait (`Timed`). It is stated of the lists and not of a state, so that
actions which do several things to the lists, such as a send whose packet comes back and completes another ECB, are followed step by step.
The socket table only needs that nothing else touches it and that no ECB begins to listen on a closed socket (`Narrows`).

Only model-checked, and why:

- liveness (`PendingIsTaken`, `EventsAreServed`, `FrontMoves`, `CompletedIsServed`, and the fairness of `ImplementsPriority`): the provers
  have no rules for WF and ENABLED here.

All other properties of the passing runs are stated by a theorem above.

## 8. What is not modelled

In the modelled parts:
- 8259: vector bases, the poll and rotation commands (which exit the program) and register reads;
- event queue: the automatic adjustment of `CPU_CycleMax`, the single-step core, the list of tick handlers. In a full
  event queue `Keyboard` would lose its transfer: it is modelled over a queue that is never full;
- DOS memory: the PCjr memory map, machines without UMBs, stale MCB segments;
- DOS files: FCBs, int 21h/26h, handle tables of more than 20, names, data and what a device does; a process ends only
  after those that it started;
- keyboard: port 61h, the A20 line, the pause key and the PCjr keyboard interrupt;
- extended memory: the EMS page frame and its saved maps, handle names, data moves, VCPI mode switches;
- serial: a null modem that connects (client, or server on DTR), telnet commands, the buffer that gathers what is
  sent, line parameters, the soft modem and the direct port;
- IPX: the server and its table of clients, contents and addresses, completion codes, the end of the driver. Programs
  are assumed to submit only ECBs that are theirs;
- code cache: the code that is generated, paging and ROM, the map that keeps the decoder away from often modified
  bytes, resetting the cache, and programs that run out of headers (`cache.h:409`).

Left out altogether: x86 semantics, paging and the FPU (out of TLC's reach; the cores appear as
what they do to cycles and interrupts, and as users of the code cache); signal synthesis, pixels and codecs (data
without control); host I/O, parsing, menus, shell and the debugger; the rest is planned. The greater part of the source's 142,000 lines
is of these kinds: tables (keyboard layouts, render templates), instruction decoders and code generators, the GUI toolkit and
the mapper, sound synthesis, video modes. The map covers the control of the parts above and
cannot come near a third of all lines.

## 9. Plan

Modules, in order of what the rest of the system depends on:

1. done: interrupts, event queue, keyboard, memory, serial ports, DOS files, IPX driver, code cache.
2. `Timer8254`: the three counters with latches and modes; counter 0 as a client of `EventQueue`,
   raising line 0 of `Pic8259`. Reprogramming between two events (a divisor written in mode 3 without a control word moves `start`
   but not the pending event, `timer.cpp:233`); both halves of a latch; the one status latch of three counters; composed
   with an abstract queue that keeps only what `EventQueue` promises.
3. `BiosKeyboard` composed with `Keyboard` and an abstract PIC: the ring in the BIOS data area, int 9 against
   int 16; a key pressed arrives once and in order or is dropped whole.
4. Extension of `EventQueue`: the tick handler list with removal during the walk, and the
   single-step core, which hides `CPU_Cycles`.
5. `DmaChannel` with the Sound Blaster's command state; `MixerRing` with the audio thread; FAT clusters; the
   IPX server.

Abstract specifications worth stating: a timed event service that `EventQueue` implements, a lossless-or-dropped
key channel for keyboard and BIOS, a set of page owners for `PagePool` (the function `c` of its proof), a bag of references for `DosFiles`.

Theorems next: those of the new modules, and the refinements of the abstract specifications above; the invariants that
`PagePoolProofs` and `DosFilesProofs` use are stated in terms of their states already.

Runs: one passing run per new module. The violation runs of a single handler give way to runs of compositions.
