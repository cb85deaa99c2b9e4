# FRANK 386 in TLA+

FRANK 386 (the repository this directory sits beside, its sources under `src/`)
is an i386 PC emulator for the two-core RP2350: core 0 runs the guest and its
devices, core 1 the sound and the picture, and on some boards a second chip
serves its memory over a fast link. These modules model the parts of it where
several actors share state with no lock, where a message may be lost or come
late, where a cache may be stale, and where guest and device must keep in step
over many port accesses; they check and prove what those parts promise.

`PROJECT.json` lists the runs, the source lines every definition translates, the
hazards, the findings and the theorems. Operators named `Bad...` are slips the
code could contain, one line away from the definition beside them; each breaks
the property it is listed with there.

    tlc -workers 2 -config I8259_nested.cfg MCI8259Nesting.tla
    tlapm CpuProofs.tla

## The system

### Components, their state, and who calls whom

Paths are under `src/src/` unless they start with `link/`, `slave/` or
`drivers/`, which are under `src/`.

| component | state | operations | hard because |
|---|---|---|---|
| CPU, `i386.c` | registers, flags (some held lazily in `cc`), `intr`, descriptor caches, `stepcount` | `cpui386_step` runs a batch; faults and interrupts enter through `call_isr`, calls through `pmcall`, both leave through `pmret` | it samples `intr` between batches only; a transfer changes level, stack and code segment in several steps |
| paging, `i386.c` | TLB, `ifetch`, prefetch line, CR0, CR3 | `translate`, `peek8`, `tlb_clear` | three caches over tables the guest edits at will |
| native JIT, `i386.c` (`nj_...`), `njit_vga_arena.h` | block table, arena of ARM code, page marks, shared guards, memory lent by the display | look up, translate, compact, evict, invalidate; stores note what they write | translated code must not outlive a store into the bytes it came from; code moves under the table that names it |
| interrupt controllers, `i8259.c` | `irr`, `isr`, `imr`, modes, two chips | `i8259_set_irq`, port reads and writes, `i8259_read_irq` | requests move between raise and acknowledge |
| DMA, `i8257.c` | counts, mask, status of 4 channels | port writes, `i8257_dma_run`, `hold_DREQ` | both cores modify the status byte |
| Sound Blaster, `sb16.c` | DSP command state, ring `audio_p`/`audio_q`, status bits | DSP port handlers, `SB_read_DMA`, `sb16_poll` on core 0; `sb16_getsample` on core 1 | two cores, no lock, interrupts timed by playback |
| other sound, `adlib.c`, `pcspk.c`, `sn76489.c`, `dss.c`, `mpu401.c.inl`, `gameport.c` | registers; a command queue to core 1 | port writes; sample callbacks | single-producer queue with a bounded wait |
| audio output, `drivers/audio` | mixing ring | `audio_...` on core 1, I2S DMA | ring limits |
| PC, `pc.c` | the devices, `reset_request`, EmuLink mailbox | `pc_step`, port decoder | it fixes the order in which devices see a slice |
| timer `i8254.c` | three channels, `last_irq_count`, `count_load_time` | control words, counts, `i8254_update_irq` | a 32-bit microsecond counter that wraps, ticks caught up late |
| keyboard `i8042.c` | two queues, one output buffer, two lines, a delayed code | port handlers, `kbd_step`, `ps2_put_keycode`, `ps2_mouse_event` | two devices behind one buffer, edge-triggered lines, bounded queues |
| CMOS and system ports, `misc.c` | small register files | port handlers | shared reset line |
| IDE `ide.c` | task file, `xfer_left`, block, file position; packet state, `sense_key`, byte count limit | port handlers; completion within the access | protocols of many accesses, resets in the middle of one |
| floppy `fdd.c` | phase, result, `reset_sensei`, delayed interrupt, DMA transfer | port handlers, `fdd_tick`, DMA callback | the interrupt comes later than its cause |
| images `disk.c` | open files, names | `insert`/`eject` from the menu | failure in the middle |
| SD card, `drivers/sdcard` | open card | `disk_read`, `disk_write` | may fail part-way |
| sector cache, `diskcache.c` | `dc_tag`, `dc_on` | `dc_init`, `dc_read`, `dc_fill`, `dc_invalidate` | posted writes over a wire, reboots |
| link, `link/` | FIFOs of both chips | `linkf_ping`, `linkf_read_burst`, `linkf_write_burst`, `linkf_sync`; `linkf_serve` on the slave | no flow control one way, timeouts on both sides |
| slave, `slave/src/main.c` | 8 MB of memory | `linkf_serve` for ever | it does not notice a reboot of the master |
| slave memory as RAM, `remote_mem.c` | none | `remote_read..`, `remote_write..` | timeouts ignored |
| VGA `vga.c`, video output `drivers/vga`, `drivers/hdmi` | registers, planes, frame buffers | port and memory handlers, scan-out interrupt | render against scan-out |
| configuration `config_save.c`, `ini.c`, `settingsui.c` | settings | load, save | power loss in a save |
| input `drivers/ps2`, `drivers/usbhid`, `drivers/nespad`, `autotype.c` | event queues | receive interrupts, polling | queue limits |
| FPU, PCI, EMS, network redirector, profilers, FatFs, emu8950 | registers | sequential | data rather than control |

Calls: the guest's port accesses reach the devices through `pc.c`; devices raise
lines through `set_irq` into the interrupt controllers, which raise `intr` in
the CPU; the CPU acknowledges through `i8259_read_irq`. The Sound Blaster and the
floppy controller move bytes through the DMA controller. IDE and floppy reach
their images through FatFs, below which `disk_read`/`disk_write` use the sector
cache when it is on, and the cache uses the link. Core 1 shares with core 0 only
memory words: the ring indices, `dma_running` and the DMA status byte. The
translated code of the JIT is entered from `cpui386_step` and left for every
access it cannot do itself.

### What makes each correct

- Interrupt controllers: no request is lost or stranded, the CPU is told of every
  request it should take, only the request the priorities select is delivered, an
  end of interrupt retires the handler that issued it.
- Sound Blaster and DMA: playback never passes the copy, whatever drops the queue
  under it; a stopped or reset card is still; the controller's count and the block's
  move together; every block's interrupt is raised and can be dismissed.
- Sector cache: with it, the disk behaves as the card alone does, whatever the
  wire, the slave and reboots do; no call hangs.
- Paging: what the CPU uses of a page is something the tables have said since the
  last flush; faults have grounds and are forgotten; writes mark their page.
- JIT: a block that is entered was translated from the bytes that are there and
  mapped now, its code is in one piece, memory the guest uses is not its own, and the
  arena is not taken back under it.
- Interrupts, faults and calls: the program they come upon goes on as if nothing
  had happened; level, code segment, stack and data segment agree. None comes
  between two instructions that belong together, and none waits for ever.
- Disks: a command moves exactly the sectors it names, in order; controller and
  driver never lose step; a driver is told of its own command, in finite time.
- Timer: no tick early, none left owed, a one-shot fires once.
- Keyboard: no byte is stuck behind a missing edge, none is torn from its prefix,
  all of them arrive.
- Display memory: a store of translated code does what the interpreter's would, loads
  agree with stores, and lent memory is claimed before it is touched.
- Disk Manager: an open drive has the geometry of its image; a restart brings back
  what was saved.
- Those not modelled: the last section says what is to be stated.

## The modules

A module holds one component, an `MC...` module its instances. Components that
share no register are checked side by side in one run: a behaviour of `MCDevices`
is one of the hard disk, the CD-ROM, the keyboard controller, the timer, the
floppy controller, the CPU's batches, the display's memory or the Disk Manager,
chosen at the start, and one of `MCPaging` is one of the paging unit, the
translator's cache or the transfers of control. Both extend the modules of their
components, so that a run checks the definition a theorem states.

### `I8259`, `I8259Nesting`: the interrupt controllers

`pics[p]` is the `PicState` of the code, a register being the set of pins whose
bit is one; `intr` is `cpu->intr`; `vec` the vector of the last acknowledge. One
action per port write (`WriteIcw1` ... `WriteOcw3`, `EndOfInterrupt`,
`SpecificEoi`, `RotateOnAutoEoi`), `PollRead`, `Device` for a line that moves,
`Accept` for the acknowledge by the CPU core. Every action ends with the
recomputation of `intr` where the handler does, and without where it does not.
`intr` is a latch, so that between a raise and the acknowledge anything may
happen: that window is the point of the module. `I8259Nesting` adds the history
`nest`, per controller the pairs of pins in service of which the second was
accepted while the first was: the order of entry, in a form that needs no sequence.

| run | instance | shows |
|---|---|---|
| `pic_nested` | 3 pins per chip, devices on both sides of the cascade and on two pins of the slave, masks written at any time | `InRank` (no request of the slave stranded, no handler entered over a higher one); `EndRetiresLatest`; `QuietServed` |
| `pic_modes` | 2 pins, rotation, specific ends, automatic end, poll, re-initialisation in four writes | `IntrCoversRequest`; `AcceptSelected`, `RequestKept` |

Three pins are the fewest with one above and one below the cascade pin, and two
slave pins give an order inside the slave. Vector bases only number the answers.
Fairness (`QuietServed`): the CPU reaches its interrupt check again and again,
and a handler ends its interrupt; the device lines and the masks have none, and
the property asks for service only once they are settled.

### `SbDma`: Sound Blaster blocks over a DMA channel

`dsp` holds the fields of `SB16State` a transfer uses, `dma` the channel and its
status bits, `p`, `q`, `phase` the ring, `line` and `irr` the interrupt pin,
`core0` where `pc_step` is, `core1` where `sb16_getsample` is and what it has
read, `drv` the guest's driver. A core-0 handler is one step, because core 1
reads single words; a sample on core 1 is split at each access of a word core 0
writes (`BeginSample`, `AdvancePlay`, `CheckRunning`, `LoadStatus`, `StoreStatus`),
and so is core 1's read-modify-write of the DMA status. Time is two booleans: the
250 ms fallback and the deadline of command 0x80 have passed or not.

| run | guest | shows |
|---|---|---|
| `sb_change` | auto-init and single-cycle blocks, exit, continue, halt, a single-cycle command that cuts an auto-init transfer short, silence, test interrupt, polling, reset | `NeverPassed`, `ResetSilences` |
| `sb_auto` | auto-init blocks longer than the look-ahead, one block to the buffer, and a poller of the DMA status | `CountAgrees`, `CompletionRaised` |
| `sb_stale` | single blocks | violates `StoppedStaysStopped` |
| `sb_poll` | single blocks, polling | violates `LineDismissable` |
| `sb_short` | auto-init blocks shorter than the look-ahead | violates `CompletionRaised` |

Ring sizes 2 and 4 with indices modulo 5 and 9 wrap within a block; the modulus is
more than twice the ring, as 2^32 is. A single-cycle command drops what is queued
beyond its own, shorter look-ahead, by moving the play pointer (`sb16.c:631-636`). It
finds more than that when it cuts an auto-init transfer short or follows a halt, and
core 1 may be in the middle of a sample that began at the old pointer and store that
pointer, advanced, over the new one. `NeverPassed` says that playback does not come
out in front of the copy all the same. The reverse is not claimed, and does not hold:
the store undoes the drop, and for a while more is queued than the look-ahead.
`HOLD` is a bound of the model: a single-cycle command is given only while no more
than `HOLD` bytes have been copied past the pointer of a sample in the making
(`Prompt`). In the code that is what the copy can do in the few instructions of a sample
and nothing bounds it; the modulus is more than twice `HOLD` and a look-ahead together,
so that the difference of two indices keeps its sign.
`sb_change` looks at the ring up to a rotation (`VIEW Turned`): the handlers only take
differences of indices, and so do its two properties. The look-ahead is at most half the ring, so the ring never fills and `write_audio`
never refuses a byte: its path for a full ring is in the model and not exercised.
Nor are blocks that do not divide the buffer checked for `CountAgrees`, which is
about one block to the buffer.
Fairness: `pc_step` is called for ever, the sample timer never stops, time
passes; the guest promises nothing. Not modelled: the 16-bit channel, ADPCM,
direct output, mixer registers, sample values.

### `BlockDevice`, `LinkSlave`, `DiskCache`: the sector cache

`BlockDevice` is the abstract specification, a card whose reads return what it
holds and whose failed writes may have reached any of the sectors. `LinkSlave` is
the wire and `linkf_serve`: `tx` and `rx` are the FIFOs on the way to the slave,
`down` the one back, `mem` its memory, `slave` its place in a request. `DiskCache`
EXTENDS both: `tags`, `on` are `dc_tag`, `dc_on`; `master` is core 0 inside a call,
`out` and `got` the words it has still to put and has taken. A wait of the master
may time out whenever it waits. A data word is `<<"data", sector, version, index>>`,
and the slave may take it for any request when it is out of step, as it can hold
anything. `Reboot` may happen at every step and leaves the slave as it is; `Stray`
is what a floating bus may give the slave meanwhile.

| run | instance | shows |
|---|---|---|
| `disk_cached` | 3 sectors, 2 slots, 2 words per sector, runs of 2, FIFOs of 1 | `Coherent`, `NeverHangs`; `Transparent`, the refinement of `BlockDevice` |
| `disk_overrun` | the same with an overrun of the slave's receive FIFO | violates `Transparent` |

Three sectors in two slots collide; two words tell a shifted burst from a whole
one; runs of two mix residents and others. `disk_cached` assumes the slave keeps up
with the wire during a fill (`Overrun = FALSE`) and the master does not fall silent
in mid-burst for longer than the slave waits (`Pauses = FALSE`). The code relies on
both and enforces neither; `disk_overrun` shows what the first costs. A restart
of the slave alone is not modelled: it would lose its memory under valid tags.

### `SectorStream`, `AtaDisk`, `Atapi`, `Fdc`, `Disks`: the disks behind their ports

`SectorStream` is the abstract specification of all three: a command names a run
of sectors, and the words that follow are the words of that run, in order, until
the run ends or a reset drops it. It knows no register, no block, no interrupt.

`AtaDisk` is the hard disk of `ide.c` with the host that drives it. `reg`,
`nsector`, `status`, `mult`, `cmd`, `irq` are the task file and the control
register, `xfer` the fields `xfer_left`, `xfer_sectors`, `xfer_is_write` and
`xfer_done` (the callback that runs when a block is through), `pos` the position
of the image file. The drive completes within the port access, so a handler is a
step (`ReadSectors`, `WriteMultiple`, `MoveData`, `HdResetOn` ...); the host may stop
between any two, poll or wait, and reset the drive in mid-block. Image word w
holds w until the host writes, so that a word out of order is seen at once.
The mapping takes as position of the job the sector the registers name plus what
has moved of its block: registers, block and file must agree at every word.

`Atapi` is the CD-ROM drive: a packet, then parts of at most the host's byte count
limit, each announced with its reason. `cdstream` is `cd_lba`, `cd_lba_end` and
`cd_sector_size`, which outlive commands and resets; that a reply to INQUIRY never
continues with a sector of an earlier READ is what `CdStreams` is for.

`Fdc` is the floppy controller: `stage` its phase, `told` and `resets` what SENSE
INTERRUPT will tell, `timer` the two ticks from a command's end to its interrupt,
`line` and `latched` IRQ6 and the edge of it. The driver waits, polls, gives up
and resets; the disk may be taken out at any step.

`Disks` puts the three together; the variables of each are its own.

| run | instance | shows |
|---|---|---|
| `devices`, hard disk | 5 sectors of 2 words, 2 heads and 2 sectors a track, registers modulo 4, blocks of 1 or 2 sectors | `HostsInStep`, `DisksStream` |
| `devices`, CD-ROM | 2 sectors of 3 words, limits none, 3 and 4 words, replies of 1 and 2 | `HostsInStep`, `DisksStream` |
| `devices`, floppy | 2 cylinders, 2 heads, 2 sectors; runs of 4 from 1, of 1 and of 2; the disk taken out and put back | `DriverInStep` (an interrupt waited for comes, and results are the driver's own), `DisksStream`; `Served` |

Runs cross a head and a cylinder, a count of zero means the whole radix, a block
of two leaves a rest of one, and the limits are none, a sector and more than one.
A limit smaller than a sector is among the findings: a host that moves what it
is offered there would wait for an interrupt that does not come, so hosts in the
model set none. READ CD of no sector has the like: unlike READ(10) and READ(12) it is not
answered at once (`ide.c:1063-1064`) but announces a part of no words. A host that reads
it in words is never told of an end; a string read ends it (`MoveNothing`). `CdInStep`
excepts exactly this data phase (`Hollow`), of which no document speaks; a reset
leads out of it.
Fairness (`Served`): the DMA is run and ticks come (`pc_step` is called for ever),
and the guest takes IRQ6 once latched.

### `Kbc`: keyboard and mouse

`kbdq` and `auxn` are the two queues, `pending`, `obf` and `lines` what
`kbd_update_irq` makes of them, `latch` the edges the interrupt controller holds,
`delayed` the second half of an extended key waiting for its time. The guest reads
in its handlers, polls besides, and sends commands to the controller, keyboard and
mouse. A handler is a step, its look at the status and its read are two.

| run | instance | shows |
|---|---|---|
| `devices`, keyboard | queues of 4 bytes, 1 kept free for a mouse packet, 4 keys, events or commands | `NoLostWakeup`, `PrefixKept`; `Delivered` |

A queue of 4 is filled by two extended keys; the budget ends the events, so that
`Delivered` speaks of a guest that listens for ever after. The theorems about it
hold for any queue. Fairness: the guest's handlers run, and `kbd_step` is called.

### `Pit`: channel 0 of the timer

Time is the 32-bit microsecond counter less `count_load_time`, all the code looks
at; it wraps at `RADIX`. `Update` is `i8254_update_irq` with its catch-up loop, its
reload and its wrap; `Control` and `CountByte` are port writes in all access modes.

| run | instance | shows |
|---|---|---|
| `devices`, timer | a counter modulo 28, 4 ticks in 3 microseconds, bytes modulo 2, 2 periods caught up in a poll, pauses of 3, 2 loads | `NeverEarly`; `TicksArrive` (none left owed, a one-shot once) |

4/3 stands for the real ratio, 1.193182, so that rounding happens; the counter wraps
within a few periods. `PitRange` bounds the pause: the ticks of half the range, of the
pause and of the largest count fit 32 bits, which in the code allows 24 minutes. A
longer pause is among the findings.

### `IntWindow`: when the CPU takes an interrupt

`cpui386_step` looks for an interrupt before a batch and only there; `left` is
`stepcount`, which STI, POPF, IRET, HLT, `MOV SS`, `POP SS` and port writes change. One
action per kind of instruction; `Step` is the head of a batch. `half` and `open` are
histories: that the last instruction must not be followed by an interrupt, and how
many have run since one enabled them.

| run | instance | shows |
|---|---|---|
| `devices`, CPU | batches of 4 instructions, 2 nested handlers | `NeverBetween`; `Answered` |

Batches end at every place of a sequence of 4; two handlers nest. The theorems
hold for any batch of more than two. Fairness: `cpui386_step` is called, and
within a batch instructions are run.

### `VgaMem`: stores and loads of the display's memory

How a store of the guest reaches the memory of the display: `regs` holds the fields
of the sequencer's and the graphics controller's registers that decide, and the VBE
bank; `table` is `njit_vga_write`, the table by which translated code stores straight
to memory. The ports are the actions; stores and loads are operators (`Store`, `Wide`,
`Native`, `ReadCell`), and the properties ask of every one the guest could make in the
state reached. What the memory holds is no part of the state.

| run | instance | shows |
|---|---|---|
| `devices`, display | windows of 8 bytes, a memory of 32 of which the last 8 may be lent, 4 banks; chain 4, odd/even and planar mappings, two settings of the logical unit | `DirectIsInterpreted`, `AccessesAgree`, `LentStaysLent` |

8 bytes hold two operands of four, so that one may cross the end of a window or of a
bank; the banks run past the lent bytes. `Disables` is FALSE: once VBE is turned off
the table is stale, which is among the findings.

### `Setup`: the Disk Manager and the configuration

`drives` is what `disk.c` has mounted, `pendingFile` what the user has chosen and not
saved, `card` the lines of `config.ini`, `machine` whether it runs, saves, restarts or
is off; `DriveTable`, a constant, names the rows of the menu in their order. One action per key the menu takes; `Save` empties the file and `Saved` closes
it, and the power may fail at any time.

| run | instance | shows |
|---|---|---|
| `devices`, Disk Manager | one floppy drive and two ATA slots; an image, a CD, one of a size that is refused, one with a name that is cut | `GeometryFits`; `SavedComesBack` |

A floppy drive shares its number with an ATA slot, which the code mixes up in one
place; the four images take every return of `insertdisk`. `SwapsKind` is FALSE: a disk
put where a CD was is among the findings.

`DevicesTypeOK` is the type invariant of all eight.

### `Paging`: TLB, fetch caches and faults

Pages and frames are numbers. `pde`, `pte`, `dirty` are the tables in guest memory,
per directory; `tlb` the direct-mapped TLB, whose entry remembers the CR0.WP its
permissions were looked up with and the table entry it points to; `ifetch` and
`line` the page last fetched from and the prefetch line; `exc` and `wrote` the
fault and the writes of the last step. `since` is a history: per page, all the
tables have said since the last flush. An access is one step (`Access`,
`Straddle`, `Fetch`, `FetchWide`), an edit of the tables is one step and flushes
nothing (`EditTable`, `EditDirectory`), and the flushes are those of the code
(`MovCr0`, `MovCr3`, `TaskSwitch`, `Invlpg`, `Reset`).

| run | instance | shows |
|---|---|---|
| `paging`, paging unit | 2 pages under one directory entry, one TLB entry, 2 frames | `CachedWasSaid`, `FetchedWasSaid`; `FaultJustified`, `WriteMarks` |

Both pages share the only TLB slot, so every other access evicts, a straddling
one evicts its own first half. The two kinds of entry differ in both permission
bits, and their combination at the two levels gives a third; pages start absent.
`SAID` = 3 bounds the history between two flushes: a statement for each page and
a second one for either, so that what is cached goes stale while the tables
change for one page. The theorems remove all these bounds. A page table
belongs to one directory in the model, accessed bits are left out, and bytes of
code are not modelled, only the frame they are read from.

The model shows one thing no document of the repository speaks of: a change of
privilege drops the prefetch line and keeps `ifetch`, so that the first fetch at
the new privilege from the same page is not checked against it.

### `JitCache`: the cache of translated code

`code` is the table of blocks (`nj_block_t`), each with its place and length in the
arena; `marks` the bitmap of pages with code; `guards`, `inUse`, `turn` the sets of
shared guards and who owns them; `lent`, `offered`, `forfeited` the arena borrowed
from the display. `at` is where core 0 is on its way from an address to a running
block: the probe of the guards, the look-up, room (enough, compaction, borrowing,
eviction), translation, emission, the run itself with its native stores and its
exits. `fresh` and `whole` of a block are histories: no byte it came from was
stored over, no word of its code was overwritten. Stores of the interpreter, of
translated code and of the display's windows are separate actions, because they
look at different things before they write.

A block that runs is in one of three phases. In `run` what it came from is what the
CPU would fetch at its address. `adrift`, an access made by a helper has loaded a
TLB entry (`Lookup`), or an `OUT` has moved A20, and that need not be so any more; it stays in
the table. `loose`, it has stored by REP MOVSB (`nj_rep_movs`), which looks at no
guard: `RepStore` is a byte of memory, noted like a store of the interpreter, and may
drop the running block or change its bytes; `RepVideo` is one of the display's, and
may take the lent memory back under it. The block runs on to its end in each of them,
as in the code. `FreshCode` says of every block in the table that it is fresh, of a running one that it
was fetched from where it is (`run`) and is still in the table (`run`, `adrift`); of a
block that is loose it says nothing, and neither does the model say what the code does
once its words are overwritten.

| run | instance | shows |
|---|---|---|
| `paging`, translator | 2 pages of 2 bytes, modes without paging, with the A20 gate closed and virtual 8086; one set of two ways, two sets of guards; arenas of 2 and 3 words | `FreshCode`, `IntactCode`, `GuestKeeps` |
| `jit_release` | the same | violates `NoneExecuting` |

One trace crosses into the second page, one stores in it; both together overflow
either arena, three modes share two sets of guards. `jit_release` is the same
instance. Left out: what a block
computes, the filter of heads (what it rejects is not in the table), the table of
hot addresses (it only says when), segment bases (the linear address and the
mode stand for them), the alternation of victims (any way of the set may be
chosen), and page tables that differ from the TLB for the blocks that walk them.
Native stores are of one byte, hence within a page: wider ones test only the mark
of their first byte, which is among the findings, and with them `FreshCode` fails.

### `Contexts`, `Transfers`: interrupts, faults, calls and returns

`Contexts` is the abstract specification: whatever comes upon a program, it goes on
with the context it had, at the instruction it was at or the next; a service it
called may change its flags and its data segment, and nothing else. `Transfers`
is `call_isr`, `pmcall`, `pmret`, `set_seg` and the instructions around them. `cpu`
holds the registers and the flag still lazy in `cc`; `frames` are what transfers
have put on the stacks, one element per frame at the place the stack pointer gives
it, and a push drops what it overlaps; `absent` the segments moved out of memory;
`waits` a history, the programs that wait. A transfer is one step, as in the code.
The guest keeps its handlers, its inner stack and the program's stack present,
drops the error code and ends what it enters with the instruction that fits.

| run | instance | shows |
|---|---|---|
| `paging`, transfers | registers modulo 32; seven systems: real mode, 16-bit, all 32-bit, the inner stack or only the kernel wide, virtual 8086 with IOPL 0 and 3; a conforming segment that is called, a call gate with one parameter, two segments that come and go; two nested transfers | `LevelsAgree`; `Resumes`, the refinement of `Contexts` |

32 makes the stack pointer and the instruction pointer wrap within a frame of
each kind; the initial stacks are placed so that they do. Left out: task switches, far jumps,
transfers that fail half-way (an absent outer stack aborts the emulator, a failed
hardware interrupt becomes a double fault), the flags NT and TF, and RET n across
levels, which leaves the parameters on the outer stack.

## What is found

Five runs of expected violation state what a comment or a test of the repository
says and show that the code does otherwise: a stale DMA request of core 1 replays
a stopped block (`sb_stale`); a driver that polls the status port can leave the
interrupt line up for good (`sb_poll`); with blocks shorter than the look-ahead no
completion interrupt is ever raised (`sb_short`); a word lost during a cache fill
makes a later read return old data (`disk_overrun`); a REP MOVSB of translated code
into lent display memory flushes the arena under the block that executes it, and gives
its memory back (`jit_release`).

Fifteen more were met while reading the code for a definition, and the model steers
clear of them as its module says; `findings` in `PROJECT.json` quotes each line.
Disks: a byte count limit below a CD sector leaves the host without its
interrupt; the CD-ROM callback is declared with one parameter too few; a floppy
reset through the data-rate register leaves IRQ6 up; an eject from an empty floppy
drive ejects the ATA slot of its number; a slot that held a CD stays one. Timer: a
poll more than 2^31 ticks late finds none owed. CPU: two instructions, not one, run
behind an STI with a request pending; a task that follows a task switch can see the
lazy flags of the one before. JIT and display: a native store across a page tests one
mark of two; linear frame-buffer stores do not forfeit lent memory; a translated OUT
may change A20 under the guards of the old mode; DMA and the network redirector write
code without noting it; turning VBE off leaves the table of direct stores as it was; a
wide store of chain 4 that begins below the lent memory does not claim it. Settings:
answering No to the question whether to save keeps the changes.

## What is proved

Every theorem holds for every value of the constants the module's assumptions
allow; what a theorem assumes beyond them stands in its statement. A theorem of a
property names the run's own definition, with two exceptions said below.

`I8259Proofs`, for any number of pins, any wiring of the cascade and any guest:
`TypeCorrect`; `AcceptOnlySelected` (the action property `AcceptSelected`), which
rests on `PriorityIsLeastRank`: the scan of `get_priority` finds the pin of least
rank, proved from the well-foundedness of < on the naturals, so that the model's
`Min` exists; `RequestsAreKept` (`RequestKept`), by following one request through
every write; `IntrAlwaysCovers` (`IntrCoversRequest`), for a guest that never turns
on special mask mode or special fully nested mode.
`HandlersNestByRank` and `EndsRetireLatest` assume `PlainGuest`, no special modes
and no rotation. Their invariant adds to the types that the modes stay as they are and
that the history orders any two pins in service, towards higher priority; so the pin
an end retires, the one of highest priority, is the one accepted last.
`StaysInRank` (`InRank`) assumes `SettledGuest` besides: no ICW1 and no poll. Both are
needed: ICW1 on the master forgets the pulse of the cascade, and a poll of the
master takes the request of the cascade pin without recomputing it. The invariant
adds that the pulse always ends low, so that the next one is an edge.

`SbDmaProofs`, for a ring, a look-ahead, blocks and a rate of any size:
`CardTypes` (`TypeOK`: the transfer stays inside the buffer); `ResetIsSilent`
(`ResetSilences`), for any driver: a card that was reset has no size programmed and
awaits no command, so nothing it still does copies or raises the line. `CountsAgree`
(`CountAgrees`) is for the commands of a driver that plays one auto-init buffer and
polls: as long as no block runs the channel is untouched, and from then on the
count register and the countdown of the block move together, wherever core 1 is in
its own read-modify-write of the status. `PlaybackNeverPasses` (`NeverPassed`) is for any
driver too, given `Prompt`. Its invariant `PaceInv` bounds the queue by `HOLD` and a
look-ahead, and says what core 1 has read: its copy of the play pointer is the present
one, or it lags the one a drop left by at most `HOLD` and the queue is within the look-ahead
(`Lagging`); what it is about to add fits the queue either way.

`DiskCacheProofs`, for any sectors, slots, runs, FIFO depths, replies lost, time-outs
and reboots: `CacheInvariance`, `CacheIsTransparent` (the refinement of `BlockDevice`,
every step one of the card's or a stutter), `CacheIsCoherent` (`Coherent`). They assume
what the run assumes, `~Overrun` and `~Pauses`. The words in the receive FIFO, in the
transmit FIFO and those the master has still to put form one sequence. The invariant
says that it parses: each word tells what follows it (`Parses`), and the slave stands
where its head is expected (`Expected`). A data word carries the place it is for, so
the last one aimed at a place is what the slave will hold there once all is drained,
and for a resident sector that is the card's word (`Holds`, `Filed`). `Asked`,
`Answering` and `Answered` count the words of the answer, wherever they are: the master
takes as many as it asked for, or times out and invalidates. The refinement then
needs only that what a read returns from the slave is `Filed`.

`CpuProofs`, the paging unit, for any number of pages, TLB entries, frames, directories and any
set of entries the guest writes: `TypeCorrect`, `TlbSound`, `FetchSound`,
`FaultsHaveGrounds`, `FaultsAreForgotten`, `WritesAreMarked`. The inductive invariant
is `TypeOK`, `CachedWasSaid` and `FetchedWasSaid` together with `NowSaid`: what the
tables say now is in the history. Without it an entry just refilled could not be
shown to be in the history. `Translation` says what one pass of `translate_lpgno`
makes of a sound state; `AccessStep` lifts it to a step, and two translations
compose for the straddling access. Flushes are one lemma (`FlushInv`), edits
another (`EditInv`), which uses that the history only grows.
`FaultsAreForgotten` states `FaultForgets`, which no run repeats.

`JitProofs`, for any pages, table, arenas, modes, traces and stores:
`JitTypeCorrect`, `MemoryStaysTheGuests` (`GuestKeeps`), `CodeStaysIntact`
(`IntactCode`) and `CodeStaysFresh` (`FreshCode`), the last under `Within`: the guarded
stores of translated code keep within the page whose mark they test. Four invariants build on each
other. `JitTypes` adds to the types that a translation under way is of a known
trace. `Claimed` says the display's memory is lent only while nobody stored in it.
`Whole` says what compaction needs: blocks are packed (each begins where the words
of those below it end, which is counted with cardinalities), callers of a set of
guards are of its mode, and a translation that is emitted fits. `Fresh` says every
live block is made of the bytes it names, unless noted, and every page of such a
byte is marked; a store that tests the mark therefore finds every block it hits.
A noted store, of the interpreter or of REP MOVSB, needs no test: it drops what it
reaches and leaves the rest as it was (`NotedSane`). Taking the lent memory back
empties the table or finds nothing lent (`Released`).

`CpuProofs`, the transfers, for any segments, vectors and kinds of guest system, any width
and any nesting: `LevelsHold` (`LevelsAgree`) and `ProgramsResume` (`Resumes`, the
refinement of `Contexts`), under `GuestAssumption`, which TLC evaluates on the seven
systems of the run. It says that the guest has the two levels and the segments the
module names, that the handlers of its faults never leave memory, that a 16-bit system has
no 32-bit segments, that a stack holds all the transfers that may nest on it (without that
the frames of the waiting programs overlap, on a real CPU as well), and that what a
program enters at its own level goes through a trap gate: an interrupt gate masks
interrupts, and IRET with less privilege than the I/O level leaves the flag as it is.
`LevelsHold` says the same of every frame on a stack: a return loads what the transfer
pushed, and what it takes for a frame but is none has no code segment and is refused.
Each operation of `set_seg` and of the stack pointer has a lemma that says which registers
it leaves alone. `ProgramsResume` rests on the invariant `TInv`, in which `Nested` looks at
the programs that wait from the one that runs outwards. Each is what a program of the
guest can be (`IsProgram`); its frame is on the stack, at the place where the program that
runs next to it began, and tells what the history remembers (`Ours`, `Tells`); a program
further out that has the same stack has its own further up (`Outer`), so no two frames
overlap; and a stack is no deeper than what the transfers below it may push (`Bounded`),
so the stack pointer may wrap at 16 or 32 bits but never comes round to a frame.
Depths are counted from where the stack begins and modulo its size (`DeepSpot`,
`SpotDeep`), whatever the part of ESP above 16 bits holds. Transfers, returns and the drop
of an error code are then three lemmas (`PushNested`, `PopNested`, `DropNested`), shared by
the paths of `call_isr`, `pmcall` and `pmret`, and what remains is that each path loads
what its frame tells (`SameBack`, `OuterBack`, `VirtualBack`). `TransferTypes` (`TTypeOK`)
adds that ESP and EIP keep their width, under `RegistersAssumption`, that the stacks begin
at addresses a register holds: a push or a return that changes the low half of ESP alone
leaves a number of the same width (`LowHalf`), and so do the frames it makes.

`InterruptProofs`, the devices and the CPU around IRQs. `Kbc`, for any queue and
budget: `StatusIsTrue` (the status tells what is queued, under the mode of now),
`EdgesSuffice` (`NoLostWakeup`) and `PrefixesStay` (`PrefixKept`). The last is stated as
a reading of the queue, from the byte taken last to the code that is delayed (`Pairs`):
readings join (`PairsJoin`) and lose their first byte (`PairsTail`). `IntWindow`, for any batch of more than two instructions and any depth of nesting: `WindowTypes` and `WindowsHold`
(`NeverBetween`); the invariant adds that an instruction that holds interrupts off
leaves the batch room for one more, that the CPU was told of what the controller
asks, and where the guest's loop may sleep. `Pit`, for a counter of any width, any
rate near the chip's and any guest: `PTypesHold`, `TicksComeOnTime` (`NeverEarly`) and
`NoTickIsLost` (`TicksArrive`), both under `Backlog`: no more than half the range is
owed beyond a period. Without it they are false, since the sign of a 32-bit difference
tells a long backlog from none. `PausesAreCaughtUp` derives it from `KeepsUp`: ten periods,
what a poll catches up, are no shorter than the longest pause (0.55 s at 18.2 Hz). The
invariant `PInv` adds to `NeverEarly` that the last tick pulsed fell in the first half of
the range, and that at the last poll that half was not over or no tick was owed; so
neither the time nor its ticks wrap before the next poll (`Room`), the sign is right
(`Sign`), and the count, once loaded again, looks late for nothing (`ReloadEnds`).

`DiskProofs`, the drives, for any geometry, discs, sectors, blocks and requests that lie
on the disk: `DrivesKeepStep` (`HostsInStep`) and `DrivesStream` (`DisksStream`, the
refinement of `SectorStream` by all three), with the types of each (`HardDiskInStep`,
`CdromInStep`, `FloppyTypes`). The first part is arithmetic: the three parts of an LBA or
CHS address make the number they were cut from (`LbaMakes`, `ChsMakes`, `PartsOfChs`).
The hard disk's invariant `HdInv` says that the line is up when its host waits (`HdLine`),
that nothing is left of a command the host is through with (`HdRest`), and, in the middle
of one (`HdBusy`), that the words left of the block, the sectors of it, the count
register and the position of the file stand where the host does (`Transferring`), or that
it is an identification (`Identifying`). `EndIs` and `EndFor` follow the callback that
runs when a block is through, into the next block or to the end. The CD-ROM's `CdInv`
tells apart four states of a host that waits: a reply of one part (`CdReplying`), sectors
(`CdReading`), a completion (`CdQuiet`), or the part of no words (`Hollow`, which
`NothingKeeps` follows until it ends); the last is the exception in what is proved. Its theorems assume `AmpleLimits`, that no
limit is shorter than a sector; with a shorter one they are false, which is the finding.
For the floppy, `InterruptComes` (`WaitEnds`) and `DriverStaysInStep` (`DriverInStep`)
rest on what an idle controller owes nobody, on what is owed to whoever waits, and on
what the result registers tell; the refinement adds that a running transfer lies on the
disk (`Running`), whose sectors follow each other across heads and cylinders
(`SectorsFollow`, `PathIs`).

`DiskProofs`, the Disk Manager, for any table of drives and any images: `DrivesFit`
(`GeometryFits`, with the types) and `SavesComeBack` (`SavedComesBack`), both under
`~SwapsKind`, without which they are false (a finding). The invariant `SInv` adds what a
drive is, open or not (`Fits`), that only a CD is pending where a CD was (`Keeps`), and
that from the save to the restart the file says what the drives are. `apply_and_close`
goes over the rows of the table: a recursive function, whose values the provers give only
once it is known to exist. That is an induction over the table's length, done as a
least counterexample (`LoopExists`), and `LoopKeeps` carries an invariant of the rows
through it in the same way. What is brought back is then compared with one row alone
(`MountedIs`), although an eject may have emptied another.

`DeviceProofs`, the display, for windows, memories and banks of any size:
`DirectStoresAreInterpreted` (`DirectIsInterpreted`), for a guest that leaves VBE on,
`WaysAgree` (`AccessesAgree`) and `LentMemoryIsClaimed` (`LentIsClaimed`). The invariants
are that the table belongs to the registers, and that the bank is a multiple of four.

`DeviceProofs`, the devices side by side (`MCDevices`): `DevicesKeepTypes`
(`DevicesTypeOK`) and `LentStays` (`LentStaysLent`). The invariant is the conjunction of
those of the eight parts, of which every step of the whole is a step or leaves it alone
(`AnyStep`); the first assumes what the parts do, `AmpleLimits` and `~SwapsKind`, which
hold in the run, the second nothing.

Only model-checked:

- what the temporal prover does not reach: liveness under fairness (`QuietServed`,
  `CompletionRaised`, `Delivered`, `Served`, `Answered`) and `ENABLED`
  (`NeverHangs`).

## What is not modelled, and the plan

`components` in `PROJECT.json` gives every part with its status and reason. Most
lines of the repository are not control: instruction and FPU semantics and the
code the JIT emits (pure functions of the registers, compared with real CPUs by
tests), pixel formats and signal timing, key tables, the vendored FatFs, emu8950
and their tables, profilers. TLC has no values for the floats and would have to
enumerate the words of the others; no property here would tell one from another.

What a model would still repay, in this order:

1. Task switches in `Transfers`: the TSS as a frame in memory, the busy bit, NT; with
   them the finding on lazy flags becomes a run.
2. The rest of `pc.c`: reset and the order of devices within a slice.
3. `RemoteMem`: the second client of `LinkSlave`; late answers after a timeout.
4. `Rings`: the command queue of `adlib.c` and the audio ring as instances of one
   abstract bounded queue, which they refine.
5. The frame hand-over between render and scan-out.
