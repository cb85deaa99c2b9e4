------------------------------ MODULE AtaDisk ------------------------------
(***************************************************************************)
(* The hard disk of the IDE interface (src/src/ide.c) with the host that    *)
(* drives it through ports 0x1f0-0x1f7 and 0x3f6: the task file, blocks of   *)
(* one or several sectors, programmed I/O through the data port, the        *)
(* interrupt line and the soft reset.  The drive answers within the port    *)
(* access, so that a handler is a step; the host may stop between any two   *)
(* accesses, and reset the drive at any of them.                            *)
(*                                                                         *)
(* Sectors are WORDS words long; word w of the image holds w itself until   *)
(* the host writes STORED there.  An 8-bit register counts modulo VALUES.    *)
(***************************************************************************)
EXTENDS Integers, FiniteSetsExt

CONSTANTS BLOCKS,    \* sectors of the image (nb_sectors)
          WORDS,     \* words in a sector, 256 in the code
          HEADS, TRACK,   \* geometry: heads, and sectors of a track
          VALUES,    \* of an 8-bit register, 256
          MAXMULT,   \* MAX_MULT_SECTORS, 4 in the code
          DIRTY,     \* bound: words written when the host starts another write
          HdAsked,   \* <<first sector, count>> the host asks for, 0 meaning VALUES
          Multiples, \* and the block sizes it sets
          STORED     \* what it writes

VARIABLES file,      \* image, by word
          pos,       \* file position of s->fp, in words
          reg,       \* address registers: lba mode, head, cylinder, sector
          nsector,
          status,    \* set of status bits
          mult,      \* mult_sectors
          xfer,      \* xfer_left (in words), xfer_sectors, xfer_is_write, xfer_done
          selected,  \* cur_drive is this drive, not the absent slave
          cmd,       \* device control: srst and nIEN
          irq,       \* level of the interrupt line
          out,       \* last word of the sectors the host reads
          host       \* phase; words to move and of them in the block at hand

ASSUME HdSizes == /\ {BLOCKS, WORDS, HEADS, TRACK, MAXMULT} \subseteq Nat \ {0}
                  /\ VALUES \in Nat \ {0, 1} /\ Multiples \subseteq 0 .. VALUES - 1
ASSUME HdOnDisk == \A a \in HdAsked :
                       /\ a \in (0 .. BLOCKS - 1) \X (0 .. VALUES - 1)
                       /\ a[1] + (IF a[2] = 0 THEN VALUES ELSE a[2]) <= BLOCKS

drive == <<file, pos, reg, nsector, status, mult, xfer, irq, out>>
hdvars == <<drive, selected, cmd, host>>

Word == 0 .. BLOCKS * WORDS - 1
Idle == {"ready", "seek"}

\* ide_get_sector
SectorOf(r) == IF r.lba
               THEN (r.head * VALUES * VALUES + r.cyl) * VALUES + r.sector
               ELSE (r.cyl * HEADS + r.head) * TRACK + r.sector - 1

BadWithSector(r, n) == [r EXCEPT !.sector = (n % TRACK) + 1]
\* ide_set_sector
WithSector(r, n) ==
    IF r.lba
    THEN [r EXCEPT !.head = n \div (VALUES * VALUES * VALUES),
                   !.cyl = (n \div VALUES) % (VALUES * VALUES),
                   !.sector = n % VALUES]
    ELSE LET c == HEADS * TRACK
         IN  [r EXCEPT !.cyl = n \div c,
                       !.head = (n % c) \div TRACK,
                       !.sector = ((n % c) % TRACK) + 1]

\* sectors of the next block
Block(count) == Min({IF count = 0 THEN VALUES ELSE count, IF mult = 0 THEN 1 ELSE mult})

BadLess(count, n) == count - 1
\* nsector after a block of n
Less(count, n) == (count - n) % VALUES

HdInit ==
    /\ file = [w \in Word |-> w] /\ pos = 0
    /\ reg = [lba |-> FALSE, head |-> 0, cyl |-> 0, sector |-> 0]
    /\ nsector = 0 /\ status = Idle /\ mult = MAXMULT
    /\ xfer = [left |-> 0, sectors |-> 0, write |-> FALSE, done |-> "stop"]
    /\ selected = TRUE /\ cmd = [srst |-> FALSE, nien |-> FALSE]
    /\ irq = 0 /\ out = STORED
    /\ host = [phase |-> "idle", op |-> "none", todo |-> 0, per |-> 0, block |-> 0,
               mult |-> MAXMULT]

(***************************************************************************)
(* The drive.                                                              *)
(***************************************************************************)
\* ide_set_irq
RaisedIrq == IF cmd.nien THEN irq ELSE 1

\* a block of n sectors is armed
Arm(n, writing, then) ==
    /\ xfer' = [left |-> n * WORDS, sectors |-> n, write |-> writing, done |-> then]
    /\ status' = Idle \cup {"drq"}

\* ide_sector_read: r is the address once it is up to date
SectorRead(r, block) ==
    /\ pos' = SectorOf(r) * WORDS
    /\ Arm(block, FALSE, "readnext")
    /\ irq' = RaisedIrq

SectorWrite(r, block) ==
    /\ pos' = SectorOf(r) * WORDS
    /\ Arm(block, TRUE, "flush")
    /\ UNCHANGED irq

\* ide_transfer_stop of a hard disk
Stopped == [xfer EXCEPT !.left = 0, !.write = FALSE, !.done = "stop"]

\* ide_sector_read_next
SectorReadNext ==
    LET r == WithSector(reg, SectorOf(reg) + xfer.sectors)
        count == Less(nsector, xfer.sectors)
    IN  /\ reg' = r /\ nsector' = count
        /\ \/ count = 0 /\ status' = Idle /\ xfer' = Stopped /\ pos' = pos + xfer.left
                        /\ UNCHANGED irq
           \/ count # 0 /\ SectorRead(r, Block(count))

BadSectorWriteFlush(k) ==
    LET count == Less(nsector, xfer.sectors)
    IN  /\ reg' = WithSector(reg, SectorOf(reg) + xfer.sectors)
        /\ nsector' = count /\ pos' = pos + k
        /\ \/ count = 0 /\ status' = Idle /\ xfer' = Stopped /\ UNCHANGED irq
           \/ count # 0 /\ Arm(Block(count), TRUE, "flush") /\ irq' = RaisedIrq
\* ide_sector_write_flush, the file position already past the block
SectorWriteFlush(k) ==
    LET count == Less(nsector, xfer.sectors)
    IN  /\ reg' = WithSector(reg, SectorOf(reg) + xfer.sectors)
        /\ nsector' = count /\ pos' = pos + k /\ irq' = RaisedIrq
        /\ \/ count = 0 /\ status' = Idle /\ xfer' = Stopped
           \/ count # 0 /\ Arm(Block(count), TRUE, "flush")

\* the data port has moved k words: xfer_advance
Advanced(k) ==
    IF k < xfer.left
    THEN /\ xfer' = [xfer EXCEPT !.left = @ - k]
         /\ pos' = IF xfer.done = "identify" THEN pos ELSE pos + k
         /\ UNCHANGED <<reg, nsector, status, irq>>
    ELSE \/ xfer.done = "readnext" /\ SectorReadNext
         \/ xfer.done = "flush" /\ SectorWriteFlush(k)
         \/ /\ xfer.done = "identify"
            /\ xfer' = Stopped /\ status' = {"ready"}
            /\ UNCHANGED <<pos, reg, nsector, irq>>

\* ide_data_readw, ide_data_readl and ide_data_read_string, for k words
DataRead(k) ==
    /\ selected /\ ~xfer.write /\ k <= xfer.left
    /\ out' = IF xfer.done = "readnext" THEN file[pos + k - 1] ELSE out
    /\ Advanced(k)
    /\ UNCHANGED <<file, mult>>

\* ide_data_writew, ide_data_writel and ide_data_write_string
DataWrite(k) ==
    /\ selected /\ xfer.write /\ k <= xfer.left
    /\ file' = [w \in Word |-> IF w \in pos .. pos + k - 1 THEN STORED ELSE file[w]]
    /\ Advanced(k)
    /\ UNCHANGED <<out, mult>>

Identify ==
    /\ xfer' = [left |-> WORDS, sectors |-> xfer.sectors, write |-> FALSE,
                done |-> "identify"]
    /\ status' = Idle \cup {"drq"} /\ irq' = RaisedIrq
    /\ UNCHANGED <<pos, reg, nsector, mult>>

\* commands that end at once; SET FEATURES and the power commands are alike
EndsAt(bits) == status' = bits /\ irq' = RaisedIrq /\ UNCHANGED <<pos, xfer>>

PowersOfTwo == {0} \cup {2 ^ e : e \in 0 .. MAXMULT}

\* a count that is refused leaves the status of one that is taken
SetMultiple(n) ==
    /\ nsector' = n
    /\ mult' = IF n \in PowersOfTwo \cap 0 .. MAXMULT THEN n ELSE mult
    /\ EndsAt({"ready"}) /\ UNCHANGED reg

ReadNativeMax ==
    /\ reg' = WithSector(reg, BLOCKS - 1)
    /\ EndsAt(Idle) /\ UNCHANGED <<nsector, mult>>

CheckPowerMode ==
    /\ nsector' = VALUES - 1
    /\ EndsAt(Idle) /\ UNCHANGED <<reg, mult>>

Recalibrate == EndsAt(Idle) /\ UNCHANGED <<reg, nsector, mult>>

Unknown == EndsAt({"ready", "err"}) /\ UNCHANGED <<reg, nsector, mult>>

\* the ports before the command: the task file names n sectors from r
Named(r, n) == reg' = r /\ nsector' = n

\* READ and WRITE move one sector at a time, and leave it so
ReadSectors(r, n) == mult' = 1 /\ Named(r, n) /\ SectorRead(r, 1)
WriteSectors(r, n) == mult' = 1 /\ Named(r, n) /\ SectorWrite(r, 1)

ReadMultiple(r, n) ==
    \/ mult = 0 /\ Unknown
    \/ mult # 0 /\ Named(r, n) /\ SectorRead(r, Block(n)) /\ UNCHANGED mult
WriteMultiple(r, n) ==
    \/ mult = 0 /\ Unknown
    \/ mult # 0 /\ Named(r, n) /\ SectorWrite(r, Block(n)) /\ UNCHANGED mult

(***************************************************************************)
(* The host.  It sets up the task file, gives a command, then alternates    *)
(* between waiting (for the interrupt, or by polling with interrupts off)   *)
(* and moving a block; the first block of a write is only polled for.       *)
(***************************************************************************)
Length(n) == IF n = 0 THEN VALUES ELSE n

\* registers that name a sector of the disk
Addresses ==
    {r \in [lba : BOOLEAN, head : 0 .. HEADS - 1, cyl : 0 .. BLOCKS - 1,
            sector : 0 .. VALUES - 1] :
        /\ SectorOf(r) \in 0 .. BLOCKS - 1
        /\ ~r.lba => r.sector \in 1 .. TRACK}
Requests == {q \in Addresses \X (0 .. VALUES - 1) : <<SectorOf(q[1]), q[2]>> \in HdAsked}

\* it waits for blocks of at most per sectors, todo words to come
Wait(phase, op, todo, per) ==
    host' = [host EXCEPT !.phase = phase, !.op = op, !.todo = todo, !.per = per]

\* bound: the host does the like only when no transfer was cut short
Fresh == host.phase = "idle" /\ xfer.left = 0

\* the host looks for a slave: there is none, and cur_drive is NULL
SelectDrive ==
    /\ Fresh
    /\ selected' = ~selected
    /\ UNCHANGED <<drive, cmd, host>>

\* it turns the interrupt off or on (port 0x3f6) between commands
SetControl ==
    /\ Fresh
    /\ cmd' = [cmd EXCEPT !.nien = ~@]
    /\ UNCHANGED <<drive, selected, host>>

\* a host uses the multiple commands after a SET MULTIPLE of its own
Agreed == host.mult = mult

\* bound: it starts writing while no more than DIRTY words are written
MayWrite == Cardinality({w \in Word : file[w] = STORED}) <= DIRTY

\* ports 1 to 7: the task file, then ide_exec_cmd (bound: after a transfer cut
\* short by a reset the host identifies the drive or starts another)
Transfer(c, r, n) ==
    \/ c = "read" /\ ReadSectors(r, n) /\ Wait("await", "read", Length(n) * WORDS, 1)
    \/ c = "write" /\ MayWrite /\ WriteSectors(r, n)
       /\ Wait("poll", "write", Length(n) * WORDS, 1)
    \/ c = "multread" /\ Agreed /\ mult # 0 /\ ReadMultiple(r, n)
       /\ Wait("await", "read", Length(n) * WORDS, mult)
    \/ c = "multwrite" /\ MayWrite /\ Agreed /\ mult # 0 /\ WriteMultiple(r, n)
       /\ Wait("poll", "write", Length(n) * WORDS, mult)
    \/ c \in {"multread", "multwrite"} /\ mult = 0
       /\ (ReadMultiple(r, n) \/ WriteMultiple(r, n)) /\ Wait("await", "none", 0, 0)

Other(c) ==
    \/ c = "identify" /\ Identify /\ Wait("await", "read", WORDS, 1)
    \/ c = "setmult" /\ \E n \in Multiples : SetMultiple(n)
       /\ host' = [host EXCEPT !.phase = "await", !.mult = mult']
    \/ c = "nativemax" /\ ReadNativeMax /\ Wait("await", "none", 0, 0)
    \/ c = "power" /\ CheckPowerMode /\ Wait("await", "none", 0, 0)
    \/ c = "recal" /\ Recalibrate /\ Wait("await", "none", 0, 0)
    \/ c = "unknown" /\ Unknown /\ Wait("await", "none", 0, 0)

Command(c) ==
    /\ host.phase = "idle" /\ selected
    /\ \/ \E q \in Requests : Transfer(c, q[1], q[2])
       \/ (xfer.left = 0 \/ c = "identify") /\ Other(c)
    /\ out' = STORED
    /\ UNCHANGED <<file, selected, cmd>>

\* port 7 read: the status, and the line goes down
ReadStatus ==
    /\ host.phase = "await" /\ (irq = 1 \/ cmd.nien)
    /\ irq' = 0
    /\ host' = IF host.todo > 0 /\ "drq" \in status
               THEN [host EXCEPT !.phase = "data",
                                 !.block = Min({host.todo, host.per * WORDS})]
               ELSE [host EXCEPT !.phase = "idle", !.op = "none", !.todo = 0, !.per = 0]
    /\ UNCHANGED <<file, pos, reg, nsector, status, mult, xfer, out, selected, cmd>>

\* port 0x3f6 read: the status, and nothing else
PollStatus ==
    /\ host.phase = "poll" /\ "drq" \in status
    /\ host' = [host EXCEPT !.phase = "data", !.block = Min({host.todo, host.per * WORDS})]
    /\ UNCHANGED <<drive, selected, cmd>>

\* k words of the block pass through the data port
MoveData(k) ==
    /\ host.phase = "data" /\ k <= host.block
    /\ host' = IF host.op = "read" /\ k = host.todo
               THEN [host EXCEPT !.phase = "idle", !.op = "none", !.todo = 0, !.per = 0,
                                 !.block = 0]
               ELSE [host EXCEPT !.todo = @ - k, !.block = @ - k,
                                 !.phase = IF k < host.block THEN "data" ELSE "await"]
    /\ \/ host.op = "read" /\ DataRead(k)
       \/ host.op = "write" /\ DataWrite(k)
    /\ UNCHANGED <<selected, cmd>>

\* soft reset, at any moment
HdResetOn ==
    /\ ~cmd.srst
    /\ cmd' = [cmd EXCEPT !.srst = TRUE]
    /\ status' = {"busy", "seek"}
    /\ host' = [host EXCEPT !.phase = "reset", !.op = "none", !.todo = 0, !.per = 0,
                            !.block = 0]
    /\ UNCHANGED <<file, pos, reg, nsector, mult, xfer, irq, out, selected>>

HdResetOff ==
    /\ cmd.srst
    /\ cmd' = [cmd EXCEPT !.srst = FALSE]
    /\ status' = Idle
    /\ reg' = [reg EXCEPT !.head = 0, !.cyl = 0, !.sector = 1] /\ nsector' = 1
    /\ UNCHANGED <<file, pos, mult, xfer, irq, out, selected, host>>

\* the drive is back: the host reads its status
Settle ==
    /\ host.phase = "reset" /\ ~cmd.srst
    /\ irq' = IF selected THEN 0 ELSE irq
    /\ host' = [host EXCEPT !.phase = "idle"]
    /\ UNCHANGED <<file, pos, reg, nsector, status, mult, xfer, out, selected, cmd>>

CommandNames == {"read", "write", "multread", "multwrite", "identify", "setmult",
                 "nativemax", "power", "recal", "unknown"}

HdNext ==
    \/ SelectDrive \/ SetControl \/ ReadStatus \/ PollStatus
    \/ \E c \in CommandNames : Command(c)
    \/ \E k \in 1 .. BLOCKS * WORDS : MoveData(k)
    \/ HdResetOn \/ HdResetOff \/ Settle

HdSpec == HdInit /\ [][HdNext]_hdvars

(***************************************************************************)
(* Properties                                                              *)
(***************************************************************************)
HdTypeOK ==
    /\ file \in [Word -> Word \cup {STORED}] /\ pos \in Nat
    /\ reg \in [lba : BOOLEAN, head : Nat, cyl : Nat, sector : Nat]
    /\ nsector \in 0 .. VALUES - 1
    /\ status \subseteq {"busy", "ready", "seek", "drq", "err"}
    /\ mult \in 0 .. MAXMULT
    /\ xfer \in [left : Nat, sectors : Nat, write : BOOLEAN,
                 done : {"stop", "readnext", "flush", "identify"}]
    /\ selected \in BOOLEAN /\ cmd \in [srst : BOOLEAN, nien : BOOLEAN]
    /\ irq \in 0 .. 1 /\ out \in Word \cup {STORED}
    /\ host \in [phase : {"idle", "await", "poll", "data", "reset"},
                 op : {"none", "read", "write"}, todo : Nat, per : Nat, block : Nat,
                 mult : 0 .. MAXMULT]

\* Host and drive never lose step: while the host waits for an interrupt the
\* line is up, when it moves a block the drive has exactly that block ready, and
\* when it has finished no data and no interrupt are left over
\* (xfer_advance and the callbacks, src/src/ide.c:827-906 and 1496-1532).
HostInStep ==
    /\ host.phase = "await" /\ ~cmd.nien => irq = 1
    /\ host.phase \in {"await", "poll"} => ("drq" \in status <=> host.todo > 0)
    /\ host.phase = "data" => /\ "drq" \in status /\ xfer.left = host.block
                              /\ xfer.write <=> host.op = "write"
    /\ host.phase = "idle" => irq = 0 /\ "drq" \notin status

\* The command in progress, as the registers tell it: the sector they name plus
\* what has been moved of its block, up to the sectors still counted.
Moving == "drq" \in status /\ xfer.done \in {"readnext", "flush"}
HdJob == IF Moving
         THEN [op |-> IF xfer.write THEN "write" ELSE "read",
               at |-> (SectorOf(reg) + xfer.sectors) * WORDS - xfer.left,
               end |-> (SectorOf(reg) + Length(nsector)) * WORDS]
         ELSE [op |-> "none", at |-> 0, end |-> 0]

AskedRuns == {<<a[1], Length(a[2])>> : a \in HdAsked}

Stream == INSTANCE SectorStream
          WITH medium <- file, job <- HdJob, Runs <- AskedRuns, FRESH <- STORED

\* Every command moves exactly the words of the sectors it names, in order, in
\* either addressing mode, whatever the block size, the accesses it is split
\* into and the resets before it.
HdStreams == Stream!StreamSpec
=============================================================================
