------------------------------- MODULE Atapi -------------------------------
(***************************************************************************)
(* The CD-ROM drive of the IDE interface (src/src/ide.c) with the host that *)
(* drives it: a packet command, then a data phase of one or several parts   *)
(* of at most the byte count limit the host set, each announced by an       *)
(* interrupt with its reason in nsector, and the interrupt of completion.   *)
(*                                                                         *)
(* The disc is in the drive from the start or not at all: the disk menu     *)
(* restarts the board after a change (src/src/diskui.c:376).  disk.c        *)
(* declares the callback with one parameter less than pc.c defines it with, *)
(* so that was_present of that insertion is any value.                      *)
(*                                                                         *)
(* Sectors, replies and limits are counted in words of 16 bits; replies of  *)
(* an odd or zero length, which a host may ask for, are left out.           *)
(***************************************************************************)
EXTENDS Integers, FiniteSetsExt

CONSTANTS DISC,      \* sectors of the disc
          SECTOR,    \* words in one, 1024 in the code
          LONGEST,   \* words of the longest reply, 256 in the code
          Limits,    \* byte count limits the host sets, in words
          UNREAD

VARIABLES present,   \* s->fp, and an image of at least a sector
          cdpos,     \* file position, in words
          sense,     \* sense_key
          changed,   \* cdrom_changed
          cdstatus,  \* status
          reason,    \* low bits of nsector: "cmd", "in" or "status"
          limit,     \* lcyl and hcyl
          cdxfer,    \* xfer_left, xfer_is_write and xfer_done
          cdbuf,     \* atapi_buf_len, in words
          cdstream,  \* cd_lba, cd_lba_end and cd_sector_size
          cdirq,     \* level of the interrupt line
          cdout,     \* last word of the disc the host read
          cdsrst,    \* soft reset held
          cdhost     \* phase; words of the part at hand, of the disc still to come,
                     \* and where those end

ASSUME CdSizes == /\ {DISC, SECTOR, LONGEST} \subseteq Nat \ {0} /\ LONGEST <= SECTOR
                  /\ Limits \subseteq Nat

cddrive == <<present, cdpos, sense, changed, cdstatus, reason, limit, cdxfer, cdbuf,
             cdstream, cdirq, cdout>>
cdvars == <<cddrive, cdsrst, cdhost>>

CdIdle == {"ready", "seek"}
Signature == SECTOR + 1   \* what the registers hold is no length of a part

CdInit ==
    /\ present \in BOOLEAN /\ changed \in (IF present THEN BOOLEAN ELSE {FALSE})
    /\ sense = IF changed THEN "attention" ELSE "none"
    /\ cdirq = IF present THEN 1 ELSE 0
    /\ cdpos = 0 /\ cdstatus = CdIdle /\ reason = "cmd" /\ limit = 0
    /\ cdxfer = [left |-> 0, write |-> FALSE, done |-> "stop"]
    /\ cdbuf = 0 /\ cdstream = [lba |-> 0, end |-> 0, size |-> 0]
    /\ cdout = UNREAD /\ cdsrst = FALSE
    /\ cdhost = [phase |-> "reset", part |-> 0, todo |-> 0, end |-> 0]

(***************************************************************************)
(* Replies and errors                                                      *)
(***************************************************************************)
CdStopped == [left |-> 0, write |-> FALSE, done |-> "stop"]

\* ide_atapi_cmd_ok
Good == /\ cdstatus' = CdIdle /\ reason' = "status" /\ cdirq' = 1 /\ cdxfer' = CdStopped
        /\ UNCHANGED <<cdpos, sense, limit, cdbuf, cdstream>>

\* ide_atapi_cmd_error
Fail(key) == /\ cdstatus' = {"ready", "err"} /\ reason' = "status" /\ cdirq' = 1
             /\ sense' = key /\ cdxfer' = CdStopped
             /\ UNCHANGED <<cdpos, limit, cdbuf, cdstream>>

\* ide_atapi_reply_start
Reply(size) ==
    /\ limit' = IF limit = 0 \/ limit > size THEN size ELSE limit
    /\ cdstatus' = CdIdle \cup {"drq"} /\ reason' = "in" /\ cdirq' = 1
    /\ cdxfer' = [left |-> size, write |-> FALSE, done |-> "stop"]
    /\ cdbuf' = size
    /\ UNCHANGED <<cdpos, cdstream>>

PartOf(l) == IF l = 0 \/ l > SECTOR THEN SECTOR ELSE l

\* ide_atapi_cmd_read_pio
ReadPio(lba, n) ==
    /\ cdpos' = lba * SECTOR
    /\ cdstream' = [lba |-> lba, end |-> lba + n, size |-> SECTOR]
    /\ cdbuf' = 0
    /\ limit' = PartOf(limit)
    /\ cdstatus' = CdIdle \cup {"drq"} /\ reason' = "in" /\ cdirq' = 1
    /\ cdxfer' = [left |-> n * SECTOR, write |-> FALSE, done |-> "stop"]
    /\ UNCHANGED sense

(***************************************************************************)
(* The packet commands: ide_atapi_cmd                                      *)
(***************************************************************************)
TestUnitReady ==
    /\ changed' = FALSE
    /\ \/ ~present /\ Fail("notready")
       \/ present /\ changed /\ Fail("attention")
       \/ present /\ ~changed /\ Good

\* only a unit attention is forgotten once told
RequestSense(size) ==
    /\ sense' = IF sense = "attention" THEN "none" ELSE sense
    /\ changed' = (changed /\ sense # "attention")
    /\ Reply(size)

\* READ (10) and READ (12); of no sector, just an answer
ReadBlocks(lba, n) ==
    /\ UNCHANGED changed
    /\ \/ ~present /\ Fail("notready")
       \/ present /\ n = 0 /\ Good
       \/ present /\ n > 0 /\ ReadPio(lba, n)

\* READ CD of no field, of user data or of more; nothing is asked of the count, so
\* that of no sector a data phase of no word is begun
ReadCd(lba, n, fields) ==
    /\ UNCHANGED changed
    /\ \/ ~present /\ Fail("notready")
       \/ present /\ fields = "none" /\ Good
       \/ present /\ fields = "user" /\ ReadPio(lba, n)
       \/ present /\ fields = "other" /\ Fail("illegal")

\* READ TOC and READ CAPACITY want a disc, INQUIRY, MODE SENSE and the like do not
Ask(needsDisc, size) ==
    /\ UNCHANGED changed
    /\ \/ needsDisc /\ ~present /\ Fail("notready")
       \/ (needsDisc => present) /\ Reply(size) /\ UNCHANGED sense

\* SEEK, START STOP UNIT, SET SPEED, MODE SELECT, PREVENT REMOVAL
AcceptPacket == UNCHANGED changed /\ Good

\* unknown commands, pages and formats
Refuse == UNCHANGED changed /\ Fail("illegal")

Spans == {s \in (0 .. DISC - 1) \X (0 .. DISC) : s[1] + s[2] <= DISC}

(***************************************************************************)
(* Command register and data port                                          *)
(***************************************************************************)
\* WIN_PACKETCMD, after the host has set the byte count limit
Packet(l) ==
    /\ limit' = l
    /\ cdxfer' = [left |-> 1, write |-> TRUE, done |-> "packet"]
    /\ cdstatus' = CdIdle \cup {"drq"} /\ reason' = "cmd" /\ cdirq' = 1
    /\ UNCHANGED <<present, cdpos, sense, changed, cdbuf, cdstream>>

\* WIN_PIDENTIFY
PacketIdentify ==
    /\ cdxfer' = [left |-> LONGEST, write |-> FALSE, done |-> "stop"]
    /\ cdstatus' = CdIdle \cup {"drq"} /\ cdirq' = 1 /\ cdbuf' = LONGEST
    /\ UNCHANGED <<present, cdpos, sense, changed, reason, limit, cdstream>>

\* WIN_DEVICE_RESET sets the signature in the registers
DeviceReset ==
    /\ reason' = "cmd" /\ limit' = Signature
    /\ cdstatus' = CdIdle /\ cdirq' = 1
    /\ UNCHANGED <<present, cdpos, sense, changed, cdxfer, cdbuf, cdstream>>

\* any other command aborts; IDENTIFY and READ leave the signature
Abort(signature) ==
    /\ \/ signature /\ reason' = "cmd" /\ limit' = Signature
       \/ ~signature /\ UNCHANGED <<reason, limit>>
    /\ cdstatus' = {"ready", "err"} /\ cdirq' = 1
    /\ UNCHANGED <<present, cdpos, sense, changed, cdxfer, cdbuf, cdstream>>

\* xfer_from_file
FromDisc == cdstream.lba < cdstream.end /\ cdbuf = 0

\* xfer_advance and ide_transfer_stop on the way in
PacketAdvanced(k) ==
    LET left == cdxfer.left - k
    IN  /\ cdxfer' = IF left = 0 THEN CdStopped ELSE [cdxfer EXCEPT !.left = left]
        /\ \/ /\ left = 0
              /\ cdbuf' = 0 /\ reason' = "status" /\ cdirq' = 1
              /\ cdstatus' = cdstatus \ {"drq"}
              /\ UNCHANGED <<limit, cdstream>>
           \/ /\ left > 0 /\ cdstream.size > 0 /\ left % SECTOR = 0
              /\ cdstream' = [cdstream EXCEPT !.lba = @ + 1]
              /\ limit' = PartOf(limit)
              /\ reason' = "in" /\ cdirq' = 1 /\ cdstatus' = CdIdle \cup {"drq"}
              /\ UNCHANGED cdbuf
           \/ /\ left > 0 /\ (cdstream.size = 0 \/ left % SECTOR # 0)
              /\ UNCHANGED <<cdbuf, reason, cdirq, cdstatus, limit, cdstream>>

\* ide_data_readw and the wider ones
PacketRead(k) ==
    /\ ~cdxfer.write /\ k <= cdxfer.left
    /\ \/ FromDisc /\ cdout' = cdpos + k - 1 /\ cdpos' = cdpos + k
       \/ ~FromDisc /\ UNCHANGED <<cdout, cdpos>>
    /\ PacketAdvanced(k)
    /\ UNCHANGED <<present, sense, changed>>

(***************************************************************************)
(* The host                                                                *)
(***************************************************************************)
Goes(phase, part, todo, end) ==
    cdhost' = [phase |-> phase, part |-> part, todo |-> todo, end |-> end]

GivePacket(l) ==
    /\ cdhost.phase = "idle" /\ Packet(l) /\ cdout' = UNREAD
    /\ Goes("poll", 0, 0, 0) /\ UNCHANGED cdsrst

GiveCommand ==
    /\ cdhost.phase = "idle" /\ cdout' = UNREAD /\ UNCHANGED cdsrst
    /\ \/ PacketIdentify /\ Goes("await", LONGEST, 0, 0)
       \/ /\ DeviceReset \/ \E s \in BOOLEAN : Abort(s)
          /\ Goes("await", 0, 0, 0)

\* it polls for DRQ through port 7, which lowers the line, and writes the packet
SendPacket ==
    /\ cdhost.phase = "poll"
    /\ \/ /\ \/ TestUnitReady \/ AcceptPacket \/ Refuse
             \/ \E size \in 1 .. LONGEST : \/ RequestSense(size)
                                           \/ \E d \in BOOLEAN : Ask(d, size)
          /\ Goes("await", 0, 0, 0)
       \/ \E s \in Spans, fields \in {"none", "user", "other"} :
             /\ \/ ReadCd(s[1], s[2], fields)
                \/ fields = "user" /\ ReadBlocks(s[1], s[2])
             /\ IF present /\ fields = "user" /\ s[2] > 0
                THEN Goes("await", 0, s[2] * SECTOR, (s[1] + s[2]) * SECTOR)
                ELSE Goes("await", 0, 0, 0)
    /\ UNCHANGED <<present, cdout, cdsrst>>

\* an interrupt: the host reads the status, and the count if there are data
CdInterrupt ==
    /\ cdhost.phase = "await" /\ cdirq = 1
    /\ cdirq' = 0
    /\ IF "drq" \in cdstatus
       THEN cdhost' = [cdhost EXCEPT !.phase = "data",
                                     !.part = IF @ = 0 THEN limit ELSE @]
       ELSE cdhost' = [cdhost EXCEPT !.phase = "idle"]
    /\ UNCHANGED <<present, cdpos, sense, changed, cdstatus, reason, limit, cdxfer, cdbuf,
                   cdstream, cdout, cdsrst>>

MovePart(k) ==
    /\ cdhost.phase = "data" /\ k <= cdhost.part
    /\ PacketRead(k)
    /\ LET todo == IF cdhost.todo = 0 THEN 0 ELSE cdhost.todo - k
           end == IF todo = 0 THEN 0 ELSE cdhost.end
       IN  Goes(IF k < cdhost.part THEN "data" ELSE "await", cdhost.part - k, todo, end)
    /\ UNCHANGED cdsrst

\* The part of a READ CD of no sector: read in words, the data port hands over
\* nothing and does nothing; a string read ends the data phase.
MoveNothing ==
    /\ cdhost.phase = "data" /\ ~cdxfer.write /\ cdxfer.left = 0
    /\ Goes("await", 0, 0, 0)
    /\ \/ UNCHANGED cddrive
       \/ PacketAdvanced(0) /\ UNCHANGED <<present, cdpos, sense, changed, cdout>>
    /\ UNCHANGED cdsrst

\* soft reset, at any moment; the registers then hold the signature
CdResetOn ==
    /\ ~cdsrst /\ cdsrst' = TRUE /\ cdstatus' = {"busy", "seek"}
    /\ Goes("reset", 0, 0, 0)
    /\ UNCHANGED <<present, cdpos, sense, changed, reason, limit, cdxfer, cdbuf, cdstream,
                   cdirq, cdout>>
CdResetOff ==
    /\ cdsrst /\ cdsrst' = FALSE /\ cdstatus' = CdIdle
    /\ reason' = "cmd" /\ limit' = Signature
    /\ UNCHANGED <<present, cdpos, sense, changed, cdxfer, cdbuf, cdstream, cdirq, cdout, cdhost>>

CdSettle ==
    /\ cdhost.phase = "reset" /\ ~cdsrst
    /\ cdirq' = 0 /\ Goes("idle", 0, 0, 0)
    /\ UNCHANGED <<present, cdpos, sense, changed, cdstatus, reason, limit, cdxfer, cdbuf,
                   cdstream, cdout, cdsrst>>

CdNext ==
    \/ \E l \in Limits : GivePacket(l)
    \/ GiveCommand \/ SendPacket \/ CdInterrupt
    \/ \E k \in 1 .. DISC * SECTOR : MovePart(k)
    \/ MoveNothing \/ CdResetOn \/ CdResetOff \/ CdSettle

CdSpec == CdInit /\ [][CdNext]_cdvars

(***************************************************************************)
(* Properties                                                              *)
(***************************************************************************)
CdTypeOK ==
    /\ present \in BOOLEAN /\ changed \in BOOLEAN /\ cdsrst \in BOOLEAN
    /\ sense \in {"none", "notready", "illegal", "attention"}
    /\ cdstatus \subseteq {"busy", "ready", "seek", "drq", "err"}
    /\ reason \in {"cmd", "in", "status"} /\ limit \in Nat /\ cdpos \in Nat
    /\ cdxfer \in [left : Nat, write : BOOLEAN, done : {"stop", "packet"}]
    /\ cdbuf \in 0 .. LONGEST /\ cdstream \in [lba : Nat, end : Nat, size : {0, SECTOR}]
    /\ cdirq \in 0 .. 1 /\ cdout \in 0 .. DISC * SECTOR - 1 \cup {UNREAD}
    /\ cdhost \in [phase : {"idle", "poll", "await", "data", "reset"},
                 part : Nat, todo : Nat, end : Nat]

\* the data phase of a READ CD of no sector
Hollow == /\ "drq" \in cdstatus /\ ~cdxfer.write /\ cdxfer.left = 0 /\ cdhost.todo = 0
          /\ cdstream.lba = cdstream.end /\ cdstream.size = SECTOR

\* A host that waits for interrupts is never left waiting: each part of the data
\* and the end of each command is announced, the part is there when the host
\* comes for it, and the drive ends the data phase with the last word and not
\* before (xfer_advance, src/src/ide.c:1496-1532).  One command is excepted: a
\* READ CD of no sector announces a part that is not there, and if the host reads
\* it in words its end is announced to nobody (src/src/ide.c:1063-1064, 1555).
CdInStep ==
    /\ cdhost.phase = "await" => /\ cdirq = 1 \/ Hollow
                                 /\ cdhost.todo > 0 => "drq" \in cdstatus
    /\ cdhost.phase = "poll" => "drq" \in cdstatus /\ reason = "cmd" /\ cdxfer.write
    /\ cdhost.phase = "data" => /\ "drq" \in cdstatus /\ ~cdxfer.write
                                /\ cdxfer.left >= cdhost.part \/ Hollow
                                /\ cdhost.todo > 0 => cdxfer.left = cdhost.todo
    /\ cdhost.phase = "idle" => cdirq = 0 /\ cdhost.todo = 0 /\ "drq" \notin cdstatus

\* what the host still expects of the sectors it named
CdJob == IF cdhost.todo > 0
         THEN [op |-> "read", at |-> cdhost.end - cdhost.todo, end |-> cdhost.end]
         ELSE [op |-> "none", at |-> 0, end |-> 0]

CdStream == INSTANCE SectorStream
            WITH medium <- [w \in 0 .. DISC * SECTOR - 1 |-> w], job <- CdJob,
               Runs <- Spans, WORDS <- SECTOR, FRESH <- UNREAD, out <- cdout

\* A READ hands over the words of the sectors it names, in order, whatever
\* replies, resets and identifications came before it and left behind.
CdStreams == CdStream!StreamSpec
=============================================================================
