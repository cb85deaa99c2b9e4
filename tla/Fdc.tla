-------------------------------- MODULE Fdc --------------------------------
(***************************************************************************)
(* The floppy disk controller (src/src/fdd.c) and the driver of a guest: it  *)
(* resets the controller, seeks, and reads and writes runs of sectors by    *)
(* DMA, each time waiting for IRQ6 and asking what it was about.  The       *)
(* interrupt comes two ticks after the command is done; the driver may poll  *)
(* instead of waiting, give up at any moment and reset, and lose the disk   *)
(* to the disk menu between two steps.                                      *)
(*                                                                         *)
(* A sector is one word, and transfers are of whole sectors.  Two commands   *)
(* at once on two drives, drives other than the first, and a disk of other  *)
(* contents put in between are left out, and so are the registers that      *)
(* nothing reads (SPECIFY, CONFIGURE, LOCK, DSR without its reset).          *)
(***************************************************************************)
EXTENDS Integers

CONSTANTS CYLS, SECTORS,   \* geometry; there are two heads
          FRESH,           \* what the driver writes
          Asked,           \* runs the driver asks for: first sector and length
          SWAPS            \* bound: times the disk is taken out or put back

VARIABLES image,     \* contents of the disk, by sector
          inserted,  \* fdd_is_inserted
          stage,     \* phase
          result,    \* what the result bytes tell
          resets,    \* reset_sensei
          told,      \* int_result_valid and pending_st0: what SENSE INTERRUPT tells
          timer,     \* irq_pending and irq_delay: ticks to the interrupt, 0 for none
          enabled,   \* DOR_NRESET and DOR_DMAEN
          line,      \* IRQ6, and the edge of it the interrupt controller latches
          latched,
          dma,       \* transfer in progress
          taken,     \* last sector handed to the guest
          driver,    \* phase, what it waits for, and resets still to ask about
          swaps

ASSUME FdSizes == {CYLS, SECTORS} \subseteq Nat \ {0} /\ SWAPS \in Nat
ASSUME FdOnDisk == \A r \in Asked : /\ r \in Nat \X (Nat \ {0})
                                   /\ r[1] + r[2] <= CYLS * 2 * SECTORS

fvars == <<image, inserted, stage, result, resets, told, timer, enabled, line, latched,
           dma, taken, driver, swaps>>

Sector == 0 .. CYLS * 2 * SECTORS - 1
Ports == <<enabled, line, latched>>
Media == <<image, inserted, taken, swaps>>

NoDma == [op |-> "none", at |-> [cyl |-> 0, head |-> 0, sect |-> 1], n |-> 0]
Nothing == "invalid"

FInit ==
    /\ image = [s \in Sector |-> s] /\ inserted = TRUE /\ stage = "cmd"
    /\ result = Nothing /\ resets = 0 /\ told = Nothing /\ timer = 0 /\ enabled = TRUE
    /\ line = 0 /\ latched = 0 /\ dma = NoDma /\ taken = FRESH
    /\ driver = [phase |-> "idle", for |-> "none", left |-> 0] /\ swaps = 0

(***************************************************************************)
(* Sectors in the order of a transfer                                      *)
(***************************************************************************)
\* fdc_chs_to_offset
OffsetOf(c) == (c.cyl * 2 + c.head) * SECTORS + c.sect - 1
ChsOf(s) == [cyl |-> s \div (2 * SECTORS), head |-> (s \div SECTORS) % 2,
             sect |-> (s % SECTORS) + 1]

\* the sector after c: the other head after the last one (the driver's EOT is the
\* last of the track), then the next cylinder
After(c) ==
    IF c.sect + 1 > SECTORS
    THEN [cyl |-> c.cyl + c.head, head |-> 1 - c.head, sect |-> 1]
    ELSE [c EXCEPT !.sect = @ + 1]

Path(t) == LET at[i \in 0 .. t.n] == IF i = 0 THEN t.at ELSE After(at[i - 1])
           IN  at
Covered(t) == {OffsetOf(Path(t)[i]) : i \in 0 .. t.n - 1}

(***************************************************************************)
(* The controller                                                          *)
(***************************************************************************)
\* fdc_schedule_irq
Schedule(what) == told' = what /\ timer' = 2

\* fdc_finish_rw
FinishRw(what) == stage' = "result" /\ result' = what /\ Schedule(what)

\* fdc_reset; a reset by DOR bit 2 rising is told four times
Reset(software) ==
    /\ stage' = "cmd" /\ told' = Nothing /\ dma' = NoDma
    /\ resets' = IF software THEN 4 ELSE 0
    /\ timer' = IF software THEN 2 ELSE 0

\* commands without a result
Specify == stage' = "cmd" /\ UNCHANGED <<result, resets, told, timer, dma, Ports>>

\* commands with a result and no interrupt, and invalid ones
Answer == stage' = "result" /\ result' = "answer"
          /\ UNCHANGED <<resets, told, timer, dma, Ports>>

BadSenseInterrupt ==
    /\ stage' = "result"
    /\ result' = IF resets > 0 THEN "reset" ELSE told
    /\ resets' = 0
    /\ told' = IF resets > 0 THEN told ELSE Nothing
    /\ UNCHANGED <<timer, dma, enabled, latched, line>>
SenseInterrupt ==
    /\ stage' = "result"
    /\ \/ /\ resets > 0
          /\ result' = "reset" /\ resets' = resets - 1
          /\ timer' = IF resets > 1 THEN 2 ELSE timer
          /\ line' = IF resets > 1 THEN line ELSE 0
          /\ UNCHANGED told
       \/ /\ resets = 0 /\ told # Nothing
          /\ result' = told /\ told' = Nothing /\ line' = 0
          /\ UNCHANGED <<resets, timer>>
       \/ /\ resets = 0 /\ told = Nothing
          /\ result' = Nothing /\ UNCHANGED <<resets, told, timer, line>>
    /\ UNCHANGED <<dma, enabled, latched>>

\* SEEK and RECALIBRATE
Seek == stage' = "cmd" /\ Schedule("seek") /\ UNCHANGED <<result, resets, dma, Ports>>

\* READ DATA, WRITE DATA: fdc_start_dma
StartDma(t) ==
    /\ \/ /\ inserted /\ OffsetOf(t.at) \in Sector
          /\ stage' = "exec" /\ dma' = t /\ UNCHANGED <<result, told, timer>>
       \/ /\ ~inserted \/ OffsetOf(t.at) \notin Sector
          /\ FinishRw("fail") /\ UNCHANGED dma
    /\ UNCHANGED <<resets, Ports>>

\* READ ID, and FORMAT TRACK of no disk, answer and interrupt
Report == FinishRw(IF inserted THEN "rw" ELSE "fail")
          /\ UNCHANGED <<resets, dma, Ports>>

\* fdc_dma_handler, called by i8257_dma_run for the whole transfer
DmaRun ==
    /\ stage = "exec"
    /\ \/ ~inserted /\ FinishRw("fail") /\ UNCHANGED <<image, taken>>
       \/ /\ inserted /\ FinishRw("rw")
          /\ \/ /\ dma.op = "write"
                /\ image' = [s \in Sector |-> IF s \in Covered(dma) THEN FRESH ELSE image[s]]
                /\ UNCHANGED taken
             \/ /\ dma.op = "read"
                /\ taken' = image[OffsetOf(Path(dma)[dma.n - 1])]
                /\ UNCHANGED image
    /\ dma' = NoDma
    /\ UNCHANGED <<inserted, resets, Ports, driver, swaps>>

\* fdc_tick and fdc_raise_irq
Tick ==
    /\ timer > 0 /\ timer' = timer - 1
    /\ IF timer = 1 /\ enabled
       THEN line' = 1 /\ latched' = IF line = 0 THEN 1 ELSE latched
       ELSE UNCHANGED <<line, latched>>
    /\ UNCHANGED <<image, inserted, stage, result, resets, told, enabled, dma, taken,
                   driver, swaps>>

BadReadResult == stage' = "cmd" /\ timer' = 0 /\ UNCHANGED line
\* the data port, to the last result byte: an interrupt not yet raised is dropped
ReadResult == stage' = "cmd" /\ timer' = 0 /\ line' = 0

\* the disk menu
Swap == /\ swaps < SWAPS /\ swaps' = swaps + 1
        /\ inserted' = ~inserted
        /\ UNCHANGED <<image, stage, result, resets, told, timer, Ports, dma, taken, driver>>

(***************************************************************************)
(* The driver                                                              *)
(***************************************************************************)
Does(phase, for, left) == driver' = [phase |-> phase, for |-> for, left |-> left]

Transfers == {[op |-> op, at |-> ChsOf(r[1]), n |-> r[2]] : op \in {"read", "write"}, r \in Asked}
Outside == [op |-> "read", at |-> [cyl |-> CYLS, head |-> 0, sect |-> 1], n |-> 1]

Give ==
    /\ driver.phase = "idle" /\ enabled
    /\ \/ Specify /\ UNCHANGED driver
       \/ Answer /\ Does("read", "answer", 0)
       \/ Seek /\ Does("wait", "seek", 1)
       \/ Report /\ Does("wait", "rw", 0)
       \/ \E t \in Transfers \cup {Outside} : StartDma(t) /\ Does("wait", "rw", 0)
    /\ taken' = FRESH
    /\ UNCHANGED <<image, inserted, swaps>>

\* IRQ6; one the driver does not expect is only acknowledged
Interrupt ==
    /\ latched = 1 /\ latched' = 0
    /\ driver' = IF driver.phase = "wait" THEN [driver EXCEPT !.phase = "serve"] ELSE driver
    /\ UNCHANGED <<Media, stage, result, resets, told, timer, enabled, line, dma>>

\* the interrupt was of a reset or seek: the driver asks
Sense ==
    /\ driver.phase = "serve" /\ driver.for # "rw"
    /\ SenseInterrupt /\ Does("read", driver.for, driver.left - 1)
    /\ UNCHANGED Media

\* or of a transfer: it waits on if that is not done, by MSR
LookMsr ==
    /\ driver.phase = "serve" /\ driver.for = "rw"
    /\ driver' = [driver EXCEPT !.phase = IF stage = "result" THEN "read" ELSE "wait"]
    /\ UNCHANGED <<Media, stage, result, resets, told, timer, Ports, dma>>

\* it does not wait for the interrupt, but polls MSR
PollMsr ==
    /\ driver.phase = "wait" /\ driver.for = "rw" /\ stage = "result"
    /\ driver' = [driver EXCEPT !.phase = "read"]
    /\ UNCHANGED <<Media, stage, result, resets, told, timer, Ports, dma>>

Read ==
    /\ driver.phase = "read"
    /\ ReadResult
    /\ IF driver.left > 0 THEN Does("serve", driver.for, driver.left)
                          ELSE Does("idle", "none", 0)
    /\ UNCHANGED <<Media, result, resets, told, enabled, latched, dma>>

\* it gives up, or starts: DOR bit 2 low, then high with interrupts on
ResetOn ==
    /\ enabled /\ enabled' = FALSE
    /\ Reset(FALSE) /\ line' = 0 /\ Does("off", "none", 0)
    /\ UNCHANGED <<Media, result, latched>>
ResetOff ==
    /\ ~enabled /\ enabled' = TRUE
    /\ Reset(TRUE) /\ Does("wait", "reset", 4)
    /\ UNCHANGED <<Media, result, line, latched>>

FNext == Give \/ Interrupt \/ Sense \/ LookMsr \/ PollMsr \/ Read \/ ResetOn \/ ResetOff
         \/ DmaRun \/ Tick \/ Swap

\* pc_step runs the DMA controller, whose channel the driver has unmasked, and
\* fdc_tick
FFairness == WF_fvars(DmaRun) /\ WF_fvars(Tick) /\ WF_fvars(Interrupt)

FSpec == FInit /\ [][FNext]_fvars /\ FFairness

(***************************************************************************)
(* Properties                                                              *)
(***************************************************************************)
Says == {"invalid", "answer", "reset", "seek", "rw", "fail"}
FTypeOK ==
    /\ image \in [Sector -> Sector \cup {FRESH}] /\ inserted \in BOOLEAN
    /\ stage \in {"cmd", "exec", "result"} /\ result \in Says /\ told \in Says
    /\ resets \in 0 .. 4 /\ timer \in 0 .. 2 /\ enabled \in BOOLEAN
    /\ line \in 0 .. 1 /\ latched \in 0 .. 1
    /\ dma \in Transfers \cup {NoDma, Outside} /\ taken \in Sector \cup {FRESH}
    /\ driver \in [phase : {"idle", "wait", "serve", "read", "off"},
                   for : {"none", "answer", "reset", "seek", "rw"}, left : 0 .. 4]
    /\ swaps \in 0 .. SWAPS

\* An interrupt the driver waits for is latched, or will be: the transfer it is
\* of runs, or the ticks to it are counted with the line down, so that it makes
\* an edge (the result phase lowers the line for that, src/src/fdd.c:868-881).
WaitEnds ==
    driver.phase = "wait" => \/ latched = 1
                             \/ stage = "exec"
                             \/ timer > 0 /\ line = 0 /\ enabled

\* What a driver is told is what it waits for: four times a reset, the seek it
\* gave, the end of its transfer; never what is left of an earlier command
\* (SENSE INTERRUPT STATUS, src/src/fdd.c:577-609).
ToldOfItsOwn ==
    driver.phase = "read" => /\ stage = "result"
                             /\ driver.for = "rw" => result \in {"rw", "fail"}
                             /\ driver.for # "rw" => result = driver.for

\* Driver and controller never lose step.
DriverInStep == WaitEnds /\ ToldOfItsOwn

\* A driver that waits is served.
Served == []<>(driver.phase # "wait")

Job == IF stage = "exec" THEN [op |-> dma.op, at |-> OffsetOf(dma.at),
                               end |-> OffsetOf(dma.at) + dma.n]
       ELSE [op |-> "none", at |-> 0, end |-> 0]
Floppy == INSTANCE SectorStream
          WITH WORDS <- 1, medium <- image, job <- Job, out <- taken,
               Runs <- Asked

\* A transfer moves the sectors of its run in order, across heads and cylinders.
FloppyStreams == Floppy!StreamSpec
=============================================================================
