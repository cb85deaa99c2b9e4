-------------------------------- MODULE SbDma --------------------------------
(***************************************************************************)
(* Sound Blaster block transfers (src/src/sb16.c) over one channel of the   *)
(* 8257 DMA controller (src/src/i8257.c), on the two cores of the RP2350.   *)
(*                                                                         *)
(* Core 0 runs pc_step: first the devices (i8257_dma_run, then sb16_poll),  *)
(* then a slice of guest instructions, which reach the card and the         *)
(* controller through port handlers.  Core 1 runs sb16_getsample from the   *)
(* 44.1 kHz callback at any moment.  The two share the ring indices         *)
(* audio_p and audio_q, dma_running and the controller's status register    *)
(* with no lock.  A core-0 handler is one step here; core 1's sample is     *)
(* split at each access of a word core 0 also writes.                       *)
(*                                                                         *)
(* A sample is one byte (8-bit mono).  Time is the two booleans late and    *)
(* auxLate: the 250 ms fallback and the 0x80 deadline have passed.          *)
(***************************************************************************)
EXTENDS Integers, FiniteSetsExt

CONSTANTS
    W,          \* the ring indices count modulo W (2^32 in the code)
    RING,       \* AUDIO_BUF_LEN, 4096 in the code
    LeadAuto,   \* sb16_lead_bytes of an auto-init transfer
    LeadSingle, \* sb16_lead_bytes of a single-cycle transfer
    STEP,       \* frames the sample callback plays in PHASES calls
    HOLD,       \* bound on what is copied past a sample in the making (Prompt)
    PHASES,     \* resolution of its phase accumulator (65536 in the code)
    Sizes,      \* block sizes the guest programs (commands 0x14 and 0x48)
    Lengths,    \* lengths it programs into the DMA controller
    Commands    \* what the guest's driver does, of CommandNames

CommandNames == {"single", "auto", "exit", "halt", "continue", "reset",
                 "silence", "test", "poll", "status", "cut"}

ASSUME RingAssumption == /\ W \in Nat /\ RING \in Nat \ {0}
                         /\ W > 2 * RING
ASSUME LeadAssumption == /\ LeadAuto \in 1 .. RING \div 2
                         /\ LeadSingle \in 1 .. LeadAuto
ASSUME HoldAssumption == /\ HOLD \in Nat /\ HOLD >= LeadAuto
                         /\ W > 2 * (HOLD + LeadAuto)
\* the shortest look-ahead, 64 bytes, is longer than what one sample plays
ASSUME RateAssumption == /\ PHASES \in Nat \ {0} /\ STEP \in Nat \ {0}
                         /\ STEP <= PHASES * LeadSingle
ASSUME GuestAssumption == /\ Sizes \subseteq Nat \ {0}
                          /\ Lengths \subseteq Nat \ {0}
                          /\ Commands \subseteq CommandNames

VARIABLES
    dsp,        \* SB16State: the transfer, the status bit, the owed interrupts
    dma,        \* the controller's channel and its two status bits
    q,          \* audio_q, where the copy has reached
    p,          \* audio_p, where playback has reached
    phase,      \* phase accumulator of sb16_getsample
    line,       \* level of the card's line into the 8259 (last_irr)
    irr,        \* the edge the 8259 latched for it
    core0,      \* where pc_step is
    core1,      \* where sb16_getsample is, with what it has read
    drv         \* the guest's driver

vars == <<dsp, dma, q, p, phase, line, irr, core0, core1, drv>>
consumer == <<phase, core1>>
pin == <<line, irr>>

Index == 0 .. W - 1
\* Operators named Bad... are slips the code could contain, one line away from
\* the definition that follows them; each breaks the property it is listed
\* with in PROJECT.json.

Forward(a, n) == (a + n) % W                        \* unsigned addition
Behind(a, b) == (a - b) % W                         \* unsigned a - b
SignedGap(a, b) == LET d == Behind(a, b)            \* (int)(a - b)
                   IN  IF 2 * d >= W THEN d - W ELSE d
Queued == SignedGap(q, p)

Lead(auto) == IF auto THEN LeadAuto ELSE LeadSingle

-----------------------------------------------------------------------------
(* The transfer: a machine state is [dsp, dma, q], so that one handler may  *)
(* chain several of these.                                                 *)

\* control(s, hold): dma_running, active_out and the request line together.
\* Releasing calls i8257_dma_run, which finds this channel idle or is refused
\* by its own reentrancy guard.
Control(m, hold) == [m EXCEPT !.dsp.running = hold, !.dma.dreq = hold]

\* write_audio: room in the ring bounds what is taken of copy; a full ring
\* drops the request
Room(m) == LET n == RING - Behind(m.q, p) IN IF n < 0 THEN 0 ELSE n

WriteAudio(m, copy) ==
    LET taken == Min({copy, Room(m)})
    IN  [m EXCEPT !.q = Forward(@, taken),
                  !.dma.now = @ + taken,
                  !.dsp.left = @ - taken,
                  !.dma.dreq = @ /\ taken = copy]

\* the end of a block: status bit now, interrupt owed to the play pointer
CompleteBlock(m) ==
    LET done == [m EXCEPT !.dsp.status = TRUE, !.dsp.atq = m.q,
                          !.dsp.await = TRUE, !.dsp.late = FALSE,
                          !.dsp.left = m.dsp.size]
    IN  IF m.dsp.auto THEN done ELSE Control(done, FALSE)

\* the position wraps one byte early
BadWrapDma(m) ==
    LET free  == Lead(m.dsp.auto) - SignedGap(m.q, p)
        start == [m EXCEPT !.dma.now = IF @ >= m.dma.len - 1 THEN 0 ELSE @]
        moved == WriteAudio(start, Min({free, start.dsp.left}))
    IN  IF m.dsp.size <= 0 THEN m
        ELSE IF free <= 0 THEN start
        ELSE IF moved.dsp.left > 0 THEN moved
        ELSE CompleteBlock(moved)

\* SB_read_DMA; the new position is dma.now.  A position left at the end by
\* the previous call wraps here, even when nothing is copied.
ReadDma(m) ==
    LET free  == Lead(m.dsp.auto) - SignedGap(m.q, p)
        start == [m EXCEPT !.dma.now = IF @ >= m.dma.len THEN 0 ELSE @,
                           !.dsp.left = IF @ < 0 THEN m.dsp.size ELSE @]
        moved == WriteAudio(start, Min({free, start.dsp.left}))
        home  == [moved EXCEPT !.dma.now = IF @ = 0 THEN 0 ELSE ((@ - 1) % m.dma.len) + 1]
    IN  IF m.dsp.size <= 0 THEN m
        ELSE IF free <= 0 THEN start
        ELSE IF home.dsp.left > 0 THEN home
        ELSE CompleteBlock(home)

\* i8257_channel_run: terminal count, and the auto-init reload
ChannelRun(m) ==
    LET r == ReadDma(m)
    IN  IF r.dma.now # r.dma.len THEN r
        ELSE [r EXCEPT !.dma.tc = TRUE, !.dma.now = IF r.dma.reload THEN 0 ELSE @]

\* i8257_dma_run, for this channel
DmaRun(m) == IF ~m.dma.mask /\ m.dma.dreq THEN ChannelRun(m) ELSE m

Now == [dsp |-> dsp, dma |-> dma, q |-> q]
Becomes(m) == dsp' = m.dsp /\ dma' = m.dma /\ q' = m.q

\* pic_set_irq1 on the card's pin: a rising edge latches a request
SetLine(level) ==
    /\ line' = level
    /\ irr' = (irr \/ (level /\ ~line))

-----------------------------------------------------------------------------
(* Core 0: the devices of pc_step. *)

RunDevices ==
    /\ core0 = "devices"
    /\ Becomes(DmaRun(Now))
    /\ core0' = "poll"
    /\ UNCHANGED <<p, consumer, pin, drv>>

\* the deadline raises the line without its status bit, and the fallback
\* gives the block interrupt up instead of raising it
BadPoll ==
    LET block == dsp.await /\ SignedGap(p, dsp.atq) >= 0
        aux   == dsp.aux /\ dsp.auxLate
    IN  /\ core0 = "poll"
        /\ core0' = "guest"
        /\ dsp' = [dsp EXCEPT !.await = @ /\ ~block /\ ~dsp.late, !.late = FALSE,
                              !.aux = @ /\ ~aux, !.auxLate = @ /\ ~aux]
        /\ IF block \/ aux THEN SetLine(TRUE) ELSE UNCHANGED pin
        /\ UNCHANGED <<dma, q, p, consumer, drv>>

\* sb16_poll.  The block interrupt and the deadline of 0x80 may both be due.
Poll ==
    LET block == dsp.await /\ (SignedGap(p, dsp.atq) >= 0 \/ dsp.late)
        aux   == dsp.aux /\ dsp.auxLate
    IN  /\ core0 = "poll"
        /\ core0' = "guest"
        /\ dsp' = [dsp EXCEPT !.await = @ /\ ~block, !.late = @ /\ ~block,
                              !.aux = @ /\ ~aux, !.auxLate = @ /\ ~aux,
                              !.status = @ \/ aux]
        /\ IF block \/ aux THEN SetLine(TRUE) ELSE UNCHANGED pin
        /\ UNCHANGED <<dma, q, p, consumer, drv>>

\* cpui386_step returns and pc_step is entered again
EndSlice ==
    /\ core0 = "guest"
    /\ core0' = "devices"
    /\ UNCHANGED <<dsp, dma, q, p, consumer, pin, drv>>

\* time_us_32 passes the 250 ms fallback; it passes the deadline of 0x80
FallbackExpires ==
    /\ dsp.await /\ ~dsp.late
    /\ dsp' = [dsp EXCEPT !.late = TRUE]
    /\ UNCHANGED <<dma, q, p, consumer, pin, core0, drv>>

SilenceExpires ==
    /\ dsp.aux /\ ~dsp.auxLate
    /\ dsp' = [dsp EXCEPT !.auxLate = TRUE]
    /\ UNCHANGED <<dma, q, p, consumer, pin, core0, drv>>

-----------------------------------------------------------------------------
Idle == [pc |-> "idle", p |-> 0, advance |-> 0, tc |-> FALSE]

(* Core 1: sb16_getsample.  audio_p is loaded, advanced and stored back; the *)
(* compiler may use the load that measured the queue or a fresh one.         *)

BeginSample ==
    /\ core1.pc = "idle"
    /\ dsp.running \/ q # p
    /\ IF Behind(q, p) > RING
         THEN p' = q /\ UNCHANGED consumer
         ELSE /\ core1' = [core1 EXCEPT !.pc = "play", !.p = p,
                                        !.advance = Min({(phase + STEP) \div PHASES,
                                                         Behind(q, p)})]
              /\ phase' = (phase + STEP) % PHASES
              /\ UNCHANGED p
    /\ UNCHANGED <<dsp, dma, q, pin, core0, drv>>

AdvancePlay ==
    /\ core1.pc = "play"
    /\ \E from \in {core1.p, p} : p' = Forward(from, core1.advance)
    /\ core1' = [Idle EXCEPT !.pc = "check"]
    /\ UNCHANGED <<dsp, dma, q, phase, pin, core0, drv>>

\* "if (s->dma_running)": what it reads here is acted on two steps later
CheckRunning ==
    /\ core1.pc = "check"
    /\ core1' = IF dsp.running THEN [Idle EXCEPT !.pc = "load"] ELSE Idle
    /\ UNCHANGED <<dsp, dma, q, p, phase, pin, core0, drv>>

\* i8257_dma_hold_DREQ: d->status |= ..., a load and a store
LoadStatus ==
    /\ core1.pc = "load"
    /\ core1' = [core1 EXCEPT !.pc = "store", !.tc = dma.tc]
    /\ UNCHANGED <<dsp, dma, q, p, phase, pin, core0, drv>>

StoreStatus ==
    /\ core1.pc = "store"
    /\ dma' = [dma EXCEPT !.dreq = TRUE, !.tc = core1.tc]
    /\ core1' = Idle
    /\ UNCHANGED <<dsp, q, p, phase, pin, core0, drv>>

-----------------------------------------------------------------------------
(* The guest: port writes and reads of its driver, each one handler of the   *)
(* card or of the DMA controller.  drv.at says whether the driver's handler  *)
(* is running, drv.waiting that a block was started and its interrupt not    *)
(* yet taken, drv.armed that a command came after the last reset.            *)

Does(name) == core0 = "guest" /\ name \in Commands /\ UNCHANGED <<core0, consumer>>

\* the driver starts a block when none is under way, in its handler only
\* after the acknowledge
CanStart == drv.at # "isr" /\ ~drv.waiting /\ ~dsp.running

\* or cuts an auto-init transfer short with a single-cycle block
CanCut == "cut" \in Commands /\ drv.at # "isr" /\ dsp.auto

\* Bound: a sample is not held up through so many of these that the copy is more
\* than HOLD past the play pointer it has read (in the code nothing bounds it;
\* the indices wrap at 2^32).
Prompt == core1.pc = "play" => Behind(q, core1.p) <= HOLD

\* mask the channel, write mode, base and count: i8257_init_chan rewinds it
ProgramDma(len, reload) ==
    /\ core0 = "guest" /\ CanStart
    /\ dma' = [dma EXCEPT !.mask = TRUE, !.now = 0, !.len = len, !.reload = reload]
    /\ UNCHANGED <<dsp, q, p, consumer, pin, core0, drv>>

\* the single-mask write runs the channel at once
UnmaskDma ==
    /\ core0 = "guest" /\ dma.mask
    /\ Becomes(DmaRun([Now EXCEPT !.dma.mask = FALSE]))
    /\ UNCHANGED <<p, consumer, pin, core0, drv>>

\* the whole queue is dropped, not what is beyond the lead
BadStartSingle(n) ==
    /\ Does("single") /\ (CanStart \/ CanCut) /\ Prompt /\ ~dma.mask
    /\ Becomes(Control([Now EXCEPT !.dsp.size = n, !.dsp.left = n, !.dsp.auto = FALSE], TRUE))
    /\ p' = q
    /\ drv' = [drv EXCEPT !.waiting = TRUE, !.armed = TRUE]
    /\ UNCHANGED pin

\* command 0x14, dma_cmd8(s, 0, n): drop what is queued beyond the lead
StartSingle(n) ==
    /\ Does("single") /\ (CanStart \/ CanCut) /\ Prompt /\ ~dma.mask
    /\ Becomes(Control([Now EXCEPT !.dsp.size = n, !.dsp.left = n, !.dsp.auto = FALSE], TRUE))
    /\ p' = IF Queued > LeadSingle THEN Behind(q, LeadSingle) ELSE p
    /\ drv' = [drv EXCEPT !.waiting = TRUE, !.armed = TRUE]
    /\ UNCHANGED pin

\* commands 0x48 and 0x1c, dma_cmd8(s, DMA8_AUTO, -1)
SetBlockSize(n) ==
    /\ Does("auto") /\ CanStart
    /\ dsp' = [dsp EXCEPT !.size = n]
    /\ drv' = [drv EXCEPT !.armed = TRUE]
    /\ UNCHANGED <<dma, q, p, pin>>

StartAuto ==
    /\ Does("auto") /\ CanStart /\ ~dma.mask
    /\ Becomes(Control([Now EXCEPT !.dsp.left = dsp.size, !.dsp.auto = TRUE], TRUE))
    /\ drv' = [drv EXCEPT !.waiting = TRUE, !.armed = TRUE]
    /\ UNCHANGED <<p, pin>>

\* command 0xda: stop at the end of this block
ExitAuto ==
    /\ Does("exit")
    /\ dsp' = [dsp EXCEPT !.auto = FALSE]
    /\ UNCHANGED <<dma, q, p, pin, drv>>

\* commands 0xd0 and 0xd4
Halt ==
    /\ Does("halt")
    /\ Becomes(Control(Now, FALSE))
    /\ UNCHANGED <<p, pin, drv>>

Continue ==
    /\ Does("continue")
    /\ Becomes(Control(Now, TRUE))
    /\ drv' = [drv EXCEPT !.armed = TRUE]
    /\ UNCHANGED <<p, pin>>

\* the block size survives the reset
BadReset ==
    /\ Does("reset")
    /\ Becomes(Control([Now EXCEPT !.dsp.await = FALSE, !.dsp.status = FALSE,
                                   !.dsp.aux = FALSE, !.dsp.auto = FALSE,
                                   !.dsp.late = FALSE, !.dsp.auxLate = FALSE,
                                   !.dsp.left = 0], FALSE))
    /\ SetLine(FALSE)
    /\ drv' = [drv EXCEPT !.waiting = FALSE, !.armed = FALSE]
    /\ UNCHANGED p

\* reset(): the line is dropped, and pulsed if an auto-init transfer was on
Reset ==
    /\ Does("reset")
    /\ Becomes(Control([Now EXCEPT !.dsp.await = FALSE, !.dsp.status = FALSE,
                                   !.dsp.aux = FALSE, !.dsp.auto = FALSE,
                                   !.dsp.late = FALSE, !.dsp.auxLate = FALSE,
                                   !.dsp.left = 0, !.dsp.size = -1], FALSE))
    /\ line' = FALSE
    /\ irr' = (irr \/ dsp.auto)
    /\ drv' = [drv EXCEPT !.waiting = FALSE, !.armed = FALSE]
    /\ UNCHANGED p

\* command 0x80: a short silence interrupts now, a long one at its deadline;
\* the status bit is set in both cases
Silence(long) ==
    /\ Does("silence")
    /\ dsp' = [dsp EXCEPT !.status = TRUE, !.aux = @ \/ long,
                          !.auxLate = IF long THEN FALSE ELSE @]
    /\ IF long THEN UNCHANGED pin ELSE SetLine(TRUE)
    /\ drv' = [drv EXCEPT !.armed = TRUE]
    /\ UNCHANGED <<dma, q, p>>

\* command 0xf2: interrupt now, for drivers that look for the IRQ number
TestIrq ==
    /\ Does("test")
    /\ dsp' = [dsp EXCEPT !.status = TRUE]
    /\ SetLine(TRUE)
    /\ drv' = [drv EXCEPT !.armed = TRUE]
    /\ UNCHANGED <<dma, q, p>>

\* a read of base+0x0e: lowers the line only if the status bit is set
Acknowledge ==
    /\ dsp' = [dsp EXCEPT !.status = FALSE]
    /\ IF dsp.status THEN SetLine(FALSE) ELSE UNCHANGED pin
    /\ UNCHANGED <<dma, q, p>>

PollStatus == Does("poll") /\ drv.at = "main" /\ Acknowledge /\ UNCHANGED drv

\* a read of the controller's status register clears the TC bits
ReadTerminalCount ==
    /\ Does("status")
    /\ dma' = [dma EXCEPT !.tc = FALSE]
    /\ UNCHANGED <<dsp, q, p, pin, drv>>

\* the CPU takes the card's interrupt; the driver's handler acknowledges the
\* card and ends the interrupt
TakeInterrupt ==
    /\ core0 = "guest" /\ drv.at = "main" /\ irr
    /\ irr' = FALSE
    /\ drv' = [drv EXCEPT !.at = "isr", !.waiting = FALSE]
    /\ UNCHANGED <<dsp, dma, q, p, consumer, line, core0>>

HandlerAcks ==
    /\ core0 = "guest" /\ drv.at = "isr"
    /\ Acknowledge
    /\ drv' = [drv EXCEPT !.at = "acked"]
    /\ UNCHANGED <<core0, consumer>>

HandlerReturns ==
    /\ drv.at = "acked" /\ core0 = "guest"
    /\ drv' = [drv EXCEPT !.at = "main"]
    /\ UNCHANGED <<dsp, dma, q, p, consumer, pin, core0>>

-----------------------------------------------------------------------------
Init ==
    /\ dsp = [running |-> FALSE, auto |-> FALSE, size |-> 0, left |-> 0,
              status |-> FALSE, await |-> FALSE, late |-> FALSE, atq |-> 0,
              aux |-> FALSE, auxLate |-> FALSE]
    /\ dma = [now |-> 0, len |-> 1, reload |-> FALSE, mask |-> FALSE,
              dreq |-> FALSE, tc |-> FALSE]
    /\ q = 0 /\ p = 0 /\ phase = 0
    /\ line = FALSE /\ irr = FALSE
    /\ core0 = "devices"
    /\ core1 = Idle
    /\ drv = [at |-> "main", waiting |-> FALSE, armed |-> FALSE]

Clock == FallbackExpires \/ SilenceExpires
Core1 == BeginSample \/ AdvancePlay \/ CheckRunning \/ LoadStatus \/ StoreStatus
Transfer ==
    \/ \E len \in Lengths, reload \in BOOLEAN : ProgramDma(len, reload)
    \/ UnmaskDma
    \/ \E n \in Sizes : StartSingle(n) \/ SetBlockSize(n)
    \/ StartAuto \/ ExitAuto \/ Halt \/ Continue \/ Reset
Interrupt ==
    \/ \E long \in BOOLEAN : Silence(long)
    \/ TestIrq \/ PollStatus \/ ReadTerminalCount
    \/ TakeInterrupt \/ HandlerAcks \/ HandlerReturns

Next == RunDevices \/ Poll \/ EndSlice \/ Clock \/ Core1 \/ Transfer \/ Interrupt

Spec == Init /\ [][Next]_vars

-----------------------------------------------------------------------------
(* What the card must guarantee. *)

TypeOK ==
    /\ dsp \in [running: BOOLEAN, auto: BOOLEAN, size: Sizes \cup {-1, 0},
                left: Int, status: BOOLEAN, await: BOOLEAN, late: BOOLEAN,
                atq: Index, aux: BOOLEAN, auxLate: BOOLEAN]
    /\ dma \in [now: Nat, len: Lengths \cup {1}, reload: BOOLEAN, mask: BOOLEAN,
                dreq: BOOLEAN, tc: BOOLEAN]
    /\ dma.now <= dma.len
    /\ q \in Index /\ p \in Index /\ phase \in 0 .. PHASES - 1
    /\ line \in BOOLEAN /\ irr \in BOOLEAN
    /\ core0 \in {"devices", "poll", "guest"}
    /\ core1 \in [pc: {"idle", "play", "check", "load", "store"}, p: Index,
                  advance: Nat, tc: BOOLEAN]
    /\ drv \in [at: {"main", "isr", "acked"}, waiting: BOOLEAN, armed: BOOLEAN]

\* "The correction is small and never negative" (sb16.c:1973-1974): playback
\* never passes the copy.  A single-cycle block that cuts an auto-init transfer
\* short, or follows 0xd0, drops what is queued beyond its look-ahead while
\* core 1 is in the middle of a sample (sb16.c:631-636); whether core 1 then
\* advances the pointer it had read or the one the drop left, it must not come
\* out in front of audio_q, where SB_queued_bytes would see a negative queue
\* and the copy would run over the ring.
NeverPassed == Queued >= 0

\* A card whose line is up can be acknowledged: "one raised without [the
\* status bit] could never be dismissed" (sb16.c:1668-1670), and on an
\* edge-triggered controller the card is deaf from then on.
LineDismissable == line => dsp.status

\* A reset card is silent until it is given a command: nothing armed before
\* the reset, and nothing core 1 still holds, moves a byte or raises the line
\* afterwards (sb16.c:1389-1397).
ResetSilences ==
    [][~drv.armed /\ ~drv'.armed => q' = q /\ (line' => line)]_vars

\* "Core-1 stale DREQ dispatched a new transfer after DSP stopped"
\* (tests/jit/run_sb_dreq_race.py:68) must not happen.
StoppedStaysStopped == [][q' # q => dsp.running]_vars

\* The guest's current-count register and the block countdown agree: with a
\* DMA buffer of one block, what the controller has moved and what the DSP
\* still owes add up to whole buffers, whatever core 1 does in between.
CountAgrees ==
    dsp.running /\ dsp.size = dma.len => (dma.now + dsp.left) % dma.len = 0

-----------------------------------------------------------------------------
(* Progress.  pc_step is called for ever, the sample timer never stops, and  *)
(* time passes; the guest promises nothing.                                 *)

Fairness == /\ WF_vars(RunDevices) /\ WF_vars(Poll) /\ WF_vars(EndSlice)
            /\ WF_vars(Core1)
            /\ WF_vars(FallbackExpires) /\ WF_vars(SilenceExpires)

FairSpec == Spec /\ Fairness

\* "Without it the interrupt would be owed for ever" (sb16.c:2150-2151): a
\* completed block's interrupt is raised, unless the card is reset.
CompletionRaised == dsp.await ~> (line \/ ~drv.armed)
=============================================================================
