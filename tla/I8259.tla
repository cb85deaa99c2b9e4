-------------------------------- MODULE I8259 --------------------------------
(***************************************************************************)
(* The two cascaded 8259 interrupt controllers (src/src/i8259.c), driven by *)
(* the device lines, by the guest's port accesses and by the CPU core that  *)
(* acknowledges interrupts (src/src/i386.c:15916-15931).                    *)
(*                                                                         *)
(* A register of the chip is the set of its pins whose bit is one.  The     *)
(* chip has N pins: 8 in the code, fewer in the model-checked instances.    *)
(* Controller 0 is the master; the slave hangs off its pin CASCADE.         *)
(*                                                                         *)
(* cpu->intr is a latch: cpui386_raise_irq sets it, and only the accept     *)
(* path clears it.  Between the two the guest may run any number of         *)
(* instructions, mask, unmask or end interrupts, and devices may move       *)
(* their lines: that window is the interleaving this module explores.  IF   *)
(* is not kept; a guest with interrupts off is one that has not taken the   *)
(* Accept step yet.                                                         *)
(***************************************************************************)
EXTENDS Integers, FiniteSetsExt

CONSTANTS
    N,          \* pins of one controller (8 in the code)
    CASCADE,    \* pin of the master the slave is wired to (2 in the code)
    Lines,      \* machine IRQ lines that have a device, of 0 .. 2 * N - 1
    Bases,      \* vector bases the guest programs (ICW2)
    ImrValues,  \* masks the guest writes (OCW1)
    Ocw2,       \* OCW2 commands the guest uses, of 0 .. 7
    Ocw3,       \* OCW3 writes the guest uses
    Icw1,       \* ICW1 writes the guest uses
    Icw4        \* ICW4 writes the guest uses

Pins == 0 .. N - 1
Pic  == 0 .. 1

Ocw3Values == [poll: BOOLEAN, select: {"none", "irr", "isr"},
               special: {"none", "on", "off"}]
Icw1Values == [init4: BOOLEAN, single: BOOLEAN]
Icw4Values == [sfnm: BOOLEAN, aeoi: BOOLEAN]

ASSUME PinAssumption == /\ N \in Nat \ {0}
                        /\ CASCADE \in Pins
ASSUME LineAssumption == Lines \subseteq (0 .. 2 * N - 1) \ {CASCADE}
ASSUME GuestAssumption == /\ Bases \subseteq Nat
                          /\ ImrValues \subseteq SUBSET Pins
                          /\ Ocw2 \subseteq 0 .. 7
                          /\ Ocw3 \subseteq Ocw3Values
                          /\ Icw1 \subseteq Icw1Values
                          /\ Icw4 \subseteq Icw4Values

None == -1      \* "return -1": no interrupt

VARIABLES
    pics,       \* the PicState of each controller
    intr,       \* cpu->intr
    vec         \* vector this step handed to call_isr, None when it did not

vars == <<pics, intr, vec>>

-----------------------------------------------------------------------------
(* Register file and the pure functions of the chip. *)

PicState == [last_irr: SUBSET Pins, irr: SUBSET Pins, imr: SUBSET Pins,
             isr: SUBSET Pins, priority_add: Pins, irq_base: Nat,
             read_isr: BOOLEAN, poll: BOOLEAN, special_mask: BOOLEAN,
             init_state: 0 .. 3, auto_eoi: BOOLEAN, rotate_on_auto_eoi: BOOLEAN,
             sfnm: BOOLEAN, init4: BOOLEAN, single_mode: BOOLEAN]

\* pic_reset: every register to zero, the lines' last level included
PicReset == [last_irr |-> {}, irr |-> {}, imr |-> {}, isr |-> {},
             priority_add |-> 0, irq_base |-> 0, read_isr |-> FALSE,
             poll |-> FALSE, special_mask |-> FALSE, init_state |-> 0,
             auto_eoi |-> FALSE, rotate_on_auto_eoi |-> FALSE, sfnm |-> FALSE,
             init4 |-> FALSE, single_mode |-> FALSE]

(* Operators named Bad... are slips the code could contain, one line away    *)
(* from the definition that follows them; each breaks the property it is     *)
(* listed with in PROJECT.json.                                             *)

\* a falling line withdraws the request, as on a level-triggered input
BadSetIrq1(s, pin, level) ==
    IF level THEN [s EXCEPT !.irr = IF pin \in s.last_irr THEN @ ELSE @ \cup {pin},
                            !.last_irr = @ \cup {pin}]
             ELSE [s EXCEPT !.irr = @ \ {pin}, !.last_irr = @ \ {pin}]

\* pic_set_irq1: edge triggered, so only a low-to-high change latches irr
SetIrq1(s, pin, level) ==
    IF level THEN [s EXCEPT !.irr = IF pin \in s.last_irr THEN @ ELSE @ \cup {pin},
                            !.last_irr = @ \cup {pin}]
             ELSE [s EXCEPT !.last_irr = @ \ {pin}]

\* get_priority: how far from the pin of highest priority the scan stops
GetPriority(s, mask) ==
    IF mask = {} THEN N ELSE Min({(k - s.priority_add) % N : k \in mask})

\* the in-service register is not consulted
BadHolding(ps, p) == {}

\* the pins in service that hold back a new request of the same controller
Holding(ps, p) == (ps[p].isr \ (IF ps[p].special_mask THEN ps[p].imr ELSE {}))
                    \ (IF ps[p].sfnm /\ p = 0 THEN {CASCADE} ELSE {})

\* pic_get_irq: the pin the controller wants served, or None
GetIrq(ps, p) ==
    LET priority == GetPriority(ps[p], ps[p].irr \ ps[p].imr)
        cur      == GetPriority(ps[p], Holding(ps, p))
    IN  IF priority < cur THEN (priority + ps[p].priority_add) % N ELSE None

\* pic_update_irq, first half: a request of the slave pulses the cascade pin
Cascaded(ps) ==
    IF GetIrq(ps, 1) = None THEN ps
    ELSE [ps EXCEPT ![0] = SetIrq1(SetIrq1(@, CASCADE, TRUE), CASCADE, FALSE)]

\* pic_update_irq: pulse the cascade, then latch intr if the master wants it
UpdateIrq(ps, latch) ==
    \E after \in {Cascaded(ps)} :
        /\ pics' = after
        /\ intr' = (latch \/ GetIrq(after, 0) # None)

\* pic_intack
Intack(s, pin) ==
    [s EXCEPT !.irr = @ \ {pin},
              !.isr = IF s.auto_eoi THEN @ ELSE @ \cup {pin},
              !.priority_add = IF s.auto_eoi /\ s.rotate_on_auto_eoi
                                 THEN (pin + 1) % N ELSE @]

\* a withdrawn request is delivered as the master's last pin, spuriously
BadReadIrq(ps) ==
    LET irq == GetIrq(ps, 0)
    IN  IF irq = None THEN [pics |-> ps, vec |-> ps[0].irq_base + (N - 1)]
        ELSE [pics |-> [ps EXCEPT ![0] = Intack(@, irq)], vec |-> ps[0].irq_base + irq]

\* i8259_read_irq: the controllers after the acknowledge, and the vector
ReadIrq(ps) ==
    LET irq    == GetIrq(ps, 0)
        master == [ps EXCEPT ![0] = Intack(@, irq)]
        irq2   == GetIrq(master, 1)
    IN  CASE irq = None -> [pics |-> ps, vec |-> None]
          [] irq # None /\ irq # CASCADE ->
               [pics |-> master, vec |-> ps[0].irq_base + irq]
          [] irq = CASCADE /\ irq2 # None ->
               [pics |-> [master EXCEPT ![1] = Intack(@, irq2)],
                vec  |-> ps[1].irq_base + irq2]
          [] irq = CASCADE /\ irq2 = None ->    \* spurious IRQ on the slave
               [pics |-> master, vec |-> ps[1].irq_base + (N - 1)]

-----------------------------------------------------------------------------
(* The devices: i8259_set_irq, called on core 0 from pc_step and from the   *)
(* port handlers.                                                          *)

SetIrq(line, level) ==
    /\ UpdateIrq([pics EXCEPT ![line \div N] = SetIrq1(@, line % N, level)], intr)
    /\ vec' = None

(* The CPU: cpu_step finds intr set with interrupts enabled.  The latch is  *)
(* cleared before the controller is asked, and i8259_read_irq may set it    *)
(* again.  A request withdrawn in the meantime delivers nothing.            *)
Accept ==
    /\ intr
    /\ \E r \in {ReadIrq(pics)} :
         /\ UpdateIrq(r.pics, FALSE)
         /\ vec' = r.vec

(* The guest's port writes: pic_ioport_write. *)

\* even port, bit 4: start the initialisation sequence; no update follows
WriteIcw1(p, v) ==
    /\ pics' = [pics EXCEPT ![p] = [PicReset EXCEPT !.init_state = 1,
                                                    !.init4 = v.init4,
                                                    !.single_mode = v.single]]
    /\ UNCHANGED intr
    /\ vec' = None

\* odd port, init_state 1, 2 and 3: ICW2, ICW3 and ICW4
WriteIcw2(p, base) ==
    LET s == pics[p]
    IN  /\ s.init_state = 1
        /\ pics' = [pics EXCEPT ![p].irq_base = base,
                                ![p].init_state = IF ~s.single_mode THEN 2
                                                  ELSE IF s.init4 THEN 3 ELSE 0]
        /\ UNCHANGED intr
        /\ vec' = None

WriteIcw3(p) ==
    /\ pics[p].init_state = 2
    /\ pics' = [pics EXCEPT ![p].init_state = IF pics[p].init4 THEN 3 ELSE 0]
    /\ UNCHANGED intr
    /\ vec' = None

WriteIcw4(p, v) ==
    /\ pics[p].init_state = 3
    /\ pics' = [pics EXCEPT ![p].sfnm = v.sfnm, ![p].auto_eoi = v.aeoi,
                            ![p].init_state = 0]
    /\ UNCHANGED intr
    /\ vec' = None

\* odd port, init_state 0: OCW1, the interrupt mask
WriteOcw1(p, mask) ==
    /\ pics[p].init_state = 0
    /\ UpdateIrq([pics EXCEPT ![p].imr = mask], intr)
    /\ vec' = None

\* the retired interrupt is not followed by pic_update_irq
BadEndOfInterrupt(p, cmd) ==
    LET s   == pics[p]
        pin == (GetPriority(s, s.isr) + s.priority_add) % N
    IN  /\ cmd \in {1, 5}
        /\ pics' = [pics EXCEPT ![p].isr = @ \ {pin},
                               ![p].priority_add = IF cmd = 5 THEN (pin + 1) % N ELSE @]
        /\ UNCHANGED intr
        /\ vec' = None

\* OCW2 commands 1 and 5: non-specific end of interrupt
EndOfInterrupt(p, cmd) ==
    LET s   == pics[p]
        pri == GetPriority(s, s.isr)
        pin == (pri + s.priority_add) % N
    IN  /\ cmd \in {1, 5}
        /\ IF pri = N
             THEN UNCHANGED <<pics, intr>>
             ELSE UpdateIrq([pics EXCEPT ![p].isr = @ \ {pin},
                                         ![p].priority_add = IF cmd = 5 THEN (pin + 1) % N
                                                                        ELSE @], intr)
        /\ vec' = None

\* OCW2 commands 3, 6 and 7: specific end of interrupt, set priority, both
SpecificEoi(p, cmd, pin) ==
    /\ cmd \in {3, 6, 7}
    /\ UpdateIrq([pics EXCEPT ![p].isr = IF cmd = 6 THEN @ ELSE @ \ {pin},
                              ![p].priority_add = IF cmd = 3 THEN @ ELSE (pin + 1) % N],
                 intr)
    /\ vec' = None

\* OCW2 commands 0 and 4: rotate in automatic-EOI mode off and on
RotateOnAutoEoi(p, cmd) ==
    /\ cmd \in {0, 4}
    /\ pics' = [pics EXCEPT ![p].rotate_on_auto_eoi = (cmd = 4)]
    /\ UNCHANGED intr
    /\ vec' = None

\* OCW3: poll, register select and special mask in one write; no update
WriteOcw3(p, v) ==
    /\ pics' = [pics EXCEPT
                  ![p].poll = @ \/ v.poll,
                  ![p].read_isr = IF v.select = "none" THEN @ ELSE v.select = "isr",
                  ![p].special_mask = IF v.special = "none" THEN @ ELSE v.special = "on"]
    /\ UNCHANGED intr
    /\ vec' = None

(* pic_poll_read, through pic_ioport_read with poll set.  Other reads       *)
(* return a register and change nothing.                                   *)
PollRead(p) ==
    LET ret     == GetIrq(pics, p)
        cleared == [pics EXCEPT ![p].irr = @ \ {ret}, ![p].isr = @ \ {ret}]
        taken   == IF p = 1 THEN [cleared EXCEPT ![0].isr = @ \ {CASCADE},
                                                 ![0].irr = @ \ {CASCADE}]
                            ELSE cleared
        done(ps) == [ps EXCEPT ![p].poll = FALSE]
    IN  /\ pics[p].poll
        /\ CASE ret = None -> UpdateIrq(done(pics), intr)
             [] ret # None /\ (p = 1 \/ ret # CASCADE) -> UpdateIrq(done(taken), intr)
             [] ret # None /\ ~(p = 1 \/ ret # CASCADE) ->
                  pics' = done(taken) /\ UNCHANGED intr
        /\ vec' = None

-----------------------------------------------------------------------------
Init ==
    /\ pics = [p \in Pic |-> PicReset]
    /\ intr = FALSE
    /\ vec = None

Device == \E line \in Lines, level \in BOOLEAN : SetIrq(line, level)

\* "PollRead" reads the port; the others are port writes
Guest ==
    \E p \in Pic :
        \/ \E v \in Icw1 : WriteIcw1(p, v)
        \/ \E b \in Bases : WriteIcw2(p, b)
        \/ WriteIcw3(p)
        \/ \E v \in Icw4 : WriteIcw4(p, v)
        \/ \E m \in ImrValues : WriteOcw1(p, m)
        \/ \E cmd \in Ocw2 : EndOfInterrupt(p, cmd)
        \/ \E cmd \in Ocw2, pin \in Pins : SpecificEoi(p, cmd, pin)
        \/ \E cmd \in Ocw2 : RotateOnAutoEoi(p, cmd)
        \/ \E v \in Ocw3 : WriteOcw3(p, v)
        \/ PollRead(p)

Next == Device \/ Accept \/ Guest

Spec == Init /\ [][Next]_vars

-----------------------------------------------------------------------------
(* What the controllers must guarantee. *)

\* The registers stay sets of pins and the latch a Boolean.
TypeOK ==
    /\ pics \in [Pic -> PicState]
    /\ intr \in BOOLEAN
    /\ vec \in Nat \cup {None}

\* "raise irq to CPU if necessary.  must be called every time the active irq
\* may change" (i8259.c:110-111): whenever the master has an interrupt it wants
\* served, the CPU has been told.  Without it a request sits in irr until some
\* unrelated device happens to move its line.
IntrCoversRequest == GetIrq(pics, 0) # None => intr

\* A request the slave wants served is always latched in the master's cascade
\* pin: no path that acknowledges, ends or masks an interrupt may strand a
\* second slave request behind the first (i8259.c:116-122, 156-165, 213).
SlaveCascaded == GetIrq(pics, 1) # None => CASCADE \in pics[0].irr

\* Position of a pin in a controller's priority order: 0 is served first.
Rank(s, k) == (k - s.priority_add) % N

\* Pin k of controller p is the one the priority rules select: requested, not
\* masked, ahead of every other such request and of all that is in service.
Selected(ps, p, k) ==
    LET asked == ps[p].irr \ ps[p].imr
    IN  /\ k \in asked
        /\ \A j \in asked : Rank(ps[p], k) <= Rank(ps[p], j)
        /\ \A j \in Holding(ps, p) : Rank(ps[p], k) < Rank(ps[p], j)

\* The only vector ever delivered is the one of the selected pin: a request
\* withdrawn or masked between raise and acknowledge delivers nothing
\* (i8259.c:185-206), and the slave's last vector stands for a slave request
\* that went away while the master's cascade pin stayed latched.
AcceptSelected ==
    [][vec' # None =>
         \/ \E k \in Pins \ {CASCADE} : Selected(pics, 0, k) /\ vec' = pics[0].irq_base + k
         \/ /\ Selected(pics, 0, CASCADE)
            /\ \/ \E k \in Pins : Selected(pics, 1, k) /\ vec' = pics[1].irq_base + k
               \/ /\ \A k \in Pins : ~Selected(pics, 1, k)
                  /\ vec' = pics[1].irq_base + (N - 1)]_vars

\* A latched request leaves irr only because it was delivered, polled away or
\* wiped by ICW1; dropping the line, masking it or ending another interrupt
\* never loses it (pic_set_irq1, pic_intack, pic_poll_read).
RequestKept ==
    [][\A p \in Pic : \A k \in pics[p].irr \ pics'[p].irr :
         \/ Selected(pics, p, k) /\ vec' # None
         \/ Selected(pics, p, k) /\ pics[p].poll /\ ~pics'[p].poll
         \/ p = 0 /\ k = CASCADE /\ pics[1].poll /\ ~pics'[1].poll
         \/ pics'[p].init_state = 1]_vars

-----------------------------------------------------------------------------
(* Progress.  The CPU reaches the interrupt check of cpu_step again and      *)
(* again, and the guest's handlers end their interrupts; both are weakly     *)
(* fair.  Devices and mode changes are not.                                 *)

Fairness == WF_vars(Accept) /\ \A p \in Pic : WF_vars(EndOfInterrupt(p, 1))

Masking == \E p \in Pic, m \in ImrValues : WriteOcw1(p, m)

\* Once the lines are quiet and the masks are settled, every request that is not
\* masked is served, whatever was pending on both controllers and whatever was
\* masked and unmasked before: no request waits for a later edge to be noticed.
\* While lines keep moving the fixed priorities may starve a low one, as in the
\* chip.
QuietServed ==
    <>[][~(Device \/ Masking)]_vars =>
        <>[](/\ pics[0].irr \subseteq pics[0].imr
             /\ CASCADE \notin pics[0].irr => pics[1].irr \subseteq pics[1].imr)
=============================================================================
