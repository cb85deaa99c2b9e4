------------------------------ MODULE IntWindow ------------------------------
(***************************************************************************)
(* When the emulated CPU takes an interrupt (src/src/i386.c).  cpui386_step *)
(* looks for one before it runs a batch of instructions, and only there; an *)
(* instruction that opens a window or must not be followed by an interrupt  *)
(* changes what is left of the batch (stepcount).  Devices raise their      *)
(* request between batches, or within one when an instruction reaches them. *)
(*                                                                         *)
(* The guest runs any instructions, its handlers too, and sleeps the way    *)
(* systems do: CLI, look for work, STI, HLT.  The interrupt controller is   *)
(* one line: it has a request waiting, one in service, or both (see I8259). *)
(* Neither paging nor privilege matters here.                              *)
(***************************************************************************)
EXTENDS Naturals, Sequences

CONSTANTS BATCH,  \* instructions in a call, 4096 in the code
          DEPTH   \* bound: handlers the guest nests

ASSUME BatchAssumption == BATCH \in Nat /\ BATCH > 2
ASSUME DepthAssumption == DEPTH \in Nat \ {0}

VARIABLES ifl,    \* IF of flags
          intr,   \* intr: the controller has asked
          pic,    \* what the controller holds
          halt,
          left,   \* stepcount, 0 between two calls
          frames, \* flags saved on the stack, innermost first
          at,     \* where the guest's main loop is
          work,   \* a handler has left work for it
          half,   \* the last instruction holds interrupts off for one more
          open    \* instructions since it enabled them, counted to two

wvars == <<ifl, intr, pic, halt, left, frames, at, work, half, open>>
guestvars == <<frames, at, work>>

WInit == /\ ifl = FALSE /\ intr = FALSE /\ pic = {} /\ halt = FALSE /\ left = 0
         /\ frames = <<>> /\ at = "main" /\ work = FALSE
         /\ half = FALSE /\ open = 0

\* the controller has a vector for whoever asks
Asks == "waiting" \in pic /\ "serving" \notin pic

(***************************************************************************)
(* The controller's line and cpui386_raise_irq                             *)
(***************************************************************************)
RaiseIrq == /\ pic' = pic \cup {"waiting"}
            /\ intr' = (intr \/ "serving" \notin pic)
Withdraw == pic' = pic \ {"waiting"} /\ UNCHANGED intr
EndOfInterrupt == /\ pic' = pic \ {"serving"}
                  /\ intr' = (intr \/ "waiting" \in pic)

\* pc_step runs the devices between two calls
Device == /\ left = 0 /\ "waiting" \notin pic
          /\ RaiseIrq /\ UNCHANGED <<ifl, halt, left, half, open, guestvars>>

(***************************************************************************)
(* cpui386_step                                                            *)
(***************************************************************************)
Frame(hw) == [ifl |-> ifl, hw |-> hw]
\* the guest keeps interrupts off in its innermost handler
Shallow(f) == ifl' => Len(f) < DEPTH
\* call_isr through an interrupt gate, or a trap gate that leaves IF
Enter(hw, trap) == /\ Len(frames) < DEPTH
                   /\ frames' = <<Frame(hw)>> \o frames
                   /\ ifl' = (ifl /\ trap)
                   /\ Shallow(frames')

Accept ==
    /\ left = 0 /\ ifl /\ intr /\ Asks
    /\ \E trap \in BOOLEAN : Enter(TRUE, trap)
    /\ pic' = {"serving"} /\ intr' = FALSE /\ halt' = FALSE
    /\ left' = BATCH /\ half' = FALSE /\ open' = 0
    /\ UNCHANGED <<at, work>>

\* the request is gone: a halted guest runs on
Withdrawn ==
    /\ left = 0 /\ ifl /\ intr /\ ~Asks
    /\ intr' = FALSE /\ halt' = FALSE /\ left' = BATCH
    /\ UNCHANGED <<ifl, pic, half, open, guestvars>>

Resume ==
    /\ left = 0 /\ ~(ifl /\ intr) /\ ~halt
    /\ left' = BATCH
    /\ UNCHANGED <<ifl, intr, pic, halt, half, open, guestvars>>

(***************************************************************************)
(* Instructions, in cpu_exec1                                              *)
(***************************************************************************)
InMain == frames = <<>> /\ at = "main"
Free == InMain \/ frames # <<>>

\* an instruction retires: what is left of the batch, and what it does to windows
Retire(n, holds) ==
    /\ left > 0 /\ left' = n
    /\ half' = holds
    /\ open' = IF ~ifl' THEN 0 ELSE IF holds \/ open = 2 THEN open ELSE open + 1
Retires == Retire(left - 1, FALSE)
Window == <<ifl, halt, guestvars>>

Plain == Free /\ UNCHANGED <<intr, pic, Window>> /\ Retires

\* CLI; the main loop may be about to look for work
Cli ==
    /\ Free
    /\ ifl' = FALSE /\ at' \in IF InMain THEN {"main", "closed"} ELSE {at}
    /\ Retires
    /\ UNCHANGED <<intr, pic, halt, frames, work>>

Look ==
    /\ frames = <<>> /\ at = "closed"
    /\ at' = IF work THEN "main" ELSE "idle"
    /\ work' = FALSE
    /\ UNCHANGED <<ifl, intr, pic, halt, frames>> /\ Retires

BadStiLeft == IF intr THEN 2 ELSE left - 1
StiLeft == IF intr \/ left - 1 < 2 THEN 2 ELSE left - 1
Sti ==
    /\ Free \/ at = "idle"
    /\ ifl' = TRUE /\ Shallow(frames)
    /\ at' = IF frames = <<>> /\ at = "idle" THEN "armed" ELSE at
    /\ left > 0 /\ left' = StiLeft
    /\ half' = ~ifl /\ open' = 0
    /\ UNCHANGED <<intr, pic, halt, frames, work>>

Hlt ==
    /\ frames = <<>> /\ at = "armed"
    /\ halt' = TRUE /\ at' = "main"
    /\ UNCHANGED <<ifl, intr, pic, frames, work>> /\ Retire(0, FALSE)

\* POPF and IRET end the batch if an interrupt can be taken
BadAfterFlags == left - 1
AfterFlags == IF intr /\ ifl' THEN 0 ELSE left - 1
Popf ==
    /\ Free
    /\ ifl' \in BOOLEAN /\ Shallow(frames)
    /\ Retire(AfterFlags, FALSE)
    /\ UNCHANGED <<intr, pic, halt, guestvars>>

Iret ==
    /\ frames # <<>>
    /\ Head(frames).hw => "serving" \notin pic
    /\ ifl' = Head(frames).ifl /\ frames' = Tail(frames)
    /\ Retire(AfterFlags, FALSE)
    /\ UNCHANGED <<intr, pic, halt, at, work>>

\* MOV SS and POP SS
SsLeft == left - 1 + 1
LoadSs == Free /\ UNCHANGED <<intr, pic, Window>> /\ Retire(SsLeft, TRUE)

\* an access of a port that makes a device ask, or masks its line
Out == /\ Free /\ (RaiseIrq \/ Withdraw) /\ UNCHANGED Window /\ Retires

\* a handler that serves its device, leaves work and ends the interrupt
Eoi ==
    /\ frames # <<>> /\ Head(frames).hw /\ "serving" \in pic
    /\ EndOfInterrupt /\ work' = TRUE
    /\ UNCHANGED <<ifl, halt, frames, at>> /\ Retires

IntN == /\ Free /\ \E trap \in BOOLEAN : Enter(FALSE, trap)
        /\ UNCHANGED <<intr, pic, halt, at, work>> /\ Retires

\* an exception ends the batch
Fault == /\ Free /\ \E trap \in BOOLEAN : Enter(FALSE, trap)
         /\ UNCHANGED <<intr, pic, halt, at, work>> /\ Retire(0, FALSE)

Step == Accept \/ Withdrawn \/ Resume
Instruction == \/ Plain \/ Cli \/ Look \/ Sti \/ Hlt \/ Popf \/ Iret \/ LoadSs
               \/ Out \/ Eoi \/ IntN \/ Fault

WNext == Step \/ Instruction \/ Device

\* pc_step calls cpui386_step for ever, and a batch runs to its end
WSpec == WInit /\ [][WNext]_wvars /\ WF_wvars(Step) /\ WF_wvars(Instruction)

(***************************************************************************)
(* Properties                                                              *)
(***************************************************************************)
WTypeOK ==
    /\ ifl \in BOOLEAN /\ intr \in BOOLEAN /\ pic \subseteq {"waiting", "serving"}
    /\ halt \in BOOLEAN /\ left \in 0 .. BATCH
    /\ frames \in Seq([ifl : BOOLEAN, hw : BOOLEAN]) /\ Len(frames) <= DEPTH
    /\ at \in {"main", "closed", "idle", "armed"} /\ work \in BOOLEAN
    /\ half \in BOOLEAN /\ open \in 0 .. 2

\* A guest is never interrupted between two instructions that belong together:
\* the load of SS and the next, STI and the next; so a main loop that looked for
\* work before it halted does not sleep on work a handler left it in between, or
\* on a request the CPU was not told of (STI, src/src/i386.c:2955-2959, MOV SS at
\* 2723 and POP SS at 3113).
NeverBetween ==
    /\ left = 0 /\ ifl => ~half
    /\ halt => ifl /\ ~work /\ (Asks => intr)

\* A request waits only for a guest that lets it: one that now and then runs two
\* instructions after the one that enabled interrupts takes it, whatever the
\* batches and whoever raised it.  One instruction, which the comment on STI
\* promises (src/src/i386.c:2955), is not enough: StiLeft leaves room for two.
Answered == []<>(ifl /\ open = 2) => []<>~Asks
=============================================================================
