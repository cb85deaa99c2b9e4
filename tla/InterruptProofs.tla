---------------------------- MODULE InterruptProofs ----------------------------
(***************************************************************************)
(* Proofs about how interrupts reach the guest: that the CPU takes them in    *)
(* its windows only (IntWindow), that the keyboard controller (Kbc), which     *)
(* signals by edges, leaves no guest that waits without one, and that the     *)
(* ticks of the timer (Pit) come in time.                                   *)
(* The modules share no variable; each part below is about one of them.        *)
(***************************************************************************)
EXTENDS IntWindow, Kbc, Pit, SequenceTheorems, WellFoundedInduction, TLAPS

-----------------------------------------------------------------------------
(* IntWindow, for any batch of more than two instructions and any nesting: no *)
(* interrupt comes between two instructions that belong together, so the main *)
(* loop never sleeps on work.                                                *)

SavedFlags == [ifl : BOOLEAN, hw : BOOLEAN]

(* The invariant: an instruction that holds interrupts off leaves one more in *)
(* its batch, the CPU has been told of what the controller has, the main loop *)
(* looks for work with interrupts off and goes to sleep right behind its STI. *)
Told == Asks => intr
Asleep == halt => left = 0 /\ ifl /\ ~work /\ frames = <<>>
Loop == /\ at # "main" => frames = <<>> /\ ~halt
        /\ at \in {"closed", "idle"} => ~ifl
        /\ at \in {"idle", "armed"} => ~work
        /\ at = "armed" => ifl /\ half
WInv == WTypeOK /\ (half => left > 0) /\ Told /\ Asleep /\ Loop

LEMMA InitInv == WInit => WInv
<1> SUFFICES ASSUME WInit PROVE WInv
  OBVIOUS
<1>1. frames \in Seq(SavedFlags) /\ Len(frames) = 0
  BY EmptySeq DEF WInit
<1>2. Len(frames) <= DEPTH /\ left \in 0 .. BATCH /\ open \in 0 .. 2
  BY <1>1, BatchAssumption, DepthAssumption DEF WInit
<1>3. WTypeOK
  BY <1>1, <1>2 DEF WInit, WTypeOK, SavedFlags
<1> QED BY <1>3 DEF WInit, WInv, Told, Asks, Asleep, Loop

(* What a step does to the stack: a handler puts its frame on top of it, IRET *)
(* takes one off.                                                           *)
LEMMA EnterType ==
    ASSUME WTypeOK, NEW hw \in BOOLEAN, NEW trap \in BOOLEAN, Enter(hw, trap)
    PROVE  /\ frames' \in Seq(SavedFlags) /\ Len(frames') <= DEPTH /\ frames' # <<>>
           /\ ifl' \in BOOLEAN /\ (ifl' => ifl)
<1> DEFINE f == Frame(hw)
<1>1. f \in SavedFlags /\ frames \in Seq(SavedFlags)
  BY DEF WTypeOK, Frame, SavedFlags
<1>2. <<f>> \in Seq(SavedFlags) /\ Len(<<f>>) = 1
  BY <1>1
<1>3. <<f>> \o frames \in Seq(SavedFlags) /\ Len(<<f>> \o frames) = 1 + Len(frames)
  BY <1>1, <1>2, ConcatProperties
<1>4. Len(frames) \in Nat /\ Len(frames) < DEPTH /\ frames' = <<f>> \o frames
  BY <1>1, LenProperties DEF Enter
<1>5. frames' # <<>>
  BY <1>3, <1>4
<1>6. ifl' = (ifl /\ trap) /\ ifl \in BOOLEAN
  BY DEF Enter, WTypeOK
<1> QED BY <1>3, <1>4, <1>5, <1>6, DepthAssumption

LEMMA ReturnType ==
    ASSUME WTypeOK, frames # <<>>
    PROVE  /\ Tail(frames) \in Seq(SavedFlags) /\ Len(Tail(frames)) <= DEPTH
           /\ Head(frames).ifl \in BOOLEAN
<1>1. frames \in Seq(SavedFlags)
  BY DEF WTypeOK, SavedFlags
<1>2. Head(frames) \in SavedFlags /\ Tail(frames) \in Seq(SavedFlags) /\ Len(Tail(frames)) = Len(frames) - 1
  BY <1>1, HeadTailProperties
<1>3. Len(frames) \in Nat /\ Len(frames) <= DEPTH
  BY <1>1, LenProperties DEF WTypeOK
<1> QED BY <1>2, <1>3, DepthAssumption DEF SavedFlags

(* The typing of a step that leaves the stack alone. *)
Rest == /\ ifl \in BOOLEAN /\ intr \in BOOLEAN /\ pic \subseteq {"waiting", "serving"}
        /\ halt \in BOOLEAN /\ left \in 0 .. BATCH
        /\ at \in {"main", "closed", "idle", "armed"} /\ work \in BOOLEAN
        /\ half \in BOOLEAN /\ open \in 0 .. 2
Stack == frames \in Seq(SavedFlags) /\ Len(frames) <= DEPTH

LEMMA Typed == WTypeOK <=> Rest /\ Stack
BY DEF WTypeOK, Rest, Stack, SavedFlags

(* An instruction that retires leaves fewer in the batch.  One that holds      *)
(* interrupts off leaves at least one.                                       *)
Retired == /\ left > 0 /\ left' \in 0 .. BATCH
           /\ half' \in BOOLEAN /\ (half' => left' > 0) /\ open' \in 0 .. 2

LEMMA RetireType ==
    ASSUME Rest, NEW n, Retire(n, FALSE), n \in 0 .. left
    PROVE  Retired /\ half' = FALSE /\ left' = n
<1>1. left \in 0 .. BATCH /\ open \in 0 .. 2 /\ left > 0 /\ left' = n /\ half' = FALSE
  BY DEF Rest, Retire
<1>2. open' \in 0 .. 2
  BY <1>1 DEF Retire
<1>3. n \in 0 .. BATCH
  BY <1>1, BatchAssumption
<1> QED BY <1>1, <1>2, <1>3 DEF Retired

LEMMA HoldType ==
    ASSUME Rest, Retire(SsLeft, TRUE)
    PROVE  Retired
<1>1. left \in 0 .. BATCH /\ open \in 0 .. 2 /\ left > 0 /\ left' = left /\ half' = TRUE
  BY DEF Rest, Retire, SsLeft
<1>2. open' \in 0 .. 2
  BY <1>1 DEF Retire
<1> QED BY <1>1, <1>2 DEF Retired

(***************************************************************************)
(* Every step keeps the invariant: between two batches first.              *)
(***************************************************************************)
LEMMA DeviceKeeps == WInv /\ Device => WInv'
<1> SUFFICES ASSUME WInv, Device PROVE WInv'
  OBVIOUS
<1>1. Rest' /\ Stack'
  <2>1. Rest /\ Stack
    BY Typed DEF WInv
  <2> QED BY <2>1 DEF Device, RaiseIrq, guestvars, Rest, Stack
<1>2. WTypeOK'
  BY <1>1 DEF WTypeOK, Rest, Stack, SavedFlags
<1> QED BY <1>2 DEF WInv, Device, RaiseIrq, guestvars, Told, Asks, Asleep, Loop

LEMMA StepKeeps == WInv /\ Step => WInv'
<1> SUFFICES ASSUME WInv, Step PROVE WInv'
  OBVIOUS
<1>1. Rest /\ Stack /\ WTypeOK
  BY Typed DEF WInv
<1>2. BATCH \in 0 .. BATCH /\ BATCH > 0
  BY BatchAssumption
<1>3. CASE Accept
  <2>1. PICK trap \in BOOLEAN : Enter(TRUE, trap)
    BY <1>3 DEF Accept
  <2>2. Stack' /\ frames' # <<>> /\ ifl' \in BOOLEAN
    BY <1>1, <2>1, EnterType DEF Stack
  <2>3. Rest'
    <3>1. /\ pic' = {"serving"} /\ intr' = FALSE /\ halt' = FALSE /\ left' = BATCH
          /\ half' = FALSE /\ open' = 0 /\ at' = at /\ work' = work
      BY <1>3 DEF Accept
    <3>2. pic' \subseteq {"waiting", "serving"} /\ left' \in 0 .. BATCH /\ open' \in 0 .. 2
      BY <1>2, <3>1
    <3>3. at' \in {"main", "closed", "idle", "armed"} /\ work' \in BOOLEAN
      BY <1>1, <3>1 DEF Rest
    <3> QED BY <2>2, <3>1, <3>2, <3>3 DEF Rest
  <2>4. at = "main"
    <3>1. left = 0 /\ ifl
      BY <1>3 DEF Accept
    <3> QED BY <3>1, <1>1 DEF WInv, Loop, Rest
  <2>5. WTypeOK'
    BY <2>2, <2>3 DEF WTypeOK, Rest, Stack, SavedFlags
  <2> QED BY <1>3, <2>4, <2>5 DEF WInv, Accept, Told, Asks, Asleep, Loop
<1>4. CASE Withdrawn
  <2>1. Rest' /\ Stack'
    BY <1>1, <1>2, <1>4 DEF Withdrawn, guestvars, Rest, Stack
  <2>2. WTypeOK'
    BY <2>1 DEF WTypeOK, Rest, Stack, SavedFlags
  <2> QED BY <1>2, <1>4, <2>2 DEF WInv, Withdrawn, guestvars, Told, Asks, Asleep, Loop
<1>5. CASE Resume
  <2>1. Rest' /\ Stack'
    BY <1>1, <1>2, <1>5 DEF Resume, guestvars, Rest, Stack
  <2>2. WTypeOK'
    BY <2>1 DEF WTypeOK, Rest, Stack, SavedFlags
  <2> QED BY <1>2, <1>5, <2>2 DEF WInv, Resume, guestvars, Told, Asks, Asleep, Loop
<1> QED BY <1>3, <1>4, <1>5 DEF Step

(***************************************************************************)
(* Then the instructions.  One that leaves the stack and the main loop alone *)
(* is covered by the first lemma.                                          *)
(***************************************************************************)
LEMMA Awake == WInv /\ left > 0 => ~halt /\ (Free => at = "main")
BY Typed DEF WInv, Asleep, Loop, Free, InMain, Rest

LEMMA InPlaceKeeps ==
    ASSUME WInv, Free, Retired, ifl' \in BOOLEAN, intr' \in BOOLEAN,
           pic' \subseteq {"waiting", "serving"}, Told', work' \in BOOLEAN,
           Stack', halt' = halt, at' = at
    PROVE  WInv'
<1>1. Rest /\ Stack
  BY Typed DEF WInv
<1>2. halt' = FALSE /\ at' = "main"
  BY <1>1, Awake DEF Rest, Retired
<1>3. Rest'
  BY <1>2 DEF Rest, Retired
<1>4. WTypeOK'
  BY <1>3 DEF WTypeOK, Rest, Stack, SavedFlags
<1> QED BY <1>2, <1>4 DEF WInv, Asleep, Loop, Retired

LEMMA InstructionKeeps == WInv /\ Instruction => WInv'
<1> SUFFICES ASSUME WInv, Instruction PROVE WInv'
  OBVIOUS
<1>1. Rest /\ Stack /\ WTypeOK /\ Told
  BY Typed DEF WInv
<1>2. left \in Nat /\ 2 \in 0 .. BATCH
  BY <1>1, BatchAssumption DEF Rest
<1>3. CASE Plain
  <2>1. /\ Free /\ Retire(left - 1, FALSE) /\ left > 0
        /\ UNCHANGED <<intr, pic, ifl, halt, frames, at, work>>
    BY <1>3 DEF Plain, Retires, Retire, Window, guestvars
  <2>2. Retired
    <3>1. left - 1 \in 0 .. left
      BY <1>2, <2>1
    <3> QED BY <1>1, <2>1, <3>1, RetireType
  <2>3. /\ Stack' /\ Told' /\ work' \in BOOLEAN /\ intr' \in BOOLEAN /\ ifl' \in BOOLEAN
        /\ pic' \subseteq {"waiting", "serving"}
    BY <1>1, <2>1 DEF Stack, Told, Asks, Rest
  <2> QED BY <2>1, <2>2, <2>3, InPlaceKeeps
<1>4. CASE Cli
  <2>1. Stack' /\ frames' = frames
    BY <1>1, <1>4 DEF Cli, Stack
  <2>2. /\ Retire(left - 1, FALSE) /\ ifl' = FALSE /\ UNCHANGED <<intr, pic, halt, work>>
        /\ at' \in {"main", "closed", "idle", "armed"}
    BY <1>1, <1>4 DEF Cli, Retires, InMain, Rest
  <2>3. left > 0 /\ left - 1 \in 0 .. left /\ ~halt /\ at = "main"
    BY <1>2, <1>4, <2>2, Awake DEF Retire, Cli
  <2>4. at' = "closed" => frames = <<>>
    BY <1>4, <2>3 DEF Cli, InMain
  <2>5. left' \in 0 .. BATCH /\ half' = FALSE /\ open' \in 0 .. 2
    BY <1>1, <2>2, <2>3, RetireType DEF Retired
  <2>6. at' \in {"main", "closed"}
    BY <1>4, <2>3 DEF Cli
  <2>7. WTypeOK'
    BY <1>1, <2>1, <2>2, <2>5 DEF WTypeOK, Rest, Stack, SavedFlags
  <2> QED BY <1>1, <2>1, <2>2, <2>3, <2>4, <2>5, <2>6, <2>7 DEF WInv, Told, Asks, Asleep, Loop
<1>5. CASE Look
  <2>1. Retire(left - 1, FALSE) /\ UNCHANGED <<ifl, intr, pic, halt, frames>> /\ work' = FALSE
    BY <1>5 DEF Look, Retires
  <2>2. left > 0 /\ left - 1 \in 0 .. left /\ ~halt /\ ~ifl
    BY <1>1, <1>2, <1>5, <2>1, Awake DEF Retire, Look, WInv, Loop
  <2>3. left' \in 0 .. BATCH /\ half' = FALSE /\ open' \in 0 .. 2
    BY <1>1, <2>1, <2>2, RetireType DEF Retired
  <2>4. at' \in {"main", "idle"} /\ frames = <<>>
    BY <1>5 DEF Look
  <2>5. WTypeOK'
    BY <1>1, <2>1, <2>3, <2>4 DEF WTypeOK, Rest, Stack, SavedFlags
  <2> QED BY <1>1, <2>1, <2>2, <2>3, <2>4, <2>5 DEF WInv, Told, Asks, Asleep, Loop
<1>6. CASE Sti
  <2>1. StiLeft \in 0 .. BATCH /\ StiLeft > 0
    <3>1. left \in 0 .. BATCH /\ intr \in BOOLEAN
      BY <1>1 DEF Rest
    <3>2. CASE intr \/ left - 1 < 2
      BY <1>2, <3>2 DEF StiLeft
    <3>3. CASE ~(intr \/ left - 1 < 2)
      BY <3>1, <3>3, BatchAssumption DEF StiLeft
    <3> QED BY <3>2, <3>3
  <2>2. /\ ifl' = TRUE /\ left > 0 /\ left' = StiLeft /\ half' = ~ifl /\ open' = 0
        /\ UNCHANGED <<intr, pic, halt, frames, work>>
    BY <1>6 DEF Sti
  <2>3. ~halt
    BY <2>2, Awake
  <2>4. CASE frames = <<>> /\ at = "idle"
    <3>1. at' = "armed" /\ half' = TRUE
      BY <1>6, <2>2, <2>4, <1>1 DEF Sti, WInv, Loop, Rest
    <3>2. WTypeOK'
      BY <1>1, <2>1, <2>2, <3>1 DEF WTypeOK, Rest, Stack, SavedFlags
    <3> QED BY <1>1, <2>1, <2>2, <2>3, <2>4, <3>1, <3>2 DEF WInv, Told, Asks, Asleep, Loop
  <2>5. CASE ~(frames = <<>> /\ at = "idle")
    <3>1. at' = "main" /\ at = "main"
      BY <1>6, <2>2, <2>5, Awake DEF Sti, WInv, Loop
    <3>2. half' \in BOOLEAN
      BY <1>1, <2>2 DEF Rest
    <3>3. WTypeOK'
      BY <1>1, <2>1, <2>2, <3>1, <3>2 DEF WTypeOK, Rest, Stack, SavedFlags
    <3> QED BY <1>1, <2>1, <2>2, <2>3, <3>1, <3>3 DEF WInv, Told, Asks, Asleep, Loop
  <2> QED BY <2>4, <2>5
<1>7. CASE Hlt
  <2>1. /\ frames = <<>> /\ at = "armed" /\ halt' = TRUE /\ at' = "main"
        /\ UNCHANGED <<ifl, intr, pic, frames, work>> /\ Retire(0, FALSE)
    BY <1>7 DEF Hlt
  <2>2. ifl /\ ~work
    BY <2>1 DEF WInv, Loop
  <2>3. left' = 0 /\ half' = FALSE
    BY <2>1 DEF Retire
  <2>4. left' \in 0 .. BATCH /\ open' \in 0 .. 2
    <3>1. 0 \in 0 .. left
      BY <1>2
    <3> QED BY <1>1, <2>1, <3>1, RetireType DEF Retired
  <2>5. WTypeOK'
    BY <1>1, <2>1, <2>3, <2>4 DEF WTypeOK, Rest, Stack, SavedFlags
  <2> QED BY <1>1, <2>1, <2>2, <2>3, <2>5 DEF WInv, Told, Asks, Asleep, Loop
<1>8. CASE Popf
  <2>1. left > 0 => AfterFlags \in 0 .. left
    BY <1>2 DEF AfterFlags
  <2>2. /\ Free /\ Retire(AfterFlags, FALSE) /\ ifl' \in BOOLEAN /\ left > 0
        /\ UNCHANGED <<intr, pic, halt, frames, at, work>>
    BY <1>8 DEF Popf, Retire, guestvars
  <2>3. Stack' /\ Told' /\ work' \in BOOLEAN /\ intr' \in BOOLEAN
        /\ pic' \subseteq {"waiting", "serving"}
    BY <1>1, <2>2 DEF Stack, Told, Asks, Rest
  <2>4. Retired
    BY <1>1, <2>1, <2>2, RetireType
  <2> QED BY <2>2, <2>3, <2>4, InPlaceKeeps
<1>9. CASE Iret
  <2>1. left > 0 => AfterFlags \in 0 .. left
    BY <1>2 DEF AfterFlags
  <2>2. /\ frames # <<>> /\ Retire(AfterFlags, FALSE) /\ left > 0
        /\ ifl' = Head(frames).ifl /\ frames' = Tail(frames)
        /\ UNCHANGED <<intr, pic, halt, at, work>>
    BY <1>9 DEF Iret, Retire
  <2>3. Stack' /\ ifl' \in BOOLEAN
    BY <1>1, <2>2, ReturnType DEF Stack
  <2>4. Told' /\ work' \in BOOLEAN /\ intr' \in BOOLEAN /\ pic' \subseteq {"waiting", "serving"}
    BY <1>1, <2>2 DEF Told, Asks, Rest
  <2>5. Retired /\ Free
    BY <1>1, <2>1, <2>2, RetireType DEF Free
  <2> QED BY <2>2, <2>3, <2>4, <2>5, InPlaceKeeps
<1>10. CASE LoadSs
  <2>1. /\ Free /\ Retire(SsLeft, TRUE) /\ left > 0 /\ SsLeft = left
        /\ UNCHANGED <<intr, pic, ifl, halt, frames, at, work>>
    BY <1>2, <1>10 DEF LoadSs, Retire, SsLeft, Window, guestvars
  <2>2. /\ Stack' /\ Told' /\ work' \in BOOLEAN /\ intr' \in BOOLEAN /\ ifl' \in BOOLEAN
        /\ pic' \subseteq {"waiting", "serving"}
    BY <1>1, <2>1 DEF Stack, Told, Asks, Rest
  <2>3. Retired
    BY <1>1, <2>1, HoldType
  <2> QED BY <2>1, <2>2, <2>3, InPlaceKeeps
<1>11. CASE Out
  <2>1. /\ Free /\ Retire(left - 1, FALSE) /\ left > 0 /\ (RaiseIrq \/ Withdraw)
        /\ UNCHANGED <<ifl, halt, frames, at, work>>
    BY <1>11 DEF Out, Retires, Retire, Window, guestvars
  <2>2. /\ Stack' /\ Told' /\ work' \in BOOLEAN /\ intr' \in BOOLEAN /\ ifl' \in BOOLEAN
        /\ pic' \subseteq {"waiting", "serving"}
    BY <1>1, <2>1 DEF Stack, Told, Asks, Rest, RaiseIrq, Withdraw
  <2>3. Retired
    <3>1. left - 1 \in 0 .. left
      BY <1>2, <2>1
    <3> QED BY <1>1, <2>1, <3>1, RetireType
  <2> QED BY <2>1, <2>2, <2>3, InPlaceKeeps
<1>12. CASE Eoi
  <2>1. /\ Free /\ Retire(left - 1, FALSE) /\ left > 0 /\ EndOfInterrupt /\ work' = TRUE
        /\ UNCHANGED <<ifl, halt, frames, at>>
    BY <1>12 DEF Eoi, Retires, Retire, Free
  <2>2. /\ Stack' /\ Told' /\ work' \in BOOLEAN /\ intr' \in BOOLEAN /\ ifl' \in BOOLEAN
        /\ pic' \subseteq {"waiting", "serving"}
    BY <1>1, <2>1 DEF Stack, Told, Asks, Rest, EndOfInterrupt
  <2>3. Retired
    <3>1. left - 1 \in 0 .. left
      BY <1>2, <2>1
    <3> QED BY <1>1, <2>1, <3>1, RetireType
  <2> QED BY <2>1, <2>2, <2>3, InPlaceKeeps
<1>13. ASSUME NEW n \in 0 .. left, NEW trap \in BOOLEAN, Free, Enter(FALSE, trap),
              Retire(n, FALSE), UNCHANGED <<intr, pic, halt, at, work>>
       PROVE  WInv'
  <2>1. Stack' /\ ifl' \in BOOLEAN
    BY <1>1, <1>13, EnterType DEF Stack
  <2>2. Told' /\ work' \in BOOLEAN /\ intr' \in BOOLEAN /\ pic' \subseteq {"waiting", "serving"}
    BY <1>1, <1>13 DEF Told, Asks, Rest
  <2>3. Retired
    BY <1>1, <1>13, RetireType
  <2> QED BY <1>13, <2>1, <2>2, <2>3, InPlaceKeeps
<1>14. CASE IntN
  <2>1. left > 0 /\ left - 1 \in 0 .. left
    BY <1>2, <1>14 DEF IntN, Retires, Retire
  <2> QED BY <1>13, <1>14, <2>1 DEF IntN, Retires
<1>15. CASE Fault
  <2>1. 0 \in 0 .. left
    BY <1>2
  <2>2. PICK trap \in BOOLEAN : Enter(FALSE, trap)
    BY <1>15 DEF Fault
  <2>3. Free /\ Retire(0, FALSE) /\ UNCHANGED <<intr, pic, halt, at, work>>
    BY <1>15 DEF Fault
  <2> QED BY <1>13, <2>1, <2>2, <2>3
<1> QED BY <1>3, <1>4, <1>5, <1>6, <1>7, <1>8, <1>9, <1>10, <1>11, <1>12, <1>14, <1>15
        DEF Instruction

LEMMA WSteps ==
    ASSUME WInv, [WNext]_wvars
    PROVE  WInv'
<1>1. CASE WNext
  BY <1>1, StepKeeps, InstructionKeeps, DeviceKeeps DEF WNext
<1>2. CASE UNCHANGED wvars
  BY <1>2 DEF wvars, WInv, WTypeOK, Told, Asks, Asleep, Loop
<1> QED BY <1>1, <1>2

(* The invariant holds of every reachable state. *)
THEOREM WInvariance == WSpec => []WInv
<1>1. WInv /\ [WNext]_wvars => WInv'
  BY WSteps
<1> QED BY <1>1, InitInv, PTL DEF WSpec

(* The flags, the batch and the stack have their types. *)
THEOREM WindowTypes == WSpec => []WTypeOK
<1>1. WInv => WTypeOK
  BY DEF WInv
<1> QED BY <1>1, WInvariance, PTL

(* No interrupt comes between the load of SS or an STI and the instruction   *)
(* behind it, and the guest never sleeps on work or on a request it was not  *)
(* told of (cpui386_step, STI, HLT and MOVSeg of i386.c).                    *)
THEOREM WindowsHold == WSpec => []NeverBetween
<1>1. WInv => NeverBetween
  BY DEF WInv, Told, Asleep, NeverBetween
<1> QED BY <1>1, WInvariance, PTL

-----------------------------------------------------------------------------
(* Kbc, for queues of any size: the status register and the lines tell what   *)
(* is queued, and no edge is lost between a line that is up and the handler    *)
(* that serves it.                                                          *)

ModeBits == Interrupts \cup {"nokbd"}

(* What the lines and the status register say of the devices with data.      *)
LEMMA LinesType ==
    ASSUME NEW p \in SUBSET Devices, NEW m \in SUBSET ModeBits
    PROVE  /\ LinesOf(p, m) \subseteq Devices /\ StatusOf(p) \subseteq {"obf", "mouse"}
           /\ "kbd" \in LinesOf(p, m) => "kbd" \in p
           /\ "aux" \in LinesOf(p, m) => p = {"aux"}
           /\ p = {"aux"} => "mouse" \in StatusOf(p)
<1>1. CASE p = {}
  BY <1>1 DEF LinesOf, StatusOf
<1>2. CASE p = {"aux"}
  BY <1>2 DEF LinesOf, StatusOf, Devices
<1>3. CASE p # {} /\ p # {"aux"}
  <2>1. "kbd" \in p
    BY <1>3 DEF Devices
  <2>2. LinesOf(p, m) \subseteq {"kbd"} /\ StatusOf(p) = {"obf"}
    BY <1>3 DEF LinesOf, StatusOf
  <2> QED BY <1>3, <2>1, <2>2 DEF Devices
<1> QED BY <1>1, <1>2, <1>3

(* A queue that meets its limit is cut, and is empty only if nothing came.   *)
LEMMA KeptType ==
    ASSUME QUEUE \in Nat \ {0}, NEW q \in Seq(Labels)
    PROVE  /\ Kept(q) \in Seq(Labels) /\ Len(Kept(q)) <= QUEUE
           /\ Kept(q) = <<>> <=> q = <<>>
<1>1. Len(q) \in Nat /\ (q = <<>> <=> Len(q) = 0)
  BY LenProperties, EmptySeq
<1>2. CASE Len(q) > QUEUE
  <2>1. \A i \in 1 .. QUEUE : q[i] \in Labels
    BY <1>1, <1>2, ElementOfSeq
  <2>2. /\ SubSeq(q, 1, QUEUE) \in Seq(Labels)
        /\ Len(SubSeq(q, 1, QUEUE)) = IF 1 <= QUEUE THEN QUEUE - 1 + 1 ELSE 0
    BY <2>1, SubSeqProperties
  <2>3. Len(SubSeq(q, 1, QUEUE)) = QUEUE /\ Kept(q) = SubSeq(q, 1, QUEUE)
    BY <1>2, <2>2 DEF Kept
  <2>4. Kept(q) # <<>>
    BY <2>2, <2>3, EmptySeq
  <2> QED BY <1>1, <1>2, <2>2, <2>3, <2>4
<1>3. CASE ~(Len(q) > QUEUE)
  BY <1>1, <1>3 DEF Kept
<1> QED BY <1>2, <1>3

(* The codes and answers that are queued.                                     *)
LEMMA ByteKinds ==
    /\ <<>> \in Seq(Labels)
    /\ \A b \in Labels : <<b>> \in Seq(Labels) /\ <<b>> # <<>>
    /\ \A b, c \in Labels : <<b>> \o <<c>> \in Seq(Labels) /\ <<b>> \o <<c>> # <<>>
<1>1. <<>> \in Seq(Labels)
  BY EmptySeq
<1>2. \A b \in Labels : <<b>> \in Seq(Labels) /\ Len(<<b>>) = 1 /\ <<b>> # <<>>
  OBVIOUS
<1>3. \A b, c \in Labels : <<b>> \o <<c>> \in Seq(Labels) /\ Len(<<b>> \o <<c>>) = 2
  BY <1>2, ConcatProperties
<1>4. \A b, c \in Labels : <<b>> \o <<c>> # <<>>
  BY <1>3, EmptySeq
<1> QED BY <1>1, <1>2, <1>3, <1>4

LEMMA Replies ==
    ASSUME NEW n \in 1 .. 3
    PROVE  [i \in 1 .. n |-> "reply"] \in Seq(Labels) /\ [i \in 1 .. n |-> "reply"] # <<>>
<1> DEFINE s == [i \in 1 .. n |-> "reply"]
<1>1. s \in [1 .. n -> Labels] /\ n \in Nat
  BY DEF Labels
<1>2. s \in Seq(Labels)
  BY <1>1, SeqDef
<1>3. DOMAIN s = 1 .. n /\ 1 \in DOMAIN s
  OBVIOUS
<1>4. DOMAIN s = 1 .. Len(s)
  BY <1>2, LenProperties
<1>5. s # <<>>
  BY <1>3, <1>4, EmptySeq
<1> QED BY <1>2, <1>5

(***************************************************************************)
(* The invariant: types, the status register, and the edges.  Its parts      *)
(* about the bits and about the queues are kept apart for the provers.      *)
(***************************************************************************)
FullBits == /\ pending \subseteq Devices /\ obf \subseteq {"obf", "mouse"}
            /\ mode \subseteq ModeBits /\ lines \subseteq Devices /\ latch \subseteq Devices
Queues == kbdq \in Seq(Labels) /\ Len(kbdq) <= QUEUE /\ auxn \in 0 .. QUEUE
Others == /\ await \in {"key", "mode", "obuf", "aux", "mouse", "out"}
          /\ delayed \in BOOLEAN /\ stream \in BOOLEAN
          /\ guest \in {"main", "kbd", "aux", "auxread"}
          /\ spent \in 0 .. BUDGET /\ lost \in BOOLEAN /\ prefix \in BOOLEAN
Counted == /\ "kbd" \in pending <=> kbdq # <<>>
           /\ "aux" \in pending <=> auxn > 0
StatusShown == obf = StatusOf(pending) /\ lines = LinesOf(pending, mode)
KInv == FullBits /\ Queues /\ Others /\ Counted /\ StatusShown /\ NoLostWakeup

LEMMA Parts ==
    /\ KTypeOK <=> FullBits /\ Queues /\ Others
    /\ StatusTellsQueues <=> Counted /\ StatusShown
BY DEF KTypeOK, StatusTellsQueues, FullBits, Queues, Others, Counted, StatusShown, ModeBits

(* kbd_update_irq latches each line it raises and shows what is pending.      *)
LEMMA UpdateKeeps ==
    ASSUME FullBits, NoLostWakeup, NEW p \in SUBSET Devices, NEW m \in SUBSET ModeBits,
           UpdateIrq(p, m), mode' = m, guest' = guest
    PROVE  FullBits' /\ StatusShown' /\ NoLostWakeup' /\ pending' = p
<1>1. /\ pending' = p /\ obf' = StatusOf(p) /\ lines' = LinesOf(p, m)
      /\ latch' = latch \cup (LinesOf(p, m) \ lines)
  BY DEF UpdateIrq
<1>2. LinesOf(p, m) \subseteq Devices /\ StatusOf(p) \subseteq {"obf", "mouse"}
  BY LinesType
<1>3. FullBits'
  BY <1>1, <1>2 DEF FullBits
<1>4. StatusShown'
  BY <1>1 DEF StatusShown
<1>5. NoLostWakeup'
  BY <1>1 DEF NoLostWakeup
<1> QED BY <1>1, <1>3, <1>4, <1>5

(* ps2_queue keeps what the status register tells in step with the queue.     *)
LEMMA QueueKbdKeeps ==
    ASSUME KInv, QUEUE \in Nat \ {0}, NEW s \in Seq(Labels), s # <<>>, QueueKbd(s),
           mode' = mode, guest' = guest
    PROVE  FullBits' /\ Queues' /\ Counted' /\ StatusShown' /\ NoLostWakeup' /\ lost' \in BOOLEAN
<1> DEFINE p == pending \cup (IF Len(kbdq) < QUEUE THEN {"kbd"} ELSE {})
<1>1. /\ kbdq' = Kept(kbdq \o s) /\ UpdateIrq(p, mode) /\ auxn' = auxn
      /\ lost' = (lost \/ Len(kbdq) + Len(s) > QUEUE)
  BY DEF QueueKbd
<1>2. FullBits /\ Queues /\ Counted /\ NoLostWakeup
  BY DEF KInv
<1>3. p \in SUBSET Devices /\ mode \in SUBSET ModeBits
  BY <1>2 DEF FullBits, Devices
<1>4. FullBits' /\ StatusShown' /\ NoLostWakeup' /\ pending' = p
  BY <1>1, <1>2, <1>3, UpdateKeeps
<1>5. kbdq \o s \in Seq(Labels) /\ kbdq \o s # <<>>
  BY <1>2, ConcatProperties, ConcatEqualIffEmpty DEF Queues
<1>6. Queues' /\ kbdq' # <<>>
  BY <1>1, <1>2, <1>5, KeptType DEF Queues
<1>7. Len(kbdq) < QUEUE \/ kbdq # <<>>
  BY <1>2, EmptySeq DEF Queues
<1>8. "kbd" \in p /\ ("aux" \in p <=> "aux" \in pending)
  BY <1>2, <1>7 DEF Counted
<1>9. Counted'
  BY <1>1, <1>2, <1>4, <1>6, <1>8 DEF Counted
<1>10. lost' \in BOOLEAN
  BY <1>1
<1> QED BY <1>4, <1>6, <1>9, <1>10

LEMMA QueueAuxKeeps ==
    ASSUME KInv, QUEUE \in Nat \ {0}, NEW n \in Nat, QueueAux(n),
           mode' = mode, guest' = guest
    PROVE  FullBits' /\ Queues' /\ Counted' /\ StatusShown' /\ NoLostWakeup' /\ lost' \in BOOLEAN
<1> DEFINE p == pending \cup (IF n = 0 \/ auxn = QUEUE THEN {} ELSE {"aux"})
<1>1. /\ auxn' = IF auxn + n > QUEUE THEN QUEUE ELSE auxn + n
      /\ UpdateIrq(p, mode) /\ kbdq' = kbdq /\ lost' = lost
  BY DEF QueueAux
<1>2. FullBits /\ Queues /\ Counted /\ NoLostWakeup /\ lost \in BOOLEAN
  BY DEF KInv, Others
<1>3. p \in SUBSET Devices /\ mode \in SUBSET ModeBits
  BY <1>2 DEF FullBits, Devices
<1>4. FullBits' /\ StatusShown' /\ NoLostWakeup' /\ pending' = p
  BY <1>1, <1>2, <1>3, UpdateKeeps
<1>5. auxn \in 0 .. QUEUE
  BY <1>2 DEF Queues
<1>6. auxn' \in 0 .. QUEUE /\ (auxn' > 0 <=> auxn > 0 \/ n # 0)
  BY <1>1, <1>5
<1>7. "aux" \in p <=> auxn > 0 \/ n # 0
  BY <1>2, <1>5 DEF Counted
<1>8. "kbd" \in p <=> "kbd" \in pending
  OBVIOUS
<1>9. Queues' /\ Counted'
  BY <1>1, <1>2, <1>4, <1>6, <1>7, <1>8 DEF Queues, Counted
<1> QED BY <1>1, <1>2, <1>4, <1>9

(* A read lowers the line and raises it again for what is left, so that every *)
(* line that is up after it has made an edge.                               *)
LEMMA TakenLatches ==
    ASSUME FullBits, StatusShown, NEW d \in pending, d = "aux" => pending = {"aux"},
           NEW more \in BOOLEAN, Taken(d, more), mode' = mode
    PROVE  /\ FullBits' /\ StatusShown' /\ lines' \subseteq latch'
           /\ pending' = (IF more THEN pending ELSE pending \ {d})
<1> DEFINE rest == pending \ {d}
           between == LinesOf(rest, mode)
           p == rest \cup (IF more THEN {d} ELSE {})
<1>1. /\ pending' = p /\ obf' = StatusOf(p) /\ lines' = LinesOf(p, mode)
      /\ latch' = latch \cup (between \ lines) \cup (LinesOf(p, mode) \ between)
  BY DEF Taken
<1>2. /\ pending \in SUBSET Devices /\ p \in SUBSET Devices /\ rest \in SUBSET Devices
      /\ mode \in SUBSET ModeBits /\ lines = LinesOf(pending, mode) /\ latch \subseteq Devices
  BY DEF FullBits, StatusShown
<1>3. p = (IF more THEN pending ELSE rest)
  OBVIOUS
<1>4. between \subseteq rest /\ between \subseteq Devices
  BY <1>2, LinesType DEF Devices
<1>5. LinesOf(p, mode) \subseteq Devices /\ StatusOf(p) \subseteq {"obf", "mouse"}
  BY <1>2, LinesType
<1>6. LinesOf(p, mode) \subseteq latch'
  <2> SUFFICES ASSUME NEW l \in LinesOf(p, mode), l \in between PROVE l \in between \ lines
    BY <1>1
  <2>1. l # d
    BY <1>4
  <2>2. CASE l \in lines
    <3>1. (d = "kbd" /\ l = "aux") \/ (d = "aux" /\ l = "kbd")
      <4>1. d \in Devices
        BY <1>2
      <4>2. l \in Devices
        BY <1>4
      <4> QED BY <4>1, <4>2, <2>1 DEF Devices
    <3>2. d = "aux" => l \in {"aux"}
      BY <1>4
    <3>3. l = "aux" => pending = {"aux"}
      BY <1>2, <2>2, LinesType
    <3> QED BY <3>1, <3>2, <3>3
  <2> QED BY <2>2
<1>7. FullBits'
  BY <1>1, <1>2, <1>4, <1>5 DEF FullBits
<1> HIDE DEF p, rest, between
<1>8. StatusShown'
  BY <1>1 DEF StatusShown
<1> QED BY <1>1, <1>3, <1>6, <1>7, <1>8 DEF rest

LEMMA ReadLatches ==
    ASSUME KInv, QUEUE \in Nat \ {0}, ReadData
    PROVE  FullBits' /\ Queues' /\ Counted' /\ StatusShown' /\ lines' \subseteq latch' /\ prefix' \in BOOLEAN
<1>1. FullBits /\ Queues /\ Counted /\ StatusShown /\ prefix \in BOOLEAN /\ mode' = mode
  BY DEF KInv, Others, ReadData
<1>2. pending \subseteq {"kbd", "aux"} /\ kbdq \in Seq(Labels) /\ auxn \in 0 .. QUEUE
  BY <1>1 DEF FullBits, Queues, Devices
<1>3. CASE Reader = "aux" /\ auxn > 0 /\ auxn' = auxn - 1 /\ Taken("aux", auxn > 1)
           /\ UNCHANGED <<kbdq, prefix>>
  <2>1. pending = {"aux"}
    BY <1>3 DEF Reader
  <2> DEFINE more == auxn > 1
  <2>2. more \in BOOLEAN /\ Taken("aux", more)
    BY <1>3
  <2> HIDE DEF more
  <2>3. /\ FullBits' /\ StatusShown' /\ lines' \subseteq latch'
        /\ pending' = (IF more THEN pending ELSE pending \ {"aux"})
    BY <1>1, <2>1, <2>2, TakenLatches
  <2>4. auxn' \in 0 .. QUEUE /\ (auxn' > 0 <=> more)
    BY <1>2, <1>3 DEF more
  <2>5. Counted' /\ Queues'
    BY <1>1, <1>3, <2>1, <2>3, <2>4 DEF Counted, Queues
  <2> QED BY <1>1, <1>3, <2>3, <2>5
<1>4. CASE Reader = "kbd" /\ kbdq # <<>> /\ kbdq' = Tail(kbdq) /\ Taken("kbd", Len(kbdq) > 1)
           /\ prefix' = (IF Head(kbdq) = "reply" THEN prefix ELSE Head(kbdq) = "e0")
           /\ UNCHANGED auxn
  <2>1. "kbd" \in pending
    BY <1>1, <1>4 DEF Counted
  <2> DEFINE more == Len(kbdq) > 1
  <2>2. more \in BOOLEAN /\ Taken("kbd", more)
    BY <1>4
  <2> HIDE DEF more
  <2>3. /\ FullBits' /\ StatusShown' /\ lines' \subseteq latch'
        /\ pending' = (IF more THEN pending ELSE pending \ {"kbd"})
    BY <1>1, <2>1, <2>2, TakenLatches
  <2>4. /\ Tail(kbdq) \in Seq(Labels) /\ Len(Tail(kbdq)) = Len(kbdq) - 1
        /\ Len(kbdq) \in Nat /\ Len(Tail(kbdq)) \in Nat
    BY <1>2, <1>4, HeadTailProperties, LenProperties
  <2>5. Tail(kbdq) # <<>> <=> more
    <3>1. Tail(kbdq) = <<>> <=> Len(Tail(kbdq)) = 0
      BY <2>4, EmptySeq
    <3>2. Len(Tail(kbdq)) # 0 <=> more
      BY <2>4 DEF more
    <3> QED BY <3>1, <3>2
  <2>6. Counted' /\ Queues'
    BY <1>1, <1>4, <2>1, <2>3, <2>4, <2>5 DEF Counted, Queues
  <2> QED BY <1>1, <1>4, <2>3, <2>6
<1>5. CASE /\ Reader = "kbd" /\ kbdq = <<>>
           /\ UNCHANGED <<kbdq, auxn, prefix, pending, obf, lines, latch>>
  <2>1. pending = {}
    BY <1>1, <1>2, <1>5 DEF Reader, Counted
  <2>2. lines = {}
    BY <1>1, <2>1 DEF StatusShown, LinesOf
  <2> QED BY <1>1, <1>5, <2>2 DEF FullBits, Queues, Counted, StatusShown
<1> QED BY <1>3, <1>4, <1>5 DEF ReadData

(***************************************************************************)
(* Every step keeps the invariant.                                         *)
(***************************************************************************)
LEMMA KeyKeeps ==
    ASSUME KInv, QUEUE \in Nat \ {0}, BUDGET \in Nat, NEW e \in BOOLEAN, Key(e)
    PROVE  KInv'
<1>1. Others /\ delayed \in BOOLEAN
  BY DEF KInv, Others
<1> DEFINE first == IF delayed THEN <<"ext">> ELSE <<>>
           code == IF e THEN <<"e0">> ELSE <<"key">>
           s == first \o code
<1>2. /\ spent < BUDGET /\ spent' = spent + 1 /\ QueueKbd(s) /\ delayed' = e
      /\ UNCHANGED <<mode, await, stream, guest, prefix>>
  BY DEF Key, Spend, PutKeycode, Quiet
<1>3. s \in Seq(Labels) /\ s # <<>>
  <2>1. code \in {<<"e0">>, <<"key">>} /\ code \in Seq(Labels) /\ code # <<>>
    BY ByteKinds DEF Labels
  <2>2. first \in Seq(Labels)
    BY ByteKinds DEF Labels
  <2> QED BY <2>1, <2>2, ConcatProperties, ConcatEqualIffEmpty
<1> HIDE DEF s
<1>4. FullBits' /\ Queues' /\ Counted' /\ StatusShown' /\ NoLostWakeup' /\ lost' \in BOOLEAN
  BY <1>2, <1>3, QueueKbdKeeps
<1>5. Others'
  BY <1>1, <1>2, <1>4 DEF Others
<1> QED BY <1>4, <1>5 DEF KInv

LEMMA KbdStepKeeps ==
    ASSUME KInv, QUEUE \in Nat \ {0}, KbdStep
    PROVE  KInv'
<1>1. FullBits /\ Queues /\ Counted /\ NoLostWakeup /\ Others /\ auxn \in 0 .. QUEUE
  BY DEF KInv, Queues
<1>2. PICK due \in {FALSE, delayed} :
          LET code == IF due THEN <<"ext">> ELSE <<>>
          IN  /\ kbdq' = Kept(kbdq \o code)
              /\ lost' = (lost \/ Len(kbdq \o code) > QUEUE)
              /\ delayed' = (delayed /\ ~due)
              /\ UpdateIrq(pending \cup (IF kbdq' = <<>> THEN {} ELSE {"kbd"})
                                   \cup (IF auxn = 0 THEN {} ELSE {"aux"}), mode)
              /\ Quiet /\ UNCHANGED <<auxn, spent>>
  BY DEF KbdStep
<1> DEFINE code == IF due THEN <<"ext">> ELSE <<>>
           p == pending \cup (IF kbdq' = <<>> THEN {} ELSE {"kbd"})
                        \cup (IF auxn = 0 THEN {} ELSE {"aux"})
<1>3. code \in Seq(Labels) /\ kbdq \in Seq(Labels)
  BY <1>1, ByteKinds DEF Labels, Queues
<1>4. kbdq \o code \in Seq(Labels) /\ (kbdq \o code = <<>> => kbdq = <<>>)
  BY <1>3, ConcatProperties, ConcatEqualIffEmpty
<1>5. /\ kbdq' = Kept(kbdq \o code) /\ UpdateIrq(p, mode) /\ lost' \in BOOLEAN
      /\ delayed' \in BOOLEAN /\ UNCHANGED <<mode, await, stream, guest, prefix, auxn, spent>>
  BY <1>2 DEF Quiet
<1> HIDE DEF code
<1>6. Queues' /\ (kbdq' = <<>> => kbdq = <<>>)
  BY <1>1, <1>4, <1>5, KeptType DEF Queues
<1>7. p \in SUBSET Devices /\ mode \in SUBSET ModeBits
  BY <1>1 DEF FullBits, Devices
<1>8. ("kbd" \in p <=> kbdq' # <<>>) /\ ("aux" \in p <=> auxn > 0)
  BY <1>1, <1>6 DEF Counted
<1> HIDE DEF p
<1>9. FullBits' /\ StatusShown' /\ NoLostWakeup' /\ pending' = p
  BY <1>1, <1>5, <1>7, UpdateKeeps
<1>10. Counted' /\ Others'
  BY <1>1, <1>5, <1>8, <1>9 DEF Counted, Others
<1> QED BY <1>6, <1>9, <1>10 DEF KInv

LEMMA MouseKeeps ==
    ASSUME KInv, QUEUE \in Nat \ {0}, BUDGET \in Nat, MouseEvent
    PROVE  KInv'
<1>1. PICK n \in {3, 4} : QueueAux(n)
  BY DEF MouseEvent
<1>2. /\ spent < BUDGET /\ spent' = spent + 1
      /\ UNCHANGED <<mode, await, stream, guest, prefix, delayed>>
  BY DEF MouseEvent, Spend, Quiet
<1>3. FullBits' /\ Queues' /\ Counted' /\ StatusShown' /\ NoLostWakeup' /\ lost' \in BOOLEAN
  BY <1>1, <1>2, QueueAuxKeeps
<1>4. Others'
  BY <1>2, <1>3 DEF KInv, Others
<1> QED BY <1>3, <1>4 DEF KInv

(* The guest's commands: an answer is queued, or the mode is changed, or the  *)
(* controller only remembers what the next data byte is.                    *)
LEMMA SettledKeeps ==
    ASSUME KInv, UNCHANGED <<kbdq, auxn, pending, obf, mode, lines, latch, lost, guest>>
    PROVE  FullBits' /\ Queues' /\ Counted' /\ StatusShown' /\ NoLostWakeup' /\ lost' \in BOOLEAN
BY DEF KInv, FullBits, Queues, Counted, StatusShown, NoLostWakeup, Others

LEMMA ModeKeeps ==
    ASSUME KInv, NEW m \in SUBSET ModeBits, mode' = m, UpdateIrq(pending, m),
           UNCHANGED <<kbdq, auxn, lost, guest>>
    PROVE  FullBits' /\ Queues' /\ Counted' /\ StatusShown' /\ NoLostWakeup' /\ lost' \in BOOLEAN
<1>1. FullBits /\ NoLostWakeup /\ pending \in SUBSET Devices
  BY DEF KInv, FullBits
<1>2. FullBits' /\ StatusShown' /\ NoLostWakeup' /\ pending' = pending
  BY <1>1, UpdateKeeps
<1> QED BY <1>2 DEF KInv, Queues, Counted, Others

LEMMA CommandKeeps ==
    ASSUME KInv, QUEUE \in Nat \ {0}, BUDGET \in Nat, WriteCommand
    PROVE  KInv'
<1>1. /\ spent < BUDGET /\ spent' = spent + 1
      /\ UNCHANGED <<delayed, stream, guest, prefix>>
  BY DEF WriteCommand, Spend
<1>2. Others /\ FullBits
  BY DEF KInv
<1>3. /\ FullBits' /\ Queues' /\ Counted' /\ StatusShown' /\ NoLostWakeup' /\ lost' \in BOOLEAN
      /\ await' \in {"key", "mode", "obuf", "aux", "mouse", "out"}
  <2>1. CASE QueueKbd(<<"reply">>) /\ UNCHANGED <<mode, await>>
    <3>1. <<"reply">> \in Seq(Labels) /\ <<"reply">> # <<>>
      BY ByteKinds DEF Labels
    <3> QED BY <1>1, <1>2, <2>1, <3>1, QueueKbdKeeps DEF Others
  <2>2. CASE /\ \E c \in DOMAIN AwaitedBy : await' = AwaitedBy[c]
             /\ UNCHANGED <<kbdq, auxn, pending, obf, mode, lines, latch, lost>>
    <3>1. await' \in {"key", "mode", "obuf", "aux", "mouse", "out"}
      BY <2>2 DEF AwaitedBy
    <3> QED BY <1>1, <2>2, <3>1, SettledKeeps
  <2>3. CASE /\ \E m \in {mode \cup {"nokbd"}, mode \ {"nokbd"}} :
                    mode' = m /\ UpdateIrq(pending, m)
             /\ UNCHANGED <<kbdq, auxn, await, lost>>
    <3>1. PICK m \in {mode \cup {"nokbd"}, mode \ {"nokbd"}} :
              mode' = m /\ UpdateIrq(pending, m)
      BY <2>3
    <3>2. m \in SUBSET ModeBits
      BY <1>2 DEF FullBits, ModeBits
    <3> QED BY <1>1, <1>2, <2>3, <3>1, <3>2, ModeKeeps DEF Others
  <2> QED BY <2>1, <2>2, <2>3 DEF WriteCommand
<1>4. Others'
  BY <1>1, <1>2, <1>3 DEF Others
<1> QED BY <1>3, <1>4 DEF KInv

LEMMA DataKeeps ==
    ASSUME KInv, QUEUE \in Nat \ {0}, BUDGET \in Nat, WriteData
    PROVE  KInv'
<1>1. /\ spent < BUDGET /\ spent' = spent + 1 /\ await' = "key"
      /\ UNCHANGED <<delayed, guest, prefix>>
  BY DEF WriteData, Spend
<1>2. Others /\ FullBits
  BY DEF KInv
<1>3. /\ FullBits' /\ Queues' /\ Counted' /\ StatusShown' /\ NoLostWakeup' /\ lost' \in BOOLEAN
      /\ stream' \in BOOLEAN
  <2>1. CASE (\E n \in 1 .. 3 : QueueKbd([i \in 1 .. n |-> "reply"])) /\ UNCHANGED <<mode, stream>>
    <3>1. PICK n \in 1 .. 3 : QueueKbd([i \in 1 .. n |-> "reply"])
      BY <2>1
    <3> DEFINE s == [i \in 1 .. n |-> "reply"]
    <3>2. s \in Seq(Labels) /\ s # <<>> /\ QueueKbd(s)
      BY <3>1, Replies
    <3> HIDE DEF s
    <3> QED BY <1>1, <1>2, <2>1, <3>2, QueueKbdKeeps DEF Others
  <2>2. CASE /\ \E m \in SUBSET (Interrupts \cup {"nokbd"}) : mode' = m /\ UpdateIrq(pending, m)
             /\ UNCHANGED <<kbdq, auxn, stream, lost>>
    BY <1>1, <1>2, <2>2, ModeKeeps DEF ModeBits, Others
  <2>3. CASE QueueKbd(<<"reply">>) /\ UNCHANGED <<mode, stream>>
    <3>1. <<"reply">> \in Seq(Labels) /\ <<"reply">> # <<>>
      BY ByteKinds DEF Labels
    <3> QED BY <1>1, <1>2, <2>3, <3>1, QueueKbdKeeps DEF Others
  <2>4. CASE QueueAux(1) /\ UNCHANGED <<mode, stream>>
    BY <1>1, <1>2, <2>4, QueueAuxKeeps DEF Others
  <2>5. CASE (\E n \in 0 .. 4 : QueueAux(n)) /\ stream' \in BOOLEAN /\ UNCHANGED mode
    <3>1. PICK n \in 0 .. 4 : QueueAux(n)
      BY <2>5
    <3>2. n \in Nat
      OBVIOUS
    <3> QED BY <1>1, <2>5, <3>1, <3>2, QueueAuxKeeps
  <2>6. CASE UNCHANGED <<kbdq, auxn, pending, obf, mode, lines, latch, stream, lost>>
    BY <1>1, <1>2, <2>6, SettledKeeps DEF Others
  <2> QED BY <2>1, <2>2, <2>3, <2>4, <2>5, <2>6 DEF WriteData
<1>4. Others'
  BY <1>1, <1>2, <1>3 DEF Others
<1> QED BY <1>3, <1>4 DEF KInv

(* The handlers: entering one uses the edge up, reading gives a new one.      *)
LEMMA HandlerKeeps ==
    ASSUME KInv, QUEUE \in Nat \ {0}, Handler \/ Poll
    PROVE  KInv'
<1>1. FullBits /\ Queues /\ Others /\ Counted /\ StatusShown /\ NoLostWakeup
  BY DEF KInv
<1>2. ASSUME NEW d \in Devices, TakeIrq(d) PROVE KInv'
  <2>1. /\ d \in latch /\ guest = "main" /\ guest' = d /\ latch' = latch \ {d}
        /\ UNCHANGED <<kbdq, auxn, pending, obf, mode, lines, await, delayed, stream, spent,
                       lost, prefix>>
    BY <1>2 DEF TakeIrq
  <2>2. NoLostWakeup'
    BY <1>1, <2>1 DEF NoLostWakeup
  <2>3. Others' /\ FullBits'
    BY <1>1, <2>1 DEF Others, FullBits, Devices
  <2>4. Queues' /\ Counted' /\ StatusShown'
    BY <1>1, <2>1 DEF Queues, Counted, StatusShown
  <2> QED BY <2>2, <2>3, <2>4 DEF KInv
<1>3. CASE AuxLook
  <2>1. /\ guest = "aux" /\ guest' = (IF "mouse" \in obf THEN "auxread" ELSE "main")
        /\ UNCHANGED <<kbdq, auxn, pending, obf, mode, lines, latch, await, delayed, stream,
                       spent, lost, prefix>>
    BY <1>3 DEF AuxLook
  <2>2. "aux" \in lines => "mouse" \in obf
    BY <1>1, LinesType DEF FullBits, StatusShown
  <2>3. NoLostWakeup'
    BY <1>1, <2>1, <2>2 DEF NoLostWakeup
  <2>4. Others' /\ FullBits' /\ Queues' /\ Counted' /\ StatusShown'
    BY <1>1, <2>1 DEF Others, FullBits, Queues, Counted, StatusShown
  <2> QED BY <2>3, <2>4 DEF KInv
<1>4. ASSUME ReadData, spent' = spent, guest' = "main" PROVE KInv'
  <2>1. /\ FullBits' /\ Queues' /\ Counted' /\ StatusShown' /\ lines' \subseteq latch'
        /\ prefix' \in BOOLEAN
    BY <1>4, ReadLatches
  <2>2. UNCHANGED <<await, delayed, stream, lost>>
    BY <1>4 DEF ReadData
  <2>3. NoLostWakeup' /\ Others'
    BY <1>1, <1>4, <2>1, <2>2 DEF NoLostWakeup, Others
  <2> QED BY <2>1, <2>3 DEF KInv
<1> QED BY <1>2, <1>3, <1>4 DEF Handler, Serve, Poll

LEMMA KStarts ==
    ASSUME QUEUE \in Nat \ {0}, BUDGET \in Nat, KInit
    PROVE  KInv
<1>1. Queues
  BY EmptySeq DEF KInit, Queues
<1>2. FullBits /\ Others
  <2>1. FullBits
    BY DEF KInit, FullBits, Interrupts, ModeBits
  <2>2. spent \in 0 .. BUDGET /\ await = "key" /\ guest = "main"
    BY DEF KInit
  <2>3. delayed \in BOOLEAN /\ stream \in BOOLEAN /\ lost \in BOOLEAN /\ prefix \in BOOLEAN
    BY DEF KInit
  <2> QED BY <2>1, <2>2, <2>3 DEF Others
<1>3. Counted /\ StatusShown /\ NoLostWakeup
  BY DEF KInit, Counted, StatusShown, NoLostWakeup, StatusOf, LinesOf
<1> QED BY <1>1, <1>2, <1>3 DEF KInv

LEMMA KSteps ==
    ASSUME QUEUE \in Nat \ {0}, BUDGET \in Nat, KInv, [KNext]_kvars
    PROVE  KInv'
<1>1. CASE KNext
  BY <1>1, HandlerKeeps, CommandKeeps, DataKeeps, KbdStepKeeps, MouseKeeps, KeyKeeps DEF KNext
<1>2. CASE UNCHANGED kvars
  BY <1>2 DEF kvars, KInv, FullBits, Queues, Others, Counted, StatusShown, NoLostWakeup
<1> QED BY <1>1, <1>2

(* The invariant holds of every reachable state, for every size of the queues *)
(* and any number of keys, motions and commands.                            *)
THEOREM KInvariance ==
    ASSUME QUEUE \in Nat \ {0}, BUDGET \in Nat
    PROVE  KSpec => []KInv
<1>1. KInit => KInv
  BY KStarts
<1>2. KInv /\ [KNext]_kvars => KInv'
  BY KSteps
<1> QED BY <1>1, <1>2, PTL DEF KSpec

(* The status register and the lines tell what is queued (kbd_update_irq).    *)
THEOREM StatusIsTrue ==
    ASSUME QUEUE \in Nat \ {0}, BUDGET \in Nat
    PROVE  KSpec => [](KTypeOK /\ StatusTellsQueues)
<1>1. KInv => KTypeOK /\ StatusTellsQueues
  BY Parts DEF KInv
<1> QED BY <1>1, KInvariance, PTL

(* A line that is up is latched, or its handler is about to read: no byte is  *)
(* ever stuck behind an edge that was not made (ps2_read_data).              *)
THEOREM EdgesSuffice ==
    ASSUME QUEUE \in Nat \ {0}, BUDGET \in Nat
    PROVE  KSpec => []NoLostWakeup
<1>1. KInv => NoLostWakeup
  BY DEF KInv
<1> QED BY <1>1, KInvariance, PTL

(* PrefixKept: what is appended goes on where the queue ends, and what is taken  *)
(* leaves the rest of it.                                                    *)
LEMMA PairsNone == ASSUME NEW b \in BOOLEAN PROVE Pairs(b, <<>>, b)
<1> DEFINE waiting == [i \in 0 .. 0 |-> b]
<1>1. Len(<<>>) = 0 /\ waiting \in [0 .. 0 -> BOOLEAN] /\ waiting[0] = b
  BY EmptySeq
<1> HIDE DEF waiting
<1> QED BY <1>1 DEF Pairs

LEMMA PairsOne ==
    ASSUME NEW b \in BOOLEAN, NEW a \in BOOLEAN, NEW x, Reads(b, x, a)
    PROVE  Pairs(b, <<x>>, a)
<1> DEFINE waiting == [i \in 0 .. 1 |-> IF i = 0 THEN b ELSE a]
<1>1. Len(<<x>>) = 1 /\ <<x>>[1] = x
  OBVIOUS
<1>2. waiting \in [0 .. 1 -> BOOLEAN] /\ waiting[0] = b /\ waiting[1] = a
  OBVIOUS
<1> HIDE DEF waiting
<1>3. \A i \in 1 .. 1 : Reads(waiting[i - 1], <<x>>[i], waiting[i])
  BY <1>1, <1>2
<1> QED BY <1>1, <1>2, <1>3 DEF Pairs

LEMMA PairsReplies ==
    ASSUME NEW b \in BOOLEAN, NEW n \in 1 .. 3
    PROVE  Pairs(b, [i \in 1 .. n |-> "reply"], b)
<1> DEFINE s == [i \in 1 .. n |-> "reply"]
           waiting == [i \in 0 .. n |-> b]
<1>1. Len(s) = n
  <2>1. s \in Seq(Labels) /\ DOMAIN s = 1 .. n
    BY Replies
  <2>2. DOMAIN s = 1 .. Len(s) /\ Len(s) \in Nat
    BY <2>1, LenProperties
  <2> QED BY <2>1, <2>2
<1>2. waiting \in [0 .. n -> BOOLEAN] /\ waiting[0] = b /\ waiting[n] = b
  OBVIOUS
<1>3. \A i \in 1 .. n : Reads(waiting[i - 1], s[i], waiting[i])
  BY DEF Reads
<1> HIDE DEF waiting, s
<1>4. Pairs(b, s, b)
  BY <1>1, <1>2, <1>3 DEF Pairs
<1> QED BY <1>4 DEF s

LEMMA PairsJoin ==
    ASSUME NEW b, NEW m, NEW a, NEW s \in Seq(Labels), NEW t \in Seq(Labels),
           Pairs(b, s, m), Pairs(m, t, a)
    PROVE  Pairs(b, s \o t, a)
<1>1. PICK f \in [0 .. Len(s) -> BOOLEAN] :
          /\ f[0] = b /\ f[Len(s)] = m
          /\ \A i \in 1 .. Len(s) : Reads(f[i - 1], s[i], f[i])
  BY DEF Pairs
<1>2. PICK g \in [0 .. Len(t) -> BOOLEAN] :
          /\ g[0] = m /\ g[Len(t)] = a
          /\ \A i \in 1 .. Len(t) : Reads(g[i - 1], t[i], g[i])
  BY DEF Pairs
<1>3. Len(s) \in Nat /\ Len(t) \in Nat
  BY LenProperties
<1>4. /\ Len(s \o t) = Len(s) + Len(t)
      /\ \A i \in 1 .. Len(s) + Len(t) :
            (s \o t)[i] = IF i <= Len(s) THEN s[i] ELSE t[i - Len(s)]
  BY ConcatProperties
<1> DEFINE n == Len(s)
           k == Len(t)
           waiting == [i \in 0 .. n + k |-> IF i <= n THEN f[i] ELSE g[i - n]]
<1>5. waiting \in [0 .. n + k -> BOOLEAN]
  <2>1. ASSUME NEW i \in 0 .. n + k, ~(i <= n) PROVE g[i - n] \in BOOLEAN
    <3>1. i - n \in 0 .. k
      BY <1>3, <2>1
    <3> QED BY <1>2, <3>1, Zenon
  <2>2. ASSUME NEW i \in 0 .. n + k, i <= n PROVE f[i] \in BOOLEAN
    <3>1. i \in 0 .. n
      BY <1>3, <2>2
    <3> QED BY <1>1, <3>1, Zenon
  <2>3. ASSUME NEW i \in 0 .. n + k PROVE (IF i <= n THEN f[i] ELSE g[i - n]) \in BOOLEAN
    BY <2>1, <2>2, Zenon
  <2> QED BY <2>3, Zenon
<1>6. waiting[0] = b /\ waiting[n + k] = a
  <2>1. 0 \in 0 .. n + k /\ n + k \in 0 .. n + k /\ 0 <= n
    BY <1>3
  <2>2. waiting[0] = b
    BY <1>1, <2>1
  <2>3. CASE k = 0
    BY <1>1, <1>2, <1>3, <2>1, <2>3
  <2>4. CASE k # 0
    <3>1. ~(n + k <= n) /\ (n + k) - n = k
      BY <1>3, <2>4
    <3> QED BY <1>2, <2>1, <2>2, <3>1
  <2> QED BY <2>2, <2>3, <2>4
<1>7. ASSUME NEW i \in 1 .. n + k
      PROVE  Reads(waiting[i - 1], (s \o t)[i], waiting[i])
  <2>1. CASE i <= n
    <3>1. i \in 1 .. n /\ i - 1 <= n /\ i - 1 \in 0 .. n + k /\ i \in 0 .. n + k
      BY <1>3, <2>1
    <3>2. waiting[i - 1] = f[i - 1] /\ waiting[i] = f[i] /\ (s \o t)[i] = s[i]
      BY <1>4, <2>1, <3>1
    <3> QED BY <1>1, <3>1, <3>2
  <2>2. CASE i > n
    <3>1. i - n \in 1 .. k /\ i - 1 \in 0 .. n + k /\ i \in 0 .. n + k /\ ~(i <= n)
      BY <1>3, <2>2
    <3>2. waiting[i] = g[i - n] /\ (s \o t)[i] = t[i - n]
      BY <1>4, <3>1
    <3>3. waiting[i - 1] = g[(i - n) - 1]
      <4>1. CASE i - 1 = n
        BY <1>1, <1>2, <1>3, <3>1, <4>1
      <4>2. CASE i - 1 # n
        <5>1. ~(i - 1 <= n) /\ (i - 1) - n = (i - n) - 1
          BY <1>3, <2>2, <4>2
        <5> QED BY <3>1, <5>1
      <4> QED BY <4>1, <4>2
    <3> QED BY <1>2, <3>1, <3>2, <3>3
  <2> QED BY <1>3, <2>1, <2>2
<1> HIDE DEF waiting
<1> QED BY <1>4, <1>5, <1>6, <1>7 DEF Pairs

LEMMA PairsTail ==
    ASSUME NEW b, NEW a, NEW s \in Seq(Labels), s # <<>>, Pairs(b, s, a)
    PROVE  \E m \in BOOLEAN : Reads(b, Head(s), m) /\ Pairs(m, Tail(s), a)
<1>1. PICK f \in [0 .. Len(s) -> BOOLEAN] :
          /\ f[0] = b /\ f[Len(s)] = a
          /\ \A i \in 1 .. Len(s) : Reads(f[i - 1], s[i], f[i])
  BY DEF Pairs
<1>2. /\ Len(s) \in Nat \ {0} /\ Len(Tail(s)) = Len(s) - 1 /\ Head(s) = s[1]
      /\ \A i \in 1 .. Len(Tail(s)) : Tail(s)[i] = s[i + 1]
  BY EmptySeq, HeadTailProperties
<1> DEFINE n == Len(s)
           waiting == [i \in 0 .. n - 1 |-> f[i + 1]]
<1>3. Reads(b, Head(s), f[1]) /\ f[1] \in BOOLEAN
  <2>1. 1 \in 1 .. n /\ 1 \in 0 .. n /\ 1 - 1 = 0
    BY <1>2
  <2> QED BY <1>1, <1>2, <2>1
<1>4. waiting \in [0 .. n - 1 -> BOOLEAN] /\ waiting[0] = f[1] /\ waiting[n - 1] = a
  BY <1>1, <1>2
<1>5. ASSUME NEW i \in 1 .. n - 1 PROVE Reads(waiting[i - 1], Tail(s)[i], waiting[i])
  <2>1. i + 1 \in 1 .. n /\ i - 1 \in 0 .. n - 1 /\ i \in 0 .. n - 1 /\ (i - 1) + 1 = (i + 1) - 1
    BY <1>2
  <2>2. waiting[i - 1] = f[(i + 1) - 1] /\ waiting[i] = f[i + 1] /\ Tail(s)[i] = s[i + 1]
    BY <1>2, <2>1
  <2> QED BY <1>1, <2>1, <2>2
<1> HIDE DEF waiting
<1>6. Pairs(f[1], Tail(s), a)
  BY <1>2, <1>4, <1>5 DEF Pairs
<1> QED BY <1>3, <1>6

(* A queue that lost nothing is what it was with the new bytes behind it.      *)
LEMMA QueuePairs ==
    ASSUME KInv, PrefixKept, QUEUE \in Nat \ {0}, NEW s \in Seq(Labels), QueueKbd(s),
           UNCHANGED prefix, delayed' \in BOOLEAN, Pairs(delayed, s, delayed')
    PROVE  PrefixKept'
<1> SUFFICES ASSUME ~lost' PROVE Pairs(prefix, kbdq', delayed')
  BY DEF PrefixKept
<1>1. kbdq \in Seq(Labels) /\ ~lost
  BY DEF KInv, Queues, QueueKbd
<1>2. Len(kbdq \o s) = Len(kbdq) + Len(s) /\ ~(Len(kbdq) + Len(s) > QUEUE)
  BY <1>1, ConcatProperties DEF QueueKbd
<1>3. kbdq' = kbdq \o s
  BY <1>2 DEF QueueKbd, Kept
<1> QED BY <1>1, <1>3, PairsJoin DEF PrefixKept

LEMMA KeyPairs ==
    ASSUME KInv, PrefixKept, QUEUE \in Nat \ {0}, NEW e \in BOOLEAN, PutKeycode(e),
           UNCHANGED prefix
    PROVE  PrefixKept'
<1> DEFINE first == IF delayed THEN <<"ext">> ELSE <<>>
           second == IF e THEN <<"e0">> ELSE <<"key">>
<1>1. delayed \in BOOLEAN /\ delayed' = e /\ QueueKbd(first \o second)
  BY DEF KInv, Others, PutKeycode
<1>2. first \in Seq(Labels) /\ second \in Seq(Labels)
  BY ByteKinds DEF Labels
<1>3. Pairs(delayed, first, FALSE)
  <2>1. CASE delayed
    <3>1. delayed = TRUE /\ first = <<"ext">> /\ Reads(delayed, "ext", FALSE)
      BY <2>1, <1>1 DEF Reads
    <3> QED BY <1>1, <3>1, PairsOne
  <2>2. CASE ~delayed
    <3>1. delayed = FALSE /\ first = <<>>
      BY <2>2, <1>1
    <3> QED BY <3>1, PairsNone
  <2> QED BY <2>1, <2>2
<1>4. Pairs(FALSE, second, e)
  <2>1. Reads(FALSE, "e0", TRUE) /\ Reads(FALSE, "key", FALSE)
    BY DEF Reads
  <2>2. CASE e = TRUE
    BY <2>1, <2>2, PairsOne
  <2>3. CASE e = FALSE
    BY <2>1, <2>3, PairsOne
  <2> QED BY <2>2, <2>3
<1> HIDE DEF first, second
<1>5. Pairs(delayed, first \o second, e) /\ first \o second \in Seq(Labels)
  BY <1>2, <1>3, <1>4, PairsJoin, ConcatProperties
<1> QED BY <1>1, <1>5, QueuePairs

LEMMA KbdStepPairs ==
    ASSUME KInv, PrefixKept, QUEUE \in Nat \ {0}, KbdStep
    PROVE  PrefixKept'
<1>1. PICK due \in {FALSE, delayed} :
          LET code == IF due THEN <<"ext">> ELSE <<>>
          IN  /\ kbdq' = Kept(kbdq \o code) /\ delayed' = (delayed /\ ~due)
              /\ lost' = (lost \/ Len(kbdq \o code) > QUEUE) /\ prefix' = prefix
  BY DEF KbdStep, Quiet
<1> DEFINE code == IF due THEN <<"ext">> ELSE <<>>
<1>2. kbdq \in Seq(Labels) /\ delayed \in BOOLEAN /\ delayed' \in BOOLEAN
  BY <1>1 DEF KInv, Queues, Others
<1>3. code \in Seq(Labels)
  BY ByteKinds DEF Labels
<1>4. Pairs(delayed, code, delayed')
  <2>1. CASE due
    <3>1. delayed = TRUE /\ delayed' = FALSE /\ code = <<"ext">>
      BY <1>1, <1>2, <2>1
    <3>2. Reads(delayed, "ext", delayed')
      BY <3>1 DEF Reads
    <3> QED BY <1>2, <3>1, <3>2, PairsOne
  <2>2. CASE ~due
    <3>1. delayed' = delayed /\ code = <<>>
      BY <1>1, <1>2, <2>2
    <3> QED BY <1>2, <3>1, PairsNone
  <2> QED BY <2>1, <2>2
<1>5. /\ kbdq' = Kept(kbdq \o code) /\ prefix' = prefix
      /\ lost' = (lost \/ Len(kbdq \o code) > QUEUE)
  BY <1>1
<1> HIDE DEF code
<1> SUFFICES ASSUME ~lost' PROVE Pairs(prefix, kbdq', delayed')
  BY <1>5 DEF PrefixKept
<1>6. ~lost /\ kbdq' = kbdq \o code
  BY <1>5 DEF Kept
<1> QED BY <1>2, <1>3, <1>4, <1>6, PairsJoin DEF PrefixKept

LEMMA ReadPairs ==
    ASSUME KInv, PrefixKept, ReadData
    PROVE  PrefixKept'
<1> SUFFICES ASSUME ~lost' PROVE Pairs(prefix', kbdq', delayed')
  BY DEF PrefixKept
<1>1. ~lost /\ delayed' = delayed /\ kbdq \in Seq(Labels) /\ Pairs(prefix, kbdq, delayed)
  BY DEF ReadData, PrefixKept, KInv, Queues
<1>2. CASE UNCHANGED <<kbdq, prefix>>
  BY <1>1, <1>2
<1>3. CASE /\ kbdq # <<>> /\ kbdq' = Tail(kbdq)
           /\ prefix' = IF Head(kbdq) = "reply" THEN prefix ELSE Head(kbdq) = "e0"
  <2>1. PICK m \in BOOLEAN : Reads(prefix, Head(kbdq), m) /\ Pairs(m, Tail(kbdq), delayed)
    BY <1>1, <1>3, PairsTail
  <2>2. prefix' = m
    BY <1>3, <2>1 DEF Reads
  <2> QED BY <1>1, <1>3, <2>1, <2>2
<1> QED BY <1>2, <1>3 DEF ReadData

LEMMA StillPairs ==
    ASSUME PrefixKept, UNCHANGED <<kbdq, lost, delayed, prefix>>
    PROVE  PrefixKept'
BY DEF PrefixKept

LEMMA CommandPairs ==
    ASSUME KInv, PrefixKept, QUEUE \in Nat \ {0}, WriteCommand \/ WriteData
    PROVE  PrefixKept'
<1>1. delayed' = delayed /\ prefix' = prefix /\ delayed \in BOOLEAN
  BY DEF WriteCommand, WriteData, KInv, Others
<1>2. CASE QueueKbd(<<"reply">>)
  <2>1. <<"reply">> \in Seq(Labels)
    BY ByteKinds DEF Labels
  <2>2. Reads(delayed, "reply", delayed)
    BY DEF Reads
  <2>3. Pairs(delayed, <<"reply">>, delayed)
    BY <1>1, <2>2, PairsOne
  <2> QED BY <1>1, <1>2, <2>1, <2>3, QueuePairs
<1>3. ASSUME NEW n \in 1 .. 3, QueueKbd([i \in 1 .. n |-> "reply"]) PROVE PrefixKept'
  <2> DEFINE s == [i \in 1 .. n |-> "reply"]
  <2>1. s \in Seq(Labels) /\ Pairs(delayed, s, delayed) /\ QueueKbd(s)
    BY <1>1, <1>3, Replies, PairsReplies
  <2> HIDE DEF s
  <2> QED BY <1>1, <2>1, QueuePairs
<1>4. CASE UNCHANGED <<kbdq, lost>>
  BY <1>1, <1>4, StillPairs
<1>5. CASE WriteCommand
  BY <1>2, <1>4, <1>5 DEF WriteCommand
<1>6. CASE WriteData
  BY <1>2, <1>3, <1>4, <1>6 DEF WriteData, QueueAux
<1> QED BY <1>5, <1>6

LEMMA PrefixStep ==
    ASSUME KInv, PrefixKept, QUEUE \in Nat \ {0}, [KNext]_kvars
    PROVE  PrefixKept'
<1>1. ASSUME NEW e \in BOOLEAN, Key(e) PROVE PrefixKept'
  BY <1>1, KeyPairs DEF Key, Quiet
<1>2. CASE MouseEvent
  BY <1>2, StillPairs DEF MouseEvent, QueueAux, Quiet
<1>3. CASE Handler \/ Poll
  <2>1. CASE AuxLook \/ \E d \in Devices : TakeIrq(d)
    BY <2>1, StillPairs DEF AuxLook, TakeIrq
  <2>2. CASE Serve \/ Poll
    BY <2>2, ReadPairs DEF Serve, Poll
  <2> QED BY <1>3, <2>1, <2>2 DEF Handler
<1>4. CASE UNCHANGED kvars
  BY <1>4, StillPairs DEF kvars
<1> QED BY <1>1, <1>2, <1>3, <1>4, CommandPairs, KbdStepPairs DEF KNext

(* Every prefix is followed by its code, and no code comes without one, in the   *)
(* queue and across its ends, unless it overflowed (ps2_put_keycode).           *)
THEOREM PrefixesStay ==
    ASSUME QUEUE \in Nat \ {0}, BUDGET \in Nat
    PROVE  KSpec => []PrefixKept
<1>1. KInit => PrefixKept
  <2> SUFFICES ASSUME KInit PROVE Pairs(FALSE, <<>>, FALSE)
    BY DEF KInit, PrefixKept
  <2> QED BY PairsNone
<1>2. KInv /\ PrefixKept /\ [KNext]_kvars => PrefixKept'
  BY PrefixStep
<1> QED BY <1>1, <1>2, KInvariance, PTL DEF KSpec

-----------------------------------------------------------------------------
(* Pit, for counters of any width and any rates: no tick comes early and none is *)
(* lost, as long as less than half the range is owed.                         *)

Square == BYTE * BYTE

(* Products, which the solver is given one at a time.                         *)
LEMMA Times ==
    ASSUME NEW a \in Int, NEW b \in Int, NEW d \in Nat \ {0}
    PROVE  /\ a * d \in Int /\ (a + b) * d = a * d + b * d /\ (a - b) * d = a * d - b * d
           /\ a <= b => a * d <= b * d
           /\ a * d < b * d => a < b
<1>1. a * d \in Int /\ b * d \in Int
  OBVIOUS
<1>2. (a + b) * d = a * d + b * d /\ (a - b) * d = a * d - b * d
  BY Z3
<1>3. a <= b => a * d <= b * d
  BY Z3
<1>4. b <= a => b * d <= a * d
  BY Z3
<1> QED BY <1>1, <1>2, <1>3, <1>4

LEMMA Whole ==
    ASSUME NEW a \in Nat, NEW d \in Nat \ {0}
    PROVE  a \div d \in Nat /\ (a \div d) * d <= a /\ a < (a \div d + 1) * d
BY Z3

LEMMA Wraps ==
    ASSUME NEW n \in Nat \ {0}, NEW x \in -n .. 2 * n - 1
    PROVE  x % n = IF x < 0 THEN x + n ELSE IF x < n THEN x ELSE x - n
<1>1. CASE x < 0
  BY <1>1, SMT
<1>2. CASE x >= 0 /\ x < n
  BY <1>2, SMT
<1>3. CASE x >= n
  BY <1>3, SMT
<1> QED BY <1>1, <1>2, <1>3

LEMMA Uncut ==
    ASSUME NEW x \in Nat, x < RADIX
    PROVE  Cut(x) = x
<1>1. RADIX \in Nat \ {0} /\ x \in -RADIX .. 2 * RADIX - 1 /\ ~(x < 0)
  BY PitPositive
<1> QED BY <1>1, Wraps DEF Cut

LEMMA Halves == /\ HALF \in Nat /\ RADIX = 2 * HALF /\ Square \in Nat \ {0} /\ Square < HALF
                /\ CATCHUP * Square \in Nat /\ CATCHUP * Square <= HALF
<1>1. HALF \in Nat /\ RADIX = 2 * HALF
  BY PitPositive DEF HALF
<1>2. Square \in Nat \ {0}
  BY PitPositive, Z3 DEF Square
<1> QED BY <1>1, <1>2, PitPositive, PitRange DEF Square

LEMMA HalfFits == HALF * N < RADIX * D
<1> DEFINE q == Square + 1
<1>1. /\ HALF \in Nat /\ N \in Nat \ {0} /\ D \in Nat \ {0} /\ PAUSE \in Nat /\ q \in Nat \ {0}
      /\ RADIX \in Nat
  BY PitPositive, Halves
<1>2. (HALF + PAUSE) * N + q * D <= RADIX * D
  BY PitRange DEF Square
<1>3. /\ (HALF + PAUSE) * N = HALF * N + PAUSE * N /\ HALF * N \in Int
      /\ RADIX * D \in Int /\ PAUSE * N \in Nat
  BY <1>1, Times, Z3
<1>4. q * D \in Nat /\ 0 < q * D
  BY <1>1, Z3
<1> HIDE DEF q
<1> QED BY <1>2, <1>3, <1>4

(* The ticks of a time, and of a later one.                                   *)
LEMMA TicksWhole ==
    ASSUME NEW t \in Nat
    PROVE  /\ Ticks(t) \in Nat /\ t * N \in Nat
           /\ Ticks(t) * D <= t * N /\ t * N < (Ticks(t) + 1) * D
<1>1. t * N \in Nat
  BY PitPositive, Z3
<1> QED BY <1>1, Whole, PitPositive DEF Ticks

LEMMA TicksGrow ==
    ASSUME NEW t \in Nat, NEW u \in Nat, t <= u
    PROVE  Ticks(t) <= Ticks(u)
<1>1. t * N <= u * N /\ t * N \in Int /\ u * N \in Int
  BY Times, PitPositive
<1>2. Ticks(t) * D < (Ticks(u) + 1) * D
  <2>1. Ticks(t) * D <= t * N /\ u * N < (Ticks(u) + 1) * D
    BY TicksWhole
  <2>2. Ticks(t) * D \in Int /\ (Ticks(u) + 1) * D \in Int
    BY TicksWhole, Times, PitPositive
  <2> QED BY <1>1, <2>1, <2>2
<1>3. Ticks(t) < Ticks(u) + 1
  BY <1>2, TicksWhole, Times, PitPositive
<1> QED BY <1>3, TicksWhole

(* The sign of the difference tells which is first, if they are less than half   *)
(* the range apart.                                                         *)
LEMMA Sign ==
    ASSUME NEW l \in Int, count \in Int, Ticks(elapsed) \in 0 .. 2 * RADIX - 1,
           l + count < Ticks(elapsed) + HALF, Ticks(elapsed) <= l + count + HALF
    PROVE  Behind(l) <=> l + count < Ticks(elapsed)
<1> DEFINE t == Ticks(elapsed)
           y == l + count - Cut(t)
<1>1. RADIX \in Nat \ {0} /\ HALF \in Nat /\ RADIX = 2 * HALF
  BY Halves, PitPositive
<1>2. /\ t \in 0 .. 2 * RADIX - 1 /\ l + count \in Int
      /\ l + count < t + HALF /\ t <= l + count + HALF
  OBVIOUS
<1>3. Behind(l) <=> Cut(y) >= HALF
  BY DEF Behind, Now
<1> HIDE DEF t
<1>4. Cut(t) = IF t < RADIX THEN t ELSE t - RADIX
  <2>1. t \in -RADIX .. 2 * RADIX - 1 /\ ~(t < 0)
    BY <1>1, <1>2
  <2> QED BY <1>1, <2>1, Wraps DEF Cut
<1>5. y = (IF t < RADIX THEN l + count - t ELSE l + count - t + RADIX)
  BY <1>1, <1>2, <1>4
<1>6. y \in -RADIX .. 2 * RADIX - 1
  BY <1>1, <1>2, <1>5
<1> HIDE DEF y
<1>7. Cut(y) = IF y < 0 THEN y + RADIX ELSE IF y < RADIX THEN y ELSE y - RADIX
  BY <1>1, <1>6, Wraps DEF Cut
<1>8. Cut(y) >= HALF <=> l + count < t
  BY <1>1, <1>2, <1>5, <1>6, <1>7
<1> QED BY <1>3, <1>8 DEF t

(* The invariant: nothing was pulsed early, the last period counted began before *)
(* the first half of the range was gone, and when the last poll came, half of it *)
(* was not yet gone or no tick was owed.                                      *)
Due == pmode \in Periodic /\ ~stale
EarlyHalf == last * D <= HALF * N
Since == elapsed - idle <= HALF \/ (elapsed - idle) * N < (last + count + 1) * D
Fired == fired => pmode \notin Periodic /\ last # 0
PInv == PTypeOK /\ Fired /\ (Due => NeverEarly /\ EarlyHalf /\ Since)

(* The ticks owed are no more than half of what a counter holds.               *)
Backlog == Due => Ticks(elapsed) <= last + count + HALF

(* Until the next poll neither the time nor its ticks wrap again.               *)
LEMMA Room ==
    ASSUME PInv, Due, NEW u \in Nat, idle + u <= PAUSE
    PROVE  elapsed + u < RADIX /\ Ticks(elapsed) \in 0 .. RADIX - 1
<1> DEFINE s == elapsed - idle
           q == Square + 1
<1>1. /\ elapsed \in Nat /\ idle \in Nat /\ last \in Nat /\ count \in 1 .. Square /\ s \in Int
      /\ N \in Nat \ {0} /\ D \in Nat \ {0} /\ PAUSE \in Nat /\ q \in Nat \ {0}
      /\ HALF \in Nat /\ RADIX \in Nat \ {0} /\ RADIX = 2 * HALF
  BY PitPositive, Halves DEF PInv, PTypeOK, Square
<1>2. /\ HALF * N \in Int /\ q * D \in Int /\ PAUSE * N \in Int
      /\ 0 < q * D /\ HALF * N + q * D + PAUSE * N <= RADIX * D
      /\ RADIX * D \in Int /\ RADIX * D <= RADIX * N /\ RADIX * N \in Int
  <2>1. /\ HALF * N \in Int /\ q * D \in Int /\ PAUSE * N \in Int /\ RADIX * D \in Int
        /\ RADIX * N \in Int /\ (HALF + PAUSE) * N = HALF * N + PAUSE * N
    BY <1>1, Times
  <2>2. 0 * D < q * D /\ 0 * D = 0
    BY <1>1, Z3
  <2>3. (HALF + PAUSE) * N + q * D <= RADIX * D
    BY PitRange DEF Square
  <2>4. RADIX * D <= RADIX * N
    BY <1>1, PitRange, Z3
  <2> HIDE DEF q
  <2> QED BY <2>1, <2>2, <2>3, <2>4
<1>3. s * N < HALF * N + q * D
  <2> HIDE DEF s, q
  <2>1. CASE s <= HALF
    BY <1>1, <1>2, <2>1, Times
  <2>2. CASE s * N < (last + count + 1) * D
    <3>1. (last + (count + 1)) * D = last * D + (count + 1) * D /\ last * D \in Int
      BY <1>1, Times
    <3>2. (count + 1) * D <= q * D /\ (count + 1) * D \in Int
      <4>1. count + 1 <= q /\ count + 1 \in Int
        BY <1>1, Halves DEF q
      <4> QED BY <1>1, <4>1, Times
    <3>3. last * D <= HALF * N /\ s * N \in Int /\ last + count + 1 = last + (count + 1)
      BY <1>1, Times DEF PInv, EarlyHalf
    <3> QED BY <1>2, <2>2, <3>1, <3>2, <3>3
  <2> QED BY <2>1, <2>2 DEF PInv, Since, s
<1>4. ASSUME NEW v \in Nat, idle + v <= PAUSE PROVE (elapsed + v) * N < RADIX * D
  <2>1. elapsed + v = s + (idle + v) /\ idle + v \in Int
    BY <1>1
  <2>2. (s + (idle + v)) * N = s * N + (idle + v) * N /\ s * N \in Int
    BY <1>1, <2>1, Times
  <2>3. (idle + v) * N <= PAUSE * N /\ (idle + v) * N \in Int
    BY <1>1, <1>4, <2>1, Times
  <2> HIDE DEF s, q
  <2> QED BY <1>2, <1>3, <2>1, <2>2, <2>3
<1>5. elapsed + u < RADIX
  <2>1. (elapsed + u) * N < RADIX * D
    BY <1>4
  <2>2. elapsed + u \in Int /\ (elapsed + u) * N \in Int
    BY <1>1, Times
  <2>3. (elapsed + u) * N < RADIX * N
    <3> HIDE DEF s, q
    <3> QED BY <1>2, <2>1, <2>2
  <2> QED BY <1>1, <2>2, <2>3, Times
<1>6. Ticks(elapsed) \in Nat /\ Ticks(elapsed) < RADIX
  <2>1. idle + 0 <= PAUSE /\ elapsed + 0 = elapsed
    BY <1>1
  <2>2. elapsed * N < RADIX * D
    BY <1>4, <2>1
  <2>3. Ticks(elapsed) * D <= elapsed * N /\ Ticks(elapsed) \in Nat /\ elapsed * N \in Int
    BY <1>1, TicksWhole
  <2>4. Ticks(elapsed) * D \in Int
    BY <1>1, <2>3, Times
  <2>5. Ticks(elapsed) * D < RADIX * D
    <3> HIDE DEF s, q
    <3> QED BY <1>2, <2>2, <2>3, <2>4
  <2> QED BY <1>1, <2>3, <2>5, Times
<1> QED BY <1>1, <1>5, <1>6

(* What a poll sees: whether ticks are owed, and after how many of them none is. *)
LEMMA Seen ==
    ASSUME PInv, Due, Backlog
    PROVE  Behind(last) <=> last + count < Ticks(elapsed)
<1>1. /\ last \in Nat /\ count \in 1 .. Square /\ HALF \in Nat /\ Square < HALF /\ Square \in Nat
      /\ idle + 0 <= PAUSE
  BY Halves, PitPositive DEF PInv, PTypeOK, Square
<1>2. Ticks(elapsed) \in 0 .. 2 * RADIX - 1
  <2>1. Ticks(elapsed) \in 0 .. RADIX - 1 /\ RADIX \in Nat
    BY <1>1, Room, PitPositive
  <2> QED BY <2>1
<1>3. last <= Ticks(elapsed) /\ Ticks(elapsed) <= last + count + HALF
  BY DEF PInv, NeverEarly, Due, Backlog
<1>4. last + count < Ticks(elapsed) + HALF /\ last \in Int /\ count \in Int
  BY <1>1, <1>2, <1>3
<1> QED BY <1>2, <1>3, <1>4, Sign

LEMMA MinExists ==
    ASSUME NEW S \in SUBSET Nat, S # {}
    PROVE  Min(S) \in S /\ \A x \in S : Min(S) <= x
<1> DEFINE R == OpToRel(<, Nat)
<1>1. IsWellFoundedOn(R, Nat)
  BY NatLessThanWellFounded
<1> HIDE DEF R
<1>2. PICK x \in S : \A y \in S : ~ (<<y, x>> \in R)
  BY <1>1, WFMin
<1>3. ASSUME NEW y \in S PROVE x <= y
  <2>1. <<y, x>> \notin R
    BY <1>2
  <2>2. <<y, x>> \in Nat \X Nat /\ <<y, x>>[1] = y /\ <<y, x>>[2] = x
    OBVIOUS
  <2> QED BY <2>1, <2>2 DEF R, OpToRel
<1> QED BY <1>3 DEF Min

(* After the count was loaded the loop goes on only if its d looks late for it.   *)
LEMMA LeftOf == Left \in Nat /\ (count \in Nat /\ ~Behind(0) => Left = 0)
<1> DEFINE S == {k \in 0 .. CATCHUP - 1 : ~Behind(k * count)} \cup {CATCHUP - 1}
<1>1. S \in SUBSET Nat /\ S # {} /\ Left = Min(S) /\ 0 \in 0 .. CATCHUP - 1
  BY PitPositive DEF Left
<1>2. ASSUME ~Behind(0), count \in Nat PROVE 0 \in S
  <2>1. 0 * count = 0
    BY <1>2
  <2> QED BY <1>1, <1>2, <2>1
<1> HIDE DEF S
<1>3. Min(S) \in S /\ \A x \in S : Min(S) <= x
  BY <1>1, MinExists
<1>4. Min(S) \in Nat
  BY <1>1, <1>3
<1>5. ASSUME count \in Nat, ~Behind(0) PROVE Min(S) = 0
  <2>1. Min(S) <= 0
    BY <1>2, <1>3, <1>5
  <2> QED BY <1>4, <2>1
<1> QED BY <1>1, <1>4, <1>5

(* The loop that catches up stops at the time of the poll, or before it with all *)
(* its turns taken.                                                         *)
LEMMA Caught ==
    ASSUME PInv, Due, Backlog, Behind(last)
    PROVE  /\ Turns \in 1 .. CATCHUP /\ last + Turns * count \in Nat
           /\ last + Turns * count <= Ticks(elapsed)
           /\ \/ Turns = CATCHUP
              \/ Ticks(elapsed) <= last + Turns * count + count
<1> DEFINE S == {k \in 1 .. CATCHUP : ~Behind(last + k * count)} \cup {CATCHUP}
           t == Ticks(elapsed)
<1>1. /\ last \in Nat /\ count \in 1 .. Square /\ HALF \in Nat /\ Square < HALF /\ Square \in Nat
      /\ idle + 0 <= PAUSE /\ CATCHUP \in Nat \ {0} /\ RADIX \in Nat
      /\ CATCHUP * Square \in Nat /\ CATCHUP * Square <= HALF
  BY Halves, PitPositive DEF PInv, PTypeOK, Square
<1>2. t \in 0 .. 2 * RADIX - 1
  BY <1>1, Room
<1>3. last + count < t /\ t <= last + count + HALF
  BY Seen DEF Backlog
<1> HIDE DEF t
<1>4. Turns \in S /\ (\A k \in S : Turns <= k) /\ S \subseteq 1 .. CATCHUP
  <2>1. S \in SUBSET Nat /\ S # {} /\ S \subseteq 1 .. CATCHUP
    BY <1>1
  <2>2. Turns = Min(S)
    BY DEF Turns
  <2> HIDE DEF S
  <2> QED BY <2>1, <2>2, MinExists
<1>5. ASSUME NEW k \in 1 .. CATCHUP
      PROVE  k * count \in Nat /\ count <= k * count /\ k * count <= CATCHUP * Square
             /\ (k - 1) * count = k * count - count
  BY <1>1, <1>5, Z3
<1>6. ASSUME NEW k \in 1 .. CATCHUP, last + k * count <= t
      PROVE  Behind(last + k * count) <=> last + k * count + count < t
  <2>1. k * count \in Nat /\ count <= k * count
    BY <1>5
  <2>2. /\ last + k * count \in Int /\ count \in Int
        /\ last + k * count + count < t + HALF /\ t <= last + k * count + count + HALF
    BY <1>1, <1>2, <1>3, <1>6, <2>1
  <2> QED BY <1>2, <2>2, Sign DEF t
<1>7. last + Turns * count <= t
  <2>1. CASE Turns = 1
    <3>1. Turns * count = count
      BY <1>1, <2>1
    <3> QED BY <1>1, <1>2, <1>3, <3>1
  <2>2. CASE Turns # 1
    <3> DEFINE k == Turns - 1
    <3>1. k \in 1 .. CATCHUP /\ k < Turns /\ k \notin S
      <4> HIDE DEF S
      <4> QED BY <1>1, <1>4, <2>2
    <3>2. Behind(last + k * count)
      BY <3>1
    <3> HIDE DEF k, S
    <3>3. k * count \in Nat /\ k * count + count = Turns * count
      <4>1. Turns \in 1 .. CATCHUP /\ Turns - 1 = k
        BY <1>4 DEF k
      <4> QED BY <1>1, <1>5, <3>1, <4>1
    <3>4. k * count + count <= CATCHUP * Square
      BY <1>4, <1>5, <3>3
    <3>5. /\ last + k * count \in Int /\ count \in Int
          /\ last + k * count + count < t + HALF /\ t <= last + k * count + count + HALF
      BY <1>1, <1>2, <1>3, <3>3, <3>4
    <3>6. last + k * count + count < t
      BY <1>2, <3>2, <3>5, Sign DEF t
    <3>7. last + k * count + count = last + Turns * count /\ last + Turns * count \in Int
      BY <1>1, <3>3
    <3> QED BY <1>2, <3>6, <3>7
  <2> QED BY <2>1, <2>2
<1>8. Turns = CATCHUP \/ t <= last + Turns * count + count
  <2>1. CASE Turns # CATCHUP
    <3>1. ~Behind(last + Turns * count) /\ Turns \in 1 .. CATCHUP
      BY <1>4, <2>1
    <3> HIDE DEF S
    <3>2. ~(last + Turns * count + count < t)
      BY <1>6, <1>7, <3>1
    <3>3. Turns * count \in Nat
      BY <1>5, <3>1
    <3> QED BY <1>1, <1>2, <3>2, <3>3
  <2> QED BY <2>1
<1> HIDE DEF S
<1>9. Turns * count \in Nat /\ Turns \in 1 .. CATCHUP
  BY <1>4, <1>5
<1> QED BY <1>1, <1>7, <1>8, <1>9 DEF t

(* What the guest writes.                                                     *)
LEMMA CountFits ==
    /\ \A v \in 0 .. BYTE - 1 : v \in Nat /\ v * BYTE \in 0 .. Square
    /\ \A v, w \in 0 .. BYTE - 1 : w + v * BYTE \in 0 .. Square
    /\ BYTE \in Nat \ {0} /\ Square \in Nat \ {0} /\ BYTE - 1 <= Square
<1>1. BYTE \in Nat \ {0} /\ Square \in Nat \ {0}
  BY PitPositive, Halves
<1>2. ASSUME NEW v \in 0 .. BYTE - 1
      PROVE  /\ v \in Nat /\ v * BYTE \in Nat
             /\ v * BYTE <= Square - BYTE
  <2>1. v <= BYTE - 1 /\ v \in Int /\ BYTE - 1 \in Int
    BY <1>1
  <2>2. v * BYTE <= (BYTE - 1) * BYTE /\ (BYTE - 1) * BYTE = BYTE * BYTE - 1 * BYTE
    BY <1>1, <2>1, Times
  <2>3. v * BYTE \in Nat
    BY <1>1, <2>1, Z3
  <2> QED BY <1>1, <2>1, <2>2, <2>3 DEF Square
<1>3. BYTE <= Square
  <2>1. 0 \in 0 .. BYTE - 1 /\ 0 * BYTE = 0
    BY <1>1
  <2> QED BY <1>1, <1>2, <2>1
<1>4. ASSUME NEW v \in 0 .. BYTE - 1, NEW w \in 0 .. BYTE - 1
      PROVE  w + v * BYTE \in 0 .. Square
  BY <1>1, <1>2
<1>5. \A v \in 0 .. BYTE - 1 : v \in Nat /\ v * BYTE \in 0 .. Square
  BY <1>1, <1>2
<1> QED BY <1>1, <1>3, <1>4, <1>5

LEMMA LoadTypes ==
    ASSUME PTypeOK, NEW n \in 0 .. Square, Load(n)
    PROVE  /\ count' \in 1 .. Square /\ elapsed' = 0 /\ last' = 0 /\ fired' = FALSE
           /\ stale' = FALSE
BY Halves DEF Load, Square

LEMMA PTypesStart == PInit => PTypeOK
<1>1. /\ BYTE * BYTE \in 1 .. BYTE * BYTE /\ 0 \in 0 .. RADIX - 1 /\ 0 \in 0 .. BYTE - 1
      /\ 0 \in 0 .. PAUSE /\ 0 \in 0 .. LOADS
  <2>1. Square \in 1 .. Square
    BY Halves
  <2> QED BY PitPositive, <2>1 DEF Square
<1> SUFFICES ASSUME PInit PROVE PTypeOK
  OBVIOUS
<1>2. count \in 1 .. BYTE * BYTE /\ elapsed \in 0 .. RADIX - 1 /\ last \in 0 .. RADIX - 1
  BY <1>1 DEF PInit
<1>3. wlatch \in 0 .. BYTE - 1 /\ idle \in 0 .. PAUSE /\ writes \in 0 .. LOADS
  BY <1>1 DEF PInit
<1>4. pmode = 3 /\ wstate = 0 /\ fired \in BOOLEAN /\ stale \in BOOLEAN
  BY Zenon DEF PInit
<1> QED BY <1>2, <1>3, <1>4 DEF PTypeOK

LEMMA PTypesKeep == PTypeOK /\ [PNext]_pvars => PTypeOK'
<1> SUFFICES ASSUME PTypeOK, [PNext]_pvars PROVE PTypeOK'
  OBVIOUS
<1>0. /\ RADIX \in Nat \ {0} /\ BYTE \in Nat \ {0} /\ LOADS \in Nat /\ PAUSE \in Nat
      /\ Square \in Nat \ {0} /\ Square < RADIX /\ Square = BYTE * BYTE
  BY PitPositive, Halves DEF Square
<1>00. \A n \in Int : Cut(n) \in 0 .. RADIX - 1
  BY <1>0, Z3 DEF Cut
<1>1. ASSUME NEW a \in 1 .. 3, NEW m \in 0 .. 7, Control(a, m) PROVE PTypeOK'
  BY <1>0, <1>1 DEF Control, Write, PTypeOK
<1>2. ASSUME NEW v \in 0 .. BYTE - 1, CountByte(v) PROVE PTypeOK'
  <2>1. /\ v \in 0 .. Square /\ v * BYTE \in 0 .. Square
        /\ wlatch + v * BYTE \in 0 .. Square
    BY <1>0, CountFits DEF PTypeOK
  <2>2. ASSUME NEW n \in 0 .. Square, Load(n)
        PROVE  /\ count' \in 1 .. BYTE * BYTE /\ elapsed' \in 0 .. RADIX - 1
               /\ last' \in 0 .. RADIX - 1 /\ fired' \in BOOLEAN /\ stale' \in BOOLEAN
    <3>1. /\ count' \in 1 .. Square /\ elapsed' = 0 /\ last' = 0 /\ fired' = FALSE
          /\ stale' = FALSE
      BY <2>2, LoadTypes
    <3>2. 0 \in 0 .. RADIX - 1
      BY <1>0
    <3> QED BY <3>1, <3>2 DEF Square
  <2>3. pmode' \in 0 .. 5 /\ idle' \in 0 .. PAUSE /\ writes' \in 0 .. LOADS
    BY <1>0, <1>2 DEF CountByte, Write, PTypeOK
  <2>4. CASE wstate \in {0, 1} /\ Load(v) /\ UNCHANGED <<wstate, wlatch>>
    BY <2>1, <2>2, <2>3, <2>4 DEF PTypeOK
  <2>5. CASE wstate = 2 /\ Load(v * BYTE) /\ UNCHANGED <<wstate, wlatch>>
    BY <2>1, <2>2, <2>3, <2>5 DEF PTypeOK
  <2>6. CASE /\ wstate = 3 /\ wstate' = 4 /\ wlatch' = v
             /\ UNCHANGED <<count, elapsed, last, fired, stale>>
    BY <2>3, <2>6 DEF PTypeOK
  <2>7. CASE wstate = 4 /\ wstate' = 3 /\ Load(wlatch + v * BYTE) /\ UNCHANGED wlatch
    BY <2>1, <2>2, <2>3, <2>7 DEF PTypeOK
  <2> QED BY <1>2, <2>4, <2>5, <2>6, <2>7 DEF CountByte
<1>3. ASSUME NEW t \in 1 .. PAUSE, Pass(t) PROVE PTypeOK'
  <2>1. elapsed' \in 0 .. RADIX - 1
    BY <1>0, <1>00, <1>3 DEF Pass, PTypeOK
  <2> QED BY <1>0, <1>3, <2>1 DEF Pass, PTypeOK
<1>4. CASE Update
  <2>1. CASE NoPulse
    BY <1>0, <1>4, <2>1 DEF NoPulse, Update, PTypeOK
  <2>2. CASE pmode \in Periodic /\ Behind(last) /\ CatchUp
    <3>1. Turns \in Int
      <4> DEFINE S == {k \in 1 .. CATCHUP : ~Behind(last + k * count)} \cup {CATCHUP}
      <4>1. S \in SUBSET Nat /\ S # {} /\ Turns = Min(S)
        BY PitPositive DEF Turns
      <4> HIDE DEF S
      <4>2. Min(S) \in S
        BY <4>1, MinExists
      <4>3. Turns \in Nat
        BY <4>1, <4>2, Zenon
      <4> QED BY <4>3
    <3>2. Turns * count \in Int /\ last \in Int
      BY <1>0, <3>1, Z3 DEF PTypeOK
    <3>3. last' \in 0 .. RADIX - 1 /\ elapsed' \in 0 .. RADIX - 1 /\ fired' \in BOOLEAN
      <4> DEFINE x == last + Turns * count
                 y == Left * count
      <4>1. x \in Int /\ y \in Int
        <5>1. Left \in Int /\ count \in Int
          BY LeftOf DEF PTypeOK
        <5> QED BY <3>2, <5>1, Z3
      <4>2. Cut(x) \in 0 .. RADIX - 1 /\ Cut(y) \in 0 .. RADIX - 1 /\ 0 \in 0 .. RADIX - 1
        <5> HIDE DEF x, y
        <5> QED BY <1>0, <1>00, <4>1
      <4>3. elapsed \in 0 .. RADIX - 1 /\ fired \in BOOLEAN
        BY DEF PTypeOK
      <4> QED BY <2>2, <4>2, <4>3 DEF CatchUp
    <3> QED BY <1>0, <1>4, <3>3 DEF Update, PTypeOK
  <2>3. CASE /\ pmode \in {0, 4} /\ Fires /\ last' = count /\ fired' = TRUE
             /\ UNCHANGED elapsed
    BY <1>0, <1>4, <2>3 DEF Update, PTypeOK
  <2> QED BY <1>4, <2>1, <2>2, <2>3 DEF Update, Pulse
<1>5. CASE UNCHANGED pvars
  BY <1>5 DEF pvars, PTypeOK
<1> QED BY <1>1, <1>2, <1>3, <1>4, <1>5 DEF PNext

(* The types, for any guest.                                                    *)
THEOREM PTypesHold == PSpec => []PTypeOK
BY PTypesStart, PTypesKeep, PTL DEF PSpec

(* Steps that leave no tick due keep the invariant.                            *)
LEMMA Undue == PTypeOK' /\ Fired' /\ ~Due' => PInv'
BY DEF PInv

LEMMA FiredKeeps == PTypeOK /\ Fired /\ [PNext]_pvars => Fired'
<1> SUFFICES ASSUME PTypeOK, Fired, [PNext]_pvars PROVE Fired'
  OBVIOUS
<1>1. ASSUME NEW a \in 1 .. 3, NEW m \in 0 .. 7, Control(a, m) PROVE Fired'
  BY <1>1 DEF Control, Fired
<1>2. ASSUME NEW v \in 0 .. BYTE - 1, CountByte(v) PROVE Fired'
  BY <1>2 DEF CountByte, Load, Fired
<1>3. ASSUME NEW t \in 1 .. PAUSE, Pass(t) PROVE Fired'
  BY <1>3 DEF Pass, Fired
<1>4. CASE Update
  <2>1. CASE NoPulse
    BY <1>4, <2>1 DEF NoPulse, Update, Fired
  <2>2. CASE pmode \in Periodic /\ Behind(last) /\ CatchUp
    BY <1>4, <2>2 DEF CatchUp, Update, Fired
  <2>3. CASE /\ pmode \in {0, 4} /\ Fires /\ last' = count /\ fired' = TRUE
             /\ UNCHANGED elapsed
    <3>1. count # 0
      BY DEF PTypeOK
    <3> QED BY <1>4, <2>3, <3>1 DEF Update, Fired, Periodic
  <2> QED BY <1>4, <2>1, <2>2, <2>3 DEF Update, Pulse
<1>5. CASE UNCHANGED pvars
  BY <1>5 DEF pvars, Fired
<1> QED BY <1>1, <1>2, <1>3, <1>4, <1>5 DEF PNext

(* A count that is loaded owes nothing.                                        *)
LEMMA LoadKeeps ==
    ASSUME PTypeOK, NEW n \in 0 .. Square, Load(n), UNCHANGED idle
    PROVE  NeverEarly' /\ EarlyHalf' /\ Since'
<1>1. count' \in 1 .. Square /\ elapsed' = 0 /\ last' = 0
  BY LoadTypes
<1>2. Ticks(0) \in Nat /\ HALF * N \in Int /\ 0 <= HALF * N /\ 0 * D = 0
  BY TicksWhole, Halves, PitPositive, Times
<1>3. NeverEarly' 
  BY <1>1, <1>2 DEF NeverEarly, Ticks
<1>4. EarlyHalf'
  BY <1>1, <1>2 DEF EarlyHalf
<1>5. Since'
  BY <1>1, Halves DEF Since, PTypeOK
<1> QED BY <1>3, <1>4, <1>5

(* Time passes.                                                               *)
LEMMA PassKeeps ==
    ASSUME PInv, Due, NEW t \in 1 .. PAUSE, Pass(t)
    PROVE  NeverEarly' /\ EarlyHalf' /\ Since' /\ elapsed' = elapsed + t
<1>1. elapsed \in Nat /\ t \in Nat /\ last \in Nat /\ idle \in Nat
  BY PitPositive DEF PInv, PTypeOK
<1>2. elapsed + t < RADIX
  BY <1>1, Room DEF Pass
<1>3. Cut(elapsed + t) = elapsed + t
  BY <1>1, <1>2, Uncut
<1>4. /\ elapsed' = elapsed + t /\ idle' = idle + t
      /\ UNCHANGED <<pmode, count, last, stale>>
  BY <1>3 DEF Pass
<1>5. Ticks(elapsed) <= Ticks(elapsed + t) /\ Ticks(elapsed) \in Nat /\ Ticks(elapsed + t) \in Nat
  BY <1>1, TicksGrow, TicksWhole
<1>6. NeverEarly'
  BY <1>1, <1>4, <1>5 DEF PInv, NeverEarly, Due, Ticks
<1>7. EarlyHalf'
  BY <1>4 DEF PInv, EarlyHalf
<1>8. Since'
  <2>1. elapsed' - idle' = elapsed - idle
    BY <1>1, <1>4
  <2> QED BY <1>4, <2>1 DEF PInv, Since
<1> QED BY <1>4, <1>6, <1>7, <1>8

(* Where no tick is owed after a poll, none was owed at its time.               *)
LEMMA OwesNone ==
    ASSUME NEW e \in Nat, NEW m \in Nat, Ticks(e) <= m
    PROVE  (e - 0) * N < (m + 1) * D
<1>1. e * N < (Ticks(e) + 1) * D /\ Ticks(e) \in Nat
  BY TicksWhole
<1>2. (Ticks(e) + 1) * D <= (m + 1) * D
  BY <1>1, Times, PitPositive
<1>3. (Ticks(e) + 1) * D \in Int /\ (m + 1) * D \in Int /\ e * N \in Int /\ e - 0 = e
  BY <1>1, Times, PitPositive
<1> QED BY <1>1, <1>2, <1>3

(* A count loaded again looks late for nothing: the ticks of more than half the   *)
(* range are too far ahead of it.                                            *)
LEMMA ReloadEnds ==
    ASSUME PInv, Due, elapsed > HALF
    PROVE  ~Behind(0)
<1> DEFINE t == Ticks(elapsed)
           y == 0 + count - t
<1>1. /\ elapsed \in Nat /\ count \in 1 .. Square /\ Square \in Nat /\ idle + 0 <= PAUSE
      /\ HALF \in Nat /\ RADIX \in Nat \ {0} /\ RADIX = 2 * HALF
      /\ N \in Nat \ {0} /\ D \in Nat \ {0}
  BY PitPositive, Halves DEF PInv, PTypeOK, Square
<1>2. t \in 0 .. RADIX - 1
  BY <1>1, Room
<1>3. t >= HALF + Square + 1
  <2>1. (HALF + 1) * N <= elapsed * N /\ (HALF + 1) * N \in Int /\ elapsed * N \in Int
    <3>1. HALF + 1 <= elapsed /\ HALF + 1 \in Int /\ elapsed \in Int
      BY <1>1
    <3> QED BY <1>1, <3>1, Times
  <2>2. (HALF + Square + 1) * D <= (HALF + 1) * N /\ (HALF + Square + 1) * D \in Int
    <3>1. HALF + Square + 1 \in Int
      BY <1>1
    <3> QED BY <1>1, <3>1, Times, PitRange DEF Square
  <2>3. elapsed * N < (t + 1) * D /\ (t + 1) * D \in Int
    BY <1>1, <1>2, TicksWhole, Times
  <2>4. HALF + Square + 1 \in Int /\ t + 1 \in Int
    BY <1>1, <1>2
  <2> HIDE DEF t
  <2>5. (HALF + Square + 1) * D < (t + 1) * D
    BY <2>1, <2>2, <2>3
  <2>6. HALF + Square + 1 < t + 1
    BY <1>1, <2>4, <2>5, Times
  <2> QED BY <1>1, <1>2, <2>6
<1>4. Now = t
  BY <1>1, <1>2, Uncut DEF Now
<1> HIDE DEF t
<1>5. y \in -RADIX .. 2 * RADIX - 1 /\ y < 0 /\ y + RADIX < HALF
  BY <1>1, <1>2, <1>3
<1>6. Cut(y) = y + RADIX
  <2> HIDE DEF y
  <2> QED BY <1>1, <1>5, Wraps DEF Cut
<1>7. Behind(0) <=> Cut(y) >= HALF
  BY <1>4 DEF Behind
<1> QED BY <1>1, <1>5, <1>6, <1>7

(* A poll delivers what is owed, or ten ticks, or loads the count anew.          *)
LEMMA PollKeeps ==
    ASSUME PInv, Due, Backlog, Update
    PROVE  /\ NeverEarly' /\ EarlyHalf' /\ Since'
           /\ \/ Ticks(elapsed) <= last' + count /\ elapsed' = elapsed
              \/ last' = last + CATCHUP * count /\ elapsed' = elapsed
              \/ elapsed > HALF /\ elapsed' = 0 /\ last' = 0
<1>1. /\ elapsed \in Nat /\ last \in Nat /\ count \in Nat /\ elapsed < RADIX /\ RADIX \in Nat \ {0}
      /\ idle' = 0 /\ UNCHANGED <<pmode, count, stale>> /\ pmode \in Periodic /\ Due'
      /\ HALF \in Nat /\ RADIX = 2 * HALF /\ Ticks(elapsed) \in Nat
  <2>1. elapsed \in Nat /\ last \in Nat /\ count \in Nat /\ elapsed < RADIX
    BY PitPositive, Halves DEF PInv, PTypeOK, Square
  <2> QED BY <2>1, TicksWhole, PitPositive, Halves DEF Update, Due
<1>2. CASE NoPulse
  <2>1. last' = last /\ elapsed' = elapsed /\ ~Behind(last)
    BY <1>1, <1>2 DEF NoPulse
  <2>2. Ticks(elapsed) <= last + count
    BY <1>1, <2>1, Seen
  <2>3. NeverEarly' /\ EarlyHalf'
    BY <1>1, <2>1 DEF PInv, NeverEarly, EarlyHalf, Ticks, Due
  <2>4. (elapsed - 0) * N < (last + count + 1) * D
    BY <1>1, <2>2, OwesNone
  <2>5. Since'
    BY <1>1, <2>1, <2>4 DEF Since
  <2> QED BY <1>1, <2>1, <2>2, <2>3, <2>5
<1>3. CASE Behind(last) /\ elapsed > HALF /\ elapsed' = 0 /\ last' = Cut(Left * count)
  <2>0. last' = 0
    <3>1. Left = 0
      BY <1>1, <1>3, ReloadEnds, LeftOf
    <3>2. Left * count = 0 /\ 0 < RADIX
      BY <1>1, <3>1
    <3> QED BY <1>3, <3>2, Uncut
  <2>1. Ticks(0) \in Nat /\ HALF * N \in Int /\ 0 <= HALF * N /\ 0 * D = 0
    BY TicksWhole, Halves, PitPositive, Times
  <2>2. NeverEarly' /\ EarlyHalf' /\ Since'
    BY <1>1, <1>3, <2>0, <2>1 DEF NeverEarly, EarlyHalf, Since, Ticks
  <2> QED BY <1>3, <2>0, <2>2
<1>4. CASE Behind(last) /\ elapsed <= HALF /\ last' = Cut(last + Turns * count) /\ UNCHANGED elapsed
  <2> DEFINE l == last + Turns * count
  <2>1. /\ l \in Nat /\ l <= Ticks(elapsed)
        /\ Turns = CATCHUP \/ Ticks(elapsed) <= l + count
    BY <1>4, Caught
  <2>2. l = last + CATCHUP * count \/ Ticks(elapsed) <= l + count
    BY <2>1
  <2> HIDE DEF l
  <2>3. l * D <= HALF * N /\ l < RADIX
    <3>1. l * D <= Ticks(elapsed) * D /\ l * D \in Int /\ Ticks(elapsed) * D \in Int
      BY <1>1, <2>1, Times, PitPositive
    <3>2. Ticks(elapsed) * D <= elapsed * N /\ elapsed * N <= HALF * N
      <4>1. Ticks(elapsed) * D <= elapsed * N
        BY <1>1, TicksWhole
      <4>2. elapsed * N <= HALF * N
        BY <1>1, <1>4, Times, PitPositive
      <4> QED BY <4>1, <4>2
    <3>3. elapsed * N \in Int /\ HALF * N \in Int /\ RADIX * D \in Int
      <4>1. elapsed \in Int /\ HALF \in Int /\ RADIX \in Int /\ {N, D} \subseteq Nat \ {0}
        BY <1>1, PitPositive
      <4> HIDE DEF HALF
      <4> QED BY <4>1, Times
    <3>4. l * D < RADIX * D
      BY <3>1, <3>2, <3>3, HalfFits
    <3> QED BY <1>1, <2>1, <3>1, <3>2, <3>3, <3>4, Times, PitPositive
  <2>4. last' = l
    <3>1. Cut(l) = l
      BY <2>1, <2>3, Uncut
    <3> QED BY <1>4, <3>1 DEF l
  <2>5. NeverEarly' /\ EarlyHalf'
    BY <1>1, <1>4, <2>1, <2>3, <2>4 DEF NeverEarly, EarlyHalf, Ticks
  <2>6. Since'
    BY <1>1, <1>4 DEF Since
  <2> QED BY <1>1, <1>4, <2>2, <2>4, <2>5, <2>6
<1> QED BY <1>1, <1>2, <1>3, <1>4 DEF Update, Pulse, CatchUp, Periodic

LEMMA PInvStarts == PInit => PInv
<1> SUFFICES ASSUME PInit PROVE PInv
  OBVIOUS
<1>1. PTypeOK
  BY PTypesStart
<1>2. elapsed = 0 /\ last = 0 /\ idle = 0 /\ fired = FALSE
  BY Zenon DEF PInit
<1>3. Ticks(0) \in Nat /\ HALF * N \in Int /\ 0 <= HALF * N /\ 0 * D = 0 /\ HALF \in Nat
  BY TicksWhole, Halves, PitPositive, Times
<1>4. NeverEarly /\ EarlyHalf /\ Since
  BY <1>2, <1>3 DEF NeverEarly, EarlyHalf, Since
<1> QED BY <1>1, <1>2, <1>4 DEF PInv, Fired

(* The invariant follows from step to step, whatever the guest writes.          *)
LEMMA PInvKeeps == PInv /\ Backlog /\ PTypeOK' /\ [PNext]_pvars => PInv'
<1> SUFFICES ASSUME PInv, Backlog, PTypeOK', [PNext]_pvars PROVE PInv'
  OBVIOUS
<1>1. PTypeOK /\ Fired /\ Fired'
  BY FiredKeeps DEF PInv
<1>2. ASSUME Due', Due, UNCHANGED <<elapsed, last, count, idle>> PROVE PInv'
  BY <1>1, <1>2 DEF PInv, NeverEarly, Due, EarlyHalf, Since, Ticks
<1>3. ASSUME NEW a \in 1 .. 3, NEW m \in 0 .. 7, Control(a, m) PROVE PInv'
  BY <1>1, <1>3, Undue DEF Control, Due
<1>4. ASSUME NEW v \in 0 .. BYTE - 1, CountByte(v), Due' PROVE PInv'
  <2>1. UNCHANGED <<pmode, idle>>
    BY <1>4 DEF CountByte
  <2>2. /\ v \in 0 .. Square /\ v * BYTE \in 0 .. Square /\ wlatch + v * BYTE \in 0 .. Square
    BY <1>1, CountFits DEF PTypeOK
  <2>3. CASE \E n \in 0 .. Square : Load(n)
    BY <1>1, <2>1, <2>3, LoadKeeps DEF PInv
  <2>4. CASE UNCHANGED <<count, elapsed, last, fired, stale>>
    BY <1>2, <1>4, <2>1, <2>4 DEF Due
  <2> QED BY <1>4, <2>2, <2>3, <2>4 DEF CountByte
<1>5. ASSUME NEW t \in 1 .. PAUSE, Pass(t), Due' PROVE PInv'
  <2>1. Due
    BY <1>5 DEF Pass, Due
  <2> QED BY <1>1, <1>5, <2>1, PassKeeps DEF PInv
<1>6. ASSUME Update, Due' PROVE PInv'
  <2>1. Due
    BY <1>6 DEF Update, Due
  <2> QED BY <1>1, <1>6, <2>1, PollKeeps DEF PInv
<1>7. ASSUME UNCHANGED pvars PROVE PInv'
  BY <1>1, <1>7, <1>2, Undue DEF pvars, Due
<1> QED BY <1>1, <1>3, <1>4, <1>5, <1>6, <1>7, Undue DEF PNext

THEOREM PInvariance == PSpec /\ []Backlog => []PInv
<1>1. PTypeOK /\ PTypeOK' /\ PInv /\ Backlog /\ [PNext]_pvars => PInv'
  BY PInvKeeps
<1> QED BY <1>1, PInvStarts, PTypesHold, PTL DEF PSpec

(* No tick comes before its time, whatever the guest writes and however late the  *)
(* polls are, unless more than half the range of the counter is owed             *)
(* (i8254_update_irq).                                                        *)
THEOREM TicksComeOnTime == PSpec /\ []Backlog => []NeverEarly
<1>1. PInv => NeverEarly
  BY DEF PInv, Due, NeverEarly
<1> QED BY <1>1, PInvariance, PTL

(* Nor does a poll lose one: it delivers what is owed, or ten ticks, or loads the   *)
(* count anew; and a one-shot fires once.                                      *)
THEOREM NoTickIsLost == PSpec /\ []Backlog => TicksArrive
<1>1. PInv /\ Backlog /\ PTypeOK' /\ [PNext]_pvars =>
        [Update /\ pmode \in Periodic /\ ~stale =>
                   \/ Ticks(elapsed) - last' <= count
                   \/ last' = last + CATCHUP * count
                   \/ elapsed > HALF /\ elapsed' = 0]_pvars
  <2> SUFFICES ASSUME PInv, Backlog, PTypeOK', Update, pmode \in Periodic, ~stale
               PROVE  \/ Ticks(elapsed) - last' <= count
                      \/ last' = last + CATCHUP * count
                      \/ elapsed > HALF /\ elapsed' = 0
    OBVIOUS
  <2>1. \/ Ticks(elapsed) <= last' + count
        \/ last' = last + CATCHUP * count
        \/ elapsed > HALF /\ elapsed' = 0
    BY PollKeeps DEF Due
  <2>2. last' \in Int /\ count \in Int /\ Ticks(elapsed) \in Int
    BY TicksWhole, PitPositive DEF PInv, PTypeOK
  <2> QED BY <2>1, <2>2
<1>2. PInv /\ [PNext]_pvars => [Update /\ pmode \in {0, 4} /\ Pulse => ~fired]_pvars
  <2> SUFFICES ASSUME PInv, pmode \in {0, 4}, Pulse PROVE ~fired
    OBVIOUS
  <2>1. last = 0
    BY DEF Pulse, Fires, Periodic
  <2> QED BY <2>1 DEF PInv, Fired
<1> QED BY <1>1, <1>2, PInvariance, PTypesHold, PTL DEF PSpec, TicksArrive, NoneOwed, OneShotOnce

(* A guest whose count is long enough: ten periods take no less than the longest  *)
(* pause.  What was owed at a poll is then delivered by it.                     *)
KeepsUp == Due => PAUSE * N <= (CATCHUP * count) * D
Ahead == Due => (elapsed - idle) * N < (last + count + 1) * D

LEMMA AheadBounds ==
    ASSUME PInv, Due, Ahead, KeepsUp
    PROVE  /\ CATCHUP * count \in Nat /\ CATCHUP * count <= HALF
           /\ elapsed * N < (last + CATCHUP * count + count + 1) * D
<1>1. /\ elapsed \in Nat /\ idle \in Nat /\ last \in Nat /\ count \in 1 .. Square /\ idle <= PAUSE
      /\ N \in Nat \ {0} /\ D \in Nat \ {0} /\ PAUSE \in Nat /\ CATCHUP \in Nat \ {0}
      /\ Square \in Nat /\ CATCHUP * Square <= HALF /\ HALF \in Nat
  BY PitPositive, Halves DEF PInv, PTypeOK, Square
<1>2. CATCHUP * count \in Nat /\ CATCHUP * count <= CATCHUP * Square /\ CATCHUP * Square \in Nat
  BY <1>1, Z3
<1> DEFINE s == elapsed - idle
           m == last + count + 1
           k == CATCHUP * count
<1>3. s \in Int /\ m \in Int /\ k \in Int
  BY <1>1, <1>2
<1>4. s * N < m * D /\ PAUSE * N <= k * D
  BY DEF Ahead, KeepsUp
<1>5. elapsed = s + idle /\ last + CATCHUP * count + count + 1 = m + k
  BY <1>1, <1>2
<1> HIDE DEF s, m, k
<1>6. (s + idle) * N = s * N + idle * N /\ (m + k) * D = m * D + k * D
  BY <1>1, <1>3, Times
<1>7. idle * N <= PAUSE * N /\ idle * N \in Int /\ PAUSE * N \in Int
  BY <1>1, Times
<1>8. s * N \in Int /\ m * D \in Int /\ k * D \in Int
  BY <1>1, <1>3, Times
<1>9. elapsed * N < (last + CATCHUP * count + count + 1) * D
  BY <1>4, <1>5, <1>6, <1>7, <1>8
<1> QED BY <1>1, <1>2, <1>9

LEMMA AheadSuffices == PInv /\ Ahead /\ KeepsUp => Backlog
<1> SUFFICES ASSUME PInv, Ahead, KeepsUp, Due PROVE Ticks(elapsed) <= last + count + HALF
  BY DEF Backlog
<1>1. elapsed \in Nat /\ last \in Nat /\ count \in Nat /\ HALF \in Nat /\ D \in Nat \ {0}
  BY PitPositive, Halves DEF PInv, PTypeOK, Square
<1>2. CATCHUP * count \in Nat /\ CATCHUP * count <= HALF
  BY AheadBounds
<1> DEFINE m == last + CATCHUP * count + count + 1
<1>3. m \in Nat /\ m <= last + count + HALF + 1
  BY <1>1, <1>2
<1>4. elapsed * N < m * D
  BY AheadBounds
<1> HIDE DEF m
<1>5. Ticks(elapsed) \in Nat /\ Ticks(elapsed) * D <= elapsed * N /\ elapsed * N \in Int
  BY <1>1, TicksWhole
<1>6. m * D \in Int /\ Ticks(elapsed) * D \in Int
  BY <1>1, <1>3, <1>5, Times
<1>7. Ticks(elapsed) < m
  BY <1>1, <1>3, <1>4, <1>5, <1>6, Times
<1> QED BY <1>1, <1>3, <1>5, <1>7

LEMMA AheadKeeps == PInv /\ Ahead /\ KeepsUp /\ PTypeOK' /\ [PNext]_pvars => Ahead'
<1> SUFFICES ASSUME PInv, Ahead, KeepsUp, PTypeOK', [PNext]_pvars, Due' PROVE Ahead'
  BY DEF Ahead
<1>1. PTypeOK /\ HALF \in Nat
  BY Halves DEF PInv
<1>2. ASSUME NEW a \in 1 .. 3, NEW m \in 0 .. 7, Control(a, m) PROVE Ahead'
  BY <1>2 DEF Control, Due
<1>3. ASSUME idle' \in Nat, elapsed' = 0, last' = 0, count' \in Nat PROVE Ahead'
  <2>1. (0 - idle') * N <= 0
    <3>1. (0 - idle') * N <= 0 * N /\ 0 * N = 0
      BY <1>3, Times, PitPositive
    <3> QED BY <3>1
  <2>2. 0 < (0 + count' + 1) * D /\ (0 + count' + 1) * D \in Int
    <3>1. 1 * D <= (0 + count' + 1) * D /\ 1 * D = D
      BY <1>3, Times, PitPositive
    <3>2. (0 + count' + 1) * D \in Int
      BY <1>3, Times, PitPositive
    <3> QED BY <3>1, <3>2, PitPositive
  <2>3. (0 - idle') * N \in Int
    BY <1>3, Times, PitPositive
  <2> QED BY <1>3, <2>1, <2>2, <2>3 DEF Ahead
<1>4. ASSUME NEW v \in 0 .. BYTE - 1, CountByte(v) PROVE Ahead'
  <2>1. UNCHANGED <<pmode, idle>> /\ idle \in Nat
    BY <1>1, <1>4, PitPositive DEF CountByte, PTypeOK
  <2>2. /\ v \in 0 .. Square /\ v * BYTE \in 0 .. Square /\ wlatch + v * BYTE \in 0 .. Square
    BY <1>1, CountFits DEF PTypeOK
  <2>3. CASE \E n \in 0 .. Square : Load(n)
    <3>1. PICK n \in 0 .. Square : Load(n)
      BY <2>3
    <3>2. elapsed' = 0 /\ last' = 0 /\ count' \in 1 .. Square
      BY <1>1, <3>1, LoadTypes
    <3>3. idle' \in Nat /\ count' \in Nat
      BY <2>1, <3>2, Halves
    <3> QED BY <1>3, <3>2, <3>3
  <2>4. CASE UNCHANGED <<count, elapsed, last, fired, stale>>
    BY <2>1, <2>4 DEF Ahead, Due
  <2> QED BY <1>4, <2>2, <2>3, <2>4 DEF CountByte
<1>5. ASSUME NEW t \in 1 .. PAUSE, Pass(t) PROVE Ahead'
  <2>1. Due
    BY <1>5 DEF Pass, Due
  <2>2. elapsed' = elapsed + t /\ idle' = idle + t /\ UNCHANGED <<last, count>>
    BY <1>5, <2>1, PassKeeps DEF Pass
  <2>3. elapsed' - idle' = elapsed - idle
    BY <1>1, <2>2, PitPositive DEF PTypeOK
  <2> QED BY <2>1, <2>2, <2>3 DEF Ahead
<1>6. ASSUME Update PROVE Ahead'
  <2>1. Due /\ Backlog
    BY <1>6, AheadSuffices DEF Update, Due
  <2>2. /\ elapsed \in Nat /\ last \in Nat /\ count \in Nat /\ last' \in Nat /\ 0 \in Nat
        /\ idle' = 0 /\ count' = count
    BY <1>1, <1>6, PitPositive DEF Update, PTypeOK
  <2>3. CASE Ticks(elapsed) <= last' + count /\ elapsed' = elapsed
    <3>1. (elapsed - 0) * N < (last' + count + 1) * D
      BY <2>2, <2>3, OwesNone
    <3> QED BY <2>2, <2>3, <3>1 DEF Ahead
  <2>4. CASE last' = last + CATCHUP * count /\ elapsed' = elapsed
    <3>1. elapsed * N < (last' + count + 1) * D
      BY <2>1, <2>4, AheadBounds
    <3>2. elapsed - 0 = elapsed
      BY <2>2
    <3> QED BY <2>2, <2>4, <3>1, <3>2 DEF Ahead
  <2>5. CASE elapsed > HALF /\ elapsed' = 0 /\ last' = 0
    BY <1>3, <2>2, <2>5
  <2> QED BY <1>6, <2>1, <2>3, <2>4, <2>5, PollKeeps
<1>7. CASE UNCHANGED pvars
  BY <1>7 DEF pvars, Ahead, Due
<1> QED BY <1>2, <1>4, <1>5, <1>6, <1>7 DEF PNext

(* A guest that keeps its periods so long is never owed half the range: the bound  *)
(* of ten ticks a poll is enough to catch up after any pause.                    *)
THEOREM PausesAreCaughtUp == PSpec /\ []KeepsUp => []Backlog
<1>1. PInit => Ahead
  <2> SUFFICES ASSUME PInit PROVE Ahead
    OBVIOUS
  <2>1. elapsed = 0 /\ last = 0 /\ idle = 0 /\ count = Square
    BY Zenon DEF PInit, Square
  <2>2. (0 - 0) * N = 0 /\ 0 < (0 + Square + 1) * D
    <3>1. 1 * D <= (0 + Square + 1) * D /\ 1 * D = D /\ 0 * N = 0
      BY Halves, Times, PitPositive
    <3>2. (0 + Square + 1) * D \in Int
      BY Halves, Times, PitPositive
    <3> QED BY <3>1, <3>2, PitPositive
  <2> QED BY <2>1, <2>2 DEF Ahead
<1>2. PInv /\ Ahead /\ KeepsUp => Backlog
  BY AheadSuffices
<1>3. PInv /\ Ahead /\ KeepsUp /\ PTypeOK' /\ [PNext]_pvars => PInv' /\ Ahead'
  BY AheadKeeps, AheadSuffices, PInvKeeps
<1> QED BY <1>1, <1>2, <1>3, PInvStarts, PTypesHold, PTL DEF PSpec
=============================================================================
