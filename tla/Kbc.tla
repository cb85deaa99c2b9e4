-------------------------------- MODULE Kbc --------------------------------
(***************************************************************************)
(* The keyboard controller with its keyboard and mouse (src/src/i8042.c),   *)
(* the edges the interrupt controller latches from it, and a guest that     *)
(* serves IRQ1 by reading the data port, IRQ12 by reading it if the status  *)
(* says the byte is the mouse's, and polls it besides.  Keys, mouse motion  *)
(* and the timer of a delayed code come between any two accesses.           *)
(*                                                                         *)
(* A byte is what it is part of: a plain key, the E0 prefix, the code after *)
(* it, or an answer; of the mouse's bytes only the number matters.  The A20 *)
(* gate and the reset request, which only concern the CPU, are left out.    *)
(***************************************************************************)
EXTENDS Naturals, Sequences

CONSTANTS QUEUE,    \* PS2_QUEUE_SIZE
          MARGIN,   \* room a mouse event wants, 16 in the code
          BUDGET    \* bound on keys, mouse events and commands

VARIABLES kbdq,     \* queue of the keyboard
          auxn,     \* bytes in that of the mouse
          pending,  \* devices with data available
          obf,      \* KBD_STAT_OBF and KBD_STAT_MOUSE_OBF
          mode,     \* of the mode bits, the two interrupts and "nokbd"
          lines,    \* interrupt lines that are up
          latch,    \* edges latched by the interrupt controller
          await,    \* write_cmd: what the next data byte is
          delayed,  \* a code waits for its time (delay)
          stream,   \* the mouse is enabled and not remote
          guest,    \* what the guest is doing
          spent,    \* of the budget
          lost,     \* a byte met a full keyboard queue
          prefix    \* the last key byte the guest took is E0

kvars == <<kbdq, auxn, pending, obf, mode, lines, latch, await, delayed, stream,
           guest, spent, lost, prefix>>

Devices == {"kbd", "aux"}
Interrupts == {"kbdint", "mouseint"}

\* kbd_update_irq: keyboard data go first
LinesOf(p, m) == CASE p = {} -> {}
                   [] p = {"aux"} -> IF "mouseint" \in m THEN {"aux"} ELSE {}
                   [] OTHER -> IF "kbdint" \in m /\ "nokbd" \notin m THEN {"kbd"} ELSE {}
StatusOf(p) == CASE p = {} -> {} [] p = {"aux"} -> {"obf", "mouse"} [] OTHER -> {"obf"}

KInit == /\ kbdq = <<>> /\ auxn = 0 /\ pending = {} /\ obf = {} /\ mode = Interrupts
         /\ lines = {} /\ latch = {} /\ await = "key" /\ delayed = FALSE
         /\ stream = FALSE /\ guest = "main" /\ spent = 0 /\ lost = FALSE
         /\ prefix = FALSE

UpdateIrq(p, m) ==
    /\ pending' = p /\ obf' = StatusOf(p) /\ lines' = LinesOf(p, m)
    /\ latch' = latch \cup (LinesOf(p, m) \ lines)

(***************************************************************************)
(* ps2_queue and ps2_read_data                                             *)
(***************************************************************************)
Kept(q) == IF Len(q) > QUEUE THEN SubSeq(q, 1, QUEUE) ELSE q
QueueKbd(s) ==
    /\ kbdq' = Kept(kbdq \o s)
    /\ lost' = (lost \/ Len(kbdq) + Len(s) > QUEUE)
    /\ UpdateIrq(pending \cup (IF Len(kbdq) < QUEUE THEN {"kbd"} ELSE {}), mode)
    /\ UNCHANGED auxn

QueueAux(n) ==
    /\ auxn' = IF auxn + n > QUEUE THEN QUEUE ELSE auxn + n
    /\ UpdateIrq(pending \cup (IF n = 0 \/ auxn = QUEUE THEN {} ELSE {"aux"}), mode)
    /\ UNCHANGED <<kbdq, lost>>

Reader == IF pending = {"aux"} THEN "aux" ELSE "kbd"

BadTaken(d, more) ==
    LET p == (pending \ {d}) \cup (IF more THEN {d} ELSE {})
    IN  UpdateIrq(p, mode)
\* the line falls and, if there are more, rises again
Taken(d, more) ==
    LET between == LinesOf(pending \ {d}, mode)
        p == (pending \ {d}) \cup (IF more THEN {d} ELSE {})
    IN  /\ pending' = p /\ obf' = StatusOf(p) /\ lines' = LinesOf(p, mode)
        /\ latch' = latch \cup (between \ lines) \cup (LinesOf(p, mode) \ between)

\* kbd_read_data; an empty queue gives its last byte once more
ReadData ==
    /\ \/ /\ Reader = "aux" /\ auxn > 0
          /\ auxn' = auxn - 1 /\ Taken("aux", auxn > 1)
          /\ UNCHANGED <<kbdq, prefix>>
       \/ /\ Reader = "kbd" /\ kbdq # <<>>
          /\ kbdq' = Tail(kbdq) /\ Taken("kbd", Len(kbdq) > 1)
          /\ prefix' = IF Head(kbdq) = "reply" THEN prefix ELSE Head(kbdq) = "e0"
          /\ UNCHANGED auxn
       \/ /\ Reader = "kbd" /\ kbdq = <<>>
          /\ UNCHANGED <<kbdq, auxn, prefix, pending, obf, lines, latch>>
    /\ UNCHANGED <<mode, await, delayed, stream, lost>>

(***************************************************************************)
(* Keyboard, mouse and timer                                               *)
(***************************************************************************)
Spend == spent < BUDGET /\ spent' = spent + 1
Quiet == UNCHANGED <<mode, await, stream, guest, prefix>>

\* ps2_put_keycode: a code still waiting goes before the new key
BadPutKeycode(extended) ==
    /\ QueueKbd(IF extended THEN <<"e0">> ELSE <<"key">>)
    /\ delayed' = (delayed \/ extended)
PutKeycode(extended) ==
    /\ QueueKbd((IF delayed THEN <<"ext">> ELSE <<>>) \o
                (IF extended THEN <<"e0">> ELSE <<"key">>))
    /\ delayed' = extended

Key(extended) == Spend /\ PutKeycode(extended) /\ Quiet

\* kbd_step, which also raises again what is queued
KbdStep ==
    \E due \in {FALSE, delayed} :
        LET code == IF due THEN <<"ext">> ELSE <<>>
        IN  /\ kbdq' = Kept(kbdq \o code)
            /\ lost' = (lost \/ Len(kbdq \o code) > QUEUE)
            /\ delayed' = (delayed /\ ~due)
            /\ UpdateIrq(pending \cup (IF kbdq' = <<>> THEN {} ELSE {"kbd"})
                                 \cup (IF auxn = 0 THEN {} ELSE {"aux"}), mode)
            /\ Quiet /\ UNCHANGED <<auxn, spent>>

\* ps2_mouse_event: a packet of the plain or of a wheel mouse
MouseEvent ==
    /\ stream /\ auxn < QUEUE - MARGIN
    /\ Spend /\ \E n \in {3, 4} : QueueAux(n)
    /\ Quiet /\ UNCHANGED delayed

(***************************************************************************)
(* The guest's commands: kbd_write_command and kbd_write_data              *)
(***************************************************************************)
AwaitedBy == [wmode |-> "mode", wobuf |-> "obuf", waux |-> "aux", wout |-> "out",
              wmouse |-> "mouse"]

WriteCommand ==
    /\ guest = "main" /\ Spend
    /\ \/ QueueKbd(<<"reply">>) /\ UNCHANGED <<mode, await>>
       \/ /\ \E c \in DOMAIN AwaitedBy : await' = AwaitedBy[c]
          /\ UNCHANGED <<kbdq, auxn, pending, obf, mode, lines, latch, lost>>
       \/ /\ \E m \in {mode \cup {"nokbd"}, mode \ {"nokbd"}} :
                mode' = m /\ UpdateIrq(pending, m)
          /\ UNCHANGED <<kbdq, auxn, await, lost>>
    /\ UNCHANGED <<delayed, stream, guest, prefix>>

WriteData ==
    /\ guest = "main" /\ Spend
    /\ await' = "key"
    /\ \/ /\ await = "key" /\ \E n \in 1 .. 3 : QueueKbd([i \in 1 .. n |-> "reply"])
          /\ UNCHANGED <<mode, stream>>
       \/ /\ await = "mode"
          /\ \E m \in SUBSET (Interrupts \cup {"nokbd"}) : mode' = m /\ UpdateIrq(pending, m)
          /\ UNCHANGED <<kbdq, auxn, stream, lost>>
       \/ /\ await = "obuf" /\ QueueKbd(<<"reply">>) /\ UNCHANGED <<mode, stream>>
       \/ /\ await = "aux" /\ QueueAux(1) /\ UNCHANGED <<mode, stream>>
       \/ /\ await = "mouse" /\ \E n \in 0 .. 4 : QueueAux(n)
          /\ stream' \in BOOLEAN /\ UNCHANGED mode
       \/ /\ await = "out"
          /\ UNCHANGED <<kbdq, auxn, pending, obf, mode, lines, latch, stream, lost>>
    /\ UNCHANGED <<delayed, guest, prefix>>

(***************************************************************************)
(* The guest's interrupts                                                  *)
(***************************************************************************)
TakeIrq(d) ==
    /\ guest = "main" /\ d \in latch
    /\ d = "aux" => "kbd" \notin latch
    /\ latch' = latch \ {d}
    /\ guest' = d
    /\ UNCHANGED <<kbdq, auxn, pending, obf, mode, lines, await, delayed, stream, spent,
                   lost, prefix>>

\* the handler of IRQ12 reads port 0x64 and then, perhaps, port 0x60
AuxLook ==
    /\ guest = "aux"
    /\ guest' = IF "mouse" \in obf THEN "auxread" ELSE "main"
    /\ UNCHANGED <<kbdq, auxn, pending, obf, mode, lines, latch, await, delayed, stream,
                   spent, lost, prefix>>

Serve == guest \in {"kbd", "auxread"} /\ ReadData /\ guest' = "main" /\ UNCHANGED spent

Poll == guest = "main" /\ "obf" \in obf /\ ReadData /\ UNCHANGED <<guest, spent>>

Handler == AuxLook \/ Serve \/ \E d \in Devices : TakeIrq(d)

KNext == Handler \/ Poll \/ WriteCommand \/ WriteData \/ KbdStep \/ MouseEvent
         \/ \E e \in BOOLEAN : Key(e)

\* pc_step calls kbd_step between the guest's batches, and the guest serves what
\* is latched
KFairness == WF_kvars(Handler) /\ WF_kvars(KbdStep)

KSpec == KInit /\ [][KNext]_kvars /\ KFairness

(***************************************************************************)
(* Properties                                                              *)
(***************************************************************************)
Labels == {"key", "e0", "ext", "reply"}
KTypeOK ==
    /\ kbdq \in Seq(Labels) /\ Len(kbdq) <= QUEUE /\ auxn \in 0 .. QUEUE
    /\ pending \subseteq Devices /\ obf \subseteq {"obf", "mouse"}
    /\ mode \subseteq Interrupts \cup {"nokbd"}
    /\ lines \subseteq Devices /\ latch \subseteq Devices
    /\ await \in {"key", "mode", "obuf", "aux", "mouse", "out"}
    /\ delayed \in BOOLEAN /\ stream \in BOOLEAN
    /\ guest \in {"main", "kbd", "aux", "auxread"}
    /\ spent \in 0 .. BUDGET /\ lost \in BOOLEAN /\ prefix \in BOOLEAN

\* The status register and the lines tell what is queued, under the mode of now
\* (kbd_update_irq, src/src/i8042.c:135-157).
StatusTellsQueues ==
    /\ "kbd" \in pending <=> kbdq # <<>>
    /\ "aux" \in pending <=> auxn > 0
    /\ obf = StatusOf(pending) /\ lines = LinesOf(pending, mode)

\* No wakeup is lost to edge triggering: a line that is up is latched, or its
\* handler has been entered and has yet to read (ps2_read_data lowers the line
\* and raises it again for the next byte, src/src/i8042.c:605-608).
NoLostWakeup ==
    /\ "kbd" \in lines => "kbd" \in latch \/ guest = "kbd"
    /\ "aux" \in lines => "aux" \in latch \/ guest \in {"aux", "auxread"}

\* What a byte does to a prefix that waits for its code, and a sequence of them
Reads(before, b, after) == \/ b = "reply" /\ after = before
                           \/ b = "e0" /\ ~before /\ after
                           \/ b = "ext" /\ before /\ ~after
                           \/ b = "key" /\ ~before /\ ~after
Pairs(before, s, after) ==
    \E waiting \in [0 .. Len(s) -> BOOLEAN] :
        /\ waiting[0] = before /\ waiting[Len(s)] = after
        /\ \A i \in 1 .. Len(s) : Reads(waiting[i - 1], s[i], waiting[i])

\* Unless the queue overflowed, the code of an extended key is the key byte after
\* its prefix, whatever answers come between and however the keys are paced
\* (ps2_put_keycode, src/src/i8042.c:531-561): the queue goes from the byte taken last
\* to the code that is still delayed.
PrefixKept == ~lost => Pairs(prefix, kbdq, delayed)

\* Once the guest leaves both interrupts on, every byte queued or delayed
\* reaches it.
Delivered ==
    <>[](mode = Interrupts) => <>[](kbdq = <<>> /\ auxn = 0 /\ ~delayed)
=============================================================================
