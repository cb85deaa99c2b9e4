-------------------------------- MODULE Pit --------------------------------
(***************************************************************************)
(* Channel 0 of the interval timer (src/src/i8254.c): the guest writes      *)
(* control words and counts, time passes, and the board polls the timer,    *)
(* which raises and lowers IRQ0 once for each period it finds elapsed.  The *)
(* poll may be late by up to PAUSE: the guest's batch, a disk access, or    *)
(* the settings screen while it is open.                                   *)
(*                                                                         *)
(* Time is the 32-bit microsecond counter less count_load_time, which is    *)
(* all the code looks at; it wraps at RADIX.  N / D is PIT_FREQ / 1000000.   *)
(* Latches and reads, which do not disturb the ticks, are left out.         *)
(***************************************************************************)
EXTENDS Integers, FiniteSetsExt

CONSTANTS RADIX,   \* 2^32
          N, D,    \* 1193182 and 1000000
          BYTE,    \* 256
          CATCHUP, \* periods caught up in one poll, 10 in the code
          PAUSE,   \* bound: time between two polls
          LOADS    \* bound: ports written

VARIABLES pmode,   \* mode
          count,
          elapsed, \* microseconds since count_load_time
          last,    \* last_irq_count
          wstate,  \* write_state: 1 low, 2 high, 3 word, 4 its second byte
          wlatch,  \* write_latch
          idle,    \* time since the last poll
          writes,  \* ports written
          fired,   \* history: a one-shot mode has pulsed since the count was loaded
                   \* or the mode was periodic
          stale    \* history: a control word has come since the guest wrote the count

HALF == RADIX \div 2

\* N / D is no less than one and less than two: the ticks of half the range, of the longest
\* pause and of the largest count fit the range together, and those of half the range
\* are more than half of it by more than that count, which is small against both
ASSUME PitPositive == /\ {N, D, BYTE, CATCHUP} \subseteq Nat \ {0}
                      /\ {PAUSE, LOADS} \subseteq Nat
                      /\ RADIX \in Nat \ {0} /\ RADIX % 2 = 0
ASSUME PitRange == /\ D <= N
                   /\ (HALF + PAUSE) * N + (BYTE * BYTE + 1) * D <= RADIX * D
                   /\ (HALF + BYTE * BYTE + 1) * D <= (HALF + 1) * N
                   /\ BYTE * BYTE < HALF /\ CATCHUP * (BYTE * BYTE) <= HALF

pvars == <<pmode, count, elapsed, last, wstate, wlatch, idle, writes, fired, stale>>

Periodic == {2, 3}

\* d, before and after it is cut to 32 bits
Ticks(t) == (t * N) \div D
Cut(n) == n % RADIX
Now == Cut(Ticks(elapsed))

\* last_irq_count + count is before d, by the sign of the difference
Behind(l) == Cut(l + count - Now) >= HALF

PInit == /\ pmode = 3 /\ count = BYTE * BYTE /\ elapsed = 0 /\ last = 0
         /\ wstate = 0 /\ wlatch = 0 /\ idle = 0 /\ writes = 0 /\ fired = FALSE
         /\ stale = FALSE

\* pit_load_count
Load(n) == /\ count' = IF n = 0 THEN BYTE * BYTE ELSE n
           /\ elapsed' = 0 /\ last' = 0 /\ fired' = FALSE /\ stale' = FALSE

Write == writes < LOADS /\ writes' = writes + 1

\* port 0x43; modes 6 and 7 are 2 and 3
Control(access, m) ==
    /\ Write
    /\ pmode' = IF m >= 6 THEN m - 4 ELSE m
    /\ wstate' = access /\ stale' = TRUE
    /\ fired' = (fired /\ pmode' \notin Periodic)
    /\ UNCHANGED <<count, elapsed, last, wlatch, idle>>

\* port 0x40
CountByte(v) ==
    /\ Write
    /\ \/ wstate \in {0, 1} /\ Load(v) /\ UNCHANGED <<wstate, wlatch>>
       \/ wstate = 2 /\ Load(v * BYTE) /\ UNCHANGED <<wstate, wlatch>>
       \/ wstate = 3 /\ wstate' = 4 /\ wlatch' = v
                      /\ UNCHANGED <<count, elapsed, last, fired, stale>>
       \/ wstate = 4 /\ wstate' = 3 /\ Load(wlatch + v * BYTE) /\ UNCHANGED wlatch
    /\ UNCHANGED <<pmode, idle>>

Pass(t) ==
    /\ idle + t <= PAUSE
    /\ elapsed' = Cut(elapsed + t) /\ idle' = idle + t
    /\ UNCHANGED <<pmode, count, last, wstate, wlatch, writes, fired, stale>>

(***************************************************************************)
(* i8254_update_irq                                                        *)
(***************************************************************************)
\* turns of the catch-up loop, and those that come after one that loads the count
Turns == Min({k \in 1 .. CATCHUP : ~Behind(last + k * count)} \cup {CATCHUP})
Left == Min({k \in 0 .. CATCHUP - 1 : ~Behind(k * count)} \cup {CATCHUP - 1})

BadReload ==
    \/ elapsed > HALF /\ elapsed' = 0 /\ fired' = FALSE /\ UNCHANGED last
    \/ elapsed <= HALF /\ last' = Cut(last + Turns * count) /\ UNCHANGED <<elapsed, fired>>
BadWrap == last' = Cut(last + Turns * count) /\ UNCHANGED <<elapsed, fired>>
\* the first turn loads a count again that was loaded long ago, before the counter
\* wraps; d is not computed anew
CatchUp ==
    \/ elapsed > HALF /\ elapsed' = 0 /\ last' = Cut(Left * count) /\ fired' = FALSE
    \/ elapsed <= HALF /\ last' = Cut(last + Turns * count) /\ UNCHANGED <<elapsed, fired>>

\* a one-shot mode fires when the count has run out, once per load
Fires == last = 0 /\ Cut(Now - count) < HALF

\* the poll, and the pulse if there is one
Pulse ==
    \/ pmode \in Periodic /\ Behind(last) /\ CatchUp
    \/ pmode \in {0, 4} /\ Fires /\ last' = count /\ fired' = TRUE
       /\ UNCHANGED elapsed

NoPulse ==
    /\ pmode \in Periodic => ~Behind(last)
    /\ pmode \in {0, 4} => ~Fires
    /\ UNCHANGED <<last, elapsed, fired>>

Update == /\ Pulse \/ NoPulse
          /\ idle' = 0 /\ UNCHANGED <<pmode, count, wstate, wlatch, writes, stale>>

PNext == \/ \E a \in 1 .. 3, m \in 0 .. 7 : Control(a, m)
         \/ \E v \in 0 .. BYTE - 1 : CountByte(v)
         \/ \E t \in 1 .. PAUSE : Pass(t)
         \/ Update

PSpec == PInit /\ [][PNext]_pvars

(***************************************************************************)
(* Properties                                                              *)
(***************************************************************************)
PTypeOK ==
    /\ pmode \in 0 .. 5 /\ count \in 1 .. BYTE * BYTE /\ elapsed \in 0 .. RADIX - 1
    /\ last \in 0 .. RADIX - 1 /\ wstate \in 0 .. 4 /\ wlatch \in 0 .. BYTE - 1
    /\ idle \in 0 .. PAUSE /\ writes \in 0 .. LOADS
    /\ fired \in BOOLEAN /\ stale \in BOOLEAN

\* No tick comes before its time: what has been pulsed since the count was loaded
\* has elapsed, also across the loads of the catch-up loop itself
\* (i8254_update_irq, src/src/i8254.c:290-312).
NeverEarly == pmode \in Periodic /\ ~stale => last <= Ticks(elapsed)

\* A poll that finds ticks owed delivers all of them, or ten, unless it loads the
\* count anew; and it finds them although time and ticks wrap at 2^32
\* (src/src/i8254.c:290-312).
NoneOwed == [][Update /\ pmode \in Periodic /\ ~stale =>
                   \/ Ticks(elapsed) - last' <= count
                   \/ last' = last + CATCHUP * count
                   \/ elapsed > HALF /\ elapsed' = 0]_pvars

\* A one-shot fires once for a load: a pulse comes at most once until the count
\* is written or the mode becomes periodic (src/src/i8254.c:314-330).
OneShotOnce == [][Update /\ pmode \in {0, 4} /\ Pulse => ~fired]_pvars

TicksArrive == NoneOwed /\ OneShotOnce
=============================================================================
