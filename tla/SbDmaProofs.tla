----------------------------- MODULE SbDmaProofs -----------------------------
(***************************************************************************)
(* Proofs about SbDma, for a ring, a look-ahead and blocks of any size.      *)
(*                                                                         *)
(* A handler of core 0 that runs the channel chains several changes of a     *)
(* machine [dsp, dma, q]; the lemmas say once what the whole chain keeps.    *)
(* A reset card is silent because the block size is gone and nothing is      *)
(* owed (Silent): that is all that core 1, or a channel still requested,     *)
(* can find.  The count of the controller and the countdown of the card      *)
(* move together (Agrees) from the moment the transfer is started, since     *)
(* nothing has moved before (Untouched).  Playback never passes the copy     *)
(* although core 1 may advance a play pointer it read before a drop: what it *)
(* advances by is no more than any drop leaves, and the pointer it read lags *)
(* the one the drop left by no more than it is held up (PaceInv).           *)
(***************************************************************************)
EXTENDS SbDma, TLAPS

(* Arithmetic. *)

LEMMA MinOfTwo ==
    ASSUME NEW a \in Int, NEW b \in Int
    PROVE  Min({a, b}) = IF a <= b THEN a ELSE b
<1>1. PICK c \in {a, b} : \A y \in {a, b} : c <= y
  <2>1. CASE a <= b
    BY <2>1
  <2>2. CASE ~(a <= b)
    BY <2>2
  <2> QED BY <2>1, <2>2
<1>2. Min({a, b}) \in {a, b} /\ \A y \in {a, b} : Min({a, b}) <= y
  BY <1>1 DEF Min
<1> QED BY <1>2

LEMMA ModRange ==
    ASSUME NEW a \in Int, NEW n \in Nat \ {0}
    PROVE  a % n \in 0 .. n - 1
BY Z3

LEMMA ModSmall ==
    ASSUME NEW n \in Nat \ {0}, NEW a \in 0 .. n - 1
    PROVE  a % n = a
BY SMT

(* a count of whole buffers *)
LEMMA ModWhole ==
    ASSUME NEW n \in Nat \ {0}, NEW a \in {0, n, 2 * n}
    PROVE  a % n = 0
<1>1. 0 % n = 0
  BY SMT
<1>2. n % n = 0
  BY SMT
<1>3. (2 * n) % n = 0
  BY SMT
<1> QED BY <1>1, <1>2, <1>3


-----------------------------------------------------------------------------
(* The transfer. *)

DspSet == [running: BOOLEAN, auto: BOOLEAN, size: Sizes \cup {-1, 0},
           left: Int, status: BOOLEAN, await: BOOLEAN, late: BOOLEAN,
           atq: Index, aux: BOOLEAN, auxLate: BOOLEAN]
DmaSet == [now: Nat, len: Lengths \cup {1}, reload: BOOLEAN, mask: BOOLEAN,
           dreq: BOOLEAN, tc: BOOLEAN]
Machines == [dsp: DspSet, dma: DmaSet, q: Index]
InBuffer(m) == m.dma.now <= m.dma.len

(* what a transfer leaves alone *)
SameSetup(m, r) ==
    /\ r.dsp.size = m.dsp.size /\ r.dsp.auto = m.dsp.auto
    /\ r.dma.len = m.dma.len /\ r.dma.reload = m.dma.reload /\ r.dma.mask = m.dma.mask
    /\ m.dsp.auto => r.dsp.running = m.dsp.running

(* The count and the countdown, of a buffer of one block: both are where the  *)
(* last byte moved left them, up to whole buffers.                            *)
Agrees(m) ==
    m.dsp.size = m.dma.len =>
        /\ m.dsp.left \in 0 .. m.dma.len
        /\ m.dma.now + m.dsp.left \in {0, m.dma.len, 2 * m.dma.len}

LEMMA Positive ==
    ASSUME NEW m \in Machines
    PROVE  /\ m.dma.len \in Nat \ {0} /\ m.dma.now \in Nat
           /\ m.dsp.size \in Int /\ m.dsp.left \in Int
           /\ m.q \in Index /\ m.q \in Int
<1>1. m.dsp \in DspSet /\ m.dma \in DmaSet /\ m.q \in Index
  BY DEF Machines
<1>2. m.dma.len \in Lengths \cup {1} /\ m.dma.now \in Nat
  BY <1>1 DEF DmaSet
<1>3. m.dsp.size \in Sizes \cup {-1, 0} /\ m.dsp.left \in Int
  BY <1>1 DEF DspSet
<1>4. m.dma.len \in Nat \ {0}
  <2>1. CASE m.dma.len \in Lengths
    BY <2>1, GuestAssumption, Zenon
  <2>2. CASE m.dma.len = 1
    BY <2>2, SMT
  <2> QED BY <1>2, <2>1, <2>2, Zenon
<1>5. m.dsp.size \in Int
  <2>1. CASE m.dsp.size \in Sizes
    <3>1. m.dsp.size \in Nat
      BY <2>1, GuestAssumption, Zenon
    <3> QED BY <3>1, SMT
  <2>2. CASE m.dsp.size \in {-1, 0}
    BY <2>2, SMT
  <2> QED BY <1>3, <2>1, <2>2, Zenon
<1>6. m.q \in Int
  BY <1>1, RingAssumption DEF Index
<1> QED BY <1>1, <1>2, <1>3, <1>4, <1>5, <1>6

LEMMA ForwardType ==
    ASSUME NEW a \in Int, NEW n \in Int
    PROVE  Forward(a, n) \in Index /\ Behind(a, n) \in Index
<1>1. W \in Nat \ {0}
  BY RingAssumption
<1>2. a + n \in Int /\ a - n \in Int
  OBVIOUS
<1> QED BY <1>1, <1>2, ModRange DEF Forward, Behind, Index

LEMMA GapType ==
    ASSUME NEW a \in Index, NEW b \in Index
    PROVE  SignedGap(a, b) \in Int
<1>1. a \in Int /\ b \in Int /\ W \in Nat
  BY RingAssumption DEF Index
<1>2. Behind(a, b) \in Int
  BY <1>1, ForwardType DEF Index
<1> QED BY <1>1, <1>2 DEF SignedGap

(* write_audio moves some of what it is offered: it goes from the countdown   *)
(* to the count.                                                              *)
LEMMA WriteAudioEffect ==
    ASSUME NEW m \in Machines, NEW copy \in Nat, p \in Index
    PROVE  /\ WriteAudio(m, copy) \in Machines
           /\ SameSetup(m, WriteAudio(m, copy))
           /\ \E t \in 0 .. copy :
                /\ WriteAudio(m, copy).dma.now = m.dma.now + t
                /\ WriteAudio(m, copy).dsp.left = m.dsp.left - t
<1> DEFINE t  == Min({copy, Room(m)})
           d1 == [m.dsp EXCEPT !.left = @ - t]
           c1 == [m.dma EXCEPT !.now = @ + t]
           c2 == [c1 EXCEPT !.dreq = @ /\ t = copy]
<1>1. Room(m) \in Nat
  <2>1. Behind(m.q, p) \in Int /\ RING \in Int
    <3>1. p \in Int /\ m.q \in Int
      BY Positive, RingAssumption DEF Index
    <3>2. Behind(m.q, p) \in Index
      BY <3>1, ForwardType
    <3> QED BY <3>2, RingAssumption DEF Index
  <2> QED BY <2>1 DEF Room
<1>2. t \in 0 .. copy
  BY <1>1, MinOfTwo
<1>3. WriteAudio(m, copy) = [m EXCEPT !.q = Forward(@, t), !.dsp = d1, !.dma = c2]
  BY DEF WriteAudio, Machines
<1> HIDE DEF t
<1>4. m.dsp \in DspSet /\ m.dma \in DmaSet
  BY DEF Machines
<1>5. d1 \in DspSet /\ d1.left = m.dsp.left - t /\ d1.size = m.dsp.size
      /\ d1.auto = m.dsp.auto /\ d1.running = m.dsp.running
  BY <1>2, <1>4 DEF DspSet
<1>6. c1 \in DmaSet /\ c1.now = m.dma.now + t /\ c1.len = m.dma.len
      /\ c1.reload = m.dma.reload /\ c1.mask = m.dma.mask
  BY <1>2, <1>4 DEF DmaSet
<1> HIDE DEF c1, d1
<1>7. c2 \in DmaSet /\ c2.now = c1.now /\ c2.len = c1.len
      /\ c2.reload = c1.reload /\ c2.mask = c1.mask
  BY <1>6 DEF DmaSet
<1>8. Forward(m.q, t) \in Index
  BY <1>2, Positive, ForwardType
<1> HIDE DEF c2
<1>9. /\ WriteAudio(m, copy) \in Machines
      /\ WriteAudio(m, copy).dsp = d1 /\ WriteAudio(m, copy).dma = c2
  BY <1>3, <1>5, <1>7, <1>8 DEF Machines
<1> QED BY <1>2, <1>5, <1>6, <1>7, <1>9 DEF SameSetup

(* The end of a block restarts the countdown. *)
LEMMA CompleteBlockEffect ==
    ASSUME NEW m \in Machines
    PROVE  /\ CompleteBlock(m) \in Machines
           /\ SameSetup(m, CompleteBlock(m))
           /\ CompleteBlock(m).dma.now = m.dma.now
           /\ CompleteBlock(m).dsp.left = m.dsp.size
<1> DEFINE d1 == [m.dsp EXCEPT !.status = TRUE, !.atq = m.q, !.await = TRUE,
                               !.late = FALSE, !.left = m.dsp.size]
           d2 == [d1 EXCEPT !.running = FALSE]
           c2 == [m.dma EXCEPT !.dreq = FALSE]
<1>0. m.dsp \in DspSet /\ m.dma \in DmaSet /\ m.q \in Index /\ m.dsp.size \in Int
  BY Positive DEF Machines
<1>1. CompleteBlock(m) = IF m.dsp.auto THEN [m EXCEPT !.dsp = d1]
                                       ELSE [m EXCEPT !.dsp = d2, !.dma = c2]
  BY DEF CompleteBlock, Control, Machines
<1>2. d1 \in DspSet /\ d1.left = m.dsp.size /\ d1.size = m.dsp.size
      /\ d1.auto = m.dsp.auto /\ d1.running = m.dsp.running
  BY <1>0 DEF DspSet
<1> HIDE DEF d1
<1>3. d2 \in DspSet /\ d2.left = d1.left /\ d2.size = d1.size /\ d2.auto = d1.auto
  BY <1>2 DEF DspSet
<1>4. c2 \in DmaSet /\ c2.now = m.dma.now /\ c2.len = m.dma.len
      /\ c2.reload = m.dma.reload /\ c2.mask = m.dma.mask
  BY <1>0 DEF DmaSet
<1> HIDE DEF d2, c2
<1>5. CASE m.dsp.auto
  <2>1. /\ CompleteBlock(m) \in Machines
        /\ CompleteBlock(m).dsp = d1 /\ CompleteBlock(m).dma = m.dma
    BY <1>1, <1>2, <1>5 DEF Machines
  <2> QED BY <1>2, <2>1 DEF SameSetup
<1>6. CASE ~m.dsp.auto
  <2>1. /\ CompleteBlock(m) \in Machines
        /\ CompleteBlock(m).dsp = d2 /\ CompleteBlock(m).dma = c2
    BY <1>1, <1>3, <1>4, <1>6 DEF Machines
  <2> QED BY <1>2, <1>3, <1>4, <1>6, <2>1 DEF SameSetup
<1> QED BY <1>5, <1>6

(* SB_read_DMA does nothing without a block size; otherwise it keeps the      *)
(* position in the buffer, and the count with the countdown.                  *)
LEMMA ReadDmaEffect ==
    ASSUME NEW m \in Machines, InBuffer(m), p \in Index
    PROVE  /\ ReadDma(m) \in Machines
           /\ InBuffer(ReadDma(m))
           /\ SameSetup(m, ReadDma(m))
           /\ m.dsp.size <= 0 => ReadDma(m) = m
           /\ Agrees(m) => Agrees(ReadDma(m))
<1> DEFINE free  == Lead(m.dsp.auto) - SignedGap(m.q, p)
           start == [m EXCEPT !.dma.now = IF @ >= m.dma.len THEN 0 ELSE @,
                              !.dsp.left = IF @ < 0 THEN m.dsp.size ELSE @]
           copy  == Min({free, start.dsp.left})
           moved == WriteAudio(start, copy)
           home  == [moved EXCEPT !.dma.now = IF @ = 0 THEN 0 ELSE ((@ - 1) % m.dma.len) + 1]
           len   == m.dma.len
<1>0. /\ len \in Nat \ {0} /\ m.dma.now \in Nat
      /\ m.dsp.size \in Int /\ m.dsp.left \in Int
      /\ m.q \in Index
      /\ m.dsp \in DspSet /\ m.dma \in DmaSet
  BY Positive DEF Machines
<1>r. ReadDma(m) = IF m.dsp.size <= 0 THEN m
                   ELSE IF free <= 0 THEN start
                   ELSE IF home.dsp.left > 0 THEN home
                   ELSE CompleteBlock(home)
  BY DEF ReadDma
<1>s. \A x : SameSetup(x, x)
  BY DEF SameSetup
<1>1. CASE m.dsp.size <= 0
  BY <1>r, <1>s, <1>1
<1>2. CASE ~(m.dsp.size <= 0)
  <2>1. free \in Int
    <3>1. Lead(m.dsp.auto) \in Int
      BY LeadAssumption DEF Lead
    <3> QED BY <1>0, <3>1, GapType
  <2>2. /\ start \in Machines /\ SameSetup(m, start)
        /\ start.dma.len = len
        /\ start.dma.now \in 0 .. len - 1
        /\ start.dsp.left \in Nat
        /\ start.dsp.size = m.dsp.size
        /\ m.dma.now = start.dma.now \/ (m.dma.now = len /\ start.dma.now = 0)
        /\ m.dsp.left >= 0 => start.dsp.left = m.dsp.left
    <3> DEFINE n  == IF m.dma.now >= len THEN 0 ELSE m.dma.now
               lf == IF m.dsp.left < 0 THEN m.dsp.size ELSE m.dsp.left
               c1 == [m.dma EXCEPT !.now = n]
               d1 == [m.dsp EXCEPT !.left = lf]
    <3>1. start = [m EXCEPT !.dma = c1, !.dsp = d1]
      BY DEF Machines
    <3>2. n \in 0 .. len - 1 /\ (m.dma.now = n \/ (m.dma.now = len /\ n = 0))
      BY <1>0 DEF InBuffer
    <3>3. lf \in Nat /\ (m.dsp.left >= 0 => lf = m.dsp.left)
      BY <1>0, <1>2
    <3> HIDE DEF n, lf
    <3>4. c1 \in DmaSet /\ c1.now = n /\ c1.len = len
          /\ c1.reload = m.dma.reload /\ c1.mask = m.dma.mask
      BY <1>0, <3>2 DEF DmaSet
    <3>5. d1 \in DspSet /\ d1.left = lf /\ d1.size = m.dsp.size
          /\ d1.auto = m.dsp.auto /\ d1.running = m.dsp.running
      BY <1>0, <3>3 DEF DspSet
    <3> HIDE DEF c1, d1, start
    <3>6. start \in Machines /\ start.dma = c1 /\ start.dsp = d1
      BY <3>1, <3>4, <3>5 DEF Machines
    <3> QED BY <3>2, <3>3, <3>4, <3>5, <3>6 DEF SameSetup
  <2>a. Agrees(m) => Agrees(start)
    BY <1>0, <2>2 DEF Agrees
  <2> HIDE DEF free, start
  <2>3. CASE free <= 0
    <3>1. InBuffer(start)
      BY <1>0, <2>2 DEF InBuffer
    <3> QED BY <1>r, <1>2, <2>2, <2>3, <2>a, <3>1
  <2>4. CASE ~(free <= 0)
    <3>1. copy \in Nat /\ copy <= start.dsp.left
      BY <2>1, <2>2, <2>4, MinOfTwo
    <3> HIDE DEF copy
    <3>2. PICK t \in 0 .. copy :
            /\ moved.dma.now = start.dma.now + t
            /\ moved.dsp.left = start.dsp.left - t
      BY <2>2, <3>1, WriteAudioEffect
    <3>3. moved \in Machines /\ SameSetup(start, moved)
      BY <2>2, <3>1, WriteAudioEffect
    <3> HIDE DEF moved
    <3>4. moved.dma.len = len /\ moved.dsp.size = m.dsp.size
      BY <2>2, <3>3 DEF SameSetup
    <3> DEFINE n == IF moved.dma.now = 0 THEN 0 ELSE ((moved.dma.now - 1) % len) + 1
    <3>5. n \in 0 .. len /\ (moved.dma.now <= len => n = moved.dma.now)
      <4>1. moved.dma.now \in Nat
        BY <3>3, Positive
      <4>2. CASE moved.dma.now = 0
        BY <1>0, <4>2
      <4>3. CASE moved.dma.now # 0
        <5> DEFINE a == moved.dma.now - 1
        <5>0. a \in Int /\ (moved.dma.now <= len => a \in 0 .. len - 1)
          BY <1>0, <4>1, <4>3
        <5> HIDE DEF a, len
        <5>1. a % len \in 0 .. len - 1
          BY <1>0, <5>0, ModRange
        <5>2. moved.dma.now <= len => a % len = a
          BY <1>0, <5>0, ModSmall
        <5> USE DEF a
        <5> QED BY <1>0, <4>1, <4>3, <5>1, <5>2
      <4> QED BY <4>2, <4>3
    <3>6. /\ home \in Machines /\ SameSetup(moved, home) /\ home.dma.now = n
          /\ home.dsp.left = moved.dsp.left
      <4> DEFINE c1 == [moved.dma EXCEPT !.now = n]
      <4>1. home = [moved EXCEPT !.dma = c1]
        BY <3>3 DEF Machines
      <4>2. moved.dma \in DmaSet
        BY <3>3 DEF Machines
      <4> HIDE DEF n
      <4>3. c1 \in DmaSet /\ c1.now = n /\ c1.len = moved.dma.len
            /\ c1.reload = moved.dma.reload /\ c1.mask = moved.dma.mask
        BY <1>0, <3>5, <4>2 DEF DmaSet
      <4> HIDE DEF c1, home
      <4>4. home \in Machines /\ home.dma = c1 /\ home.dsp = moved.dsp
        BY <3>3, <4>1, <4>3 DEF Machines
      <4> QED BY <4>3, <4>4 DEF SameSetup
    <3> HIDE DEF n, home
    <3>7. SameSetup(m, home) /\ home.dma.len = len /\ home.dsp.size = m.dsp.size
      BY <2>2, <3>3, <3>4, <3>6 DEF SameSetup
    <3>8. InBuffer(home)
      BY <3>5, <3>6, <3>7 DEF InBuffer
    <3>9. Agrees(m) => Agrees(home) /\ (home.dsp.left <= 0 => home.dsp.left = 0)
      <4> SUFFICES ASSUME Agrees(m), m.dsp.size = len
                   PROVE  Agrees(home) /\ (home.dsp.left <= 0 => home.dsp.left = 0)
        <5>1. home.dsp.left = start.dsp.left - t /\ t <= start.dsp.left
          BY <2>2, <3>1, <3>2, <3>6
        <5>2. home.dsp.left \in Nat
          BY <2>2, <3>1, <3>2, <5>1
        <5> QED BY <3>7, <5>2 DEF Agrees
      <4>1. start.dma.now + start.dsp.left \in {0, len} /\ start.dsp.left \in 0 .. len
        BY <1>0, <2>2, <2>a DEF Agrees
      <4>2. t <= start.dsp.left /\ t \in Nat
        BY <2>2, <3>1
      <4>3. home.dma.now = start.dma.now + t
        BY <1>0, <2>2, <3>2, <3>5, <3>6, <4>1, <4>2
      <4>4. home.dsp.left = start.dsp.left - t
        BY <3>2, <3>6
      <4> QED BY <1>0, <2>2, <3>7, <4>1, <4>2, <4>3, <4>4 DEF Agrees
    <3>10. CASE home.dsp.left > 0
      BY <1>r, <1>2, <2>4, <3>6, <3>7, <3>8, <3>9, <3>10
    <3>11. CASE ~(home.dsp.left > 0)
      <4>1. /\ CompleteBlock(home) \in Machines
            /\ SameSetup(home, CompleteBlock(home))
            /\ CompleteBlock(home).dma.now = home.dma.now
            /\ CompleteBlock(home).dsp.left = home.dsp.size
        BY <3>6, CompleteBlockEffect
      <4>2. ReadDma(m) = CompleteBlock(home)
        BY <1>r, <1>2, <2>4, <3>11
      <4>3. InBuffer(CompleteBlock(home))
        BY <3>8, <4>1 DEF InBuffer, SameSetup
      <4>4. SameSetup(m, CompleteBlock(home))
        BY <3>7, <4>1 DEF SameSetup
      <4>5. Agrees(m) => Agrees(CompleteBlock(home))
        <5>1. home.dsp.left \in Int /\ home.dma.now \in Nat
          BY <3>6, Positive
        <5>2. Agrees(m) => home.dsp.left = 0
          BY <3>9, <3>11, <5>1
        <5> QED BY <1>0, <3>7, <3>8, <3>9, <4>1, <5>1, <5>2 DEF Agrees, SameSetup, InBuffer
      <4> QED BY <1>2, <4>1, <4>2, <4>3, <4>4, <4>5
    <3> QED BY <3>10, <3>11
  <2> QED BY <2>3, <2>4
<1> QED BY <1>1, <1>2

(* Terminal count and the reload go round the buffer once. *)
LEMMA ChannelRunEffect ==
    ASSUME NEW m \in Machines, InBuffer(m), p \in Index
    PROVE  /\ ChannelRun(m) \in Machines
           /\ InBuffer(ChannelRun(m))
           /\ SameSetup(m, ChannelRun(m))
           /\ ChannelRun(m).dsp = ReadDma(m).dsp
           /\ ChannelRun(m).q = ReadDma(m).q
           /\ Agrees(m) => Agrees(ChannelRun(m))
<1> DEFINE r  == ReadDma(m)
           n  == IF r.dma.reload THEN 0 ELSE r.dma.now
           c0 == [r.dma EXCEPT !.tc = TRUE]
           c1 == [c0 EXCEPT !.now = n]
<1>1. /\ r \in Machines /\ InBuffer(r) /\ SameSetup(m, r)
      /\ Agrees(m) => Agrees(r)
  BY ReadDmaEffect
<1>2. ChannelRun(m) = IF r.dma.now # r.dma.len THEN r ELSE [r EXCEPT !.dma = c1]
  <2>1. r \in Machines
    BY <1>1
  <2> QED BY <2>1 DEF ChannelRun, Machines
<1> HIDE DEF r
<1>3. CASE r.dma.now # r.dma.len
  BY <1>1, <1>2, <1>3 DEF r
<1>4. CASE r.dma.now = r.dma.len
  <2>0. r.dma \in DmaSet /\ r.dma.len \in Nat \ {0} /\ r.dma.now \in Nat /\ r.dsp.left \in Int
    BY <1>1, Positive DEF Machines
  <2>1. n \in {0, r.dma.len}
    BY <1>4
  <2> HIDE DEF n
  <2>2. c1 \in DmaSet /\ c1.now = n /\ c1.len = r.dma.len
        /\ c1.reload = r.dma.reload /\ c1.mask = r.dma.mask
    <3>1. c0 \in DmaSet /\ c0.len = r.dma.len
          /\ c0.reload = r.dma.reload /\ c0.mask = r.dma.mask
      BY <2>0 DEF DmaSet
    <3> HIDE DEF c0
    <3>2. n \in Nat
      BY <2>0, <2>1
    <3> QED BY <3>1, <3>2 DEF DmaSet
  <2> HIDE DEF c1
  <2>3. /\ ChannelRun(m) \in Machines
        /\ ChannelRun(m).dma = c1 /\ ChannelRun(m).dsp = r.dsp /\ ChannelRun(m).q = r.q
    BY <1>1, <1>2, <1>4, <2>2 DEF Machines
  <2>4. InBuffer(ChannelRun(m))
    BY <2>0, <2>1, <2>2, <2>3 DEF InBuffer
  <2>5. SameSetup(m, ChannelRun(m))
    BY <1>1, <2>2, <2>3 DEF SameSetup
  <2>6. Agrees(r) => Agrees(ChannelRun(m))
    BY <1>4, <2>0, <2>1, <2>2, <2>3 DEF Agrees
  <2> QED BY <1>1, <2>3, <2>4, <2>5, <2>6 DEF r
<1> QED BY <1>3, <1>4

(* i8257_dma_run keeps all that, and does nothing to a card without a block   *)
(* size.                                                                      *)
LEMMA DmaRunEffect ==
    ASSUME NEW m \in Machines, InBuffer(m), p \in Index
    PROVE  /\ DmaRun(m) \in Machines
           /\ InBuffer(DmaRun(m))
           /\ SameSetup(m, DmaRun(m))
           /\ m.dsp.size <= 0 => DmaRun(m).dsp = m.dsp /\ DmaRun(m).q = m.q
           /\ ~m.dma.dreq => DmaRun(m) = m
           /\ Agrees(m) => Agrees(DmaRun(m))
<1>1. CASE ~m.dma.mask /\ m.dma.dreq
  BY <1>1, ReadDmaEffect, ChannelRunEffect DEF DmaRun
<1>2. CASE ~(~m.dma.mask /\ m.dma.dreq)
  BY <1>2 DEF DmaRun, SameSetup
<1> QED BY <1>1, <1>2

-----------------------------------------------------------------------------
(* Types. *)

Typed(m) == m \in Machines /\ InBuffer(m)

RestTyped ==
    /\ p \in Index /\ phase \in 0 .. PHASES - 1
    /\ line \in BOOLEAN /\ irr \in BOOLEAN
    /\ core0 \in {"devices", "poll", "guest"}
    /\ core1 \in [pc: {"idle", "play", "check", "load", "store"}, p: Index,
                  advance: Nat, tc: BOOLEAN]
    /\ drv \in [at: {"main", "isr", "acked"}, waiting: BOOLEAN, armed: BOOLEAN]

LEMMA TypesOfAll == TypeOK <=> Typed(Now) /\ RestTyped
BY DEF TypeOK, Typed, RestTyped, Now, Machines, InBuffer, DspSet, DmaSet

LEMMA BecomesTyped ==
    ASSUME NEW m, Typed(m), Becomes(m), RestTyped'
    PROVE  TypeOK'
BY DEF TypeOK, Typed, RestTyped, Becomes, Machines, InBuffer, DspSet, DmaSet

LEMMA ControlEffect ==
    ASSUME NEW m \in Machines, NEW hold \in BOOLEAN
    PROVE  /\ Control(m, hold) \in Machines
           /\ Control(m, hold).q = m.q
           /\ Control(m, hold).dsp = [m.dsp EXCEPT !.running = hold]
           /\ Control(m, hold).dma = [m.dma EXCEPT !.dreq = hold]
<1> DEFINE d == [m.dsp EXCEPT !.running = hold]
           c == [m.dma EXCEPT !.dreq = hold]
<1>1. d \in DspSet /\ c \in DmaSet
  BY DEF Machines, DspSet, DmaSet
<1>2. Control(m, hold) = [m EXCEPT !.dsp = d, !.dma = c]
  BY DEF Control, Machines
<1> HIDE DEF d, c
<1>3. /\ Control(m, hold) \in Machines /\ Control(m, hold).q = m.q
      /\ Control(m, hold).dsp = d /\ Control(m, hold).dma = c
  BY <1>1, <1>2 DEF Machines
<1> QED BY <1>3 DEF d, c

LEMMA PollFields ==
    ASSUME NEW d \in DspSet,
           NEW a \in BOOLEAN, NEW b \in BOOLEAN, NEW c \in BOOLEAN,
           NEW e \in BOOLEAN, NEW f \in BOOLEAN
    PROVE  [d EXCEPT !.await = a, !.late = b, !.aux = c, !.auxLate = e, !.status = f]
             \in DspSet
<1> DEFINE d1 == [d EXCEPT !.await = a, !.late = b]
           d2 == [d1 EXCEPT !.aux = c, !.auxLate = e]
           d3 == [d2 EXCEPT !.status = f]
<1>1. d1 \in DspSet
  BY DEF DspSet
<1>2. [d EXCEPT !.await = a, !.late = b, !.aux = c, !.auxLate = e, !.status = f] = d3
  BY DEF DspSet
<1> HIDE DEF d1
<1>3. d2 \in DspSet
  BY <1>1 DEF DspSet
<1> HIDE DEF d2
<1>4. d3 \in DspSet
  BY <1>3 DEF DspSet
<1> QED BY <1>2, <1>4

LEMMA ControlTyped ==
    ASSUME NEW m, Typed(m), NEW hold \in BOOLEAN
    PROVE  Typed(Control(m, hold))
<1>1. m \in Machines /\ m.dma \in DmaSet /\ m.dma.now <= m.dma.len
  BY DEF Typed, InBuffer, Machines
<1>2. Control(m, hold) \in Machines /\ Control(m, hold).dma = [m.dma EXCEPT !.dreq = hold]
  BY <1>1, ControlEffect
<1>3. /\ [m.dma EXCEPT !.dreq = hold].now = m.dma.now
      /\ [m.dma EXCEPT !.dreq = hold].len = m.dma.len
  BY <1>1 DEF DmaSet
<1> QED BY <1>1, <1>2, <1>3 DEF Typed, InBuffer

(* the machine with its mask lifted; with a reset card *)
LEMMA UnmaskEffect ==
    ASSUME NEW m \in Machines, InBuffer(m)
    PROVE  LET u == [m EXCEPT !.dma.mask = FALSE]
           IN  /\ u \in Machines /\ InBuffer(u)
               /\ u.dsp = m.dsp /\ u.q = m.q
               /\ u.dma = [m.dma EXCEPT !.mask = FALSE]
<1> DEFINE c == [m.dma EXCEPT !.mask = FALSE]
           u == [m EXCEPT !.dma.mask = FALSE]
<1>1. c \in DmaSet /\ c.now = m.dma.now /\ c.len = m.dma.len
  BY DEF Machines, DmaSet
<1>2. u = [m EXCEPT !.dma = c]
  BY DEF Machines
<1> HIDE DEF c, u
<1>3. u \in Machines /\ u.dsp = m.dsp /\ u.q = m.q /\ u.dma = c
  BY <1>1, <1>2 DEF Machines
<1>4. InBuffer(u)
  BY <1>1, <1>3 DEF InBuffer
<1> QED BY <1>3, <1>4 DEF c, u

Cleared(d) == [d EXCEPT !.await = FALSE, !.status = FALSE, !.aux = FALSE,
                        !.auto = FALSE, !.late = FALSE, !.auxLate = FALSE,
                        !.left = 0, !.size = -1]

LEMMA ResetEffect ==
    ASSUME TypeOK, Reset
    PROVE  /\ TypeOK' /\ q' = q /\ line' = FALSE
           /\ dsp'.size = -1 /\ ~dsp'.await /\ ~dsp'.aux
<1> DEFINE c == Cleared(dsp)
           m == [Now EXCEPT !.dsp = c]
<1>1. Typed(Now) /\ RestTyped
  BY TypesOfAll
<1>2. dsp \in DspSet /\ dma \in DmaSet /\ q \in Index
  BY DEF TypeOK, DspSet, DmaSet
<1>3. c \in DspSet /\ c.size = -1 /\ ~c.await /\ ~c.aux
  <2> DEFINE d1 == [dsp EXCEPT !.await = FALSE, !.status = FALSE, !.aux = FALSE]
             d2 == [d1 EXCEPT !.auto = FALSE, !.late = FALSE, !.auxLate = FALSE]
  <2>1. d1 \in DspSet /\ ~d1.await /\ ~d1.aux
    BY <1>2 DEF DspSet
  <2>2. c = [d2 EXCEPT !.left = 0, !.size = -1]
    BY <1>2 DEF Cleared, DspSet
  <2> HIDE DEF d1
  <2>3. d2 \in DspSet /\ ~d2.await /\ ~d2.aux
    BY <2>1 DEF DspSet
  <2> HIDE DEF d2, c
  <2> DEFINE e == [d2 EXCEPT !.left = 0]
  <2>4. e \in DspSet /\ ~e.await /\ ~e.aux
    BY <2>3 DEF DspSet
  <2>5. c = [e EXCEPT !.size = -1]
    BY <2>2, <2>3 DEF DspSet
  <2>6. -1 \in Sizes \cup {-1, 0}
    OBVIOUS
  <2> HIDE DEF e
  <2> QED BY <2>4, <2>5, <2>6 DEF DspSet
<1>4. m = [Now EXCEPT !.dsp.await = FALSE, !.dsp.status = FALSE,
                      !.dsp.aux = FALSE, !.dsp.auto = FALSE,
                      !.dsp.late = FALSE, !.dsp.auxLate = FALSE,
                      !.dsp.left = 0, !.dsp.size = -1]
  BY DEF Now, Cleared
<1>5. Becomes(Control(m, FALSE)) /\ line' = FALSE
  BY <1>4 DEF Reset
<1> HIDE DEF c
<1>6. m \in Machines /\ m.dsp = c /\ m.dma = dma /\ m.q = q
  BY <1>1, <1>2, <1>3 DEF Now, Machines
<1> HIDE DEF m
<1>7. /\ Control(m, FALSE) \in Machines
      /\ Control(m, FALSE).q = q
      /\ Control(m, FALSE).dsp = [c EXCEPT !.running = FALSE]
      /\ Control(m, FALSE).dma = [dma EXCEPT !.dreq = FALSE]
  BY <1>6, ControlEffect
<1>8. InBuffer(Control(m, FALSE))
  BY <1>1, <1>2, <1>7 DEF Typed, InBuffer, Now, DmaSet
<1>9. RestTyped'
  BY <1>1 DEF Reset, Does, consumer, RestTyped
<1>10. dsp' = [c EXCEPT !.running = FALSE] /\ q' = q
  BY <1>5, <1>7 DEF Becomes
<1>11. dsp'.size = -1 /\ ~dsp'.await /\ ~dsp'.aux
  BY <1>3, <1>10 DEF DspSet
<1> QED BY <1>5, <1>7, <1>8, <1>9, <1>10, <1>11, BecomesTyped DEF Typed

LEMMA TypeInit == Init => TypeOK
<1> SUFFICES ASSUME Init PROVE TypeOK
  OBVIOUS
<1>1. 0 \in Index /\ 0 \in 0 .. PHASES - 1
  BY RingAssumption, RateAssumption DEF Index
<1>2. Typed(Now)
  <2>1. dsp \in DspSet
    BY <1>1 DEF Init, DspSet
  <2>2. dma \in DmaSet /\ dma.now <= dma.len
    BY DEF Init, DmaSet
  <2>3. q \in Index
    BY <1>1 DEF Init
  <2> QED BY <2>1, <2>2, <2>3 DEF Typed, Now, Machines, InBuffer
<1>3. RestTyped
  BY <1>1 DEF Init, RestTyped, Idle
<1> QED BY <1>2, <1>3, TypesOfAll

LEMMA TypeStep == TypeOK /\ [Next]_vars => TypeOK'
<1> SUFFICES ASSUME TypeOK, [Next]_vars PROVE TypeOK'
  OBVIOUS
<1> USE DEF consumer, pin
<1>1. Typed(Now) /\ RestTyped /\ Now \in Machines /\ InBuffer(Now) /\ p \in Index
  BY TypesOfAll DEF Typed, RestTyped
<1>2. dsp \in DspSet /\ dma \in DmaSet /\ q \in Index /\ dma.now <= dma.len
  BY DEF TypeOK, DspSet, DmaSet
<1>z. 0 \in Index
  BY RingAssumption DEF Index
<1>k. \A m : Typed(m) /\ Becomes(m) /\ RestTyped' => TypeOK'
  BY BecomesTyped
<1>d. /\ dsp' \in DspSet /\ UNCHANGED <<dma, q>> /\ RestTyped' => TypeOK'
  BY <1>2 DEF TypeOK, RestTyped, DspSet, DmaSet
<1>c. /\ dma' \in DmaSet /\ dma'.now <= dma'.len /\ UNCHANGED <<dsp, q>> /\ RestTyped' => TypeOK'
  BY <1>2 DEF TypeOK, RestTyped, DspSet, DmaSet
<1>r. RestTyped' /\ UNCHANGED <<dsp, dma, q>> => TypeOK'
  BY <1>2, <1>d
<1>3. CASE RunDevices
  <2>1. Typed(DmaRun(Now))
    BY <1>1, DmaRunEffect DEF Typed
  <2>2. RestTyped'
    BY <1>1, <1>3 DEF RunDevices, RestTyped
  <2> QED BY <1>3, <1>k, <2>1, <2>2 DEF RunDevices
<1>4. CASE Poll
  <2>1. dsp' \in DspSet
    <3>1. PICK block \in BOOLEAN, aux \in BOOLEAN :
            dsp' = [dsp EXCEPT !.await = @ /\ ~block, !.late = @ /\ ~block,
                               !.aux = @ /\ ~aux, !.auxLate = @ /\ ~aux,
                               !.status = @ \/ aux]
      <4> DEFINE block == dsp.await /\ (SignedGap(p, dsp.atq) >= 0 \/ dsp.late)
                 aux   == dsp.aux /\ dsp.auxLate
      <4>1. block \in BOOLEAN /\ aux \in BOOLEAN
        BY Zenon
      <4>2. dsp' = [dsp EXCEPT !.await = @ /\ ~block, !.late = @ /\ ~block,
                               !.aux = @ /\ ~aux, !.auxLate = @ /\ ~aux,
                               !.status = @ \/ aux]
        BY <1>4 DEF Poll
      <4> HIDE DEF block, aux
      <4> QED BY <4>1, <4>2, Zenon
    <3> DEFINE a == dsp.await /\ ~block
               b == dsp.late /\ ~block
               c == dsp.aux /\ ~aux
               e == dsp.auxLate /\ ~aux
               f == dsp.status \/ aux
    <3>2. a \in BOOLEAN /\ b \in BOOLEAN /\ c \in BOOLEAN /\ e \in BOOLEAN /\ f \in BOOLEAN
      BY Zenon
    <3>3. dsp' = [dsp EXCEPT !.await = a, !.late = b, !.aux = c, !.auxLate = e, !.status = f]
      BY <3>1, Zenon
    <3> HIDE DEF a, b, c, e, f
    <3> QED BY <1>2, <3>2, <3>3, PollFields
  <2>2. RestTyped'
    BY <1>1, <1>4 DEF Poll, RestTyped, SetLine
  <2> QED BY <1>4, <1>d, <2>1, <2>2 DEF Poll
<1>5. CASE EndSlice
  BY <1>1, <1>5, <1>r DEF EndSlice, RestTyped
<1>6. CASE Clock
  <2>1. dsp' \in DspSet
    BY <1>2, <1>6 DEF Clock, FallbackExpires, SilenceExpires, DspSet
  <2> QED BY <1>1, <1>6, <1>d, <2>1 DEF Clock, FallbackExpires, SilenceExpires, RestTyped
<1>7. CASE Core1
  <2>1. CASE BeginSample
    <3>1. CASE Behind(q, p) > RING
      BY <1>1, <1>2, <1>r, <2>1, <3>1 DEF BeginSample, RestTyped
    <3>2. CASE ~(Behind(q, p) > RING)
      <4> DEFINE a == (phase + STEP) \div PHASES
      <4>1. Behind(q, p) \in Nat
        <5>1. q \in Int /\ p \in Int
          BY <1>1, <1>2, RingAssumption DEF Index
        <5> QED BY <5>1, ForwardType, RingAssumption DEF Index
      <4>2. phase + STEP \in Nat /\ PHASES \in Nat \ {0}
        BY <1>1, RateAssumption DEF RestTyped
      <4>3. a \in Nat
        <5> DEFINE x == phase + STEP
        <5>1. x \in Nat
          BY <4>2
        <5> HIDE DEF x
        <5>2. x \div PHASES \in Nat
          BY <4>2, <5>1, SMT
        <5> QED BY <5>2 DEF x
      <4>4. (phase + STEP) % PHASES \in 0 .. PHASES - 1
        BY <4>2, ModRange
      <4> HIDE DEF a
      <4>5. Min({a, Behind(q, p)}) \in Nat
        BY <4>1, <4>3, MinOfTwo
      <4>6. /\ core1' = [core1 EXCEPT !.pc = "play", !.p = p,
                                      !.advance = Min({a, Behind(q, p)})]
            /\ phase' = (phase + STEP) % PHASES
            /\ UNCHANGED <<dsp, dma, q, p, pin, core0, drv>>
        BY <2>1, <3>2 DEF BeginSample, a
      <4>7. core1' \in [pc: {"idle", "play", "check", "load", "store"}, p: Index,
                        advance: Nat, tc: BOOLEAN]
        BY <1>1, <4>5, <4>6 DEF RestTyped
      <4> QED BY <1>1, <1>r, <4>4, <4>6, <4>7 DEF RestTyped
    <3> QED BY <3>1, <3>2
  <2>2. CASE AdvancePlay
    <3>1. PICK from \in {core1.p, p} : p' = Forward(from, core1.advance)
      BY <2>2 DEF AdvancePlay
    <3>2. from \in Index /\ core1.advance \in Nat
      BY <1>1, <3>1 DEF RestTyped
    <3>3. p' \in Index
      <4>1. from \in Int /\ core1.advance \in Int
        BY <3>2, RingAssumption DEF Index
      <4> QED BY <3>1, <4>1, ForwardType
    <3>4. core1' \in [pc: {"idle", "play", "check", "load", "store"}, p: Index,
                      advance: Nat, tc: BOOLEAN]
      BY <1>z, <2>2 DEF AdvancePlay, Idle
    <3> QED BY <1>1, <1>r, <2>2, <3>3, <3>4 DEF AdvancePlay, RestTyped
  <2>3. CASE CheckRunning \/ LoadStatus
    <3>1. core1' \in [pc: {"idle", "play", "check", "load", "store"}, p: Index,
                      advance: Nat, tc: BOOLEAN]
      <4>1. CASE CheckRunning
        BY <1>z, <4>1 DEF CheckRunning, Idle
      <4>2. CASE LoadStatus
        <5>1. dma.tc \in BOOLEAN
          BY <1>2 DEF DmaSet
        <5> QED BY <1>1, <4>2, <5>1 DEF LoadStatus, RestTyped
      <4> QED BY <2>3, <4>1, <4>2
    <3> QED BY <1>1, <1>r, <2>3, <3>1 DEF CheckRunning, LoadStatus, RestTyped
  <2>4. CASE StoreStatus
    <3>1. dma' \in DmaSet /\ dma'.now <= dma'.len
      BY <1>1, <1>2, <2>4 DEF StoreStatus, RestTyped, DmaSet
    <3>2. core1' \in [pc: {"idle", "play", "check", "load", "store"}, p: Index,
                      advance: Nat, tc: BOOLEAN]
      BY <1>z, <2>4 DEF StoreStatus, Idle
    <3> QED BY <1>1, <1>c, <2>4, <3>1, <3>2 DEF StoreStatus, RestTyped
  <2> QED BY <1>7, <2>1, <2>2, <2>3, <2>4 DEF Core1
<1>8. CASE Transfer
  <2>1. ASSUME NEW len \in Lengths, NEW reload \in BOOLEAN, ProgramDma(len, reload)
        PROVE  TypeOK'
    <3>1. len \in Nat \ {0}
      BY GuestAssumption
    <3>2. dma' \in DmaSet /\ dma'.now <= dma'.len
      <4>1. len \in Lengths \cup {1} /\ 0 \in Nat
        BY Zenon, SMT
      <4>2. dma' = [dma EXCEPT !.mask = TRUE, !.now = 0, !.len = len, !.reload = reload]
        BY <2>1 DEF ProgramDma
      <4>3. dma' \in DmaSet
        BY <1>2, <4>1, <4>2 DEF DmaSet
      <4>4. dma'.now = 0 /\ dma'.len = len
        BY <1>2, <4>2 DEF DmaSet
      <4> QED BY <3>1, <4>3, <4>4
    <3> QED BY <1>1, <1>c, <2>1, <3>2 DEF ProgramDma, RestTyped
  <2>2. CASE UnmaskDma
    <3> DEFINE u == [Now EXCEPT !.dma.mask = FALSE]
    <3>1. u \in Machines /\ InBuffer(u)
      BY <1>1, UnmaskEffect
    <3> HIDE DEF u
    <3>2. Typed(DmaRun(u))
      BY <1>1, <3>1, DmaRunEffect DEF Typed
    <3>3. Becomes(DmaRun(u))
      BY <2>2 DEF UnmaskDma, u
    <3> QED BY <1>1, <1>k, <2>2, <3>2, <3>3 DEF UnmaskDma, RestTyped
  <2>3. ASSUME NEW n \in Sizes, StartSingle(n) PROVE TypeOK'
    <3> DEFINE d == [dsp EXCEPT !.size = n, !.left = n, !.auto = FALSE]
               m == [Now EXCEPT !.dsp = d]
    <3>0. n \in Int
      BY GuestAssumption
    <3>1. d \in DspSet
      BY <1>2, <3>0 DEF DspSet
    <3>2. Becomes(Control(m, TRUE))
      BY <2>3 DEF StartSingle, Now
    <3> HIDE DEF d
    <3>3. m \in Machines /\ m.dma = dma
      BY <1>1, <3>1 DEF Now, Machines
    <3> HIDE DEF m
    <3>4. Typed(Control(m, TRUE))
      BY <1>2, <3>3, ControlTyped DEF Typed, InBuffer
    <3>5. p' \in Index
      <4>1. q \in Int /\ LeadSingle \in Int
        BY <1>2, RingAssumption, LeadAssumption DEF Index
      <4>2. Behind(q, LeadSingle) \in Index
        BY <4>1, ForwardType
      <4> QED BY <1>1, <2>3, <4>2 DEF StartSingle
    <3>6. RestTyped'
      BY <1>1, <2>3, <3>5 DEF StartSingle, Does, RestTyped
    <3> QED BY <1>k, <3>2, <3>4, <3>6
  <2>4. ASSUME NEW n \in Sizes, SetBlockSize(n) PROVE TypeOK'
    <3>1. dsp' \in DspSet
      BY <1>2, <2>4 DEF SetBlockSize, DspSet
    <3> QED BY <1>1, <1>d, <2>4, <3>1 DEF SetBlockSize, Does, RestTyped
  <2>5. CASE StartAuto
    <3> DEFINE d == [dsp EXCEPT !.left = dsp.size, !.auto = TRUE]
               m == [Now EXCEPT !.dsp = d]
    <3>0. dsp.size \in Int
      BY <1>1, Positive DEF Now
    <3>1. d \in DspSet
      BY <1>2, <3>0 DEF DspSet
    <3>2. Becomes(Control(m, TRUE))
      BY <2>5 DEF StartAuto, Now
    <3> HIDE DEF d
    <3>3. m \in Machines /\ m.dma = dma
      BY <1>1, <3>1 DEF Now, Machines
    <3> HIDE DEF m
    <3>4. Typed(Control(m, TRUE))
      BY <1>2, <3>3, ControlTyped DEF Typed, InBuffer
    <3>6. RestTyped'
      BY <1>1, <2>5 DEF StartAuto, Does, RestTyped
    <3> QED BY <1>k, <3>2, <3>4, <3>6
  <2>6. CASE ExitAuto
    <3>1. dsp' \in DspSet
      BY <1>2, <2>6 DEF ExitAuto, DspSet
    <3> QED BY <1>1, <1>d, <2>6, <3>1 DEF ExitAuto, Does, RestTyped
  <2>7. CASE Halt \/ Continue
    <3>1. Typed(Control(Now, FALSE)) /\ Typed(Control(Now, TRUE))
      BY <1>1, ControlTyped
    <3>2. RestTyped'
      BY <1>1, <2>7 DEF Halt, Continue, Does, RestTyped
    <3> QED BY <1>k, <2>7, <3>1, <3>2 DEF Halt, Continue
  <2>8. CASE Reset
    BY <2>8, ResetEffect
  <2> QED BY <1>8, <2>1, <2>2, <2>3, <2>4, <2>5, <2>6, <2>7, <2>8 DEF Transfer
<1>9. CASE Interrupt
  <2>1. ASSUME NEW long \in BOOLEAN, Silence(long) PROVE TypeOK'
    <3>1. dsp' \in DspSet
      BY <1>2, <2>1 DEF Silence, DspSet
    <3> QED BY <1>1, <1>d, <2>1, <3>1 DEF Silence, Does, RestTyped, SetLine
  <2>2. CASE TestIrq
    <3>1. dsp' \in DspSet
      BY <1>2, <2>2 DEF TestIrq, DspSet
    <3> QED BY <1>1, <1>d, <2>2, <3>1 DEF TestIrq, Does, RestTyped, SetLine
  <2>3. CASE PollStatus \/ HandlerAcks
    <3>1. dsp' \in DspSet
      BY <1>2, <2>3 DEF PollStatus, HandlerAcks, Acknowledge, DspSet
    <3> QED BY <1>1, <1>d, <2>3, <3>1
            DEF PollStatus, HandlerAcks, Acknowledge, Does, RestTyped, SetLine
  <2>4. CASE ReadTerminalCount
    <3>1. dma' \in DmaSet /\ dma'.now <= dma'.len
      BY <1>2, <2>4 DEF ReadTerminalCount, DmaSet
    <3> QED BY <1>1, <1>c, <2>4, <3>1 DEF ReadTerminalCount, Does, RestTyped
  <2>5. CASE TakeInterrupt \/ HandlerReturns
    BY <1>1, <1>r, <2>5 DEF TakeInterrupt, HandlerReturns, RestTyped
  <2> QED BY <1>9, <2>1, <2>2, <2>3, <2>4, <2>5 DEF Interrupt
<1>10. CASE UNCHANGED vars
  BY <1>10 DEF TypeOK, vars
<1> QED BY <1>3, <1>4, <1>5, <1>6, <1>7, <1>8, <1>9, <1>10 DEF Next

(* The transfer stays within the buffer, and every field within its type.     *)
THEOREM CardTypes == Spec => []TypeOK
<1> QED BY TypeInit, TypeStep, PTL DEF Spec
-----------------------------------------------------------------------------
(* Reset. *)

\* A card that was reset and given no command since has no block size, owes
\* no interrupt and runs to no deadline.
Silent == ~drv.armed => dsp.size <= 0 /\ ~dsp.await /\ ~dsp.aux

LEMMA SilentStep ==
    ASSUME TypeOK, Silent, [Next]_vars
    PROVE  /\ Silent'
           /\ ~drv.armed /\ ~drv'.armed => q' = q /\ (line' => line)
<1> DEFINE Goal == Silent' /\ (~drv.armed /\ ~drv'.armed => q' = q /\ (line' => line))
<1> SUFFICES Goal
  OBVIOUS
<1> USE DEF consumer, pin
<1>1. Typed(Now) /\ RestTyped /\ Now \in Machines /\ InBuffer(Now) /\ p \in Index
  BY TypesOfAll DEF Typed, RestTyped
<1>2. dsp \in DspSet /\ dma \in DmaSet /\ dsp.size \in Int
  BY <1>1, Positive DEF TypeOK, DspSet, DmaSet, Now
<1>3. drv.armed \in BOOLEAN
  BY <1>1 DEF RestTyped
<1>u. UNCHANGED <<dsp, q, drv>> /\ (line' => line) => Goal
  BY DEF Silent
<1>a. drv'.armed => Goal
  BY DEF Silent
<1>d. /\ UNCHANGED q /\ (line' => line) /\ (~drv'.armed => ~drv.armed)
      /\ dsp'.size = dsp.size /\ (dsp'.await => dsp.await) /\ (dsp'.aux => dsp.aux)
      => Goal
  BY DEF Silent
<1>4. CASE RunDevices
  <2>1. dsp.size <= 0 => dsp' = dsp /\ q' = q
    BY <1>1, <1>4, DmaRunEffect DEF RunDevices, Becomes, Now
  <2>2. UNCHANGED <<line, drv>>
    BY <1>4 DEF RunDevices
  <2> QED BY <2>1, <2>2 DEF Silent
<1>5. CASE Poll
  <2>1. dsp'.size = dsp.size /\ (dsp'.await => dsp.await) /\ (dsp'.aux => dsp.aux)
    BY <1>2, <1>5 DEF Poll, DspSet
  <2>2. UNCHANGED <<q, drv>> /\ (~drv.armed => (line' = line))
    BY <1>5 DEF Poll, Silent
  <2> QED BY <2>1, <2>2 DEF Silent
<1>6. CASE EndSlice
  BY <1>6, <1>u DEF EndSlice
<1>7. CASE Clock
  <2>1. dsp'.size = dsp.size /\ dsp'.await = dsp.await /\ dsp'.aux = dsp.aux
    BY <1>2, <1>7 DEF Clock, FallbackExpires, SilenceExpires, DspSet
  <2> QED BY <1>7, <1>d, <2>1 DEF Clock, FallbackExpires, SilenceExpires
<1>8. CASE Core1
  BY <1>8, <1>u DEF Core1, BeginSample, AdvancePlay, CheckRunning, LoadStatus, StoreStatus
<1>9. CASE Transfer
  <2>1. ASSUME NEW len \in Lengths, NEW reload \in BOOLEAN, ProgramDma(len, reload)
        PROVE  Goal
    BY <1>u, <2>1 DEF ProgramDma
  <2>2. CASE UnmaskDma
    <3> DEFINE u == [Now EXCEPT !.dma.mask = FALSE]
    <3>1. u \in Machines /\ InBuffer(u) /\ u.dsp = dsp /\ u.q = q
      BY <1>1, UnmaskEffect DEF Now
    <3>2. Becomes(DmaRun(u)) /\ UNCHANGED <<line, drv>>
      BY <2>2 DEF UnmaskDma
    <3> HIDE DEF u
    <3>3. dsp.size <= 0 => dsp' = dsp /\ q' = q
      BY <1>1, <3>1, <3>2, DmaRunEffect DEF Becomes
    <3> QED BY <3>2, <3>3 DEF Silent
  <2>3. ASSUME NEW n \in Sizes, StartSingle(n) \/ SetBlockSize(n) PROVE Goal
    <3>1. drv'.armed
      BY <1>1, <2>3 DEF StartSingle, SetBlockSize, RestTyped
    <3> QED BY <1>a, <3>1
  <2>4. CASE StartAuto \/ Continue
    <3>1. drv'.armed
      BY <1>1, <2>4 DEF StartAuto, Continue, RestTyped
    <3> QED BY <1>a, <3>1
  <2>5. CASE ExitAuto
    <3>1. dsp'.size = dsp.size /\ dsp'.await = dsp.await /\ dsp'.aux = dsp.aux
      BY <1>2, <2>5 DEF ExitAuto, DspSet
    <3> QED BY <1>d, <2>5, <3>1 DEF ExitAuto
  <2>6. CASE Halt
    <3>1. dsp' = [dsp EXCEPT !.running = FALSE] /\ q' = q
      BY <1>1, <2>6, ControlEffect DEF Halt, Becomes, Now
    <3>2. dsp'.size = dsp.size /\ dsp'.await = dsp.await /\ dsp'.aux = dsp.aux
      BY <1>2, <3>1 DEF DspSet
    <3> QED BY <1>d, <2>6, <3>1, <3>2 DEF Halt
  <2>7. CASE Reset
    <3>1. q' = q /\ line' = FALSE /\ dsp'.size = -1 /\ ~dsp'.await /\ ~dsp'.aux
      BY <2>7, ResetEffect
    <3> QED BY <3>1 DEF Silent
  <2> QED BY <1>9, <2>1, <2>2, <2>3, <2>4, <2>5, <2>6, <2>7 DEF Transfer
<1>10. CASE Interrupt
  <2>1. ASSUME NEW long \in BOOLEAN, Silence(long) PROVE Goal
    <3>1. drv'.armed
      BY <1>1, <2>1 DEF Silence, RestTyped
    <3> QED BY <1>a, <3>1
  <2>2. CASE TestIrq
    <3>1. drv'.armed
      BY <1>1, <2>2 DEF TestIrq, RestTyped
    <3> QED BY <1>a, <3>1
  <2>3. CASE PollStatus \/ HandlerAcks
    <3>1. dsp'.size = dsp.size /\ dsp'.await = dsp.await /\ dsp'.aux = dsp.aux
      BY <1>2, <2>3 DEF PollStatus, HandlerAcks, Acknowledge, DspSet
    <3>2. drv'.armed = drv.armed /\ UNCHANGED q /\ (line' => line)
      BY <1>1, <2>3 DEF PollStatus, HandlerAcks, Acknowledge, SetLine, RestTyped
    <3> QED BY <1>d, <3>1, <3>2
  <2>4. CASE ReadTerminalCount
    BY <1>u, <2>4 DEF ReadTerminalCount
  <2>5. CASE TakeInterrupt \/ HandlerReturns
    <3>1. drv'.armed = drv.armed
      BY <1>1, <2>5 DEF TakeInterrupt, HandlerReturns, RestTyped
    <3> QED BY <1>d, <2>5, <3>1 DEF TakeInterrupt, HandlerReturns
  <2> QED BY <1>10, <2>1, <2>2, <2>3, <2>4, <2>5 DEF Interrupt
<1>11. CASE UNCHANGED vars
  BY <1>11, <1>u DEF vars
<1> QED BY <1>4, <1>5, <1>6, <1>7, <1>8, <1>9, <1>10, <1>11 DEF Next

(* A reset card moves no byte and raises no line until it is given a command,  *)
(* whatever the guest's driver does otherwise and wherever core 1 was in its   *)
(* sample (sb16.c:1389-1397).                                                  *)
THEOREM ResetIsSilent == Spec => ResetSilences
<1>1. Init => TypeOK /\ Silent
  BY TypeInit DEF Init, Silent
<1>2. TypeOK /\ Silent /\ [Next]_vars => (TypeOK /\ Silent)'
  BY TypeStep, SilentStep
<1>3. /\ TypeOK /\ Silent /\ [Next]_vars
      => [~drv.armed /\ ~drv'.armed => q' = q /\ (line' => line)]_vars
  BY SilentStep
<1> QED BY <1>1, <1>2, <1>3, PTL DEF Spec, ResetSilences

-----------------------------------------------------------------------------
(* The count. *)

\* A driver that plays one auto-init buffer for as long as it runs: it never
\* halts, resets or leaves the transfer.
Player == {"auto", "status", "poll", "silence", "test"}

\* before the transfer is started nothing has moved, and core 1 asks for nothing
Untouched == dma.now = 0 /\ ~dma.dreq /\ core1.pc \notin {"load", "store"}

InStep == IF dsp.running THEN dsp.auto /\ Agrees(Now) ELSE Untouched

LEMMA InStepStep ==
    ASSUME Commands \subseteq Player, TypeOK, InStep, [Next]_vars
    PROVE  InStep'
<1> USE DEF consumer, pin
<1>1. Typed(Now) /\ RestTyped /\ Now \in Machines /\ InBuffer(Now) /\ p \in Index
  BY TypesOfAll DEF Typed, RestTyped
<1>2. dsp \in DspSet /\ dma \in DmaSet /\ dsp.size \in Int
  BY <1>1, Positive DEF TypeOK, DspSet, DmaSet, Now
<1>3. dsp.running \in BOOLEAN
  BY <1>2 DEF DspSet
<1>d. /\ dsp'.running = dsp.running /\ dsp'.auto = dsp.auto
      /\ dsp'.size = dsp.size /\ dsp'.left = dsp.left
      /\ dma'.now = dma.now /\ dma'.len = dma.len
      /\ dsp.running \/ dma'.dreq = dma.dreq
      /\ dsp.running \/ core1'.pc \notin {"load", "store"}
      => InStep'
  BY <1>3 DEF InStep, Untouched, Agrees, Now
<1>c. ~dsp.running => core1.pc \notin {"load", "store"}
  BY DEF InStep, Untouched
<1>4. CASE RunDevices
  <2>1. CASE dsp.running
    <3>1. SameSetup(Now, DmaRun(Now)) /\ Agrees(DmaRun(Now))
      BY <1>1, <2>1, DmaRunEffect DEF InStep
    <3>2. Becomes(DmaRun(Now))
      BY <1>4 DEF RunDevices
    <3>3. dsp'.running /\ dsp'.auto
      BY <2>1, <3>1, <3>2 DEF InStep, SameSetup, Now, Becomes
    <3>4. Agrees(Now)'
      BY <3>1, <3>2 DEF Agrees, Now, Becomes
    <3> QED BY <3>3, <3>4 DEF InStep
  <2>2. CASE ~dsp.running
    <3>1. DmaRun(Now) = Now
      BY <1>1, <2>2, DmaRunEffect DEF InStep, Untouched, Now
    <3>2. UNCHANGED <<dsp, dma, core1>>
      BY <1>4, <3>1 DEF RunDevices, Becomes, Now
    <3> QED BY <1>c, <1>d, <3>2
  <2> QED BY <2>1, <2>2
<1>5. CASE Poll
  <2>1. /\ dsp'.running = dsp.running /\ dsp'.auto = dsp.auto
        /\ dsp'.size = dsp.size /\ dsp'.left = dsp.left
    BY <1>2, <1>5 DEF Poll, DspSet
  <2> QED BY <1>5, <1>c, <1>d, <2>1 DEF Poll
<1>6. CASE EndSlice
  BY <1>6, <1>c, <1>d DEF EndSlice
<1>7. CASE Clock
  <2>1. /\ dsp'.running = dsp.running /\ dsp'.auto = dsp.auto
        /\ dsp'.size = dsp.size /\ dsp'.left = dsp.left
    BY <1>2, <1>7 DEF Clock, FallbackExpires, SilenceExpires, DspSet
  <2> QED BY <1>7, <1>c, <1>d, <2>1 DEF Clock, FallbackExpires, SilenceExpires
<1>8. CASE Core1
  <2>1. CASE BeginSample
    <3>1. UNCHANGED core1 \/ core1'.pc = "play"
      BY <1>1, <2>1 DEF BeginSample, RestTyped
    <3> QED BY <1>c, <1>d, <2>1, <3>1 DEF BeginSample
  <2>2. CASE AdvancePlay
    <3>1. core1'.pc = "check"
      BY <2>2 DEF AdvancePlay, Idle
    <3> QED BY <1>d, <2>2, <3>1 DEF AdvancePlay
  <2>3. CASE CheckRunning
    <3>1. dsp.running \/ core1'.pc = "idle"
      BY <2>3 DEF CheckRunning, Idle
    <3> QED BY <1>d, <2>3, <3>1 DEF CheckRunning
  <2>4. CASE LoadStatus
    BY <1>c, <1>d, <2>4 DEF LoadStatus
  <2>5. CASE StoreStatus
    <3>1. dsp.running
      BY <1>c, <1>3, <2>5 DEF StoreStatus
    <3>2. dma'.now = dma.now /\ dma'.len = dma.len
      BY <1>2, <2>5 DEF StoreStatus, DmaSet
    <3> QED BY <1>d, <2>5, <3>1, <3>2 DEF StoreStatus
  <2> QED BY <1>8, <2>1, <2>2, <2>3, <2>4, <2>5 DEF Core1
<1>9. CASE Transfer
  <2>0. \A name \in {"single", "exit", "halt", "continue", "reset"} : ~Does(name)
    BY DEF Does, Player
  <2>1. ASSUME NEW len \in Lengths, NEW reload \in BOOLEAN, ProgramDma(len, reload)
        PROVE  InStep'
    <3>1. ~dsp.running /\ UNCHANGED <<dsp, core1>>
      BY <2>1 DEF ProgramDma, CanStart
    <3>2. dma'.now = 0 /\ dma'.dreq = dma.dreq
      BY <1>2, <2>1 DEF ProgramDma, DmaSet
    <3> QED BY <3>1, <3>2 DEF InStep, Untouched
  <2>2. CASE UnmaskDma
    <3> DEFINE u == [Now EXCEPT !.dma.mask = FALSE]
    <3>1. /\ u \in Machines /\ InBuffer(u) /\ u.dsp = dsp /\ u.q = q
          /\ u.dma = [dma EXCEPT !.mask = FALSE]
      BY <1>1, UnmaskEffect DEF Now
    <3>2. Becomes(DmaRun(u)) /\ UNCHANGED core1
      BY <2>2 DEF UnmaskDma
    <3> HIDE DEF u
    <3>3. u.dma.now = dma.now /\ u.dma.len = dma.len /\ u.dma.dreq = dma.dreq
      BY <1>2, <3>1 DEF DmaSet
    <3>4. CASE dsp.running
      <4>1. SameSetup(u, DmaRun(u)) /\ Agrees(DmaRun(u))
        <5>1. Agrees(u)
          BY <3>1, <3>3, <3>4 DEF InStep, Agrees, Now
        <5> QED BY <1>1, <3>1, <5>1, DmaRunEffect
      <4>2. dsp'.running /\ dsp'.auto
        BY <3>1, <3>2, <3>4, <4>1 DEF InStep, SameSetup, Becomes
      <4>3. Agrees(Now)'
        BY <3>2, <4>1 DEF Agrees, Now, Becomes
      <4> QED BY <4>2, <4>3 DEF InStep
    <3>5. CASE ~dsp.running
      <4>1. DmaRun(u) = u
        BY <1>1, <3>1, <3>3, <3>5, DmaRunEffect DEF InStep, Untouched
      <4>2. dsp' = dsp /\ dma' = u.dma
        BY <3>1, <3>2, <4>1 DEF Becomes
      <4> QED BY <1>c, <1>d, <3>2, <3>3, <4>2
    <3> QED BY <3>4, <3>5
  <2>3. ASSUME NEW n \in Sizes, SetBlockSize(n) PROVE InStep'
    <3>1. ~dsp.running /\ UNCHANGED <<dma, core1>> /\ dsp' = [dsp EXCEPT !.size = n]
      BY <2>3 DEF SetBlockSize, CanStart, Does
    <3>2. dsp'.running = dsp.running
      BY <1>2, <3>1 DEF DspSet
    <3> QED BY <3>1, <3>2 DEF InStep, Untouched
  <2>4. CASE StartAuto
    <3> DEFINE d == [dsp EXCEPT !.left = dsp.size, !.auto = TRUE]
               m == [Now EXCEPT !.dsp = d]
    <3>1. d \in DspSet /\ d.auto /\ d.left = dsp.size /\ d.size = dsp.size
      BY <1>2 DEF DspSet
    <3>2. Becomes(Control(m, TRUE)) /\ ~dsp.running
      BY <2>4 DEF StartAuto, CanStart, Now
    <3> HIDE DEF d
    <3>3. m \in Machines /\ m.dma = dma /\ m.dsp = d
      BY <1>1, <3>1 DEF Now, Machines
    <3> HIDE DEF m
    <3>4. dsp' = [d EXCEPT !.running = TRUE] /\ dma' = [dma EXCEPT !.dreq = TRUE]
      BY <3>2, <3>3, ControlEffect DEF Becomes
    <3>5. /\ dsp'.running /\ dsp'.auto /\ dsp'.left = dsp.size /\ dsp'.size = dsp.size
          /\ dma'.now = dma.now /\ dma'.len = dma.len
      BY <1>2, <3>1, <3>4 DEF DspSet, DmaSet
    <3>6. dma.now = 0 /\ dma.len \in Nat
      BY <1>1, <3>2, Positive DEF InStep, Untouched, Now
    <3>7. Agrees(Now)'
      BY <1>2, <3>5, <3>6 DEF Agrees, Now
    <3> QED BY <3>5, <3>7 DEF InStep
  <2>5. ~ExitAuto /\ ~Halt /\ ~Continue /\ ~Reset /\ \A n \in Sizes : ~StartSingle(n)
    BY <2>0 DEF ExitAuto, Halt, Continue, Reset, StartSingle
  <2> QED BY <1>9, <2>1, <2>2, <2>3, <2>4, <2>5 DEF Transfer
<1>10. CASE Interrupt
  <2>1. ASSUME NEW long \in BOOLEAN, Silence(long) PROVE InStep'
    <3>1. /\ dsp'.running = dsp.running /\ dsp'.auto = dsp.auto
          /\ dsp'.size = dsp.size /\ dsp'.left = dsp.left
      BY <1>2, <2>1 DEF Silence, DspSet
    <3> QED BY <1>c, <1>d, <2>1, <3>1 DEF Silence, Does
  <2>2. CASE TestIrq
    <3>1. /\ dsp'.running = dsp.running /\ dsp'.auto = dsp.auto
          /\ dsp'.size = dsp.size /\ dsp'.left = dsp.left
      BY <1>2, <2>2 DEF TestIrq, DspSet
    <3> QED BY <1>c, <1>d, <2>2, <3>1 DEF TestIrq, Does
  <2>3. CASE PollStatus \/ HandlerAcks
    <3>1. /\ dsp'.running = dsp.running /\ dsp'.auto = dsp.auto
          /\ dsp'.size = dsp.size /\ dsp'.left = dsp.left
      BY <1>2, <2>3 DEF PollStatus, HandlerAcks, Acknowledge, DspSet
    <3> QED BY <1>c, <1>d, <2>3, <3>1 DEF PollStatus, HandlerAcks, Acknowledge, Does
  <2>4. CASE ReadTerminalCount
    <3>1. dma'.now = dma.now /\ dma'.len = dma.len /\ dma'.dreq = dma.dreq
      BY <1>2, <2>4 DEF ReadTerminalCount, DmaSet
    <3> QED BY <1>c, <1>d, <2>4, <3>1 DEF ReadTerminalCount, Does
  <2>5. CASE TakeInterrupt \/ HandlerReturns
    BY <1>c, <1>d, <2>5 DEF TakeInterrupt, HandlerReturns
  <2> QED BY <1>10, <2>1, <2>2, <2>3, <2>4, <2>5 DEF Interrupt
<1>11. CASE UNCHANGED vars
  BY <1>11, <1>c, <1>d DEF vars
<1> QED BY <1>4, <1>5, <1>6, <1>7, <1>8, <1>9, <1>10, <1>11 DEF Next

(* While one auto-init buffer plays, the current-count register the guest      *)
(* reads and the countdown of the block agree, for a buffer of any length and  *)
(* any look-ahead, wherever core 1 is.                                         *)
THEOREM CountsAgree == Commands \subseteq Player /\ Spec => []CountAgrees
<1> SUFFICES ASSUME Commands \subseteq Player PROVE Spec => []CountAgrees
  OBVIOUS
<1>1. Init => TypeOK /\ InStep
  BY TypeInit DEF Init, InStep, Untouched, Idle
<1>2. TypeOK /\ InStep /\ [Next]_vars => (TypeOK /\ InStep)'
  BY TypeStep, InStepStep
<1>3. TypeOK /\ InStep => CountAgrees
  <2> SUFFICES ASSUME TypeOK, InStep, dsp.running, dsp.size = dma.len
               PROVE  (dma.now + dsp.left) % dma.len = 0
    BY DEF CountAgrees
  <2>1. dma.len \in Nat \ {0}
    BY TypesOfAll, Positive DEF Typed, Now
  <2>2. dma.now + dsp.left \in {0, dma.len, 2 * dma.len}
    BY DEF InStep, Agrees, Now
  <2> QED BY <2>1, <2>2, ModWhole
<1> QED BY <1>1, <1>2, <1>3, PTL DEF Spec
-----------------------------------------------------------------------------
(* Pacing. *)

LEMMA ModOnce ==
    ASSUME NEW n \in Nat \ {0}, NEW x \in -n .. 2 * n - 1
    PROVE  x % n = IF x < 0 THEN x + n ELSE IF x < n THEN x ELSE x - n
<1>1. CASE x < 0
  BY <1>1, SMT
<1>2. CASE x >= 0 /\ x < n
  BY <1>2, SMT
<1>3. CASE x >= n
  BY <1>3, SMT
<1> QED BY <1>1, <1>2, <1>3

LEMMA Apart ==
    ASSUME NEW a \in Index, NEW b \in Index
    PROVE  Behind(a, b) = IF a < b THEN a - b + W ELSE a - b
<1> DEFINE x == a - b
<1>1. W \in Nat \ {0} /\ a \in 0 .. W - 1 /\ b \in 0 .. W - 1
  BY RingAssumption DEF Index
<1>2. x \in -W .. 2 * W - 1 /\ x < W /\ (x < 0 <=> a < b)
  BY <1>1
<1>3. Behind(a, b) = x % W
  BY DEF Behind
<1> HIDE DEF x
<1>4. x % W = IF x < 0 THEN x + W ELSE x
  BY <1>1, <1>2, ModOnce
<1>5. Behind(a, b) = IF a < b THEN x + W ELSE x
  BY <1>2, <1>3, <1>4
<1> QED BY <1>5 DEF x

LEMMA Ahead ==
    ASSUME NEW a \in Index, NEW n \in Index
    PROVE  Forward(a, n) = IF a + n < W THEN a + n ELSE a + n - W
<1> DEFINE x == a + n
<1>1. W \in Nat \ {0} /\ a \in 0 .. W - 1 /\ n \in 0 .. W - 1
  BY RingAssumption DEF Index
<1>2. x \in -W .. 2 * W - 1 /\ ~(x < 0)
  BY <1>1
<1>3. Forward(a, n) = x % W
  BY DEF Forward
<1> HIDE DEF x
<1>4. x % W = IF x < W THEN x ELSE x - W
  BY <1>1, <1>2, ModOnce
<1>5. Forward(a, n) = IF x < W THEN x ELSE x - W
  BY <1>3, <1>4
<1> QED BY <1>1, <1>5 DEF x

\* the copy moves on; playback moves on; the start drops what is queued
LEMMA CopyAhead ==
    ASSUME NEW a \in Index, NEW b \in Index, NEW n \in Nat, Behind(a, b) + n < W
    PROVE  Behind(Forward(a, n), b) = Behind(a, b) + n
<1>1. W \in Nat /\ a \in Int /\ b \in Int
  BY RingAssumption DEF Index
<1>2. n \in Index
  BY <1>1, Apart DEF Index
<1> DEFINE f == Forward(a, n)
<1>3. f \in Index /\ f = IF a + n < W THEN a + n ELSE a + n - W
  <2>1. a \in Int /\ n \in Int
    BY <1>1
  <2> QED BY <1>2, <2>1, ForwardType, Ahead
<1>4. Behind(a, b) = IF a < b THEN a - b + W ELSE a - b
  BY Apart
<1> HIDE DEF f
<1>5. f \in Int /\ a \in 0 .. W - 1 /\ b \in 0 .. W - 1
  BY <1>1, <1>3 DEF Index
<1>6. Behind(f, b) = IF f < b THEN f - b + W ELSE f - b
  BY <1>3, Apart
<1> QED BY <1>1, <1>3, <1>4, <1>5, <1>6 DEF f

LEMMA PlayAhead ==
    ASSUME NEW a \in Index, NEW b \in Index, NEW n \in Nat, n <= Behind(a, b)
    PROVE  Behind(a, Forward(b, n)) = Behind(a, b) - n
<1>1. W \in Nat /\ a \in Int /\ b \in Int
  BY RingAssumption DEF Index
<1>2. n \in Index
  BY <1>1, Apart DEF Index
<1> DEFINE f == Forward(b, n)
<1>3. f \in Index /\ f = IF b + n < W THEN b + n ELSE b + n - W
  <2>1. b \in Int /\ n \in Int
    BY <1>1
  <2> QED BY <1>2, <2>1, ForwardType, Ahead
<1>4. Behind(a, b) = IF a < b THEN a - b + W ELSE a - b
  BY Apart
<1> HIDE DEF f
<1>5. f \in Int /\ a \in 0 .. W - 1 /\ b \in 0 .. W - 1
  BY <1>1, <1>3 DEF Index
<1>6. Behind(a, f) = IF a < f THEN a - f + W ELSE a - f
  BY <1>3, Apart
<1> QED BY <1>1, <1>3, <1>4, <1>5, <1>6 DEF f

LEMMA DropBack ==
    ASSUME NEW a \in Index, NEW n \in Index
    PROVE  Behind(a, Behind(a, n)) = n
<1>1. W \in Nat /\ a \in Int /\ n \in Int
  BY RingAssumption DEF Index
<1>2. Behind(a, n) \in Index
  BY <1>1, ForwardType
<1> QED BY <1>1, <1>2, Apart DEF Index

\* the longest queue: a look-ahead in front of a pointer held up for HOLD
Far == HOLD + LeadAuto

LEMMA LeadRange ==
    /\ LeadAuto \in Nat \ {0} /\ LeadSingle \in Nat \ {0} /\ LeadSingle <= LeadAuto
    /\ W \in Nat /\ HOLD \in Nat /\ LeadAuto <= HOLD /\ Far \in Nat /\ 2 * Far < W
<1>1. RING \in Nat \ {0} /\ W \in Nat
  BY RingAssumption
<1>2. LeadAuto \in 1 .. RING \div 2 /\ LeadSingle \in 1 .. LeadAuto
  BY LeadAssumption
<1>3. RING \div 2 \in Nat
  BY <1>1, SMT
<1>4. HOLD \in Nat /\ HOLD >= LeadAuto /\ W > 2 * (HOLD + LeadAuto)
  BY HoldAssumption
<1> QED BY <1>1, <1>2, <1>3, <1>4 DEF Far

\* a queue that short is what the signed difference says
LEMMA SmallGap ==
    ASSUME NEW a \in Index, NEW b \in Index, Behind(a, b) <= Far
    PROVE  SignedGap(a, b) = Behind(a, b) /\ Behind(a, b) \in 0 .. Far
<1>1. Behind(a, b) \in Nat
  BY LeadRange, ForwardType DEF Index
<1> QED BY <1>1, LeadRange DEF SignedGap

(* What one run of the channel copies: nothing, or no more than the look-ahead *)
(* has room for.                                                              *)
LEMMA CopyEffect ==
    ASSUME NEW m \in Machines, InBuffer(m), p \in Index, Behind(m.q, p) <= Far
    PROVE  \/ DmaRun(m).q = m.q
           \/ \E t \in Nat : /\ DmaRun(m).q = Forward(m.q, t)
                             /\ Behind(m.q, p) + t <= LeadAuto
<1> DEFINE gap   == Behind(m.q, p)
           free  == Lead(m.dsp.auto) - SignedGap(m.q, p)
           start == [m EXCEPT !.dma.now = IF @ >= m.dma.len THEN 0 ELSE @,
                              !.dsp.left = IF @ < 0 THEN m.dsp.size ELSE @]
           copy  == Min({free, start.dsp.left})
           moved == WriteAudio(start, copy)
           home  == [moved EXCEPT !.dma.now = IF @ = 0 THEN 0 ELSE ((@ - 1) % m.dma.len) + 1]
<1>0. /\ m.dsp.left \in Int /\ m.dsp.size \in Int /\ m.q \in Index
      /\ m.dsp \in DspSet /\ m.dma \in DmaSet /\ m.dma.len \in Nat
  BY Positive DEF Machines
<1>1. gap \in 0 .. Far /\ free = Lead(m.dsp.auto) - gap
      /\ Lead(m.dsp.auto) \in 1 .. LeadAuto
  BY <1>0, SmallGap, LeadRange DEF Lead
<1>3. DmaRun(m) = m \/ DmaRun(m).q = ReadDma(m).q
  BY ChannelRunEffect DEF DmaRun
<1>r. ReadDma(m) = IF m.dsp.size <= 0 THEN m
                   ELSE IF free <= 0 THEN start
                   ELSE IF home.dsp.left > 0 THEN home
                   ELSE CompleteBlock(home)
  BY DEF ReadDma
<1>s. /\ start \in Machines /\ start.q = m.q
      /\ start.dsp.left = IF m.dsp.left < 0 THEN m.dsp.size ELSE m.dsp.left
  <2> DEFINE n  == IF m.dma.now >= m.dma.len THEN 0 ELSE m.dma.now
             lf == IF m.dsp.left < 0 THEN m.dsp.size ELSE m.dsp.left
             c1 == [m.dma EXCEPT !.now = n]
             d1 == [m.dsp EXCEPT !.left = lf]
  <2>1. start = [m EXCEPT !.dma = c1, !.dsp = d1]
    BY DEF Machines
  <2>2. n \in Nat /\ lf \in Int
    BY <1>0, Positive
  <2> HIDE DEF n, lf
  <2>3. c1 \in DmaSet
    BY <1>0, <2>2 DEF DmaSet
  <2>4. d1 \in DspSet /\ d1.left = lf
    BY <1>0, <2>2 DEF DspSet
  <2> HIDE DEF c1, d1, start
  <2>5. start \in Machines /\ start.q = m.q /\ start.dsp = d1
    BY <2>1, <2>3, <2>4 DEF Machines
  <2> QED BY <2>4, <2>5 DEF lf
<1> HIDE DEF start
<1>4. CASE m.dsp.size <= 0 \/ free <= 0
  BY <1>3, <1>r, <1>s, <1>4
<1>5. CASE ~(m.dsp.size <= 0 \/ free <= 0)
  <2>0. free \in Nat
    BY <1>1, <1>5, LeadRange
  <2>1. copy \in 0 .. free /\ start.dsp.left \in Nat
    <3>1. start.dsp.left \in Nat /\ free \in Int
      BY <1>0, <1>1, <1>s, <1>5, LeadRange
    <3> HIDE DEF free
    <3> QED BY <2>0, <3>1, MinOfTwo
  <2>2. PICK t \in 0 .. copy : moved.q = Forward(m.q, t)
    <3> DEFINE t == Min({copy, Room(start)})
    <3>1. Room(start) \in Nat
      <4>1. Behind(start.q, p) \in Int /\ RING \in Int
        BY <1>0, <1>1, <1>s, LeadRange, RingAssumption
      <4> QED BY <4>1 DEF Room
    <3>2. t \in 0 .. copy
      <4>1. copy \in Int /\ copy \in Nat
        BY <1>1, <2>0, <2>1
      <4> HIDE DEF copy
      <4> QED BY <3>1, <4>1, MinOfTwo
    <3>3. moved.q = Forward(start.q, t)
      BY <1>s DEF WriteAudio, Machines
    <3> QED BY <1>s, <3>2, <3>3
  <2> HIDE DEF copy
  <2>3. moved \in Machines
    BY <1>s, <2>1, WriteAudioEffect
  <2>4. home.q = moved.q /\ CompleteBlock(home).q = moved.q
    <3> HIDE DEF moved
    <3>1. home.q = moved.q
      BY <2>3 DEF Machines
    <3>3. DOMAIN home = {"dsp", "dma", "q"}
      BY <2>3 DEF Machines
    <3> HIDE DEF home
    <3>4. CompleteBlock(home).q = home.q
      BY <3>3 DEF CompleteBlock, Control
    <3> QED BY <3>1, <3>4
  <2>5. ReadDma(m).q = Forward(m.q, t)
    BY <1>r, <1>5, <2>2, <2>4
  <2>6. t \in Nat /\ gap + t <= LeadAuto
    BY <1>1, <2>0, <2>1, <2>2, LeadRange
  <2> QED BY <1>3, <2>5, <2>6
<1> QED BY <1>4, <1>5

\* one sample never plays more than the shortest look-ahead
LEMMA PlaysLittle ==
    ASSUME phase \in 0 .. PHASES - 1
    PROVE  (phase + STEP) \div PHASES \in 0 .. LeadSingle
<1> DEFINE x == phase + STEP
           d == x \div PHASES
<1>1. PHASES \in Nat \ {0} /\ STEP \in Nat /\ LeadSingle \in Nat
      /\ STEP <= PHASES * LeadSingle
  BY RateAssumption, LeadRange
<1>2. x \in Nat /\ x < PHASES * LeadSingle + PHASES
  <2>1. PHASES * LeadSingle \in Nat
    BY <1>1
  <2> QED BY <1>1, <2>1
<1> HIDE DEF x
<1>3. d \in Nat /\ PHASES * d <= x
  BY <1>1, <1>2, SMT
<1>4. PHASES * (LeadSingle + 1) = PHASES * LeadSingle + PHASES
  BY <1>1, SMT
<1> HIDE DEF d
<1>5. ASSUME d >= LeadSingle + 1 PROVE FALSE
  <2>1. PHASES * (LeadSingle + 1) <= PHASES * d
    BY <1>1, <1>3, <1>5, SMT
  <2>2. PHASES * d \in Int /\ PHASES * LeadSingle \in Int
    BY <1>1, <1>3
  <2> QED BY <1>1, <1>2, <1>3, <1>4, <2>1, <2>2
<1>6. d \in 0 .. LeadSingle
  BY <1>1, <1>3, <1>5
<1> QED BY <1>6 DEF d, x

\* The play pointer core 1 read is the present one, or lags the one that a drop
\* left, in front of a queue within the look-ahead.
Lagging ==
    /\ Behind(q, p) <= LeadAuto
    /\ \E d \in 0 .. HOLD : Behind(q, core1.p) = Behind(q, p) + d

PaceInv ==
    /\ Behind(q, p) <= Far
    /\ core1.pc = "play" =>
         /\ core1.advance <= LeadSingle
         /\ core1.advance <= Behind(q, p)
         /\ core1.p = p \/ Lagging

\* the steps that leave the ring alone
LEMMA PaceKept ==
    ASSUME PaceInv, UNCHANGED <<q, p, core1>>
    PROVE  PaceInv'
BY DEF PaceInv, Lagging

\* a step of core 0 that runs the channel of a machine like this one
LEMMA PaceCopied ==
    ASSUME TypeOK, PaceInv, NEW m \in Machines, InBuffer(m), m.q = q,
           Becomes(DmaRun(m)), UNCHANGED <<p, core1>>
    PROVE  PaceInv'
<1>1. p \in Index /\ q \in Index /\ core1.p \in Index /\ core1.advance \in Nat
  BY DEF TypeOK
<1>2. Behind(q, p) \in 0 .. Far
  BY <1>1, SmallGap DEF PaceInv
<1>3. CASE q' = q
  BY <1>3, PaceKept
<1>4. CASE q' # q
  <2>1. PICK t \in Nat : q' = Forward(q, t) /\ Behind(q, p) + t <= LeadAuto
    BY <1>1, <1>2, <1>4, CopyEffect DEF Becomes, PaceInv
  <2>2. Behind(q', p) = Behind(q, p) + t
    <3>1. Behind(q, p) + t < W
      BY <1>2, <2>1, LeadRange DEF Far
    <3> QED BY <1>1, <2>1, <3>1, CopyAhead
  <2>3. Behind(q', p') <= LeadAuto /\ Behind(q', p') <= Far
    BY <1>2, <2>1, <2>2, LeadRange DEF Far
  <2>4. ASSUME core1.pc = "play"
        PROVE  core1'.advance <= Behind(q', p')
    BY <1>1, <1>2, <2>1, <2>2, <2>4, LeadRange DEF PaceInv
  <2>5. ASSUME Lagging PROVE Lagging'
    <3>1. PICK d \in 0 .. HOLD : Behind(q, core1.p) = Behind(q, p) + d
      BY <2>5 DEF Lagging
    <3>2. Behind(q, core1.p) + t < W
      BY <1>2, <2>1, <3>1, LeadRange DEF Far
    <3>3. Behind(q', core1.p) = Behind(q, core1.p) + t
      BY <1>1, <2>1, <3>2, CopyAhead
    <3>4. Behind(q', core1'.p) = Behind(q', p') + d
      BY <1>2, <2>1, <2>2, <3>1, <3>3, LeadRange
    <3> QED BY <2>3, <3>4 DEF Lagging
  <2> QED BY <2>3, <2>4, <2>5 DEF PaceInv
<1> QED BY <1>3, <1>4

LEMMA PaceStep ==
    ASSUME TypeOK, PaceInv, [Next]_vars
    PROVE  PaceInv'
<1> USE DEF consumer, pin
<1>1. Typed(Now) /\ RestTyped /\ Now \in Machines /\ InBuffer(Now) /\ p \in Index
  BY TypesOfAll DEF Typed, RestTyped
<1>2. /\ dsp \in DspSet /\ dma \in DmaSet /\ q \in Index
      /\ core1.p \in Index /\ core1.advance \in Nat
  BY DEF TypeOK, DspSet, DmaSet
<1>3. Behind(q, p) \in 0 .. Far /\ SignedGap(q, p) = Behind(q, p)
  BY <1>1, <1>2, SmallGap DEF PaceInv
<1>4. CASE RunDevices
  BY <1>1, <1>4, PaceCopied DEF RunDevices, Now
<1>5. CASE Poll \/ EndSlice \/ Clock
  BY <1>5, PaceKept DEF Poll, EndSlice, Clock, FallbackExpires, SilenceExpires
<1>8. CASE Core1
  <2>1. CASE BeginSample
    <3>1. CASE Behind(q, p) > RING
      <4>1. p' = q /\ UNCHANGED <<q, core1>> /\ core1.pc = "idle"
        BY <2>1, <3>1 DEF BeginSample
      <4>2. Behind(q, q) = 0
        BY <1>2, Apart, LeadRange DEF Index
      <4> QED BY <4>1, <4>2, LeadRange DEF PaceInv
    <3>2. CASE ~(Behind(q, p) > RING)
      <4> DEFINE a == (phase + STEP) \div PHASES
      <4>1. core1' = [core1 EXCEPT !.pc = "play", !.p = p,
                                   !.advance = Min({a, Behind(q, p)})]
            /\ UNCHANGED <<q, p>>
        BY <2>1, <3>2 DEF BeginSample
      <4>2. a \in 0 .. LeadSingle
        BY <1>1, PlaysLittle DEF RestTyped
      <4> HIDE DEF a
      <4>3. /\ Min({a, Behind(q, p)}) <= a
            /\ Min({a, Behind(q, p)}) <= Behind(q, p)
            /\ Min({a, Behind(q, p)}) \in Int
        BY <1>3, <4>2, LeadRange, MinOfTwo
      <4>4. core1'.p = p /\ core1'.advance = Min({a, Behind(q, p)})
        BY <1>1, <4>1 DEF RestTyped
      <4>5. core1'.advance <= LeadSingle
        BY <4>2, <4>3, <4>4, LeadRange
      <4> QED BY <1>3, <4>1, <4>3, <4>4, <4>5 DEF PaceInv
    <3> QED BY <3>1, <3>2
  <2>2. CASE AdvancePlay
    <3>1. PICK from \in {core1.p, p} : p' = Forward(from, core1.advance)
      BY <2>2 DEF AdvancePlay
    <3>2. core1.pc = "play" /\ core1'.pc = "check" /\ q' = q
      BY <2>2 DEF AdvancePlay, Idle
    <3>3. core1.advance <= Behind(q, from) /\ Behind(q, from) \in 0 .. Far
      <4>1. CASE from = p
        BY <1>3, <3>2, <4>1 DEF PaceInv
      <4>2. CASE from # p
        <5>1. from = core1.p /\ Lagging
          BY <3>1, <3>2, <4>2 DEF PaceInv
        <5>2. PICK d \in 0 .. HOLD : Behind(q, from) = Behind(q, p) + d
          BY <5>1 DEF Lagging
        <5>3. Behind(q, p) <= LeadAuto /\ core1.advance <= Behind(q, p)
          BY <3>2, <5>1 DEF PaceInv, Lagging
        <5> QED BY <1>2, <1>3, <5>2, <5>3, LeadRange DEF Far
      <4> QED BY <4>1, <4>2
    <3>4. Behind(q, p') = Behind(q, from) - core1.advance
      BY <1>1, <1>2, <3>1, <3>3, PlayAhead
    <3>5. Behind(q, p') <= Far
      BY <1>2, <3>3, <3>4, LeadRange
    <3> QED BY <3>2, <3>5 DEF PaceInv
  <2>3. CASE CheckRunning \/ LoadStatus \/ StoreStatus
    <3>1. core1'.pc # "play" /\ UNCHANGED <<q, p>>
      <4>1. CASE CheckRunning
        BY <4>1 DEF CheckRunning, Idle
      <4>2. CASE LoadStatus
        BY <1>1, <4>2 DEF LoadStatus, RestTyped
      <4>3. CASE StoreStatus
        BY <4>3 DEF StoreStatus, Idle
      <4> QED BY <2>3, <4>1, <4>2, <4>3
    <3> QED BY <3>1 DEF PaceInv
  <2> QED BY <1>8, <2>1, <2>2, <2>3 DEF Core1
<1>9. CASE Transfer
  <2>1. ASSUME NEW len \in Lengths, NEW reload \in BOOLEAN, ProgramDma(len, reload)
        PROVE  PaceInv'
    BY <2>1, PaceKept DEF ProgramDma
  <2>2. CASE UnmaskDma
    <3> DEFINE u == [Now EXCEPT !.dma.mask = FALSE]
    <3>1. u \in Machines /\ InBuffer(u) /\ u.q = q
      BY <1>1, UnmaskEffect DEF Now
    <3>2. Becomes(DmaRun(u)) /\ UNCHANGED <<p, core1>>
      BY <2>2 DEF UnmaskDma
    <3> HIDE DEF u
    <3> QED BY <3>1, <3>2, PaceCopied
  <2>3. ASSUME NEW n \in Sizes, StartSingle(n) PROVE PaceInv'
    <3>1. q' = q /\ UNCHANGED core1 /\ Prompt
      <4> DEFINE m == [Now EXCEPT !.dsp.size = n, !.dsp.left = n, !.dsp.auto = FALSE]
      <4>1. q' = Control(m, TRUE).q /\ UNCHANGED core1 /\ Prompt
        BY <2>3 DEF StartSingle, Becomes, Does
      <4>2. DOMAIN m = {"dsp", "dma", "q"} /\ m.q = q
        BY DEF Now
      <4> HIDE DEF m
      <4> QED BY <4>1, <4>2 DEF Control
    <3>2. CASE ~(Queued > LeadSingle)
      <4>1. p' = p
        BY <2>3, <3>2 DEF StartSingle
      <4> QED BY <3>1, <4>1, PaceKept
    <3>3. CASE Queued > LeadSingle
      <4>1. p' = Behind(q, LeadSingle)
        BY <2>3, <3>3 DEF StartSingle
      <4>2. LeadSingle \in Index
        BY LeadRange DEF Index, Far
      <4>3. Behind(q, p') = LeadSingle
        BY <1>2, <4>1, <4>2, DropBack
      <4>4. Behind(q', p') <= LeadAuto /\ Behind(q', p') <= Far
        BY <3>1, <4>3, LeadRange DEF Far
      <4>5. ASSUME core1.pc = "play" PROVE Lagging'
        <5>1. Behind(q, core1.p) <= HOLD
          BY <3>1, <4>5 DEF Prompt
        <5>2. Behind(q, core1.p) \in Int /\ Behind(q, core1.p) > LeadSingle
          <6>1. Behind(q, p) > LeadSingle
            BY <1>3, <3>3 DEF Queued
          <6>2. CASE core1.p = p
            BY <1>3, <6>1, <6>2
          <6>3. CASE Lagging
            BY <1>3, <6>1, <6>3, LeadRange DEF Lagging
          <6> QED BY <4>5, <6>2, <6>3 DEF PaceInv
        <5> DEFINE d == Behind(q, core1.p) - LeadSingle
        <5>3. d \in 0 .. HOLD /\ Behind(q, core1.p) = LeadSingle + d
          BY <5>1, <5>2, LeadRange
        <5> HIDE DEF d
        <5> QED BY <3>1, <4>3, <4>4, <5>3 DEF Lagging
      <4>6. ASSUME core1.pc = "play"
            PROVE  core1'.advance <= LeadSingle /\ core1'.advance <= Behind(q', p')
        BY <3>1, <4>3, <4>6 DEF PaceInv
      <4> QED BY <3>1, <4>4, <4>5, <4>6 DEF PaceInv
    <3> QED BY <3>2, <3>3
  <2>4. ASSUME NEW n \in Sizes, SetBlockSize(n) PROVE PaceInv'
    BY <2>4, PaceKept DEF SetBlockSize, Does
  <2>5. CASE StartAuto \/ Halt \/ Continue \/ Reset
    <3>1. UNCHANGED <<p, core1>>
      BY <2>5 DEF StartAuto, Halt, Continue, Reset, Does
    <3>2. ASSUME NEW m, DOMAIN m = {"dsp", "dma", "q"}, m.q = q,
                 Becomes(Control(m, TRUE)) \/ Becomes(Control(m, FALSE))
          PROVE  q' = q
      BY <3>2 DEF Becomes, Control
    <3>3. q' = q
      <4>0. DOMAIN Now = {"dsp", "dma", "q"} /\ Now.q = q
        BY DEF Now
      <4>1. CASE StartAuto
        <5> DEFINE m == [Now EXCEPT !.dsp.left = dsp.size, !.dsp.auto = TRUE]
        <5>1. DOMAIN m = {"dsp", "dma", "q"} /\ m.q = q
          BY <4>0
        <5>2. Becomes(Control(m, TRUE))
          BY <4>1 DEF StartAuto
        <5> HIDE DEF m
        <5> QED BY <3>2, <5>1, <5>2
      <4>2. CASE Halt \/ Continue
        BY <3>2, <4>0, <4>2 DEF Halt, Continue
      <4>3. CASE Reset
        <5> DEFINE m == [Now EXCEPT !.dsp.await = FALSE, !.dsp.status = FALSE,
                                    !.dsp.aux = FALSE, !.dsp.auto = FALSE,
                                    !.dsp.late = FALSE, !.dsp.auxLate = FALSE,
                                    !.dsp.left = 0, !.dsp.size = -1]
        <5>1. DOMAIN m = {"dsp", "dma", "q"} /\ m.q = q
          BY <4>0
        <5>2. Becomes(Control(m, FALSE))
          BY <4>3 DEF Reset
        <5> HIDE DEF m
        <5> QED BY <3>2, <5>1, <5>2
      <4> QED BY <2>5, <4>1, <4>2, <4>3
    <3> QED BY <3>1, <3>3, PaceKept
  <2>6. CASE ExitAuto
    BY <2>6, PaceKept DEF ExitAuto, Does
  <2> QED BY <1>9, <2>1, <2>2, <2>3, <2>4, <2>5, <2>6 DEF Transfer
<1>10. CASE Interrupt
  BY <1>10, PaceKept DEF Interrupt, Silence, TestIrq, PollStatus, HandlerAcks,
     Acknowledge, ReadTerminalCount, TakeInterrupt, HandlerReturns, Does
<1>11. CASE UNCHANGED vars
  BY <1>11, PaceKept DEF vars
<1> QED BY <1>4, <1>5, <1>8, <1>9, <1>10, <1>11 DEF Next

(* Playback never passes the copy (sb16.c:1973-1974), for a ring, look-aheads  *)
(* and a rate of any size and any driver: a single-cycle block may cut an      *)
(* auto-init transfer short, drop what is queued while core 1 is in the middle *)
(* of a sample, and core 1 may then store back what it advanced from the play  *)
(* pointer it read before, however often this happens within HOLD.            *)
THEOREM PlaybackNeverPasses == Spec => []NeverPassed
<1>1. Init => TypeOK /\ PaceInv
  <2> SUFFICES ASSUME Init PROVE PaceInv
    BY TypeInit
  <2>1. 0 \in Index
    BY LeadRange DEF Index
  <2>2. Behind(0, 0) = 0
    BY <2>1, Apart
  <2> QED BY <2>2, LeadRange DEF Init, PaceInv, Idle
<1>2. TypeOK /\ PaceInv /\ [Next]_vars => (TypeOK /\ PaceInv)'
  BY TypeStep, PaceStep
<1>3. TypeOK /\ PaceInv => NeverPassed
  BY SmallGap DEF TypeOK, PaceInv, NeverPassed, Queued
<1> QED BY <1>1, <1>2, <1>3, PTL DEF Spec
=============================================================================
