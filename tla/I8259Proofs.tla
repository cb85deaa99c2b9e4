----------------------------- MODULE I8259Proofs -----------------------------
(* Proofs about the interrupt controllers, for any number of pins and any     *)
(* guest: type correctness, the arbitration lemma behind pic_get_irq, that    *)
(* only the selected pin is ever delivered, and that the CPU is told of every *)
(* deliverable request.                                                      *)
EXTENDS I8259Nesting, TLAPS, WellFoundedInduction

(* A nonempty set of naturals has a least element, which is what Min is. *)
LEMMA MinExists ==
    ASSUME NEW S, S \subseteq Nat, S # {}
    PROVE  Min(S) \in S /\ \A x \in S : Min(S) <= x
<1> DEFINE R == {ss \in Nat \X Nat : ss[1] < ss[2]}
<1>1. IsWellFoundedOn(R, Nat)
  BY NatLessThanWellFounded DEF OpToRel
<1> HIDE DEF R
<1>2. PICK x \in S : \A y \in S : ~ (<<y, x>> \in R)
  BY <1>1, WFMin
<1>3. ASSUME NEW y \in S PROVE x <= y
  <2>1. <<y, x>> \notin R
    BY <1>2
  <2>2. <<y, x>> \in Nat \X Nat /\ <<y, x>>[1] = y /\ <<y, x>>[2] = x
    OBVIOUS
  <2> QED BY <2>1, <2>2 DEF R
<1> QED BY <1>3 DEF Min

(* The wrap-around of "& 7" on the two sums the code forms. *)
LEMMA WrapDown ==
    ASSUME NEW a \in Pins, NEW k \in Pins
    PROVE  (k - a) % N = (IF k >= a THEN k - a ELSE k - a + N)
BY PinAssumption, Z3 DEF Pins

LEMMA WrapUp ==
    ASSUME NEW a \in Pins, NEW k \in Pins
    PROVE  (k + a) % N = (IF k + a < N THEN k + a ELSE k + a - N)
BY PinAssumption, SMT DEF Pins

(* A pin's place in the priority order determines the pin. *)
LEMMA RankPins ==
    ASSUME NEW s, s.priority_add \in Pins
    PROVE  /\ \A k \in Pins : Rank(s, k) \in Pins
           /\ \A k \in Pins : (Rank(s, k) + s.priority_add) % N = k
           /\ \A j, k \in Pins : Rank(s, j) = Rank(s, k) => j = k
<1> DEFINE a == s.priority_add
<1>1. \A k \in Pins : Rank(s, k) = (IF k >= a THEN k - a ELSE k - a + N)
  BY WrapDown DEF Rank
<1>2. \A k \in Pins : Rank(s, k) \in Pins
  BY <1>1, PinAssumption DEF Pins
<1>3. \A k \in Pins : (Rank(s, k) + a) % N = k
  <2> SUFFICES ASSUME NEW k \in Pins PROVE (Rank(s, k) + a) % N = k
    OBVIOUS
  <2>1. (Rank(s, k) + a) % N = (IF Rank(s, k) + a < N THEN Rank(s, k) + a
                                                      ELSE Rank(s, k) + a - N)
    BY <1>2, WrapUp
  <2> QED BY <2>1, <1>1, PinAssumption DEF Pins
<1>4. \A j, k \in Pins : Rank(s, j) = Rank(s, k) => j = k
  BY <1>3
<1> QED BY <1>2, <1>3, <1>4

(* get_priority: the number of empty places before the first pin of the mask. *)
LEMMA PriorityIsLeastRank ==
    ASSUME NEW s, s.priority_add \in Pins, NEW mask \in SUBSET Pins
    PROVE  /\ GetPriority(s, mask) \in 0 .. N
           /\ mask = {} <=> GetPriority(s, mask) = N
           /\ mask # {} => \E k \in mask : GetPriority(s, mask) = Rank(s, k)
           /\ \A k \in mask : GetPriority(s, mask) <= Rank(s, k)
<1>1. CASE mask = {}
  BY <1>1, PinAssumption DEF GetPriority
<1>2. CASE mask # {}
  <2> DEFINE S == {Rank(s, k) : k \in mask}
  <2>1. S # {} /\ S \subseteq Nat
    <3>1. \A k \in mask : Rank(s, k) \in Nat
      BY RankPins DEF Pins
    <3> QED BY <1>2, <3>1
  <2>2. GetPriority(s, mask) = Min(S)
    BY <1>2 DEF GetPriority, Rank
  <2> HIDE DEF S
  <2>3. Min(S) \in S /\ \A x \in S : Min(S) <= x
    BY <2>1, MinExists
  <2>4. PICK k \in mask : Min(S) = Rank(s, k)
    BY <2>3 DEF S
  <2>5. \A j \in mask : Min(S) <= Rank(s, j)
    BY <2>3 DEF S
  <2>6. Rank(s, k) \in Pins
    BY RankPins
  <2>7. GetPriority(s, mask) = Rank(s, k) /\ GetPriority(s, mask) \in 0 .. N - 1
    BY <2>2, <2>4, <2>6 DEF Pins
  <2>8. \A j \in mask : GetPriority(s, mask) <= Rank(s, j)
    BY <2>2, <2>5
  <2> HIDE DEF S
  <2> QED BY <1>2, <2>7, <2>8, PinAssumption
<1> QED BY <1>1, <1>2

(* pic_get_irq returns exactly the pin the priority rules select. *)
LEMMA Arbitration ==
    ASSUME NEW ps \in [Pic -> PicState], NEW p \in Pic
    PROVE  /\ GetIrq(ps, p) \in Pins \cup {None}
           /\ \A k \in Pins : GetIrq(ps, p) = k <=> Selected(ps, p, k)
<1> DEFINE s    == ps[p]
           mask == s.irr \ s.imr
           hold == Holding(ps, p)
           pri  == GetPriority(s, mask)
           cur  == GetPriority(s, hold)
<1>1. s.priority_add \in Pins /\ mask \in SUBSET Pins /\ hold \in SUBSET Pins
  BY DEF PicState, Holding
<1>2. /\ pri \in 0 .. N
      /\ mask = {} <=> pri = N
      /\ mask # {} => \E k \in mask : pri = Rank(s, k)
      /\ \A k \in mask : pri <= Rank(s, k)
  <2> HIDE DEF s, mask
  <2> QED BY <1>1, PriorityIsLeastRank DEF pri
<1>3. /\ cur \in 0 .. N
      /\ hold = {} <=> cur = N
      /\ hold # {} => \E k \in hold : cur = Rank(s, k)
      /\ \A k \in hold : cur <= Rank(s, k)
  <2> HIDE DEF s, hold
  <2> QED BY <1>1, PriorityIsLeastRank DEF cur
<1>4. GetIrq(ps, p) = (IF pri < cur THEN (pri + s.priority_add) % N ELSE None)
  BY DEF GetIrq
<1>5. \A k \in Pins : Selected(ps, p, k) <=>
        /\ k \in mask
        /\ \A j \in mask : Rank(s, k) <= Rank(s, j)
        /\ \A j \in hold : Rank(s, k) < Rank(s, j)
  BY DEF Selected
<1>6. /\ \A k \in Pins : Rank(s, k) \in Pins
      /\ \A k \in Pins : (Rank(s, k) + s.priority_add) % N = k
      /\ \A j, k \in Pins : Rank(s, j) = Rank(s, k) => j = k
  <2> HIDE DEF s
  <2> QED BY <1>1, RankPins
<1>7. None \notin Pins
  BY DEF None, Pins
<1> HIDE DEF s, mask, hold, pri, cur
<1>8. CASE pri < cur
  <2>1. mask # {}
    BY <1>2, <1>3, <1>8, PinAssumption
  <2>2. PICK k \in mask : pri = Rank(s, k)
    BY <1>2, <2>1
  <2>3. k \in Pins /\ GetIrq(ps, p) = k
    BY <1>1, <1>4, <1>6, <1>8, <2>2
  <2>4. Selected(ps, p, k)
    <3>1. \A j \in hold : Rank(s, k) < Rank(s, j)
      BY <1>1, <1>3, <1>6, <1>8, <2>2, <2>3, PinAssumption DEF Pins
    <3> QED BY <1>2, <1>5, <2>2, <2>3, <3>1
  <2>5. \A j \in Pins : Selected(ps, p, j) => j = k
    BY <1>1, <1>2, <1>5, <1>6, <2>2, <2>3 DEF Pins
  <2> QED BY <2>3, <2>4, <2>5
<1>9. CASE ~(pri < cur)
  <2>1. GetIrq(ps, p) = None
    BY <1>4, <1>9
  <2>2. \A k \in Pins : ~Selected(ps, p, k)
    <3> SUFFICES ASSUME NEW k \in Pins, Selected(ps, p, k) PROVE FALSE
      OBVIOUS
    <3>1. /\ k \in mask
          /\ \A j \in hold : Rank(s, k) < Rank(s, j)
      BY <1>5
    <3>2. pri <= Rank(s, k) /\ Rank(s, k) \in Pins
      BY <1>2, <1>6, <3>1
    <3>3. CASE hold = {}
      BY <1>2, <1>3, <1>9, <3>2, <3>3, PinAssumption DEF Pins
    <3>4. CASE hold # {}
      <4>1. PICK j \in hold : cur = Rank(s, j)
        BY <1>3, <3>4
      <4> QED BY <1>1, <1>2, <1>3, <1>6, <1>9, <3>1, <3>2, <4>1 DEF Pins
    <3> QED BY <3>3, <3>4
  <2> QED BY <1>7, <2>1, <2>2
<1> QED BY <1>8, <1>9

-----------------------------------------------------------------------------
(* Type correctness. *)

LEMMA SetIrq1Type ==
    ASSUME NEW s \in PicState, NEW pin \in Pins
    PROVE  /\ SetIrq1(s, pin, TRUE) \in PicState
           /\ SetIrq1(s, pin, FALSE) \in PicState
BY DEF SetIrq1, PicState

LEMMA IntackType ==
    ASSUME NEW s \in PicState, NEW pin \in Pins
    PROVE  Intack(s, pin) \in PicState
<1>1. (pin + 1) % N \in Pins
  BY PinAssumption, SMT DEF Pins
<1> QED BY <1>1 DEF Intack, PicState

LEMMA ResetType == PicReset \in PicState
BY PinAssumption DEF PicReset, PicState, Pins

LEMMA CascadedType ==
    ASSUME NEW ps \in [Pic -> PicState]
    PROVE  Cascaded(ps) \in [Pic -> PicState]
<1>0. ps[0] \in PicState /\ CASCADE \in Pins
  BY PinAssumption DEF Pic
<1>1. SetIrq1(ps[0], CASCADE, TRUE) \in PicState
  BY <1>0, SetIrq1Type, Zenon
<1>2. SetIrq1(SetIrq1(ps[0], CASCADE, TRUE), CASCADE, FALSE) \in PicState
  BY <1>0, <1>1, SetIrq1Type, Zenon
<1> QED BY <1>2 DEF Cascaded, Pic

LEMMA UpdateType ==
    ASSUME NEW ps \in [Pic -> PicState], NEW latch \in BOOLEAN, UpdateIrq(ps, latch)
    PROVE  pics' \in [Pic -> PicState] /\ intr' \in BOOLEAN
BY CascadedType DEF UpdateIrq

LEMMA ReadIrqType ==
    ASSUME NEW ps \in [Pic -> PicState]
    PROVE  /\ ReadIrq(ps).pics \in [Pic -> PicState]
           /\ ReadIrq(ps).vec \in Nat \cup {None}
<1> DEFINE irq    == GetIrq(ps, 0)
           master == [ps EXCEPT ![0] = Intack(@, irq)]
           irq2   == GetIrq(master, 1)
<1>1. irq \in Pins \cup {None}
  BY Arbitration DEF Pic
<1>2. CASE irq = None
  <2>1. CASCADE # None
    BY PinAssumption DEF Pins, None
  <2>2. ReadIrq(ps) = [pics |-> ps, vec |-> None]
    BY <1>2, <2>1 DEF ReadIrq
  <2> QED BY <2>2
<1>3. CASE irq # None
  <2>1. master \in [Pic -> PicState]
    <3>1. ps[0] \in PicState /\ irq \in Pins
      BY <1>1, <1>3 DEF Pic
    <3> HIDE DEF irq
    <3>2. Intack(ps[0], irq) \in PicState
      BY <3>1, IntackType
    <3> QED BY <3>2 DEF Pic, master
  <2>2. irq2 \in Pins \cup {None}
    <3> HIDE DEF irq, master
    <3> QED BY <2>1, Arbitration DEF Pic, irq2
  <2>3. ps[0].irq_base \in Nat /\ ps[1].irq_base \in Nat
    BY DEF Pic, PicState
  <2>4. CASE irq # CASCADE
    <3>1. ReadIrq(ps) = [pics |-> master, vec |-> ps[0].irq_base + irq]
      BY <1>3, <2>4 DEF ReadIrq
    <3> HIDE DEF irq, master
    <3> QED BY <1>1, <1>3, <2>1, <2>3, <3>1 DEF Pins
  <2>5. CASE irq = CASCADE /\ irq2 = None
    <3>1. ReadIrq(ps) = [pics |-> master, vec |-> ps[1].irq_base + (N - 1)]
      BY <1>3, <2>5 DEF ReadIrq
    <3> HIDE DEF irq, master, irq2
    <3> QED BY <2>1, <2>3, <3>1, PinAssumption
  <2>6. CASE irq = CASCADE /\ irq2 # None
    <3>1. ReadIrq(ps) = [pics |-> [master EXCEPT ![1] = Intack(@, irq2)],
                         vec  |-> ps[1].irq_base + irq2]
      BY <1>3, <2>6 DEF ReadIrq
    <3> HIDE DEF irq, master, irq2
    <3>2. [master EXCEPT ![1] = Intack(@, irq2)] \in [Pic -> PicState]
      BY <2>1, <2>2, <2>6, IntackType DEF Pic
    <3> QED BY <2>2, <2>3, <2>6, <3>1, <3>2 DEF Pins
  <2> QED BY <2>4, <2>5, <2>6
<1> QED BY <1>2, <1>3

(* Every operation keeps the registers sets of pins. *)
LEMMA NextType ==
    ASSUME TypeOK, Next
    PROVE  TypeOK'
<1> USE DEF TypeOK
<1>w. \A k \in Pins : (k + 1) % N \in Pins
  BY PinAssumption, SMT DEF Pins
<1>1. ASSUME NEW line \in Lines, NEW level \in BOOLEAN, SetIrq(line, level)
      PROVE  TypeOK'
  <2> DEFINE q == [pics EXCEPT ![line \div N] = SetIrq1(@, line % N, level)]
  <2>1. line \div N \in Pic /\ line % N \in Pins
    <3>1. line \in 0 .. 2 * N - 1
      BY LineAssumption
    <3> QED BY <3>1, PinAssumption, SMT DEF Pic, Pins
  <2>2. SetIrq1(pics[line \div N], line % N, level) \in PicState
    BY <2>1 DEF SetIrq1, PicState
  <2>3. q \in [Pic -> PicState]
    BY <2>1, <2>2
  <2> QED BY <1>1, <2>3, UpdateType DEF SetIrq
<1>2. CASE Accept
  <2>1. PICK r \in {ReadIrq(pics)} : UpdateIrq(r.pics, FALSE) /\ vec' = r.vec
    BY <1>2 DEF Accept
  <2>2. r.pics \in [Pic -> PicState] /\ r.vec \in Nat \cup {None}
    BY <2>1, ReadIrqType
  <2> QED BY <2>1, <2>2, UpdateType
<1>3. ASSUME NEW p \in Pic, Guest PROVE TypeOK'
  <2> USE DEF Pic
  <2>1. ASSUME NEW c \in Pic, NEW v \in Icw1, WriteIcw1(c, v) PROVE TypeOK'
    <3>1. v \in Icw1Values
      BY GuestAssumption
    <3> DEFINE r == PicReset
               q == [r EXCEPT !.init_state = 1, !.init4 = v.init4, !.single_mode = v.single]
    <3>2. q \in PicState
      <4>1. r \in PicState
        BY ResetType
      <4>2. v.init4 \in BOOLEAN /\ v.single \in BOOLEAN
        BY <3>1 DEF Icw1Values
      <4> DEFINE r1 == [r EXCEPT !.init_state = 1]
                 r2 == [r1 EXCEPT !.init4 = v.init4]
                 r3 == [r2 EXCEPT !.single_mode = v.single]
      <4> HIDE DEF r
      <4>3. r1 \in PicState
        BY <4>1 DEF PicState
      <4>4. r2 \in PicState
        <5> HIDE DEF r1
        <5> QED BY <4>2, <4>3 DEF PicState
      <4>5. r3 \in PicState
        <5> HIDE DEF r2
        <5> QED BY <4>2, <4>4 DEF PicState
      <4> QED BY <4>5
    <3>3. pics' = [pics EXCEPT ![c] = q] /\ UNCHANGED intr /\ vec' = None
      BY <2>1 DEF WriteIcw1
    <3> HIDE DEF q
    <3> QED BY <3>2, <3>3
  <2>2. ASSUME NEW c \in Pic, NEW b \in Bases, WriteIcw2(c, b) PROVE TypeOK'
    <3>1. b \in Nat
      BY GuestAssumption
    <3> QED BY <2>2, <3>1 DEF WriteIcw2, PicState
  <2>3. ASSUME NEW c \in Pic, WriteIcw3(c) PROVE TypeOK'
    BY <2>3 DEF WriteIcw3, PicState
  <2>4. ASSUME NEW c \in Pic, NEW v \in Icw4, WriteIcw4(c, v) PROVE TypeOK'
    <3>1. v \in Icw4Values
      BY GuestAssumption
    <3> QED BY <2>4, <3>1 DEF WriteIcw4, Icw4Values, PicState
  <2>5. ASSUME NEW c \in Pic, NEW m \in ImrValues, WriteOcw1(c, m) PROVE TypeOK'
    <3>1. [pics EXCEPT ![c].imr = m] \in [Pic -> PicState]
      BY GuestAssumption DEF PicState
    <3> QED BY <2>5, <3>1, UpdateType DEF WriteOcw1
  <2>6. ASSUME NEW c \in Pic, NEW cmd \in Ocw2, EndOfInterrupt(c, cmd) PROVE TypeOK'
    <3> DEFINE pri == GetPriority(pics[c], pics[c].isr)
               pin == (pri + pics[c].priority_add) % N
    <3>1. CASE pri = N
      BY <2>6, <3>1 DEF EndOfInterrupt
    <3>2. CASE pri # N
      <4> DEFINE q == [pics EXCEPT ![c].isr = @ \ {pin},
                                   ![c].priority_add = IF cmd = 5 THEN (pin + 1) % N ELSE @]
      <4>1. pics[c] \in PicState /\ pics[c].priority_add \in Pins /\ pics[c].isr \in SUBSET Pins
        BY DEF PicState
      <4>2. pin \in Pins
        <5>1. PICK k \in pics[c].isr : pri = Rank(pics[c], k)
          BY <3>2, <4>1, PriorityIsLeastRank
        <5> QED BY <4>1, <5>1, RankPins
      <4>3. q \in [Pic -> PicState]
        <5> HIDE DEF pin
        <5> QED BY <1>w, <4>1, <4>2 DEF PicState
      <4>4. UpdateIrq(q, intr) /\ vec' = None
        BY <2>6, <3>2 DEF EndOfInterrupt
      <4> QED BY <4>3, <4>4, UpdateType
    <3> QED BY <3>1, <3>2
  <2>7. ASSUME NEW c \in Pic, NEW cmd \in Ocw2, NEW pin \in Pins, SpecificEoi(c, cmd, pin)
        PROVE  TypeOK'
    <3> DEFINE q == [pics EXCEPT ![c].isr = IF cmd = 6 THEN @ ELSE @ \ {pin},
                                 ![c].priority_add = IF cmd = 3 THEN @ ELSE (pin + 1) % N]
    <3>1. q \in [Pic -> PicState]
      BY <1>w DEF PicState
    <3>2. UpdateIrq(q, intr) /\ vec' = None
      BY <2>7 DEF SpecificEoi
    <3> QED BY <3>1, <3>2, UpdateType
  <2>8. ASSUME NEW c \in Pic, NEW cmd \in Ocw2, RotateOnAutoEoi(c, cmd) PROVE TypeOK'
    <3> DEFINE on == (cmd = 4)
    <3>1. on \in BOOLEAN
      OBVIOUS
    <3>2. pics' = [pics EXCEPT ![c].rotate_on_auto_eoi = on] /\ UNCHANGED intr /\ vec' = None
      BY <2>8 DEF RotateOnAutoEoi
    <3> HIDE DEF on
    <3> QED BY <3>1, <3>2 DEF PicState
  <2>9. ASSUME NEW c \in Pic, NEW v \in Ocw3, WriteOcw3(c, v) PROVE TypeOK'
    <3> DEFINE po == pics[c].poll \/ v.poll
               rd == IF v.select = "none" THEN pics[c].read_isr ELSE v.select = "isr"
               sp == IF v.special = "none" THEN pics[c].special_mask ELSE v.special = "on"
    <3>1. /\ po \in BOOLEAN
          /\ rd \in BOOLEAN
          /\ sp \in BOOLEAN
      BY DEF PicState
    <3>2. /\ pics' = [pics EXCEPT ![c].poll = po, ![c].read_isr = rd, ![c].special_mask = sp]
          /\ UNCHANGED intr
          /\ vec' = None
      BY <2>9 DEF WriteOcw3
    <3> DEFINE q1 == [pics EXCEPT ![c].poll = po]
               q2 == [q1 EXCEPT ![c].read_isr = rd]
               q3 == [q2 EXCEPT ![c].special_mask = sp]
    <3> HIDE DEF po, rd, sp
    <3>3. q1 \in [Pic -> PicState]
      BY <3>1 DEF PicState
    <3>4. q2 \in [Pic -> PicState]
      <4> HIDE DEF q1
      <4> QED BY <3>1, <3>3 DEF PicState
    <3>5. q3 \in [Pic -> PicState]
      <4> HIDE DEF q2
      <4> QED BY <3>1, <3>4 DEF PicState
    <3>6. pics' = q3
      BY <3>2
    <3> HIDE DEF q3
    <3> QED BY <3>2, <3>5, <3>6
  <2>10. ASSUME NEW c \in Pic, PollRead(c) PROVE TypeOK'
    <3> DEFINE ret     == GetIrq(pics, c)
               cleared == [pics EXCEPT ![c].irr = @ \ {ret}, ![c].isr = @ \ {ret}]
               taken   == IF c = 1 THEN [cleared EXCEPT ![0].isr = @ \ {CASCADE},
                                                        ![0].irr = @ \ {CASCADE}]
                                   ELSE cleared
               idle     == FALSE
               done(ps) == [ps EXCEPT ![c].poll = idle]
    <3>0. /\ idle \in BOOLEAN
          /\ \A d \in BOOLEAN, ps \in [Pic -> PicState] : [ps EXCEPT ![c].poll = d] \in [Pic -> PicState]
      BY DEF PicState
    <3>1. cleared \in [Pic -> PicState]
      BY DEF PicState
    <3>2. taken \in [Pic -> PicState]
      <4> HIDE DEF cleared
      <4>1. CASE c = 1
        <5> DEFINE q1 == [cleared EXCEPT ![0].isr = @ \ {CASCADE}]
                   q2 == [q1 EXCEPT ![0].irr = @ \ {CASCADE}]
        <5>1. q1 \in [Pic -> PicState]
          BY <3>1 DEF PicState
        <5>2. q2 \in [Pic -> PicState]
          <6> HIDE DEF q1
          <6> QED BY <5>1 DEF PicState
        <5>3. taken = q2
          BY <4>1
        <5> QED BY <5>2, <5>3
      <4> QED BY <3>1, <4>1
    <3>3. done(pics) \in [Pic -> PicState]
      <4> HIDE DEF idle
      <4> QED BY <3>0
    <3>4. done(taken) \in [Pic -> PicState]
      <4> HIDE DEF taken, idle
      <4> QED BY <3>0, <3>2
    <3>5. \/ UpdateIrq(done(pics), intr)
          \/ UpdateIrq(done(taken), intr)
          \/ pics' = done(taken) /\ UNCHANGED intr
      BY <2>10 DEF PollRead
    <3>6. vec' = None
      BY <2>10 DEF PollRead
    <3> HIDE DEF taken, done
    <3> QED BY <3>3, <3>4, <3>5, <3>6, UpdateType
  <2> QED BY <1>3, <2>1, <2>2, <2>3, <2>4, <2>5, <2>6, <2>7, <2>8, <2>9, <2>10 DEF Guest
<1> QED BY <1>1, <1>2, <1>3 DEF Next, Device, Guest, Pic

(* The registers stay sets of pins whatever the guest, the devices and the    *)
(* CPU do: in particular no vector outside the programmed bases is formed     *)
(* from a failed scan (pic_get_irq returning 8).                              *)
THEOREM TypeCorrect == Spec => []TypeOK
<1>1. Init => TypeOK
  BY ResetType DEF Init, TypeOK
<1>2. TypeOK /\ [Next]_vars => TypeOK'
  BY NextType DEF vars, TypeOK
<1> QED BY <1>1, <1>2, PTL DEF Spec

-----------------------------------------------------------------------------
(* What is delivered. *)

(* The acknowledge of the master leaves the slave's choice alone. *)
LEMMA SlaveChoice ==
    ASSUME NEW ps \in [Pic -> PicState], NEW qs \in [Pic -> PicState], qs[1] = ps[1]
    PROVE  GetIrq(qs, 1) = GetIrq(ps, 1)
BY DEF GetIrq, Holding

(* Only the pin the priority rules select at the acknowledge is delivered,    *)
(* for every number of pins, mode and guest; a withdrawn request delivers     *)
(* nothing (i8259_read_irq).                                                  *)
THEOREM AcceptOnlySelected == Spec => AcceptSelected
<1> DEFINE Delivered ==
         \/ \E k \in Pins \ {CASCADE} : Selected(pics, 0, k) /\ vec' = pics[0].irq_base + k
         \/ /\ Selected(pics, 0, CASCADE)
            /\ \/ \E k \in Pins : Selected(pics, 1, k) /\ vec' = pics[1].irq_base + k
               \/ /\ \A k \in Pins : ~Selected(pics, 1, k)
                  /\ vec' = pics[1].irq_base + (N - 1)
<1>1. ASSUME TypeOK, Accept, vec' # None PROVE Delivered
  <2> DEFINE irq    == GetIrq(pics, 0)
             master == [pics EXCEPT ![0] = Intack(@, irq)]
             irq2   == GetIrq(master, 1)
  <2>0. pics \in [Pic -> PicState] /\ 0 \in Pic /\ 1 \in Pic
    BY <1>1 DEF TypeOK, Pic
  <2>1. vec' = ReadIrq(pics).vec
    BY <1>1 DEF Accept
  <2>2. /\ irq \in Pins \cup {None}
        /\ \A k \in Pins : irq = k <=> Selected(pics, 0, k)
    BY <2>0, Arbitration
  <2>3. CASCADE \in Pins /\ None \notin Pins
    BY PinAssumption DEF Pins, None
  <2>4. irq # None
    <3> SUFFICES ASSUME irq = None PROVE FALSE
      OBVIOUS
    <3>1. ReadIrq(pics) = [pics |-> pics, vec |-> None]
      BY <2>3 DEF ReadIrq
    <3> QED BY <1>1, <2>1, <3>1
  <2>5. CASE irq # CASCADE
    <3>1. ReadIrq(pics) = [pics |-> master, vec |-> pics[0].irq_base + irq]
      BY <2>4, <2>5 DEF ReadIrq
    <3> HIDE DEF irq, master
    <3>2. vec' = pics[0].irq_base + irq
      BY <2>1, <3>1
    <3>3. irq \in Pins \ {CASCADE} /\ Selected(pics, 0, irq)
      BY <2>2, <2>4, <2>5
    <3> QED BY <3>2, <3>3
  <2>6. CASE irq = CASCADE
    <3>0. master \in [Pic -> PicState] /\ master[1] = pics[1]
      <4>1. Intack(pics[0], irq) \in PicState
        <5> HIDE DEF irq
        <5> QED BY <2>0, <2>3, <2>6, IntackType
      <4> HIDE DEF irq
      <4> QED BY <2>0, <4>1
    <3>1. irq2 = GetIrq(pics, 1)
      <4> HIDE DEF master
      <4> QED BY <2>0, <3>0, SlaveChoice
    <3>2. /\ irq2 \in Pins \cup {None}
          /\ \A k \in Pins : irq2 = k <=> Selected(pics, 1, k)
      <4> HIDE DEF irq2
      <4> QED BY <2>0, <3>1, Arbitration
    <3>3. Selected(pics, 0, CASCADE)
      BY <2>2, <2>3, <2>6
    <3>4. CASE irq2 = None
      <4>1. ReadIrq(pics) = [pics |-> master, vec |-> pics[1].irq_base + (N - 1)]
        BY <2>4, <2>6, <3>4 DEF ReadIrq
      <4> HIDE DEF irq, master, irq2
      <4>2. vec' = pics[1].irq_base + (N - 1)
        BY <2>1, <4>1
      <4> QED BY <2>3, <3>2, <3>3, <3>4, <4>2
    <3>5. CASE irq2 # None
      <4>1. ReadIrq(pics) = [pics |-> [master EXCEPT ![1] = Intack(@, irq2)],
                             vec  |-> pics[1].irq_base + irq2]
        BY <2>4, <2>6, <3>5 DEF ReadIrq
      <4> HIDE DEF irq, master, irq2
      <4>2. vec' = pics[1].irq_base + irq2
        BY <2>1, <4>1
      <4> QED BY <3>2, <3>3, <3>5, <4>2
    <3> QED BY <3>4, <3>5
  <2> QED BY <2>5, <2>6
<1>2. ASSUME TypeOK, Next PROVE vec' # None => Delivered
  <2>1. CASE Accept
    BY <1>1, <1>2, <2>1
  <2>2. CASE Device
    BY <2>2 DEF Device, SetIrq
  <2>3. CASE Guest
    <3>1. \A c : \A v : WriteIcw1(c, v) \/ WriteIcw4(c, v) \/ WriteOcw3(c, v) => vec' = None
      BY DEF WriteIcw1, WriteIcw4, WriteOcw3
    <3>2. \A c : \A v : WriteIcw2(c, v) \/ WriteIcw3(c) \/ WriteOcw1(c, v) => vec' = None
      BY DEF WriteIcw2, WriteIcw3, WriteOcw1
    <3>3. /\ \A c : \A v : EndOfInterrupt(c, v) => vec' = None
          /\ \A c : \A v : RotateOnAutoEoi(c, v) => vec' = None
          /\ \A c : PollRead(c) => vec' = None
      <4>1. ASSUME NEW c, NEW v, EndOfInterrupt(c, v) PROVE vec' = None
        BY <4>1, Zenon DEF EndOfInterrupt
      <4>2. ASSUME NEW c, NEW v, RotateOnAutoEoi(c, v) PROVE vec' = None
        BY <4>2, Zenon DEF RotateOnAutoEoi
      <4>3. ASSUME NEW c, PollRead(c) PROVE vec' = None
        BY <4>3, Zenon DEF PollRead
      <4> QED BY <4>1, <4>2, <4>3
    <3>4. \A c : \A v : \A k : SpecificEoi(c, v, k) => vec' = None
      BY DEF SpecificEoi
    <3>5. vec' = None
      BY <2>3, <3>1, <3>2, <3>3, <3>4 DEF Guest
    <3> QED BY <3>5
  <2> QED BY <1>2, <2>1, <2>2, <2>3 DEF Next
<1>3. TypeOK /\ [Next]_vars => [vec' # None => Delivered]_vars
  BY <1>2
<1> QED BY <1>3, TypeCorrect, PTL DEF Spec, AcceptSelected

-----------------------------------------------------------------------------
(* The CPU is told. *)

(* A chip in neither of the modes whose change is not followed by              *)
(* pic_update_irq.                                                            *)
Simple(s) == ~s.special_mask /\ ~s.sfnm
Plain == Simple(pics[0])

(* Writing any other register keeps a chip out of the two modes. *)
LEMMA SimpleKept ==
    ASSUME NEW s \in PicState, Simple(s), NEW x
    PROVE  /\ Simple([s EXCEPT !.irr = x]) /\ Simple([s EXCEPT !.isr = x])
           /\ Simple([s EXCEPT !.imr = x]) /\ Simple([s EXCEPT !.last_irr = x])
           /\ Simple([s EXCEPT !.priority_add = x]) /\ Simple([s EXCEPT !.poll = x])
           /\ Simple([s EXCEPT !.auto_eoi = x]) /\ Simple([s EXCEPT !.init_state = x])
           /\ Simple([s EXCEPT !.read_isr = x])
BY DEF PicState, Simple

(* So do the line and the acknowledge. *)
LEMMA SetIrq1Simple ==
    ASSUME NEW s \in PicState, Simple(s), NEW pin \in Pins
    PROVE  Simple(SetIrq1(s, pin, TRUE)) /\ Simple(SetIrq1(s, pin, FALSE))
BY DEF SetIrq1, PicState, Simple

LEMMA IntackSimple ==
    ASSUME NEW s \in PicState, Simple(s), NEW pin \in Pins
    PROVE  Simple(Intack(s, pin))
BY DEF Intack, PicState, Simple

(* pic_update_irq re-establishes the invariant whatever came before it. *)
LEMMA UpdateCovers ==
    ASSUME NEW ps \in [Pic -> PicState], NEW latch \in BOOLEAN, UpdateIrq(ps, latch),
           Simple(ps[0])
    PROVE  IntrCoversRequest' /\ Plain'
<1>1. PICK after \in {Cascaded(ps)} : pics' = after /\ intr' = (latch \/ GetIrq(after, 0) # None)
  BY DEF UpdateIrq
<1>2. IntrCoversRequest'
  BY <1>1 DEF IntrCoversRequest
<1>3. Simple(Cascaded(ps)[0])
  <2> DEFINE s1 == SetIrq1(ps[0], CASCADE, TRUE)
             s2 == SetIrq1(s1, CASCADE, FALSE)
  <2>0. ps[0] \in PicState /\ CASCADE \in Pins /\ 0 \in Pic
    BY PinAssumption DEF Pic
  <2>1. s1 \in PicState /\ Simple(s1)
    BY <2>0, SetIrq1Type, SetIrq1Simple, Zenon
  <2>2. Simple(s2)
    <3> HIDE DEF s1
    <3> QED BY <2>0, <2>1, SetIrq1Simple, Zenon
  <2>3. Cascaded(ps) = ps \/ Cascaded(ps) = [ps EXCEPT ![0] = s2]
    BY DEF Cascaded
  <2> HIDE DEF s1, s2
  <2> QED BY <2>0, <2>2, <2>3
<1> QED BY <1>1, <1>2, <1>3 DEF Plain

(* GetIrq of the master depends on these registers of it only. *)
LEMMA SameChoice ==
    ASSUME NEW ps \in [Pic -> PicState], NEW qs \in [Pic -> PicState],
           qs[0].irr = ps[0].irr, qs[0].imr = ps[0].imr, qs[0].isr = ps[0].isr,
           qs[0].priority_add = ps[0].priority_add,
           Simple(ps[0]), Simple(qs[0])
    PROVE  GetIrq(qs, 0) = GetIrq(ps, 0)
BY DEF GetIrq, Holding, GetPriority, Simple

(* The acknowledge changes no mode of the master. *)
LEMMA ReadIrqSimple ==
    ASSUME NEW ps \in [Pic -> PicState], Simple(ps[0])
    PROVE  Simple(ReadIrq(ps).pics[0])
<1> DEFINE irq    == GetIrq(ps, 0)
           master == [ps EXCEPT ![0] = Intack(@, irq)]
           irq2   == GetIrq(master, 1)
           both   == [master EXCEPT ![1] = Intack(@, irq2)]
<1>1. irq \in Pins \cup {None} /\ 0 \in Pic /\ ps[0] \in PicState
  BY Arbitration DEF Pic
<1>2. CASCADE # None
  BY PinAssumption DEF Pins, None
<1>3. irq = None \/ Simple(master[0])
  <2> HIDE DEF irq
  <2> QED BY <1>1, IntackSimple
<1>4. both[0] = master[0]
  <2> HIDE DEF irq, irq2
  <2> QED BY <1>1
<1>5. \/ irq = None /\ ReadIrq(ps).pics = ps
      \/ irq # None /\ ReadIrq(ps).pics \in {master, both}
  BY <1>1, <1>2 DEF ReadIrq
<1> HIDE DEF irq, irq2, master, both
<1> QED BY <1>3, <1>4, <1>5

(* The inductive step, one operation at a time. *)
LEMMA CoversStep ==
    ASSUME TypeOK, IntrCoversRequest, Plain, Next,
           \A v \in Ocw3 : v.special # "on", \A v \in Icw4 : ~v.sfnm
    PROVE  IntrCoversRequest' /\ Plain'
<1>0. /\ pics \in [Pic -> PicState]
      /\ pics' \in [Pic -> PicState]
      /\ intr \in BOOLEAN
      /\ 0 \in Pic
      /\ Simple(pics[0])
  BY NextType DEF TypeOK, Pic, Plain
<1>u. ASSUME NEW ps \in [Pic -> PicState], UpdateIrq(ps, intr), Simple(ps[0])
      PROVE  IntrCoversRequest' /\ Plain'
  BY <1>0, <1>u, UpdateCovers
<1>s. ASSUME intr' = intr,
             pics'[0].irr = pics[0].irr, pics'[0].imr = pics[0].imr,
             pics'[0].isr = pics[0].isr, pics'[0].priority_add = pics[0].priority_add,
             Simple(pics'[0])
      PROVE  IntrCoversRequest' /\ Plain'
  <2>1. GetIrq(pics', 0) = GetIrq(pics, 0)
    BY <1>0, <1>s, SameChoice
  <2> QED BY <1>s, <2>1 DEF IntrCoversRequest, Plain
<1>1. ASSUME NEW line \in Lines, NEW level \in BOOLEAN, SetIrq(line, level)
      PROVE  IntrCoversRequest' /\ Plain'
  <2> DEFINE c  == line \div N
             s1 == SetIrq1(pics[c], line % N, level)
             q  == [pics EXCEPT ![c] = s1]
  <2>1. c \in Pic /\ line % N \in Pins
    <3>1. line \in 0 .. 2 * N - 1
      BY LineAssumption
    <3> QED BY <3>1, PinAssumption, SMT DEF Pic, Pins
  <2>2. UpdateIrq(q, intr)
    BY <1>1 DEF SetIrq
  <2> HIDE DEF c
  <2>3. s1 \in PicState
    <3>1. pics[c] \in PicState
      BY <1>0, <2>1
    <3>2. level = TRUE \/ level = FALSE
      OBVIOUS
    <3> QED BY <2>1, <3>1, <3>2, SetIrq1Type, Zenon
  <2>4. c = 0 => Simple(s1)
    <3> SUFFICES ASSUME c = 0 PROVE Simple(s1)
      OBVIOUS
    <3>1. pics[c] \in PicState /\ Simple(pics[c])
      BY <1>0, <2>1
    <3>2. level = TRUE \/ level = FALSE
      OBVIOUS
    <3> QED BY <2>1, <3>1, <3>2, SetIrq1Simple, Zenon
  <2> HIDE DEF s1
  <2>5. q \in [Pic -> PicState] /\ Simple(q[0])
    BY <1>0, <2>1, <2>3, <2>4
  <2> HIDE DEF q
  <2> QED BY <1>u, <2>2, <2>5
<1>2. CASE Accept
  <2>1. PICK r \in {ReadIrq(pics)} : UpdateIrq(r.pics, FALSE)
    BY <1>2 DEF Accept
  <2>2. r.pics \in [Pic -> PicState] /\ Simple(r.pics[0])
    BY <1>0, ReadIrqType, ReadIrqSimple
  <2> QED BY <2>1, <2>2, UpdateCovers
<1>3. ASSUME NEW c \in Pic, NEW v \in Icw1, WriteIcw1(c, v)
      PROVE  IntrCoversRequest' /\ Plain'
  <2>1. CASE c = 0
    <3>1. pics'[0].irr = {} /\ Plain'
      BY <1>0, <1>3, <2>1 DEF WriteIcw1, PicReset, Plain, Simple
    <3>2. \A k \in Pins : ~Selected(pics', 0, k)
      BY <3>1 DEF Selected
    <3>3. GetIrq(pics', 0) = None
      BY <1>0, <3>2, Arbitration
    <3> QED BY <3>1, <3>3 DEF IntrCoversRequest
  <2>2. CASE c = 1
    <3>1. pics'[0] = pics[0] /\ intr' = intr
      BY <1>0, <1>3, <2>2 DEF WriteIcw1
    <3> QED BY <1>0, <1>s, <3>1
  <2> QED BY <2>1, <2>2 DEF Pic
<1>4. ASSUME NEW c \in Pic, NEW b \in Bases, WriteIcw2(c, b)
      PROVE  IntrCoversRequest' /\ Plain'
  BY <1>0, <1>4, <1>s DEF WriteIcw2, PicState, Simple
<1>5. ASSUME NEW c \in Pic, WriteIcw3(c)
      PROVE  IntrCoversRequest' /\ Plain'
  BY <1>0, <1>5, <1>s DEF WriteIcw3, PicState, Simple
<1>6. ASSUME NEW c \in Pic, NEW v \in Icw4, WriteIcw4(c, v)
      PROVE  IntrCoversRequest' /\ Plain'
  <2> DEFINE q1 == [pics[0] EXCEPT !.sfnm = v.sfnm]
             q2 == [q1 EXCEPT !.auto_eoi = v.aeoi]
             q3 == [q2 EXCEPT !.init_state = 0]
  <2>0. v \in Icw4Values /\ v.sfnm \in BOOLEAN /\ v.aeoi \in BOOLEAN /\ ~v.sfnm
    BY GuestAssumption DEF Icw4Values
  <2>1. intr' = intr /\ pics'[0] = IF c = 0 THEN q3 ELSE pics[0]
    BY <1>0, <1>6 DEF WriteIcw4
  <2>2. q1 \in PicState /\ Simple(q1) /\ q1.irr = pics[0].irr /\ q1.imr = pics[0].imr
        /\ q1.isr = pics[0].isr /\ q1.priority_add = pics[0].priority_add
    <3>1. pics[0] \in PicState
      BY <1>0
    <3>2. q1 \in PicState
      BY <2>0, <3>1 DEF PicState
    <3>3. Simple(q1)
      BY <1>0, <2>0, <3>1 DEF PicState, Simple
    <3> QED BY <3>1, <3>2, <3>3 DEF PicState
  <2> HIDE DEF q1
  <2>3. q2 \in PicState /\ Simple(q2) /\ q2.irr = q1.irr /\ q2.imr = q1.imr
        /\ q2.isr = q1.isr /\ q2.priority_add = q1.priority_add
    <3>1. q2 \in PicState
      BY <2>0, <2>2 DEF PicState
    <3> QED BY <2>2, <3>1, SimpleKept DEF PicState
  <2> HIDE DEF q2
  <2>4. Simple(q3) /\ q3.irr = q2.irr /\ q3.imr = q2.imr
        /\ q3.isr = q2.isr /\ q3.priority_add = q2.priority_add
    BY <2>3, SimpleKept DEF PicState
  <2> HIDE DEF q3
  <2> QED BY <1>0, <1>s, <2>1, <2>2, <2>3, <2>4
<1>7. ASSUME NEW c \in Pic, NEW m \in ImrValues, WriteOcw1(c, m)
      PROVE  IntrCoversRequest' /\ Plain'
  <2> DEFINE t == [pics[c] EXCEPT !.imr = m]
             q == [pics EXCEPT ![c] = t]
  <2>1. t \in PicState /\ (c = 0 => Simple(t))
    <3>1. t \in PicState
      BY <1>0, GuestAssumption DEF PicState
    <3>2. c = 0 => Simple(t)
      BY <1>0, SimpleKept
    <3> QED BY <3>1, <3>2
  <2>2. UpdateIrq(q, intr)
    BY <1>7 DEF WriteOcw1
  <2> HIDE DEF t
  <2>3. q \in [Pic -> PicState] /\ Simple(q[0])
    BY <1>0, <2>1
  <2> HIDE DEF q
  <2> QED BY <1>u, <2>2, <2>3
<1>e. ASSUME NEW c \in Pic, NEW i \in SUBSET Pins, NEW add \in Pins,
             UpdateIrq([pics EXCEPT ![c].isr = i, ![c].priority_add = add], intr)
      PROVE  IntrCoversRequest' /\ Plain'
  <2> DEFINE t1 == [pics[c] EXCEPT !.isr = i]
             t2 == [t1 EXCEPT !.priority_add = add]
             q  == [pics EXCEPT ![c] = t2]
  <2>1. t1 \in PicState /\ (c = 0 => Simple(t1))
    <3>1. t1 \in PicState
      BY <1>0 DEF PicState
    <3>2. c = 0 => Simple(t1)
      BY <1>0, SimpleKept
    <3> QED BY <3>1, <3>2
  <2>2. UpdateIrq(q, intr)
    <3>1. q = [pics EXCEPT ![c].isr = i, ![c].priority_add = add]
      BY <1>0 DEF PicState
    <3> QED BY <1>e, <3>1
  <2> HIDE DEF t1
  <2>3. t2 \in PicState /\ (c = 0 => Simple(t2))
    BY <2>1, SimpleKept DEF PicState
  <2> HIDE DEF t2
  <2>4. q \in [Pic -> PicState] /\ Simple(q[0])
    BY <1>0, <2>3
  <2> HIDE DEF q
  <2> QED BY <1>u, <2>2, <2>4
<1>8. ASSUME NEW c \in Pic, NEW cmd \in Ocw2, EndOfInterrupt(c, cmd)
      PROVE  IntrCoversRequest' /\ Plain'
  <2> DEFINE pri == GetPriority(pics[c], pics[c].isr)
             pin == (pri + pics[c].priority_add) % N
             i   == pics[c].isr \ {pin}
             add == IF cmd = 5 THEN (pin + 1) % N ELSE pics[c].priority_add
             q   == [pics EXCEPT ![c].isr = i, ![c].priority_add = add]
  <2>1. CASE pri = N
    <3>1. pics' = pics /\ intr' = intr
      BY <1>8, <2>1 DEF EndOfInterrupt
    <3> QED BY <1>0, <1>s, <3>1
  <2>2. CASE pri # N
    <3>1. UpdateIrq(q, intr)
      BY <1>0, <1>8, <2>2 DEF EndOfInterrupt
    <3>2. /\ pics[c].priority_add \in Pins
          /\ pics[c].isr \in SUBSET Pins
      BY <1>0 DEF PicState
    <3>3. add \in Pins
      <4>2. PICK k \in pics[c].isr : pri = Rank(pics[c], k)
        BY <2>2, <3>2, PriorityIsLeastRank
      <4>3. pin \in Pins
        BY <3>2, <4>2, RankPins
      <4> HIDE DEF pin
      <4>4. (pin + 1) % N \in Pins
        BY <4>3, PinAssumption, SMT DEF Pins
      <4> QED BY <3>2, <4>4
    <3>4. i \in SUBSET Pins
      BY <3>2
    <3> HIDE DEF add, i
    <3> QED BY <1>e, <3>1, <3>3, <3>4
  <2> QED BY <2>1, <2>2
<1>9. ASSUME NEW c \in Pic, NEW cmd \in Ocw2, NEW pin \in Pins, SpecificEoi(c, cmd, pin)
      PROVE  IntrCoversRequest' /\ Plain'
  <2> DEFINE i   == IF cmd = 6 THEN pics[c].isr ELSE pics[c].isr \ {pin}
             add == IF cmd = 3 THEN pics[c].priority_add ELSE (pin + 1) % N
             q   == [pics EXCEPT ![c].isr = i, ![c].priority_add = add]
  <2>1. UpdateIrq(q, intr)
    BY <1>0, <1>9 DEF SpecificEoi
  <2>2. add \in Pins /\ i \in SUBSET Pins
    <3>1. (pin + 1) % N \in Pins
      BY PinAssumption, SMT DEF Pins
    <3> QED BY <1>0, <3>1 DEF PicState
  <2> HIDE DEF add, i
  <2> QED BY <1>e, <2>1, <2>2
<1>10. ASSUME NEW c \in Pic, NEW cmd \in Ocw2, RotateOnAutoEoi(c, cmd)
       PROVE  IntrCoversRequest' /\ Plain'
  BY <1>0, <1>10, <1>s DEF RotateOnAutoEoi, PicState, Simple
<1>11. ASSUME NEW c \in Pic, NEW v \in Ocw3, WriteOcw3(c, v)
       PROVE  IntrCoversRequest' /\ Plain'
  <2> DEFINE sp == IF v.special = "none" THEN pics[c].special_mask ELSE v.special = "on"
             q1 == [pics EXCEPT ![c].poll = @ \/ v.poll]
             q2 == [q1 EXCEPT ![c].read_isr = IF v.select = "none" THEN @ ELSE v.select = "isr"]
             q3 == [q2 EXCEPT ![c].special_mask = sp]
  <2>1. pics' = q3 /\ intr' = intr
    BY <1>0, <1>11 DEF WriteOcw3
  <2>2. CASE c = 1
    <3>1. pics'[0] = pics[0]
      BY <1>0, <2>1, <2>2
    <3> QED BY <1>0, <1>s, <2>1, <3>1
  <2>3. CASE c = 0
    <3>1. ~sp
      BY <1>0, <2>3 DEF Simple, PicState
    <3> HIDE DEF sp
    <3> QED BY <1>0, <1>s, <2>1, <2>3, <3>1 DEF PicState, Simple
  <2> QED BY <2>2, <2>3 DEF Pic
<1>12. ASSUME NEW c \in Pic, PollRead(c)
       PROVE  IntrCoversRequest' /\ Plain'
  <2> DEFINE ret     == GetIrq(pics, c)
             cleared == [pics EXCEPT ![c].irr = @ \ {ret}, ![c].isr = @ \ {ret}]
             taken   == IF c = 1 THEN [cleared EXCEPT ![0].isr = @ \ {CASCADE},
                                                      ![0].irr = @ \ {CASCADE}]
                                 ELSE cleared
             done(ps) == [ps EXCEPT ![c].poll = FALSE]
  <2>1. \/ UpdateIrq(done(pics), intr)
        \/ UpdateIrq(done(taken), intr)
        \/ c = 0 /\ ret # None /\ pics' = done(taken) /\ intr' = intr
    <3>1. c = 1 \/ c = 0
      BY DEF Pic
    <3> HIDE DEF ret, taken, done
    <3> QED BY <1>12, <3>1, Zenon DEF PollRead, ret, cleared, taken, done
  <2>2. ASSUME NEW ps \in [Pic -> PicState], NEW d \in Pic, NEW x, Simple(ps[0])
        PROVE  /\ [ps EXCEPT ![d].irr = @ \ {x}] \in [Pic -> PicState]
               /\ Simple([ps EXCEPT ![d].irr = @ \ {x}][0])
               /\ [ps EXCEPT ![d].isr = @ \ {x}] \in [Pic -> PicState]
               /\ Simple([ps EXCEPT ![d].isr = @ \ {x}][0])
    <3> DEFINE t1 == [ps[d] EXCEPT !.irr = @ \ {x}]
               t2 == [ps[d] EXCEPT !.isr = @ \ {x}]
    <3>1. t1 \in PicState /\ t2 \in PicState
      BY <2>2 DEF PicState
    <3>2. d = 0 => Simple(t1) /\ Simple(t2)
      BY <2>2, SimpleKept
    <3> HIDE DEF t1, t2
    <3>3. /\ [ps EXCEPT ![d] = t1] \in [Pic -> PicState]
          /\ Simple([ps EXCEPT ![d] = t1][0])
          /\ [ps EXCEPT ![d] = t2] \in [Pic -> PicState]
          /\ Simple([ps EXCEPT ![d] = t2][0])
      BY <1>0, <2>2, <3>1, <3>2
    <3> QED BY <3>3 DEF t1, t2
  <2>3. cleared \in [Pic -> PicState] /\ Simple(cleared[0])
    <3> DEFINE q1 == [pics EXCEPT ![c].irr = @ \ {ret}]
               q2 == [q1 EXCEPT ![c].isr = @ \ {ret}]
    <3> HIDE DEF ret
    <3>1. cleared = q2
      BY <1>0
    <3>2. q1 \in [Pic -> PicState] /\ Simple(q1[0])
      BY <1>0, <2>2
    <3> HIDE DEF q1
    <3> QED BY <2>2, <3>1, <3>2
  <2>4. taken \in [Pic -> PicState] /\ Simple(taken[0])
    <3> DEFINE q1 == [cleared EXCEPT ![0].isr = @ \ {CASCADE}]
               q2 == [q1 EXCEPT ![0].irr = @ \ {CASCADE}]
    <3> HIDE DEF cleared
    <3>1. taken = cleared \/ taken = q2
      BY <1>0, <2>3
    <3>2. q1 \in [Pic -> PicState] /\ Simple(q1[0])
      BY <1>0, <2>2, <2>3
    <3> HIDE DEF q1
    <3>3. q2 \in [Pic -> PicState] /\ Simple(q2[0])
      BY <1>0, <2>2, <3>2
    <3> HIDE DEF q2, taken
    <3> QED BY <2>3, <3>1, <3>3
  <2>5. ASSUME NEW ps \in [Pic -> PicState], Simple(ps[0])
        PROVE  done(ps) \in [Pic -> PicState] /\ Simple(done(ps)[0])
    <3> DEFINE t == [ps[c] EXCEPT !.poll = FALSE]
    <3>1. t \in PicState
      BY <2>5 DEF PicState
    <3>2. c = 0 => Simple(t)
      BY <2>5, SimpleKept
    <3> HIDE DEF t
    <3>3. [ps EXCEPT ![c] = t] \in [Pic -> PicState] /\ Simple([ps EXCEPT ![c] = t][0])
      BY <1>0, <2>5, <3>1, <3>2
    <3> QED BY <3>3 DEF t
  <2>6. c = 0 /\ ret # None => intr
    BY DEF IntrCoversRequest
  <2> HIDE DEF ret, taken, done
  <2>7. CASE UpdateIrq(done(pics), intr)
    BY <1>0, <1>u, <2>5, <2>7
  <2>8. CASE UpdateIrq(done(taken), intr)
    BY <1>0, <1>u, <2>4, <2>5, <2>8
  <2>9. CASE c = 0 /\ ret # None /\ pics' = done(taken) /\ intr' = intr
    BY <2>4, <2>5, <2>6, <2>9 DEF IntrCoversRequest, Plain
  <2> QED BY <2>1, <2>7, <2>8, <2>9
<1> QED BY <1>1, <1>2, <1>3, <1>4, <1>5, <1>6, <1>7, <1>8, <1>9, <1>10, <1>11, <1>12
        DEF Next, Device, Guest

(* "must be called every time the active irq may change" (i8259.c:110-111): a  *)
(* guest that never turns special mask mode or special fully nested mode on    *)
(* has the CPU told of every request the master wants served, at every moment. *)
(* The two modes have to be excluded: their writes skip pic_update_irq.        *)
THEOREM IntrAlwaysCovers ==
    ASSUME \A v \in Ocw3 : v.special # "on", \A v \in Icw4 : ~v.sfnm
    PROVE  Spec => []IntrCoversRequest
<1> DEFINE IInv == TypeOK /\ IntrCoversRequest /\ Plain
<1>1. Init => IInv
  <2> SUFFICES ASSUME Init PROVE IInv
    OBVIOUS
  <2>0. TypeOK
    BY ResetType DEF Init, TypeOK
  <2>1. pics \in [Pic -> PicState] /\ 0 \in Pic
    BY <2>0 DEF TypeOK, Pic
  <2>2. pics[0].irr = {} /\ Plain
    BY <2>1 DEF Init, PicReset, Plain, Simple
  <2>3. GetIrq(pics, 0) = None
    <3>1. \A k \in Pins : ~Selected(pics, 0, k)
      BY <2>2 DEF Selected
    <3> QED BY <2>1, <3>1, Arbitration
  <2> QED BY <2>0, <2>2, <2>3 DEF IntrCoversRequest
<1>2. IInv /\ [Next]_vars => IInv'
  <2>1. ASSUME IInv, Next PROVE IInv'
    BY <2>1, NextType, CoversStep
  <2>2. ASSUME IInv, UNCHANGED vars PROVE IInv'
    BY <2>2 DEF vars, TypeOK, IntrCoversRequest, Plain
  <2> QED BY <2>1, <2>2
<1>3. IInv => IntrCoversRequest
  OBVIOUS
<1> QED BY <1>1, <1>2, <1>3, PTL DEF Spec

-----------------------------------------------------------------------------
(* What a step may do to the registers. *)

(* Every register but irr and last_irr. *)
Alike(s, t) ==
    /\ t.imr = s.imr
    /\ t.isr = s.isr
    /\ t.priority_add = s.priority_add
    /\ t.poll = s.poll
    /\ t.special_mask = s.special_mask
    /\ t.sfnm = s.sfnm
    /\ t.rotate_on_auto_eoi = s.rotate_on_auto_eoi
    /\ t.init_state = s.init_state

(* A line moves no other register and withdraws no request. *)
LEMMA SetIrq1Keeps ==
    ASSUME NEW s \in PicState, NEW pin \in Pins, NEW level \in BOOLEAN
    PROVE  /\ SetIrq1(s, pin, level) \in PicState
           /\ Alike(s, SetIrq1(s, pin, level))
           /\ s.irr \subseteq SetIrq1(s, pin, level).irr
<1>1. CASE level
  BY <1>1 DEF SetIrq1, PicState, Alike
<1>2. CASE ~level
  BY <1>2 DEF SetIrq1, PicState, Alike
<1> QED BY <1>1, <1>2

(* pic_update_irq only adds a request of the cascade. *)
LEMMA UpdateKeeps ==
    ASSUME NEW ps \in [Pic -> PicState], NEW latch \in BOOLEAN, UpdateIrq(ps, latch)
    PROVE  /\ pics'[1] = ps[1]
           /\ \A p \in Pic : Alike(ps[p], pics'[p]) /\ ps[p].irr \subseteq pics'[p].irr
<1> DEFINE s1 == SetIrq1(ps[0], CASCADE, TRUE)
           s2 == SetIrq1(s1, CASCADE, FALSE)
<1>0. ps[0] \in PicState /\ CASCADE \in Pins /\ 0 \in Pic /\ 1 \in Pic
  BY PinAssumption DEF Pic
<1>1. s1 \in PicState /\ Alike(ps[0], s1) /\ ps[0].irr \subseteq s1.irr
  BY <1>0, SetIrq1Keeps
<1>2. Alike(s1, s2) /\ s1.irr \subseteq s2.irr
  <2> HIDE DEF s1
  <2> QED BY <1>0, <1>1, SetIrq1Keeps
<1>3. Alike(ps[0], s2) /\ ps[0].irr \subseteq s2.irr
  <2> HIDE DEF s1, s2
  <2> QED BY <1>1, <1>2 DEF Alike
<1>4. pics' = ps \/ pics' = [ps EXCEPT ![0] = s2]
  BY DEF UpdateIrq, Cascaded
<1>5. \A s : Alike(s, s)
  BY DEF Alike
<1> HIDE DEF s1, s2
<1>6. CASE pics' = ps
  BY <1>5, <1>6
<1>7. CASE pics' = [ps EXCEPT ![0] = s2]
  <2>1. pics'[0] = s2 /\ pics'[1] = ps[1]
    BY <1>0, <1>7
  <2> QED BY <1>3, <1>5, <2>1 DEF Pic
<1> QED BY <1>4, <1>6, <1>7

(* i8259_read_irq acknowledges the selected pin of the master and, through    *)
(* the cascade, that of the slave; or it changes nothing.                     *)
LEMMA ReadIrqEffect ==
    ASSUME NEW ps \in [Pic -> PicState]
    PROVE  \/ ReadIrq(ps).pics = ps
           \/ /\ ReadIrq(ps).vec # None
              /\ \E k \in Pins : Selected(ps, 0, k) /\ ReadIrq(ps).pics[0] = Intack(ps[0], k)
              /\ \/ ReadIrq(ps).pics[1] = ps[1]
                 \/ \E k \in Pins : Selected(ps, 1, k) /\ ReadIrq(ps).pics[1] = Intack(ps[1], k)
<1> DEFINE irq    == GetIrq(ps, 0)
           master == [ps EXCEPT ![0] = Intack(@, irq)]
           irq2   == GetIrq(master, 1)
           both   == [master EXCEPT ![1] = Intack(@, irq2)]
<1>0. 0 \in Pic /\ 1 \in Pic /\ CASCADE \in Pins /\ None \notin Pins
  BY PinAssumption DEF Pic, Pins, None
<1>1. /\ irq \in Pins \cup {None}
      /\ \A k \in Pins : irq = k <=> Selected(ps, 0, k)
  BY <1>0, Arbitration
<1>2. CASE irq = None
  BY <1>0, <1>2 DEF ReadIrq
<1>3. CASE irq # None
  <2>0. irq \in Pins /\ Selected(ps, 0, irq)
    BY <1>1, <1>3
  <2>1. Intack(ps[0], irq) \in PicState
    <3> HIDE DEF irq
    <3> QED BY <1>0, <2>0, IntackType
  <2>2. master \in [Pic -> PicState] /\ master[0] = Intack(ps[0], irq) /\ master[1] = ps[1]
    <3> HIDE DEF irq
    <3> QED BY <1>0, <2>1
  <2>3. irq2 = GetIrq(ps, 1)
    <3> HIDE DEF master
    <3> QED BY <1>0, <2>2, SlaveChoice
  <2>4. /\ irq2 \in Pins \cup {None}
        /\ \A k \in Pins : irq2 = k <=> Selected(ps, 1, k)
    <3> HIDE DEF irq2
    <3> QED BY <1>0, <2>3, Arbitration
  <2>5. both[0] = Intack(ps[0], irq) /\ both[1] = Intack(ps[1], irq2)
    <3> HIDE DEF irq2, master, irq
    <3> QED BY <1>0, <2>2
  <2>6. \/ ReadIrq(ps).pics = master
        \/ irq2 # None /\ ReadIrq(ps).pics = both
    BY <1>3 DEF ReadIrq
  <2>7. ps[0].irq_base \in Nat /\ ps[1].irq_base \in Nat
    BY <1>0 DEF PicState
  <2>8. ReadIrq(ps).vec # None
    <3>1. \/ ReadIrq(ps).vec = ps[0].irq_base + irq
          \/ irq2 # None /\ ReadIrq(ps).vec = ps[1].irq_base + irq2
          \/ ReadIrq(ps).vec = ps[1].irq_base + (N - 1)
      BY <1>3 DEF ReadIrq
    <3> HIDE DEF irq, irq2
    <3> QED BY <2>0, <2>4, <2>7, <3>1, PinAssumption DEF Pins, None
  <2> HIDE DEF irq, irq2, master, both
  <2> QED BY <2>0, <2>2, <2>4, <2>5, <2>6, <2>8
<1> QED BY <1>2, <1>3

(* An acknowledge takes the request of its pin and no other. *)
LEMMA IntackKeeps ==
    ASSUME NEW s \in PicState, NEW k \in Pins
    PROVE  /\ Intack(s, k).irr = s.irr \ {k}
           /\ Intack(s, k).isr \in {s.isr, s.isr \cup {k}}
           /\ Intack(s, k).poll = s.poll
           /\ Intack(s, k).last_irr = s.last_irr
           /\ Intack(s, k).init_state = s.init_state
           /\ Intack(s, k).special_mask = s.special_mask
           /\ Intack(s, k).sfnm = s.sfnm
           /\ Intack(s, k).rotate_on_auto_eoi = s.rotate_on_auto_eoi
           /\ ~s.rotate_on_auto_eoi => Intack(s, k).priority_add = s.priority_add
BY DEF Intack, PicState

(* A non-specific end of interrupt retires the pin of least rank in service. *)
LEMMA EndOfInterruptEffect ==
    ASSUME NEW c \in Pic, NEW cmd, EndOfInterrupt(c, cmd), pics \in [Pic -> PicState]
    PROVE  /\ pics[c].isr = {} => pics' = pics /\ intr' = intr
           /\ pics[c].isr # {} =>
                \E k \in pics[c].isr :
                   /\ \A j \in pics[c].isr : Rank(pics[c], k) <= Rank(pics[c], j)
                   /\ UpdateIrq([pics EXCEPT ![c].isr = pics[c].isr \ {k},
                        ![c].priority_add = IF cmd = 5 THEN (k + 1) % N
                                                       ELSE pics[c].priority_add], intr)
<1> DEFINE pri == GetPriority(pics[c], pics[c].isr)
           pin == (pri + pics[c].priority_add) % N
           q   == [pics EXCEPT ![c].isr = @ \ {pin},
                               ![c].priority_add = IF cmd = 5 THEN (pin + 1) % N ELSE @]
<1>1. pics[c].priority_add \in Pins /\ pics[c].isr \in SUBSET Pins
  BY DEF PicState
<1>2. /\ pics[c].isr = {} <=> pri = N
      /\ pics[c].isr # {} => \E k \in pics[c].isr : pri = Rank(pics[c], k)
      /\ \A k \in pics[c].isr : pri <= Rank(pics[c], k)
  BY <1>1, PriorityIsLeastRank
<1>3. CASE pics[c].isr = {}
  <2>1. pri = N
    BY <1>2, <1>3
  <2>2. UNCHANGED <<pics, intr>>
    BY <2>1 DEF EndOfInterrupt
  <2> QED BY <1>3, <2>2
<1>4. CASE pics[c].isr # {}
  <2>1. PICK k \in pics[c].isr : pri = Rank(pics[c], k)
    BY <1>2, <1>4
  <2>2. pin = k
    BY <1>1, <2>1, RankPins
  <2>3. UpdateIrq(q, intr)
    BY <1>2, <1>4 DEF EndOfInterrupt
  <2> HIDE DEF pri, pin
  <2>4. UpdateIrq([pics EXCEPT ![c].isr = pics[c].isr \ {k},
                    ![c].priority_add = IF cmd = 5 THEN (k + 1) % N
                                                   ELSE pics[c].priority_add], intr)
    BY <2>2, <2>3 DEF PicState
  <2> QED BY <1>2, <1>4, <2>1, <2>4
<1> QED BY <1>3, <1>4

(* A poll takes the selected request of its controller and, on the slave, that *)
(* of the cascade; nothing enters the in-service registers.                   *)
LEMMA PollReadEffect ==
    ASSUME NEW c \in Pic, PollRead(c), pics \in [Pic -> PicState], intr \in BOOLEAN
    PROVE  /\ pics[c].poll /\ ~pics'[c].poll
           /\ pics[c].irr \ pics'[c].irr \subseteq {GetIrq(pics, c)}
           /\ \A p \in Pic \ {c} :
                \/ pics[p].irr \ pics'[p].irr = {}
                \/ p = 0 /\ c = 1 /\ pics[p].irr \ pics'[p].irr \subseteq {CASCADE}
           /\ \A p \in Pic :
                /\ pics'[p].isr \subseteq pics[p].isr
                /\ pics'[p].special_mask = pics[p].special_mask
                /\ pics'[p].sfnm = pics[p].sfnm
                /\ pics'[p].rotate_on_auto_eoi = pics[p].rotate_on_auto_eoi
                /\ pics'[p].priority_add = pics[p].priority_add
<1> DEFINE ret == GetIrq(pics, c)
<1>1. PICK x \in {ret, None}, y \in {CASCADE, None}, q \in [Pic -> PicState] :
        /\ c = 0 => y = None
        /\ x = None => y = None
        /\ q[c].poll = FALSE
        /\ q[c].irr = pics[c].irr \ {x}
        /\ \A p \in Pic \ {c} : q[p].irr = pics[p].irr \ {y}
        /\ \A p \in Pic :
                /\ q[p].isr \subseteq pics[p].isr
                /\ q[p].special_mask = pics[p].special_mask
                /\ q[p].sfnm = pics[p].sfnm
                /\ q[p].rotate_on_auto_eoi = pics[p].rotate_on_auto_eoi
                /\ q[p].priority_add = pics[p].priority_add
        /\ UpdateIrq(q, intr) \/ pics' = q
  <2> DEFINE cleared == [pics EXCEPT ![c].irr = @ \ {ret}, ![c].isr = @ \ {ret}]
             taken   == IF c = 1 THEN [cleared EXCEPT ![0].isr = @ \ {CASCADE},
                                                      ![0].irr = @ \ {CASCADE}]
                                 ELSE cleared
             done(ps) == [ps EXCEPT ![c].poll = FALSE]
             Less(ps, d, x) == [ps EXCEPT ![d].irr = @ \ {x}, ![d].isr = @ \ {x}]
  <2>0. 0 \in Pic /\ (c = 0 \/ c = 1)
    BY DEF Pic
  <2>1. \/ UpdateIrq(done(pics), intr)
        \/ ret # None /\ UpdateIrq(done(taken), intr)
        \/ ret # None /\ pics' = done(taken)
    BY <2>0 DEF PollRead
  <2>2. ASSUME NEW ps \in [Pic -> PicState], NEW d \in Pic, NEW x
        PROVE  /\ Less(ps, d, x) \in [Pic -> PicState]
               /\ \A p \in Pic \ {d} : Less(ps, d, x)[p] = ps[p]
               /\ Less(ps, d, x)[d].irr = ps[d].irr \ {x}
               /\ Less(ps, d, x)[d].isr \subseteq ps[d].isr
               /\ Less(ps, d, x)[d].special_mask = ps[d].special_mask
               /\ Less(ps, d, x)[d].sfnm = ps[d].sfnm
               /\ Less(ps, d, x)[d].rotate_on_auto_eoi = ps[d].rotate_on_auto_eoi
               /\ Less(ps, d, x)[d].priority_add = ps[d].priority_add
    <3> DEFINE t1 == [ps[d] EXCEPT !.irr = @ \ {x}]
               t2 == [t1 EXCEPT !.isr = @ \ {x}]
    <3>1. t1 \in PicState /\ t1.irr = ps[d].irr \ {x} /\ t1.isr = ps[d].isr
          /\ t1.special_mask = ps[d].special_mask /\ t1.sfnm = ps[d].sfnm
          /\ t1.rotate_on_auto_eoi = ps[d].rotate_on_auto_eoi
          /\ t1.priority_add = ps[d].priority_add
      BY DEF PicState
    <3>2. t2 \in PicState /\ t2.irr = t1.irr /\ t2.isr = t1.isr \ {x}
          /\ t2.special_mask = t1.special_mask /\ t2.sfnm = t1.sfnm
          /\ t2.rotate_on_auto_eoi = t1.rotate_on_auto_eoi
          /\ t2.priority_add = t1.priority_add
      <4> HIDE DEF t1
      <4> QED BY <3>1 DEF PicState
    <3>3. Less(ps, d, x) = [ps EXCEPT ![d] = t2]
      OBVIOUS
    <3> HIDE DEF t1, t2, Less
    <3>4. /\ Less(ps, d, x) \in [Pic -> PicState]
          /\ \A p \in Pic \ {d} : Less(ps, d, x)[p] = ps[p]
          /\ Less(ps, d, x)[d] = t2
      BY <3>2, <3>3
    <3> QED BY <3>1, <3>2, <3>4
  <2>3. ASSUME NEW ps \in [Pic -> PicState]
        PROVE  /\ done(ps) \in [Pic -> PicState]
               /\ done(ps)[c].poll = FALSE
               /\ \A p \in Pic :
                    /\ done(ps)[p].irr = ps[p].irr
                    /\ done(ps)[p].isr = ps[p].isr
                    /\ done(ps)[p].special_mask = ps[p].special_mask
                    /\ done(ps)[p].sfnm = ps[p].sfnm
                    /\ done(ps)[p].rotate_on_auto_eoi = ps[p].rotate_on_auto_eoi
                    /\ done(ps)[p].priority_add = ps[p].priority_add
    <3> DEFINE t == [ps[c] EXCEPT !.poll = FALSE]
    <3>1. t \in PicState /\ t.poll = FALSE /\ t.irr = ps[c].irr /\ t.isr = ps[c].isr
          /\ t.special_mask = ps[c].special_mask /\ t.sfnm = ps[c].sfnm
          /\ t.rotate_on_auto_eoi = ps[c].rotate_on_auto_eoi
          /\ t.priority_add = ps[c].priority_add
      BY DEF PicState
    <3>2. done(ps) = [ps EXCEPT ![c] = t]
      OBVIOUS
    <3> HIDE DEF t, done
    <3>3. /\ done(ps) \in [Pic -> PicState]
          /\ \A p \in Pic \ {c} : done(ps)[p] = ps[p]
          /\ done(ps)[c] = t
      BY <3>1, <3>2
    <3> QED BY <3>1, <3>3
  <2>4. cleared = Less(pics, c, ret) /\ cleared \in [Pic -> PicState]
    <3>1. cleared = Less(pics, c, ret)
      OBVIOUS
    <3> HIDE DEF cleared, Less, ret
    <3> QED BY <2>2, <3>1
  <2>5. taken = IF c = 1 THEN Less(cleared, 0, CASCADE) ELSE cleared
    <3> HIDE DEF cleared
    <3>1. CASE c = 1
      <4> DEFINE q1 == [cleared EXCEPT ![0].isr = @ \ {CASCADE}]
                 q2 == [cleared EXCEPT ![0].irr = @ \ {CASCADE}]
      <4>1. [q1 EXCEPT ![0].irr = @ \ {CASCADE}] = [q2 EXCEPT ![0].isr = @ \ {CASCADE}]
        <5> DEFINE s  == cleared[0]
                   t1 == [s EXCEPT !.isr = @ \ {CASCADE}, !.irr = @ \ {CASCADE}]
                   t2 == [s EXCEPT !.irr = @ \ {CASCADE}, !.isr = @ \ {CASCADE}]
        <5>1. s \in PicState
          BY <2>0, <2>4
        <5>2. /\ [q1 EXCEPT ![0].irr = @ \ {CASCADE}] = [cleared EXCEPT ![0] = t1]
              /\ [q2 EXCEPT ![0].isr = @ \ {CASCADE}] = [cleared EXCEPT ![0] = t2]
          <6> DEFINE u1 == [s EXCEPT !.isr = @ \ {CASCADE}]
                     u2 == [s EXCEPT !.irr = @ \ {CASCADE}]
          <6>1. q1 = [cleared EXCEPT ![0] = u1] /\ q2 = [cleared EXCEPT ![0] = u2]
            OBVIOUS
          <6>2. t1 = [u1 EXCEPT !.irr = @ \ {CASCADE}] /\ t2 = [u2 EXCEPT !.isr = @ \ {CASCADE}]
            OBVIOUS
          <6> HIDE DEF q1, q2, u1, u2, t1, t2, s
          <6>3. q1[0] = u1 /\ q2[0] = u2
            BY <2>0, <2>4, <6>1
          <6>4. /\ [q1 EXCEPT ![0].irr = @ \ {CASCADE}] = [q1 EXCEPT ![0] = t1]
                /\ [q2 EXCEPT ![0].isr = @ \ {CASCADE}] = [q2 EXCEPT ![0] = t2]
            BY <6>2, <6>3
          <6> QED BY <2>0, <2>4, <6>1, <6>4
        <5>3. t1 = t2
          <6> HIDE DEF s
          <6> QED BY <5>1 DEF PicState
        <5> QED BY <5>2, <5>3
      <4> QED BY <3>1, <4>1
    <3> QED BY <3>1
  <2> HIDE DEF cleared, taken, done, Less
  <2>6. CASE UpdateIrq(done(pics), intr)
    <3>1. None \notin pics[c].irr
      BY DEF PicState, Pins, None
    <3> HIDE DEF ret
    <3>2. /\ done(pics)[c].irr = pics[c].irr \ {None}
          /\ \A p \in Pic \ {c} : done(pics)[p].irr = pics[p].irr \ {None}
      <4>1. \A p \in Pic : None \notin pics[p].irr
        BY DEF PicState, Pins, None
      <4> QED BY <2>3, <4>1
    <3> done(pics) \in [Pic -> PicState]
      BY <2>3
    <3> WITNESS None \in {ret, None}, None \in {CASCADE, None}, done(pics) \in [Pic -> PicState]
    <3> QED BY <2>3, <2>6, <3>2
  <2>7. CASE ret # None /\ (UpdateIrq(done(taken), intr) \/ pics' = done(taken))
    <3> DEFINE y == IF c = 1 THEN CASCADE ELSE None
    <3>1. \A p \in Pic : None \notin pics[p].irr
      BY DEF PicState, Pins, None
    <3> HIDE DEF ret
    <3>2. /\ cleared[c].irr = pics[c].irr \ {ret}
          /\ \A p \in Pic \ {c} : cleared[p] = pics[p]
          /\ \A p \in Pic :
                /\ cleared[p].isr \subseteq pics[p].isr
                /\ cleared[p].special_mask = pics[p].special_mask
                /\ cleared[p].sfnm = pics[p].sfnm
                /\ cleared[p].rotate_on_auto_eoi = pics[p].rotate_on_auto_eoi
                /\ cleared[p].priority_add = pics[p].priority_add
      BY <2>2, <2>4
    <3>3. /\ taken \in [Pic -> PicState]
          /\ taken[c] = cleared[c]
          /\ \A p \in Pic \ {c} : taken[p].irr = cleared[p].irr \ {y}
          /\ \A p \in Pic :
                /\ taken[p].isr \subseteq cleared[p].isr
                /\ taken[p].special_mask = cleared[p].special_mask
                /\ taken[p].sfnm = cleared[p].sfnm
                /\ taken[p].rotate_on_auto_eoi = cleared[p].rotate_on_auto_eoi
                /\ taken[p].priority_add = cleared[p].priority_add
      <4>1. CASE c = 1
        <5>1. taken = Less(cleared, 0, CASCADE) /\ y = CASCADE
          BY <2>5, <4>1
        <5>2. \A p \in Pic \ {c} : p = 0
          BY <4>1 DEF Pic
        <5> QED BY <2>0, <2>2, <2>4, <4>1, <5>1, <5>2
      <4>2. CASE c = 0
        <5>1. taken = cleared /\ y = None
          BY <2>5, <4>2
        <5> QED BY <2>4, <3>1, <3>2, <5>1
      <4> QED BY <2>0, <4>1, <4>2
    <3>4. y \in {CASCADE, None} /\ (c = 0 => y = None)
      OBVIOUS
    <3> HIDE DEF y
    <3> y \in {CASCADE, None} /\ done(taken) \in [Pic -> PicState]
      BY <2>3, <3>3, <3>4
    <3>6. /\ done(taken)[c].poll = FALSE
          /\ done(taken)[c].irr = pics[c].irr \ {ret}
      <4>1. taken \in [Pic -> PicState] /\ taken[c] = cleared[c]
        BY <3>3
      <4>2. done(taken)[c].poll = FALSE /\ done(taken)[c].irr = taken[c].irr
        BY <2>3, <4>1
      <4>3. cleared[c].irr = pics[c].irr \ {ret}
        BY <3>2
      <4> QED BY <4>1, <4>2, <4>3
    <3>5. ASSUME NEW p \in Pic \ {c}
          PROVE  done(taken)[p].irr = pics[p].irr \ {y}
      <4>1. cleared[p] = pics[p]
        BY <3>2
      <4>2. taken[p].irr = cleared[p].irr \ {y}
        BY <3>3
      <4>3. done(taken)[p].irr = taken[p].irr
        BY <2>3, <3>3
      <4> QED BY <4>1, <4>2, <4>3
    <3>7. ASSUME NEW p \in Pic
          PROVE  /\ done(taken)[p].isr \subseteq pics[p].isr
                 /\ done(taken)[p].special_mask = pics[p].special_mask
                 /\ done(taken)[p].sfnm = pics[p].sfnm
                 /\ done(taken)[p].rotate_on_auto_eoi = pics[p].rotate_on_auto_eoi
                 /\ done(taken)[p].priority_add = pics[p].priority_add
      <4> HIDE DEF done, taken, cleared
      <4>1. /\ done(taken)[p].isr = taken[p].isr
            /\ done(taken)[p].special_mask = taken[p].special_mask
            /\ done(taken)[p].sfnm = taken[p].sfnm
            /\ done(taken)[p].rotate_on_auto_eoi = taken[p].rotate_on_auto_eoi
            /\ done(taken)[p].priority_add = taken[p].priority_add
        BY <2>3, <3>3, <3>7
      <4>2. /\ taken[p].isr \subseteq pics[p].isr
            /\ taken[p].special_mask = pics[p].special_mask
            /\ taken[p].sfnm = pics[p].sfnm
            /\ taken[p].rotate_on_auto_eoi = pics[p].rotate_on_auto_eoi
            /\ taken[p].priority_add = pics[p].priority_add
        <5>1. taken[p].isr \subseteq cleared[p].isr /\ cleared[p].isr \subseteq pics[p].isr
          BY <3>2, <3>3, <3>7, Zenon
        <5> QED BY <3>2, <3>3, <3>7, <5>1, Zenon
      <4> QED BY <4>1, <4>2, Zenon
    <3> WITNESS ret \in {ret, None}, y \in {CASCADE, None}, done(taken) \in [Pic -> PicState]
    <3> QED BY <2>7, <3>4, <3>5, <3>6, <3>7
  <2> QED BY <2>1, <2>6, <2>7
<1>2. \A p \in Pic : Alike(q[p], pics'[p]) /\ q[p].irr \subseteq pics'[p].irr
  <2>1. CASE UpdateIrq(q, intr)
    BY <2>1, UpdateKeeps
  <2>2. CASE pics' = q
    BY <2>2 DEF Alike
  <2> QED BY <1>1, <2>1, <2>2
<1>3. pics[c].poll
  BY DEF PollRead
<1>4. ASSUME NEW p \in Pic \ {c} 
      PROVE  \/ pics[p].irr \ pics'[p].irr = {}
             \/ p = 0 /\ c = 1 /\ pics[p].irr \ pics'[p].irr \subseteq {CASCADE}
  <2>1. pics[p].irr \subseteq Pins /\ None \notin Pins
    BY DEF PicState, Pins, None
  <2>2. q[p].irr = pics[p].irr \ {y} /\ q[p].irr \subseteq pics'[p].irr
    BY <1>1, <1>2
  <2>3. c = 0 \/ (c = 1 /\ p = 0)
    BY DEF Pic
  <2> QED BY <1>1, <2>1, <2>2, <2>3
<1>5. pics[c].irr \ pics'[c].irr \subseteq {GetIrq(pics, c)}
  <2>1. pics[c].irr \subseteq Pins /\ None \notin Pins
    BY DEF PicState, Pins, None
  <2>2. q[c].irr = pics[c].irr \ {x} /\ q[c].irr \subseteq pics'[c].irr
    BY <1>1, <1>2
  <2> QED BY <1>1, <2>1, <2>2
<1> QED BY <1>1, <1>2, <1>3, <1>4, <1>5 DEF Alike

(* A latched request is lost only to a delivery, a poll or ICW1, for any      *)
(* number of pins, any lines and any guest.                                   *)
THEOREM RequestsAreKept == Spec => RequestKept
<1> DEFINE Kept(p) == \A k \in pics[p].irr \ pics'[p].irr :
         \/ Selected(pics, p, k) /\ vec' # None
         \/ Selected(pics, p, k) /\ pics[p].poll /\ ~pics'[p].poll
         \/ p = 0 /\ k = CASCADE /\ pics[1].poll /\ ~pics'[1].poll
         \/ pics'[p].init_state = 1
<1>k. ASSUME NEW p \in Pic, pics[p].irr \subseteq pics'[p].irr PROVE Kept(p)
  BY <1>k
<1>1. ASSUME TypeOK, Next PROVE \A p \in Pic : Kept(p)
  <2>0. /\ pics \in [Pic -> PicState]
        /\ pics' \in [Pic -> PicState]
        /\ intr \in BOOLEAN
        /\ 0 \in Pic /\ 1 \in Pic
    BY <1>1, NextType DEF TypeOK, Pic
  <2>u. ASSUME NEW ps \in [Pic -> PicState], UpdateIrq(ps, intr),
               \A p \in Pic : ps[p].irr = pics[p].irr \/ pics[p].irr \subseteq ps[p].irr
        PROVE  \A p \in Pic : Kept(p)
    <3>1. \A p \in Pic : pics[p].irr \subseteq pics'[p].irr
      BY <2>0, <2>u, UpdateKeeps
    <3> QED BY <3>1
  <2>1. ASSUME NEW line \in Lines, NEW level \in BOOLEAN, SetIrq(line, level)
        PROVE  \A p \in Pic : Kept(p)
    <3> DEFINE c  == line \div N
               s1 == SetIrq1(pics[c], line % N, level)
               q  == [pics EXCEPT ![c] = s1]
    <3>1. c \in Pic /\ line % N \in Pins
      <4>1. line \in 0 .. 2 * N - 1
        BY LineAssumption
      <4> QED BY <4>1, PinAssumption, SMT DEF Pic, Pins
    <3>2. UpdateIrq(q, intr)
      BY <2>1 DEF SetIrq
    <3> HIDE DEF c
    <3>3. s1 \in PicState /\ pics[c].irr \subseteq s1.irr
      BY <2>0, <3>1, SetIrq1Keeps
    <3> HIDE DEF s1
    <3>4. q \in [Pic -> PicState] /\ \A p \in Pic : pics[p].irr \subseteq q[p].irr
      BY <2>0, <3>1, <3>3
    <3> HIDE DEF q, Kept
    <3> QED BY <2>u, <3>2, <3>4
  <2>2. CASE Accept
    <3>1. PICK r \in {ReadIrq(pics)} : UpdateIrq(r.pics, FALSE) /\ vec' = r.vec
      BY <2>2 DEF Accept
    <3>2. r.pics \in [Pic -> PicState] /\ r = ReadIrq(pics)
      BY <2>0, ReadIrqType
    <3>3. \A p \in Pic : r.pics[p].irr \subseteq pics'[p].irr
      BY <3>1, <3>2, UpdateKeeps
    <3>4. \A p \in Pic : \A k \in Pins : Intack(pics[p], k).irr = pics[p].irr \ {k}
      <4> TAKE p \in Pic
      <4>1. pics[p] \in PicState
        BY <2>0
      <4> QED BY <4>1, IntackKeeps
    <3>5. CASE r.pics = pics
      BY <3>3, <3>5
    <3>6. CASE /\ r.vec # None
               /\ \E k \in Pins : Selected(pics, 0, k) /\ r.pics[0] = Intack(pics[0], k)
               /\ \/ r.pics[1] = pics[1]
                  \/ \E k \in Pins : Selected(pics, 1, k) /\ r.pics[1] = Intack(pics[1], k)
      <4>1. \A k \in pics[0].irr \ pics'[0].irr : Selected(pics, 0, k) /\ vec' # None
        <5>1. PICK k \in Pins : Selected(pics, 0, k) /\ r.pics[0] = Intack(pics[0], k)
          BY <3>6
        <5>2. pics[0].irr \ {k} \subseteq pics'[0].irr
          BY <2>0, <3>3, <3>4, <5>1
        <5> QED BY <3>1, <3>6, <5>1, <5>2
      <4>2. \A k \in pics[1].irr \ pics'[1].irr : Selected(pics, 1, k) /\ vec' # None
        <5>1. CASE r.pics[1] = pics[1]
          BY <2>0, <3>3, <5>1
        <5>2. CASE \E k \in Pins : Selected(pics, 1, k) /\ r.pics[1] = Intack(pics[1], k)
          <6>1. PICK k \in Pins : Selected(pics, 1, k) /\ r.pics[1] = Intack(pics[1], k)
            BY <5>2
          <6>2. pics[1].irr \ {k} \subseteq pics'[1].irr
            BY <2>0, <3>3, <3>4, <6>1
          <6> QED BY <3>1, <3>6, <6>1, <6>2
        <5> QED BY <3>6, <5>1, <5>2
      <4>3. Kept(0) /\ Kept(1)
        BY <4>1, <4>2
      <4> HIDE DEF Kept
      <4> QED BY <4>3 DEF Pic
    <3> QED BY <2>0, <3>2, <3>5, <3>6, ReadIrqEffect
  <2>3. ASSUME NEW c \in Pic, NEW v \in Icw1, WriteIcw1(c, v) PROVE \A p \in Pic : Kept(p)
    <3>1. pics'[c].init_state = 1
      BY <2>0, <2>3 DEF WriteIcw1, PicReset
    <3>2. \A p \in Pic : p # c => pics'[p] = pics[p]
      BY <2>0, <2>3 DEF WriteIcw1
    <3> QED BY <3>1, <3>2
  <2>4. ASSUME NEW c \in Pic, NEW b \in Bases, WriteIcw2(c, b) PROVE \A p \in Pic : Kept(p)
    BY <2>0, <2>4 DEF WriteIcw2, PicState
  <2>5. ASSUME NEW c \in Pic, WriteIcw3(c) PROVE \A p \in Pic : Kept(p)
    BY <2>0, <2>5 DEF WriteIcw3, PicState
  <2>6. ASSUME NEW c \in Pic, NEW v \in Icw4, WriteIcw4(c, v) PROVE \A p \in Pic : Kept(p)
    BY <2>0, <2>6 DEF WriteIcw4, PicState
  <2>7. ASSUME NEW c \in Pic, NEW m \in ImrValues, WriteOcw1(c, m) PROVE \A p \in Pic : Kept(p)
    <3> DEFINE q == [pics EXCEPT ![c].imr = m]
    <3>1. UpdateIrq(q, intr)
      BY <2>7 DEF WriteOcw1
    <3>2. q \in [Pic -> PicState] /\ \A p \in Pic : q[p].irr = pics[p].irr
      BY <2>0, GuestAssumption DEF PicState
    <3> HIDE DEF q, Kept
    <3> QED BY <2>u, <3>1, <3>2
  <2>e. ASSUME NEW c \in Pic, NEW i \in SUBSET Pins, NEW add \in Pins,
               UpdateIrq([pics EXCEPT ![c].isr = i, ![c].priority_add = add], intr)
        PROVE  \A p \in Pic : Kept(p)
    <3> DEFINE q1 == [pics EXCEPT ![c].isr = i]
               q2 == [q1 EXCEPT ![c].priority_add = add]
    <3>1. UpdateIrq(q2, intr)
      BY <2>e
    <3>2. q1 \in [Pic -> PicState] /\ \A p \in Pic : q1[p].irr = pics[p].irr
      BY <2>0 DEF PicState
    <3> HIDE DEF q1
    <3>3. q2 \in [Pic -> PicState] /\ \A p \in Pic : q2[p].irr = q1[p].irr
      BY <3>2 DEF PicState
    <3> HIDE DEF q2, Kept
    <3> QED BY <2>u, <3>1, <3>2, <3>3
  <2>8. ASSUME NEW c \in Pic, NEW cmd \in Ocw2, EndOfInterrupt(c, cmd)
        PROVE  \A p \in Pic : Kept(p)
    <3> HIDE DEF Kept
    <3>1. \/ pics' = pics
          \/ \E k \in Pins : UpdateIrq([pics EXCEPT ![c].isr = pics[c].isr \ {k},
                ![c].priority_add = IF cmd = 5 THEN (k + 1) % N ELSE pics[c].priority_add], intr)
      <4>1. pics[c].isr \subseteq Pins
        BY <2>0 DEF PicState
      <4>2. CASE pics[c].isr = {}
        BY <2>0, <2>8, <4>2, EndOfInterruptEffect
      <4>3. CASE pics[c].isr # {}
        <5>1. PICK k \in pics[c].isr : UpdateIrq([pics EXCEPT ![c].isr = pics[c].isr \ {k},
                ![c].priority_add = IF cmd = 5 THEN (k + 1) % N ELSE pics[c].priority_add], intr)
          BY <2>0, <2>8, <4>3, EndOfInterruptEffect
        <5> QED BY <4>1, <5>1
      <4> QED BY <4>2, <4>3
    <3>2. CASE pics' = pics
      BY <3>2 DEF Kept
    <3>3. CASE \E k \in Pins : UpdateIrq([pics EXCEPT ![c].isr = pics[c].isr \ {k},
                ![c].priority_add = IF cmd = 5 THEN (k + 1) % N ELSE pics[c].priority_add], intr)
      <4>1. PICK k \in Pins : UpdateIrq([pics EXCEPT ![c].isr = pics[c].isr \ {k},
                ![c].priority_add = IF cmd = 5 THEN (k + 1) % N ELSE pics[c].priority_add], intr)
        BY <3>3
      <4> DEFINE i   == pics[c].isr \ {k}
                 add == IF cmd = 5 THEN (k + 1) % N ELSE pics[c].priority_add
      <4>2. add \in Pins /\ i \in SUBSET Pins
        <5>1. (k + 1) % N \in Pins
          BY PinAssumption, SMT DEF Pins
        <5> QED BY <2>0, <5>1 DEF PicState
      <4>3. UpdateIrq([pics EXCEPT ![c].isr = i, ![c].priority_add = add], intr)
        BY <4>1
      <4> HIDE DEF i, add
      <4> QED BY <2>e, <4>2, <4>3
    <3> QED BY <3>1, <3>2, <3>3
  <2>9. ASSUME NEW c \in Pic, NEW cmd \in Ocw2, NEW pin \in Pins, SpecificEoi(c, cmd, pin)
        PROVE  \A p \in Pic : Kept(p)
    <3> DEFINE i   == IF cmd = 6 THEN pics[c].isr ELSE pics[c].isr \ {pin}
               add == IF cmd = 3 THEN pics[c].priority_add ELSE (pin + 1) % N
               q   == [pics EXCEPT ![c].isr = i, ![c].priority_add = add]
    <3>1. UpdateIrq(q, intr)
      BY <2>0, <2>9 DEF SpecificEoi
    <3>2. add \in Pins /\ i \in SUBSET Pins
      <4>1. (pin + 1) % N \in Pins
        BY PinAssumption, SMT DEF Pins
      <4> QED BY <2>0, <4>1 DEF PicState
    <3> HIDE DEF add, i, Kept
    <3> QED BY <2>e, <3>1, <3>2
  <2>10. ASSUME NEW c \in Pic, NEW cmd \in Ocw2, RotateOnAutoEoi(c, cmd)
         PROVE  \A p \in Pic : Kept(p)
    BY <2>0, <2>10 DEF RotateOnAutoEoi, PicState
  <2>11. ASSUME NEW c \in Pic, NEW v \in Ocw3, WriteOcw3(c, v) PROVE \A p \in Pic : Kept(p)
    BY <2>0, <2>11 DEF WriteOcw3, PicState
  <2>12. ASSUME NEW c \in Pic, PollRead(c) PROVE \A p \in Pic : Kept(p)
    <3> DEFINE gone(p) == pics[p].irr \ pics'[p].irr
    <3>1. /\ pics[c].poll /\ ~pics'[c].poll
          /\ gone(c) \subseteq {GetIrq(pics, c)}
          /\ \A p \in Pic \ {c} : gone(p) = {} \/ (p = 0 /\ c = 1 /\ gone(p) \subseteq {CASCADE})
      <4> HIDE DEF Kept
      <4> QED BY <2>0, <2>12, PollReadEffect
    <3>2. Kept(c)
      <4>1. ASSUME NEW k \in pics[c].irr \ pics'[c].irr PROVE Selected(pics, c, k)
        <5>1. k = GetIrq(pics, c) /\ k \in Pins
          BY <2>0, <3>1, <4>1 DEF PicState
        <5> QED BY <2>0, <5>1, Arbitration
      <4> QED BY <3>1, <4>1
    <3>3. ASSUME NEW p \in Pic \ {c} PROVE Kept(p)
      BY <3>1, <3>3
    <3> HIDE DEF Kept
    <3> QED BY <3>2, <3>3
  <2> HIDE DEF Kept
  <2> QED BY <1>1, <2>1, <2>2, <2>3, <2>4, <2>5, <2>6, <2>7, <2>8, <2>9, <2>10, <2>11, <2>12
          DEF Next, Device, Guest
<1>2. TypeOK /\ [Next]_vars => [\A p \in Pic : Kept(p)]_vars
  BY <1>1
<1> QED BY <1>2, TypeCorrect, PTL DEF Spec, RequestKept

-----------------------------------------------------------------------------
(* Nesting. *)

(* The guest uses neither the special modes nor rotation: the ends of         *)
(* interrupt it writes are the non-specific and the specific one.             *)
PlainGuest ==
    /\ Ocw2 \subseteq {0, 1, 3}
    /\ \A v \in Ocw3 : v.special # "on"
    /\ \A v \in Icw4 : ~v.sfnm

(* Pin 0 has the highest priority and everything in service holds back.       *)
Fixed(s) == Simple(s) /\ ~s.rotate_on_auto_eoi /\ s.priority_add = 0

(* What may enter the in-service register of controller p: the selected pin.  *)
Grows(p, isr) ==
    \/ isr \subseteq pics[p].isr
    \/ \E k \in Pins : Selected(pics, p, k) /\ isr \subseteq pics[p].isr \cup {k}

(* Controller p after such a step. *)
Orderly(p) == Fixed(pics'[p]) /\ Grows(p, pics'[p].isr)

(* Under such a guest a step keeps the fixed priorities and puts at most the  *)
(* selected pin of each controller in service.                                *)
LEMMA NestStep ==
    ASSUME TypeOK, Next, PlainGuest, \A p \in Pic : Fixed(pics[p])
    PROVE  \A p \in Pic : Orderly(p)
<1>0. /\ pics \in [Pic -> PicState]
      /\ pics' \in [Pic -> PicState]
      /\ intr \in BOOLEAN
      /\ 0 \in Pic /\ 1 \in Pic
      /\ Ocw2 \subseteq {0, 1, 3}
      /\ \A v \in Ocw3 : v.special # "on"
      /\ \A v \in Icw4 : ~v.sfnm
  BY NextType DEF TypeOK, Pic, PlainGuest
<1>g. \A p \in Pic, s \in PicState : s.isr = pics[p].isr => Grows(p, s.isr)
  BY DEF Grows
<1>u. ASSUME NEW ps \in [Pic -> PicState], NEW latch \in BOOLEAN, UpdateIrq(ps, latch),
             \A p \in Pic : Fixed(ps[p]) /\ Grows(p, ps[p].isr)
      PROVE  \A p \in Pic : Orderly(p)
  <2>1. \A p \in Pic : Alike(ps[p], pics'[p])
    BY <1>u, UpdateKeeps
  <2> TAKE p \in Pic
  <2>2. Alike(ps[p], pics'[p]) /\ Fixed(ps[p]) /\ Grows(p, ps[p].isr)
    BY <1>u, <2>1
  <2> QED BY <2>2 DEF Alike, Fixed, Simple, Orderly
<1>s. ASSUME NEW c \in Pic, NEW s \in PicState, Fixed(s), Grows(c, s.isr)
      PROVE  LET q == [pics EXCEPT ![c] = s]
             IN  /\ q \in [Pic -> PicState]
                 /\ \A p \in Pic : Fixed(q[p]) /\ Grows(p, q[p].isr)
  BY <1>0, <1>s, <1>g
<1>1. ASSUME NEW line \in Lines, NEW level \in BOOLEAN, SetIrq(line, level)
      PROVE  \A p \in Pic : Orderly(p)
  <2> DEFINE c  == line \div N
             s1 == SetIrq1(pics[c], line % N, level)
             q  == [pics EXCEPT ![c] = s1]
  <2>1. c \in Pic /\ line % N \in Pins
    <3>1. line \in 0 .. 2 * N - 1
      BY LineAssumption
    <3> QED BY <3>1, PinAssumption, SMT DEF Pic, Pins
  <2>2. UpdateIrq(q, intr)
    BY <1>1 DEF SetIrq
  <2> HIDE DEF c
  <2>3. s1 \in PicState /\ Alike(pics[c], s1)
    BY <1>0, <2>1, SetIrq1Keeps
  <2> HIDE DEF s1
  <2>4. Fixed(s1) /\ Grows(c, s1.isr)
    BY <1>g, <2>1, <2>3 DEF Alike, Fixed, Simple
  <2>9. q \in [Pic -> PicState] /\ \A p \in Pic : Fixed(q[p]) /\ Grows(p, q[p].isr)
    BY <1>s, <2>1, <2>3, <2>4
  <2> HIDE DEF q
  <2> QED BY <1>0, <1>u, <2>9, <2>2
<1>2. CASE Accept
  <2>1. PICK r \in {ReadIrq(pics)} : UpdateIrq(r.pics, FALSE)
    BY <1>2 DEF Accept
  <2>2. r.pics \in [Pic -> PicState] /\ r = ReadIrq(pics)
    BY <1>0, ReadIrqType
  <2>3. ASSUME NEW p \in Pic, NEW k \in Pins, Selected(pics, p, k)
        PROVE  Fixed(Intack(pics[p], k)) /\ Grows(p, Intack(pics[p], k).isr)
    <3>1. pics[p] \in PicState /\ Fixed(pics[p])
      BY <1>0
    <3>2. Fixed(Intack(pics[p], k))
      BY <3>1, IntackKeeps DEF Fixed, Simple
    <3>3. Intack(pics[p], k).isr \subseteq pics[p].isr \cup {k}
      BY <3>1, IntackKeeps
    <3> QED BY <2>3, <3>2, <3>3 DEF Grows
  <2>4. \A p \in Pic : Fixed(pics[p]) /\ Grows(p, pics[p].isr)
    BY <1>0, <1>g
  <2>5. \A p \in Pic : Fixed(r.pics[p]) /\ Grows(p, r.pics[p].isr)
    <3>1. CASE r.pics = pics
      BY <2>4, <3>1
    <3>2. CASE /\ \E k \in Pins : Selected(pics, 0, k) /\ r.pics[0] = Intack(pics[0], k)
               /\ \/ r.pics[1] = pics[1]
                  \/ \E k \in Pins : Selected(pics, 1, k) /\ r.pics[1] = Intack(pics[1], k)
      <4>1. Fixed(r.pics[0]) /\ Grows(0, r.pics[0].isr)
        BY <1>0, <2>3, <3>2
      <4>2. Fixed(r.pics[1]) /\ Grows(1, r.pics[1].isr)
        BY <1>0, <2>3, <2>4, <3>2
      <4> QED BY <4>1, <4>2 DEF Pic
    <3> QED BY <1>0, <2>2, <3>1, <3>2, ReadIrqEffect
  <2> QED BY <1>u, <2>1, <2>2, <2>5
<1>3. ASSUME NEW c \in Pic, NEW v \in Icw1, WriteIcw1(c, v) PROVE \A p \in Pic : Orderly(p)
  <2>1. pics'[c].isr = {} /\ Fixed(pics'[c])
    BY <1>0, <1>3 DEF WriteIcw1, PicReset, Fixed, Simple, Orderly
  <2>2. \A p \in Pic : p # c => pics'[p] = pics[p]
    BY <1>0, <1>3 DEF WriteIcw1
  <2> QED BY <1>0, <1>g, <2>1, <2>2 DEF Grows, Orderly
<1>4. ASSUME NEW c \in Pic, NEW b \in Bases, WriteIcw2(c, b) PROVE \A p \in Pic : Orderly(p)
  BY <1>0, <1>4, <1>g DEF WriteIcw2, PicState, Fixed, Simple, Orderly
<1>5. ASSUME NEW c \in Pic, WriteIcw3(c) PROVE \A p \in Pic : Orderly(p)
  BY <1>0, <1>5, <1>g DEF WriteIcw3, PicState, Fixed, Simple, Orderly
<1>6. ASSUME NEW c \in Pic, NEW v \in Icw4, WriteIcw4(c, v) PROVE \A p \in Pic : Orderly(p)
  <2>1. ~v.sfnm /\ v \in Icw4Values
    BY <1>0, GuestAssumption
  <2> QED BY <1>0, <1>6, <1>g, <2>1 DEF WriteIcw4, Icw4Values, PicState, Fixed, Simple, Orderly
<1>7. ASSUME NEW c \in Pic, NEW m \in ImrValues, WriteOcw1(c, m) PROVE \A p \in Pic : Orderly(p)
  <2> DEFINE s == [pics[c] EXCEPT !.imr = m]
             q == [pics EXCEPT ![c] = s]
  <2>1. s \in PicState /\ Fixed(s) /\ Grows(c, s.isr)
    BY <1>0, <1>g, GuestAssumption DEF PicState, Fixed, Simple
  <2>2. UpdateIrq(q, intr)
    BY <1>7 DEF WriteOcw1
  <2> HIDE DEF s
  <2>9. q \in [Pic -> PicState] /\ \A p \in Pic : Fixed(q[p]) /\ Grows(p, q[p].isr)
    BY <1>s, <2>1
  <2> HIDE DEF q
  <2> QED BY <1>0, <1>u, <2>9, <2>2
<1>e. ASSUME NEW c \in Pic, NEW k \in Pins,
             UpdateIrq([pics EXCEPT ![c].isr = @ \ {k}, ![c].priority_add = pics[c].priority_add],
                       intr)
      PROVE  \A p \in Pic : Orderly(p)
  <2> DEFINE t == [pics[c] EXCEPT !.isr = @ \ {k}]
             s == [t EXCEPT !.priority_add = pics[c].priority_add]
             q == [pics EXCEPT ![c] = s]
  <2>1. t \in PicState /\ Fixed(t) /\ t.isr = pics[c].isr \ {k}
        /\ t.priority_add = pics[c].priority_add
    BY <1>0 DEF PicState, Fixed, Simple
  <2>2. q = [pics EXCEPT ![c].isr = @ \ {k}, ![c].priority_add = pics[c].priority_add]
    OBVIOUS
  <2> HIDE DEF t
  <2>3. s = t
    BY <2>1 DEF PicState
  <2>4. Grows(c, t.isr)
    BY <2>1 DEF Grows
  <2>5. UpdateIrq(q, intr)
    BY <1>e, <2>2
  <2> HIDE DEF s
  <2>9. q \in [Pic -> PicState] /\ \A p \in Pic : Fixed(q[p]) /\ Grows(p, q[p].isr)
    BY <1>s, <2>1, <2>3, <2>4
  <2> HIDE DEF q
  <2> QED BY <1>0, <1>u, <2>9, <2>5
<1>8. ASSUME NEW c \in Pic, NEW cmd \in Ocw2, EndOfInterrupt(c, cmd)
      PROVE  \A p \in Pic : Orderly(p)
  <2>1. CASE pics[c].isr = {}
    <3>1. pics' = pics
      BY <1>0, <1>8, <2>1, EndOfInterruptEffect
    <3> QED BY <1>0, <1>g, <3>1 DEF Orderly
  <2>2. CASE pics[c].isr # {}
    <3>1. PICK k \in pics[c].isr : UpdateIrq([pics EXCEPT ![c].isr = pics[c].isr \ {k},
                ![c].priority_add = IF cmd = 5 THEN (k + 1) % N ELSE pics[c].priority_add], intr)
      BY <1>0, <1>8, <2>2, EndOfInterruptEffect
    <3>2. cmd # 5 /\ k \in Pins
      BY <1>0 DEF PicState
    <3> QED BY <1>e, <3>1, <3>2
  <2> QED BY <2>1, <2>2
<1>9. ASSUME NEW c \in Pic, NEW cmd \in Ocw2, NEW pin \in Pins, SpecificEoi(c, cmd, pin)
      PROVE  \A p \in Pic : Orderly(p)
  <2>1. cmd = 3
    BY <1>0, <1>9 DEF SpecificEoi
  <2>2. UpdateIrq([pics EXCEPT ![c].isr = @ \ {pin}, ![c].priority_add = pics[c].priority_add],
                  intr)
    BY <1>0, <1>9, <2>1 DEF SpecificEoi
  <2> QED BY <1>e, <2>2
<1>10. ASSUME NEW c \in Pic, NEW cmd \in Ocw2, RotateOnAutoEoi(c, cmd)
       PROVE  \A p \in Pic : Orderly(p)
  <2>1. cmd # 4
    BY <1>0
  <2> QED BY <1>0, <1>10, <1>g, <2>1 DEF RotateOnAutoEoi, PicState, Fixed, Simple, Orderly
<1>11. ASSUME NEW c \in Pic, NEW v \in Ocw3, WriteOcw3(c, v) PROVE \A p \in Pic : Orderly(p)
  <2> DEFINE sp == IF v.special = "none" THEN pics[c].special_mask ELSE v.special = "on"
             q1 == [pics EXCEPT ![c].poll = @ \/ v.poll]
             q2 == [q1 EXCEPT ![c].read_isr = IF v.select = "none" THEN @ ELSE v.select = "isr"]
             q3 == [q2 EXCEPT ![c].special_mask = sp]
  <2>1. pics' = q3
    BY <1>0, <1>11 DEF WriteOcw3
  <2>2. ~sp
    BY <1>0 DEF Fixed, Simple, PicState
  <2> HIDE DEF sp
  <2> QED BY <1>0, <1>g, <2>1, <2>2 DEF PicState, Fixed, Simple, Orderly
<1>12. ASSUME NEW c \in Pic, PollRead(c) PROVE \A p \in Pic : Orderly(p)
  <2> TAKE p \in Pic
  <2>1. /\ pics'[p].isr \subseteq pics[p].isr
        /\ pics'[p].special_mask = pics[p].special_mask
        /\ pics'[p].sfnm = pics[p].sfnm
        /\ pics'[p].rotate_on_auto_eoi = pics[p].rotate_on_auto_eoi
        /\ pics'[p].priority_add = pics[p].priority_add
    BY <1>0, <1>12, PollReadEffect
  <2>2. Fixed(pics[p])
    OBVIOUS
  <2> QED BY <2>1, <2>2 DEF Fixed, Simple, Grows, Orderly
<1> QED
  BY <1>1, <1>2, <1>3, <1>4, <1>5, <1>6, <1>7, <1>8, <1>9, <1>10, <1>11, <1>12
     DEF Next, Device, Guest

(* Of any two pins in service one was accepted over the other, and the one    *)
(* accepted later has the higher priority.                                    *)
NestInv ==
    /\ TypeOK
    /\ \A c \in Pic : Fixed(pics[c])
    /\ DOMAIN nest = Pic
    /\ \A c \in Pic : nest[c] \subseteq pics[c].isr \X pics[c].isr
    /\ \A c \in Pic : \A j, k \in pics[c].isr :
         j = k \/ <<j, k>> \in nest[c] \/ <<k, j>> \in nest[c]
    /\ NestedByRank

LEMMA NestInvInit ==
    ASSUME NestInit
    PROVE  NestInv
<1>1. TypeOK
  BY ResetType DEF NestInit, Init, TypeOK
<1>2. \A c \in Pic : Fixed(pics[c]) /\ pics[c].isr = {}
  BY DEF NestInit, Init, PicReset, Fixed, Simple
<1> QED BY <1>1, <1>2 DEF NestInit, NestInv, NestedByRank

LEMMA NestInvStep ==
    ASSUME NestInv, NestNext, PlainGuest
    PROVE  NestInv'
<1>1. TypeOK' /\ TypeOK /\ Next
  BY NextType DEF NestInv, NestNext
<1>2. \A p \in Pic : Fixed(pics'[p]) /\ Grows(p, pics'[p].isr)
  BY <1>1, NestStep DEF NestInv, Orderly
<1>3. DOMAIN nest' = Pic /\ \A c \in Pic : nest'[c] = Renest(c)
  BY DEF NestNext
<1>4. ASSUME NEW c \in Pic
      PROVE  /\ nest'[c] \subseteq pics'[c].isr \X pics'[c].isr
             /\ \A j, k \in pics'[c].isr :
                   j = k \/ <<j, k>> \in nest'[c] \/ <<k, j>> \in nest'[c]
             /\ \A j, k \in Pins :
                   <<j, k>> \in nest'[c] => Rank(pics'[c], k) < Rank(pics'[c], j)
  <2> DEFINE old == pics[c].isr
             new == pics'[c].isr
  <2>0. /\ nest[c] \subseteq old \X old
        /\ \A j, k \in old : j = k \/ <<j, k>> \in nest[c] \/ <<k, j>> \in nest[c]
        /\ \A j, k \in Pins : <<j, k>> \in nest[c] => Rank(pics[c], k) < Rank(pics[c], j)
        /\ old \subseteq Pins /\ new \subseteq Pins
    BY <1>1 DEF NestInv, NestedByRank, TypeOK, PicState
  <2>1. nest'[c] = (nest[c] \cup (old \X (new \ old))) \cap (new \X new)
    BY <1>3 DEF Renest, Entered
  <2>2. \A k \in Pins : Rank(pics'[c], k) = Rank(pics[c], k)
    <3>1. pics'[c].priority_add = pics[c].priority_add
      BY <1>2 DEF NestInv, Fixed
    <3> QED BY <3>1 DEF Rank
  <2>3. PICK e \in Pins : new \subseteq old \cup {e} /\ (new \subseteq old \/ Selected(pics, c, e))
    <3>1. \E e \in Pins : TRUE
      BY PinAssumption
    <3> QED BY <1>2, <3>1 DEF Grows
  <2>4. Selected(pics, c, e) => \A j \in old : Rank(pics[c], e) < Rank(pics[c], j)
    <3>1. Holding(pics, c) = old
      BY DEF NestInv, Fixed, Simple, Holding
    <3> QED BY <3>1 DEF Selected
  <2> HIDE DEF old, new
  <2>5. nest'[c] \subseteq new \X new
    BY <2>1
  <2>6. ASSUME NEW j \in new, NEW k \in new
        PROVE  j = k \/ <<j, k>> \in nest'[c] \/ <<k, j>> \in nest'[c]
    BY <2>0, <2>1, <2>3
  <2>7. ASSUME NEW j \in Pins, NEW k \in Pins, <<j, k>> \in nest'[c]
        PROVE  Rank(pics'[c], k) < Rank(pics'[c], j)
    <3>1. <<j, k>> \in nest[c] \/ (j \in old /\ k \in new /\ k \notin old)
      BY <2>1, <2>7
    <3>2. CASE <<j, k>> \in nest[c]
      BY <2>0, <2>2, <3>2
    <3>3. CASE j \in old /\ k \in new /\ k \notin old
      BY <2>2, <2>3, <2>4, <3>3
    <3> QED BY <3>1, <3>2, <3>3
  <2> QED BY <2>5, <2>6, <2>7 DEF new
<1> QED BY <1>1, <1>2, <1>3, <1>4 DEF NestInv, NestedByRank

LEMMA NestInvHolds ==
    ASSUME PlainGuest
    PROVE  NestSpec => []NestInv
<1>1. NestInit => NestInv
  BY NestInvInit
<1>2. NestInv /\ [NestNext]_nvars => NestInv'
  <2>1. NestInv /\ NestNext => NestInv'
    BY NestInvStep
  <2>2. NestInv /\ UNCHANGED nvars => NestInv'
    BY DEF NestInv, nvars, vars, TypeOK, NestedByRank
  <2> QED BY <2>1, <2>2
<1> QED BY <1>1, <1>2, PTL DEF NestSpec

(* Under a guest that leaves the special modes and rotation alone, no handler *)
(* is entered over one of equal or higher priority, for any number of pins,   *)
(* any masks and any order of requests, polls and ends.                       *)
THEOREM HandlersNestByRank ==
    ASSUME PlainGuest
    PROVE  NestSpec => []NestedByRank
<1>1. NestInv => NestedByRank
  BY DEF NestInv
<1> QED BY <1>1, NestInvHolds, PTL

(* Such a guest may end an interrupt without naming it: the controller        *)
(* retires the one that was accepted last (i8259.c:272-282).                  *)
THEOREM EndsRetireLatest ==
    ASSUME PlainGuest
    PROVE  NestSpec => EndRetiresLatest
<1>1. ASSUME NestInv, NEW c \in Pic, NEW cmd \in Ocw2,
             EndOfInterrupt(c, cmd), pics[c].isr # {}
      PROVE  \E k \in Pins : Innermost(c, k) /\ pics'[c].isr = pics[c].isr \ {k}
  <2>0. /\ pics \in [Pic -> PicState]
        /\ pics[c].isr \subseteq Pins
        /\ pics[c].priority_add \in Pins
        /\ intr \in BOOLEAN
    BY <1>1 DEF NestInv, TypeOK, PicState
  <2>1. PICK k \in pics[c].isr :
          /\ \A j \in pics[c].isr : Rank(pics[c], k) <= Rank(pics[c], j)
          /\ UpdateIrq([pics EXCEPT ![c].isr = pics[c].isr \ {k},
               ![c].priority_add = IF cmd = 5 THEN (k + 1) % N
                                              ELSE pics[c].priority_add], intr)
    BY <1>1, <2>0, EndOfInterruptEffect
  <2>2. pics'[c].isr = pics[c].isr \ {k}
    <3> DEFINE add == IF cmd = 5 THEN (k + 1) % N ELSE pics[c].priority_add
               q1  == [pics EXCEPT ![c].isr = pics[c].isr \ {k}]
               q2  == [q1 EXCEPT ![c].priority_add = add]
    <3>1. add \in Pins
      <4>1. (k + 1) % N \in Pins
        BY <2>0, PinAssumption, SMT DEF Pins
      <4> QED BY <2>0, <4>1
    <3>2. UpdateIrq(q2, intr)
      BY <2>1
    <3> HIDE DEF add
    <3>3. q1 \in [Pic -> PicState] /\ q1[c].isr = pics[c].isr \ {k}
      BY <2>0 DEF PicState
    <3> HIDE DEF q1
    <3>4. q2 \in [Pic -> PicState] /\ q2[c].isr = q1[c].isr
      BY <3>1, <3>3 DEF PicState
    <3> HIDE DEF q2
    <3>5. Alike(q2[c], pics'[c])
      BY <2>0, <3>2, <3>4, UpdateKeeps
    <3> QED BY <3>3, <3>4, <3>5 DEF Alike
  <2>3. ASSUME NEW j \in pics[c].isr \ {k} PROVE <<j, k>> \in nest[c]
    <3>1. <<j, k>> \in nest[c] \/ <<k, j>> \in nest[c]
      BY <1>1 DEF NestInv
    <3>2. <<k, j>> \notin nest[c]
      <4>1. Rank(pics[c], k) \in Pins /\ Rank(pics[c], j) \in Pins
        BY <2>0, RankPins
      <4>2. <<k, j>> \in nest[c] => Rank(pics[c], j) < Rank(pics[c], k)
        BY <1>1, <2>0 DEF NestInv, NestedByRank
      <4> QED BY <2>1, <4>1, <4>2 DEF Pins
    <3> QED BY <3>1, <3>2
  <2> QED BY <2>0, <2>2, <2>3 DEF Innermost
<1>2. NestInv /\ [NestNext]_nvars =>
        [\A c \in Pic : \A cmd \in Ocw2 :
           EndOfInterrupt(c, cmd) /\ pics[c].isr # {} =>
             \E k \in Pins : Innermost(c, k) /\ pics'[c].isr = pics[c].isr \ {k}]_nvars
  BY <1>1
<1> QED BY <1>2, NestInvHolds, PTL DEF NestSpec, EndRetiresLatest

-----------------------------------------------------------------------------
(* The cascade. *)

(* Nothing rewrites the chips behind pic_update_irq: no ICW1, whose reset of  *)
(* the master forgets the pulse, no poll of the master, which takes the       *)
(* request of the cascade without one, and no special mask.                   *)
SettledGuest ==
    /\ Icw1 = {}
    /\ \A v \in Ocw3 : ~v.poll /\ v.special # "on"

Settled(s) == ~s.special_mask /\ ~s.poll /\ s.init_state = 0

CascadeInv ==
    /\ TypeOK
    /\ \A p \in Pic : Settled(pics[p])
    /\ CASCADE \notin pics[0].last_irr
    /\ SlaveCascaded

(* The pulse of pic_update_irq is an edge because no device sits on the       *)
(* cascade pin and the pulse ends low.                                        *)
LEMMA UpdateCascades ==
    ASSUME NEW ps \in [Pic -> PicState], NEW latch \in BOOLEAN, UpdateIrq(ps, latch),
           CASCADE \notin ps[0].last_irr
    PROVE  SlaveCascaded' /\ CASCADE \notin pics'[0].last_irr
<1> DEFINE s1 == SetIrq1(ps[0], CASCADE, TRUE)
           s2 == SetIrq1(s1, CASCADE, FALSE)
<1>0. ps[0] \in PicState /\ CASCADE \in Pins /\ 0 \in Pic /\ 1 \in Pic
  BY PinAssumption DEF Pic
<1>1. s1 \in PicState /\ CASCADE \in s1.irr
  BY <1>0 DEF SetIrq1, PicState
<1>2. CASCADE \in s2.irr /\ CASCADE \notin s2.last_irr
  <2> HIDE DEF s1
  <2> QED BY <1>0, <1>1 DEF SetIrq1, PicState
<1>3. pics' = IF GetIrq(ps, 1) = None THEN ps ELSE [ps EXCEPT ![0] = s2]
  BY DEF UpdateIrq, Cascaded
<1> HIDE DEF s1, s2
<1>4. GetIrq(pics', 1) = GetIrq(ps, 1)
  <2>1. pics' \in [Pic -> PicState] /\ pics'[1] = ps[1]
    BY UpdateType, UpdateKeeps
  <2> QED BY <2>1, SlaveChoice
<1>5. CASE GetIrq(ps, 1) = None
  BY <1>3, <1>4, <1>5 DEF SlaveCascaded
<1>6. CASE GetIrq(ps, 1) # None
  BY <1>0, <1>2, <1>3, <1>6 DEF SlaveCascaded
<1> QED BY <1>5, <1>6

(* The slave's choice depends on these registers of it only. *)
LEMMA SameSlaveChoice ==
    ASSUME NEW ps \in [Pic -> PicState], NEW qs \in [Pic -> PicState],
           qs[1].irr = ps[1].irr, qs[1].imr = ps[1].imr, qs[1].isr = ps[1].isr,
           qs[1].priority_add = ps[1].priority_add, qs[1].special_mask = ps[1].special_mask
    PROVE  GetIrq(qs, 1) = GetIrq(ps, 1)
BY DEF GetIrq, Holding, GetPriority

LEMMA CascadeInvStep ==
    ASSUME CascadeInv, Next, SettledGuest
    PROVE  CascadeInv'
<1>0. /\ pics \in [Pic -> PicState]
      /\ pics' \in [Pic -> PicState]
      /\ TypeOK'
      /\ intr \in BOOLEAN
      /\ 0 \in Pic /\ 1 \in Pic
      /\ \A p \in Pic : Settled(pics[p])
      /\ CASCADE \notin pics[0].last_irr
      /\ SlaveCascaded
      /\ Icw1 = {}
      /\ \A v \in Ocw3 : ~v.poll /\ v.special # "on"
  BY NextType DEF CascadeInv, TypeOK, Pic, SettledGuest
<1>u. ASSUME NEW ps \in [Pic -> PicState], NEW latch \in BOOLEAN, UpdateIrq(ps, latch),
             \A p \in Pic : Settled(ps[p]), CASCADE \notin ps[0].last_irr
      PROVE  CascadeInv'
  <2>1. \A p \in Pic : Alike(ps[p], pics'[p])
    BY <1>u, UpdateKeeps
  <2>2. ASSUME NEW p \in Pic PROVE Settled(pics'[p])
    BY <1>u, <2>1 DEF Alike, Settled
  <2>3. SlaveCascaded' /\ CASCADE \notin pics'[0].last_irr
    BY <1>u, UpdateCascades
  <2> QED BY <1>0, <2>2, <2>3 DEF CascadeInv
<1>c. ASSUME NEW c \in Pic, NEW s \in PicState, Settled(s),
             c = 0 => CASCADE \notin s.last_irr,
             UpdateIrq([pics EXCEPT ![c] = s], intr)
      PROVE  CascadeInv'
  <2> DEFINE q == [pics EXCEPT ![c] = s]
  <2>1. /\ q \in [Pic -> PicState]
        /\ \A p \in Pic : Settled(q[p])
        /\ CASCADE \notin q[0].last_irr
    BY <1>0, <1>c
  <2>2. UpdateIrq(q, intr)
    BY <1>c
  <2> HIDE DEF q
  <2> QED BY <1>0, <1>u, <2>1, <2>2
<1>s. ASSUME \A p \in Pic : Settled(pics'[p]),
             pics'[0].irr = pics[0].irr, pics'[0].last_irr = pics[0].last_irr,
             pics'[1].irr = pics[1].irr, pics'[1].imr = pics[1].imr,
             pics'[1].isr = pics[1].isr, pics'[1].priority_add = pics[1].priority_add
      PROVE  CascadeInv'
  <2>1. pics'[1].special_mask = pics[1].special_mask
    BY <1>0, <1>s DEF Settled, PicState
  <2>2. GetIrq(pics', 1) = GetIrq(pics, 1)
    BY <1>0, <1>s, <2>1, SameSlaveChoice
  <2> QED BY <1>0, <1>s, <2>2 DEF CascadeInv, SlaveCascaded
<1>1. ASSUME NEW line \in Lines, NEW level \in BOOLEAN, SetIrq(line, level)
      PROVE  CascadeInv'
  <2> DEFINE c  == line \div N
             s1 == SetIrq1(pics[c], line % N, level)
  <2>1. c \in Pic /\ line % N \in Pins /\ (c = 0 => line % N # CASCADE)
    <3>1. line \in 0 .. 2 * N - 1 /\ line # CASCADE
      BY LineAssumption
    <3>2. CASE line < N
      <4>0. line \in 0 .. N - 1 /\ N \in Nat /\ N > 0
        BY <3>1, <3>2, PinAssumption
      <4>1. line % N = line
        BY <4>0, SMT
      <4>2. line \div N = 0
        BY <4>0, SMT
      <4> QED BY <3>1, <4>0, <4>1, <4>2 DEF Pic, Pins
    <3>3. CASE ~(line < N)
      <4>1. line \div N = 1 /\ line % N = line - N
        BY <3>1, <3>3, PinAssumption, Z3
      <4> QED BY <3>1, <3>3, <4>1, PinAssumption DEF Pic, Pins
    <3> QED BY <3>2, <3>3
  <2>2. UpdateIrq([pics EXCEPT ![c] = s1], intr)
    BY <1>1 DEF SetIrq
  <2> HIDE DEF c
  <2>3. s1 \in PicState /\ Alike(pics[c], s1)
    BY <1>0, <2>1, SetIrq1Keeps
  <2>4. c = 0 => CASCADE \notin s1.last_irr
    <3>1. pics[c] \in PicState
      BY <1>0, <2>1
    <3>2. s1.last_irr \in {pics[c].last_irr \cup {line % N}, pics[c].last_irr \ {line % N}}
      BY <3>1 DEF SetIrq1, PicState
    <3> QED BY <1>0, <2>1, <3>2
  <2> HIDE DEF s1
  <2>5. Settled(s1)
    BY <1>0, <2>1, <2>3 DEF Alike, Settled
  <2> QED BY <1>c, <2>1, <2>2, <2>3, <2>4, <2>5
<1>2. CASE Accept
  <2>1. PICK r \in {ReadIrq(pics)} : UpdateIrq(r.pics, FALSE)
    BY <1>2 DEF Accept
  <2>2. r.pics \in [Pic -> PicState] /\ r = ReadIrq(pics)
    BY <1>0, ReadIrqType
  <2>3. ASSUME NEW p \in Pic, NEW k \in Pins
        PROVE  /\ Settled(Intack(pics[p], k))
               /\ Intack(pics[p], k).last_irr = pics[p].last_irr
    <3>1. pics[p] \in PicState /\ Settled(pics[p])
      BY <1>0
    <3> QED BY <3>1, IntackKeeps DEF Settled
  <2>4. /\ \A p \in Pic : Settled(r.pics[p])
        /\ r.pics[0].last_irr = pics[0].last_irr
    <3>1. CASE r.pics = pics
      BY <1>0, <3>1
    <3>2. CASE /\ \E k \in Pins : r.pics[0] = Intack(pics[0], k)
               /\ r.pics[1] = pics[1] \/ \E k \in Pins : r.pics[1] = Intack(pics[1], k)
      <4>1. Settled(r.pics[0]) /\ r.pics[0].last_irr = pics[0].last_irr
        BY <1>0, <2>3, <3>2
      <4>2. Settled(r.pics[1])
        BY <1>0, <2>3, <3>2
      <4> QED BY <4>1, <4>2 DEF Pic
    <3> QED BY <1>0, <2>2, <3>1, <3>2, ReadIrqEffect
  <2> QED BY <1>0, <1>u, <2>1, <2>2, <2>4
<1>3. ASSUME NEW c \in Pic, NEW v \in Icw1, WriteIcw1(c, v) PROVE CascadeInv'
  BY <1>0
<1>4. ASSUME NEW c \in Pic, NEW b \in Bases, WriteIcw2(c, b) PROVE CascadeInv'
  BY <1>0, <1>4 DEF WriteIcw2, Settled
<1>5. ASSUME NEW c \in Pic, WriteIcw3(c) PROVE CascadeInv'
  BY <1>0, <1>5 DEF WriteIcw3, Settled
<1>6. ASSUME NEW c \in Pic, NEW v \in Icw4, WriteIcw4(c, v) PROVE CascadeInv'
  BY <1>0, <1>6 DEF WriteIcw4, Settled
<1>7. ASSUME NEW c \in Pic, NEW m \in ImrValues, WriteOcw1(c, m) PROVE CascadeInv'
  <2> DEFINE s == [pics[c] EXCEPT !.imr = m]
  <2>1. s \in PicState /\ Settled(s) /\ s.last_irr = pics[c].last_irr
    BY <1>0, GuestAssumption DEF PicState, Settled
  <2>2. UpdateIrq([pics EXCEPT ![c] = s], intr)
    BY <1>7 DEF WriteOcw1
  <2> HIDE DEF s
  <2> QED BY <1>0, <1>c, <2>1, <2>2
<1>e. ASSUME NEW c \in Pic, NEW i \in SUBSET Pins, NEW add \in Pins,
             UpdateIrq([pics EXCEPT ![c].isr = i, ![c].priority_add = add], intr)
      PROVE  CascadeInv'
  <2> DEFINE t == [pics[c] EXCEPT !.isr = i]
             s == [t EXCEPT !.priority_add = add]
  <2>1. t \in PicState /\ Settled(t) /\ t.last_irr = pics[c].last_irr
    BY <1>0 DEF PicState, Settled
  <2>2. UpdateIrq([pics EXCEPT ![c] = s], intr)
    <3>1. [pics EXCEPT ![c] = s] = [pics EXCEPT ![c].isr = i, ![c].priority_add = add]
      OBVIOUS
    <3> QED BY <1>e, <3>1
  <2> HIDE DEF t
  <2>3. s \in PicState /\ Settled(s) /\ s.last_irr = t.last_irr
    BY <2>1 DEF PicState, Settled
  <2> HIDE DEF s
  <2> QED BY <1>0, <1>c, <2>1, <2>2, <2>3
<1>8. ASSUME NEW c \in Pic, NEW cmd \in Ocw2, EndOfInterrupt(c, cmd) PROVE CascadeInv'
  <2>1. CASE pics[c].isr = {}
    <3>1. pics' = pics
      BY <1>0, <1>8, <2>1, EndOfInterruptEffect
    <3> QED BY <1>0, <1>s, <3>1
  <2>2. CASE pics[c].isr # {}
    <3>1. PICK k \in pics[c].isr : UpdateIrq([pics EXCEPT ![c].isr = pics[c].isr \ {k},
                ![c].priority_add = IF cmd = 5 THEN (k + 1) % N ELSE pics[c].priority_add], intr)
      BY <1>0, <1>8, <2>2, EndOfInterruptEffect
    <3> DEFINE i   == pics[c].isr \ {k}
               add == IF cmd = 5 THEN (k + 1) % N ELSE pics[c].priority_add
    <3>2. add \in Pins /\ i \in SUBSET Pins
      <4>1. pics[c].isr \subseteq Pins /\ pics[c].priority_add \in Pins
        BY <1>0 DEF PicState
      <4>2. (k + 1) % N \in Pins
        BY <4>1, PinAssumption, SMT DEF Pins
      <4> QED BY <4>1, <4>2
    <3>3. UpdateIrq([pics EXCEPT ![c].isr = i, ![c].priority_add = add], intr)
      BY <3>1
    <3> HIDE DEF i, add
    <3> QED BY <1>e, <3>2, <3>3
  <2> QED BY <2>1, <2>2
<1>9. ASSUME NEW c \in Pic, NEW cmd \in Ocw2, NEW pin \in Pins, SpecificEoi(c, cmd, pin)
      PROVE  CascadeInv'
  <2> DEFINE i   == IF cmd = 6 THEN pics[c].isr ELSE pics[c].isr \ {pin}
             add == IF cmd = 3 THEN pics[c].priority_add ELSE (pin + 1) % N
             q   == [pics EXCEPT ![c].isr = i, ![c].priority_add = add]
  <2>1. UpdateIrq(q, intr)
    BY <1>0, <1>9 DEF SpecificEoi
  <2>2. add \in Pins /\ i \in SUBSET Pins
    <3>1. (pin + 1) % N \in Pins
      BY PinAssumption, SMT DEF Pins
    <3> QED BY <1>0, <3>1 DEF PicState
  <2> HIDE DEF add, i
  <2> QED BY <1>e, <2>1, <2>2
<1>10. ASSUME NEW c \in Pic, NEW cmd \in Ocw2, RotateOnAutoEoi(c, cmd) PROVE CascadeInv'
  <2>1. pics' = [pics EXCEPT ![c].rotate_on_auto_eoi = (cmd = 4)]
    BY <1>10 DEF RotateOnAutoEoi
  <2>2. \A p \in Pic : Settled(pics'[p])
    BY <1>0, <2>1 DEF PicState, Settled
  <2>3. /\ pics'[0].irr = pics[0].irr /\ pics'[0].last_irr = pics[0].last_irr
        /\ pics'[1].irr = pics[1].irr /\ pics'[1].imr = pics[1].imr
        /\ pics'[1].isr = pics[1].isr /\ pics'[1].priority_add = pics[1].priority_add
    BY <1>0, <2>1 DEF PicState
  <2> QED BY <1>s, <2>2, <2>3
<1>11. ASSUME NEW c \in Pic, NEW v \in Ocw3, WriteOcw3(c, v) PROVE CascadeInv'
  <2> DEFINE po == pics[c].poll \/ v.poll
             rd == IF v.select = "none" THEN pics[c].read_isr ELSE v.select = "isr"
             sp == IF v.special = "none" THEN pics[c].special_mask ELSE v.special = "on"
  <2>1. pics' = [pics EXCEPT ![c].poll = po, ![c].read_isr = rd, ![c].special_mask = sp]
    BY <1>0, <1>11 DEF WriteOcw3
  <2>2. ~sp /\ ~po
    BY <1>0 DEF Settled, PicState
  <2> HIDE DEF po, rd, sp
  <2>3. \A p \in Pic : Settled(pics'[p])
    BY <1>0, <2>1, <2>2 DEF PicState, Settled
  <2>4. /\ pics'[0].irr = pics[0].irr /\ pics'[0].last_irr = pics[0].last_irr
        /\ pics'[1].irr = pics[1].irr /\ pics'[1].imr = pics[1].imr
        /\ pics'[1].isr = pics[1].isr /\ pics'[1].priority_add = pics[1].priority_add
    BY <1>0, <2>1 DEF PicState
  <2> QED BY <1>s, <2>3, <2>4
<1>12. ASSUME NEW c \in Pic, PollRead(c) PROVE CascadeInv'
  BY <1>0, <1>12, PollReadEffect DEF Settled
<1> QED
  BY <1>1, <1>2, <1>3, <1>4, <1>5, <1>6, <1>7, <1>8, <1>9, <1>10, <1>11, <1>12
     DEF Next, Device, Guest

(* Once the guest has set the controllers up, no request of the slave is      *)
(* stranded behind the one being served and no handler is entered over one of *)
(* higher priority, for any number of pins, any wiring and any lines.         *)
THEOREM StaysInRank ==
    ASSUME PlainGuest, SettledGuest
    PROVE  NestSpec => []InRank
<1>1. NestInit => CascadeInv
  <2> SUFFICES ASSUME NestInit PROVE CascadeInv
    OBVIOUS
  <2>0. TypeOK
    BY ResetType DEF NestInit, Init, TypeOK
  <2>1. \A p \in Pic : /\ Settled(pics[p])
                       /\ pics[p].last_irr = {}
                       /\ pics[p].irr = {}
    BY DEF NestInit, Init, PicReset, Settled
  <2>2. GetIrq(pics, 1) = None
    <3>1. \A k \in Pins : ~Selected(pics, 1, k)
      BY <2>1 DEF Selected, Pic
    <3> QED BY <2>0, <3>1, Arbitration DEF TypeOK, Pic
  <2> QED BY <2>0, <2>1, <2>2 DEF CascadeInv, SlaveCascaded, Pic
<1>2. CascadeInv /\ [NestNext]_nvars => CascadeInv'
  <2>1. CascadeInv /\ NestNext => CascadeInv'
    BY CascadeInvStep DEF NestNext
  <2>2. CascadeInv /\ UNCHANGED nvars => CascadeInv'
    BY DEF CascadeInv, SlaveCascaded, nvars, vars, TypeOK
  <2> QED BY <2>1, <2>2
<1>3. CascadeInv /\ NestInv => InRank
  BY DEF CascadeInv, NestInv, InRank
<1> QED BY <1>1, <1>2, <1>3, NestInvHolds, PTL DEF NestSpec
=============================================================================
