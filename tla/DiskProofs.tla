------------------------------- MODULE DiskProofs -------------------------------
(***************************************************************************)
(* Proofs about the three drives: that the hard disk (AtaDisk), the CD-ROM    *)
(* (Atapi) and the floppy controller (Fdc) never leave their hosts waiting,  *)
(* and that each implements SectorStream; and about the Disk Manager (Setup):  *)
(* that drives fit their images and come back after a restart.  They share no *)
(* variable; each part below is about one of them, the first is the arithmetic *)
(* of addresses.                                                            *)
(***************************************************************************)
EXTENDS Disks, Setup, InterruptProofs, FiniteSetTheorems

-----------------------------------------------------------------------------
(* Quotients: what is divided in one step and in two, and what is left.  More   *)
(* of the arithmetic is in InterruptProofs.                                   *)
LEMMA Divided ==
    ASSUME NEW a \in Nat, NEW d \in Nat \ {0}
    PROVE  /\ a \div d \in Nat /\ a % d \in 0 .. d - 1
           /\ (a \div d) * d + (a % d) = a
<1>1. a \div d \in Nat
  BY Whole
<1>2. a % d \in 0 .. d - 1
  BY SMT
<1>3. a % d = a - d * (a \div d)
  BY Z3
<1>4. d * (a \div d) = (a \div d) * d
  BY <1>1, Z3
<1>5. (a \div d) * d \in Int
  BY <1>1
<1>6. (a \div d) * d + (a % d) = a
  <2>1. PICK p \in Int : p = (a \div d) * d
    BY <1>5
  <2>2. a % d = a - p
    BY <1>3, <1>4, <2>1
  <2> QED BY <2>1, <2>2
<1> QED BY <1>1, <1>2, <1>6

LEMMA DividedOnce ==
    ASSUME NEW a \in Nat, NEW d \in Nat \ {0}, NEW q \in Nat, q * d <= a, a < q * d + d
    PROVE  a \div d = q
<1> DEFINE p == a \div d
<1>1. p \in Nat /\ p * d <= a /\ a < (p + 1) * d
  BY Whole
<1> HIDE DEF p
<1>2. (q + 1) * d = q * d + d
  <2>1. (q + 1) * d = q * d + 1 * d /\ 1 * d = d
    BY Times
  <2> QED BY <2>1
<1>3. p * d \in Int /\ (p + 1) * d \in Int /\ q * d \in Int /\ (q + 1) * d \in Int
  BY <1>1, Times
<1>4. p * d < (q + 1) * d /\ q * d < (p + 1) * d
  BY <1>1, <1>2, <1>3
<1>5. p < q + 1 /\ q < p + 1
  BY <1>1, <1>4, Times
<1>6. p = q
  BY <1>1, <1>5
<1> QED BY <1>6 DEF p

LEMMA DividedTwice ==
    ASSUME NEW n \in Nat, NEW v \in Nat \ {0}, NEW w \in Nat \ {0},
           NEW a \in Nat, NEW b \in 0 .. v - 1, NEW q \in Nat, NEW c \in 0 .. w - 1,
           a * v + b = n, q * w + c = a
    PROVE  n \div (w * v) = q /\ q * (w * v) + c * v + b = n
<1>1. /\ a * v = (q * w) * v + c * v /\ (q * w) * v = q * (w * v) /\ c * v \in Nat
      /\ w * v \in Nat \ {0} /\ q * (w * v) \in Nat
  <2>1. q * w \in Int /\ c \in Int /\ c \in Nat
    BY Z3
  <2>2. (q * w + c) * v = (q * w) * v + c * v
    BY <2>1, Times
  <2>3. (q * w) * v = q * (w * v)
    BY Z3
  <2>4. c * v \in Nat /\ w * v \in Nat \ {0}
    BY <2>1, Z3
  <2>5. q * (w * v) \in Nat
    BY <2>4, Z3
  <2> QED BY <2>2, <2>3, <2>4, <2>5
<1>2. c * v <= w * v - v
  <2>1. c \in Int /\ w - 1 \in Int /\ w \in Int /\ c <= w - 1 /\ 1 \in Int
    OBVIOUS
  <2>2. c * v <= (w - 1) * v /\ (w - 1) * v = w * v - 1 * v /\ 1 * v = v
    BY <2>1, Times
  <2> QED BY <2>2
<1>3. q * (w * v) + c * v + b = n
  BY <1>1
<1>4. q * (w * v) <= n /\ n < q * (w * v) + w * v
  BY <1>1, <1>2, <1>3
<1> QED BY <1>1, <1>3, <1>4, DividedOnce

LEMMA Part ==
    ASSUME NEW a \in Nat, NEW d \in Nat \ {0}, NEW b \in 0 .. d - 1
    PROVE  a * d \in Nat /\ (a * d + b) % d = b
<1>1. a * d \in Nat
  BY Z3
<1>2. PICK p \in Nat : p = a * d
  BY <1>1
<1>3. p + b \in Nat /\ p <= p + b /\ p + b < p + d
  OBVIOUS
<1>4. (p + b) \div d = a
  BY <1>2, <1>3, DividedOnce
<1>5. ((p + b) \div d) * d + ((p + b) % d) = p + b /\ (p + b) % d \in 0 .. d - 1
  BY <1>3, Divided
<1>6. p + ((p + b) % d) = p + b
  BY <1>2, <1>4, <1>5
<1>7. (p + b) % d = b
  BY <1>5, <1>6
<1> QED BY <1>1, <1>2, <1>7

-----------------------------------------------------------------------------
(* AtaDisk, for disks, geometries, blocks and registers of any size: the host is *)
(* never left waiting, and the disk implements SectorStream.                  *)

(* The three parts of an LBA address, and those of a CHS address, make the number  *)
(* they were cut from.                                                         *)
LEMMA LbaMakes ==
    ASSUME NEW n \in Nat, NEW v \in Nat \ {0}
    PROVE  \E h \in Nat, c \in Nat, b \in Nat :
              /\ h = n \div (v * v * v) /\ c = (n \div v) % (v * v) /\ b = n % v
              /\ (h * v * v + c) * v + b = n
<1>1. v * v \in Nat \ {0} /\ v * v * v = (v * v) * v
  BY Z3
<1>2. PICK w \in Nat \ {0} : w = v * v
  BY <1>1
<1>3. PICK a \in Nat, b \in 0 .. v - 1 : a = n \div v /\ b = n % v /\ a * v + b = n
  BY Divided
<1>4. PICK q \in Nat, c \in 0 .. w - 1 : q = a \div w /\ c = a % w /\ q * w + c = a
  BY Divided
<1>5. n \div (w * v) = q
  <2>1. a * v + b = n /\ q * w + c = a
    BY <1>3, <1>4
  <2> QED BY <2>1, DividedTwice
<1>6. n \div (v * v * v) = q /\ (n \div v) % (v * v) = c /\ n % v = b
  BY <1>1, <1>2, <1>3, <1>4, <1>5
<1>7. q * v * v = q * w
  <2>1. q * v * v = q * (v * v)
    BY Z3
  <2> QED BY <1>2, <2>1
<1>8. (q * v * v + c) * v + b = n
  BY <1>3, <1>4, <1>7
<1>9. q \in Nat /\ c \in Nat /\ b \in Nat
  OBVIOUS
<1> QED BY <1>6, <1>8, <1>9, Zenon

LEMMA ChsMakes ==
    ASSUME NEW n \in Nat, NEW h \in Nat \ {0}, NEW t \in Nat \ {0}
    PROVE  \E c \in Nat, d \in Nat, b \in Nat :
              /\ c = n \div (h * t) /\ d = (n % (h * t)) \div t /\ b = (n % (h * t)) % t
              /\ (c * h + d) * t + b = n
<1>1. h * t \in Nat \ {0}
  BY Z3
<1>2. PICK c \in Nat \ {0} : c = h * t
  BY <1>1
<1>3. PICK q \in Nat, m \in Nat : q = n \div c /\ m = n % c /\ q * c + m = n
  BY Divided
<1>4. PICK d \in Nat, s \in Nat : d = m \div t /\ s = m % t /\ d * t + s = m
  BY Divided
<1>5. (q * h + d) * t = (q * h) * t + d * t /\ (q * h) * t = q * c /\ d * t \in Int /\ q * c \in Int
  <2>1. q * h \in Int
    OBVIOUS
  <2>2. (q * h) * t = q * (h * t)
    BY Z3
  <2> QED BY <1>2, <2>1, <2>2, Times
<1>6. (q * h + d) * t + s = n
  <2>1. (q * h + d) * t = q * c + d * t
    BY <1>5
  <2>2. q * c + (d * t + s) = n
    BY <1>3, <1>4
  <2> QED BY <1>5, <2>1, <2>2
<1>7. q = n \div (h * t) /\ d = (n % (h * t)) \div t /\ s = (n % (h * t)) % t
  BY <1>2, <1>3, <1>4, Zenon
<1> QED BY <1>6, <1>7, Zenon

(* The address registers name the sector they were set to.                      *)
HdRegisters == [lba : BOOLEAN, head : Nat, cyl : Nat, sector : Nat]

LEMMA NamesIt ==
    ASSUME NEW r \in HdRegisters, NEW n \in Nat
    PROVE  /\ WithSector(r, n) \in HdRegisters /\ SectorOf(WithSector(r, n)) = n
           /\ WithSector(r, n).lba \/ WithSector(r, n).sector > 0
<1> DEFINE s == WithSector(r, n)
<1>0. VALUES \in Nat \ {0} /\ HEADS \in Nat \ {0} /\ TRACK \in Nat \ {0}
  BY HdSizes
<1>1. CASE r.lba
  <2>1. PICK v \in Nat \ {0} : v = VALUES
    BY <1>0
  <2>2. PICK h \in Nat, c \in Nat, b \in Nat :
           /\ h = n \div (v * v * v) /\ c = (n \div v) % (v * v) /\ b = n % v
           /\ (h * v * v + c) * v + b = n
    BY LbaMakes, Zenon
  <2>3. s = [r EXCEPT !.head = h, !.cyl = c, !.sector = b]
    <3>1. s = [r EXCEPT !.head = n \div (VALUES * VALUES * VALUES),
                        !.cyl = (n \div VALUES) % (VALUES * VALUES), !.sector = n % VALUES]
      BY <1>1 DEF WithSector
    <3>2. n \div (VALUES * VALUES * VALUES) = h /\ (n \div VALUES) % (VALUES * VALUES) = c
          /\ n % VALUES = b
      BY <2>1, <2>2, Zenon
    <3> QED BY <3>1, <3>2, Zenon
  <2>4. s \in HdRegisters /\ s.lba /\ s.head = h /\ s.cyl = c /\ s.sector = b
    <3> HIDE DEF s
    <3> QED BY <1>1, <2>3 DEF HdRegisters
  <2>5. SectorOf(s) = (h * v * v + c) * v + b
    <3> HIDE DEF s
    <3> QED BY <2>1, <2>4 DEF SectorOf
  <2> QED BY <2>2, <2>4, <2>5
<1>2. CASE ~r.lba
  <2>1. PICK t \in Nat \ {0}, k \in Nat \ {0} : t = TRACK /\ k = HEADS
    BY <1>0
  <2>2. PICK c \in Nat, h \in Nat, b \in Nat :
           /\ c = n \div (k * t) /\ h = (n % (k * t)) \div t /\ b = (n % (k * t)) % t
           /\ (c * k + h) * t + b = n
    BY ChsMakes, Zenon
  <2>3. s = [r EXCEPT !.cyl = c, !.head = h, !.sector = b + 1]
    <3>1. s = [r EXCEPT !.cyl = n \div (HEADS * TRACK),
                        !.head = (n % (HEADS * TRACK)) \div TRACK,
                        !.sector = ((n % (HEADS * TRACK)) % TRACK) + 1]
      BY <1>2 DEF WithSector
    <3>2. /\ n \div (HEADS * TRACK) = c /\ (n % (HEADS * TRACK)) \div TRACK = h
          /\ (n % (HEADS * TRACK)) % TRACK = b
      BY <2>1, <2>2, Zenon
    <3> QED BY <3>1, <3>2, Zenon
  <2>4. s \in HdRegisters /\ ~s.lba /\ s.head = h /\ s.cyl = c /\ s.sector = b + 1
    <3>1. PICK e \in Nat : e = b + 1
      OBVIOUS
    <3>2. s = [r EXCEPT !.cyl = c, !.head = h, !.sector = e]
      BY <2>3, <3>1
    <3> HIDE DEF s
    <3>3. s \in HdRegisters /\ ~s.lba /\ s.head = h /\ s.cyl = c /\ s.sector = e
      BY <1>2, <3>2 DEF HdRegisters
    <3> QED BY <3>1, <3>3
  <2>5. SectorOf(s) = (c * k + h) * t + (b + 1) - 1
    <3> HIDE DEF s
    <3> QED BY <2>1, <2>4 DEF SectorOf
  <2>6. (c * k + h) * t \in Int
    BY Z3
  <2>7. SectorOf(s) = n /\ s.sector > 0
    <3> HIDE DEF s
    <3> QED BY <2>2, <2>4, <2>5, <2>6
  <2> QED BY <2>4, <2>7
<1> QED BY <1>1, <1>2

LEMMA Names ==
    ASSUME NEW r \in HdRegisters, r.lba \/ r.sector > 0
    PROVE  SectorOf(r) \in Nat
<1>1. /\ r.head \in Nat /\ r.cyl \in Nat /\ r.sector \in Nat /\ VALUES \in Nat
      /\ HEADS \in Nat /\ TRACK \in Nat
  BY HdSizes DEF HdRegisters
<1>2. (r.head * VALUES * VALUES + r.cyl) * VALUES \in Nat
  BY <1>1, Z3
<1>3. (r.cyl * HEADS + r.head) * TRACK \in Nat
  BY <1>1, Z3
<1> QED BY <1>1, <1>2, <1>3 DEF SectorOf

(* The invariant: the line tells what the host waits for, nothing is ready while it  *)
(* waits for nothing, and during a transfer the registers, the block at hand, the   *)
(* file and the host's own count agree.                                        *)
HdSize == IF mult = 0 THEN 1 ELSE mult
HdMost(cnt) == IF Length(cnt) <= HdSize THEN Length(cnt) ELSE HdSize

HdLine ==
    /\ host.phase \in {"idle", "poll", "data"} => irq = 0
    /\ host.phase = "await" /\ ~cmd.nien => irq = 1
    /\ ~selected => irq = 0 /\ host.phase \in {"idle", "reset"}

HdRest ==
    /\ cmd.srst => host.phase = "reset"
    /\ host.phase \in {"idle", "reset"} => host.todo = 0
    /\ host.phase \in {"poll", "data"} => host.todo > 0
    /\ host.todo = 0 => "drq" \notin status

Transferring ==
    /\ host.per = HdSize /\ xfer.sectors = HdMost(nsector)
    /\ xfer.done = IF xfer.write THEN "flush" ELSE "readnext"
    /\ \/ host.phase \in {"await", "poll"} /\ xfer.left = xfer.sectors * WORDS
          /\ host.todo = Length(nsector) * WORDS
       \/ host.phase = "data" /\ xfer.left = host.block
          /\ host.block \in 1 .. xfer.sectors * WORDS
          /\ host.todo = (Length(nsector) - xfer.sectors) * WORDS + host.block
    /\ reg.lba \/ reg.sector > 0
    /\ pos = (SectorOf(reg) + xfer.sectors) * WORDS - xfer.left
    /\ SectorOf(reg) + Length(nsector) <= BLOCKS

Identifying ==
    /\ ~xfer.write /\ xfer.done = "identify" /\ host.per = 1
    /\ host.todo = xfer.left /\ host.phase # "poll"
    /\ host.phase = "data" => host.block = xfer.left
    /\ host.phase = "await" => xfer.left = WORDS

HdBusy == host.todo > 0 =>
             /\ "drq" \in status /\ host.phase \in {"await", "poll", "data"}
             /\ host.op = (IF xfer.write THEN "write" ELSE "read")
             /\ Transferring \/ Identifying

HdInv == HdTypeOK /\ HdLine /\ HdRest /\ HdBusy

LEMMA DriveSizes == /\ BLOCKS \in Nat \ {0} /\ WORDS \in Nat \ {0} /\ VALUES \in Nat \ {0, 1}
                    /\ MAXMULT \in Nat \ {0}
                    /\ Word = 0 .. BLOCKS * WORDS - 1 /\ BLOCKS * WORDS \in Nat
<1>1. /\ BLOCKS \in Nat \ {0} /\ WORDS \in Nat \ {0} /\ VALUES \in Nat \ {0, 1}
      /\ MAXMULT \in Nat \ {0}
  BY HdSizes
<1> QED BY <1>1, Z3 DEF Word

LEMMA MinOfTwo ==
    ASSUME NEW a \in Nat, NEW b \in Nat
    PROVE  Min({a, b}) = IF a <= b THEN a ELSE b
<1>1. Min({a, b}) \in {a, b} /\ \A x \in {a, b} : Min({a, b}) <= x
  <2>1. {a, b} \in SUBSET Nat /\ {a, b} # {}
    OBVIOUS
  <2> HIDE DEF Min
  <2> QED BY <2>1, MinExists
<1> QED BY <1>1

(* A block is at least a sector and no more than the sectors still counted.       *)
LEMMA BlockIs ==
    ASSUME NEW cnt \in 0 .. VALUES - 1, mult \in 0 .. MAXMULT
    PROVE  /\ Block(cnt) = HdMost(cnt) /\ HdMost(cnt) \in 1 .. Length(cnt)
           /\ HdMost(cnt) <= HdSize /\ Length(cnt) \in 1 .. VALUES /\ HdSize \in Nat \ {0}
<1>1. Length(cnt) \in 1 .. VALUES /\ HdSize \in Nat \ {0}
  BY DriveSizes DEF Length, HdSize
<1>2. Block(cnt) = Min({Length(cnt), HdSize})
  BY DEF Block, Length, HdSize
<1>3. Length(cnt) \in Nat /\ HdSize \in Nat
  BY <1>1, DriveSizes
<1>4. Block(cnt) = HdMost(cnt)
  BY <1>2, <1>3, MinOfTwo DEF HdMost
<1> QED BY <1>1, <1>4, DriveSizes DEF HdMost

(* What is left to count after a block.                                        *)
LEMMA LessIs ==
    ASSUME NEW cnt \in 0 .. VALUES - 1, NEW n \in 1 .. Length(cnt)
    PROVE  /\ Less(cnt, n) \in 0 .. VALUES - 1
           /\ Less(cnt, n) = 0 <=> n = Length(cnt)
           /\ n # Length(cnt) => Length(Less(cnt, n)) = Length(cnt) - n
<1>1. VALUES \in Nat \ {0} /\ Length(cnt) \in 1 .. VALUES
  BY DriveSizes DEF Length
<1>2. cnt - n \in -VALUES .. 2 * VALUES - 1
  BY <1>1
<1>3. Less(cnt, n) = IF cnt - n < 0 THEN cnt - n + VALUES
                     ELSE IF cnt - n < VALUES THEN cnt - n ELSE cnt - n - VALUES
  BY <1>1, <1>2, Wraps DEF Less
<1>4. CASE cnt = 0
  BY <1>1, <1>3, <1>4 DEF Length
<1>5. CASE cnt # 0
  BY <1>1, <1>3, <1>5 DEF Length
<1> QED BY <1>4, <1>5

(* A transfer moves words of the disk, and there are as many as the host expects.  *)
LEMMA Inside ==
    ASSUME HdTypeOK, Transferring
    PROVE  /\ SectorOf(reg) \in Nat /\ xfer.sectors \in 1 .. Length(nsector)
           /\ Length(nsector) \in 1 .. VALUES
           /\ pos + xfer.left = (SectorOf(reg) + xfer.sectors) * WORDS
           /\ xfer.left \in 1 .. xfer.sectors * WORDS /\ pos + xfer.left <= BLOCKS * WORDS
<1>1. /\ nsector \in 0 .. VALUES - 1 /\ mult \in 0 .. MAXMULT /\ reg \in HdRegisters
      /\ pos \in Nat /\ xfer.left \in Nat /\ xfer.sectors \in Nat
  BY DEF HdTypeOK, HdRegisters
<1>2. SectorOf(reg) \in Nat
  BY <1>1, Names DEF Transferring
<1>3. xfer.sectors \in 1 .. Length(nsector) /\ Length(nsector) \in 1 .. VALUES
  BY <1>1, BlockIs DEF Transferring
<1>4. PICK s \in Nat, m \in Nat \ {0}, l \in Nat :
         s = SectorOf(reg) /\ m = xfer.sectors /\ l = Length(nsector) /\ m <= l
  BY <1>2, <1>3, DriveSizes
<1>5. /\ (s + m) * WORDS \in Int /\ m * WORDS \in Nat \ {0}
      /\ (s + m) * WORDS <= BLOCKS * WORDS
  <2>1. s + m <= BLOCKS /\ s + m \in Int /\ BLOCKS \in Int /\ WORDS \in Nat \ {0}
    <3>1. SectorOf(reg) + Length(nsector) <= BLOCKS
      BY DEF Transferring
    <3> QED BY <1>4, <3>1, DriveSizes
  <2>2. (s + m) * WORDS <= BLOCKS * WORDS /\ (s + m) * WORDS \in Int
    BY <2>1, Times
  <2>3. m * WORDS \in Nat \ {0}
    BY <2>1, Z3
  <2> QED BY <2>2, <2>3
<1>6. pos = (s + m) * WORDS - xfer.left
  BY <1>4 DEF Transferring
<1>7. xfer.left \in 1 .. m * WORDS
  BY <1>4, <1>5 DEF Transferring
<1>8. pos + xfer.left = (s + m) * WORDS
  BY <1>1, <1>5, <1>6
<1> QED BY <1>2, <1>3, <1>4, <1>5, <1>7, <1>8, DriveSizes
(* Words pass the data port.                                                   *)
HdEnd == (SectorOf(reg) + Length(nsector)) * WORDS

LEMMA PortKeeps ==
    ASSUME HdInv, Transferring, NEW k \in 1 .. BLOCKS * WORDS, MoveData(k)
    PROVE  /\ k <= xfer.left /\ host.phase = "data" /\ xfer.left = host.block
           /\ host.op = (IF xfer.write THEN "write" ELSE "read")
           /\ IF xfer.write
              THEN /\ file' = [w \in Word |-> IF w \in pos .. pos + k - 1 THEN STORED
                                                                        ELSE file[w]]
                   /\ out' = out
              ELSE file' = file /\ out' = file[pos + k - 1]
           /\ file' \in [Word -> Word \cup {STORED}] /\ out' \in Word \cup {STORED}
           /\ Advanced(k) /\ UNCHANGED <<mult, selected, cmd>>
           /\ host.todo = (Length(nsector) - xfer.sectors) * WORDS + xfer.left
<1>1. /\ host.phase = "data" /\ k <= host.block /\ selected
      /\ (host.op = "read" /\ DataRead(k)) \/ (host.op = "write" /\ DataWrite(k))
      /\ UNCHANGED <<selected, cmd>>
  BY DEF MoveData, DataRead, DataWrite
<1>2. xfer.left = host.block /\ host.todo = (Length(nsector) - xfer.sectors) * WORDS + host.block
  BY <1>1 DEF Transferring
<1>3. host.op = IF xfer.write THEN "write" ELSE "read"
  BY <1>1 DEF HdInv, HdBusy, HdRest
<1>4. pos + k - 1 \in Word /\ file \in [Word -> Word \cup {STORED}] /\ out \in Word \cup {STORED}
  <2>1. pos \in Nat /\ xfer.left \in Nat /\ pos + xfer.left <= BLOCKS * WORDS
    BY Inside DEF HdInv, HdTypeOK
  <2> QED BY <1>1, <1>2, <2>1, DriveSizes DEF HdInv, HdTypeOK
<1>5. CASE xfer.write
  <2>1. DataWrite(k)
    BY <1>1, <1>3, <1>5
  <2>2. /\ file' = [w \in Word |-> IF w \in pos .. pos + k - 1 THEN STORED ELSE file[w]]
        /\ out' = out /\ Advanced(k) /\ mult' = mult
    BY <2>1 DEF DataWrite
  <2>3. file' \in [Word -> Word \cup {STORED}]
    BY <1>4, <2>2
  <2> QED BY <1>1, <1>2, <1>3, <1>4, <1>5, <2>2, <2>3
<1>6. CASE ~xfer.write
  <2>1. DataRead(k) /\ xfer.done = "readnext"
    BY <1>1, <1>3, <1>6 DEF Transferring
  <2>2. file' = file /\ out' = file[pos + k - 1] /\ Advanced(k) /\ mult' = mult
    BY <2>1 DEF DataRead
  <2> QED BY <1>1, <1>2, <1>3, <1>4, <1>6, <2>2
<1> QED BY <1>5, <1>6

(* In the middle of a block.                                                   *)
LEMMA PartKeeps ==
    ASSUME HdInv, Transferring, NEW k \in 1 .. BLOCKS * WORDS, MoveData(k), k < xfer.left
    PROVE  /\ HdInv' /\ Transferring' /\ "drq" \in status' /\ xfer'.write = xfer.write
           /\ pos' = pos + k /\ HdEnd' = HdEnd /\ pos + k < HdEnd
<1>1. /\ host.phase = "data" /\ xfer.left = host.block /\ Advanced(k)
      /\ UNCHANGED <<mult, selected, cmd>>
      /\ file' \in [Word -> Word \cup {STORED}] /\ out' \in Word \cup {STORED}
      /\ host.todo = (Length(nsector) - xfer.sectors) * WORDS + xfer.left
  BY PortKeeps
<1>2. /\ xfer' = [xfer EXCEPT !.left = xfer.left - k] /\ pos' = pos + k
      /\ UNCHANGED <<reg, nsector, status, irq>>
  BY <1>1 DEF Advanced, Transferring
<1>3. PICK s \in Nat, m \in Nat \ {0}, l \in Nat \ {0} :
         s = SectorOf(reg) /\ m = xfer.sectors /\ l = Length(nsector) /\ m <= l
  BY Inside, DriveSizes DEF HdInv
<1>4. PICK e \in Nat, p \in Nat, w \in Nat :
         /\ e = (s + m) * WORDS /\ p = (l - m) * WORDS /\ w = m * WORDS
         /\ (s + l) * WORDS = e + p
  <2>1. /\ WORDS \in Nat \ {0} /\ l - m \in Nat /\ s + m \in Int /\ l - m \in Int
        /\ s + l = (s + m) + (l - m)
    BY <1>3, DriveSizes
  <2>2. (l - m) * WORDS \in Nat /\ m * WORDS \in Nat /\ (s + m) * WORDS \in Nat
    BY <2>1, Z3
  <2>3. ((s + m) + (l - m)) * WORDS = (s + m) * WORDS + (l - m) * WORDS
    BY <2>1, Times
  <2> QED BY <2>1, <2>2, <2>3
<1>5. /\ xfer.left \in 1 .. w /\ pos + xfer.left = e
      /\ host.todo = p + xfer.left /\ pos \in Nat
  BY <1>1, <1>3, <1>4, Inside DEF HdInv, HdTypeOK
<1>6. PICK t \in Nat \ {0} : t = xfer.left - k
  BY <1>5
<1>7. host' = [host EXCEPT !.todo = p + t, !.block = t, !.phase = "data"]
  <2>1. host.todo # k /\ k < host.block /\ host.todo - k = p + t /\ host.block - k = t
    BY <1>1, <1>5, <1>6
  <2>2. host' = [host EXCEPT !.todo = host.todo - k, !.block = host.block - k,
                             !.phase = "data"]
    BY <2>1 DEF MoveData
  <2> QED BY <2>1, <2>2
<1>8. HdTypeOK'
  <2>1. xfer' = [xfer EXCEPT !.left = t] /\ pos' \in Nat /\ p + t \in Nat
    BY <1>2, <1>5, <1>6
  <2>2. /\ xfer' \in [left : Nat, sectors : Nat, write : BOOLEAN,
                       done : {"stop", "readnext", "flush", "identify"}]
        /\ host' \in [phase : {"idle", "await", "poll", "data", "reset"},
                      op : {"none", "read", "write"}, todo : Nat, per : Nat, block : Nat,
                      mult : 0 .. MAXMULT]
    BY <1>7, <2>1 DEF HdInv, HdTypeOK
  <2> QED BY <1>1, <1>2, <2>1, <2>2 DEF HdInv, HdTypeOK
<1>9. /\ xfer'.left = t /\ xfer'.sectors = m /\ xfer'.write = xfer.write /\ xfer'.done = xfer.done
      /\ host'.phase = "data" /\ host'.todo = p + t /\ host'.block = t
      /\ host'.per = host.per /\ host'.op = host.op
  BY <1>2, <1>3, <1>6, <1>7 DEF HdInv, HdTypeOK
<1>10. /\ SectorOf(reg)' = s /\ Length(nsector)' = l /\ HdSize' = HdSize
       /\ HdMost(nsector)' = HdMost(nsector)
  BY <1>1, <1>2, <1>3 DEF SectorOf, Length, HdSize, HdMost
<1>11. pos' = e - t /\ t \in 1 .. w
  BY <1>2, <1>5, <1>6
<1>12. Transferring'
  <2>1. /\ host.per = HdSize /\ m = HdMost(nsector) /\ (reg.lba \/ reg.sector > 0)
        /\ xfer.done = (IF xfer.write THEN "flush" ELSE "readnext") /\ s + l <= BLOCKS
    BY <1>3 DEF Transferring
  <2> QED BY <1>2, <1>4, <1>9, <1>10, <1>11, <2>1 DEF Transferring
<1>13. HdEnd' = HdEnd /\ pos + k < HdEnd
  <2>1. HdEnd = e + p /\ HdEnd' = e + p
    BY <1>3, <1>4, <1>10 DEF HdEnd
  <2> QED BY <1>5, <1>6, <2>1
<1>14. "drq" \in status /\ "drq" \in status'
  <2>1. host.todo > 0
    BY <1>5
  <2> QED BY <1>2, <2>1 DEF HdInv, HdBusy
<1>15. HdLine' /\ HdRest' /\ HdBusy'
  <2>1. p + t > 0
    OBVIOUS
  <2>2. host.op = (IF xfer.write THEN "write" ELSE "read")
    BY PortKeeps
  <2> QED BY <1>1, <1>2, <1>9, <1>12, <1>14, <2>1, <2>2 DEF HdInv, HdLine, HdRest, HdBusy
<1> QED BY <1>2, <1>8, <1>9, <1>12, <1>13, <1>14, <1>15 DEF HdInv

(* At the end of a block the registers name the sector behind it, and the file     *)
(* stands there; then the transfer is over, or the next block is armed.           *)
LEMMA EndIs ==
    ASSUME HdInv, Transferring, NEW k \in 1 .. BLOCKS * WORDS, MoveData(k), k = xfer.left
    PROVE  LET cnt == Less(nsector, xfer.sectors)
           IN  /\ SectorOf(reg)' = SectorOf(reg) + xfer.sectors /\ reg' \in HdRegisters
               /\ (reg.lba \/ reg.sector > 0)'
               /\ nsector' = cnt /\ pos' = pos + k /\ mult' = mult
               /\ IF cnt = 0
                  THEN /\ status' = Idle /\ xfer' = Stopped
                       /\ irq' = IF xfer.write THEN RaisedIrq ELSE irq
                  ELSE /\ xfer' = [left |-> HdMost(cnt) * WORDS, sectors |-> HdMost(cnt),
                                   write |-> xfer.write, done |-> xfer.done]
                       /\ status' = Idle \cup {"drq"} /\ irq' = RaisedIrq
<1> DEFINE cnt == Less(nsector, xfer.sectors)
<1> DEFINE r == WithSector(reg, SectorOf(reg) + xfer.sectors)
<1>1. Advanced(k) /\ mult' = mult
  BY PortKeeps
<1>2. /\ SectorOf(reg) \in Nat /\ xfer.sectors \in 1 .. Length(nsector)
      /\ Length(nsector) \in 1 .. VALUES
      /\ pos + xfer.left = (SectorOf(reg) + xfer.sectors) * WORDS
  BY Inside DEF HdInv
<1>3. SectorOf(reg) + xfer.sectors \in Nat /\ reg \in HdRegisters
  <2>1. reg \in HdRegisters /\ xfer.sectors \in Nat
    BY DEF HdInv, HdTypeOK, HdRegisters
  <2> QED BY <1>2, <2>1
<1>4. r \in HdRegisters /\ SectorOf(r) = SectorOf(reg) + xfer.sectors /\ (r.lba \/ r.sector > 0)
  BY <1>3, NamesIt
<1>5. cnt \in 0 .. VALUES - 1 /\ Block(cnt) = HdMost(cnt)
  <2>1. nsector \in 0 .. VALUES - 1 /\ mult \in 0 .. MAXMULT
    BY DEF HdInv, HdTypeOK
  <2>2. cnt \in 0 .. VALUES - 1
    BY <1>2, <2>1, LessIs
  <2> QED BY <2>1, <2>2, BlockIs
<1>6. ~(k < xfer.left) /\ xfer.left \in Nat
  BY DEF HdInv, HdTypeOK
<1>7. CASE xfer.write
  <2>1. SectorWriteFlush(k)
    BY <1>1, <1>6, <1>7 DEF Advanced, Transferring
  <2>2. /\ reg' = r /\ nsector' = cnt /\ pos' = pos + k /\ irq' = RaisedIrq
        /\ \/ cnt = 0 /\ status' = Idle /\ xfer' = Stopped
           \/ cnt # 0 /\ Arm(Block(cnt), TRUE, "flush")
    BY <2>1 DEF SectorWriteFlush
  <2>3. xfer.done = "flush"
    BY <1>7 DEF Transferring
  <2>4. SectorOf(reg)' = SectorOf(r) /\ (reg.lba \/ reg.sector > 0)'
    <3> HIDE DEF r
    <3> QED BY <1>4, <2>2 DEF SectorOf
  <2> HIDE DEF r, cnt
  <2>5. CASE cnt = 0
    BY <1>1, <1>4, <1>7, <2>2, <2>4, <2>5 DEF r, cnt
  <2>6. CASE cnt # 0
    BY <1>1, <1>4, <1>5, <1>7, <2>2, <2>3, <2>4, <2>6 DEF Arm, r, cnt
  <2> QED BY <2>5, <2>6
<1>8. CASE ~xfer.write
  <2>1. SectorReadNext
    BY <1>1, <1>6, <1>8 DEF Advanced, Transferring
  <2>2. /\ reg' = r /\ nsector' = cnt
        /\ \/ cnt = 0 /\ status' = Idle /\ xfer' = Stopped /\ pos' = pos + k /\ irq' = irq
           \/ cnt # 0 /\ SectorRead(r, Block(cnt))
    BY <2>1 DEF SectorReadNext
  <2>3. xfer.done = "readnext" /\ xfer.write = FALSE
    BY <1>8 DEF Transferring, HdInv, HdTypeOK
  <2>4. SectorOf(reg)' = SectorOf(r) /\ (reg.lba \/ reg.sector > 0)'
    <3> HIDE DEF r
    <3> QED BY <1>4, <2>2 DEF SectorOf
  <2> HIDE DEF r, cnt
  <2>5. CASE cnt = 0
    BY <1>1, <1>4, <1>8, <2>2, <2>4, <2>5 DEF r, cnt
  <2>6. CASE cnt # 0
    <3>1. /\ pos' = SectorOf(r) * WORDS /\ irq' = RaisedIrq
          /\ xfer' = [left |-> HdMost(cnt) * WORDS, sectors |-> HdMost(cnt),
                      write |-> xfer.write, done |-> xfer.done]
          /\ status' = Idle \cup {"drq"}
      BY <1>5, <2>2, <2>3, <2>6 DEF SectorRead, Arm
    <3>2. pos' = pos + k
      BY <1>2, <1>4, <3>1
    <3> QED BY <1>1, <1>4, <2>2, <2>4, <2>6, <3>1, <3>2 DEF r, cnt
  <2> QED BY <2>5, <2>6
<1> QED BY <1>7, <1>8

(* What the host then expects.                                                 *)
LEMMA EndFor ==
    ASSUME HdInv, Transferring, NEW k \in 1 .. BLOCKS * WORDS, MoveData(k), k = xfer.left
    PROVE  IF Less(nsector, xfer.sectors) = 0
           THEN /\ pos + k = HdEnd
                /\ host' = IF xfer.write
                           THEN [host EXCEPT !.todo = 0, !.block = 0, !.phase = "await"]
                           ELSE [host EXCEPT !.phase = "idle", !.op = "none", !.todo = 0,
                                             !.per = 0, !.block = 0]
           ELSE LET cnt == Less(nsector, xfer.sectors)
                IN  /\ pos + k < HdEnd
                    /\ Length(cnt) = Length(nsector) - xfer.sectors
                    /\ Length(cnt) * WORDS \in Nat \ {0}
                    /\ HdEnd = (SectorOf(reg) + xfer.sectors + Length(cnt)) * WORDS
                    /\ host' = [host EXCEPT !.todo = Length(cnt) * WORDS, !.block = 0,
                                            !.phase = "await"]
<1>1. /\ host.phase = "data" /\ xfer.left = host.block
      /\ host.op = (IF xfer.write THEN "write" ELSE "read")
      /\ host.todo = (Length(nsector) - xfer.sectors) * WORDS + xfer.left
  BY PortKeeps
<1>2. PICK s \in Nat, m \in Nat \ {0}, l \in Nat \ {0} :
         s = SectorOf(reg) /\ m = xfer.sectors /\ l = Length(nsector) /\ m <= l
  BY Inside, DriveSizes DEF HdInv
<1>3. PICK e \in Nat, p \in Nat :
         /\ e = (s + m) * WORDS /\ p = (l - m) * WORDS /\ (s + l) * WORDS = e + p
         /\ IF l = m THEN p = 0 ELSE p > 0
  <2>1. /\ WORDS \in Nat \ {0} /\ l - m \in Nat /\ s + m \in Int /\ l - m \in Int
        /\ s + l = (s + m) + (l - m)
    BY <1>2, DriveSizes
  <2>2. (l - m) * WORDS \in Nat /\ (s + m) * WORDS \in Nat
    BY <2>1, Z3
  <2>3. ((s + m) + (l - m)) * WORDS = (s + m) * WORDS + (l - m) * WORDS
    BY <2>1, Times
  <2>4. IF l = m THEN (l - m) * WORDS = 0 ELSE (l - m) * WORDS > 0
    BY <2>1, Z3
  <2> QED BY <2>1, <2>2, <2>3, <2>4
<1>4. /\ pos + k = e /\ HdEnd = e + p /\ host.todo = p + k /\ k \in Nat
  <2>1. pos + xfer.left = (SectorOf(reg) + xfer.sectors) * WORDS
    BY Inside DEF HdInv
  <2>2. HdEnd = e + p
    BY <1>2, <1>3 DEF HdEnd
  <2> QED BY <1>1, <1>2, <1>3, <2>1, <2>2
<1>5. /\ Less(nsector, m) = 0 <=> m = l
      /\ m # l => Length(Less(nsector, m)) = l - m
  BY <1>2, LessIs DEF HdInv, HdTypeOK
<1>6. host' = IF host.op = "read" /\ k = host.todo
              THEN [host EXCEPT !.phase = "idle", !.op = "none", !.todo = 0, !.per = 0,
                                !.block = 0]
              ELSE [host EXCEPT !.todo = p, !.block = 0, !.phase = "await"]
  <2>1. host.todo - k = p /\ host.block - k = 0 /\ ~(k < host.block)
    BY <1>1, <1>4
  <2>2. host' = IF host.op = "read" /\ k = host.todo
              THEN [host EXCEPT !.phase = "idle", !.op = "none", !.todo = 0, !.per = 0,
                                !.block = 0]
              ELSE [host EXCEPT !.todo = host.todo - k, !.block = host.block - k,
                                !.phase = "await"]
    BY <2>1 DEF MoveData
  <2> QED BY <2>1, <2>2
<1>7. CASE m = l
  <2>1. p = 0 /\ k = host.todo /\ Less(nsector, xfer.sectors) = 0 /\ pos + k = HdEnd
    BY <1>2, <1>3, <1>4, <1>5, <1>7
  <2> QED BY <1>1, <1>6, <2>1
<1>8. CASE m # l
  <2>1. /\ p > 0 /\ k # host.todo /\ Less(nsector, xfer.sectors) # 0 /\ pos + k < HdEnd
        /\ Length(Less(nsector, xfer.sectors)) = l - m
    BY <1>2, <1>3, <1>4, <1>5, <1>8
  <2>2. SectorOf(reg) + xfer.sectors + (l - m) = s + l
    BY <1>2
  <2> QED BY <1>2, <1>3, <1>4, <1>6, <2>1, <2>2
<1> QED BY <1>7, <1>8

LEMMA EndKeeps ==
    ASSUME HdInv, Transferring, NEW k \in 1 .. BLOCKS * WORDS, MoveData(k), k = xfer.left
    PROVE  /\ HdInv' /\ pos' = pos + k
           /\ IF Less(nsector, xfer.sectors) = 0
              THEN "drq" \notin status' /\ pos + k = HdEnd
              ELSE /\ "drq" \in status' /\ Transferring' /\ xfer'.write = xfer.write
                   /\ HdEnd' = HdEnd /\ pos + k < HdEnd
<1> DEFINE cnt == Less(nsector, xfer.sectors)
<1>1. /\ host.phase = "data" /\ UNCHANGED <<mult, selected, cmd>>
      /\ file' \in [Word -> Word \cup {STORED}] /\ out' \in Word \cup {STORED}
      /\ host.op = (IF xfer.write THEN "write" ELSE "read")
  BY PortKeeps
<1>2. /\ SectorOf(reg)' = SectorOf(reg) + xfer.sectors /\ reg' \in HdRegisters
      /\ (reg.lba \/ reg.sector > 0)'
      /\ nsector' = cnt /\ pos' = pos + k
  BY EndIs
<1>3. /\ SectorOf(reg) \in Nat /\ xfer.sectors \in 1 .. Length(nsector) /\ pos \in Nat
      /\ pos + k = (SectorOf(reg) + xfer.sectors) * WORDS
  BY Inside DEF HdInv, HdTypeOK
<1>4. /\ cnt \in 0 .. VALUES - 1 /\ HdMost(cnt) \in 1 .. Length(cnt)
      /\ Length(cnt) \in 1 .. VALUES
  <2>1. nsector \in 0 .. VALUES - 1 /\ mult \in 0 .. MAXMULT
    BY DEF HdInv, HdTypeOK
  <2>2. cnt \in 0 .. VALUES - 1
    BY <1>3, <2>1, LessIs
  <2> QED BY <2>1, <2>2, BlockIs
<1>5. selected /\ ~cmd.srst /\ irq = 0 /\ RaisedIrq \in 0 .. 1 /\ (~cmd.nien => RaisedIrq = 1)
  BY <1>1 DEF HdInv, HdLine, HdRest, RaisedIrq
<1>6. CASE cnt = 0
  <2>1. /\ status' = Idle /\ xfer' = Stopped /\ irq' = (IF xfer.write THEN RaisedIrq ELSE irq)
    <3> HIDE DEF cnt
    <3> QED BY <1>6, EndIs DEF cnt
  <2>2. /\ pos + k = HdEnd
        /\ host' = IF xfer.write
                   THEN [host EXCEPT !.todo = 0, !.block = 0, !.phase = "await"]
                   ELSE [host EXCEPT !.phase = "idle", !.op = "none", !.todo = 0,
                                     !.per = 0, !.block = 0]
    <3> HIDE DEF cnt
    <3> QED BY <1>6, EndFor DEF cnt
  <2>3. /\ host'.todo = 0 /\ host'.phase = IF xfer.write THEN "await" ELSE "idle"
        /\ host' \in [phase : {"idle", "await", "poll", "data", "reset"},
                      op : {"none", "read", "write"}, todo : Nat, per : Nat, block : Nat,
                      mult : 0 .. MAXMULT]
    BY <2>2 DEF HdInv, HdTypeOK
  <2>4. xfer' \in [left : Nat, sectors : Nat, write : BOOLEAN,
                   done : {"stop", "readnext", "flush", "identify"}]
    BY <2>1 DEF Stopped, HdInv, HdTypeOK
  <2>5. HdTypeOK'
    <3>1. pos' \in Nat /\ irq' \in 0 .. 1 /\ status' \subseteq {"busy", "ready", "seek", "drq", "err"}
      BY <1>2, <1>3, <1>5, <2>1 DEF Idle
    <3> QED BY <1>1, <1>2, <1>4, <2>3, <2>4, <3>1 DEF HdInv, HdTypeOK, HdRegisters
  <2>6. "drq" \notin status'
    BY <2>1 DEF Idle
  <2>7. HdLine' /\ HdRest' /\ HdBusy'
    BY <1>1, <1>5, <2>1, <2>3, <2>6 DEF HdLine, HdRest, HdBusy
  <2> QED BY <1>2, <1>6, <2>2, <2>5, <2>6, <2>7 DEF HdInv
<1>7. CASE cnt # 0
  <2>1. PICK b \in Nat, l \in Nat : b = HdMost(cnt) /\ l = Length(cnt) /\ b \in 1 .. l
    BY <1>4, DriveSizes
  <2>2. /\ xfer' = [left |-> b * WORDS, sectors |-> b, write |-> xfer.write, done |-> xfer.done]
        /\ status' = Idle \cup {"drq"} /\ irq' = RaisedIrq
    <3> HIDE DEF cnt
    <3> QED BY <1>7, <2>1, EndIs DEF cnt
  <2>3. /\ pos + k < HdEnd
        /\ l = Length(nsector) - xfer.sectors
        /\ l * WORDS \in Nat \ {0}
        /\ HdEnd = (SectorOf(reg) + xfer.sectors + l) * WORDS
        /\ host' = [host EXCEPT !.todo = l * WORDS, !.block = 0, !.phase = "await"]
    <3> HIDE DEF cnt
    <3> QED BY <1>7, <2>1, EndFor DEF cnt
  <2>4. PICK t \in Nat \ {0}, w \in Nat : t = l * WORDS /\ w = b * WORDS
    <3>1. WORDS \in Nat
      BY DriveSizes
    <3>2. b * WORDS \in Nat
      BY <3>1, Z3
    <3> QED BY <2>3, <3>2
  <2>5. /\ host'.todo = t /\ host'.phase = "await" /\ host'.op = host.op /\ host'.per = host.per
        /\ host' \in [phase : {"idle", "await", "poll", "data", "reset"},
                      op : {"none", "read", "write"}, todo : Nat, per : Nat, block : Nat,
                      mult : 0 .. MAXMULT]
    BY <2>3, <2>4 DEF HdInv, HdTypeOK
  <2>6. /\ xfer'.left = w /\ xfer'.sectors = b /\ xfer'.write = xfer.write
        /\ xfer'.done = xfer.done
        /\ xfer' \in [left : Nat, sectors : Nat, write : BOOLEAN,
                      done : {"stop", "readnext", "flush", "identify"}]
    BY <2>2, <2>4 DEF HdInv, HdTypeOK
  <2>7. HdTypeOK'
    <3>1. pos' \in Nat /\ irq' \in 0 .. 1 /\ status' \subseteq {"busy", "ready", "seek", "drq", "err"}
      BY <1>2, <1>3, <1>5, <2>2 DEF Idle
    <3> QED BY <1>1, <1>2, <1>4, <2>5, <2>6, <3>1 DEF HdInv, HdTypeOK, HdRegisters
  <2>8. "drq" \in status'
    BY <2>2
  <2>9. /\ HdSize' = HdSize /\ HdMost(nsector)' = b /\ Length(nsector)' = l
    BY <1>1, <1>2, <2>1 DEF HdSize, HdMost, Length
  <2>10. Transferring'
    <3>1. /\ host.per = HdSize /\ xfer.done = (IF xfer.write THEN "flush" ELSE "readnext")
          /\ SectorOf(reg) + Length(nsector) <= BLOCKS
      BY DEF Transferring
    <3>2. SectorOf(reg)' + l <= BLOCKS
      <4>1. PICK s \in Nat, m \in Nat : s = SectorOf(reg) /\ m = xfer.sectors /\ m <= Length(nsector)
        BY <1>3 DEF HdInv, HdTypeOK
      <4>2. Length(nsector) \in Nat
        <5>1. HdTypeOK /\ VALUES \in Nat
          BY DriveSizes DEF HdInv
        <5> QED BY <5>1, Inside
      <4>3. SectorOf(reg)' = s + m
        BY <1>2, <4>1
      <4>4. l = Length(nsector) - m
        BY <2>3, <4>1
      <4> QED BY <3>1, <4>1, <4>2, <4>3, <4>4, DriveSizes
    <3>3. pos' = (SectorOf(reg)' + xfer'.sectors) * WORDS - xfer'.left
      <4>1. PICK s \in Nat : s = SectorOf(reg)'
        BY <1>2, <1>3 DEF HdInv, HdTypeOK
      <4>2. pos' = s * WORDS
        BY <1>2, <1>3, <4>1
      <4>3. (s + b) * WORDS = s * WORDS + w /\ s * WORDS \in Int /\ w \in Int
        BY <2>4, Times, DriveSizes
      <4> QED BY <2>6, <4>1, <4>2, <4>3
    <3> HIDE DEF cnt
    <3> QED BY <1>2, <2>4, <2>5, <2>6, <2>9, <3>1, <3>2, <3>3 DEF Transferring
  <2>11. HdEnd' = HdEnd
    <3>1. HdEnd' = (SectorOf(reg)' + l) * WORDS
      BY <2>9 DEF HdEnd
    <3> QED BY <1>2, <2>3, <3>1
  <2>12. HdLine' /\ HdRest' /\ HdBusy'
    <3>1. host'.todo > 0
      BY <2>5
    <3> QED BY <1>1, <1>5, <2>2, <2>5, <2>6, <2>8, <2>10, <3>1 DEF HdLine, HdRest, HdBusy
  <2> QED BY <1>2, <1>7, <2>3, <2>6, <2>7, <2>8, <2>10, <2>11, <2>12 DEF HdInv
<1> QED BY <1>6, <1>7

(* The data of IDENTIFY.                                                       *)
LEMMA IdentifyKeeps ==
    ASSUME HdInv, Identifying, NEW k \in 1 .. BLOCKS * WORDS, MoveData(k)
    PROVE  /\ HdInv' /\ file' = file /\ out' = out
           /\ "drq" \notin status' \/ xfer'.done = "identify"
<1>1. /\ host.phase = "data" /\ k <= host.block /\ host.block = xfer.left
      /\ host.todo = xfer.left /\ ~xfer.write /\ xfer.done = "identify" /\ host.per = 1
  BY DEF MoveData, Identifying
<1>2. PICK n \in Nat \ {0} : n = xfer.left
  BY <1>1 DEF HdInv, HdTypeOK
<1>3. selected /\ ~cmd.srst /\ irq = 0 /\ "drq" \in status /\ host.op = "read"
  BY <1>1, <1>2 DEF HdInv, HdLine, HdRest, HdBusy
<1>4. /\ DataRead(k) /\ UNCHANGED <<selected, cmd>>
      /\ host' = IF k = n
                 THEN [host EXCEPT !.phase = "idle", !.op = "none", !.todo = 0, !.per = 0,
                                   !.block = 0]
                 ELSE [host EXCEPT !.todo = n - k, !.block = n - k, !.phase = "data"]
  <2>1. (k < host.block) <=> (k # n)
    BY <1>1, <1>2
  <2>2. host.todo = n /\ host.block = n
    BY <1>1, <1>2
  <2> QED BY <1>3, <2>1, <2>2 DEF MoveData
<1>5. /\ file' = file /\ out' = out /\ mult' = mult /\ Advanced(k)
  BY <1>1, <1>4 DEF DataRead
<1>6. CASE k = n
  <2>1. /\ xfer' = Stopped /\ status' = {"ready"} /\ UNCHANGED <<pos, reg, nsector, irq>>
    BY <1>1, <1>2, <1>5, <1>6 DEF Advanced
  <2>2. /\ host'.todo = 0 /\ host'.phase = "idle"
        /\ host' \in [phase : {"idle", "await", "poll", "data", "reset"},
                      op : {"none", "read", "write"}, todo : Nat, per : Nat, block : Nat,
                      mult : 0 .. MAXMULT]
    BY <1>4, <1>6 DEF HdInv, HdTypeOK
  <2>3. xfer' \in [left : Nat, sectors : Nat, write : BOOLEAN,
                   done : {"stop", "readnext", "flush", "identify"}]
    BY <2>1 DEF Stopped, HdInv, HdTypeOK
  <2>4. HdTypeOK'
    BY <1>4, <1>5, <2>1, <2>2, <2>3 DEF HdInv, HdTypeOK
  <2>5. "drq" \notin status'
    BY <2>1
  <2>6. HdLine' /\ HdRest' /\ HdBusy'
    BY <1>3, <1>4, <2>1, <2>2, <2>5 DEF HdLine, HdRest, HdBusy
  <2> QED BY <1>5, <2>4, <2>5, <2>6 DEF HdInv
<1>7. CASE k # n
  <2>1. PICK t \in Nat \ {0} : t = n - k
    BY <1>1, <1>2, <1>7
  <2>2. xfer' = [xfer EXCEPT !.left = t] /\ UNCHANGED <<pos, reg, nsector, status, irq>>
    BY <1>1, <1>2, <1>5, <1>7, <2>1 DEF Advanced
  <2>3. /\ host'.todo = t /\ host'.block = t /\ host'.phase = "data" /\ host'.op = "read"
        /\ host'.per = 1
        /\ host' \in [phase : {"idle", "await", "poll", "data", "reset"},
                      op : {"none", "read", "write"}, todo : Nat, per : Nat, block : Nat,
                      mult : 0 .. MAXMULT]
    BY <1>1, <1>3, <1>4, <1>7, <2>1 DEF HdInv, HdTypeOK
  <2>4. /\ xfer'.left = t /\ ~xfer'.write /\ xfer'.done = "identify"
        /\ xfer' \in [left : Nat, sectors : Nat, write : BOOLEAN,
                      done : {"stop", "readnext", "flush", "identify"}]
    BY <1>1, <2>2 DEF HdInv, HdTypeOK
  <2>5. HdTypeOK'
    BY <1>4, <1>5, <2>2, <2>3, <2>4 DEF HdInv, HdTypeOK
  <2>6. Identifying'
    BY <2>3, <2>4 DEF Identifying
  <2>7. HdLine' /\ HdRest' /\ HdBusy'
    BY <1>3, <1>4, <2>1, <2>2, <2>3, <2>4, <2>6 DEF HdLine, HdRest, HdBusy
  <2> QED BY <1>5, <2>4, <2>5, <2>7 DEF HdInv
<1> QED BY <1>6, <1>7

(* The start of a transfer: the registers name its sectors, the file its first,    *)
(* and the drive and the host expect the same block.                             *)
LEMMA Requested ==
    ASSUME NEW q \in Requests
    PROVE  /\ q[1] \in HdRegisters /\ (q[1].lba \/ q[1].sector > 0)
           /\ q[2] \in 0 .. VALUES - 1 /\ Length(q[2]) \in Nat \ {0}
           /\ SectorOf(q[1]) \in Nat /\ <<SectorOf(q[1]), q[2]>> \in HdAsked
           /\ SectorOf(q[1]) + Length(q[2]) <= BLOCKS
<1>1. q[1] \in Addresses /\ q[2] \in 0 .. VALUES - 1 /\ <<SectorOf(q[1]), q[2]>> \in HdAsked
  BY DEF Requests
<1>2. q[1] \in HdRegisters /\ SectorOf(q[1]) \in Nat /\ (q[1].lba \/ q[1].sector > 0)
  <2>1. HEADS \in Nat /\ BLOCKS \in Nat /\ VALUES \in Nat /\ TRACK \in Nat
    BY HdSizes
  <2>2. /\ q[1] \in [lba : BOOLEAN, head : 0 .. HEADS - 1, cyl : 0 .. BLOCKS - 1,
                     sector : 0 .. VALUES - 1]
        /\ SectorOf(q[1]) \in 0 .. BLOCKS - 1 /\ (~q[1].lba => q[1].sector \in 1 .. TRACK)
    BY <1>1 DEF Addresses
  <2>3. q[1].lba \/ q[1].sector > 0
    BY <2>1, <2>2
  <2> HIDE DEF HdRegisters
  <2>4. q[1] \in HdRegisters
    BY <2>1, <2>2 DEF HdRegisters
  <2> QED BY <2>1, <2>2, <2>3, <2>4
<1>3. SectorOf(q[1]) + Length(q[2]) <= BLOCKS
  <2>1. PICK a \in HdAsked : a = <<SectorOf(q[1]), q[2]>>
    BY <1>1
  <2>2. a[1] + (IF a[2] = 0 THEN VALUES ELSE a[2]) <= BLOCKS
    BY HdOnDisk
  <2> QED BY <2>1, <2>2 DEF Length
<1>4. Length(q[2]) \in Nat \ {0}
  BY <1>1, HdSizes DEF Length
<1> QED BY <1>1, <1>2, <1>3, <1>4

LEMMA Armed ==
    ASSUME HdInv, host.phase = "idle", selected, NEW q \in Requests, NEW per \in Nat,
           mult' \in 0 .. MAXMULT, Named(q[1], q[2]), UNCHANGED <<file, selected, cmd>>,
           out' = STORED, per = HdSize',
           \/ /\ SectorRead(q[1], HdMost(q[2])') 
              /\ Wait("await", "read", Length(q[2]) * WORDS, per)
           \/ /\ SectorWrite(q[1], HdMost(q[2])')
              /\ Wait("poll", "write", Length(q[2]) * WORDS, per)
    PROVE  /\ HdInv' /\ "drq" \in status' /\ Transferring'
           /\ pos' = SectorOf(q[1]) * WORDS /\ HdEnd' = (SectorOf(q[1]) + Length(q[2])) * WORDS
<1>1. /\ q[1] \in HdRegisters /\ (q[1].lba \/ q[1].sector > 0)
      /\ q[2] \in 0 .. VALUES - 1 /\ SectorOf(q[1]) \in Nat
      /\ SectorOf(q[1]) + Length(q[2]) <= BLOCKS /\ Length(q[2]) \in Nat \ {0}
  BY Requested
<1>2. PICK b \in Nat \ {0}, l \in Nat, s \in Nat :
         b = HdMost(q[2])' /\ l = Length(q[2]) /\ s = SectorOf(q[1]) /\ b <= l
  <2>1. HdMost(q[2])' \in 1 .. Length(q[2])
    <3>1. (mult \in 0 .. MAXMULT)'
      OBVIOUS
    <3>2. HdSize' \in Nat \ {0}
      BY <3>1, DriveSizes DEF HdSize
    <3> QED BY <1>1, <3>2 DEF HdMost, Length
  <2> QED BY <1>1, <2>1
<1>3. PICK w \in Nat, t \in Nat \ {0}, p \in Nat :
         w = b * WORDS /\ t = l * WORDS /\ p = s * WORDS /\ (s + b) * WORDS - w = p
  <2>1. WORDS \in Nat \ {0} /\ l \in Nat \ {0}
    BY <1>1, <1>2, DriveSizes
  <2>2. b * WORDS \in Nat /\ l * WORDS \in Nat \ {0} /\ s * WORDS \in Nat
    BY <2>1, Z3
  <2>3. (s + b) * WORDS = s * WORDS + b * WORDS
    BY <2>1, Times
  <2> QED BY <2>2, <2>3
<1>4. reg' = q[1] /\ nsector' = q[2] /\ pos' = p
  BY <1>2, <1>3 DEF Named, SectorRead, SectorWrite
<1>5. /\ status' = Idle \cup {"drq"} /\ xfer'.left = w /\ xfer'.sectors = b
      /\ xfer'.done = (IF xfer'.write THEN "flush" ELSE "readnext")
      /\ xfer' \in [left : Nat, sectors : Nat, write : BOOLEAN,
                    done : {"stop", "readnext", "flush", "identify"}]
      /\ irq' = IF xfer'.write THEN irq ELSE RaisedIrq
      /\ host' = [host EXCEPT !.phase = IF xfer'.write THEN "poll" ELSE "await",
                              !.op = IF xfer'.write THEN "write" ELSE "read",
                              !.todo = t, !.per = per]
  <2>1. CASE SectorRead(q[1], b) /\ Wait("await", "read", l * WORDS, per)
    <3>1. xfer' = [left |-> w, sectors |-> b, write |-> FALSE, done |-> "readnext"]
      BY <1>3, <2>1 DEF SectorRead, Arm
    <3> QED BY <1>3, <2>1, <3>1 DEF SectorRead, Arm, Wait
  <2>2. CASE SectorWrite(q[1], b) /\ Wait("poll", "write", l * WORDS, per)
    <3>1. xfer' = [left |-> w, sectors |-> b, write |-> TRUE, done |-> "flush"]
      BY <1>3, <2>2 DEF SectorWrite, Arm
    <3> QED BY <1>3, <2>2, <3>1 DEF SectorWrite, Arm, Wait
  <2> QED BY <1>2, <2>1, <2>2
<1>6. /\ host'.phase = (IF xfer'.write THEN "poll" ELSE "await")
      /\ host'.op = (IF xfer'.write THEN "write" ELSE "read")
      /\ host'.todo = t /\ host'.per = per
      /\ host' \in [phase : {"idle", "await", "poll", "data", "reset"},
                    op : {"none", "read", "write"}, todo : Nat, per : Nat, block : Nat,
                    mult : 0 .. MAXMULT]
  <2>1. host \in [phase : {"idle", "await", "poll", "data", "reset"},
                  op : {"none", "read", "write"}, todo : Nat, per : Nat, block : Nat,
                  mult : 0 .. MAXMULT]
    BY DEF HdInv, HdTypeOK
  <2>2. PICK ph \in {"poll", "await"}, o \in {"read", "write"} :
           /\ ph = (IF xfer'.write THEN "poll" ELSE "await")
           /\ o = (IF xfer'.write THEN "write" ELSE "read")
    OBVIOUS
  <2>3. host' = [host EXCEPT !.phase = ph, !.op = o, !.todo = t, !.per = per]
    BY <1>5, <2>2
  <2>4. /\ host'.phase = ph /\ host'.op = o /\ host'.todo = t /\ host'.per = per
        /\ host' \in [phase : {"idle", "await", "poll", "data", "reset"},
                      op : {"none", "read", "write"}, todo : Nat, per : Nat, block : Nat,
                      mult : 0 .. MAXMULT]
    BY <2>1, <2>3
  <2> QED BY <2>2, <2>4
<1>7. irq = 0 /\ ~cmd.srst /\ RaisedIrq \in 0 .. 1 /\ (~cmd.nien => RaisedIrq = 1)
  BY DEF HdInv, HdLine, HdRest, RaisedIrq
<1>8. "drq" \in status' /\ status' \subseteq {"busy", "ready", "seek", "drq", "err"}
  BY <1>5 DEF Idle
<1>9. HdTypeOK'
  <2>1. irq' \in 0 .. 1 /\ pos' \in Nat /\ reg' \in HdRegisters /\ nsector' \in 0 .. VALUES - 1
    <3>1. irq' = irq \/ irq' = RaisedIrq
      BY <1>5
    <3>2. irq' \in 0 .. 1
      BY <1>7, <3>1
    <3>3. reg' \in HdRegisters /\ nsector' \in 0 .. VALUES - 1
      BY <1>1, <1>4, Zenon
    <3>4. pos' \in Nat
      BY <1>4
    <3> QED BY <3>2, <3>3, <3>4
  <2>2. xfer' \in [left : Nat, sectors : Nat, write : BOOLEAN,
                   done : {"stop", "readnext", "flush", "identify"}]
    BY <1>5
  <2>3. selected' \in BOOLEAN /\ cmd' \in [srst : BOOLEAN, nien : BOOLEAN]
        /\ file' \in [Word -> Word \cup {STORED}] /\ out' \in Word \cup {STORED}
    BY DEF HdInv, HdTypeOK
  <2>4. host' \in [phase : {"idle", "await", "poll", "data", "reset"},
                  op : {"none", "read", "write"}, todo : Nat, per : Nat, block : Nat,
                  mult : 0 .. MAXMULT]
    BY <1>6
  <2> QED BY <1>8, <2>1, <2>2, <2>3, <2>4 DEF HdTypeOK, HdRegisters
<1>10. SectorOf(reg)' = s /\ Length(nsector)' = l /\ HdMost(nsector)' = b
  <2>1. HdMost(nsector)' = IF Length(nsector') <= HdSize' THEN Length(nsector') ELSE HdSize'
    BY DEF HdMost, Length
  <2>2. HdMost(q[2])' = IF Length(q[2]) <= HdSize' THEN Length(q[2]) ELSE HdSize'
    BY DEF HdMost, Length
  <2> QED BY <1>2, <1>4, <2>1, <2>2 DEF SectorOf, Length
<1>11. Transferring'
  <2>1. /\ host'.phase \in {"await", "poll"} /\ xfer'.left = xfer'.sectors * WORDS
        /\ host'.todo = l * WORDS
    BY <1>3, <1>5, <1>6
  <2>2. pos' = (s + xfer'.sectors) * WORDS - xfer'.left
    BY <1>3, <1>4, <1>5
  <2>3. reg'.lba \/ reg'.sector > 0
    BY <1>1, <1>4
  <2>4. host'.per = HdSize' /\ xfer'.sectors = HdMost(nsector)' /\ s + l <= BLOCKS
    BY <1>1, <1>2, <1>5, <1>6, <1>10
  <2> QED BY <1>5, <1>10, <2>1, <2>2, <2>3, <2>4 DEF Transferring
<1>12. HdLine' /\ HdRest' /\ HdBusy'
  <2>1. host'.todo > 0
    BY <1>6
  <2>2. xfer'.write \in BOOLEAN
    BY <1>5
  <2> QED BY <1>5, <1>6, <1>7, <1>8, <1>11, <2>1, <2>2 DEF HdLine, HdRest, HdBusy
<1>13. HdEnd' = (s + l) * WORDS
  BY <1>10 DEF HdEnd
<1> QED BY <1>2, <1>3, <1>4, <1>8, <1>9, <1>11, <1>12, <1>13 DEF HdInv

(* A command that ends at once.                                                *)
LEMMA Ended ==
    ASSUME HdInv, host.phase = "idle", selected, NEW bits \in SUBSET {"ready", "seek", "err"},
           EndsAt(bits), reg' \in HdRegisters, nsector' \in 0 .. VALUES - 1,
           mult' \in 0 .. MAXMULT, UNCHANGED <<file, selected, cmd>>, out' = STORED,
           host'.phase = "await" /\ host'.todo = 0,
           host' \in [phase : {"idle", "await", "poll", "data", "reset"},
                      op : {"none", "read", "write"}, todo : Nat, per : Nat, block : Nat,
                      mult : 0 .. MAXMULT]
    PROVE  HdInv' /\ "drq" \notin status'
<1>1. status' = bits /\ irq' = RaisedIrq /\ UNCHANGED <<pos, xfer>>
  BY DEF EndsAt
<1>2. irq = 0 /\ ~cmd.srst /\ RaisedIrq \in 0 .. 1 /\ (~cmd.nien => RaisedIrq = 1)
  BY DEF HdInv, HdLine, HdRest, RaisedIrq
<1>3. "drq" \notin status' /\ status' \subseteq {"busy", "ready", "seek", "drq", "err"}
  BY <1>1
<1>4. HdTypeOK'
  BY <1>1, <1>2, <1>3 DEF HdInv, HdTypeOK, HdRegisters
<1>5. HdLine' /\ HdRest' /\ HdBusy'
  BY <1>1, <1>2, <1>3 DEF HdLine, HdRest, HdBusy
<1> QED BY <1>3, <1>4, <1>5 DEF HdInv

(* A command either starts a transfer that the host asked for or moves nothing.     *)
LEMMA TransferKeeps ==
    ASSUME HdInv, host.phase = "idle", selected, NEW c \in CommandNames, NEW q \in Requests,
           Transfer(c, q[1], q[2]), UNCHANGED <<file, selected, cmd>>, out' = STORED
    PROVE  /\ HdInv'
           /\ \/ "drq" \notin status'
              \/ /\ "drq" \in status' /\ Transferring' /\ pos' = SectorOf(q[1]) * WORDS
                 /\ HdEnd' = (SectorOf(q[1]) + Length(q[2])) * WORDS
<1>1. /\ q[1] \in HdRegisters /\ q[2] \in 0 .. VALUES - 1 /\ SectorOf(q[1]) \in Nat
      /\ Length(q[2]) \in Nat \ {0} /\ 1 \in 0 .. MAXMULT /\ mult \in 0 .. MAXMULT
      /\ reg \in HdRegisters /\ nsector \in 0 .. VALUES - 1
  <2>1. /\ mult \in 0 .. MAXMULT /\ reg \in HdRegisters /\ nsector \in 0 .. VALUES - 1
    BY DEF HdInv, HdTypeOK, HdRegisters
  <2>2. 1 \in 0 .. MAXMULT
    BY HdSizes
  <2> QED BY <2>1, <2>2, Requested
<1>2. CASE \/ ReadSectors(q[1], q[2]) /\ Wait("await", "read", Length(q[2]) * WORDS, 1)
           \/ WriteSectors(q[1], q[2]) /\ Wait("poll", "write", Length(q[2]) * WORDS, 1)
  <2>1. mult' = 1 /\ Named(q[1], q[2])
    BY <1>2 DEF ReadSectors, WriteSectors
  <2>2. 1 = HdSize' /\ HdMost(q[2])' = 1
    BY <1>1, <2>1 DEF HdSize, HdMost, Length
  <2>3. \/ /\ SectorRead(q[1], HdMost(q[2])')
           /\ Wait("await", "read", Length(q[2]) * WORDS, 1)
        \/ /\ SectorWrite(q[1], HdMost(q[2])')
           /\ Wait("poll", "write", Length(q[2]) * WORDS, 1)
    BY <1>2, <2>2 DEF ReadSectors, WriteSectors
  <2>4. mult' \in 0 .. MAXMULT /\ 1 \in Nat
    BY <1>1, <2>1
  <2> QED BY <2>1, <2>2, <2>3, <2>4, Armed
<1>3. CASE mult # 0 /\
           \/ ReadMultiple(q[1], q[2]) /\ Wait("await", "read", Length(q[2]) * WORDS, mult)
           \/ WriteMultiple(q[1], q[2]) /\ Wait("poll", "write", Length(q[2]) * WORDS, mult)
  <2>1. mult' = mult /\ Named(q[1], q[2])
    BY <1>3 DEF ReadMultiple, WriteMultiple
  <2>2. mult = HdSize' /\ HdMost(q[2])' = Block(q[2])
    <3>1. HdSize' = HdSize /\ HdMost(q[2])' = HdMost(q[2]) /\ HdSize = mult
      BY <1>3, <2>1 DEF HdSize, HdMost, Length
    <3> QED BY <1>1, <3>1, BlockIs
  <2>3. \/ /\ SectorRead(q[1], HdMost(q[2])')
           /\ Wait("await", "read", Length(q[2]) * WORDS, mult)
        \/ /\ SectorWrite(q[1], HdMost(q[2])')
           /\ Wait("poll", "write", Length(q[2]) * WORDS, mult)
    BY <1>3, <2>2 DEF ReadMultiple, WriteMultiple
  <2>4. mult' \in 0 .. MAXMULT
    BY <1>1, <2>1
  <2>5. PICK n \in Nat : n = mult
    BY <1>1
  <2> QED BY <2>1, <2>2, <2>3, <2>4, <2>5, Armed
<1>4. CASE Unknown /\ Wait("await", "none", 0, 0)
  <2>1. EndsAt({"ready", "err"}) /\ UNCHANGED <<reg, nsector, mult>>
    BY <1>4 DEF Unknown
  <2>2. /\ host'.phase = "await" /\ host'.todo = 0
        /\ host' \in [phase : {"idle", "await", "poll", "data", "reset"},
                      op : {"none", "read", "write"}, todo : Nat, per : Nat, block : Nat,
                      mult : 0 .. MAXMULT]
    BY <1>4 DEF Wait, HdInv, HdTypeOK
  <2>3. {"ready", "err"} \in SUBSET {"ready", "seek", "err"}
    OBVIOUS
  <2> QED BY <1>1, <2>1, <2>2, <2>3, Ended
<1> QED BY <1>2, <1>3, <1>4 DEF Transfer, ReadMultiple, WriteMultiple

LEMMA OtherKeeps ==
    ASSUME HdInv, host.phase = "idle", selected, NEW c \in CommandNames, Other(c),
           UNCHANGED <<file, selected, cmd>>, out' = STORED
    PROVE  HdInv' /\ ("drq" \notin status' \/ xfer'.done = "identify")
<1>1. /\ reg \in HdRegisters /\ nsector \in 0 .. VALUES - 1 /\ mult \in 0 .. MAXMULT
      /\ host \in [phase : {"idle", "await", "poll", "data", "reset"},
                   op : {"none", "read", "write"}, todo : Nat, per : Nat, block : Nat,
                   mult : 0 .. MAXMULT]
      /\ host.todo = 0 /\ VALUES - 1 \in 0 .. VALUES - 1
  BY DriveSizes DEF HdInv, HdTypeOK, HdRest, HdRegisters
<1>2. /\ Idle \in SUBSET {"ready", "seek", "err"}
      /\ {"ready"} \in SUBSET {"ready", "seek", "err"}
      /\ {"ready", "err"} \in SUBSET {"ready", "seek", "err"}
  BY DEF Idle
<1>3. ASSUME NEW o \in {"none"}, Wait("await", o, 0, 0)
      PROVE  /\ host'.phase = "await" /\ host'.todo = 0
             /\ host' \in [phase : {"idle", "await", "poll", "data", "reset"},
                           op : {"none", "read", "write"}, todo : Nat, per : Nat, block : Nat,
                           mult : 0 .. MAXMULT]
  BY <1>1, <1>3 DEF Wait
<1>4. CASE Identify /\ Wait("await", "read", WORDS, 1)
  <2>1. PICK w \in Nat \ {0} : w = WORDS
    BY DriveSizes
  <2>2. /\ xfer'.left = w /\ ~xfer'.write /\ xfer'.done = "identify"
        /\ xfer' \in [left : Nat, sectors : Nat, write : BOOLEAN,
                      done : {"stop", "readnext", "flush", "identify"}]
    BY <1>4, <2>1 DEF Identify, HdInv, HdTypeOK
  <2>3. status' = Idle \cup {"drq"} /\ irq' = RaisedIrq /\ UNCHANGED <<pos, reg, nsector, mult>>
    BY <1>4 DEF Identify
  <2>4. /\ host'.phase = "await" /\ host'.op = "read" /\ host'.todo = w /\ host'.per = 1
        /\ host' \in [phase : {"idle", "await", "poll", "data", "reset"},
                      op : {"none", "read", "write"}, todo : Nat, per : Nat, block : Nat,
                      mult : 0 .. MAXMULT]
    BY <1>1, <1>4, <2>1 DEF Wait
  <2>5. irq = 0 /\ ~cmd.srst /\ RaisedIrq \in 0 .. 1 /\ (~cmd.nien => RaisedIrq = 1)
    BY DEF HdInv, HdLine, HdRest, RaisedIrq
  <2>6. status' \subseteq {"busy", "ready", "seek", "drq", "err"} /\ "drq" \in status'
    BY <2>3 DEF Idle
  <2>7. HdTypeOK'
    BY <2>2, <2>3, <2>4, <2>5, <2>6 DEF HdInv, HdTypeOK
  <2>8. Identifying'
    BY <2>1, <2>2, <2>4 DEF Identifying
  <2>9. HdLine' /\ HdRest' /\ HdBusy'
    BY <2>2, <2>3, <2>4, <2>5, <2>6, <2>8 DEF HdLine, HdRest, HdBusy
  <2> QED BY <2>2, <2>7, <2>9 DEF HdInv
<1>5. CASE \E n \in Multiples : SetMultiple(n)
               /\ host' = [host EXCEPT !.phase = "await", !.mult = mult']
  <2>1. PICK n \in Multiples : SetMultiple(n)
               /\ host' = [host EXCEPT !.phase = "await", !.mult = mult']
    BY <1>5
  <2>2. EndsAt({"ready"}) /\ reg' = reg /\ nsector' = n /\ n \in 0 .. VALUES - 1
    BY <2>1, HdSizes DEF SetMultiple
  <2>3. mult' \in 0 .. MAXMULT
    <3>1. (mult' = n /\ n \in 0 .. MAXMULT) \/ mult' = mult
      BY <2>1 DEF SetMultiple
    <3> QED BY <1>1, <3>1
  <2>4. /\ host'.phase = "await" /\ host'.todo = 0
        /\ host' \in [phase : {"idle", "await", "poll", "data", "reset"},
                      op : {"none", "read", "write"}, todo : Nat, per : Nat, block : Nat,
                      mult : 0 .. MAXMULT]
    <3>1. PICK m \in 0 .. MAXMULT : m = mult'
      BY <2>3
    <3>2. host' = [host EXCEPT !.phase = "await", !.mult = m]
      BY <2>1, <3>1
    <3> QED BY <1>1, <3>2
  <2>5. nsector' \in 0 .. VALUES - 1 /\ reg' \in HdRegisters
    BY <1>1, <2>2
  <2> QED BY <1>2, <2>2, <2>3, <2>4, <2>5, Ended
<1>6. CASE ReadNativeMax /\ Wait("await", "none", 0, 0)
  <2>1. EndsAt(Idle) /\ reg' = WithSector(reg, BLOCKS - 1) /\ nsector' = nsector /\ mult' = mult
    BY <1>6 DEF ReadNativeMax
  <2>2. reg' \in HdRegisters
    <3>1. BLOCKS - 1 \in Nat
      BY DriveSizes
    <3> QED BY <1>1, <2>1, <3>1, NamesIt
  <2> QED BY <1>1, <1>2, <1>3, <1>6, <2>1, <2>2, Ended
<1>7. CASE CheckPowerMode /\ Wait("await", "none", 0, 0)
  <2>1. EndsAt(Idle) /\ nsector' = VALUES - 1 /\ reg' = reg /\ mult' = mult
    BY <1>7 DEF CheckPowerMode
  <2> QED BY <1>1, <1>2, <1>3, <1>7, <2>1, Ended
<1>8. CASE Recalibrate /\ Wait("await", "none", 0, 0)
  <2>1. EndsAt(Idle) /\ nsector' = nsector /\ reg' = reg /\ mult' = mult
    BY <1>8 DEF Recalibrate
  <2> QED BY <1>1, <1>2, <1>3, <1>8, <2>1, Ended
<1>9. CASE Unknown /\ Wait("await", "none", 0, 0)
  <2>1. EndsAt({"ready", "err"}) /\ nsector' = nsector /\ reg' = reg /\ mult' = mult
    BY <1>9 DEF Unknown
  <2> QED BY <1>1, <1>2, <1>3, <1>9, <2>1, Ended
<1> QED BY <1>4, <1>5, <1>6, <1>7, <1>8, <1>9 DEF Other

(* The host's other accesses, and the resets.                                  *)
LEMMA WaitsKeep ==
    ASSUME HdInv, ReadStatus \/ PollStatus
    PROVE  HdInv' /\ HdJob' = HdJob
<1> DEFINE blk == Min({host.todo, host.per * WORDS})
<1>1. /\ UNCHANGED <<file, pos, reg, nsector, status, mult, xfer, out, selected, cmd>>
      /\ irq' = IF ReadStatus THEN 0 ELSE irq
  BY DEF ReadStatus, PollStatus, drive
<1>2. CASE host.todo > 0
  <2>1. "drq" \in status /\ host.phase \in {"await", "poll"} /\ ~cmd.srst /\ selected
    BY <1>2 DEF HdInv, HdBusy, HdLine, HdRest, ReadStatus, PollStatus
  <2>2. host' = [host EXCEPT !.phase = "data", !.block = blk] /\ irq' \in 0 .. 1 /\ irq' = 0
    BY <1>1, <1>2, <2>1 DEF ReadStatus, PollStatus, HdInv, HdLine
  <2>3. blk = xfer.left /\ blk \in Nat
    <3>1. host.todo \in Nat /\ host.per \in Nat /\ WORDS \in Nat \ {0} /\ host.per * WORDS \in Nat
      <4>1. host.todo \in Nat /\ host.per \in Nat /\ WORDS \in Nat \ {0}
        BY DriveSizes DEF HdInv, HdTypeOK
      <4> QED BY <4>1, Z3
    <3>2. blk = IF host.todo <= host.per * WORDS THEN host.todo ELSE host.per * WORDS
      BY <3>1, MinOfTwo
    <3>3. CASE Transferring
      <4>1. PICK l \in Nat \ {0}, z \in Nat \ {0} : l = Length(nsector) /\ z = HdSize
        <5>1. nsector \in 0 .. VALUES - 1 /\ mult \in 0 .. MAXMULT
          BY DEF HdInv, HdTypeOK
        <5>2. Length(nsector) \in 1 .. VALUES /\ HdSize \in Nat \ {0} /\ VALUES \in Nat
          BY <5>1, BlockIs, DriveSizes
        <5> QED BY <5>2
      <4>2. /\ xfer.left = (IF l <= z THEN l ELSE z) * WORDS /\ host.todo = l * WORDS
            /\ host.per = z
        BY <2>1, <3>3, <4>1 DEF Transferring, HdMost
      <4>3. /\ l * WORDS \in Int /\ z * WORDS \in Int
            /\ (l <= z => l * WORDS <= z * WORDS) /\ (z <= l => z * WORDS <= l * WORDS)
        BY <3>1, Times
      <4> HIDE DEF blk
      <4>4. CASE l <= z
        BY <3>2, <4>2, <4>3, <4>4, <3>1
      <4>5. CASE ~(l <= z)
        BY <3>2, <4>2, <4>3, <4>5, <3>1
      <4> QED BY <4>4, <4>5
    <3>4. CASE Identifying
      <4>1. host.per * WORDS = WORDS /\ host.todo = xfer.left
        BY <3>1, <3>4 DEF Identifying
      <4>2. xfer.left <= WORDS
        <5>1. host.phase = "await"
          BY <2>1, <3>4 DEF Identifying
        <5> QED BY <3>1, <3>4, <5>1 DEF Identifying
      <4> HIDE DEF blk
      <4> QED BY <3>1, <3>2, <4>1, <4>2
    <3> QED BY <1>2, <3>3, <3>4 DEF HdInv, HdBusy, HdTypeOK
  <2> HIDE DEF blk
  <2>4. /\ host'.phase = "data" /\ host'.block = xfer.left /\ host'.todo = host.todo
        /\ host'.op = host.op /\ host'.per = host.per
        /\ host' \in [phase : {"idle", "await", "poll", "data", "reset"},
                      op : {"none", "read", "write"}, todo : Nat, per : Nat, block : Nat,
                      mult : 0 .. MAXMULT]
    BY <2>2, <2>3 DEF HdInv, HdTypeOK
  <2>5. HdTypeOK'
    BY <1>1, <2>2, <2>4 DEF HdInv, HdTypeOK
  <2>6. Transferring => Transferring'
    <3> SUFFICES ASSUME Transferring PROVE Transferring'
      OBVIOUS
    <3>1. /\ xfer.left = xfer.sectors * WORDS /\ host.todo = Length(nsector) * WORDS
          /\ host.per = HdSize
      BY <2>1 DEF Transferring
    <3>2. /\ xfer.left \in 1 .. xfer.sectors * WORDS
          /\ (Length(nsector) - xfer.sectors) * WORDS + xfer.left = Length(nsector) * WORDS
      <4>1. PICK l \in Nat, m \in Nat : l = Length(nsector) /\ m = xfer.sectors /\ xfer.left \in 1 .. m * WORDS
        BY Inside DEF HdInv, HdTypeOK
      <4>2. (l - m) * WORDS = l * WORDS - m * WORDS /\ l * WORDS \in Int /\ m * WORDS \in Int
        BY DriveSizes, Times
      <4>3. xfer.left = m * WORDS
        BY <3>1, <4>1
      <4> QED BY <4>1, <4>2, <4>3
    <3>3. /\ SectorOf(reg)' = SectorOf(reg) /\ Length(nsector)' = Length(nsector)
          /\ HdSize' = HdSize /\ HdMost(nsector)' = HdMost(nsector)
      BY <1>1 DEF SectorOf, Length, HdSize, HdMost
    <3>4. /\ xfer.sectors = HdMost(nsector) /\ xfer.done = (IF xfer.write THEN "flush" ELSE "readnext")
          /\ (reg.lba \/ reg.sector > 0)
          /\ pos = (SectorOf(reg) + xfer.sectors) * WORDS - xfer.left
          /\ SectorOf(reg) + Length(nsector) <= BLOCKS
      BY DEF Transferring
    <3>5. host'.todo = (Length(nsector) - xfer.sectors) * WORDS + host'.block
      BY <2>4, <3>1, <3>2
    <3> QED BY <1>1, <2>4, <3>1, <3>2, <3>3, <3>4, <3>5 DEF Transferring
  <2>7. Identifying => Identifying'
    BY <1>1, <2>4 DEF Identifying
  <2>8. HdLine' /\ HdRest' /\ HdBusy'
    <3>1. Transferring' \/ Identifying'
      BY <1>2, <2>6, <2>7 DEF HdInv, HdBusy
    <3>2. "drq" \in status' /\ host'.todo > 0 /\ selected' /\ ~cmd'.srst
          /\ host'.op = (IF xfer'.write THEN "write" ELSE "read")
      BY <1>1, <1>2, <2>1, <2>4 DEF HdInv, HdBusy
    <3> QED BY <2>2, <2>4, <3>1, <3>2 DEF HdLine, HdRest, HdBusy
  <2> QED BY <1>1, <2>5, <2>8 DEF HdInv, HdJob, Moving, SectorOf, Length
<1>3. CASE ~(host.todo > 0)
  <2>1. host.todo = 0 /\ "drq" \notin status
    BY <1>3 DEF HdInv, HdTypeOK, HdRest
  <2>2. ReadStatus /\ host.phase = "await" /\ irq' = 0
    BY <2>1 DEF ReadStatus, PollStatus
  <2>3. host' = [host EXCEPT !.phase = "idle", !.op = "none", !.todo = 0, !.per = 0]
    BY <1>3, <2>2 DEF ReadStatus
  <2>4. /\ host'.phase = "idle" /\ host'.todo = 0
        /\ host' \in [phase : {"idle", "await", "poll", "data", "reset"},
                      op : {"none", "read", "write"}, todo : Nat, per : Nat, block : Nat,
                      mult : 0 .. MAXMULT]
    BY <2>3 DEF HdInv, HdTypeOK
  <2>5. selected /\ ~cmd.srst
    BY <2>2 DEF HdInv, HdLine, HdRest
  <2>6. HdTypeOK'
    BY <1>1, <2>2, <2>4 DEF HdInv, HdTypeOK
  <2>7. HdLine' /\ HdRest' /\ HdBusy'
    BY <1>1, <2>1, <2>2, <2>4, <2>5 DEF HdLine, HdRest, HdBusy
  <2> QED BY <1>1, <2>6, <2>7 DEF HdInv, HdJob, Moving, SectorOf, Length
<1> QED BY <1>2, <1>3

LEMMA ResetsKeep ==
    ASSUME HdInv, HdResetOn \/ HdResetOff \/ Settle \/ SelectDrive \/ SetControl
    PROVE  HdInv' /\ file' = file /\ out' = out /\ (HdResetOn \/ HdJob' = HdJob)
           /\ (HdResetOn => "drq" \notin status')
<1>1. CASE HdResetOn
  <2>1. /\ ~cmd.srst /\ cmd' = [cmd EXCEPT !.srst = TRUE] /\ status' = {"busy", "seek"}
        /\ host' = [host EXCEPT !.phase = "reset", !.op = "none", !.todo = 0, !.per = 0,
                                !.block = 0]
        /\ UNCHANGED <<file, pos, reg, nsector, mult, xfer, irq, out, selected>>
    BY <1>1 DEF HdResetOn
  <2>2. /\ host'.phase = "reset" /\ host'.todo = 0
        /\ host' \in [phase : {"idle", "await", "poll", "data", "reset"},
                      op : {"none", "read", "write"}, todo : Nat, per : Nat, block : Nat,
                      mult : 0 .. MAXMULT]
        /\ cmd' \in [srst : BOOLEAN, nien : BOOLEAN]
    BY <2>1 DEF HdInv, HdTypeOK
  <2>3. "drq" \notin status' /\ status' \subseteq {"busy", "ready", "seek", "drq", "err"}
    BY <2>1
  <2>4. HdTypeOK'
    BY <2>1, <2>2, <2>3 DEF HdInv, HdTypeOK
  <2>5. HdLine' /\ HdRest' /\ HdBusy'
    BY <2>1, <2>2, <2>3 DEF HdInv, HdLine, HdRest, HdBusy
  <2> QED BY <1>1, <2>1, <2>3, <2>4, <2>5 DEF HdInv
<1>2. CASE HdResetOff
  <2>1. /\ cmd.srst /\ cmd' = [cmd EXCEPT !.srst = FALSE] /\ status' = Idle
        /\ reg' = [reg EXCEPT !.head = 0, !.cyl = 0, !.sector = 1] /\ nsector' = 1
        /\ UNCHANGED <<file, pos, mult, xfer, irq, out, selected, host>>
    BY <1>2 DEF HdResetOff
  <2>2. /\ host.phase = "reset" /\ host.todo = 0 /\ "drq" \notin status
    BY <2>1 DEF HdInv, HdRest
  <2>3. /\ "drq" \notin status' /\ status' \subseteq {"busy", "ready", "seek", "drq", "err"}
        /\ nsector' \in 0 .. VALUES - 1 /\ reg' \in HdRegisters
        /\ cmd' \in [srst : BOOLEAN, nien : BOOLEAN]
    <3>1. "drq" \notin status' /\ status' \subseteq {"busy", "ready", "seek", "drq", "err"}
      BY <2>1 DEF Idle
    <3>2. nsector' \in 0 .. VALUES - 1
      BY <2>1, DriveSizes
    <3> QED BY <2>1, <3>1, <3>2 DEF HdInv, HdTypeOK, HdRegisters
  <2>4. HdTypeOK'
    BY <2>1, <2>3 DEF HdInv, HdTypeOK, HdRegisters
  <2>5. HdLine' /\ HdRest' /\ HdBusy'
    BY <2>1, <2>2, <2>3 DEF HdInv, HdLine, HdRest, HdBusy
  <2> QED BY <2>1, <2>2, <2>3, <2>4, <2>5, <1>2 DEF HdInv, HdJob, Moving, HdResetOn
<1>3. CASE Settle
  <2>1. /\ host.phase = "reset" /\ ~cmd.srst /\ irq' = (IF selected THEN 0 ELSE irq)
        /\ host' = [host EXCEPT !.phase = "idle"]
        /\ UNCHANGED <<file, pos, reg, nsector, status, mult, xfer, out, selected, cmd>>
    BY <1>3 DEF Settle
  <2>2. host.todo = 0 /\ irq' = 0 /\ "drq" \notin status
    BY <2>1 DEF HdInv, HdRest, HdLine
  <2>3. /\ host'.phase = "idle" /\ host'.todo = 0
        /\ host' \in [phase : {"idle", "await", "poll", "data", "reset"},
                      op : {"none", "read", "write"}, todo : Nat, per : Nat, block : Nat,
                      mult : 0 .. MAXMULT]
    BY <2>1, <2>2 DEF HdInv, HdTypeOK
  <2>4. HdTypeOK'
    BY <2>1, <2>2, <2>3 DEF HdInv, HdTypeOK
  <2>5. HdLine' /\ HdRest' /\ HdBusy'
    BY <2>1, <2>2, <2>3 DEF HdInv, HdLine, HdRest, HdBusy
  <2>6. ~HdResetOn
    BY <2>1 DEF HdResetOn, HdInv, HdTypeOK
  <2> QED BY <2>1, <2>4, <2>5, <2>6 DEF HdInv, HdJob, Moving, SectorOf, Length
<1>4. CASE SelectDrive
  <2>1. /\ host.phase = "idle" /\ selected' = ~selected
        /\ UNCHANGED <<file, pos, reg, nsector, status, mult, xfer, irq, out, cmd, host>>
    BY <1>4 DEF SelectDrive, Fresh, drive
  <2>2. host.todo = 0 /\ irq = 0 /\ "drq" \notin status
    BY <2>1 DEF HdInv, HdRest, HdLine
  <2>3. HdTypeOK'
    BY <2>1 DEF HdInv, HdTypeOK
  <2>4. HdLine' /\ HdRest' /\ HdBusy'
    BY <2>1, <2>2 DEF HdInv, HdLine, HdRest, HdBusy
  <2> QED BY <1>4, <2>1, <2>2, <2>3, <2>4 DEF HdInv, HdJob, Moving, HdResetOn
<1>5. CASE SetControl
  <2>1. /\ host.phase = "idle" /\ cmd' = [cmd EXCEPT !.nien = ~cmd.nien]
        /\ UNCHANGED <<file, pos, reg, nsector, status, mult, xfer, irq, out, selected, host>>
    BY <1>5 DEF SetControl, Fresh, drive
  <2>2. host.todo = 0 /\ irq = 0 /\ "drq" \notin status /\ ~cmd.srst
    BY <2>1 DEF HdInv, HdRest, HdLine
  <2>3. cmd' \in [srst : BOOLEAN, nien : BOOLEAN] /\ cmd'.srst = cmd.srst
    BY <2>1 DEF HdInv, HdTypeOK
  <2>4. HdTypeOK'
    BY <2>1, <2>3 DEF HdInv, HdTypeOK
  <2>5. HdLine' /\ HdRest' /\ HdBusy'
    BY <2>1, <2>2, <2>3 DEF HdInv, HdLine, HdRest, HdBusy
  <2> QED BY <1>5, <2>1, <2>2, <2>3, <2>4, <2>5 DEF HdInv, HdJob, Moving, HdResetOn
<1> QED BY <1>1, <1>2, <1>3, <1>4, <1>5

LEMMA HdStarts == HdInit => HdInv
<1> SUFFICES ASSUME HdInit PROVE HdInv
  OBVIOUS
<1>1. /\ MAXMULT \in 0 .. MAXMULT /\ 0 \in 0 .. VALUES - 1
  BY DriveSizes
<1>2. /\ file \in [Word -> Word \cup {STORED}] /\ pos \in Nat /\ reg \in HdRegisters
      /\ nsector \in 0 .. VALUES - 1 /\ status \subseteq {"busy", "ready", "seek", "drq", "err"}
      /\ mult \in 0 .. MAXMULT /\ selected /\ ~cmd.srst
      /\ cmd \in [srst : BOOLEAN, nien : BOOLEAN] /\ irq = 0 /\ out \in Word \cup {STORED}
  BY <1>1 DEF HdInit, HdRegisters, Idle
<1>3. /\ xfer \in [left : Nat, sectors : Nat, write : BOOLEAN,
                   done : {"stop", "readnext", "flush", "identify"}]
      /\ host \in [phase : {"idle", "await", "poll", "data", "reset"},
                   op : {"none", "read", "write"}, todo : Nat, per : Nat, block : Nat,
                   mult : 0 .. MAXMULT]
      /\ host.phase = "idle" /\ host.todo = 0
  BY <1>1 DEF HdInit
<1>4. "drq" \notin status
  BY DEF HdInit, Idle
<1> QED BY <1>2, <1>3, <1>4 DEF HdInv, HdTypeOK, HdLine, HdRest, HdBusy, HdRegisters

(* The job the registers tell is that of the invariant.                         *)
LEMMA JobIs ==
    HdInv => IF "drq" \in status /\ xfer.done # "identify"
             THEN /\ Transferring
                  /\ HdJob = [op |-> IF xfer.write THEN "write" ELSE "read",
                              at |-> pos, end |-> HdEnd]
                  /\ HdJob # Stream!NoJob
             ELSE HdJob = Stream!NoJob
<1> SUFFICES ASSUME HdInv
             PROVE  IF "drq" \in status /\ xfer.done # "identify"
                    THEN /\ Transferring
                         /\ HdJob = [op |-> IF xfer.write THEN "write" ELSE "read",
                                     at |-> pos, end |-> HdEnd]
                         /\ HdJob # Stream!NoJob
                    ELSE HdJob = Stream!NoJob
  OBVIOUS
<1>1. CASE "drq" \in status /\ xfer.done # "identify"
  <2>1. Transferring
    <3>1. host.todo > 0
      BY <1>1 DEF HdInv, HdTypeOK, HdRest
    <3> QED BY <1>1, <3>1 DEF HdInv, HdBusy, Identifying
  <2>2. Moving
    BY <1>1, <2>1 DEF Moving, Transferring
  <2>3. pos = (SectorOf(reg) + xfer.sectors) * WORDS - xfer.left
    BY <2>1 DEF Transferring
  <2>4. HdJob = [op |-> IF xfer.write THEN "write" ELSE "read", at |-> pos, end |-> HdEnd]
    BY <2>2, <2>3 DEF HdJob, HdEnd
  <2>5. HdJob # Stream!NoJob
    BY <2>4 DEF Stream!NoJob
  <2> QED BY <1>1, <2>1, <2>4, <2>5
<1>2. CASE ~("drq" \in status /\ xfer.done # "identify")
  BY <1>2 DEF HdJob, Moving, Stream!NoJob
<1> QED BY <1>1, <1>2

LEMMA HdSteps ==
    ASSUME HdInv, [HdNext]_hdvars
    PROVE  HdInv' /\ [Stream!StreamNext]_<<file, HdJob, out>>
<1> DEFINE JobTold == IF "drq" \in status /\ xfer.done # "identify"
                      THEN /\ Transferring
                           /\ HdJob = [op |-> IF xfer.write THEN "write" ELSE "read",
                                       at |-> pos, end |-> HdEnd]
                           /\ HdJob # Stream!NoJob
                      ELSE HdJob = Stream!NoJob
<1>1. JobTold
  BY JobIs
<1>2. HdInv' => JobTold'
  BY JobIs, PTL
<1>3. CASE UNCHANGED hdvars
  BY <1>3 DEF hdvars, drive, HdInv, HdTypeOK, HdLine, HdRest, HdBusy, Transferring, Identifying,
     HdSize, HdMost, Length, SectorOf, HdJob, Moving
<1>4. CASE SelectDrive \/ SetControl \/ HdResetOn \/ HdResetOff \/ Settle
  <2>1. /\ HdInv' /\ file' = file /\ out' = out /\ (HdResetOn \/ HdJob' = HdJob)
        /\ (HdResetOn => "drq" \notin status')
    BY <1>4, ResetsKeep
  <2>2. CASE HdResetOn
    <3>1. HdJob' = Stream!NoJob'
      BY <1>2, <2>1, <2>2
    <3>2. Stream!NoJob' = Stream!NoJob
      BY DEF Stream!NoJob
    <3>3. Stream!Abort \/ UNCHANGED <<file, HdJob, out>>
      BY <2>1, <3>1, <3>2 DEF Stream!Abort
    <3> QED BY <2>1, <3>3 DEF Stream!StreamNext
  <2> QED BY <2>1, <2>2
<1>5. CASE ReadStatus \/ PollStatus
  <2>1. file' = file /\ out' = out
    BY <1>5 DEF ReadStatus, PollStatus, drive
  <2> QED BY <1>5, <2>1, WaitsKeep
<1>6. ASSUME NEW c \in CommandNames, Command(c)
      PROVE  HdInv' /\ [Stream!StreamNext]_<<file, HdJob, out>>
  <2>1. /\ host.phase = "idle" /\ selected /\ out' = STORED /\ UNCHANGED <<file, selected, cmd>>
        /\ (\E q \in Requests : Transfer(c, q[1], q[2])) \/ Other(c)
    BY <1>6 DEF Command
  <2>2. HdJob = Stream!NoJob
    <3>1. "drq" \notin status
      BY <2>1 DEF HdInv, HdRest
    <3> QED BY <1>1, <3>1
  <2>3. Stream!NoJob' = Stream!NoJob
    BY DEF Stream!NoJob
  <2>4. ASSUME HdInv', "drq" \notin status' \/ xfer'.done = "identify"
        PROVE  [Stream!StreamNext]_<<file, HdJob, out>>
    <3>1. HdJob' = Stream!NoJob
      BY <1>2, <2>3, <2>4
    <3>2. Stream!Other
      BY <2>1, <2>2, <3>1 DEF Stream!Other
    <3> QED BY <3>2 DEF Stream!StreamNext
  <2>5. ASSUME NEW q \in Requests, Transfer(c, q[1], q[2])
        PROVE  HdInv' /\ [Stream!StreamNext]_<<file, HdJob, out>>
    <3>1. /\ HdInv'
          /\ \/ "drq" \notin status'
             \/ /\ "drq" \in status' /\ Transferring' /\ pos' = SectorOf(q[1]) * WORDS
                /\ HdEnd' = (SectorOf(q[1]) + Length(q[2])) * WORDS
      BY <2>1, <2>5, TransferKeeps
    <3>2. CASE "drq" \in status' /\ Transferring' /\ pos' = SectorOf(q[1]) * WORDS
                /\ HdEnd' = (SectorOf(q[1]) + Length(q[2])) * WORDS
      <4>1. xfer'.done # "identify"
        BY <3>2 DEF Transferring
      <4>2. PICK op \in {"read", "write"} : op = IF xfer'.write THEN "write" ELSE "read"
        OBVIOUS
      <4>3. HdJob' = [op |-> op, at |-> SectorOf(q[1]) * WORDS,
                      end |-> (SectorOf(q[1]) + Length(q[2])) * WORDS]
        BY <1>2, <3>1, <3>2, <4>1, <4>2
      <4>4. PICK r \in AskedRuns : r[1] = SectorOf(q[1]) /\ r[2] = Length(q[2])
        <5>1. <<SectorOf(q[1]), q[2]>> \in HdAsked
          BY Requested
        <5>2. <<SectorOf(q[1]), Length(q[2])>> \in AskedRuns
          BY <5>1 DEF AskedRuns
        <5> QED BY <5>2
      <4>5. Stream!Start(op, r[1], r[2])
        BY <2>1, <2>2, <4>3, <4>4 DEF Stream!Start
      <4> QED BY <3>1, <4>5 DEF Stream!StreamNext
    <3> QED BY <2>4, <3>1, <3>2
  <2>6. CASE Other(c)
    BY <2>1, <2>4, <2>6, OtherKeeps
  <2> QED BY <2>1, <2>5, <2>6
<1>7. ASSUME NEW k \in 1 .. BLOCKS * WORDS, MoveData(k)
      PROVE  HdInv' /\ [Stream!StreamNext]_<<file, HdJob, out>>
  <2>1. "drq" \in status /\ (Transferring \/ Identifying)
    <3>1. host.todo > 0
      BY <1>7 DEF MoveData, HdInv, HdRest
    <3> QED BY <3>1 DEF HdInv, HdBusy
  <2>2. Stream!NoJob' = Stream!NoJob
    BY DEF Stream!NoJob
  <2>3. CASE Identifying
    <3>1. xfer.done = "identify"
      BY <2>3 DEF Identifying
    <3>2. /\ HdInv' /\ file' = file /\ out' = out
          /\ "drq" \notin status' \/ xfer'.done = "identify"
      BY <1>7, <2>3, IdentifyKeeps
    <3>3. HdJob = Stream!NoJob /\ HdJob' = Stream!NoJob
      BY <1>1, <1>2, <2>2, <3>1, <3>2
    <3> QED BY <3>2, <3>3
  <2>4. CASE Transferring
    <3>0. pos \in Nat /\ HdEnd \in Int
      <4>1. SectorOf(reg) \in Nat /\ Length(nsector) \in Nat /\ WORDS \in Nat
        BY <2>4, Inside, DriveSizes DEF HdInv
      <4>2. (SectorOf(reg) + Length(nsector)) * WORDS \in Int
        BY <4>1
      <4> QED BY <4>2 DEF HdEnd, HdInv, HdTypeOK
    <3>1. xfer.done # "identify" /\ xfer.write \in BOOLEAN
      BY <2>4 DEF Transferring, HdInv, HdTypeOK
    <3>2. PICK op \in {"read", "write"} : op = IF xfer.write THEN "write" ELSE "read"
      OBVIOUS
    <3>3. HdJob = [op |-> op, at |-> pos, end |-> HdEnd] /\ HdJob # Stream!NoJob
      BY <1>1, <2>1, <3>1, <3>2
    <3>4. /\ k <= xfer.left
          /\ IF op = "write"
             THEN /\ file' = [w \in Word |-> IF w \in pos .. pos + k - 1 THEN STORED
                                                                       ELSE file[w]]
                  /\ out' = out
             ELSE file' = file /\ out' = file[pos + k - 1]
      BY <1>7, <2>4, <3>2, PortKeeps
    <3>5. /\ HdInv' /\ pos + k <= HdEnd
          /\ HdJob' = IF pos + k = HdEnd THEN Stream!NoJob
                      ELSE [op |-> op, at |-> pos + k, end |-> HdEnd]
      <4>1. CASE k < xfer.left
        <5>1. /\ HdInv' /\ Transferring' /\ "drq" \in status' /\ xfer'.write = xfer.write
              /\ pos' = pos + k /\ HdEnd' = HdEnd /\ pos + k < HdEnd
          BY <1>7, <2>4, <4>1, PartKeeps
        <5>2. xfer'.done # "identify"
          BY <5>1 DEF Transferring
        <5>3. HdJob' = [op |-> op, at |-> pos + k, end |-> HdEnd]
          <6>1. op = IF xfer'.write THEN "write" ELSE "read"
            BY <3>1, <3>2, <5>1
          <6>2. HdJob' = [op |-> op, at |-> pos', end |-> HdEnd']
            BY <1>2, <5>1, <5>2, <6>1
          <6> QED BY <5>1, <6>2
        <5> QED BY <3>0, <5>1, <5>3
      <4>2. CASE k = xfer.left
        <5>1. /\ HdInv' /\ pos' = pos + k
              /\ IF Less(nsector, xfer.sectors) = 0
                 THEN "drq" \notin status' /\ pos + k = HdEnd
                 ELSE /\ "drq" \in status' /\ Transferring' /\ xfer'.write = xfer.write
                      /\ HdEnd' = HdEnd /\ pos + k < HdEnd
          BY <1>7, <2>4, <4>2, EndKeeps
        <5>2. CASE Less(nsector, xfer.sectors) = 0
          BY <1>2, <2>2, <3>0, <5>1, <5>2
        <5>3. CASE Less(nsector, xfer.sectors) # 0
          <6>1. xfer'.done # "identify"
            BY <5>1, <5>3 DEF Transferring
          <6>2. HdJob' = [op |-> op, at |-> pos + k, end |-> HdEnd]
            <7>1. op = IF xfer'.write THEN "write" ELSE "read"
              BY <3>1, <3>2, <5>1, <5>3
            <7>2. HdJob' = [op |-> op, at |-> pos', end |-> HdEnd']
              BY <1>2, <5>1, <5>3, <6>1, <7>1
            <7> QED BY <5>1, <5>3, <7>2
          <6> QED BY <3>0, <5>1, <5>3, <6>2
        <5> QED BY <5>2, <5>3
      <4> QED BY <3>4, <4>1, <4>2 DEF HdInv, HdTypeOK
    <3>6. Stream!Move(k)
      <4>1. HdJob.at = pos /\ HdJob.end = HdEnd /\ HdJob.op = op
        BY <3>3
      <4>2. HdJob' = IF HdJob.at + k = HdJob.end THEN Stream!NoJob
                     ELSE [HdJob EXCEPT !.at = HdJob.at + k]
        BY <3>3, <3>5, <4>1
      <4>3. DOMAIN file = Word
        BY DEF HdInv, HdTypeOK
      <4> QED BY <3>3, <3>4, <3>5, <4>1, <4>2, <4>3 DEF Stream!Move
    <3>7. k \in 1 .. HdJob.end - HdJob.at
      <4>1. HdJob.at = pos /\ HdJob.end = HdEnd
        BY <3>3
      <4> QED BY <3>0, <3>5, <4>1
    <3> QED BY <3>5, <3>6, <3>7 DEF Stream!StreamNext
  <2> QED BY <2>1, <2>3, <2>4
<1> QED BY <1>3, <1>4, <1>5, <1>6, <1>7 DEF HdNext

THEOREM HardDiskInStep == HdSpec => [](HdTypeOK /\ HostInStep)
<1>1. HdInv /\ [HdNext]_hdvars => HdInv'
  BY HdSteps
<1>2. HdInv => HdTypeOK /\ HostInStep
  <2> SUFFICES ASSUME HdInv PROVE HostInStep
    BY DEF HdInv
  <2>1. host.phase \in {"await", "poll", "data"} => ("drq" \in status <=> host.todo > 0)
    BY DEF HdInv, HdTypeOK, HdRest, HdBusy
  <2>2. host.phase = "data" => xfer.left = host.block /\ (xfer.write <=> host.op = "write")
    BY DEF HdInv, HdTypeOK, HdRest, HdBusy, Transferring, Identifying
  <2> QED BY <2>1, <2>2 DEF HdInv, HdLine, HdRest, HostInStep
<1> QED BY <1>1, <1>2, HdStarts, PTL DEF HdSpec

THEOREM HardDiskStreams == HdSpec => HdStreams
<1>1. HdInv /\ [HdNext]_hdvars => HdInv' /\ [Stream!StreamNext]_<<file, HdJob, out>>
  BY HdSteps
<1>2. HdInit => HdJob = Stream!NoJob
  <2> SUFFICES ASSUME HdInit PROVE HdJob = Stream!NoJob
    OBVIOUS
  <2>1. "drq" \notin status
    BY DEF HdInit, Idle
  <2> QED BY <2>1, HdStarts, JobIs
<1> QED BY <1>1, <1>2, HdStarts, PTL DEF HdSpec, HdStreams, Stream!StreamSpec

-----------------------------------------------------------------------------
(* Atapi, for discs, sectors and replies of any size.                           *)

\* The limits of hosts that wait for interrupts: none, or a sector at least.  Of a
\* smaller part the drive announces the first only, and the rest of the sector waits
\* unannounced (xfer_advance raises the line at the ends of sectors).
AmpleLimits == \A l \in Limits : l = 0 \/ l >= SECTOR

(* The invariant: the host has been told of every part that is ready and of every   *)
(* end, a reply is one part, and while sectors are read the drive's count, its       *)
(* block addresses and the file stand where the host does.  After a READ CD of no   *)
(* sector (Hollow) there is nothing to keep in step.                                *)
CdReading ==
    /\ "drq" \in cdstatus /\ ~cdxfer.write /\ cdxfer.left = cdhost.todo
    /\ cdbuf = 0 /\ cdstream.size = SECTOR /\ limit = SECTOR
    /\ cdstream.lba < cdstream.end /\ cdstream.end <= DISC
    /\ cdhost.end = cdstream.end * SECTOR /\ cdpos = cdhost.end - cdhost.todo
    /\ \/ cdhost.phase = "await" /\ cdhost.part = 0
          /\ cdhost.todo = (cdstream.end - cdstream.lba) * SECTOR
       \/ cdhost.phase = "data" /\ cdhost.part \in 1 .. SECTOR
          /\ cdhost.todo = (cdstream.end - cdstream.lba - 1) * SECTOR + cdhost.part

CdReplying ==
    /\ "drq" \in cdstatus /\ ~cdxfer.write /\ cdxfer.left \in 1 .. LONGEST
    /\ cdbuf > 0 /\ cdhost.todo = 0
    /\ \/ cdhost.part = cdxfer.left
       \/ cdhost.phase = "await" /\ cdhost.part = 0 /\ limit = cdxfer.left

CdQuiet == "drq" \notin cdstatus /\ cdhost.todo = 0 /\ cdhost.part = 0

CdTaking ==
    /\ "drq" \in cdstatus /\ reason = "cmd" /\ cdxfer.write /\ cdout = UNREAD
    /\ cdhost.todo = 0 /\ cdhost.part = 0 /\ (limit = 0 \/ limit >= SECTOR)

CdInv ==
    /\ CdTypeOK
    /\ cdsrst => cdhost.phase = "reset"
    /\ cdhost.phase = "idle" => cdirq = 0
    /\ cdhost.phase = "await" => cdirq = 1 \/ Hollow
    /\ cdhost.phase \in {"idle", "reset"} => CdQuiet
    /\ cdhost.phase = "poll" => CdTaking
    /\ cdhost.phase = "await" => CdQuiet \/ CdReplying \/ CdReading \/ Hollow
    /\ cdhost.phase = "data" => CdReplying \/ CdReading \/ Hollow


LEMMA CdConstants ==
    /\ DISC \in Nat \ {0} /\ SECTOR \in Nat \ {0} /\ LONGEST \in Nat \ {0} /\ LONGEST <= SECTOR
    /\ Signature \in Nat /\ Signature >= SECTOR
<1>1. DISC \in Nat \ {0} /\ SECTOR \in Nat \ {0} /\ LONGEST \in Nat \ {0}
  BY CdSizes
<1> QED BY <1>1, CdSizes DEF Signature

\* the data of a reply leave no boundary of a sector in them
LEMMA ReplyRest ==
    ASSUME NEW n \in 1 .. LONGEST - 1
    PROVE  n % SECTOR # 0
<1>1. n \in Nat /\ n < SECTOR /\ SECTOR \in Nat \ {0} /\ 0 * SECTOR = 0
  BY CdConstants
<1>2. (0 * SECTOR + n) % SECTOR = n
  <2>1. n \in 0 .. SECTOR - 1
    BY <1>1
  <2> QED BY <1>1, <2>1, Part
<1> QED BY <1>1, <1>2

LEMMA CdStarts == CdInit => CdInv
<1> SUFFICES ASSUME CdInit PROVE CdInv
  OBVIOUS
<1>1. 0 \in 0 .. LONGEST
  BY CdConstants
<1>2. CdTypeOK
  <2>1. changed \in BOOLEAN /\ sense \in {"none", "attention"} /\ cdirq \in 0 .. 1
    <3>1. changed \in (IF present THEN BOOLEAN ELSE {FALSE}) /\ cdirq = (IF present THEN 1 ELSE 0)
          /\ sense = IF changed THEN "attention" ELSE "none"
      BY DEF CdInit
    <3>2. CASE present
      BY <3>1, <3>2
    <3>3. CASE ~present
      BY <3>1, <3>3
    <3> QED BY <3>2, <3>3
  <2>2. /\ cdout \in 0 .. DISC * SECTOR - 1 \cup {UNREAD} /\ present \in BOOLEAN
        /\ cdsrst \in BOOLEAN /\ limit \in Nat /\ cdpos \in Nat /\ cdbuf \in 0 .. LONGEST
        /\ reason \in {"cmd", "in", "status"}
    BY <1>1 DEF CdInit
  <2>3. /\ cdstatus \subseteq {"busy", "ready", "seek", "drq", "err"}
        /\ cdxfer \in [left : Nat, write : BOOLEAN, done : {"stop", "packet"}]
        /\ cdstream \in [lba : Nat, end : Nat, size : {0, SECTOR}]
        /\ cdhost \in [phase : {"idle", "poll", "await", "data", "reset"},
                       part : Nat, todo : Nat, end : Nat]
    BY DEF CdInit, CdIdle
  <2> QED BY <2>1, <2>2, <2>3 DEF CdTypeOK
<1>3. CdQuiet /\ cdhost.phase = "reset"
  BY DEF CdInit, CdQuiet, CdIdle
<1> QED BY <1>2, <1>3 DEF CdInv

(* A command register written.                                                 *)
LEMMA CdGiveKeeps ==
    ASSUME CdInv, NEW l \in Limits, l = 0 \/ l >= SECTOR, GivePacket(l)
    PROVE  CdInv' /\ CdStream!Other
<1>1. /\ cdhost.phase = "idle" /\ Packet(l) /\ cdout' = UNREAD /\ cdsrst' = cdsrst
      /\ cdhost' = [phase |-> "poll", part |-> 0, todo |-> 0, end |-> 0] /\ l \in Nat
  BY CdSizes DEF GivePacket, Goes
<1>2. CdQuiet /\ ~cdsrst
  BY <1>1 DEF CdInv
<1>3. /\ limit' = l /\ cdxfer' = [left |-> 1, write |-> TRUE, done |-> "packet"]
      /\ cdstatus' = CdIdle \cup {"drq"} /\ reason' = "cmd" /\ cdirq' = 1
      /\ UNCHANGED <<present, cdpos, sense, changed, cdbuf, cdstream>>
  BY <1>1 DEF Packet
<1>4. CdTypeOK'
  BY <1>1, <1>3 DEF CdInv, CdTypeOK, CdIdle
<1>5. CdTaking'
  BY <1>1, <1>3 DEF CdTaking
<1>6. CdStream!Other
  BY <1>1, <1>2 DEF CdQuiet, CdJob, CdStream!Other, CdStream!NoJob
<1> QED BY <1>1, <1>2, <1>4, <1>5, <1>6 DEF CdInv

LEMMA CdCommandKeeps ==
    ASSUME CdInv, GiveCommand
    PROVE  CdInv' /\ CdStream!Other
<1>1. /\ cdhost.phase = "idle" /\ cdout' = UNREAD /\ cdsrst' = cdsrst
      /\ \/ PacketIdentify /\ Goes("await", LONGEST, 0, 0)
         \/ (DeviceReset \/ \E s \in BOOLEAN : Abort(s)) /\ Goes("await", 0, 0, 0)
  BY DEF GiveCommand
<1>2. CdQuiet /\ ~cdsrst /\ CdTypeOK
  BY <1>1 DEF CdInv
<1>3. CASE PacketIdentify /\ Goes("await", LONGEST, 0, 0)
  <2>1. /\ cdxfer' = [left |-> LONGEST, write |-> FALSE, done |-> "stop"]
        /\ cdstatus' = CdIdle \cup {"drq"} /\ cdirq' = 1 /\ cdbuf' = LONGEST
        /\ UNCHANGED <<present, cdpos, sense, changed, reason, limit, cdstream>>
        /\ cdhost' = [phase |-> "await", part |-> LONGEST, todo |-> 0, end |-> 0]
    BY <1>3 DEF PacketIdentify, Goes
  <2>2. LONGEST \in 1 .. LONGEST /\ LONGEST \in Nat /\ LONGEST > 0
    BY CdConstants
  <2>3. CdTypeOK'
    BY <1>1, <1>2, <2>1, <2>2 DEF CdTypeOK, CdIdle
  <2>4. CdReplying'
    BY <2>1, <2>2 DEF CdReplying
  <2>5. CdStream!Other
    BY <1>1, <1>2, <2>1 DEF CdQuiet, CdJob, CdStream!Other, CdStream!NoJob
  <2> QED BY <1>1, <1>2, <2>1, <2>3, <2>4, <2>5 DEF CdInv
<1>4. CASE (DeviceReset \/ \E s \in BOOLEAN : Abort(s)) /\ Goes("await", 0, 0, 0)
  <2>1. /\ reason' \in {reason, "cmd"} /\ limit' \in {limit, Signature}
        /\ cdstatus' \in {CdIdle, {"ready", "err"}} /\ cdirq' = 1
        /\ UNCHANGED <<present, cdpos, sense, changed, cdxfer, cdbuf, cdstream>>
        /\ cdhost' = [phase |-> "await", part |-> 0, todo |-> 0, end |-> 0]
    BY <1>4 DEF DeviceReset, Abort, Goes
  <2>2. CdTypeOK'
    BY <1>1, <1>2, <2>1, CdConstants DEF CdTypeOK, CdIdle
  <2>3. CdQuiet'
    BY <2>1 DEF CdQuiet, CdIdle
  <2>4. CdStream!Other
    BY <1>1, <1>2, <2>1 DEF CdQuiet, CdJob, CdStream!Other, CdStream!NoJob
  <2> QED BY <1>1, <1>2, <2>1, <2>2, <2>3, <2>4 DEF CdInv
<1> QED BY <1>1, <1>3, <1>4

(* A packet sent: an answer, a reply of one part, or the first sector.           *)
LEMMA CdSendKeeps ==
    ASSUME CdInv, SendPacket
    PROVE  /\ CdInv'
           /\ \/ UNCHANGED <<CdJob, cdout>>
              \/ \E s \in Spans : CdStream!Start("read", s[1], s[2])
<1>1. /\ cdhost.phase = "poll" /\ UNCHANGED <<present, cdout, cdsrst>>
      /\ CdTaking /\ ~cdsrst /\ CdTypeOK
  BY DEF SendPacket, CdInv
<1>2. CdJob = CdStream!NoJob
  BY <1>1 DEF CdTaking, CdJob, CdStream!NoJob
<1>3. ASSUME cdhost' = [phase |-> "await", part |-> 0, todo |-> 0, end |-> 0]
      PROVE  CdJob' = CdStream!NoJob
  BY <1>3 DEF CdJob, CdStream!NoJob
<1>4. CASE /\ \/ Good
              \/ \E key \in {"notready", "attention", "illegal"} : Fail(key)
           /\ Goes("await", 0, 0, 0) /\ changed' \in BOOLEAN
  <2>1. /\ cdstatus' \in {CdIdle, {"ready", "err"}} /\ reason' = "status" /\ cdirq' = 1
        /\ cdxfer' = CdStopped /\ sense' \in {sense, "notready", "attention", "illegal"}
        /\ UNCHANGED <<cdpos, limit, cdbuf, cdstream>>
        /\ cdhost' = [phase |-> "await", part |-> 0, todo |-> 0, end |-> 0]
    BY <1>4 DEF Good, Fail, Goes
  <2>2. CdTypeOK'
    BY <1>1, <1>4, <2>1 DEF CdTypeOK, CdIdle, CdStopped
  <2>3. CdQuiet'
    BY <2>1 DEF CdQuiet, CdIdle
  <2> QED BY <1>1, <1>2, <1>3, <2>1, <2>2, <2>3 DEF CdInv
<1>5. CASE \E size \in 1 .. LONGEST :
               /\ Reply(size) /\ Goes("await", 0, 0, 0)
               /\ changed' \in BOOLEAN /\ sense' \in {sense, "none"}
  <2>1. PICK size \in 1 .. LONGEST :
               /\ Reply(size) /\ Goes("await", 0, 0, 0)
               /\ changed' \in BOOLEAN /\ sense' \in {sense, "none"}
    BY <1>5
  <2>2. /\ limit' = (IF limit = 0 \/ limit > size THEN size ELSE limit)
        /\ cdstatus' = CdIdle \cup {"drq"} /\ reason' = "in" /\ cdirq' = 1
        /\ cdxfer' = [left |-> size, write |-> FALSE, done |-> "stop"]
        /\ cdbuf' = size /\ UNCHANGED <<cdpos, cdstream>>
        /\ cdhost' = [phase |-> "await", part |-> 0, todo |-> 0, end |-> 0]
    BY <2>1 DEF Reply, Goes
  <2>3. limit' = size /\ size \in Nat /\ size > 0 /\ size <= LONGEST
    <3>1. limit \in Nat /\ (limit = 0 \/ limit >= SECTOR)
      BY <1>1 DEF CdTaking, CdTypeOK
    <3> QED BY <2>2, <3>1, CdConstants
  <2>4. CdTypeOK'
    BY <1>1, <2>1, <2>2, <2>3 DEF CdTypeOK, CdIdle
  <2>5. CdReplying'
    BY <2>2, <2>3 DEF CdReplying
  <2> QED BY <1>1, <1>2, <1>3, <2>2, <2>4, <2>5 DEF CdInv
<1>6. ASSUME NEW s \in Spans, present, s[2] > 0, ReadPio(s[1], s[2]), changed' = changed,
             Goes("await", 0, s[2] * SECTOR, (s[1] + s[2]) * SECTOR)
      PROVE  CdInv' /\ CdStream!Start("read", s[1], s[2])
  <2>1. PICK b \in Nat, n \in Nat \ {0} : b = s[1] /\ n = s[2] /\ b + n <= DISC
    <3>1. PICK b \in 0 .. DISC - 1, n \in 0 .. DISC : s = <<b, n>> /\ b + n <= DISC
      BY DEF Spans
    <3> QED BY <1>6, <3>1, CdConstants
  <2>2. PICK p \in Nat, t \in Nat \ {0}, e \in Nat :
           p = b * SECTOR /\ t = n * SECTOR /\ e = (b + n) * SECTOR /\ e = p + t
    <3>1. SECTOR \in Nat \ {0}
      BY CdConstants
    <3>2. b * SECTOR \in Nat /\ n * SECTOR \in Nat \ {0}
      BY <3>1, Z3
    <3>3. (b + n) * SECTOR = b * SECTOR + n * SECTOR
      BY <3>1, Times
    <3> QED BY <3>2, <3>3
  <2>3. /\ cdpos' = p /\ cdstream' = [lba |-> b, end |-> b + n, size |-> SECTOR]
        /\ cdbuf' = 0 /\ limit' = PartOf(limit)
        /\ cdstatus' = CdIdle \cup {"drq"} /\ reason' = "in" /\ cdirq' = 1
        /\ cdxfer' = [left |-> t, write |-> FALSE, done |-> "stop"] /\ sense' = sense
        /\ cdhost' = [phase |-> "await", part |-> 0, todo |-> t, end |-> e]
    BY <1>6, <2>1, <2>2 DEF ReadPio, Goes
  <2>4. limit' = SECTOR
    <3>1. limit \in Nat /\ (limit = 0 \/ limit >= SECTOR)
      BY <1>1 DEF CdTaking, CdTypeOK
    <3> QED BY <2>3, <3>1, CdConstants DEF PartOf
  <2>5. CdTypeOK'
    <3>1. 0 \in 0 .. LONGEST /\ SECTOR \in Nat /\ b + n \in Nat
      BY CdConstants
    <3> QED BY <1>1, <1>6, <2>3, <2>4, <3>1 DEF CdTypeOK, CdIdle
  <2>6. CdReading'
    <3>1. b < b + n /\ (b + n) - b = n /\ e - t = p
      BY <2>2
    <3> QED BY <2>1, <2>2, <2>3, <2>4, <3>1 DEF CdReading
  <2>7. CdJob' = [op |-> "read", at |-> p, end |-> e]
    <3>1. e - t = p /\ t > 0
      BY <2>2
    <3> QED BY <2>3, <3>1 DEF CdJob
  <2>8. CdStream!Start("read", s[1], s[2])
    BY <1>1, <1>2, <2>1, <2>2, <2>7 DEF CdTaking, CdStream!Start
  <2> QED BY <1>1, <2>3, <2>5, <2>6, <2>8 DEF CdInv
<1>7. CASE /\ \/ TestUnitReady \/ AcceptPacket \/ Refuse
              \/ \E size \in 1 .. LONGEST : \/ RequestSense(size)
                                            \/ \E d \in BOOLEAN : Ask(d, size)
           /\ Goes("await", 0, 0, 0)
  <2>1. CASE TestUnitReady \/ AcceptPacket \/ Refuse
    BY <1>1, <1>4, <1>7, <2>1 DEF TestUnitReady, AcceptPacket, Refuse, CdTypeOK
  <2>2. ASSUME NEW size \in 1 .. LONGEST, RequestSense(size)
        PROVE  Reply(size) /\ changed' \in BOOLEAN /\ sense' \in {sense, "none"}
    BY <1>1, <2>2 DEF RequestSense, CdTypeOK
  <2>3. ASSUME NEW size \in 1 .. LONGEST, NEW d \in BOOLEAN, Ask(d, size)
        PROVE  \/ Fail("notready") /\ changed' \in BOOLEAN
               \/ Reply(size) /\ changed' \in BOOLEAN /\ sense' \in {sense, "none"}
    BY <1>1, <2>3 DEF Ask, CdTypeOK
  <2> QED BY <1>4, <1>5, <1>7, <2>1, <2>2, <2>3
<1>8. ASSUME NEW s \in Spans, NEW fields \in {"none", "user", "other"},
             \/ ReadCd(s[1], s[2], fields)
             \/ fields = "user" /\ ReadBlocks(s[1], s[2]),
             IF present /\ fields = "user" /\ s[2] > 0
             THEN Goes("await", 0, s[2] * SECTOR, (s[1] + s[2]) * SECTOR)
             ELSE Goes("await", 0, 0, 0)
      PROVE  /\ CdInv'
             /\ \/ UNCHANGED <<CdJob, cdout>>
                \/ \E r \in Spans : CdStream!Start("read", r[1], r[2])
  <2>1. changed' = changed /\ changed \in BOOLEAN /\ s[2] \in Nat /\ s[1] \in Nat
    BY <1>1, <1>8 DEF ReadCd, ReadBlocks, CdTypeOK, Spans
  <2>2. CASE present /\ fields = "user" /\ s[2] > 0
    <3>1. ReadPio(s[1], s[2])
      BY <1>8, <2>2 DEF ReadCd, ReadBlocks
    <3> QED BY <1>6, <1>8, <2>1, <2>2, <3>1
  <2>3. CASE ~(present /\ fields = "user" /\ s[2] > 0)
    <3>1. Goes("await", 0, 0, 0)
      BY <1>8, <2>3
    <3>2. Good \/ Fail("notready") \/ Fail("illegal") \/ (s[2] = 0 /\ ReadPio(s[1], s[2]))
      BY <1>8, <2>1, <2>3 DEF ReadCd, ReadBlocks
    <3>3. CASE s[2] = 0 /\ ReadPio(s[1], s[2])
      <4>1. 0 * SECTOR = 0 /\ s[1] * SECTOR \in Nat /\ s[1] + s[2] = s[1] /\ 0 \in 0 .. LONGEST
        BY <2>1, <3>3, CdConstants, Z3
      <4>2. /\ cdpos' = s[1] * SECTOR /\ cdbuf' = 0 /\ limit' = PartOf(limit)
            /\ cdstream' = [lba |-> s[1], end |-> s[1], size |-> SECTOR]
            /\ cdstatus' = CdIdle \cup {"drq"} /\ reason' = "in" /\ cdirq' = 1
            /\ cdxfer' = [left |-> 0, write |-> FALSE, done |-> "stop"] /\ sense' = sense
            /\ cdhost' = [phase |-> "await", part |-> 0, todo |-> 0, end |-> 0]
        BY <3>1, <3>3, <4>1 DEF ReadPio, Goes
      <4>3. limit' \in Nat
        BY <1>1, <4>2, CdConstants DEF PartOf, CdTypeOK
      <4>4. CdTypeOK'
        BY <1>1, <2>1, <4>1, <4>2, <4>3 DEF CdTypeOK, CdIdle
      <4>5. Hollow'
        BY <4>2 DEF Hollow
      <4> QED BY <1>1, <1>2, <1>3, <4>2, <4>4, <4>5 DEF CdInv
    <3> QED BY <1>4, <2>1, <3>1, <3>2, <3>3
  <2> QED BY <2>2, <2>3
<1> QED BY <1>7, <1>8 DEF SendPacket

(* The host told of a part goes for it.                                        *)
LEMMA CdInterruptKeeps ==
    ASSUME CdInv, CdInterrupt
    PROVE  CdInv' /\ UNCHANGED <<CdJob, cdout>>
<1>1. /\ cdhost.phase = "await" /\ cdirq' = 0
      /\ UNCHANGED <<present, cdpos, sense, changed, cdstatus, reason, limit, cdxfer, cdbuf,
                     cdstream, cdout, cdsrst>>
      /\ CdTypeOK /\ ~cdsrst
  BY DEF CdInterrupt, CdInv
<1>2. CASE "drq" \in cdstatus
  <2>1. CdReplying \/ CdReading \/ Hollow
    BY <1>1, <1>2 DEF CdInv, CdQuiet
  <2>2. PICK part \in Nat : part = IF cdhost.part = 0 THEN limit ELSE cdhost.part
    BY <1>1 DEF CdTypeOK
  <2>3. cdhost' = [cdhost EXCEPT !.phase = "data", !.part = part]
    BY <1>2, <2>2 DEF CdInterrupt
  <2>4. /\ cdhost'.phase = "data" /\ cdhost'.part = part /\ cdhost'.todo = cdhost.todo
        /\ cdhost'.end = cdhost.end
        /\ cdhost' \in [phase : {"idle", "poll", "await", "data", "reset"},
                        part : Nat, todo : Nat, end : Nat]
    BY <1>1, <2>3 DEF CdTypeOK
  <2>5. CdTypeOK'
    BY <1>1, <2>4 DEF CdTypeOK
  <2>6. CASE CdReplying
    <3>1. part = cdxfer.left
      BY <1>1, <2>2, <2>6, CdConstants DEF CdReplying
    <3>2. CdReplying'
      BY <1>1, <2>4, <2>6, <3>1 DEF CdReplying
    <3> QED BY <1>1, <2>4, <2>5, <3>2 DEF CdInv, CdJob
  <2>7. CASE CdReading
    <3>1. part = SECTOR /\ cdhost.todo = (cdstream.end - cdstream.lba) * SECTOR
      BY <1>1, <2>2, <2>7 DEF CdReading
    <3>2. cdhost.todo = (cdstream.end - cdstream.lba - 1) * SECTOR + SECTOR
      <4>1. PICK m \in Int : m = cdstream.end - cdstream.lba
        BY <1>1 DEF CdTypeOK
      <4>2. (m - 1) * SECTOR = m * SECTOR - 1 * SECTOR /\ m * SECTOR \in Int /\ 1 * SECTOR = SECTOR
        BY CdConstants, Times
      <4> QED BY <3>1, <4>1, <4>2, CdConstants
    <3>3. part \in 1 .. SECTOR
      BY <3>1, CdConstants
    <3>4. CdReading'
      BY <1>1, <2>4, <2>7, <3>1, <3>2, <3>3 DEF CdReading
    <3> QED BY <1>1, <2>4, <2>5, <3>4 DEF CdInv, CdJob
  <2>8. CASE Hollow
    <3>1. Hollow'
      BY <1>1, <2>4, <2>8 DEF Hollow
    <3>2. CdInv'
      BY <1>1, <2>4, <2>5, <3>1 DEF CdInv
    <3>3. CdJob' = CdJob
      BY <2>4 DEF CdJob
    <3> QED BY <1>1, <3>2, <3>3
  <2> QED BY <2>1, <2>6, <2>7, <2>8
<1>3. CASE "drq" \notin cdstatus
  <2>1. CdQuiet
    BY <1>1, <1>3 DEF CdInv, CdReplying, CdReading, Hollow
  <2>2. cdhost' = [cdhost EXCEPT !.phase = "idle"]
    BY <1>3 DEF CdInterrupt
  <2>3. /\ cdhost'.phase = "idle" /\ cdhost'.part = cdhost.part /\ cdhost'.todo = cdhost.todo
        /\ cdhost'.end = cdhost.end
        /\ cdhost' \in [phase : {"idle", "poll", "await", "data", "reset"},
                        part : Nat, todo : Nat, end : Nat]
    BY <1>1, <2>2 DEF CdTypeOK
  <2>4. CdTypeOK' /\ CdQuiet'
    BY <1>1, <2>1, <2>3 DEF CdTypeOK, CdQuiet
  <2> QED BY <1>1, <2>3, <2>4 DEF CdInv, CdJob
<1> QED BY <1>2, <1>3

(* Words of a reply: they end with it.                                         *)
LEMMA ReplyKeeps ==
    ASSUME CdInv, CdReplying, NEW k \in 1 .. DISC * SECTOR, MovePart(k)
    PROVE  CdInv' /\ UNCHANGED <<CdJob, cdout>>
<1>1. /\ cdhost.phase = "data" /\ k <= cdhost.part /\ PacketRead(k) /\ cdsrst' = cdsrst
      /\ CdTypeOK /\ ~cdsrst
      /\ cdhost' = [phase |-> IF k < cdhost.part THEN "data" ELSE "await",
                    part |-> cdhost.part - k, todo |-> 0, end |-> 0]
  BY DEF MovePart, Goes, CdReplying, CdInv
<1>2. PICK n \in 1 .. LONGEST : n = cdxfer.left /\ n = cdhost.part
  BY <1>1 DEF CdReplying
<1>3. /\ ~FromDisc /\ UNCHANGED <<cdout, cdpos, present, sense, changed>> /\ PacketAdvanced(k)
  BY <1>1 DEF PacketRead, FromDisc, CdReplying, CdTypeOK
<1>4. CdJob = CdStream!NoJob /\ CdJob' = CdStream!NoJob
  BY <1>1 DEF CdReplying, CdJob, CdStream!NoJob
<1>5. CASE k = n
  <2>1. n - k = 0 /\ cdxfer.left - k = 0
    BY <1>2, <1>5, CdConstants
  <2>2. /\ cdxfer' = CdStopped /\ cdbuf' = 0 /\ reason' = "status" /\ cdirq' = 1
        /\ cdstatus' = cdstatus \ {"drq"} /\ UNCHANGED <<limit, cdstream>>
    BY <1>3, <2>1 DEF PacketAdvanced
  <2>3. cdhost' = [phase |-> "await", part |-> 0, todo |-> 0, end |-> 0]
    BY <1>1, <1>2, <1>5, <2>1
  <2>4. CdTypeOK'
    <3>1. 0 \in 0 .. LONGEST
      BY CdConstants
    <3> QED BY <1>1, <1>3, <2>2, <2>3, <3>1 DEF CdTypeOK, CdStopped
  <2>5. CdQuiet'
    BY <2>2, <2>3 DEF CdQuiet
  <2> QED BY <1>1, <1>3, <1>4, <2>2, <2>3, <2>4, <2>5 DEF CdInv
<1>6. CASE k # n
  <2>1. PICK t \in 1 .. LONGEST - 1 : t = n - k
    BY <1>1, <1>2, <1>6, CdConstants
  <2>2. t > 0 /\ t # 0 /\ t % SECTOR # 0 /\ t \in Nat /\ t <= LONGEST /\ cdxfer.left - k = t
    BY <1>2, <2>1, ReplyRest, CdConstants
  <2>3. /\ cdxfer' = [cdxfer EXCEPT !.left = t]
        /\ UNCHANGED <<cdbuf, reason, cdirq, cdstatus, limit, cdstream>>
    BY <1>3, <2>2 DEF PacketAdvanced
  <2>4. cdhost' = [phase |-> "data", part |-> t, todo |-> 0, end |-> 0]
    <3>1. k < cdhost.part /\ cdhost.part - k = t
      BY <1>1, <1>2, <1>6, <2>1, CdConstants
    <3> QED BY <1>1, <3>1
  <2>5. /\ cdxfer'.left = t /\ cdxfer'.write = cdxfer.write
        /\ cdxfer' \in [left : Nat, write : BOOLEAN, done : {"stop", "packet"}]
    BY <1>1, <2>2, <2>3 DEF CdTypeOK
  <2>6. CdTypeOK'
    BY <1>1, <1>3, <2>2, <2>3, <2>4, <2>5 DEF CdTypeOK
  <2>7. CdReplying'
    <3>1. t \in 1 .. LONGEST
      BY <2>2
    <3> QED BY <2>3, <2>4, <2>5, <3>1 DEF CdReplying
  <2> QED BY <1>1, <1>3, <1>4, <2>4, <2>6, <2>7 DEF CdInv
<1> QED BY <1>5, <1>6

(* Words of the disc.                                                          *)
LEMMA DiscKeeps ==
    ASSUME CdInv, CdReading, NEW k \in 1 .. DISC * SECTOR, MovePart(k)
    PROVE  CdInv' /\ CdStream!Move(k) /\ k \in 1 .. CdJob.end - CdJob.at
<1>1. /\ cdhost.phase = "data" /\ k <= cdhost.part /\ PacketRead(k) /\ cdsrst' = cdsrst
      /\ CdTypeOK /\ ~cdsrst /\ cdhost.part \in 1 .. SECTOR
  BY DEF MovePart, CdReading, CdInv
<1>2. PICK m \in Nat \ {0}, b \in 1 .. SECTOR, e \in Nat, lba \in Nat :
         /\ lba = cdstream.lba /\ cdstream.end = lba + m /\ b = cdhost.part
         /\ e = cdhost.end /\ cdhost.todo = (m - 1) * SECTOR + b
         /\ e = (lba + m) * SECTOR /\ lba + m <= DISC
  <2>1. PICK m \in Nat \ {0}, lba \in Nat :
           lba = cdstream.lba /\ cdstream.end = lba + m /\ m = cdstream.end - cdstream.lba
    <3>1. cdstream.lba \in Nat /\ cdstream.end \in Nat /\ cdstream.lba < cdstream.end
      BY <1>1 DEF CdReading, CdTypeOK
    <3>2. cdstream.end - cdstream.lba \in Nat \ {0}
          /\ cdstream.end = cdstream.lba + (cdstream.end - cdstream.lba)
      BY <3>1
    <3> QED BY <3>1, <3>2
  <2>2. cdhost.end \in Nat
    BY <1>1 DEF CdTypeOK
  <2> QED BY <1>1, <2>1, <2>2 DEF CdReading
<1>3. PICK q \in Nat : /\ q = (m - 1) * SECTOR /\ cdhost.todo = q + b /\ (IF m = 1 THEN q = 0 ELSE q > 0)
                       /\ q % SECTOR = 0 /\ q + b <= e /\ e <= DISC * SECTOR
                       /\ DISC * SECTOR \in Nat
  <2>1. SECTOR \in Nat \ {0} /\ m - 1 \in Nat /\ DISC \in Int
    BY CdConstants
  <2>2. (m - 1) * SECTOR \in Nat /\ (IF m = 1 THEN (m - 1) * SECTOR = 0 ELSE (m - 1) * SECTOR > 0)
    BY <2>1, Z3
  <2>3. ((m - 1) * SECTOR) % SECTOR = 0
    <3>1. 0 \in 0 .. SECTOR - 1 /\ (m - 1) * SECTOR + 0 = (m - 1) * SECTOR
      BY <2>1, <2>2
    <3>2. ((m - 1) * SECTOR + 0) % SECTOR = 0
      BY <2>1, <3>1, Part
    <3> QED BY <3>1, <3>2
  <2>4. (lba + m) * SECTOR <= DISC * SECTOR /\ m * SECTOR <= (lba + m) * SECTOR
        /\ DISC * SECTOR \in Nat
    <3>1. lba + m \in Int /\ m \in Int /\ m <= lba + m
      OBVIOUS
    <3>2. DISC * SECTOR \in Nat
      BY CdConstants, Z3
    <3> QED BY <1>2, <2>1, <3>1, <3>2, Times
  <2>5. m * SECTOR = (m - 1) * SECTOR + SECTOR
    <3>1. (m - 1) * SECTOR = m * SECTOR - 1 * SECTOR /\ m * SECTOR \in Int /\ 1 * SECTOR = SECTOR
      BY <2>1, Times
    <3> QED BY <2>1, <3>1
  <2>6. (m - 1) * SECTOR + b <= (lba + m) * SECTOR
    BY <2>1, <2>2, <2>4, <2>5
  <2> QED BY <1>2, <2>2, <2>3, <2>4, <2>6
<1>4. FromDisc /\ PacketAdvanced(k) /\ cdout' = cdpos + k - 1 /\ cdpos' = cdpos + k
      /\ UNCHANGED <<present, sense, changed>>
  BY <1>1 DEF PacketRead, FromDisc, CdReading
<1>5. cdpos = e - (q + b) /\ cdxfer.left = q + b /\ limit = SECTOR /\ cdbuf = 0
      /\ cdstream.size = SECTOR /\ ~cdxfer.write /\ "drq" \in cdstatus
  BY <1>2, <1>3 DEF CdReading
<1>6. PICK r \in 0 .. SECTOR - 1 : r = b - k
  BY <1>1, <1>2, CdConstants
<1>7. cdxfer.left - k = q + r /\ cdhost.todo - k = q + r /\ cdpos' = e - (q + r)
      /\ cdpos' \in Nat /\ cdout' \in 0 .. DISC * SECTOR - 1 /\ q + r \in Nat
  BY <1>2, <1>3, <1>4, <1>5, <1>6, CdConstants
<1>8. cdhost' = [phase |-> IF r > 0 THEN "data" ELSE "await", part |-> r, todo |-> q + r,
                 end |-> IF q + r = 0 THEN 0 ELSE e]
  <2>1. (k < cdhost.part <=> r > 0) /\ cdhost.part - k = r /\ cdhost.todo # 0
    BY <1>1, <1>2, <1>3, <1>6, CdConstants
  <2> QED BY <1>2, <1>7, <2>1 DEF MovePart, Goes
<1>9. CdStream!Move(k) /\ k \in 1 .. CdJob.end - CdJob.at
  <2>1. cdhost.todo > 0
    BY <1>2, <1>3, CdConstants
  <2>2. CdJob = [op |-> "read", at |-> cdpos, end |-> e]
    BY <1>2, <1>3, <1>5, <2>1 DEF CdJob
  <2>3. CdJob' = IF q + r = 0 THEN CdStream!NoJob
                 ELSE [op |-> "read", at |-> cdpos + k, end |-> e]
    <3>1. CASE q + r = 0
      BY <1>8, <3>1 DEF CdJob, CdStream!NoJob
    <3>2. CASE q + r # 0
      <4>1. q + r > 0
        BY <1>7, <3>2
      <4>2. CdJob' = [op |-> "read", at |-> e - (q + r), end |-> e]
        BY <1>8, <3>2, <4>1 DEF CdJob
      <4> QED BY <1>4, <1>7, <3>2, <4>2
    <3> QED BY <3>1, <3>2
  <2>4. /\ cdpos + k <= e /\ (cdpos + k = e <=> q + r = 0) /\ cdpos + k - 1 \in 0 .. DISC * SECTOR - 1
        /\ k \in 1 .. e - cdpos
    BY <1>3, <1>4, <1>5, <1>6, <1>7, CdConstants
  <2>5. CdJob # CdStream!NoJob
    BY <2>2 DEF CdStream!NoJob
  <2>6. CdJob' = IF CdJob.at + k = CdJob.end THEN CdStream!NoJob
                 ELSE [CdJob EXCEPT !.at = CdJob.at + k]
    BY <2>2, <2>3, <2>4
  <2>7. cdout' = [w \in 0 .. DISC * SECTOR - 1 |-> w][CdJob.at + k - 1]
    BY <1>4, <2>2, <2>4
  <2> QED BY <2>2, <2>4, <2>5, <2>6, <2>7 DEF CdStream!Move
<1>10. CASE r > 0
  <2>1. (q + r) % SECTOR = r
    <3>1. m - 1 \in Nat /\ SECTOR \in Nat \ {0}
      BY CdConstants
    <3> QED BY <1>3, <3>1, Part
  <2>2. q + r > 0 /\ (q + r) % SECTOR # 0
    BY <1>10, <2>1
  <2>3. /\ cdxfer' = [cdxfer EXCEPT !.left = q + r]
        /\ UNCHANGED <<cdbuf, reason, cdirq, cdstatus, limit, cdstream>>
    BY <1>4, <1>7, <2>2 DEF PacketAdvanced
  <2>4. /\ cdxfer'.left = q + r /\ cdxfer'.write = cdxfer.write
        /\ cdxfer' \in [left : Nat, write : BOOLEAN, done : {"stop", "packet"}]
    BY <1>1, <1>7, <2>3 DEF CdTypeOK
  <2>5. cdhost' = [phase |-> "data", part |-> r, todo |-> q + r, end |-> e]
    BY <1>8, <1>10, <2>2
  <2>6. CdTypeOK'
    BY <1>1, <1>4, <1>7, <2>3, <2>4, <2>5 DEF CdTypeOK
  <2>7. CdReading'
    <3>1. r \in 1 .. SECTOR
      BY <1>10, CdConstants
    <3>2. q = (cdstream.end - cdstream.lba - 1) * SECTOR
      <4>1. cdstream.end - cdstream.lba - 1 = m - 1
        BY <1>2
      <4> QED BY <1>3, <4>1
    <3>3. e = cdstream.end * SECTOR /\ cdstream.lba < cdstream.end /\ cdstream.end <= DISC
      BY <1>2
    <3> QED BY <1>5, <1>7, <2>3, <2>4, <2>5, <3>1, <3>2, <3>3 DEF CdReading
  <2> QED BY <1>1, <1>9, <2>5, <2>6, <2>7 DEF CdInv
<1>11. CASE r = 0 /\ m = 1
  <2>1. cdxfer.left - k = 0
    <3>1. q = 0
      BY <1>3, <1>11
    <3> QED BY <1>7, <1>11, <3>1
  <2>2. /\ cdxfer' = CdStopped /\ cdbuf' = 0 /\ reason' = "status" /\ cdirq' = 1
        /\ cdstatus' = cdstatus \ {"drq"} /\ UNCHANGED <<limit, cdstream>>
    BY <1>4, <2>1 DEF PacketAdvanced
  <2>3. cdhost' = [phase |-> "await", part |-> 0, todo |-> 0, end |-> 0]
    BY <1>3, <1>8, <1>11
  <2>4. CdTypeOK'
    <3>1. 0 \in 0 .. LONGEST
      BY CdConstants
    <3> QED BY <1>1, <1>4, <1>7, <2>2, <2>3, <3>1 DEF CdTypeOK, CdStopped
  <2>5. CdQuiet'
    BY <2>2, <2>3 DEF CdQuiet
  <2> QED BY <1>1, <1>9, <2>2, <2>3, <2>4, <2>5 DEF CdInv
<1>12. CASE r = 0 /\ m # 1
  <2>1. q + r = q /\ q > 0 /\ q % SECTOR = 0 /\ SECTOR > 0
    BY <1>3, <1>12, CdConstants
  <2>2. /\ cdxfer' = [cdxfer EXCEPT !.left = q]
        /\ cdstream' = [cdstream EXCEPT !.lba = lba + 1]
        /\ limit' = PartOf(limit) /\ reason' = "in" /\ cdirq' = 1
        /\ cdstatus' = CdIdle \cup {"drq"} /\ cdbuf' = cdbuf
    BY <1>2, <1>4, <1>5, <1>7, <2>1 DEF PacketAdvanced
  <2>3. /\ cdxfer'.left = q /\ cdxfer'.write = cdxfer.write
        /\ cdxfer' \in [left : Nat, write : BOOLEAN, done : {"stop", "packet"}]
    BY <1>1, <2>2 DEF CdTypeOK
  <2>4. /\ cdstream'.lba = lba + 1 /\ cdstream'.end = lba + m /\ cdstream'.size = SECTOR
        /\ cdstream' \in [lba : Nat, end : Nat, size : {0, SECTOR}]
    BY <1>1, <1>2, <1>5, <2>2 DEF CdTypeOK
  <2>5. limit' = SECTOR /\ limit' \in Nat
    BY <1>5, <2>2, CdConstants DEF PartOf
  <2>6. cdhost' = [phase |-> "await", part |-> 0, todo |-> q, end |-> e]
    <3>1. q # 0
      BY <2>1
    <3> QED BY <1>8, <1>12, <2>1, <3>1
  <2>7. CdTypeOK'
    BY <1>1, <1>4, <1>7, <2>2, <2>3, <2>4, <2>5, <2>6 DEF CdTypeOK, CdIdle
  <2>8. CdReading'
    <3>1. (lba + m) - (lba + 1) = m - 1 /\ lba + 1 < lba + m
      BY <1>12
    <3>2. cdpos' = e - q
      BY <1>7, <2>1
    <3> QED BY <1>2, <1>3, <1>5, <2>2, <2>3, <2>4, <2>5, <2>6, <3>1, <3>2 DEF CdReading
  <2> QED BY <1>1, <1>9, <2>2, <2>6, <2>7, <2>8 DEF CdInv
<1> QED BY <1>6, <1>10, <1>11, <1>12, CdConstants

(* The part of a READ CD of no sector: read in words it stays as it is, and no      *)
(* interrupt comes; a string read ends it.                                          *)
LEMMA NothingKeeps ==
    ASSUME CdInv, MoveNothing
    PROVE  CdInv' /\ UNCHANGED <<CdJob, cdout>>
<1>1. /\ cdhost.phase = "data" /\ cdxfer.left = 0 /\ CdTypeOK /\ ~cdsrst /\ cdsrst' = cdsrst
      /\ cdhost' = [phase |-> "await", part |-> 0, todo |-> 0, end |-> 0]
  BY DEF MoveNothing, Goes, CdInv
<1>2. Hollow
  <2>1. ~CdReplying
    BY <1>1 DEF CdReplying
  <2>2. ASSUME CdReading PROVE FALSE
    <3>1. PICK n \in Nat : n = cdstream.end - cdstream.lba - 1
      <4>1. cdstream.lba \in Nat /\ cdstream.end \in Nat /\ cdstream.lba < cdstream.end
        BY <1>1, <2>2 DEF CdReading, CdTypeOK
      <4>2. cdstream.end - cdstream.lba - 1 \in Nat
        BY <4>1
      <4> QED BY <4>2
    <3>2. n * SECTOR \in Nat
      BY CdConstants, Z3
    <3>3. cdxfer.left = n * SECTOR + cdhost.part /\ cdhost.part \in 1 .. SECTOR
      BY <1>1, <2>2, <3>1 DEF CdReading
    <3> QED BY <1>1, <3>2, <3>3, CdConstants
  <2> QED BY <1>1, <2>1, <2>2 DEF CdInv
<1>3. UNCHANGED <<CdJob, cdout>>
  <2>1. cdout' = cdout
    BY DEF MoveNothing, cddrive
  <2> QED BY <1>1, <1>2, <2>1 DEF Hollow, CdJob
<1>4. CASE UNCHANGED cddrive
  <2>1. CdTypeOK' /\ Hollow'
    BY <1>1, <1>2, <1>4 DEF cddrive, CdTypeOK, Hollow
  <2> QED BY <1>1, <1>3, <2>1 DEF CdInv
<1>5. CASE PacketAdvanced(0) /\ UNCHANGED <<present, cdpos, sense, changed, cdout>>
  <2>1. cdxfer.left - 0 = 0 /\ 0 \in 0 .. LONGEST
    BY <1>1, CdConstants
  <2>2. /\ cdxfer' = CdStopped /\ cdbuf' = 0 /\ reason' = "status" /\ cdirq' = 1
        /\ cdstatus' = cdstatus \ {"drq"} /\ UNCHANGED <<limit, cdstream>>
    BY <1>5, <2>1 DEF PacketAdvanced
  <2>3. CdTypeOK'
    BY <1>1, <1>5, <2>1, <2>2 DEF CdTypeOK, CdStopped
  <2>4. CdQuiet'
    BY <1>1, <2>2 DEF CdQuiet
  <2> QED BY <1>1, <1>3, <2>2, <2>3, <2>4 DEF CdInv
<1> QED BY <1>4, <1>5 DEF MoveNothing

LEMMA CdResetsKeep ==
    ASSUME CdInv, CdResetOn \/ CdResetOff \/ CdSettle
    PROVE  CdInv' /\ cdout' = cdout /\ (CdJob' = CdJob \/ CdJob' = CdStream!NoJob)
<1>1. CASE CdResetOn
  <2>1. /\ cdsrst' = TRUE /\ cdstatus' = {"busy", "seek"}
        /\ cdhost' = [phase |-> "reset", part |-> 0, todo |-> 0, end |-> 0]
        /\ UNCHANGED <<present, cdpos, sense, changed, reason, limit, cdxfer, cdbuf, cdstream,
                       cdirq, cdout>>
    BY <1>1 DEF CdResetOn, Goes
  <2>2. CdTypeOK' /\ CdQuiet'
    BY <2>1 DEF CdInv, CdTypeOK, CdQuiet
  <2> QED BY <2>1, <2>2 DEF CdInv, CdJob, CdStream!NoJob
<1>2. CASE CdResetOff
  <2>1. /\ cdsrst /\ cdsrst' = FALSE /\ cdstatus' = CdIdle /\ reason' = "cmd"
        /\ limit' = Signature
        /\ UNCHANGED <<present, cdpos, sense, changed, cdxfer, cdbuf, cdstream, cdirq, cdout,
                       cdhost>>
    BY <1>2 DEF CdResetOff
  <2>2. cdhost.phase = "reset" /\ CdQuiet /\ CdTypeOK
    BY <2>1 DEF CdInv
  <2>3. CdTypeOK' /\ CdQuiet'
    BY <2>1, <2>2, CdConstants DEF CdTypeOK, CdQuiet, CdIdle
  <2> QED BY <2>1, <2>2, <2>3 DEF CdInv, CdJob
<1>3. CASE CdSettle
  <2>1. /\ cdhost.phase = "reset" /\ ~cdsrst /\ cdirq' = 0
        /\ cdhost' = [phase |-> "idle", part |-> 0, todo |-> 0, end |-> 0]
        /\ UNCHANGED <<present, cdpos, sense, changed, cdstatus, reason, limit, cdxfer, cdbuf,
                       cdstream, cdout, cdsrst>>
    BY <1>3 DEF CdSettle, Goes
  <2>2. CdTypeOK' /\ CdQuiet'
    BY <2>1 DEF CdInv, CdTypeOK, CdQuiet
  <2> QED BY <2>1, <2>2 DEF CdInv, CdJob, CdStream!NoJob
<1> QED BY <1>1, <1>2, <1>3

LEMMA CdSteps ==
    ASSUME AmpleLimits, CdInv, [CdNext]_cdvars
    PROVE  /\ CdInv'
           /\ [CdStream!StreamNext]_<<[w \in 0 .. DISC * SECTOR - 1 |-> w], CdJob, cdout>>
<1> DEFINE Streamed == <<[w \in 0 .. DISC * SECTOR - 1 |-> w], CdJob, cdout>>
<1>1. CASE UNCHANGED cdvars
  BY <1>1 DEF cdvars, cddrive, CdInv, CdTypeOK, CdQuiet, CdReading, CdReplying, CdTaking,
              Hollow, CdJob
<1>2. ASSUME NEW l \in Limits, GivePacket(l) PROVE CdInv' /\ [CdStream!StreamNext]_Streamed
  <2>1. l = 0 \/ l >= SECTOR
    BY DEF AmpleLimits
  <2> QED BY <1>2, <2>1, CdGiveKeeps DEF CdStream!StreamNext
<1>3. CASE GiveCommand
  BY <1>3, CdCommandKeeps DEF CdStream!StreamNext
<1>4. CASE SendPacket
  <2>1. CASE UNCHANGED <<CdJob, cdout>>
    BY <1>4, <2>1, CdSendKeeps
  <2>2. ASSUME NEW s \in Spans, CdStream!Start("read", s[1], s[2])
        PROVE  CdStream!StreamNext
    BY <2>2 DEF CdStream!StreamNext
  <2> QED BY <1>4, <2>1, <2>2, CdSendKeeps
<1>5. CASE CdInterrupt
  BY <1>5, CdInterruptKeeps
<1>6. ASSUME NEW k \in 1 .. DISC * SECTOR, MovePart(k)
      PROVE  CdInv' /\ [CdStream!StreamNext]_Streamed
  <2>1. CdReplying \/ CdReading
    <3>1. k <= cdxfer.left /\ cdhost.phase = "data" /\ cdxfer.left \in Nat
      BY <1>6 DEF MovePart, PacketRead, CdInv, CdTypeOK
    <3>2. ~Hollow
      BY <3>1 DEF Hollow
    <3> QED BY <3>1, <3>2 DEF CdInv
  <2>2. CASE CdReplying
    BY <1>6, <2>2, ReplyKeeps
  <2>3. CASE CdReading
    BY <1>6, <2>3, DiscKeeps DEF CdStream!StreamNext
  <2> QED BY <2>1, <2>2, <2>3
<1>7. CASE CdResetOn \/ CdResetOff \/ CdSettle
  <2>1. CdInv' /\ cdout' = cdout /\ (CdJob' = CdJob \/ CdJob' = CdStream!NoJob)
    BY <1>7, CdResetsKeep
  <2>2. CdStream!Abort \/ UNCHANGED Streamed
    BY <2>1 DEF CdStream!Abort
  <2> QED BY <2>1, <2>2 DEF CdStream!StreamNext
<1>8. CASE MoveNothing
  BY <1>8, NothingKeeps
<1> QED BY <1>1, <1>2, <1>3, <1>4, <1>5, <1>6, <1>7, <1>8 DEF CdNext

\* A host with ample limits is told of each part and of each end, and finds the part
\* it was told of, unless it asked READ CD for no sector (Hollow): that command the
\* drive ends, if at all, by a string read.
THEOREM CdromInStep == ASSUME AmpleLimits PROVE CdSpec => [](CdTypeOK /\ CdInStep)
<1>1. CdInv /\ [CdNext]_cdvars => CdInv'
  BY CdSteps
<1>2. CdInv => CdTypeOK /\ CdInStep
  <2> SUFFICES ASSUME CdInv PROVE CdInStep
    BY DEF CdInv
  <2>1. cdhost.phase = "data" => /\ "drq" \in cdstatus /\ ~cdxfer.write
                                 /\ cdxfer.left >= cdhost.part \/ Hollow
                                 /\ cdhost.todo > 0 => cdxfer.left = cdhost.todo
    <3>1. ASSUME cdhost.phase = "data", CdReplying PROVE cdxfer.left >= cdhost.part /\ ~(cdhost.todo > 0)
      BY <3>1 DEF CdReplying, CdInv, CdTypeOK
    <3>2. ASSUME cdhost.phase = "data", CdReading PROVE cdxfer.left >= cdhost.part
      <4>1. PICK n \in Nat : n = cdstream.end - cdstream.lba - 1
        <5>1. cdstream.lba \in Nat /\ cdstream.end \in Nat /\ cdstream.lba < cdstream.end
          BY <3>2 DEF CdReading, CdInv, CdTypeOK
        <5>2. cdstream.end - cdstream.lba - 1 \in Nat
          BY <5>1
        <5> QED BY <5>2
      <4>2. n * SECTOR \in Nat
        BY CdConstants, Part, Z3
      <4>3. cdxfer.left = n * SECTOR + cdhost.part /\ cdhost.part \in Nat
        BY <3>2, <4>1 DEF CdReading, CdInv, CdTypeOK
      <4> QED BY <4>2, <4>3
    <3> QED BY <3>1, <3>2 DEF CdInv, CdReplying, CdReading, Hollow
  <2>2. cdhost.phase = "await" => /\ cdirq = 1 \/ Hollow
                                  /\ cdhost.todo > 0 => "drq" \in cdstatus
    BY DEF CdInv, CdQuiet, CdReplying, CdReading, Hollow
  <2>3. cdhost.phase = "poll" => "drq" \in cdstatus /\ reason = "cmd" /\ cdxfer.write
    BY DEF CdInv, CdTaking
  <2>4. cdhost.phase = "idle" => cdirq = 0 /\ cdhost.todo = 0 /\ "drq" \notin cdstatus
    BY DEF CdInv, CdQuiet
  <2> QED BY <2>1, <2>2, <2>3, <2>4 DEF CdInStep
<1> QED BY <1>1, <1>2, CdStarts, PTL DEF CdSpec

THEOREM CdromStreams == ASSUME AmpleLimits PROVE CdSpec => CdStreams
<1>1. CdInv /\ [CdNext]_cdvars
      => CdInv' /\ [CdStream!StreamNext]_<<[w \in 0 .. DISC * SECTOR - 1 |-> w], CdJob, cdout>>
  BY CdSteps
<1>2. CdInit => CdJob = CdStream!NoJob
  BY DEF CdInit, CdJob, CdStream!NoJob
<1> QED BY <1>1, <1>2, CdStarts, PTL DEF CdSpec, CdStreams, CdStream!StreamSpec

-----------------------------------------------------------------------------
(* Fdc, for any geometry, any transfers and any number of disk changes: an     *)
(* interrupt the driver waits for always comes, and what it is told is of its  *)
(* own command.                                                             *)

(***************************************************************************)
(* The invariant.  Between commands nothing is left over: no line is up, no  *)
(* tick is counted, no reset is still to be told.  While a transfer runs the *)
(* line is down, so that its end makes an edge.                             *)
(***************************************************************************)
Ranges ==
    /\ timer \in 0 .. 2 /\ line \in 0 .. 1 /\ latched \in 0 .. 1 /\ resets \in 0 .. 4
    /\ enabled \in BOOLEAN /\ stage \in {"cmd", "exec", "result"}
    /\ driver \in [phase : {"idle", "wait", "serve", "read", "off"},
                   for : {"none", "answer", "reset", "seek", "rw"}, left : 0 .. 4]

Enabled == enabled <=> driver.phase # "off"

\* nothing is left over before a command and while a transfer runs
AtRest == /\ driver.phase \in {"idle", "off"} => timer = 0 /\ line = 0 /\ resets = 0
          /\ stage = "exec" => timer = 0 /\ line = 0 /\ driver.phase \in {"wait", "serve"}
                               /\ driver.for = "rw"

\* what the controller has ready for the command the driver waits for
Owes ==
    /\ driver.phase \in {"wait", "serve"} =>
           \/ driver.for = "rw" /\ driver.left = 0
              /\ (stage = "exec" \/ (stage = "result" /\ result \in {"rw", "fail"}))
           \/ driver.for = "seek" /\ driver.left = 1 /\ told = "seek" /\ resets = 0
           \/ driver.for = "reset" /\ driver.left > 0 /\ resets = driver.left
    /\ driver.for # "reset" => resets = 0

\* and what it has told it
Tells ==
    driver.phase = "read" =>
        /\ stage = "result"
        /\ \/ driver.for = "rw" /\ driver.left = 0 /\ result \in {"rw", "fail"}
           \/ driver.for = "answer" /\ driver.left = 0 /\ result = "answer"
           \/ driver.for = "seek" /\ driver.left = 0 /\ result = "seek"
           \/ driver.for = "reset" /\ driver.left = resets /\ result = "reset"

FInv == Ranges /\ Enabled /\ AtRest /\ Owes /\ Tells /\ WaitEnds

(* Two kinds of step leave most of it alone: the disk menu, and steps that    *)
(* only take a result or an edge.                                           *)
LEMMA SwapKeeps == FInv /\ Swap => FInv'
BY DEF Swap, Ports, FInv, Ranges, Enabled, AtRest, Owes, Tells, WaitEnds

LEMMA DmaRunKeeps == FInv /\ DmaRun => FInv'
<1> SUFFICES ASSUME FInv, DmaRun PROVE FInv'
  OBVIOUS
<1>1. /\ stage = "exec" /\ stage' = "result" /\ result' \in {"rw", "fail"} /\ timer' = 2
      /\ UNCHANGED <<resets, enabled, line, latched, driver>>
  BY DEF DmaRun, FinishRw, Schedule, Ports
<1>2. line = 0 /\ driver.phase \in {"wait", "serve"} /\ driver.for = "rw" /\ driver.left = 0
  BY <1>1 DEF FInv, AtRest, Owes
<1>3. enabled
  BY <1>2 DEF FInv, Enabled
<1>4. Ranges' /\ Enabled' /\ AtRest' /\ Tells'
  BY <1>1, <1>2 DEF FInv, Ranges, Enabled, AtRest, Tells
<1>5. Owes' /\ WaitEnds'
  BY <1>1, <1>2, <1>3 DEF FInv, Owes, WaitEnds
<1> QED BY <1>4, <1>5 DEF FInv

LEMMA TickKeeps == FInv /\ Tick => FInv'
<1> SUFFICES ASSUME FInv, Tick PROVE FInv'
  OBVIOUS
<1>1. /\ timer \in 1 .. 2 /\ timer' = timer - 1
      /\ UNCHANGED <<stage, result, resets, told, enabled, driver>>
  BY DEF Tick, FInv, Ranges
<1>2. \/ /\ timer = 1 /\ enabled /\ line' = 1
         /\ latched' = IF line = 0 THEN 1 ELSE latched
      \/ ~(timer = 1 /\ enabled) /\ line' = line /\ latched' = latched
  BY DEF Tick
<1>3. stage # "exec" /\ driver.phase \notin {"idle", "off"}
  BY <1>1 DEF FInv, AtRest
<1>4. Ranges' /\ Enabled' /\ Owes' /\ Tells'
  BY <1>1, <1>2 DEF FInv, Ranges, Enabled, Owes, Tells
<1>5. AtRest'
  BY <1>1, <1>3 DEF AtRest
<1>6. WaitEnds'
  BY <1>1, <1>2, <1>3 DEF FInv, WaitEnds
<1> QED BY <1>4, <1>5, <1>6 DEF FInv

(* The driver.                                                              *)
LEMMA DriverType ==
    ASSUME Ranges, NEW x \in {"idle", "wait", "serve", "read", "off"}
    PROVE  /\ driver = [phase |-> driver.phase, for |-> driver.for, left |-> driver.left]
           /\ [driver EXCEPT !.phase = x] = [phase |-> x, for |-> driver.for, left |-> driver.left]
BY DEF Ranges

LEMMA GiveKeeps == FInv /\ Give => FInv'
<1> SUFFICES ASSUME FInv, Give PROVE FInv'
  OBVIOUS
<1>1. /\ timer = 0 /\ line = 0 /\ resets = 0 /\ enabled /\ stage # "exec"
      /\ driver.phase = "idle" /\ Ranges
  BY DEF Give, FInv, AtRest
<1>2. CASE Specify /\ UNCHANGED driver
  BY <1>1, <1>2 DEF Specify, Ports, FInv, Ranges, Enabled, AtRest, Owes, Tells, WaitEnds
<1>3. CASE Answer /\ Does("read", "answer", 0)
  <2>1. /\ stage' = "result" /\ result' = "answer" /\ UNCHANGED <<resets, timer, enabled, line, latched>>
        /\ driver' = [phase |-> "read", for |-> "answer", left |-> 0]
    BY <1>3 DEF Answer, Ports, Does
  <2> QED BY <1>1, <2>1 DEF FInv, Ranges, Enabled, AtRest, Owes, Tells, WaitEnds
<1>4. CASE Seek /\ Does("wait", "seek", 1)
  <2>1. /\ stage' = "cmd" /\ told' = "seek" /\ timer' = 2 /\ UNCHANGED <<resets, enabled, line, latched>>
        /\ driver' = [phase |-> "wait", for |-> "seek", left |-> 1]
    BY <1>4 DEF Seek, Schedule, Ports, Does
  <2> QED BY <1>1, <2>1 DEF FInv, Ranges, Enabled, AtRest, Owes, Tells, WaitEnds
<1>5. ASSUME UNCHANGED <<resets, enabled, line, latched>>,
             driver' = [phase |-> "wait", for |-> "rw", left |-> 0],
             \/ stage' = "exec" /\ timer' = timer
             \/ stage' = "result" /\ result' \in {"rw", "fail"} /\ timer' = 2
      PROVE  FInv'
  BY <1>1, <1>5 DEF FInv, Ranges, Enabled, AtRest, Owes, Tells, WaitEnds
<1>6. CASE Report /\ Does("wait", "rw", 0)
  BY <1>5, <1>6 DEF Report, FinishRw, Schedule, Ports, Does
<1>7. CASE \E t \in Transfers \cup {Outside} : StartDma(t) /\ Does("wait", "rw", 0)
  BY <1>5, <1>7 DEF StartDma, FinishRw, Schedule, Ports, Does
<1> QED BY <1>2, <1>3, <1>4, <1>6, <1>7 DEF Give

LEMMA InterruptKeeps == FInv /\ Interrupt => FInv'
<1> SUFFICES ASSUME FInv, Interrupt PROVE FInv'
  OBVIOUS
<1>1. /\ latched' = 0 /\ UNCHANGED <<stage, result, resets, told, timer, enabled, line>>
  BY DEF Interrupt
<1>2. CASE driver.phase = "wait"
  <2>1. driver' = [phase |-> "serve", for |-> driver.for, left |-> driver.left]
    BY <1>2, DriverType DEF Interrupt, FInv
  <2> QED BY <1>1, <1>2, <2>1 DEF FInv, Ranges, Enabled, AtRest, Owes, Tells, WaitEnds
<1>3. CASE driver.phase # "wait"
  <2>1. driver' = driver
    BY <1>3 DEF Interrupt
  <2> QED BY <1>1, <1>3, <2>1 DEF FInv, Ranges, Enabled, AtRest, Owes, Tells, WaitEnds
<1> QED BY <1>2, <1>3

LEMMA SenseKeeps == FInv /\ Sense => FInv'
<1> SUFFICES ASSUME FInv, Sense PROVE FInv'
  OBVIOUS
<1>1. /\ driver.phase = "serve" /\ driver.for # "rw" /\ SenseInterrupt
      /\ driver' = [phase |-> "read", for |-> driver.for, left |-> driver.left - 1]
  BY DEF Sense, Does
<1>2. Ranges /\ stage' = "result" /\ UNCHANGED <<enabled, latched>>
  BY <1>1 DEF FInv, SenseInterrupt
<1>3. stage # "exec" /\ enabled
  BY <1>1 DEF FInv, AtRest, Enabled
<1>4. CASE driver.for = "seek"
  <2>1. driver.left = 1 /\ told = "seek" /\ resets = 0
    BY <1>1, <1>4 DEF FInv, Owes
  <2>2. result' = "seek" /\ line' = 0 /\ UNCHANGED <<resets, timer>>
    BY <1>1, <2>1 DEF SenseInterrupt, Nothing
  <2> QED BY <1>1, <1>2, <1>3, <1>4, <2>1, <2>2
          DEF FInv, Ranges, Enabled, AtRest, Owes, Tells, WaitEnds
<1>5. CASE driver.for = "reset"
  <2>1. driver.left > 0 /\ resets = driver.left
    BY <1>1, <1>5 DEF FInv, Owes
  <2>2. /\ result' = "reset" /\ resets' = resets - 1
        /\ timer' = (IF resets > 1 THEN 2 ELSE timer)
        /\ line' = (IF resets > 1 THEN line ELSE 0)
    BY <1>1, <1>2, <2>1 DEF SenseInterrupt, Ranges
  <2> QED BY <1>1, <1>2, <1>3, <1>5, <2>1, <2>2
          DEF FInv, Ranges, Enabled, AtRest, Owes, Tells, WaitEnds
<1> QED BY <1>1, <1>4, <1>5 DEF FInv, Owes

(* Waiting on for a transfer, or going to read its result.                    *)
LEMMA LookKeeps == FInv /\ (LookMsr \/ PollMsr) => FInv'
<1> SUFFICES ASSUME FInv, LookMsr \/ PollMsr PROVE FInv'
  OBVIOUS
<1>1. /\ driver.phase \in {"serve", "wait"} /\ driver.for = "rw"
      /\ UNCHANGED <<stage, result, resets, told, timer, enabled, line, latched>>
  BY DEF LookMsr, PollMsr, Ports
<1>2. driver.left = 0 /\ enabled /\ Ranges
      /\ (stage = "exec" \/ (stage = "result" /\ result \in {"rw", "fail"}))
  BY <1>1 DEF FInv, Owes, Enabled
<1>3. driver' = [phase |-> IF stage = "result" THEN "read" ELSE "wait", for |-> "rw", left |-> 0]
  BY <1>1, <1>2, DriverType DEF LookMsr, PollMsr
<1> QED BY <1>1, <1>2, <1>3 DEF FInv, Ranges, Enabled, AtRest, Owes, Tells, WaitEnds

LEMMA ReadKeeps == FInv /\ Read => FInv'
<1> SUFFICES ASSUME FInv, Read PROVE FInv'
  OBVIOUS
<1>1. /\ driver.phase = "read" /\ stage' = "cmd" /\ timer' = 0 /\ line' = 0
      /\ UNCHANGED <<result, resets, told, enabled, latched>>
  BY DEF Read, ReadResult
<1>2. Ranges /\ enabled
  BY <1>1 DEF FInv, Enabled
<1>3. CASE driver.left > 0
  <2>1. driver' = [phase |-> "serve", for |-> driver.for, left |-> driver.left]
    BY <1>3 DEF Read, Does
  <2>2. driver.for = "reset" /\ resets = driver.left
    BY <1>1, <1>3 DEF FInv, Tells
  <2> QED BY <1>1, <1>2, <1>3, <2>1, <2>2 DEF FInv, Ranges, Enabled, AtRest, Owes, Tells, WaitEnds
<1>4. CASE ~(driver.left > 0)
  <2>1. driver' = [phase |-> "idle", for |-> "none", left |-> 0]
    BY <1>4 DEF Read, Does
  <2>2. resets = 0
    BY <1>1, <1>2, <1>4 DEF FInv, Tells, Owes, Ranges
  <2> QED BY <1>1, <1>2, <2>1, <2>2 DEF FInv, Ranges, Enabled, AtRest, Owes, Tells, WaitEnds
<1> QED BY <1>3, <1>4

LEMMA ResetKeeps == FInv /\ (ResetOn \/ ResetOff) => FInv'
<1> SUFFICES ASSUME FInv, ResetOn \/ ResetOff PROVE FInv'
  OBVIOUS
<1>1. CASE ResetOn
  <2>1. /\ stage' = "cmd" /\ resets' = 0 /\ timer' = 0 /\ line' = 0 /\ enabled' = FALSE
        /\ latched' = latched /\ driver' = [phase |-> "off", for |-> "none", left |-> 0]
    BY <1>1 DEF ResetOn, Reset, Does
  <2>2. Ranges'
    <3>1. driver' \in [phase : {"idle", "wait", "serve", "read", "off"},
                       for : {"none", "answer", "reset", "seek", "rw"}, left : 0 .. 4]
      BY <2>1
    <3>2. latched' \in 0 .. 1
      BY <2>1 DEF FInv, Ranges
    <3>3. timer' \in 0 .. 2 /\ line' \in 0 .. 1 /\ resets' \in 0 .. 4
      BY <2>1
    <3>4. enabled' \in BOOLEAN /\ stage' \in {"cmd", "exec", "result"}
      BY <2>1
    <3> QED BY <3>1, <3>2, <3>3, <3>4 DEF Ranges
  <2>3. Enabled' /\ AtRest'
    BY <2>1 DEF Enabled, AtRest
  <2>4. Owes' /\ Tells' /\ WaitEnds'
    BY <2>1 DEF Owes, Tells, WaitEnds
  <2> QED BY <2>2, <2>3, <2>4 DEF FInv
<1>2. CASE ResetOff
  <2>1. /\ stage' = "cmd" /\ resets' = 4 /\ timer' = 2 /\ line' = line /\ enabled' = TRUE
        /\ latched' = latched /\ driver' = [phase |-> "wait", for |-> "reset", left |-> 4]
    BY <1>2 DEF ResetOff, Reset, Does
  <2>2. line = 0
    BY <1>2 DEF ResetOff, FInv, Enabled, AtRest
  <2> QED BY <2>1, <2>2 DEF FInv, Ranges, Enabled, AtRest, Owes, Tells, WaitEnds
<1> QED BY <1>1, <1>2

(* The invariant holds of every reachable state.                              *)
THEOREM FInvariance == FSpec => []FInv
<1>1. FInit => FInv
  BY DEF FInit, Nothing, FInv, Ranges, Enabled, AtRest, Owes, Tells, WaitEnds
<1>2. FInv /\ [FNext]_fvars => FInv'
  <2> SUFFICES ASSUME FInv, [FNext]_fvars PROVE FInv'
    OBVIOUS
  <2>1. CASE FNext
    BY <2>1, GiveKeeps, InterruptKeeps, SenseKeeps, LookKeeps, ReadKeeps, ResetKeeps,
       DmaRunKeeps, TickKeeps, SwapKeeps DEF FNext
  <2>2. CASE UNCHANGED fvars
    BY <2>2 DEF fvars, FInv, Ranges, Enabled, AtRest, Owes, Tells, WaitEnds
  <2> QED BY <2>1, <2>2
<1> QED BY <1>1, <1>2, PTL DEF FSpec

(* An interrupt the driver waits for is latched or will make an edge, for any *)
(* disk, any transfers and any changes of the disk (fdc_schedule_irq).       *)
THEOREM InterruptComes == FSpec => []WaitEnds
<1>1. FInv => WaitEnds
  BY DEF FInv
<1> QED BY <1>1, FInvariance, PTL

(* Driver and controller never lose step: besides, the driver is told of its   *)
(* own command (SENSE INTERRUPT STATUS and the result phase).                *)
THEOREM DriverStaysInStep == FSpec => []DriverInStep
<1>1. FInv => DriverInStep
  BY DEF FInv, Tells, ToldOfItsOwn, DriverInStep
<1> QED BY <1>1, FInvariance, PTL

(* The sectors of a transfer: each follows the one before it on the disk, across    *)
(* heads and cylinders.                                                        *)
LEMMA ChsOfParts ==
    ASSUME NEW s \in Nat, NEW q \in Nat, NEW h \in 0 .. 1, NEW r \in 0 .. SECTORS - 1,
           (q * 2 + h) * SECTORS + r = s
    PROVE  ChsOf(s) = [cyl |-> q, head |-> h, sect |-> r + 1]
<1>1. SECTORS \in Nat \ {0} /\ q * 2 + h \in Nat
  BY FdSizes
<1>2. PICK a \in Nat : a = q * 2 + h
  BY <1>1
<1>3. s % SECTORS = r
  BY <1>1, <1>2, Part
<1>4. s \div SECTORS = a
  <2>1. PICK p \in Nat : p = a * SECTORS
    BY <1>1, <1>2, Part
  <2>2. p <= s /\ s < p + SECTORS
    BY <1>1, <1>2, <2>1
  <2> QED BY <1>1, <2>1, <2>2, DividedOnce
<1>5. a % 2 = h
  BY <1>2
<1>6. s \div (2 * SECTORS) = q
  <2>1. a * SECTORS + r = s /\ q * 2 + h = a
    BY <1>2
  <2>2. h \in 0 .. 2 - 1 /\ 2 \in Nat \ {0}
    OBVIOUS
  <2> QED BY <1>1, <2>1, <2>2, DividedTwice
<1> QED BY <1>3, <1>4, <1>5, <1>6 DEF ChsOf

LEMMA PartsOfChs ==
    ASSUME NEW s \in Nat
    PROVE  \E q \in Nat, h \in 0 .. 1, r \in 0 .. SECTORS - 1 :
              /\ (q * 2 + h) * SECTORS + r = s
              /\ ChsOf(s) = [cyl |-> q, head |-> h, sect |-> r + 1]
<1>1. PICK a \in Nat, r \in 0 .. SECTORS - 1 : a * SECTORS + r = s
  BY FdSizes, Divided
<1>2. PICK q \in Nat, h \in 0 .. 1 : q * 2 + h = a
  <2>1. a \div 2 \in Nat /\ a % 2 \in 0 .. 1 /\ (a \div 2) * 2 + (a % 2) = a
    OBVIOUS
  <2> QED BY <2>1
<1>3. (q * 2 + h) * SECTORS + r = s
  BY <1>1, <1>2
<1>4. ChsOf(s) = [cyl |-> q, head |-> h, sect |-> r + 1]
  BY <1>3, ChsOfParts
<1> QED BY <1>3, <1>4

LEMMA SectorsFollow ==
    ASSUME NEW s \in Nat
    PROVE  OffsetOf(ChsOf(s)) = s /\ After(ChsOf(s)) = ChsOf(s + 1)
<1>1. PICK q \in Nat, h \in 0 .. 1, r \in 0 .. SECTORS - 1 :
         /\ (q * 2 + h) * SECTORS + r = s
         /\ ChsOf(s) = [cyl |-> q, head |-> h, sect |-> r + 1]
  BY PartsOfChs
<1>2. SECTORS \in Nat \ {0} /\ s + 1 \in Nat
  BY FdSizes
<1>3. PICK p \in Nat : p = (q * 2 + h) * SECTORS
  <2>1. q * 2 + h \in Nat
    OBVIOUS
  <2> QED BY <1>2, <2>1, Part
<1>4. OffsetOf(ChsOf(s)) = s
  <2>1. OffsetOf(ChsOf(s)) = p + (r + 1) - 1
    BY <1>1, <1>3 DEF OffsetOf
  <2> QED BY <1>1, <1>2, <1>3, <2>1
<1>5. CASE r + 1 < SECTORS
  <2>1. PICK t \in 0 .. SECTORS - 1 : t = r + 1
    BY <1>2, <1>5
  <2>2. (q * 2 + h) * SECTORS + t = s + 1
    BY <1>1, <1>2, <1>3, <2>1
  <2>3. ChsOf(s + 1) = [cyl |-> q, head |-> h, sect |-> t + 1]
    BY <1>2, <2>2, ChsOfParts
  <2>4. After(ChsOf(s)) = [cyl |-> q, head |-> h, sect |-> t + 1]
    <3>1. ~(r + 1 + 1 > SECTORS)
      BY <1>2, <1>5
    <3> QED BY <1>1, <2>1, <3>1 DEF After
  <2> QED BY <1>4, <2>3, <2>4
<1>6. CASE r + 1 = SECTORS
  <2>1. PICK c \in Nat, g \in 0 .. 1 : c = q + h /\ g = 1 - h /\ c * 2 + g = (q * 2 + h) + 1
    <3>1. q + h \in Nat /\ 1 - h \in 0 .. 1 /\ (q + h) * 2 + (1 - h) = (q * 2 + h) + 1
      OBVIOUS
    <3> QED BY <3>1
  <2>2. (c * 2 + g) * SECTORS + 0 = s + 1
    <3>1. ((q * 2 + h) + 1) * SECTORS = (q * 2 + h) * SECTORS + 1 * SECTORS
      <4>1. q * 2 + h \in Int
        OBVIOUS
      <4> QED BY <1>2, <4>1, Times
    <3>2. 1 * SECTORS = SECTORS
      BY <1>2
    <3> QED BY <1>1, <1>2, <1>3, <1>6, <2>1, <3>1, <3>2
  <2>3. ChsOf(s + 1) = [cyl |-> c, head |-> g, sect |-> 0 + 1]
    <3>1. 0 \in 0 .. SECTORS - 1
      BY <1>2
    <3> QED BY <1>2, <2>2, <3>1, ChsOfParts
  <2>4. After(ChsOf(s)) = [cyl |-> c, head |-> g, sect |-> 1]
    <3>1. r + 1 + 1 > SECTORS
      BY <1>2, <1>6
    <3> QED BY <1>1, <2>1, <3>1 DEF After
  <2> QED BY <1>4, <2>3, <2>4
<1> QED BY <1>2, <1>5, <1>6

LEMMA PathIs ==
    ASSUME NEW s \in Nat, NEW t, t.at = ChsOf(s), t.n \in Nat
    PROVE  \A i \in 0 .. t.n : Path(t)[i] = ChsOf(s + i)
<1> DEFINE n == t.n
<1> DEFINE F(f) == [i \in 0 .. n |-> IF i = 0 THEN t.at ELSE After(f[i - 1])]
<1> DEFINE g == [i \in 0 .. n |-> ChsOf(s + i)]
<1>1. g = F(g)
  <2>1. ASSUME NEW i \in 0 .. n PROVE g[i] = IF i = 0 THEN t.at ELSE After(g[i - 1])
    <3>1. CASE i = 0
      BY <3>1
    <3>2. CASE i # 0
      <4>1. i - 1 \in 0 .. n /\ s + (i - 1) \in Nat /\ (s + (i - 1)) + 1 = s + i
        BY <3>2
      <4>2. g[i] = ChsOf(s + i) /\ g[i - 1] = ChsOf(s + (i - 1))
        BY <4>1
      <4>3. After(ChsOf(s + (i - 1))) = ChsOf((s + (i - 1)) + 1)
        BY <4>1, SectorsFollow
      <4> QED BY <3>2, <4>1, <4>2, <4>3
    <3> QED BY <3>1, <3>2
  <2> QED BY <2>1
<1>2. Path(t) = CHOOSE f : f = F(f)
  BY DEF Path
<1>3. PICK f : f = Path(t) /\ f = F(f)
  <2> HIDE DEF g, F
  <2> QED BY <1>1, <1>2
<1>4. f[0] = t.at /\ \A i \in 1 .. n : f[i] = After(f[i - 1])
  <2> DEFINE h == F(f)
  <2>1. h[0] = t.at /\ \A i \in 1 .. n : h[i] = After(f[i - 1])
    OBVIOUS
  <2>2. f = h
    BY <1>3
  <2> HIDE DEF h
  <2> QED BY <2>1, <2>2
<1>5. ASSUME NEW j \in 0 .. n, f[j] # ChsOf(s + j) PROVE FALSE
  <2> DEFINE B == {i \in 0 .. n : f[i] # ChsOf(s + i)}
  <2>1. B \in SUBSET Nat /\ B # {}
    BY <1>5
  <2>2. PICK b \in B : \A x \in B : b <= x
    BY <2>1, MinExists
  <2>3. b # 0
    BY <1>4, <2>2
  <2>4. b - 1 \in 0 .. n /\ b - 1 \notin B /\ b \in 1 .. n
    BY <2>2, <2>3
  <2>5. f[b - 1] = ChsOf(s + (b - 1)) /\ f[b] = After(f[b - 1])
    BY <1>4, <2>4
  <2>6. s + (b - 1) \in Nat /\ (s + (b - 1)) + 1 = s + b
    BY <2>4
  <2>7. f[b] = ChsOf(s + b)
    BY <2>5, <2>6, SectorsFollow
  <2> QED BY <2>2, <2>7
<1> QED BY <1>3, <1>5

(* The rest of the invariant: what runs is a transfer the driver asked for.        *)
Running ==
    stage = "exec" => \E op \in {"read", "write"}, r \in Asked :
                         dma = [op |-> op, at |-> ChsOf(r[1]), n |-> r[2]]

FRest ==
    /\ image \in [Sector -> Sector \cup {FRESH}] /\ inserted \in BOOLEAN
    /\ result \in Says /\ told \in Says /\ dma \in Transfers \cup {NoDma, Outside}
    /\ taken \in Sector \cup {FRESH} /\ swaps \in 0 .. SWAPS

FAll == FInv /\ Running /\ FRest

LEMMA Track == /\ CYLS * 2 * SECTORS \in Nat \ {0}
               /\ OffsetOf(Outside.at) = CYLS * 2 * SECTORS
<1>1. CYLS * 2 \in Nat \ {0} /\ SECTORS \in Nat \ {0}
  BY FdSizes
<1>2. CYLS * 2 * SECTORS \in Nat \ {0}
  BY <1>1, Z3
<1>3. OffsetOf(Outside.at) = (CYLS * 2 + 0) * SECTORS + 1 - 1
  BY DEF OffsetOf, Outside
<1>4. CYLS * 2 + 0 = CYLS * 2
  BY <1>1
<1>5. OffsetOf(Outside.at) = CYLS * 2 * SECTORS + 1 - 1
  BY <1>3, <1>4
<1> QED BY <1>2, <1>5

LEMMA AskedIs ==
    ASSUME NEW r \in Asked
    PROVE  r[1] \in Nat /\ r[2] \in Nat \ {0} /\ r[1] + r[2] <= CYLS * 2 * SECTORS
BY FdOnDisk

(* A command is an idle driver's, and starts a transfer of a run or none.          *)
LEMMA GiveStarts ==
    ASSUME FAll, Give
    PROVE  /\ Running' /\ FRest'
           /\ Floppy!Other \/ \E op \in {"read", "write"}, r \in Asked : Floppy!Start(op, r[1], r[2])
<1>1. /\ driver.phase = "idle" /\ stage # "exec" /\ taken' = FRESH
      /\ UNCHANGED <<image, inserted, swaps>> /\ FRest
  BY DEF Give, FAll, FInv, AtRest
<1>2. Job = Floppy!NoJob
  BY <1>1 DEF Job, Floppy!NoJob
<1>3. ASSUME stage' # "exec", dma' = dma, result' \in Says, told' \in Says
      PROVE  Running' /\ FRest' /\ Floppy!Other
  <2>1. Job' = Floppy!NoJob
    BY <1>3 DEF Job, Floppy!NoJob
  <2> QED BY <1>1, <1>2, <1>3, <2>1 DEF Running, FRest, Floppy!Other
<1>4. CASE Specify \/ Answer \/ Seek \/ Report
  <2>1. stage' # "exec" /\ dma' = dma /\ result' \in Says /\ told' \in Says
    BY <1>1, <1>4 DEF Specify, Answer, Seek, Report, FinishRw, Schedule, FRest, Says
  <2> QED BY <1>3, <2>1
<1>5. ASSUME NEW t \in Transfers \cup {Outside}, StartDma(t)
      PROVE  /\ Running' /\ FRest'
             /\ \/ Floppy!Other
                \/ \E op \in {"read", "write"}, r \in Asked : Floppy!Start(op, r[1], r[2])
  <2>1. CASE ~inserted \/ OffsetOf(t.at) \notin Sector
    <3>1. stage' = "result" /\ dma' = dma /\ result' = "fail" /\ told' = "fail"
      BY <1>5, <2>1 DEF StartDma, FinishRw, Schedule
    <3> QED BY <1>3, <3>1 DEF Says
  <2>2. CASE inserted /\ OffsetOf(t.at) \in Sector
    <3>1. t # Outside
      BY <2>2, Track DEF Sector
    <3>2. PICK op \in {"read", "write"}, r \in Asked :
             t = [op |-> op, at |-> ChsOf(r[1]), n |-> r[2]]
      BY <3>1 DEF Transfers
    <3>3. stage' = "exec" /\ dma' = t /\ result' = result /\ told' = told
      BY <1>5, <2>2 DEF StartDma
    <3>4. Running' /\ FRest'
      BY <1>1, <3>2, <3>3 DEF Running, FRest
    <3>5. r[1] \in Nat /\ r[2] \in Nat /\ OffsetOf(ChsOf(r[1])) = r[1]
      BY AskedIs, SectorsFollow
    <3>6. Job' = [op |-> op, at |-> r[1], end |-> r[1] + r[2]]
      <4>1. dma' = [op |-> op, at |-> ChsOf(r[1]), n |-> r[2]]
        BY <3>2, <3>3
      <4>2. dma'.op = op /\ dma'.at = ChsOf(r[1]) /\ dma'.n = r[2]
        BY <4>1
      <4>3. Job' = [op |-> dma'.op, at |-> OffsetOf(dma'.at), end |-> OffsetOf(dma'.at) + dma'.n]
        BY <3>3 DEF Job, OffsetOf
      <4> QED BY <3>5, <4>2, <4>3
    <3>7. Floppy!Start(op, r[1], r[2])
      <4>1. r[1] * 1 = r[1] /\ (r[1] + r[2]) * 1 = r[1] + r[2]
        BY <3>5
      <4> QED BY <1>1, <1>2, <3>6, <4>1 DEF Floppy!Start
    <3> QED BY <3>4, <3>7
  <2> QED BY <2>1, <2>2
<1> QED BY <1>4, <1>5 DEF Give

(* The transfer: the sectors of its run, each once.                             *)
LEMMA RunMoves ==
    ASSUME FAll, DmaRun
    PROVE  Running' /\ FRest' /\ (Floppy!Abort \/ \E k \in 1 .. Job.end - Job.at : Floppy!Move(k))
<1>1. /\ stage = "exec" /\ stage' = "result" /\ dma' = NoDma /\ inserted' = inserted /\ swaps' = swaps
      /\ result' \in {"rw", "fail"} /\ told' = result' /\ FRest
  BY DEF DmaRun, FinishRw, Schedule, FAll
<1>2. PICK op \in {"read", "write"}, r \in Asked :
         dma = [op |-> op, at |-> ChsOf(r[1]), n |-> r[2]]
  BY <1>1 DEF FAll, Running
<1>3. PICK s \in Nat, n \in Nat \ {0} : s = r[1] /\ n = r[2] /\ s + n <= CYLS * 2 * SECTORS
  BY AskedIs
<1>4. dma.op = op /\ dma.at = ChsOf(s) /\ dma.n = n
  BY <1>2, <1>3
<1>5. \A i \in 0 .. n : OffsetOf(Path(dma)[i]) = s + i
  <2>1. \A i \in 0 .. n : Path(dma)[i] = ChsOf(s + i)
    BY <1>4, PathIs
  <2> QED BY <2>1, SectorsFollow
<1>6. Job = [op |-> op, at |-> s, end |-> s + n] /\ Job # Floppy!NoJob
  BY <1>1, <1>4, SectorsFollow DEF Job, Floppy!NoJob
<1>7. Job' = Floppy!NoJob
  BY <1>1 DEF Job, Floppy!NoJob
<1>8. Running'
  BY <1>1 DEF Running
<1>9. CASE UNCHANGED <<image, taken>>
  <2>1. Floppy!Abort
    BY <1>6, <1>7, <1>9 DEF Floppy!Abort
  <2>2. FRest'
    BY <1>1, <1>9 DEF FRest, Says
  <2> QED BY <1>8, <2>1, <2>2
<1>10. CASE op = "write" /\ taken' = taken /\
            image' = [x \in Sector |-> IF x \in Covered(dma) THEN FRESH ELSE image[x]]
  <2>1. Covered(dma) = s .. s + n - 1
    <3>1. ASSUME NEW x \in Covered(dma) PROVE x \in s .. s + n - 1
      <4>1. PICK i \in 0 .. n - 1 : x = OffsetOf(Path(dma)[i])
        BY <1>4 DEF Covered
      <4>2. x = s + i
        BY <1>5, <4>1
      <4> QED BY <4>2
    <3>2. ASSUME NEW x \in s .. s + n - 1 PROVE x \in Covered(dma)
      <4>1. PICK i \in 0 .. n - 1 : x = s + i
        <5>1. x - s \in 0 .. n - 1 /\ x = s + (x - s)
          OBVIOUS
        <5> QED BY <5>1
      <4>2. x = OffsetOf(Path(dma)[i])
        BY <1>5, <4>1
      <4> QED BY <1>4, <4>2 DEF Covered
    <3> QED BY <3>1, <3>2
  <2>2. image' \in [Sector -> Sector \cup {FRESH}]
    BY <1>1, <1>10 DEF FRest
  <2>3. Floppy!Move(n)
    <3>1. DOMAIN image = Sector
      BY <1>1 DEF FRest
    <3> QED BY <1>6, <1>7, <1>10, <2>1, <3>1 DEF Floppy!Move
  <2>4. n \in 1 .. Job.end - Job.at
    BY <1>6
  <2>5. FRest'
    BY <1>1, <1>10, <2>2 DEF FRest, Says
  <2> QED BY <1>8, <2>3, <2>4, <2>5
<1>11. CASE op = "read" /\ image' = image /\ taken' = image[OffsetOf(Path(dma)[dma.n - 1])]
  <2>1. taken' = image[s + n - 1]
    <3>1. n - 1 \in 0 .. n /\ s + (n - 1) = s + n - 1
      OBVIOUS
    <3> QED BY <1>4, <1>5, <1>11, <3>1
  <2>2. taken' \in Sector \cup {FRESH}
    <3>1. s + n - 1 \in Sector
      BY <1>3, Track DEF Sector
    <3> QED BY <1>1, <2>1, <3>1 DEF FRest
  <2>3. Floppy!Move(n)
    BY <1>6, <1>7, <1>11, <2>1 DEF Floppy!Move
  <2>4. n \in 1 .. Job.end - Job.at
    BY <1>6
  <2>5. FRest'
    BY <1>1, <1>11, <2>2 DEF FRest, Says
  <2> QED BY <1>8, <2>3, <2>4, <2>5
<1> QED BY <1>4, <1>9, <1>10, <1>11 DEF DmaRun

(* Every other step leaves the transfer alone or drops it.                        *)
LEMMA OthersLeave ==
    ASSUME FAll,
           \/ Interrupt \/ Sense \/ LookMsr \/ PollMsr \/ Read \/ ResetOn \/ ResetOff \/ Tick \/ Swap
    PROVE  /\ Running' /\ FRest' /\ image' = image /\ taken' = taken
           /\ Job' = Job \/ Job' = Floppy!NoJob
<1>1. image' = image /\ taken' = taken
  BY DEF Interrupt, Sense, LookMsr, PollMsr, Read, ResetOn, ResetOff, Tick, Swap, Media, Ports
<1>2. stage' = "exec" => stage = "exec" /\ dma' = dma
  BY DEF Interrupt, Sense, SenseInterrupt, LookMsr, PollMsr, Read, ReadResult, ResetOn, ResetOff,
     Reset, Tick, Swap
<1>3. \/ stage = "exec" /\ stage' # "exec"
      \/ stage' = "exec" /\ stage = "exec"
      \/ stage # "exec"
  OBVIOUS
<1>4. Running'
  BY <1>2 DEF FAll, Running
<1>5. Job' = Job \/ Job' = Floppy!NoJob
  <2>1. CASE stage' = "exec"
    BY <1>2, <2>1 DEF Job, OffsetOf
  <2>2. CASE stage' # "exec"
    BY <2>2 DEF Job, Floppy!NoJob
  <2> QED BY <2>1, <2>2
<1>6. inserted' \in BOOLEAN /\ swaps' \in 0 .. SWAPS
  <2>1. CASE Swap
    BY <2>1, FdSizes DEF Swap, FAll, FRest
  <2>2. CASE ~Swap
    BY <2>2 DEF Interrupt, Sense, LookMsr, PollMsr, Read, ResetOn, ResetOff, Tick, Media, FAll, FRest
  <2> QED BY <2>1, <2>2
<1>7. result' \in Says /\ told' \in Says /\ dma' \in {dma, NoDma}
  BY DEF Interrupt, Sense, SenseInterrupt, LookMsr, PollMsr, Read, ReadResult, ResetOn, ResetOff,
     Reset, Tick, Swap, FAll, FRest, Says, Nothing
<1>8. FRest'
  BY <1>1, <1>6, <1>7 DEF FAll, FRest
<1> QED BY <1>1, <1>4, <1>5, <1>8

LEMMA FSteps ==
    FAll /\ [FNext]_fvars => FAll' /\ [Floppy!StreamNext]_<<image, Job, taken>>
<1> SUFFICES ASSUME FAll, [FNext]_fvars
             PROVE  FAll' /\ [Floppy!StreamNext]_<<image, Job, taken>>
  OBVIOUS
<1>1. FInv'
  <2>1. CASE FNext
    BY <2>1, GiveKeeps, InterruptKeeps, SenseKeeps, LookKeeps, ReadKeeps, ResetKeeps,
       DmaRunKeeps, TickKeeps, SwapKeeps DEF FNext, FAll
  <2>2. CASE UNCHANGED fvars
    BY <2>2 DEF fvars, FAll, FInv, Ranges, Enabled, AtRest, Owes, Tells, WaitEnds
  <2> QED BY <2>1, <2>2
<1>2. CASE UNCHANGED fvars
  BY <1>1, <1>2 DEF fvars, FAll, Running, FRest, Job, OffsetOf
<1>3. CASE Give
  <2>1. ASSUME NEW op \in {"read", "write"}, NEW r \in Asked, Floppy!Start(op, r[1], r[2])
        PROVE  Floppy!StreamNext
    BY <2>1 DEF Floppy!StreamNext
  <2> QED BY <1>1, <1>3, <2>1, GiveStarts DEF FAll, Floppy!StreamNext
<1>4. CASE DmaRun
  BY <1>1, <1>4, RunMoves DEF FAll, Floppy!StreamNext
<1>5. CASE \/ Interrupt \/ Sense \/ LookMsr \/ PollMsr \/ Read \/ ResetOn \/ ResetOff \/ Tick
           \/ Swap
  <2>1. Floppy!Abort \/ UNCHANGED <<image, Job, taken>>
    BY <1>5, OthersLeave DEF Floppy!Abort
  <2> QED BY <1>1, <1>5, <2>1, OthersLeave DEF FAll, Floppy!StreamNext
<1> QED BY <1>2, <1>3, <1>4, <1>5 DEF FNext

LEMMA FStarts == FInit => FAll /\ Job = Floppy!NoJob
<1> SUFFICES ASSUME FInit PROVE FAll /\ Job = Floppy!NoJob
  OBVIOUS
<1>1. FInv
  BY DEF FInit, Nothing, FInv, Ranges, Enabled, AtRest, Owes, Tells, WaitEnds
<1>2. FRest
  <2>1. 0 \in 0 .. SWAPS
    BY FdSizes
  <2> QED BY <2>1 DEF FInit, FRest, Says, Nothing
<1> QED BY <1>1, <1>2 DEF FInit, FAll, Running, Job, Floppy!NoJob

THEOREM FloppyTypes == FSpec => []FTypeOK
<1>1. FAll /\ [FNext]_fvars => FAll'
  BY FSteps
<1>2. FAll => FTypeOK
  BY DEF FAll, FRest, FInv, Ranges, FTypeOK
<1> QED BY <1>1, <1>2, FStarts, PTL DEF FSpec

THEOREM FloppyImplements == FSpec => FloppyStreams
<1> QED BY FSteps, FStarts, PTL DEF FSpec, FloppyStreams, Floppy!StreamSpec

-----------------------------------------------------------------------------
(* The drives together.                                                      *)

\* A host of the hard disk or of the CD-ROM that waits for an interrupt has one
\* coming, and the drive has the data of the part the host is about to move; but for
\* the host of the CD-ROM that asked READ CD for no sector (Hollow).
THEOREM DrivesKeepStep == ASSUME AmpleLimits PROVE HdSpec /\ CdSpec => []HostsInStep
<1>1. HdTypeOK /\ HostInStep => HostInStep
  OBVIOUS
<1>2. CdTypeOK /\ CdInStep => CdInStep
  OBVIOUS
<1>3. HostInStep /\ CdInStep => HostsInStep
  BY DEF HostsInStep
<1> QED BY <1>1, <1>2, <1>3, HardDiskInStep, CdromInStep, PTL

\* Every transfer of the three drives is one of SectorStream's: it starts at the
\* sector the host named, moves word after word, and ends behind the last one.
THEOREM DrivesStream ==
    ASSUME AmpleLimits PROVE HdSpec /\ CdSpec /\ FSpec => DisksStream
BY HardDiskStreams, CdromStreams, FloppyImplements DEF DisksStream

-----------------------------------------------------------------------------
(* Setup, for any table of drives, any images and any user who keeps the kind of *)
(* a slot.                                                                  *)

\* what a drive of row r may hold: an image that could be opened, under its name, and
\* with its geometry if it is a disk whose size was accepted
Fits(d, r) ==
    /\ d.cd => IsAta(r)
    /\ d.name = NONE => d.file = NONE
    /\ d.name # NONE => /\ d.name \in Opens
                        /\ d.file = IF d.cd \/ d.name \in Sized THEN d.name ELSE NONE
    /\ d.file # NONE => d.geo = IF d.cd THEN NONE ELSE d.file

\* where a CD was, only a CD is pending
Keeps(d, p) == d.cd => p \in Iso \cup {SAME, NONE}

Fitting(ds) == /\ ds \in [Rows -> Drive]
               /\ \A r \in Rows : Fits(ds[r], r) /\ Keeps(ds[r], pendingFile[r])

(* The invariant: while the drives are those that were saved, the file says so.  *)
SInv == /\ STypeOK /\ Fitting(drives)
        /\ \A l \in card : l.cd => IsAta(l.row)
        /\ machine \in {"saving", "rebooting"} => card = Lines(drives)
        /\ machine \in {"rebooting", "off"} => pendingFile = Unchanged /\ screen = Closed

LEMMA ImageIs == /\ Iso \subseteq Images /\ Opens \subseteq Images /\ Sized \subseteq Images
                 /\ \A i \in Images : i # NONE /\ i # SAME
BY SetupNames

LEMMA RowIs == \A r \in Rows : r \in {"fd", "ata"} \X Nat
BY SetupNames DEF Rows

\* ejecting leaves what a row may hold, and empties the drive if its file was open
LEMMA EjectedKeeps ==
    ASSUME NEW ds, Fitting(ds), NEW r \in Rows
    PROVE  /\ Fitting(Ejected(ds, r))
           /\ ds[r].file # NONE => Ejected(ds, r)[r].file = NONE /\ Ejected(ds, r)[r].name = NONE
<1> DEFINE a == <<"ata", r[2]>>
<1>1. ds \in [Rows -> Drive] /\ \A q \in Rows : Fits(ds[q], q) /\ Keeps(ds[q], pendingFile[q])
  BY DEF Fitting
<1>2. CASE ~IsAta(r) /\ ds[r].name # NONE
  <2>1. Ejected(ds, r) = [ds EXCEPT ![r] = Empty]
    BY <1>2 DEF Ejected
  <2>2. Empty \in Drive /\ Fits(Empty, r) /\ Keeps(Empty, pendingFile[r])
    BY DEF Empty, Drive, Fits, Keeps
  <2>3. Empty.file = NONE /\ Empty.name = NONE
    BY DEF Empty
  <2> QED BY <1>1, <2>1, <2>2, <2>3 DEF Fitting
<1>3. CASE ~(~IsAta(r) /\ ds[r].name # NONE)
  <2> DEFINE ej == [ds EXCEPT ![a].name = NONE, ![a].file = NONE]
  <2>1. Ejected(ds, r) = ej
    BY <1>3 DEF Ejected
  <2>2. ej \in [Rows -> Drive] /\ \A q \in Rows : q # a => ej[q] = ds[q]
    BY <1>1 DEF Drive
  <2>3. a \in Rows => /\ ej[a].name = NONE /\ ej[a].file = NONE
                      /\ ej[a].cd = ds[a].cd
    BY <1>1 DEF Drive
  <2> HIDE DEF ej
  <2>4. a \in Rows => Fits(ej[a], a) /\ Keeps(ej[a], pendingFile[a])
    BY <1>1, <2>3 DEF Fits, Keeps
  <2>5. Fitting(ej)
    BY <1>1, <2>2, <2>4 DEF Fitting
  <2>6. ds[r].file # NONE => r = a
    <3>1. ds[r].file # NONE => ds[r].name # NONE
      BY <1>1 DEF Fits
    <3>2. r \in {"fd", "ata"} \X Nat
      BY RowIs
    <3> QED BY <1>3, <3>1, <3>2 DEF IsAta
  <2> QED BY <2>1, <2>3, <2>5, <2>6
<1> QED BY <1>2, <1>3

LEMMA InsertedKeeps ==
    ASSUME NEW ds, Fitting(ds), NEW r \in Rows, NEW i \in Images, pendingFile[r] = i
    PROVE  Fitting(Inserted(ds, r, i, IsAta(r) /\ i \in Iso))
<1> DEFINE freed == IF ds[r].file = NONE THEN ds ELSE Ejected(ds, r)
           cd == IsAta(r) /\ i \in Iso
           d == Filled(freed[r], i, cd)
<1>1. Fitting(freed)
  BY EjectedKeeps
<1>2. Inserted(ds, r, i, cd) = IF i \in Opens THEN [freed EXCEPT ![r] = d] ELSE freed
  BY DEF Inserted
<1>3. freed \in [Rows -> Drive] /\ freed[r] \in Drive
  BY <1>1 DEF Fitting
<1> HIDE DEF freed
<1>4. ASSUME i \in Opens PROVE Fitting([freed EXCEPT ![r] = d])
  <2>1. i # NONE /\ i # SAME
    BY ImageIs
  <2>2. freed[r].cd => i \in Iso
    BY <1>1, <2>1 DEF Fitting, Keeps
  <2>3. freed[r].cd => IsAta(r)
    BY <1>1 DEF Fitting, Fits
  <2>4. cd \in BOOLEAN /\ (~cd => ~freed[r].cd)
    BY <2>2, <2>3 DEF IsAta
  <2>5. d \in Drive
    BY <1>3, <2>4 DEF Filled, Drive
  <2>6. d.name = i /\ d.cd = cd
    <3>1. CASE cd
      BY <3>1 DEF Filled
    <3>2. CASE ~cd
      BY <1>3, <2>4, <3>2 DEF Filled, Drive
    <3> QED BY <3>1, <3>2
  <2>7. /\ d.file = IF cd \/ i \in Sized THEN i ELSE NONE
        /\ d.file # NONE => d.geo = IF cd THEN NONE ELSE i
    <3>1. CASE cd
      BY <3>1 DEF Filled
    <3>2. CASE ~cd
      BY <1>3, <3>2 DEF Filled, Drive
    <3> QED BY <3>1, <3>2
  <2>8. Fits(d, r)
    BY <1>4, <2>1, <2>6, <2>7 DEF Fits
  <2>9. Keeps(d, pendingFile[r])
    BY <2>6 DEF Keeps
  <2> HIDE DEF d
  <2> QED BY <1>1, <1>3, <2>5, <2>8, <2>9 DEF Fitting
<1> QED BY <1>1, <1>2, <1>4

LEMMA AppliedKeeps ==
    ASSUME pendingFile \in [Rows -> Images \cup {NONE, SAME}],
           NEW ds, Fitting(ds), NEW r \in Rows
    PROVE  Fitting(Applied(ds, r))
<1>1. CASE pendingFile[r] = SAME
  BY <1>1, SetupNames DEF Applied
<1>2. CASE pendingFile[r] = NONE
  BY <1>2, SetupNames, EjectedKeeps DEF Applied
<1>3. CASE pendingFile[r] # SAME /\ pendingFile[r] # NONE
  <2>1. PICK i \in Images : i = pendingFile[r]
    BY <1>3
  <2> QED BY <1>3, <2>1, InsertedKeeps DEF Applied
<1> QED BY <1>1, <1>2, <1>3

(* The loop: its function exists for every length of the table, by a least length  *)
(* without one, and keeps what each row keeps, by a least row that does not.     *)
LoopOf(f, n) == f = [i \in 0 .. n |-> IF i = 0 THEN drives ELSE Applied(f[i - 1], DriveTable[i])]

LEMMA LoopExists == ASSUME NEW n \in Nat PROVE \E f : LoopOf(f, n)
<1> DEFINE Bad == {k \in Nat : ~\E f : LoopOf(f, k)}
<1>1. SUFFICES ASSUME Bad # {} PROVE FALSE
  OBVIOUS
<1>2. PICK k \in Bad : \A x \in Bad : k <= x
  BY <1>1, MinExists
<1>3. k \in Nat /\ ~\E f : LoopOf(f, k)
  BY <1>2
<1>4. CASE k = 0
  <2>1. LoopOf([i \in 0 .. 0 |-> drives], 0)
    BY DEF LoopOf
  <2> QED BY <1>3, <1>4, <2>1
<1>5. CASE k # 0
  <2>1. k - 1 \in Nat /\ k - 1 \notin Bad
    BY <1>2, <1>3, <1>5
  <2>2. PICK f : LoopOf(f, k - 1)
    BY <2>1
  <2> DEFINE g == [i \in 0 .. k |-> IF i < k THEN f[i] ELSE Applied(f[k - 1], DriveTable[k])]
  <2>3. \A i \in 0 .. k - 1 : g[i] = f[i]
    BY <1>3
  <2>4. \A i \in 0 .. k - 1 : f[i] = IF i = 0 THEN drives ELSE Applied(f[i - 1], DriveTable[i])
    BY <2>2 DEF LoopOf
  <2>5. ASSUME NEW i \in 0 .. k
        PROVE  g[i] = IF i = 0 THEN drives ELSE Applied(g[i - 1], DriveTable[i])
    <3>1. CASE i < k
      <4>1. i \in 0 .. k - 1 /\ (i # 0 => i - 1 \in 0 .. k - 1)
        BY <1>3, <3>1
      <4>2. g[i] = f[i] /\ (i # 0 => g[i - 1] = f[i - 1])
        BY <2>3, <4>1
      <4> HIDE DEF g
      <4> QED BY <2>4, <4>1, <4>2
    <3>2. CASE i = k
      <4>1. g[i] = Applied(f[k - 1], DriveTable[k]) /\ g[k - 1] = f[k - 1]
        BY <1>3, <1>5, <3>2
      <4> HIDE DEF g
      <4> QED BY <1>5, <3>2, <4>1
    <3> QED BY <1>3, <3>1, <3>2
  <2>6. LoopOf(g, k)
    <3>1. g = [i \in 0 .. k |-> g[i]]
      OBVIOUS
    <3> HIDE DEF g
    <3> QED BY <2>5, <3>1 DEF LoopOf
  <2> QED BY <1>3, <2>6
<1> QED BY <1>4, <1>5

LEMMA LoopKeeps ==
    ASSUME STypeOK, Fitting(drives)
    PROVE  Fitting(AllApplied)
<1> DEFINE n == Len(DriveTable)
           after == CHOOSE f : LoopOf(f, n)
           Bad == {k \in 0 .. n : ~Fitting(after[k])}
<1>1. n \in Nat /\ \A i \in 1 .. n : DriveTable[i] \in Rows
  BY SetupNames DEF Rows
<1>2. AllApplied = after[n]
  BY DEF AllApplied, LoopOf
<1>3. LoopOf(after, n)
  <2> HIDE DEF n
  <2> QED BY <1>1, LoopExists
<1> HIDE DEF after, n
<1>4. \A i \in 0 .. n : after[i] = IF i = 0 THEN drives ELSE Applied(after[i - 1], DriveTable[i])
  BY <1>3 DEF LoopOf
<1>5. Bad = {}
  <2>1. SUFFICES ASSUME Bad # {} PROVE FALSE
    OBVIOUS
  <2>2. Bad \subseteq Nat
    BY <1>1
  <2>3. PICK k \in Bad : \A x \in Bad : k <= x
    BY <2>1, <2>2, MinExists
  <2>4. k \in 0 .. n /\ ~Fitting(after[k])
    BY <2>3
  <2>5. k # 0
    BY <1>4, <2>4
  <2>6. k - 1 \in 0 .. n /\ k - 1 \notin Bad /\ k \in 1 .. n
    BY <1>1, <2>3, <2>4, <2>5
  <2>7. Fitting(after[k - 1]) /\ DriveTable[k] \in Rows
    BY <1>1, <2>6
  <2>8. after[k] = Applied(after[k - 1], DriveTable[k])
    BY <1>4, <2>4, <2>5
  <2> QED BY <2>4, <2>7, <2>8, AppliedKeeps DEF STypeOK
<1> QED BY <1>1, <1>2, <1>5

\* a drive mounted from its line
LEMMA MountedIs ==
    ASSUME NEW conf, NEW r \in Rows, NEW l \in conf, l.row = r, l.name \in Images,
           l.cd \in BOOLEAN, \A m \in conf : m.row = r => m = l
    PROVE  Mounted(conf)[r] = IF l.name \in Opens THEN Filled(Empty, l.name, l.cd) ELSE Empty
<1> DEFINE none == [q \in Rows |-> Empty]
<1>1. (CHOOSE m \in conf : m.row = r) = l
  OBVIOUS
<1>2. Mounted(conf)[r] = Inserted(none, r, l.name, l.cd)[r]
  BY <1>1 DEF Mounted
<1>3. none[r] = Empty /\ Empty.file = NONE
  BY DEF Empty
<1> HIDE DEF none
<1>4. Inserted(none, r, l.name, l.cd) =
          IF l.name \in Opens THEN [none EXCEPT ![r] = Filled(Empty, l.name, l.cd)] ELSE none
  BY <1>3 DEF Inserted
<1>5. none = [q \in Rows |-> Empty]
  BY DEF none
<1> QED BY <1>2, <1>3, <1>4, <1>5

LEMMA MountedFits ==
    ASSUME NEW conf, \A l \in conf : /\ l.row \in Rows /\ l.name \in Images /\ l.cd \in BOOLEAN
                                     /\ l.cd => IsAta(l.row)
    PROVE  /\ Mounted(conf) \in [Rows -> Drive]
           /\ \A r \in Rows : Fits(Mounted(conf)[r], r)
<1> DEFINE none == [q \in Rows |-> Empty]
<1>1. Empty \in Drive /\ Empty.file = NONE /\ Empty.cd = FALSE /\ Empty.name = NONE
  BY DEF Empty, Drive
<1>2. ASSUME NEW r \in Rows
      PROVE  Mounted(conf)[r] \in Drive /\ Fits(Mounted(conf)[r], r)
  <2>1. CASE \E l \in conf : l.row = r
    <3>1. PICK l \in conf : l = (CHOOSE m \in conf : m.row = r) /\ l.row = r
      BY <2>1
    <3>2. Mounted(conf)[r] = Inserted(none, r, l.name, l.cd)[r]
      BY <2>1, <3>1 DEF Mounted
    <3>3. none \in [Rows -> Drive] /\ none[r] = Empty
      BY <1>1
    <3> HIDE DEF none
    <3>4. Mounted(conf)[r] = IF l.name \in Opens THEN Filled(Empty, l.name, l.cd) ELSE Empty
      BY <1>1, <3>2, <3>3 DEF Inserted
    <3> DEFINE d == Filled(Empty, l.name, l.cd)
    <3>5. l.name \in Images /\ l.name # NONE /\ l.cd \in BOOLEAN /\ (l.cd => IsAta(r))
      BY <3>1, ImageIs
    <3>6. d \in Drive
      BY <3>5, <1>1 DEF Filled, Drive
    <3>7. /\ d.name = l.name /\ d.cd = l.cd
          /\ d.file = IF l.cd \/ l.name \in Sized THEN l.name ELSE NONE
          /\ d.file # NONE => d.geo = IF l.cd THEN NONE ELSE l.name
      BY <3>5 DEF Filled, Empty
    <3> HIDE DEF d
    <3>8. l.name \in Opens => Fits(d, r)
      BY <3>5, <3>7 DEF Fits
    <3>9. Fits(Empty, r)
      BY <1>1 DEF Fits
    <3> QED BY <1>1, <3>4, <3>6, <3>8, <3>9 DEF d
  <2>2. CASE ~\E l \in conf : l.row = r
    <3>1. Mounted(conf)[r] = Empty
      BY <2>2 DEF Mounted
    <3> QED BY <1>1, <3>1 DEF Fits
  <2> QED BY <2>1, <2>2
<1>3. Mounted(conf) = [r \in Rows |-> Mounted(conf)[r]]
  BY DEF Mounted
<1> HIDE DEF none
<1> QED BY <1>2, <1>3

\* what the file says of the drives it was written from
LEMMA LinesSay ==
    ASSUME NEW ds, Fitting(ds)
    PROVE  /\ \A l \in Lines(ds) : /\ l.row \in Rows /\ l.name \in Images /\ l.cd \in BOOLEAN
                                   /\ l.cd => IsAta(l.row)
           /\ \A r \in Rows : /\ Mounted(Lines(ds))[r].name = ds[r].name
                              /\ Mounted(Lines(ds))[r].file = ds[r].file
                              /\ ds[r].name # NONE => Mounted(Lines(ds))[r].cd = ds[r].cd
<1>1. \A r \in Rows : ds[r] \in Drive /\ Fits(ds[r], r)
  BY DEF Fitting
<1>2. ASSUME NEW l \in Lines(ds)
      PROVE  /\ l.row \in Rows /\ l.name \in Images /\ l.cd \in BOOLEAN /\ (l.cd => IsAta(l.row))
             /\ ds[l.row].name # NONE
             /\ l = [row |-> l.row, name |-> ds[l.row].name, cd |-> IsAta(l.row) /\ ds[l.row].cd]
  <2>1. PICK q \in Rows : /\ ds[q].name # NONE
                          /\ l = [row |-> q, name |-> ds[q].name, cd |-> IsAta(q) /\ ds[q].cd]
    BY DEF Lines
  <2>2. l.row = q /\ l.name = ds[q].name /\ l.cd = (IsAta(q) /\ ds[q].cd)
    BY <2>1
  <2>3. ds[q].name \in Images /\ ds[q].cd \in BOOLEAN
    BY <1>1, <2>1 DEF Drive
  <2>4. l.cd \in BOOLEAN /\ (l.cd => IsAta(q))
    BY <2>2, <2>3
  <2> QED BY <2>1, <2>2, <2>3, <2>4
<1>3. ASSUME NEW r \in Rows
      PROVE  /\ Mounted(Lines(ds))[r].name = ds[r].name
             /\ Mounted(Lines(ds))[r].file = ds[r].file
             /\ ds[r].name # NONE => Mounted(Lines(ds))[r].cd = ds[r].cd
  <2>1. CASE ds[r].name = NONE
    <3>1. ~\E l \in Lines(ds) : l.row = r
      BY <1>2, <2>1
    <3>2. Mounted(Lines(ds))[r] = Empty
      BY <3>1 DEF Mounted
    <3>3. ds[r].file = NONE
      BY <1>1, <2>1 DEF Fits
    <3> QED BY <2>1, <3>2, <3>3 DEF Empty
  <2>2. CASE ds[r].name # NONE
    <3> DEFINE l == [row |-> r, name |-> ds[r].name, cd |-> IsAta(r) /\ ds[r].cd]
    <3>1. l \in Lines(ds)
      BY <2>2 DEF Lines
    <3>2. /\ l.row = r /\ l.name = ds[r].name /\ (l.cd <=> ds[r].cd)
          /\ l.name \in Images /\ l.cd \in BOOLEAN /\ ds[r].cd \in BOOLEAN
      BY <1>1, <2>2 DEF Fits, Drive, IsAta
    <3>3. \A m \in Lines(ds) : m.row = r => m = l
      BY <1>2
    <3> HIDE DEF l
    <3>4. /\ l.name \in Opens
          /\ ds[r].file = IF l.cd \/ l.name \in Sized THEN l.name ELSE NONE
      BY <1>1, <2>2, <3>2 DEF Fits
    <3>5. Mounted(Lines(ds))[r] = Filled(Empty, l.name, l.cd)
      BY <3>1, <3>2, <3>3, <3>4, MountedIs
    <3>6. /\ Filled(Empty, l.name, l.cd).name = l.name
          /\ Filled(Empty, l.name, l.cd).file = IF l.cd \/ l.name \in Sized THEN l.name ELSE NONE
          /\ Filled(Empty, l.name, l.cd).cd <=> l.cd
      BY <3>2 DEF Filled, Empty
    <3>7. Filled(Empty, l.name, l.cd).cd \in BOOLEAN
      BY <3>2 DEF Filled, Empty
    <3> QED BY <3>2, <3>4, <3>5, <3>6, <3>7
  <2> QED BY <2>1, <2>2
<1> QED BY <1>2, <1>3

LEMMA SStarts == SInit => SInv
<1> SUFFICES ASSUME SInit PROVE SInv
  OBVIOUS
<1>1. /\ card = {} /\ drives = Mounted(card) /\ pendingFile = Unchanged
      /\ reboot = FALSE /\ screen = Closed /\ machine = "running"
  BY DEF SInit
<1>2. drives \in [Rows -> Drive] /\ \A r \in Rows : Fits(drives[r], r)
  <2>1. \A l \in card : /\ l.row \in Rows /\ l.name \in Images /\ l.cd \in BOOLEAN
                        /\ l.cd => IsAta(l.row)
    BY <1>1
  <2> QED BY <1>1, <2>1, MountedFits
<1>3. \A r \in Rows : pendingFile[r] = SAME
  BY <1>1 DEF Unchanged
<1>4. pendingFile \in [Rows -> Images \cup {NONE, SAME}]
  BY <1>1 DEF Unchanged
<1>5. STypeOK
  BY <1>1, <1>2, <1>4 DEF STypeOK
<1>6. Fitting(drives)
  BY <1>2, <1>3 DEF Fitting, Keeps
<1> QED BY <1>1, <1>5, <1>6 DEF SInv

\* a step that leaves the drives and the file alone
LEMMA MenuKeeps ==
    ASSUME ~SwapsKind, SInv, Open \/ Close \/ Back \/ (\E r \in Rows : EnterRow(r))
                             \/ (\E i \in Images : SelectFile(i))
    PROVE  SInv'
<1>1. /\ machine = "running" /\ UNCHANGED <<drives, card, machine>>
  BY DEF Open, Close, Back, EnterRow, SelectFile
<1>2. /\ STypeOK /\ drives \in [Rows -> Drive]
      /\ \A r \in Rows : Fits(drives[r], r) /\ Keeps(drives[r], pendingFile[r])
  BY DEF SInv, Fitting
<1>3. /\ pendingFile' \in [Rows -> Images \cup {NONE, SAME}]
      /\ reboot' \in BOOLEAN /\ screen' \in {Closed, Main} \cup ({"files"} \X Rows)
      /\ \A r \in Rows : Keeps(drives[r], pendingFile'[r])
  <2>1. CASE Open \/ Close
    <3>1. pendingFile' = Unchanged /\ reboot' = FALSE /\ screen' \in {Closed, Main}
      BY <2>1 DEF Open, Close
    <3> QED BY <3>1 DEF Unchanged, Keeps
  <2>2. CASE Back
    BY <1>2, <2>2 DEF Back, STypeOK
  <2>3. ASSUME NEW r \in Rows, EnterRow(r) PROVE <1>3
    <3>1. CASE Shown(r) # NONE
      <4>1. pendingFile' = [pendingFile EXCEPT ![r] = NONE] /\ reboot' = (reboot \/ IsAta(r))
            /\ screen' = screen
        BY <2>3, <3>1 DEF EnterRow, Pend
      <4>2. reboot' \in BOOLEAN
        BY <1>2, <4>1 DEF STypeOK, IsAta
      <4> QED BY <1>2, <4>1, <4>2 DEF STypeOK, Keeps
    <3>2. CASE Shown(r) = NONE
      BY <1>2, <2>3, <3>2 DEF EnterRow, STypeOK
    <3> QED BY <3>1, <3>2
  <2>4. ASSUME NEW i \in Images, SelectFile(i) PROVE <1>3
    <3>1. screen[1] = "files" /\ screen' = Main /\ (drives[screen[2]].cd => i \in Iso)
          /\ pendingFile' = [pendingFile EXCEPT ![screen[2]] = i]
          /\ reboot' = (reboot \/ IsAta(screen[2]))
      BY <2>4 DEF SelectFile, Pend
    <3>2. screen[2] \in Rows
      BY <1>2, <3>1 DEF STypeOK, Closed, Main
    <3>3. reboot' \in BOOLEAN
      BY <1>2, <3>1 DEF STypeOK, IsAta
    <3>4. PICK r \in Rows : r = screen[2]
      BY <3>2
    <3> QED BY <1>2, <3>1, <3>3, <3>4 DEF STypeOK, Keeps
  <2> QED BY <2>1, <2>2, <2>3, <2>4
<1>4. STypeOK'
  BY <1>1, <1>2, <1>3 DEF STypeOK
<1>5. Fitting(drives)'
  BY <1>1, <1>2, <1>3 DEF Fitting
<1> QED BY <1>1, <1>4, <1>5 DEF SInv

LEMMA SaveKeeps == ASSUME SInv, Save PROVE SInv'
<1>1. /\ machine = "running" /\ screen = Main /\ machine' = "saving"
      /\ drives' = AllApplied /\ card' = Lines(drives')
      /\ UNCHANGED <<pendingFile, reboot, screen>>
  BY DEF Save
<1>2. Fitting(drives')
  BY <1>1, LoopKeeps DEF SInv
<1>3. drives' \in [Rows -> Drive]
  BY <1>2 DEF Fitting
<1>4. \A l \in card' : /\ l.row \in Rows /\ l.name \in Images /\ l.cd \in BOOLEAN
                       /\ l.cd => IsAta(l.row)
  BY <1>1, <1>2, LinesSay
<1>5. STypeOK'
  BY <1>1, <1>3, <1>4 DEF SInv, STypeOK
<1>6. Fitting(drives)'
  BY <1>1, <1>2 DEF Fitting
<1> QED BY <1>1, <1>4, <1>5, <1>6 DEF SInv

\* what ends a session of the menu
LEMMA CloseKeeps == ASSUME SInv, Saved \/ PowerCut PROVE SInv'
<1>1. /\ drives' = drives /\ pendingFile' = Unchanged /\ reboot' = FALSE /\ screen' = Closed
      /\ card' = card \/ card' = {}
      /\ machine' \in {"running", "rebooting", "off"}
      /\ machine' = "rebooting" => machine = "saving" /\ card' = card
  BY DEF Saved, PowerCut
<1>2. pendingFile' \in [Rows -> Images \cup {NONE, SAME}] /\ \A r \in Rows : pendingFile'[r] = SAME
  BY <1>1 DEF Unchanged
<1>3. STypeOK'
  <2>1. \A l \in card' : l.row \in Rows /\ l.name \in Images /\ l.cd \in BOOLEAN
    BY <1>1 DEF SInv, STypeOK
  <2>2. drives' \in [Rows -> Drive]
    BY <1>1 DEF SInv, STypeOK
  <2> QED BY <1>1, <1>2, <2>1, <2>2 DEF STypeOK
<1>4. Fitting(drives)'
  BY <1>1, <1>2 DEF SInv, Fitting, Keeps
<1>5. \A l \in card' : l.cd => IsAta(l.row)
  BY <1>1 DEF SInv
<1>6. machine' \in {"saving", "rebooting"} => card' = Lines(drives')
  BY <1>1 DEF SInv
<1>7. Unchanged' = Unchanged /\ Lines(drives)' = Lines(drives')
  BY DEF Unchanged, Lines
<1> QED BY <1>1, <1>3, <1>4, <1>5, <1>6, <1>7 DEF SInv

LEMMA BootKeeps ==
    ASSUME SInv, Boot
    PROVE  /\ SInv'
           /\ machine = "rebooting" =>
                 \A r \in Rows : /\ drives'[r].name = drives[r].name
                                 /\ drives'[r].file = drives[r].file
                                 /\ drives[r].name # NONE => drives'[r].cd = drives[r].cd
<1>1. /\ machine \in {"rebooting", "off"} /\ drives' = Mounted(card) /\ machine' = "running"
      /\ UNCHANGED <<pendingFile, reboot, screen, card>>
  BY DEF Boot
<1>2. \A l \in card : /\ l.row \in Rows /\ l.name \in Images /\ l.cd \in BOOLEAN
                      /\ l.cd => IsAta(l.row)
  BY DEF SInv, STypeOK
<1>3. drives' \in [Rows -> Drive] /\ \A r \in Rows : Fits(drives'[r], r)
  BY <1>1, <1>2, MountedFits
<1>4. \A r \in Rows : pendingFile'[r] = SAME
  BY <1>1 DEF SInv, Unchanged
<1>5. STypeOK'
  BY <1>1, <1>3 DEF SInv, STypeOK
<1>6. Fitting(drives)'
  BY <1>3, <1>4 DEF Fitting, Keeps
<1>7. SInv'
  BY <1>1, <1>2, <1>5, <1>6 DEF SInv
<1>8. ASSUME machine = "rebooting"
      PROVE  \A r \in Rows : /\ drives'[r].name = drives[r].name
                             /\ drives'[r].file = drives[r].file
                             /\ drives[r].name # NONE => drives'[r].cd = drives[r].cd
  BY <1>1, <1>8, LinesSay DEF SInv
<1> QED BY <1>7, <1>8

LEMMA SSteps ==
    ASSUME ~SwapsKind, SInv, [SNext]_svars
    PROVE  /\ SInv'
           /\ machine = "rebooting" /\ machine' = "running" =>
                 \A r \in Rows : /\ drives'[r].name = drives[r].name
                                 /\ drives'[r].file = drives[r].file
                                 /\ drives[r].name # NONE => drives'[r].cd = drives[r].cd
<1>1. CASE UNCHANGED svars
  <2>1. UNCHANGED <<drives, pendingFile, reboot, screen, card, machine>>
    BY <1>1 DEF svars
  <2>2. Unchanged' = Unchanged /\ Lines(drives)' = Lines(drives) /\ Fitting(drives)' = Fitting(drives)
    BY <2>1 DEF Unchanged, Lines, Fitting
  <2> QED BY <2>1, <2>2 DEF SInv, STypeOK
<1>2. CASE Open \/ Close \/ Back \/ (\E r \in Rows : EnterRow(r)) \/ (\E i \in Images : SelectFile(i))
  <2>1. SInv'
    BY <1>2, MenuKeeps
  <2>2. machine' = machine
    BY <1>2 DEF Open, Close, Back, EnterRow, SelectFile
  <2> QED BY <2>1, <2>2
<1>3. CASE Save
  <2>1. machine' = "saving"
    BY <1>3 DEF Save
  <2> QED BY <1>3, <2>1, SaveKeeps
<1>4. CASE Saved \/ PowerCut
  <2>1. machine = "rebooting" => machine' # "running"
    BY <1>4 DEF Saved, PowerCut
  <2> QED BY <1>4, <2>1, CloseKeeps
<1>5. CASE Boot
  BY <1>5, BootKeeps
<1> QED BY <1>1, <1>2, <1>3, <1>4, <1>5 DEF SNext

\* The rows, the pending choices and the lines of the file keep their types, and a drive
\* with an open file goes by its name and has its geometry, for a user who puts no disk
\* where a CD was: whatever is ejected, refused or cut off.
THEOREM DrivesFit == ASSUME ~SwapsKind PROVE SSpec => [](STypeOK /\ GeometryFits)
<1>1. SInv /\ [SNext]_svars => SInv'
  BY SSteps
<1>2. SInv => STypeOK /\ GeometryFits
  <2>1. ASSUME SInv, NEW r \in Rows
        PROVE  drives[r].file # NONE =>
                   drives[r].name = drives[r].file
                   /\ drives[r].geo = IF drives[r].cd THEN NONE ELSE drives[r].file
    <3>1. Fits(drives[r], r)
      BY <2>1 DEF SInv, Fitting
    <3> QED BY <3>1 DEF Fits
  <2> QED BY <2>1 DEF SInv, GeometryFits
<1> QED BY <1>1, <1>2, SStarts, PTL DEF SSpec

\* A restart that follows a save brings back what was saved, for the same user.
THEOREM SavesComeBack == ASSUME ~SwapsKind PROVE SSpec => SavedComesBack
<1>1. SInv /\ [SNext]_svars => SInv'
  BY SSteps
<1>2. SInv /\ [SNext]_svars =>
         [machine = "rebooting" /\ machine' = "running" =>
             \A r \in Rows : /\ drives'[r].name = drives[r].name
                             /\ drives'[r].file = drives[r].file
                             /\ drives[r].name # NONE => drives'[r].cd = drives[r].cd]_svars
  BY SSteps
<1> QED BY <1>1, <1>2, SStarts, PTL DEF SSpec, SavedComesBack
=============================================================================
