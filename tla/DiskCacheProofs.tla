--------------------------- MODULE DiskCacheProofs ---------------------------
(***************************************************************************)
(* Proofs about DiskCache, for a card, a slave and FIFOs of any size: with   *)
(* the cache in the way, disk_read and disk_write are those of the card.     *)
(*                                                                         *)
(* Everything rests on what is on its way to the slave.  The words in rx, tx  *)
(* and out are taken as one stream, and each of them tells what comes next     *)
(* (Parses); the slave, when the cache is in use, is where the head of the      *)
(* stream expects it (Expected).  A word of a sector carries its own address,  *)
(* so that it is known where the slave will put it, and the last one for a     *)
(* place is what that place will hold (Holds).                               *)
(***************************************************************************)
EXTENDS DiskCache, SequenceTheorems, TLAPS

Kind(w) == w[1]
Sector(w) == w[2]
Offset(w) == w[4]
Home(w) == Slot(Sector(w)) * BURST + Offset(w)

Data == {DataWord(l, v, k) : l \in Lba, v \in 0 .. VERSIONS - 1, k \in 0 .. BURST - 1}
Orders == {Req("writeBurst", s * BURST) : s \in Slots}
          \cup {Req("readBurst", s * BURST) : s \in Slots}
Streamed == Data \cup Orders \cup {Num(BURST)}

Stream == (rx \o tx) \o out

\* what word i of a stream says of the words behind it
Begins(S, i) == /\ i + 2 <= Len(S)
                /\ S[i + 1] = Num(BURST)
                /\ S[i + 2] \in Data /\ Offset(S[i + 2]) = 0
                /\ S[i] = Req("writeBurst", Home(S[i + 2]))
Continues(S, i) == IF Offset(S[i]) = BURST - 1
                   THEN i = Len(S) \/ S[i + 1] \in Orders
                   ELSE /\ i + 1 <= Len(S)
                        /\ S[i + 1] \in Data
                        /\ Sector(S[i + 1]) = Sector(S[i])
                        /\ Offset(S[i + 1]) = Offset(S[i]) + 1
Asks(S, i) == i + 1 = Len(S) /\ S[i + 1] = Num(BURST)

Parses(S) == \A i \in 1 .. Len(S) :
                /\ Kind(S[i]) = "writeBurst" => Begins(S, i)
                /\ Kind(S[i]) = "data" => Continues(S, i)
                /\ Kind(S[i]) = "readBurst" => Asks(S, i)

\* where the slave is when S is still to come
Expected(S) ==
    \/ slave.at = "idle" /\ (S = <<>> \/ S[1] \in Orders)
    \/ /\ slave.at = "count" /\ slave.op = "writeBurst"
       /\ Len(S) >= 2 /\ S[1] = Num(BURST)
       /\ S[2] \in Data /\ Offset(S[2]) = 0 /\ slave.addr = Home(S[2])
    \/ /\ slave.at = "count" /\ slave.op = "readBurst"
       /\ Len(S) = 1 /\ S[1] = Num(BURST)
    \/ /\ slave.at = "recv"
       /\ S # <<>> /\ S[1] \in Data /\ slave.addr = Home(S[1])
       /\ slave.left = BURST - Offset(S[1])
    \/ slave.at = "send" /\ S = <<>>

\* once S is through, what m holds at offset k of slot s is d
Aims(w, s, k) == w \in Data /\ Slot(Sector(w)) = s /\ Offset(w) = k
Holds(S, m, s, k, d) ==
    \E i \in 0 .. Len(S) :
        /\ d = IF i = 0 THEN m[s * BURST + k] ELSE S[i]
        /\ \A j \in i + 1 .. Len(S) : ~Aims(S[j], s, k)

\* the sector of slot s, the one that is being filled in included
Says(s) == IF master.at = "fill" /\ Slot(master.lba) = s THEN master.lba ELSE tags[s]

Filed == \A s \in Slots : Says(s) # Empty =>
            \A k \in 0 .. BURST - 1 :
                Holds(Stream, mem, s, k, DataWord(Says(s), card[Says(s)], k))

-----------------------------------------------------------------------------
(* The parts of the invariant.                                             *)

Types ==
    /\ card \in [Lba -> 0 .. VERSIONS - 1]
    /\ tags \in [Slots -> Lba \cup {Empty}]
    /\ \A s \in Slots : tags[s] # Empty => Slot(tags[s]) = s
    /\ on \in BOOLEAN
    /\ master \in [at : {"boot", "ping", "idle", "ask", "card", "fill"},
                   first : Lba, n : Nat, lba : Lba]
    /\ master.at \in {"ask", "card", "fill"} => <<master.first, master.n>> \in Runs
    /\ master.at \in {"ask", "card", "fill"} => master.lba \in Run(master.first, master.n)
    /\ slave = [at |-> slave.at, op |-> slave.op, addr |-> slave.addr, left |-> slave.left]
    /\ slave.at \in {"idle", "value", "count", "recv", "send"}
    /\ slave.at = "idle" => slave = Waiting
    /\ DOMAIN mem = 0 .. MEM - 1 /\ mem = [a \in 0 .. MEM - 1 |-> mem[a]]

\* a machine that boots trusts nothing, and its ping is alone on the wire
Booting ==
    /\ master.at \in {"boot", "ping"} => /\ ~on /\ got = <<>>
                                         /\ \A s \in Slots : tags[s] = Empty
    /\ master.at = "boot" => out = <<>>
    /\ master.at = "ping" =>
          /\ slave.at = "idle"
          /\ \/ out = <<Req("ping", 0)>> /\ tx = <<>> /\ rx = <<>> /\ down = <<>>
             \/ out = <<>> /\ tx = <<Req("ping", 0)>> /\ rx = <<>> /\ down = <<>>
             \/ out = <<>> /\ tx = <<>> /\ rx = <<Req("ping", 0)>> /\ down = <<>>
             \/ out = <<>> /\ tx = <<>> /\ rx = <<>> /\ down = <<Magic>>

\* with the cache in use
Stations == [at : {"idle", "count", "recv", "send"},
             op : {"none", "readBurst", "writeBurst"}, addr : Int, left : Int]

Wired ==
    /\ rx \in Seq(Streamed) /\ tx \in Seq(Streamed) /\ out \in Seq(Streamed)
    /\ slave \in Stations
    /\ Parses(Stream) /\ Expected(Stream)

Reads == /\ \A i \in 1 .. Len(Stream) : Kind(Stream[i]) # "readBurst"
         /\ slave.at # "send" /\ ~(slave.at = "count" /\ slave.op = "readBurst")

Quiet == down = <<>> /\ got = <<>> /\ Reads

\* how much of sector master.lba core 0 has taken
Base == (master.lba - master.first) * BURST
Taken == Len(got) - Base

Asked ==
    /\ Taken = 0 /\ down = <<>>
    /\ \/ /\ slave.at # "send" /\ ~(slave.at = "count" /\ slave.op = "readBurst")
          /\ Len(Stream) >= 2
          /\ Stream[Len(Stream) - 1] = Req("readBurst", Slot(master.lba) * BURST)
       \/ /\ slave.at = "count" /\ slave.op = "readBurst"
          /\ slave.addr = Slot(master.lba) * BURST
Answering ==
    /\ slave.at = "send"
    /\ slave.left \in 1 .. BURST
    /\ slave.addr = Slot(master.lba) * BURST + (BURST - slave.left)
    /\ Taken + Len(down) = BURST - slave.left
Answered ==
    /\ slave.at = "idle" /\ Stream = <<>>
    /\ Taken + Len(down) = BURST

Reading ==
    /\ Resident(master.first, master.n)
    /\ got \in Seq(Data) /\ down \in Seq(Data)
    /\ Taken \in 0 .. BURST - 1
    /\ \A i \in 1 .. Len(got) : got[i] = Contents(master.first, master.n)[i]
    /\ \A i \in 1 .. Len(down) :
          down[i] = DataWord(master.lba, card[master.lba], Taken + i - 1)
    /\ \A i \in 1 .. Len(out) : out[i] \notin Data
    /\ Asked \/ Answering \/ Answered

InUse ==
    on => /\ Wired /\ Filed
          /\ master.at # "ask" => Quiet
          /\ master.at = "ask" => Reading
          /\ master.at \in {"idle", "card"} => out = <<>>

Inv == /\ Types /\ Booting /\ InUse
       /\ master.at \in {"ask", "fill"} => on

-----------------------------------------------------------------------------
(* Sequences: moving a word along the wire leaves the stream as it is, and  *)
(* the slave takes the head of it.                                         *)

LEMMA HeadFirst ==
  ASSUME NEW T, NEW c \in Seq(T), c # <<>>
  PROVE  /\ Head(c) \in T /\ Tail(c) \in Seq(T)
         /\ <<Head(c)>> \in Seq(T)
         /\ c = <<Head(c)>> \o Tail(c)
<1>1. Len(c) \in Nat \ {0} /\ Head(c) = c[1]
  BY EmptySeq
<1>2. SubSeq(c, 1, Len(c)) = <<c[1]>> \o SubSeq(c, 1 + 1, Len(c))
  <2>1. 1 \in 1 .. Len(c) /\ Len(c) \in 1 .. Len(c)
    BY <1>1
  <2> QED BY <2>1, SubSeqRecursiveFirst
<1>3. Tail(c) = SubSeq(c, 2, Len(c))
  BY TailIsSubSeq
<1>4. SubSeq(c, 1, Len(c)) = c
  BY SubSeqFull
<1>5. Head(c) \in T /\ Tail(c) \in Seq(T)
  BY HeadTailProperties
<1>6. <<Head(c)>> \in Seq(T)
  BY <1>5
<1> QED BY <1>1, <1>2, <1>3, <1>4, <1>5, <1>6

LEMMA StreamsAssociate ==
  ASSUME NEW a \in Seq(Streamed), NEW b \in Seq(Streamed), NEW c \in Seq(Streamed)
  PROVE  (a \o b) \o c = a \o (b \o c)
BY ConcatAssociative

LEMMA PutStream ==
  ASSUME NEW a \in Seq(Streamed), NEW b \in Seq(Streamed), NEW c \in Seq(Streamed), c # <<>>
  PROVE  (a \o Append(b, Head(c))) \o Tail(c) = (a \o b) \o c
<1> DEFINE h == <<Head(c)>>
           t == Tail(c)
<1>1. /\ Head(c) \in Streamed /\ h \in Seq(Streamed) /\ t \in Seq(Streamed)
      /\ c = h \o t
  BY HeadFirst
<1>2. Append(b, Head(c)) = b \o h
  BY <1>1, AppendIsConcat
<1> HIDE DEF h, t
<1>3. a \o (b \o h) = (a \o b) \o h
  <2>1. h \in Seq(Streamed)
    BY <1>1
  <2> QED BY <2>1, ConcatAssociative
<1>4. a \o b \in Seq(Streamed)
  BY ConcatProperties
<1>5. ((a \o b) \o h) \o t = (a \o b) \o (h \o t)
  <2> DEFINE s == a \o b
  <2>1. t \in Seq(Streamed) /\ h \in Seq(Streamed) /\ s \in Seq(Streamed)
    BY <1>1, <1>4
  <2> HIDE DEF s
  <2>3. (s \o h) \o t = s \o (h \o t)
    BY <2>1, StreamsAssociate, Zenon
  <2> QED BY <2>3 DEF s
<1> QED BY <1>1, <1>2, <1>3, <1>5 DEF t

LEMMA ShipStream ==
  ASSUME NEW a \in Seq(Streamed), NEW b \in Seq(Streamed), NEW c \in Seq(Streamed), b # <<>>
  PROVE  (Append(a, Head(b)) \o Tail(b)) \o c = (a \o b) \o c
<1>1. (<<>> \o Append(a, Head(b))) \o Tail(b) = (<<>> \o a) \o b
  BY PutStream, EmptySeq
<1>2. <<>> \o Append(a, Head(b)) = Append(a, Head(b))
  BY HeadTailProperties, AppendProperties, ConcatEmptySeq
<1>3. <<>> \o a = a
  BY ConcatEmptySeq
<1> QED BY <1>1, <1>2, <1>3

LEMMA TailConcat ==
  ASSUME NEW T, NEW a \in Seq(T), NEW b \in Seq(T), a # <<>>
  PROVE  Tail(a) \o b = Tail(a \o b)
<1>1. /\ Tail(a) \in Seq(T) /\ Len(Tail(a)) = Len(a) - 1
      /\ \A i \in 1 .. Len(Tail(a)) : Tail(a)[i] = a[i + 1]
  BY HeadTailProperties
<1>2. Len(a) \in Nat /\ Len(b) \in Nat /\ Len(a) # 0
  BY LenProperties, EmptySeq
<1>3. /\ Tail(a) \o b \in Seq(T) /\ Len(Tail(a) \o b) = Len(a) - 1 + Len(b)
      /\ \A i \in 1 .. Len(a) - 1 + Len(b) :
            (Tail(a) \o b)[i] = IF i <= Len(a) - 1 THEN Tail(a)[i] ELSE b[i - (Len(a) - 1)]
  BY <1>1, <1>2, ConcatProperties
<1>4. /\ a \o b \in Seq(T) /\ Len(a \o b) = Len(a) + Len(b)
      /\ \A i \in 1 .. Len(a) + Len(b) : (a \o b)[i] = IF i <= Len(a) THEN a[i] ELSE b[i - Len(a)]
  BY ConcatProperties
<1>5. a \o b # <<>>
  BY <1>2, <1>4, EmptySeq
<1>6. /\ Tail(a \o b) \in Seq(T) /\ Len(Tail(a \o b)) = Len(a) + Len(b) - 1
      /\ \A i \in 1 .. Len(a) + Len(b) - 1 : Tail(a \o b)[i] = (a \o b)[i + 1]
  BY <1>4, <1>5, HeadTailProperties
<1>7. ASSUME NEW i \in 1 .. Len(Tail(a) \o b) PROVE (Tail(a) \o b)[i] = Tail(a \o b)[i]
  <2>1. CASE i <= Len(a) - 1
    BY <2>1, <1>1, <1>2, <1>3, <1>4, <1>6
  <2>2. CASE i > Len(a) - 1
    BY <2>2, <1>2, <1>3, <1>4, <1>6
  <2> QED BY <2>1, <2>2, <1>2, <1>3
<1>8. Len(Tail(a) \o b) = Len(Tail(a \o b))
  BY <1>2, <1>3, <1>6
<1> QED BY <1>3, <1>6, <1>7, <1>8, SeqEqual

LEMMA TakeStream ==
  ASSUME NEW T, NEW a \in Seq(T), NEW b \in Seq(T), NEW c \in Seq(T), a # <<>>
  PROVE  (Tail(a) \o b) \o c = Tail((a \o b) \o c)
<1>1. a \o b \in Seq(T) /\ a \o b # <<>>
  BY ConcatProperties, ConcatEqualIffEmpty
<1> QED BY <1>1, TailConcat

-----------------------------------------------------------------------------
(* Words and their places.                                                 *)

LEMMA Constants ==
  /\ BURST \in Nat /\ BURST > 0 /\ SLOTS \in Nat /\ SLOTS > 0
  /\ SECTORS \in Nat /\ MEM \in Nat /\ MEM = SLOTS * BURST
  /\ TX \in Nat /\ RX \in Nat /\ DOWN \in Nat /\ TX > 0 /\ RX > 0 /\ DOWN > 0
  /\ VERSIONS \in Nat /\ VERSIONS > 0
BY DeviceAssumption, LinkAssumption, SlotAssumption

LEMMA SlotType == \A l \in Lba : l \in Nat /\ Slot(l) \in Slots /\ Slot(l) \in Nat
BY Constants DEF Lba, Slot, Slots

\* the places of two words are different unless slot and offset are the same
LEMMA Places ==
  ASSUME NEW s \in Slots, NEW k \in 0 .. BURST - 1
  PROVE  /\ s * BURST + k \in 0 .. MEM - 1
         /\ s * BURST \in Nat
         /\ \A t \in Slots, j \in 0 .. BURST - 1 :
               s * BURST + k = t * BURST + j => s = t /\ k = j
<1>1. s \in Nat /\ s + 1 <= SLOTS /\ BURST \in Nat /\ SLOTS \in Nat /\ MEM = SLOTS * BURST /\ k \in Nat /\ k < BURST
  BY Constants DEF Slots
<1>2. \A a, b \in Nat : a + 1 <= b => (a + 1) * BURST <= b * BURST
  BY <1>1
<1>3. \A a \in Nat : (a + 1) * BURST = a * BURST + BURST /\ a * BURST \in Nat
  BY <1>1
<1>4. s * BURST + BURST <= MEM
  BY <1>1, <1>2, <1>3
<1>5. ASSUME NEW t \in Slots, NEW j \in 0 .. BURST - 1, s * BURST + k = t * BURST + j
      PROVE  s = t /\ k = j
  <2>1. t \in Nat /\ j \in Nat /\ j < BURST
    BY <1>1 DEF Slots
  <2> DEFINE x == s * BURST
             y == t * BURST
  <2>2. x \in Nat /\ y \in Nat /\ x + k = y + j
    BY <1>1, <1>3, <1>5, <2>1
  <2>3. s + 1 <= t => x + BURST <= y
    BY <1>1, <1>2, <1>3, <2>1
  <2>4. t + 1 <= s => y + BURST <= x
    BY <1>1, <1>2, <1>3, <2>1
  <2>5. ~(s + 1 <= t) /\ ~(t + 1 <= s)
    <3> HIDE DEF x, y
    <3> QED BY <1>1, <2>1, <2>2, <2>3, <2>4
  <2>6. s = t
    BY <1>1, <2>1, <2>5
  <2> QED BY <1>1, <2>1, <2>2, <2>6
<1>6. s * BURST \in Nat
  BY <1>1, <1>3
<1>7. s * BURST + k \in 0 .. MEM - 1
  <2> DEFINE x == s * BURST
  <2>1. x \in Nat /\ x + BURST <= MEM /\ MEM \in Nat
    BY <1>4, <1>6, Constants
  <2> HIDE DEF x
  <2>2. x + k \in 0 .. MEM - 1
    BY <1>1, <2>1
  <2> QED BY <2>2 DEF x
<1> QED BY <1>5, <1>6, <1>7

\* what the three kinds of word are
LEMMA DataWords ==
  ASSUME NEW w \in Data
  PROVE  /\ Kind(w) = "data"
         /\ Sector(w) \in Lba /\ Offset(w) \in 0 .. BURST - 1
         /\ Home(w) \in 0 .. MEM - 1
<1>1. PICK l \in Lba, v \in 0 .. VERSIONS - 1, k \in 0 .. BURST - 1 : w = DataWord(l, v, k)
  BY DEF Data
<1>2. Kind(w) = "data" /\ Sector(w) = l /\ Offset(w) = k
  BY <1>1 DEF DataWord, Kind, Sector, Offset
<1>3. Slot(l) \in Slots
  BY SlotType
<1> QED BY <1>2, <1>3, Places DEF Home

LEMMA DataWordOf ==
  ASSUME NEW l \in Lba, NEW v \in 0 .. VERSIONS - 1, NEW k \in 0 .. BURST - 1
  PROVE  /\ DataWord(l, v, k) \in Data
         /\ Sector(DataWord(l, v, k)) = l
         /\ Offset(DataWord(l, v, k)) = k
         /\ Kind(DataWord(l, v, k)) = "data"
BY DEF Data, DataWord, Sector, Offset, Kind

LEMMA OrderWords ==
  ASSUME NEW w \in Orders
  PROVE  /\ Kind(w) \in {"writeBurst", "readBurst"}
         /\ w \notin Data /\ w # Num(BURST)
         /\ Requests(w) = {w}
         /\ w = Req(Kind(w), w[2])
         /\ w[2] \in Int
<1>1. PICK s \in Slots : w = Req("writeBurst", s * BURST) \/ w = Req("readBurst", s * BURST)
  BY DEF Orders
<1>2. Kind(w) \in {"writeBurst", "readBurst"} /\ w = Req(Kind(w), w[2]) /\ w[2] = s * BURST
  BY <1>1 DEF Kind, Req
<1>3. w \notin Data
  BY <1>2, DataWords
<1>4. w # Num(BURST)
  BY <1>2 DEF Num, Kind
<1>5. Requests(w) = {w}
  BY <1>2 DEF Requests, Operations, Kind
<1>6. s * BURST \in Int
  BY Constants DEF Slots
<1> QED BY <1>2, <1>3, <1>4, <1>5, <1>6

LEMMA NumWord == Kind(Num(BURST)) = "count" /\ Num(BURST) \notin Data /\ Numbers(Num(BURST)) = {BURST}
<1>1. Kind(Num(BURST)) = "count"
  BY DEF Num, Kind
<1>2. Num(BURST) \notin Data
  BY <1>1, DataWords
<1>3. Numbers(Num(BURST)) = {BURST}
  BY DEF Num, Numbers
<1> QED BY <1>1, <1>2, <1>3

LEMMA StreamedWords ==
  ASSUME NEW w \in Streamed
  PROVE  /\ Kind(w) = "data" <=> w \in Data
         /\ Kind(w) \in {"writeBurst", "readBurst"} <=> w \in Orders
         /\ Kind(w) = "count" <=> w = Num(BURST)
         /\ Kind(w) \in {"data", "writeBurst", "readBurst", "count"}
BY DataWords, OrderWords, NumWord DEF Streamed

-----------------------------------------------------------------------------
(* Streams: what is left when the slave has taken a word, and what comes    *)
(* behind when the master starts another transfer.                         *)

LEMMA TailOf ==
  ASSUME NEW S \in Seq(Streamed), S # <<>>
  PROVE  /\ Len(S) \in Nat /\ Len(S) >= 1
         /\ S[1] \in Streamed /\ Head(S) = S[1]
         /\ Tail(S) \in Seq(Streamed) /\ Len(Tail(S)) = Len(S) - 1
         /\ \A i \in 1 .. Len(S) - 1 : Tail(S)[i] = S[i + 1]
<1>1. Len(S) \in Nat \ {0}
  BY EmptySeq
<1>2. S[1] \in Streamed
  BY <1>1, ElementOfSeq
<1> QED BY <1>1, <1>2, HeadTailProperties

LEMMA ParsesTail ==
  ASSUME NEW S \in Seq(Streamed), S # <<>>, Parses(S)
  PROVE  Parses(Tail(S))
<1> DEFINE R == Tail(S)
<1>1. /\ Len(S) \in Nat /\ Len(R) = Len(S) - 1
      /\ \A i \in 1 .. Len(S) - 1 : R[i] = S[i + 1]
  BY TailOf
<1> SUFFICES ASSUME NEW i \in 1 .. Len(R)
             PROVE  /\ Kind(R[i]) = "writeBurst" => Begins(R, i)
                    /\ Kind(R[i]) = "data" => Continues(R, i)
                    /\ Kind(R[i]) = "readBurst" => Asks(R, i)
  BY DEF Parses
<1> HIDE DEF R
<1>2. i + 1 \in 1 .. Len(S) /\ R[i] = S[i + 1] /\ i \in Nat
  BY <1>1
<1>3. i + 1 <= Len(R) => R[i + 1] = S[i + 1 + 1]
  BY <1>1
<1>4. i + 2 <= Len(R) => R[i + 2] = S[i + 1 + 2]
  BY <1>1
<1>5. Kind(R[i]) = "writeBurst" => Begins(R, i)
  <2> SUFFICES ASSUME Kind(R[i]) = "writeBurst" PROVE Begins(R, i)
    OBVIOUS
  <2>1. Begins(S, i + 1)
    BY <1>2 DEF Parses
  <2> QED BY <2>1, <1>1, <1>2, <1>3, <1>4 DEF Begins
<1>6. Kind(R[i]) = "data" => Continues(R, i)
  <2> SUFFICES ASSUME Kind(R[i]) = "data" PROVE Continues(R, i)
    OBVIOUS
  <2>1. Continues(S, i + 1)
    BY <1>2 DEF Parses
  <2>2. (i + 1 = Len(S)) <=> (i = Len(R))
    BY <1>1, <1>2
  <2>3. (i + 1 <= Len(R)) <=> (i + 1 + 1 <= Len(S))
    BY <1>1, <1>2
  <2>4. i = Len(R) \/ i + 1 <= Len(R)
    BY <1>1, <1>2
  <2> QED BY <2>1, <2>2, <2>3, <2>4, <1>2, <1>3 DEF Continues
<1>7. Kind(R[i]) = "readBurst" => Asks(R, i)
  <2> SUFFICES ASSUME Kind(R[i]) = "readBurst" PROVE Asks(R, i)
    OBVIOUS
  <2>1. Asks(S, i + 1)
    BY <1>2 DEF Parses
  <2> QED BY <2>1, <1>1, <1>2, <1>3 DEF Asks
<1> QED BY <1>5, <1>6, <1>7

\* the slave stores the head, if it is a word of a sector
LEMMA HoldsTail ==
  ASSUME NEW S \in Seq(Streamed), S # <<>>, NEW m, NEW n,
         NEW s \in Slots, NEW k \in 0 .. BURST - 1, NEW d,
         Holds(S, m, s, k, d), Aims(d, s, k),
         \A a \in 0 .. MEM - 1 :
            n[a] = IF S[1] \in Data /\ a = Home(S[1]) THEN S[1] ELSE m[a]
  PROVE  Holds(Tail(S), n, s, k, d)
<1> DEFINE R == Tail(S)
           a == s * BURST + k
<1>1. /\ Len(S) \in Nat /\ Len(S) >= 1 /\ Len(R) = Len(S) - 1 /\ S[1] \in Streamed
      /\ \A i \in 1 .. Len(S) - 1 : R[i] = S[i + 1]
  BY TailOf
<1>2. PICK i \in 0 .. Len(S) :
        /\ d = IF i = 0 THEN m[a] ELSE S[i]
        /\ \A j \in i + 1 .. Len(S) : ~Aims(S[j], s, k)
  BY DEF Holds
<1>3. a \in 0 .. MEM - 1
  BY Places
<1>4. S[1] \in Data => (a = Home(S[1]) <=> Aims(S[1], s, k))
  <2> SUFFICES ASSUME S[1] \in Data PROVE a = Home(S[1]) <=> Aims(S[1], s, k)
    OBVIOUS
  <2>1. Sector(S[1]) \in Lba /\ Offset(S[1]) \in 0 .. BURST - 1
    BY DataWords
  <2>2. Slot(Sector(S[1])) \in Slots
    BY <2>1, SlotType
  <2> QED BY <2>1, <2>2, Places DEF Home, Aims
<1>5. n[a] = IF Aims(S[1], s, k) THEN S[1] ELSE m[a]
  BY <1>3, <1>4 DEF Aims
<1> HIDE DEF R, a
<1>6. \A j \in i .. Len(R) : j >= 1 => ~Aims(R[j], s, k)
  BY <1>1, <1>2
<1>7. CASE i <= 1
  <2>1. d = n[a]
    <3>1. CASE i = 0
      <4>1. ~Aims(S[1], s, k)
        BY <1>1, <1>2, <3>1
      <4> QED BY <4>1, <3>1, <1>2, <1>5
    <3>2. CASE i = 1
      BY <3>2, <1>2, <1>5
    <3> QED BY <3>1, <3>2, <1>7, <1>1
  <2>2. \A j \in 0 + 1 .. Len(R) : ~Aims(R[j], s, k)
    BY <1>1, <1>6, <1>7
  <2> QED BY <2>1, <2>2, <1>1 DEF Holds, R, a
<1>8. CASE i > 1
  <2>1. i - 1 \in 0 .. Len(R) /\ i - 1 # 0 /\ R[i - 1] = S[i] /\ i # 0
    BY <1>1, <1>8
  <2>2. \A j \in (i - 1) + 1 .. Len(R) : ~Aims(R[j], s, k)
    BY <1>1, <1>6, <1>8
  <2>3. d = R[i - 1]
    BY <2>1, <1>2
  <2> QED BY <2>1, <2>2, <2>3 DEF Holds, R, a
<1> QED BY <1>7, <1>8, <1>1

\* two streams one behind the other
LEMMA Behind ==
  ASSUME NEW S \in Seq(Streamed), NEW W \in Seq(Streamed)
  PROVE  /\ S \o W \in Seq(Streamed)
         /\ Len(S) \in Nat /\ Len(W) \in Nat /\ Len(S \o W) = Len(S) + Len(W)
         /\ \A i \in 1 .. Len(S) : (S \o W)[i] = S[i]
         /\ \A i \in 1 .. Len(W) : (S \o W)[Len(S) + i] = W[i]
<1>1. /\ S \o W \in Seq(Streamed) /\ Len(S \o W) = Len(S) + Len(W)
      /\ Len(S) \in Nat /\ Len(W) \in Nat
      /\ \A i \in 1 .. Len(S) + Len(W) :
            (S \o W)[i] = IF i <= Len(S) THEN S[i] ELSE W[i - Len(S)]
  BY ConcatProperties, LenProperties
<1>2. \A i \in 1 .. Len(S) : (S \o W)[i] = S[i]
  BY <1>1
<1>3. ASSUME NEW i \in 1 .. Len(W) PROVE (S \o W)[Len(S) + i] = W[i]
  <2>1. Len(S) + i \in 1 .. Len(S) + Len(W) /\ ~(Len(S) + i <= Len(S)) /\ (Len(S) + i) - Len(S) = i
    BY <1>1
  <2> QED BY <2>1, <1>1
<1> QED BY <1>1, <1>2, <1>3

LEMMA ParsesBehind ==
  ASSUME NEW S \in Seq(Streamed), NEW W \in Seq(Streamed), Parses(S), Parses(W),
         \A i \in 1 .. Len(S) : Kind(S[i]) # "readBurst",
         Len(W) >= 1, W[1] \in Orders
  PROVE  Parses(S \o W)
<1> DEFINE X == S \o W
           n == Len(S)
<1>1. /\ n \in Nat /\ Len(W) \in Nat /\ Len(X) = n + Len(W)
      /\ \A i \in 1 .. n : X[i] = S[i]
      /\ \A i \in 1 .. Len(W) : X[n + i] = W[i]
  BY Behind
<1> SUFFICES ASSUME NEW i \in 1 .. Len(X)
             PROVE  /\ Kind(X[i]) = "writeBurst" => Begins(X, i)
                    /\ Kind(X[i]) = "data" => Continues(X, i)
                    /\ Kind(X[i]) = "readBurst" => Asks(X, i)
  BY DEF Parses
<1> HIDE DEF X
<1>2. CASE i <= n
  <2>1. i \in 1 .. Len(S) /\ X[i] = S[i]
    BY <1>1, <1>2
  <2>2. Kind(X[i]) # "readBurst"
    BY <2>1
  <2>3. Kind(X[i]) = "writeBurst" => Begins(X, i)
    <3> SUFFICES ASSUME Kind(X[i]) = "writeBurst" PROVE Begins(X, i)
      OBVIOUS
    <3>1. Begins(S, i)
      BY <2>1 DEF Parses
    <3>2. i + 2 <= n
      BY <3>1 DEF Begins
    <3>3. X[i + 1] = S[i + 1] /\ X[i + 2] = S[i + 2]
      <4>1. i + 1 \in 1 .. n /\ i + 2 \in 1 .. n
        BY <3>2, <1>1, <2>1
      <4> HIDE DEF n
      <4> QED BY <4>1, <1>1
    <3>4. i + 2 <= Len(X)
      BY <3>2, <1>1
    <3> HIDE DEF n
    <3> QED BY <2>1, <3>1, <3>3, <3>4 DEF Begins
  <2>4. Kind(X[i]) = "data" => Continues(X, i)
    <3> SUFFICES ASSUME Kind(X[i]) = "data" PROVE Continues(X, i)
      OBVIOUS
    <3>1. Continues(S, i)
      BY <2>1 DEF Parses
    <3>2. CASE Offset(S[i]) = BURST - 1
      <4>1. CASE i = n
        <5>1. X[i + 1] = W[1]
          BY <4>1, <1>1
        <5> QED BY <5>1, <3>2, <2>1 DEF Continues
      <4>2. CASE i # n
        <5>1. S[i + 1] \in Orders /\ X[i + 1] = S[i + 1]
          BY <4>2, <3>1, <3>2, <1>1, <2>1 DEF Continues
        <5> QED BY <5>1, <3>2, <2>1 DEF Continues
      <4> QED BY <4>1, <4>2
    <3>3. CASE Offset(S[i]) # BURST - 1
      <4>1. /\ i + 1 <= n /\ S[i + 1] \in Data
            /\ Sector(S[i + 1]) = Sector(S[i]) /\ Offset(S[i + 1]) = Offset(S[i]) + 1
        BY <3>1, <3>3 DEF Continues
      <4>2. X[i + 1] = S[i + 1] /\ i + 1 <= Len(X)
        BY <4>1, <1>1
      <4> HIDE DEF n
      <4> QED BY <4>1, <4>2, <3>3, <2>1 DEF Continues
    <3> QED BY <3>2, <3>3
  <2> QED BY <2>2, <2>3, <2>4
<1>3. CASE i > n
  <2> DEFINE j == i - n
  <2>1. j \in 1 .. Len(W) /\ X[i] = W[j] /\ n + j = i
    BY <1>1, <1>3
  <2>2. \A e \in 1 .. 2 : j + e <= Len(W) => X[i + e] = W[j + e]
    <3> SUFFICES ASSUME NEW e \in 1 .. 2, j + e <= Len(W) PROVE X[i + e] = W[j + e]
      OBVIOUS
    <3>1. j + e \in 1 .. Len(W) /\ n + (j + e) = i + e
      BY <1>1, <2>1
    <3> QED BY <3>1, <1>1
  <2>3. \A e \in 0 .. 2 : (i + e <= Len(X)) <=> (j + e <= Len(W))
    BY <1>1, <2>1
  <2>4. (i = Len(X)) <=> (j = Len(W))
    BY <1>1, <2>1
  <2>5. (i + 1 = Len(X)) <=> (j + 1 = Len(W))
    BY <1>1, <2>1
  <2> HIDE DEF j, n
  <2>6. Kind(X[i]) = "writeBurst" => Begins(X, i)
    <3> SUFFICES ASSUME Kind(X[i]) = "writeBurst" PROVE Begins(X, i)
      OBVIOUS
    <3>1. Begins(W, j)
      BY <2>1 DEF Parses
    <3>2. j + 2 <= Len(W) /\ j + 1 <= Len(W)
      BY <3>1, <2>1, <1>1 DEF Begins
    <3>3. i + 2 <= Len(X) /\ X[i + 1] = W[j + 1] /\ X[i + 2] = W[j + 2]
      BY <3>2, <2>2, <2>3
    <3> QED BY <3>1, <3>3, <2>1 DEF Begins
  <2>7. Kind(X[i]) = "data" => Continues(X, i)
    <3> SUFFICES ASSUME Kind(X[i]) = "data" PROVE Continues(X, i)
      OBVIOUS
    <3>1. Continues(W, j)
      BY <2>1 DEF Parses
    <3>2. j = Len(W) \/ j + 1 <= Len(W)
      BY <2>1, <1>1
    <3>3. j + 1 <= Len(W) => X[i + 1] = W[j + 1] /\ i + 1 <= Len(X)
      BY <2>2, <2>3
    <3> QED BY <3>1, <3>2, <3>3, <2>1, <2>4 DEF Continues
  <2>8. Kind(X[i]) = "readBurst" => Asks(X, i)
    <3> SUFFICES ASSUME Kind(X[i]) = "readBurst" PROVE Asks(X, i)
      OBVIOUS
    <3>1. j + 1 = Len(W) /\ W[j + 1] = Num(BURST)
      BY <2>1 DEF Parses, Asks
    <3>2. i + 1 = Len(X) /\ X[i + 1] = W[j + 1]
      BY <3>1, <2>1, <2>2, <2>5, <1>1
    <3> QED BY <3>1, <3>2 DEF Asks
  <2> QED BY <2>6, <2>7, <2>8
<1> QED BY <1>2, <1>3, <1>1

LEMMA HoldsBehind ==
  ASSUME NEW S \in Seq(Streamed), NEW W \in Seq(Streamed), NEW m,
         NEW s \in Slots, NEW k \in 0 .. BURST - 1, NEW d,
         Holds(S, m, s, k, d),
         \A j \in 1 .. Len(W) : ~Aims(W[j], s, k)
  PROVE  Holds(S \o W, m, s, k, d)
<1> DEFINE X == S \o W
<1>1. /\ Len(S) \in Nat /\ Len(W) \in Nat /\ Len(X) = Len(S) + Len(W)
      /\ \A i \in 1 .. Len(S) : X[i] = S[i]
      /\ \A i \in 1 .. Len(W) : X[Len(S) + i] = W[i]
  BY Behind
<1> HIDE DEF X
<1>2. PICK i \in 0 .. Len(S) :
        /\ d = IF i = 0 THEN m[s * BURST + k] ELSE S[i]
        /\ \A j \in i + 1 .. Len(S) : ~Aims(S[j], s, k)
  BY DEF Holds
<1>3. i \in 0 .. Len(X) /\ d = IF i = 0 THEN m[s * BURST + k] ELSE X[i]
  BY <1>1, <1>2
<1>4. ASSUME NEW j \in i + 1 .. Len(X) PROVE ~Aims(X[j], s, k)
  <2>1. CASE j <= Len(S)
    <3>1. j \in i + 1 .. Len(S) /\ j \in 1 .. Len(S)
      BY <2>1, <1>1, <1>2
    <3> QED BY <3>1, <1>1, <1>2
  <2>2. CASE j > Len(S)
    <3>1. j - Len(S) \in 1 .. Len(W) /\ Len(S) + (j - Len(S)) = j
      BY <2>2, <1>1, <1>2
    <3>2. X[j] = W[j - Len(S)]
      BY <3>1, <1>1
    <3> QED BY <3>1, <3>2
  <2> QED BY <2>1, <2>2, <1>1, <1>2
<1> QED BY <1>3, <1>4 DEF Holds, X

\* a word that W ends its aims at (s, k) with is held, whatever was before
LEMMA HoldsLast ==
  ASSUME NEW S \in Seq(Streamed), NEW W \in Seq(Streamed), NEW m, NEW s, NEW k,
         NEW e \in 1 .. Len(W),
         \A j \in e + 1 .. Len(W) : ~Aims(W[j], s, k)
  PROVE  Holds(S \o W, m, s, k, W[e])
<1> DEFINE X == S \o W
<1>1. /\ Len(S) \in Nat /\ Len(W) \in Nat /\ Len(X) = Len(S) + Len(W)
      /\ \A i \in 1 .. Len(W) : X[Len(S) + i] = W[i]
  BY Behind
<1> HIDE DEF X
<1>2. Len(S) + e \in 0 .. Len(X) /\ Len(S) + e # 0 /\ X[Len(S) + e] = W[e]
  BY <1>1
<1>3. ASSUME NEW j \in (Len(S) + e) + 1 .. Len(X) PROVE ~Aims(X[j], s, k)
  <2>1. j - Len(S) \in e + 1 .. Len(W) /\ j - Len(S) \in 1 .. Len(W) /\ Len(S) + (j - Len(S)) = j
    BY <1>1
  <2>2. X[j] = W[j - Len(S)]
    BY <2>1, <1>1
  <2> QED BY <2>1, <2>2
<1> QED BY <1>2, <1>3 DEF Holds, X

LEMMA ExpectedBehind ==
  ASSUME NEW S \in Seq(Streamed), NEW W \in Seq(Streamed), Expected(S),
         slave.at # "send", ~(slave.at = "count" /\ slave.op = "readBurst"),
         Len(W) >= 1, W[1] \in Orders
  PROVE  Expected(S \o W)
<1> DEFINE X == S \o W
<1>1. /\ Len(S) \in Nat /\ Len(W) \in Nat /\ Len(X) = Len(S) + Len(W)
      /\ X \in Seq(Streamed)
      /\ \A i \in 1 .. Len(S) : X[i] = S[i]
      /\ \A i \in 1 .. Len(W) : X[Len(S) + i] = W[i]
  BY Behind
<1>2. S # <<>> => Len(S) >= 1
  BY <1>1, EmptySeq
<1>3. S = <<>> => X[1] = W[1]
  <2> SUFFICES ASSUME S = <<>> PROVE X[1] = W[1]
    OBVIOUS
  <2>1. Len(S) = 0
    OBVIOUS
  <2>2. X[Len(S) + 1] = W[1]
    BY <1>1
  <2> QED BY <2>1, <2>2
<1>4. S # <<>> => X[1] = S[1]
  BY <1>1, <1>2
<1>5. Len(S) >= 2 => X[2] = S[2]
  BY <1>1
<1>6. X # <<>> /\ Len(S) >= 2 => Len(X) >= 2
  BY <1>1
<1>7. X # <<>>
  <2>1. Len(X) # 0
    BY <1>1
  <2> QED BY <2>1, <1>1, EmptySeq
<1> HIDE DEF X
<1>8. Len(S) >= 2 => S # <<>>
  OBVIOUS
<1>9. Expected(X)
  <2>1. CASE slave.at = "idle"
    BY <2>1, <1>3, <1>4 DEF Expected
  <2>2. CASE slave.at = "count"
    BY <2>2, <1>4, <1>5, <1>6, <1>7, <1>8 DEF Expected
  <2>3. CASE slave.at = "recv"
    BY <2>3, <1>4, <1>7 DEF Expected
  <2> QED BY <2>1, <2>2, <2>3 DEF Expected
<1> QED BY <1>9 DEF X

\* the two transfers core 0 starts
LEMMA AskWords ==
  ASSUME NEW l \in Lba
  PROVE  /\ Ask(l) \in Seq(Streamed) /\ Len(Ask(l)) = 2
         /\ Ask(l)[1] = Req("readBurst", Slot(l) * BURST) /\ Ask(l)[1] \in Orders
         /\ Ask(l)[2] = Num(BURST)
         /\ Parses(Ask(l))
         /\ \A i \in 1 .. 2 : Ask(l)[i] \notin Data
<1> DEFINE r == Req("readBurst", Slot(l) * BURST)
<1>1. r \in Orders /\ Kind(r) = "readBurst" /\ r \notin Data
  <2>1. r \in Orders
    BY SlotType DEF Orders
  <2>2. Kind(r) = "readBurst"
    BY DEF Req, Kind
  <2> QED BY <2>1, <2>2, OrderWords
<1>2. Ask(l) = <<r, Num(BURST)>>
  BY DEF Ask
<1> HIDE DEF r
<1>3. r \in Streamed /\ Num(BURST) \in Streamed
  BY <1>1 DEF Streamed
<1>4. Ask(l) \in Seq(Streamed) /\ Len(Ask(l)) = 2 /\ Ask(l)[1] = r /\ Ask(l)[2] = Num(BURST)
  BY <1>2, <1>3
<1>5. Parses(Ask(l))
  <2> SUFFICES ASSUME NEW i \in 1 .. 2
               PROVE  /\ Kind(Ask(l)[i]) = "writeBurst" => Begins(Ask(l), i)
                      /\ Kind(Ask(l)[i]) = "data" => Continues(Ask(l), i)
                      /\ Kind(Ask(l)[i]) = "readBurst" => Asks(Ask(l), i)
    BY <1>4 DEF Parses
  <2>1. CASE i = 1
    BY <2>1, <1>1, <1>4 DEF Asks
  <2>2. CASE i = 2
    BY <2>2, <1>4, NumWord
  <2> QED BY <2>1, <2>2
<1>6. \A i \in 1 .. 2 : Ask(l)[i] \notin Data
  BY <1>1, <1>4, NumWord
<1> QED BY <1>1, <1>4, <1>5, <1>6 DEF r

LEMMA FillWords ==
  ASSUME NEW l \in Lba, card \in [Lba -> 0 .. VERSIONS - 1]
  PROVE  /\ Fill(l) \in Seq(Streamed) /\ Len(Fill(l)) = BURST + 2
         /\ Fill(l)[1] = Req("writeBurst", Slot(l) * BURST) /\ Fill(l)[1] \in Orders
         /\ Fill(l)[2] = Num(BURST)
         /\ \A k \in 0 .. BURST - 1 : Fill(l)[k + 3] = DataWord(l, card[l], k)
<1> DEFINE r == Req("writeBurst", Slot(l) * BURST)
           h == <<r, Num(BURST)>>
           t == [k \in 1 .. BURST |-> DataWord(l, card[l], k - 1)]
<1>1. r \in Orders
  BY SlotType DEF Orders
<1>2. h \in Seq(Streamed) /\ Len(h) = 2 /\ h[1] = r /\ h[2] = Num(BURST)
  <2> HIDE DEF r
  <2>1. r \in Streamed /\ Num(BURST) \in Streamed
    BY <1>1 DEF Streamed
  <2> QED BY <2>1
<1>3. t \in Seq(Streamed) /\ Len(t) = BURST /\ \A k \in 1 .. BURST : t[k] = DataWord(l, card[l], k - 1)
  <2>1. BURST \in Nat
    BY Constants
  <2>2. \A k \in 1 .. BURST : DataWord(l, card[l], k - 1) \in Streamed
    <3> TAKE k \in 1 .. BURST
    <3>1. k - 1 \in 0 .. BURST - 1 /\ card[l] \in 0 .. VERSIONS - 1
      BY <2>1
    <3> QED BY <3>1, DataWordOf DEF Streamed
  <2>3. t \in [1 .. BURST -> Streamed]
    BY <2>2
  <2>4. t \in Seq(Streamed)
    BY <2>1, <2>3, SeqDef
  <2> HIDE DEF t
  <2>5. Len(t) = BURST
    BY <2>1, <2>3, <2>4
  <2> QED BY <2>4, <2>5 DEF t
<1>4. Fill(l) = h \o t
  BY DEF Fill
<1> HIDE DEF h, t, r
<1>5. /\ Fill(l) \in Seq(Streamed) /\ Len(Fill(l)) = 2 + BURST /\ BURST \in Nat
      /\ \A i \in 1 .. 2 : Fill(l)[i] = h[i]
      /\ \A i \in 1 .. BURST : Fill(l)[2 + i] = t[i]
  <2>1. h \in Seq(Streamed) /\ t \in Seq(Streamed)
    BY <1>2, <1>3
  <2>2. /\ h \o t \in Seq(Streamed) /\ Len(h \o t) = Len(h) + Len(t)
        /\ \A i \in 1 .. Len(h) : (h \o t)[i] = h[i]
        /\ \A i \in 1 .. Len(t) : (h \o t)[Len(h) + i] = t[i]
    BY <2>1, Behind
  <2>3. Len(h) = 2 /\ Len(t) = BURST
    BY <1>2, <1>3
  <2> QED BY <2>2, <2>3, <1>4, Constants
<1>6. ASSUME NEW k \in 0 .. BURST - 1 PROVE Fill(l)[k + 3] = DataWord(l, card[l], k)
  <2>1. k + 1 \in 1 .. BURST /\ k + 3 = 2 + (k + 1) /\ (k + 1) - 1 = k
    BY <1>5
  <2> QED BY <2>1, <1>3, <1>5
<1>7. Fill(l)[1] = r /\ Fill(l)[2] = Num(BURST)
  BY <1>2, <1>5
<1>8. Len(Fill(l)) = BURST + 2
  BY <1>5
<1> QED BY <1>1, <1>5, <1>6, <1>7, <1>8 DEF r

LEMMA FillParses ==
  ASSUME NEW l \in Lba, card \in [Lba -> 0 .. VERSIONS - 1]
  PROVE  /\ Parses(Fill(l))
         /\ \A i \in 1 .. BURST + 2 : Kind(Fill(l)[i]) # "readBurst"
<1> DEFINE F == Fill(l)
<1>1. /\ Len(F) = BURST + 2 /\ BURST \in Nat /\ BURST > 0
      /\ F[1] = Req("writeBurst", Slot(l) * BURST)
      /\ F[2] = Num(BURST)
      /\ \A k \in 0 .. BURST - 1 : F[k + 3] = DataWord(l, card[l], k)
  BY FillWords, Constants
<1>2. ASSUME NEW k \in 0 .. BURST - 1
      PROVE  /\ F[k + 3] \in Data /\ Sector(F[k + 3]) = l /\ Offset(F[k + 3]) = k
             /\ Kind(F[k + 3]) = "data"
  <2>1. card[l] \in 0 .. VERSIONS - 1
    OBVIOUS
  <2>2. F[k + 3] = DataWord(l, card[l], k)
    BY <1>1
  <2> HIDE DEF F
  <2> QED BY <2>1, <2>2, DataWordOf
<1>3. Kind(F[1]) = "writeBurst"
  BY <1>1 DEF Req, Kind
<1> HIDE DEF F
<1>4. ASSUME NEW i \in 1 .. BURST + 2
      PROVE  /\ Kind(F[i]) = "writeBurst" => Begins(F, i)
             /\ Kind(F[i]) = "data" => Continues(F, i)
             /\ Kind(F[i]) # "readBurst"
  <2>1. CASE i = 1
    <3>1. 0 \in 0 .. BURST - 1 /\ 1 + 2 <= Len(F) /\ 1 + 1 = 2 /\ 1 + 2 = 0 + 3
      BY <1>1
    <3>2. F[1 + 2] \in Data /\ Offset(F[1 + 2]) = 0 /\ Sector(F[1 + 2]) = l
      BY <3>1, <1>2
    <3>3. Home(F[1 + 2]) = Slot(l) * BURST
      <4>1. Slot(l) * BURST \in Nat
        BY <3>1, SlotType, Places
      <4> QED BY <3>2, <4>1 DEF Home
    <3>4. Begins(F, 1)
      BY <1>1, <3>1, <3>2, <3>3 DEF Begins
    <3> QED BY <2>1, <3>4, <1>3
  <2>2. CASE i = 2
    BY <2>2, <1>1, NumWord
  <2>3. CASE i > 2
    <3> DEFINE k == i - 3
    <3>1. k \in 0 .. BURST - 1 /\ k + 3 = i
      BY <2>3, <1>1
    <3>2. F[i] \in Data /\ Sector(F[i]) = l /\ Offset(F[i]) = k /\ Kind(F[i]) = "data"
      BY <3>1, <1>2
    <3>3. CASE k = BURST - 1
      <4>1. i = Len(F)
        BY <3>3, <1>1
      <4> QED BY <4>1, <3>2, <3>3 DEF Continues
    <3>4. CASE k # BURST - 1
      <4>1. k + 1 \in 0 .. BURST - 1 /\ (k + 1) + 3 = i + 1 /\ i + 1 <= Len(F)
        BY <3>1, <3>4, <1>1
      <4>2. F[i + 1] \in Data /\ Sector(F[i + 1]) = l /\ Offset(F[i + 1]) = k + 1
        BY <4>1, <1>2
      <4> HIDE DEF k
      <4> QED BY <4>1, <4>2, <3>2, <3>4 DEF Continues
    <3> QED BY <3>3, <3>4
  <2> QED BY <2>1, <2>2, <2>3, <1>1
<1>5. \A i \in 1 .. Len(F) : Kind(F[i]) = "readBurst" => Asks(F, i)
  BY <1>1, <1>4
<1> QED BY <1>1, <1>4, <1>5 DEF Parses, F

\* what is held of a slot once the master has begun to fill it
LEMMA FillHolds ==
  ASSUME NEW l \in Lba, card \in [Lba -> 0 .. VERSIONS - 1],
         NEW S \in Seq(Streamed), NEW m, NEW s \in Slots, NEW k \in 0 .. BURST - 1
  PROVE  /\ s = Slot(l) => Holds(S \o Fill(l), m, s, k, DataWord(l, card[l], k))
         /\ \A d : s # Slot(l) /\ Holds(S, m, s, k, d) => Holds(S \o Fill(l), m, s, k, d)
<1> DEFINE F == Fill(l)
<1>1. /\ F \in Seq(Streamed) /\ Len(F) = BURST + 2 /\ BURST \in Nat /\ BURST > 0
      /\ F[1] \in Orders
      /\ F[2] = Num(BURST)
      /\ \A j \in 0 .. BURST - 1 : F[j + 3] = DataWord(l, card[l], j)
  BY FillWords, Constants
<1> HIDE DEF F
<1>2. ASSUME NEW i \in 1 .. Len(F), NEW t \in Slots, NEW j \in 0 .. BURST - 1
      PROVE  Aims(F[i], t, j) => t = Slot(l) /\ i = j + 3
  <2>1. CASE i = 1
    BY <2>1, <1>1, OrderWords DEF Aims
  <2>2. CASE i = 2
    BY <2>2, <1>1, NumWord DEF Aims
  <2>3. CASE i > 2
    <3>1. i - 3 \in 0 .. BURST - 1 /\ (i - 3) + 3 = i
      BY <2>3, <1>1
    <3>2. F[i] = DataWord(l, card[l], i - 3) /\ card[l] \in 0 .. VERSIONS - 1
      BY <3>1, <1>1
    <3>3. Sector(F[i]) = l /\ Offset(F[i]) = i - 3
      BY <3>1, <3>2, DataWordOf
    <3> QED BY <3>1, <3>3 DEF Aims
  <2> QED BY <2>1, <2>2, <2>3, <1>1
<1>3. ASSUME s = Slot(l) PROVE Holds(S \o F, m, s, k, DataWord(l, card[l], k))
  <2>1. k + 3 \in 1 .. Len(F) /\ F[k + 3] = DataWord(l, card[l], k)
    BY <1>1
  <2>2. \A j \in (k + 3) + 1 .. Len(F) : ~Aims(F[j], s, k)
    BY <1>1, <1>2
  <2>3. Holds(S \o F, m, s, k, F[k + 3])
    BY <2>1, <2>2, <1>1, HoldsLast
  <2> QED BY <2>1, <2>3
<1>4. ASSUME NEW d, s # Slot(l), Holds(S, m, s, k, d) PROVE Holds(S \o F, m, s, k, d)
  <2>1. \A j \in 1 .. Len(F) : ~Aims(F[j], s, k)
    BY <1>2, <1>4
  <2> QED BY <2>1, <1>1, <1>4, HoldsBehind
<1> QED BY <1>3, <1>4 DEF F

-----------------------------------------------------------------------------
(* What every step of the slave that takes a word does to the stream.       *)

LEMMA StreamType ==
  ASSUME Wired
  PROVE  Stream \in Seq(Streamed)
<1>1. rx \o tx \in Seq(Streamed)
  BY ConcatProperties DEF Wired
<1> QED BY <1>1, ConcatProperties DEF Wired, Stream

LEMMA TakeHead ==
  ASSUME Wired, Takes, UNCHANGED out
  PROVE  /\ Stream \in Seq(Streamed) /\ Stream # <<>> /\ Stream[1] = Head(rx)
         /\ Stream' = Tail(Stream)
         /\ rx' \in Seq(Streamed) /\ tx' \in Seq(Streamed) /\ out' \in Seq(Streamed)
<1>1. rx \in Seq(Streamed) /\ rx # <<>> /\ tx \in Seq(Streamed) /\ out \in Seq(Streamed)
  BY DEF Wired, Takes
<1>2. rx \o tx \in Seq(Streamed) /\ rx \o tx # <<>>
  BY <1>1, ConcatProperties, ConcatEqualIffEmpty
<1>3. Stream \in Seq(Streamed) /\ Stream # <<>>
  BY <1>1, <1>2, ConcatProperties, ConcatEqualIffEmpty DEF Stream
<1>4. Stream[1] = Head(rx)
  <2>1. Len(rx) \in Nat /\ Len(rx) >= 1 /\ Head(rx) = rx[1]
    BY <1>1, TailOf
  <2>2. (rx \o tx)[1] = rx[1] /\ Len(rx \o tx) >= 1
    BY <1>1, <2>1, Behind
  <2>3. ((rx \o tx) \o out)[1] = (rx \o tx)[1]
    BY <1>1, <1>2, <2>2, Behind
  <2> QED BY <2>1, <2>2, <2>3 DEF Stream
<1>5. Stream' = Tail(Stream)
  BY <1>1, TakeStream DEF Stream, Takes
<1>6. rx' \in Seq(Streamed)
  BY <1>1, HeadTailProperties DEF Takes
<1> QED BY <1>1, <1>3, <1>4, <1>5, <1>6 DEF Takes

\* the word a slot is to hold goes to that slot
LEMMA SaysAims ==
  ASSUME Types, NEW s \in Slots, Says(s) # Empty, NEW k \in 0 .. BURST - 1
  PROVE  /\ Says(s) \in Lba /\ Slot(Says(s)) = s
         /\ DataWord(Says(s), card[Says(s)], k) \in Data
         /\ Aims(DataWord(Says(s), card[Says(s)], k), s, k)
<1>1. ASSUME <<master.first, master.n>> \in Runs, master.lba \in Run(master.first, master.n)
      PROVE  master.lba \in Lba
  BY <1>1, Constants DEF Runs, Run, Lba
<1>2. Says(s) \in Lba /\ Slot(Says(s)) = s
  BY <1>1 DEF Types, Says
<1>3. card[Says(s)] \in 0 .. VERSIONS - 1
  BY <1>2 DEF Types
<1> QED BY <1>2, <1>3, DataWordOf DEF Aims

LEMMA TakeKeeps ==
  ASSUME Types, Wired, Filed, Takes, UNCHANGED <<card, cacheVars>>,
         \A a \in 0 .. MEM - 1 :
            mem'[a] = IF Stream[1] \in Data /\ a = Home(Stream[1]) THEN Stream[1] ELSE mem[a]
  PROVE  Filed' /\ Parses(Stream)'
<1>1. Stream \in Seq(Streamed) /\ Stream # <<>> /\ Stream' = Tail(Stream)
  BY TakeHead DEF cacheVars
<1>2. Parses(Tail(Stream))
  BY <1>1, ParsesTail DEF Wired
<1>3. ASSUME NEW s \in Slots, Says(s) # Empty, NEW k \in 0 .. BURST - 1
      PROVE  Holds(Tail(Stream), mem', s, k, DataWord(Says(s), card[Says(s)], k))
  <2> DEFINE d == DataWord(Says(s), card[Says(s)], k)
  <2>1. Aims(d, s, k)
    BY <1>3, SaysAims
  <2>2. Holds(Stream, mem, s, k, d)
    BY <1>3 DEF Filed
  <2> HIDE DEF d
  <2>3. Holds(Tail(Stream), mem', s, k, d)
    BY <1>1, <2>1, <2>2, HoldsTail
  <2> QED BY <2>3 DEF d
<1>4. \A s \in Slots : Says(s)' = Says(s)
  BY DEF Says, cacheVars
<1>5. Filed'
  <2> SUFFICES ASSUME NEW s \in Slots, Says(s)' # Empty, NEW k \in 0 .. BURST - 1
               PROVE  Holds(Stream', mem', s, k, DataWord(Says(s)', card'[Says(s)'], k))
    BY DEF Filed, Holds
  <2> QED BY <1>1, <1>3, <1>4
<1>6. Parses(Stream)'
  BY <1>1, <1>2 DEF Parses, Begins, Continues, Asks
<1> QED BY <1>5, <1>6

\* a word of a fill is taken: neither a call that waits for its answer nor
\* the quiet between two calls is touched
LEMMA TakePosted ==
  ASSUME Types, InUse, on, Takes, UNCHANGED <<down, card, cacheVars>>,
         Kind(Stream[1]) # "readBurst",
         slave.at # "send", ~(slave.at = "count" /\ slave.op = "readBurst"),
         slave'.at # "send", ~(slave'.at = "count" /\ slave'.op = "readBurst")
  PROVE  /\ master.at # "ask" => Quiet'
         /\ master.at = "ask" => Reading'
<1>1. Stream \in Seq(Streamed) /\ Stream # <<>> /\ Stream' = Tail(Stream)
  BY TakeHead DEF cacheVars, InUse
<1>2. /\ Len(Stream) \in Nat /\ Len(Stream') = Len(Stream) - 1
      /\ \A i \in 1 .. Len(Stream) - 1 : Stream'[i] = Stream[i + 1]
  BY <1>1, TailOf
<1>3. ASSUME master.at # "ask" PROVE Quiet'
  <2>1. Quiet
    BY <1>3 DEF InUse
  <2>2. \A i \in 1 .. Len(Stream') : Kind(Stream'[i]) # "readBurst"
    <3>1. \A i \in 1 .. Len(Stream) : Kind(Stream[i]) # "readBurst"
      BY <2>1 DEF Quiet, Reads
    <3> QED BY <3>1, <1>2
  <2>3. Reads'
    BY <2>2 DEF Reads
  <2> QED BY <2>1, <2>3 DEF Quiet, cacheVars
<1>4. ASSUME master.at = "ask" PROVE Reading'
  <2>1. Reading
    BY <1>4 DEF InUse
  <2>2. Asked
    BY <2>1, <1>1 DEF Reading, Answering, Answered
  <2>3. /\ Len(Stream) >= 2 /\ Taken = 0 /\ down = <<>>
        /\ Stream[Len(Stream) - 1] = Req("readBurst", Slot(master.lba) * BURST)
    BY <2>2 DEF Asked
  <2>4. Kind(Stream[Len(Stream) - 1]) = "readBurst"
    BY <2>3 DEF Kind, Req
  <2>5. Len(Stream) >= 3
    <3>1. Len(Stream) - 1 # 1
      BY <2>4
    <3> QED BY <3>1, <2>3, <1>2
  <2>6. Len(Stream') >= 2 /\ Stream'[Len(Stream') - 1] = Req("readBurst", Slot(master.lba) * BURST)
    <3>1. Len(Stream) - 2 \in 1 .. Len(Stream) - 1 /\ (Len(Stream) - 2) + 1 = Len(Stream) - 1
          /\ Len(Stream') - 1 = Len(Stream) - 2
      BY <2>5, <1>2
    <3>2. Stream'[Len(Stream) - 2] = Stream[(Len(Stream) - 2) + 1]
      BY <3>1, <1>2
    <3> QED BY <3>1, <3>2, <2>3, <2>5, <1>2
  <2>7. UNCHANGED <<master, down, got, card, tags, out, Taken>>
    BY DEF cacheVars, Taken, Base
  <2>8. Asked'
    BY <2>3, <2>6, <2>7 DEF Asked
  <2> QED BY <2>1, <2>7, <2>8 DEF Reading, Resident, Contents
<1> QED BY <1>3, <1>4

LEMMA ServeInUse ==
  ASSUME Types, InUse, on, Serve, UNCHANGED <<card, cacheVars>>
  PROVE  InUse'
<1> DEFINE w == Stream[1]
<1>1. Wired /\ Filed /\ Takes /\ slave.at = "idle" /\ mem' = mem
  BY DEF InUse, Serve
<1>2. /\ Stream \in Seq(Streamed) /\ Stream # <<>> /\ w = Head(rx)
      /\ Stream' = Tail(Stream)
      /\ rx' \in Seq(Streamed) /\ tx' \in Seq(Streamed) /\ out' \in Seq(Streamed)
  BY <1>1, TakeHead DEF cacheVars
<1>3. w \in Orders
  BY <1>1, <1>2 DEF Wired, Expected
<1>4. /\ Kind(w) \in {"writeBurst", "readBurst"} /\ w \notin Data
      /\ Requests(w) = {w} /\ w[2] \in Int
  BY <1>3, OrderWords
<1>5. /\ slave' = [at |-> "count", op |-> Kind(w), addr |-> w[2], left |-> 0]
      /\ down' = down
  <2>1. PICK req \in Requests(Head(rx)) :
         \/ req[1] \in {"read32", "ping", "unknown"}
         \/ /\ req[1] \in {"write32", "readBurst", "writeBurst"}
            /\ slave' = [at |-> IF req[1] = "write32" THEN "value" ELSE "count",
                         op |-> req[1], addr |-> req[2], left |-> 0]
            /\ UNCHANGED down
    BY DEF Serve
  <2>2. req = w
    BY <2>1, <1>2, <1>4
  <2> QED BY <2>1, <2>2, <1>4 DEF Kind
<1>6. Filed' /\ Parses(Stream)'
  <2>1. \A a \in 0 .. MEM - 1 :
          mem'[a] = IF Stream[1] \in Data /\ a = Home(Stream[1]) THEN Stream[1] ELSE mem[a]
    BY <1>1, <1>4
  <2> QED BY <2>1, <1>1, TakeKeeps
<1>7. /\ Len(Stream) \in Nat /\ Len(Stream) >= 1 /\ Len(Stream') = Len(Stream) - 1
      /\ \A i \in 1 .. Len(Stream) - 1 : Stream'[i] = Stream[i + 1]
  BY <1>2, TailOf
<1> HIDE DEF w
<1>10. slave' \in Stations
  BY <1>4, <1>5 DEF Stations
<1>8. CASE Kind(w) = "writeBurst"
  <2>1. Begins(Stream, 1)
    BY <1>1, <1>7, <1>8 DEF Wired, Parses, w
  <2>2. /\ Len(Stream) >= 3 /\ Stream[2] = Num(BURST)
        /\ Stream[3] \in Data /\ Offset(Stream[3]) = 0
        /\ w = Req("writeBurst", Home(Stream[3]))
    BY <2>1, <1>7 DEF Begins, w
  <2>3. w[2] = Home(Stream[3])
    BY <2>2 DEF Req
  <2>4. Len(Stream') >= 2 /\ Stream'[1] = Stream[2] /\ Stream'[2] = Stream[3]
    BY <2>2, <1>7
  <2>5. Expected(Stream)'
    BY <2>2, <2>3, <2>4, <1>5, <1>8 DEF Expected
  <2>6. Wired'
    BY <2>5, <1>2, <1>6, <1>10 DEF Wired
  <2>7. /\ master.at # "ask" => Quiet'
        /\ master.at = "ask" => Reading'
    BY <1>1, <1>5, <1>8, TakePosted DEF w
  <2> QED BY <2>6, <2>7, <1>6 DEF InUse, cacheVars
<1>9. CASE Kind(w) = "readBurst"
  <2>1. Len(Stream) = 2 /\ Stream[2] = Num(BURST)
    BY <1>1, <1>7, <1>9 DEF Wired, Parses, Asks, w
  <2>2. Len(Stream') = 1 /\ Stream'[1] = Num(BURST)
    BY <2>1, <1>7
  <2>3. Expected(Stream)'
    BY <2>2, <1>5, <1>9 DEF Expected
  <2>4. Wired'
    BY <2>3, <1>2, <1>6, <1>10 DEF Wired
  <2>5. master.at = "ask"
    <3> SUFFICES ASSUME Quiet PROVE FALSE
      BY DEF InUse
    <3>1. 1 \in 1 .. Len(Stream)
      BY <1>7
    <3> QED BY <3>1, <1>9 DEF Quiet, Reads, w
  <2>6. Reading
    BY <2>5 DEF InUse
  <2>7. /\ Taken = 0 /\ down = <<>>
        /\ Stream[Len(Stream) - 1] = Req("readBurst", Slot(master.lba) * BURST)
    BY <2>6, <1>1, <1>2 DEF Reading, Asked, Answering, Answered
  <2>8. w[2] = Slot(master.lba) * BURST
    <3>1. w = Req("readBurst", Slot(master.lba) * BURST)
      BY <2>1, <2>7 DEF w
    <3> QED BY <3>1 DEF Req
  <2>9. UNCHANGED <<master, down, got, card, tags, out, Taken>>
    BY <1>5 DEF cacheVars, Taken, Base
  <2>10. Asked'
    BY <2>7, <2>8, <2>9, <1>5, <1>9 DEF Asked
  <2>11. Reading'
    BY <2>6, <2>9, <2>10 DEF Reading, Resident, Contents
  <2> QED BY <2>4, <2>5, <2>9, <2>11, <1>6 DEF InUse
<1> QED BY <1>4, <1>8, <1>9

LEMMA TakeCountInUse ==
  ASSUME Types, InUse, on, TakeCount, UNCHANGED <<card, cacheVars>>
  PROVE  InUse'
<1>1. Wired /\ Filed /\ Takes /\ slave.at = "count" /\ mem' = mem /\ down' = down
  BY DEF InUse, TakeCount
<1>2. /\ Stream \in Seq(Streamed) /\ Stream # <<>> /\ Stream[1] = Head(rx)
      /\ Stream' = Tail(Stream)
      /\ rx' \in Seq(Streamed) /\ tx' \in Seq(Streamed) /\ out' \in Seq(Streamed)
  BY <1>1, TakeHead DEF cacheVars
<1>3. Stream[1] = Num(BURST)
  BY <1>1 DEF Wired, Expected
<1>4. slave' = [slave EXCEPT !.left = BURST,
                             !.at = IF slave.op = "readBurst" THEN "send" ELSE "recv"]
  <2>1. PICK n \in Numbers(Head(rx)) :
          slave' = IF n = 0 THEN Waiting
                   ELSE [slave EXCEPT !.left = n,
                                      !.at = IF slave.op = "readBurst" THEN "send" ELSE "recv"]
    BY DEF TakeCount
  <2>2. n = BURST /\ BURST # 0
    BY <2>1, <1>2, <1>3, NumWord, Constants
  <2> QED BY <2>1, <2>2
<1>5. Filed' /\ Parses(Stream)'
  <2>1. \A a \in 0 .. MEM - 1 :
          mem'[a] = IF Stream[1] \in Data /\ a = Home(Stream[1]) THEN Stream[1] ELSE mem[a]
    BY <1>1, <1>3, NumWord
  <2> QED BY <2>1, <1>1, TakeKeeps
<1>6. /\ Len(Stream) \in Nat /\ Len(Stream) >= 1 /\ Len(Stream') = Len(Stream) - 1
      /\ \A i \in 1 .. Len(Stream) - 1 : Stream'[i] = Stream[i + 1]
      /\ Stream' \in Seq(Streamed)
  BY <1>2, TailOf
<1>7. /\ slave \in Stations
      /\ BURST \in Int
  BY <1>1, Constants DEF Wired
<1>8. slave' \in Stations
  BY <1>4, <1>7 DEF Stations
<1>9. CASE slave.op = "writeBurst"
  <2>1. /\ Len(Stream) >= 2 /\ Stream[2] \in Data /\ Offset(Stream[2]) = 0
        /\ slave.addr = Home(Stream[2])
    BY <1>1, <1>9 DEF Wired, Expected
  <2>2. Len(Stream') >= 1 /\ Stream'[1] = Stream[2]
    BY <2>1, <1>6
  <2>3. Stream' # <<>>
    BY <2>2
  <2>4. slave'.at = "recv" /\ slave'.addr = slave.addr /\ slave'.left = BURST
    BY <1>4, <1>7, <1>9 DEF Stations
  <2>5. Expected(Stream)'
    BY <2>1, <2>2, <2>3, <2>4, <1>7 DEF Expected
  <2>6. Wired'
    BY <2>5, <1>2, <1>5, <1>8 DEF Wired
  <2>7. Kind(Stream[1]) # "readBurst"
    BY <1>3, NumWord
  <2>8. /\ master.at # "ask" => Quiet'
        /\ master.at = "ask" => Reading'
    BY <2>4, <2>7, <1>1, <1>9, TakePosted
  <2> QED BY <2>6, <2>8, <1>5 DEF InUse, cacheVars
<1>10. CASE slave.op = "readBurst"
  <2>1. Len(Stream) = 1
    BY <1>1, <1>10 DEF Wired, Expected
  <2>2. Stream' = <<>>
    <3>1. Len(Stream') = 0
      BY <2>1, <1>6
    <3> QED BY <3>1, <1>6, EmptySeq
  <2>3. slave'.at = "send" /\ slave'.addr = slave.addr /\ slave'.left = BURST
    BY <1>4, <1>7, <1>10 DEF Stations
  <2>4. Expected(Stream)'
    BY <2>2, <2>3 DEF Expected
  <2>5. Wired'
    BY <2>4, <1>2, <1>5, <1>8 DEF Wired
  <2>6. master.at = "ask"
    BY <1>1, <1>10 DEF InUse, Quiet, Reads
  <2>7. Reading
    BY <2>6 DEF InUse
  <2>8. Taken = 0 /\ down = <<>> /\ slave.addr = Slot(master.lba) * BURST
    BY <2>7, <1>1, <1>10 DEF Reading, Asked, Answering, Answered
  <2>9. UNCHANGED <<master, down, got, card, tags, out, Taken>>
    BY <1>1 DEF cacheVars, Taken, Base
  <2>10. Answering'
    <3>1. BURST \in 1 .. BURST /\ BURST - BURST = 0
      BY Constants
    <3>2. Slot(master.lba) * BURST \in Int
      BY <2>8, <1>7 DEF Stations
    <3>3. Len(down') = 0 /\ Taken' + Len(down') = 0
      BY <2>8, <2>9
    <3> QED BY <2>3, <2>8, <2>9, <3>1, <3>2, <3>3 DEF Answering
  <2>11. Reading'
    BY <2>7, <2>9, <2>10 DEF Reading, Resident, Contents
  <2> QED BY <2>5, <2>6, <2>9, <2>11, <1>5 DEF InUse
<1> QED BY <1>1, <1>9, <1>10 DEF Wired, Expected

LEMMA NextStation ==
  ASSUME slave \in Stations
  PROVE  /\ slave.left # 1 => NextWord = [at |-> slave.at, op |-> slave.op,
                                        addr |-> slave.addr + 1, left |-> slave.left - 1]
         /\ slave.left = 1 => NextWord = Waiting
         /\ NextWord \in Stations
<1>1. CASE slave.left = 1
  BY <1>1 DEF NextWord, Waiting, Stations
<1>2. CASE slave.left # 1
  <2>1. NextWord = [slave EXCEPT !.addr = @ + 1, !.left = @ - 1]
    BY <1>2 DEF NextWord
  <2>2. NextWord = [at |-> slave.at, op |-> slave.op,
                    addr |-> slave.addr + 1, left |-> slave.left - 1]
    BY <2>1 DEF Stations
  <2>3. slave.addr + 1 \in Int /\ slave.left - 1 \in Int
    BY DEF Stations
  <2> QED BY <2>2, <2>3, <1>2 DEF Stations
<1> QED BY <1>1, <1>2

LEMMA ReceiveInUse ==
  ASSUME Types, InUse, on, Receive, UNCHANGED <<card, cacheVars>>
  PROVE  InUse'
<1> DEFINE w == Stream[1]
<1>1. Wired /\ Filed /\ Takes /\ slave.at = "recv" /\ down' = down /\ slave' = NextWord
  BY DEF InUse, Receive
<1>2. /\ Stream \in Seq(Streamed) /\ Stream # <<>> /\ w = Head(rx)
      /\ Stream' = Tail(Stream)
      /\ rx' \in Seq(Streamed) /\ tx' \in Seq(Streamed) /\ out' \in Seq(Streamed)
  BY <1>1, TakeHead DEF cacheVars
<1>3. w \in Data /\ slave.addr = Home(w) /\ slave.left = BURST - Offset(w)
  BY <1>1 DEF Wired, Expected
<1>4. /\ Kind(w) = "data" /\ Sector(w) \in Lba /\ Offset(w) \in 0 .. BURST - 1
      /\ Home(w) \in 0 .. MEM - 1 /\ BURST \in Nat
  BY <1>3, DataWords, Constants
<1>5. /\ Len(Stream) \in Nat /\ Len(Stream) >= 1 /\ Len(Stream') = Len(Stream) - 1
      /\ \A i \in 1 .. Len(Stream) - 1 : Stream'[i] = Stream[i + 1]
      /\ Stream' \in Seq(Streamed)
  BY <1>2, TailOf
<1>6. Continues(Stream, 1)
  BY <1>1, <1>4, <1>5 DEF Wired, Parses
<1> HIDE DEF w
<1>7. Filed' /\ Parses(Stream)'
  <2>1. mem' = [mem EXCEPT ![Home(w)] = w] /\ DOMAIN mem = 0 .. MEM - 1
    BY <1>2, <1>3, <1>4 DEF Receive, Store, Types
  <2>2. \A a \in 0 .. MEM - 1 :
          mem'[a] = IF Stream[1] \in Data /\ a = Home(Stream[1]) THEN Stream[1] ELSE mem[a]
    BY <2>1, <1>3 DEF w
  <2> QED BY <2>2, <1>1, TakeKeeps
<1>8. slave' \in Stations
  BY <1>1, NextStation DEF Wired
<1>9. Expected(Stream)'
  <2>1. CASE Offset(w) = BURST - 1
    <3>1. slave'.at = "idle"
      BY <2>1, <1>1, <1>3, <1>4 DEF NextWord, Waiting
    <3>2. Len(Stream) = 1 \/ Stream[2] \in Orders
      BY <2>1, <1>6 DEF Continues, w
    <3>3. Len(Stream') = 0 \/ (Len(Stream') >= 1 /\ Stream'[1] = Stream[2])
      BY <1>5
    <3>4. Len(Stream) = 1 => Stream' = <<>>
      BY <1>5, EmptySeq
    <3>5. Len(Stream') = 0 => Stream' = <<>>
      BY <1>5, EmptySeq
    <3> QED BY <3>1, <3>2, <3>3, <3>4, <3>5 DEF Expected
  <2>2. CASE Offset(w) # BURST - 1
    <3>1. /\ Len(Stream) >= 2 /\ Stream[2] \in Data
          /\ Sector(Stream[2]) = Sector(w) /\ Offset(Stream[2]) = Offset(w) + 1
      BY <2>2, <1>6 DEF Continues, w
    <3>2. Len(Stream') >= 1 /\ Stream'[1] = Stream[2]
      BY <3>1, <1>5
    <3>3. Stream' # <<>>
      BY <3>2
    <3>4. slave.left # 1 /\ slave.left \in Int /\ slave.addr \in Int
      BY <2>2, <1>3, <1>4
    <3>5. slave'.at = "recv" /\ slave'.addr = slave.addr + 1 /\ slave'.left = slave.left - 1
      BY <3>4, <1>1 DEF NextWord, Wired, Stations
    <3>6. Home(Stream[2]) = Home(w) + 1
      <4>1. Slot(Sector(w)) * BURST \in Nat
        BY <1>4, SlotType, Places
      <4> QED BY <4>1, <3>1, <1>4 DEF Home
    <3>7. slave'.left = BURST - Offset(Stream[2])
      BY <3>1, <3>5, <1>3, <1>4
    <3> QED BY <3>1, <3>2, <3>3, <3>5, <3>6, <3>7, <1>3 DEF Expected
  <2> QED BY <2>1, <2>2
<1>10. Wired'
  BY <1>2, <1>7, <1>8, <1>9 DEF Wired
<1>11. slave'.at # "send" /\ slave'.at # "count"
  BY <1>1 DEF NextWord, Waiting, Wired, Stations
<1>12. /\ master.at # "ask" => Quiet'
       /\ master.at = "ask" => Reading'
  BY <1>1, <1>4, <1>11, TakePosted DEF w
<1> QED BY <1>7, <1>10, <1>12 DEF InUse, cacheVars

\* the word sent is the one core 0 waits for: no fill is behind on the wire
LEMMA SendInUse ==
  ASSUME Types, InUse, on, Send(Listening), UNCHANGED <<card, cacheVars>>
  PROVE  InUse'
<1>1. Wired /\ Filed /\ slave.at = "send" /\ slave' = NextWord
  BY DEF InUse, Send
<1>2. master.at = "ask" /\ Reading
  BY <1>1 DEF InUse, Quiet, Reads
<1>3. /\ slave.left \in 1 .. BURST
      /\ slave.addr = Slot(master.lba) * BURST + (BURST - slave.left)
      /\ Taken + Len(down) = BURST - slave.left
  BY <1>1, <1>2 DEF Reading, Asked, Answering, Answered
<1>4. Stream = <<>>
  BY <1>1 DEF Wired, Expected
<1>5. /\ master.lba \in Lba /\ Slot(master.lba) \in Slots /\ BURST \in Nat
      /\ tags[Slot(master.lba)] = master.lba /\ Taken \in 0 .. BURST - 1
  <2>1. /\ <<master.first, master.n>> \in Runs
        /\ master.lba \in Run(master.first, master.n)
    BY <1>2 DEF Types
  <2>2. master.lba \in Lba
    BY <2>1, Constants DEF Runs, Run, Lba
  <2>3. tags[Slot(master.lba)] = master.lba
    BY <1>2, <2>1 DEF Reading, Resident
  <2> QED BY <2>2, <2>3, <1>2, SlotType, Constants DEF Reading
<1> DEFINE k == BURST - slave.left
           d == DataWord(master.lba, card[master.lba], k)
<1>6. k \in 0 .. BURST - 1
  BY <1>3, <1>5
<1>7. At(slave.addr) = d
  <2>1. Says(Slot(master.lba)) = master.lba /\ master.lba # Empty
    BY <1>2, <1>5 DEF Says, Empty, Lba
  <2>2. Holds(<<>>, mem, Slot(master.lba), k, d)
    BY <2>1, <1>4, <1>5, <1>6, <1>1 DEF Filed
  <2>3. d = mem[Slot(master.lba) * BURST + k]
    BY <2>2 DEF Holds
  <2>4. slave.addr \in DOMAIN mem
    BY <1>3, <1>5, <1>6, Places DEF Types
  <2> QED BY <2>3, <2>4, <1>3 DEF At
<1>8. d \in Data
  <2>1. card[master.lba] \in 0 .. VERSIONS - 1
    BY <1>5 DEF Types
  <2> QED BY <2>1, <1>5, <1>6, DataWordOf
<1>9. down \in Seq(Data) /\ down' = Append(down, d)
  BY <1>2, <1>7 DEF Send, Reply, Listening, Reading
<1> HIDE DEF d
<1>10. /\ down' \in Seq(Data) /\ Len(down') = Len(down) + 1 /\ Len(down) \in Nat
       /\ \A i \in 1 .. Len(down) : down'[i] = down[i]
       /\ down'[Len(down) + 1] = d
  BY <1>8, <1>9, AppendProperties, LenProperties
<1>11. UNCHANGED <<card, tags, on, master, out, got, mem, Stream, Taken, rx, tx>>
  BY DEF Send, cacheVars, Stream, Taken, Base
<1>12. ASSUME NEW i \in 1 .. Len(down')
       PROVE  down'[i] = DataWord(master.lba, card[master.lba], Taken + i - 1)
  <2>1. CASE i <= Len(down)
    BY <2>1, <1>2, <1>10 DEF Reading
  <2>2. CASE i = Len(down) + 1
    <3>1. Taken + i - 1 = k
      BY <2>2, <1>3, <1>5, <1>10
    <3> QED BY <2>2, <3>1, <1>10 DEF d
  <2> QED BY <2>1, <2>2, <1>10
<1>13. Taken + Len(down') = BURST - (slave.left - 1)
  <2>1. Len(down') = Len(down) + 1 /\ Len(down) \in Nat /\ Taken \in Int /\ BURST \in Nat
        /\ slave.left \in Int /\ Taken + Len(down) = BURST - slave.left
    BY <1>3, <1>5, <1>10
  <2> HIDE DEF k
  <2> QED BY <2>1
<1>14. slave' \in Stations
  BY <1>1, NextStation DEF Wired
<1>15. Expected(Stream)'
  <2>1. slave'.at \in {"idle", "send"}
    BY <1>1 DEF NextWord, Waiting, Wired, Stations
  <2> QED BY <2>1, <1>4, <1>11 DEF Expected
<1>16. Wired'
  BY <1>1, <1>11, <1>14, <1>15 DEF Wired, Parses, Begins, Continues, Asks
<1>17. Filed'
  BY <1>1, <1>11 DEF Filed, Holds, Says
<1>18. Answering' \/ Answered'
  <2>1. CASE slave.left = 1
    <3>1. slave'.at = "idle"
      BY <2>1, <1>1 DEF NextWord, Waiting
    <3>2. Taken' + Len(down') = BURST
      BY <2>1, <1>5, <1>11, <1>13
    <3> QED BY <3>1, <3>2, <1>4, <1>11 DEF Answered
  <2>2. CASE slave.left # 1
    <3>1. slave'.at = "send" /\ slave'.addr = slave.addr + 1 /\ slave'.left = slave.left - 1
      BY <2>2, <1>1 DEF NextWord, Wired, Stations
    <3>2. slave'.left \in 1 .. BURST
      BY <2>2, <3>1, <1>3, <1>5
    <3>3. slave'.addr = Slot(master.lba) * BURST + (BURST - slave'.left)
      <4>1. Slot(master.lba) * BURST \in Nat
        BY <1>5, <1>6, Places
      <4> QED BY <4>1, <3>1, <1>3, <1>5
    <3> QED BY <3>1, <3>2, <3>3, <1>11, <1>13 DEF Answering
  <2> QED BY <2>1, <2>2
<1>19. Reading'
  BY <1>2, <1>10, <1>11, <1>12, <1>18 DEF Reading, Resident, Contents
<1> QED BY <1>2, <1>11, <1>16, <1>17, <1>19 DEF InUse

-----------------------------------------------------------------------------
(* The wire and the words put. *)

LEMMA Moved ==
  ASSUME InUse, on, Stream' = Stream,
         rx' \in Seq(Streamed), tx' \in Seq(Streamed), out' \in Seq(Streamed),
         UNCHANGED <<card, mem, slave, down, tags, on, master, got>>,
         master.at \in {"idle", "card"} => out' = out,
         master.at = "ask" => \A i \in 1 .. Len(out') : out'[i] \notin Data
  PROVE  InUse'
<1>1. Wired'
  BY DEF InUse, Wired, Parses, Begins, Continues, Asks, Expected
<1>2. Filed'
  BY DEF InUse, Filed, Holds, Says
<1>3. master.at # "ask" => Quiet'
  BY DEF InUse, Quiet, Reads
<1>4. ASSUME master.at = "ask" PROVE Reading'
  <2>1. Reading
    BY <1>4 DEF InUse
  <2>2. UNCHANGED <<Taken, Base>>
    BY DEF Taken, Base
  <2>3. Asked' \/ Answering' \/ Answered'
    BY <2>1, <2>2 DEF Reading, Asked, Answering, Answered
  <2> QED BY <1>4, <2>1, <2>2, <2>3 DEF Reading, Resident, Contents
<1> QED BY <1>1, <1>2, <1>3, <1>4 DEF InUse

LEMMA ShipInUse ==
  ASSUME ~Overrun, InUse, on, Ship, UNCHANGED <<card, cacheVars>>
  PROVE  InUse'
<1>1. /\ rx \in Seq(Streamed) /\ tx \in Seq(Streamed) /\ out \in Seq(Streamed)
      /\ tx # <<>> /\ tx' = Tail(tx) /\ rx' = Append(rx, Head(tx))
      /\ UNCHANGED <<down, mem, slave>>
  BY DEF InUse, Wired, Ship
<1>2. /\ rx' \in Seq(Streamed) /\ tx' \in Seq(Streamed)
  BY <1>1, HeadFirst, AppendProperties
<1>3. Stream' = Stream
  BY <1>1, ShipStream DEF Stream, cacheVars
<1>4. master.at = "ask" => \A i \in 1 .. Len(out') : out'[i] \notin Data
  BY DEF InUse, Reading, cacheVars
<1> QED BY <1>1, <1>2, <1>3, <1>4, Moved DEF cacheVars

LEMMA PutInUse ==
  ASSUME InUse, on, Put
  PROVE  InUse'
<1>1. /\ rx \in Seq(Streamed) /\ tx \in Seq(Streamed) /\ out \in Seq(Streamed)
      /\ out # <<>> /\ tx' = Append(tx, Head(out)) /\ out' = Tail(out)
      /\ UNCHANGED <<card, mem, slave, down, tags, on, master, got, rx>>
  BY DEF InUse, Wired, Put
<1>2. /\ tx' \in Seq(Streamed) /\ out' \in Seq(Streamed) /\ rx' \in Seq(Streamed)
  BY <1>1, HeadFirst, AppendProperties
<1>3. Stream' = Stream
  <2>1. (rx \o Append(tx, Head(out))) \o Tail(out) = (rx \o tx) \o out
    <3>1. rx \in Seq(Streamed) /\ tx \in Seq(Streamed) /\ out \in Seq(Streamed) /\ out # <<>>
      BY <1>1
    <3> QED BY <3>1, PutStream
  <2>2. Stream' = (rx' \o tx') \o out'
    BY DEF Stream
  <2> QED BY <2>1, <2>2, <1>1 DEF Stream
<1>4. master.at = "ask" => \A i \in 1 .. Len(out') : out'[i] \notin Data
  <2> SUFFICES ASSUME master.at = "ask", NEW i \in 1 .. Len(out') PROVE out'[i] \notin Data
    OBVIOUS
  <2>1. \A j \in 1 .. Len(out) : out[j] \notin Data
    BY DEF InUse, Reading
  <2>2. /\ Len(out) \in Nat /\ Len(out') = Len(out) - 1
        /\ \A j \in 1 .. Len(out) - 1 : out'[j] = out[j + 1]
    BY <1>1, TailOf
  <2>3. i + 1 \in 1 .. Len(out) /\ out'[i] = out[i + 1]
    BY <2>2
  <2> QED BY <2>1, <2>3
<1>5. master.at \notin {"idle", "card"}
  BY <1>1 DEF InUse
<1> QED BY <1>1, <1>2, <1>3, <1>4, <1>5, Moved

\* the slave waits for no word that does not come
LEMMA NeverGivesUp ==
  ASSUME ~Pauses, InUse, on, GiveUp(Sending)
  PROVE  FALSE
<1>1. rx = <<>> /\ tx = <<>> /\ out = <<>> /\ slave.at \in {"count", "recv"}
  BY DEF GiveUp, Sending, InUse, Wired, Stations
<1>2. Stream = <<>>
  BY <1>1, ConcatEmptySeq, EmptySeq DEF Stream
<1> QED BY <1>1, <1>2 DEF InUse, Wired, Expected

LEMMA SlaveInUse ==
  ASSUME ~Overrun, ~Pauses, Types, InUse, on, Slave
  PROVE  InUse'
<1>1. UNCHANGED <<card, cacheVars>>
  BY DEF Slave
<1>2. CASE Ship
  BY <1>1, <1>2, ShipInUse
<1>3. CASE Serve
  BY <1>1, <1>3, ServeInUse
<1>4. CASE TakeValue
  BY <1>4 DEF TakeValue, InUse, Wired, Stations
<1>5. CASE TakeCount
  BY <1>1, <1>5, TakeCountInUse
<1>6. CASE Receive
  BY <1>1, <1>6, ReceiveInUse
<1>7. CASE Send(Listening)
  BY <1>1, <1>7, SendInUse
<1>8. CASE GiveUp(Sending)
  BY <1>8, NeverGivesUp
<1> QED BY <1>2, <1>3, <1>4, <1>5, <1>6, <1>7, <1>8 DEF Slave, SlaveNext

-----------------------------------------------------------------------------
(* Types and the handshake, with the cache in use or not.                  *)

LEMMA SlaveTypes ==
  ASSUME Types, Slave
  PROVE  Types'
<1>1. UNCHANGED <<card, tags, on, master>>
  BY DEF Slave, cacheVars
<1> DEFINE S == /\ slave = [at |-> slave.at, op |-> slave.op, addr |-> slave.addr, left |-> slave.left]
                /\ slave.at \in {"idle", "value", "count", "recv", "send"}
                /\ slave.at = "idle" => slave = Waiting
           M == DOMAIN mem = 0 .. MEM - 1 /\ mem = [a \in 0 .. MEM - 1 |-> mem[a]]
<1>2. S /\ M
  BY DEF Types
<1>3. slave.at # "idle" /\ slave' = NextWord => S'
  <2> SUFFICES ASSUME slave.at # "idle", slave' = NextWord PROVE S'
    OBVIOUS
  <2>1. CASE slave.left = 1
    BY <2>1 DEF NextWord, Waiting
  <2>2. CASE slave.left # 1
    <3>1. NextWord = [slave EXCEPT !.addr = @ + 1, !.left = @ - 1]
      BY <2>2 DEF NextWord
    <3>2. NextWord = [at |-> slave.at, op |-> slave.op,
                      addr |-> slave.addr + 1, left |-> slave.left - 1]
      BY <3>1, <1>2
    <3> QED BY <3>2, <1>2
  <2> QED BY <2>1, <2>2
<1>4. \A a, w : Store(a, w) => M'
  BY <1>2 DEF Store
<1>5. ASSUME Ship PROVE S' /\ M'
  BY <1>2, <1>5 DEF Ship
<1>6. ASSUME Serve PROVE S' /\ M'
  BY <1>2, <1>6 DEF Serve
<1>7. ASSUME TakeValue PROVE S' /\ M'
  BY <1>4, <1>7 DEF TakeValue, Waiting
<1>8. ASSUME TakeCount PROVE S' /\ M'
  <2>1. PICK n : slave' = IF n = 0 THEN Waiting
                          ELSE [slave EXCEPT !.left = n,
                                             !.at = IF slave.op = "readBurst" THEN "send" ELSE "recv"]
    BY <1>8 DEF TakeCount
  <2>2. S'
    <3>1. CASE n = 0
      BY <2>1, <3>1 DEF Waiting
    <3>2. CASE n # 0
      <4> DEFINE at == IF slave.op = "readBurst" THEN "send" ELSE "recv"
      <4>1. slave' = [at |-> at, op |-> slave.op, addr |-> slave.addr, left |-> n]
        BY <2>1, <3>2, <1>2
      <4> QED BY <4>1
    <3> QED BY <3>1, <3>2
  <2> QED BY <2>2, <1>2, <1>8 DEF TakeCount
<1>9. ASSUME Receive PROVE S' /\ M'
  BY <1>3, <1>4, <1>9 DEF Receive
<1>10. ASSUME Send(Listening) PROVE S' /\ M'
  BY <1>2, <1>3, <1>10 DEF Send
<1>11. ASSUME GiveUp(Sending) PROVE S' /\ M'
  BY <1>2, <1>11 DEF GiveUp, Waiting
<1>12. S' /\ M'
  BY <1>5, <1>6, <1>7, <1>8, <1>9, <1>10, <1>11, <1>2 DEF Slave, SlaveNext
<1> QED BY <1>1, <1>12 DEF Types

LEMMA SlaveBooting ==
  ASSUME Types, Booting, Slave
  PROVE  Booting'
<1>1. UNCHANGED <<card, tags, on, master, out, got>>
  BY DEF Slave, cacheVars
<1>2. ASSUME master.at = "ping"
      PROVE  /\ slave'.at = "idle"
             /\ \/ out' = <<Req("ping", 0)>> /\ tx' = <<>> /\ rx' = <<>> /\ down' = <<>>
                \/ out' = <<>> /\ tx' = <<Req("ping", 0)>> /\ rx' = <<>> /\ down' = <<>>
                \/ out' = <<>> /\ tx' = <<>> /\ rx' = <<Req("ping", 0)>> /\ down' = <<>>
                \/ out' = <<>> /\ tx' = <<>> /\ rx' = <<>> /\ down' = <<Magic>>
  <2>1. slave.at = "idle"
    BY <1>2 DEF Booting
  <2>2. ~TakeValue /\ ~TakeCount /\ ~Receive /\ ~Send(Listening) /\ ~GiveUp(Sending)
    BY <2>1 DEF TakeValue, TakeCount, Receive, Send, GiveUp
  <2>3. CASE Ship
    <3>1. /\ tx = <<Req("ping", 0)>> /\ rx = <<>> /\ out = <<>> /\ down = <<>>
      BY <2>3, <1>2 DEF Booting, Ship
    <3>2. tx' = <<>> /\ rx' = <<Req("ping", 0)>>
      BY <3>1, <2>3, Constants DEF Ship
    <3> QED BY <3>1, <3>2, <2>1, <2>3, <1>1 DEF Ship
  <2>4. CASE Serve
    <3>1. tx = <<>> /\ rx = <<Req("ping", 0)>> /\ out = <<>> /\ down = <<>>
      BY <2>4, <1>2 DEF Booting, Serve, Takes
    <3>2. Head(rx) = Req("ping", 0) /\ Tail(rx) = <<>>
      BY <3>1
    <3>3. Requests(Req("ping", 0)) = {Req("ping", 0)}
      BY DEF Requests, Operations, Req
    <3>4. slave' = slave /\ Reply(Magic)
      <4>1. \A req \in Requests(Head(rx)) : req[1] = "ping"
        BY <3>2, <3>3 DEF Req
      <4> QED BY <4>1, <2>4 DEF Serve
    <3>5. down' = <<Magic>>
      BY <3>1, <3>4, Constants DEF Reply
    <3> QED BY <3>1, <3>2, <3>4, <3>5, <2>1, <2>4, <1>1 DEF Serve, Takes
  <2> QED BY <2>2, <2>3, <2>4 DEF Slave, SlaveNext
<1> QED BY <1>1, <1>2 DEF Booting

-----------------------------------------------------------------------------
(* Core 0: the boot, and the transfers given up.                           *)

LEMMA RunFacts ==
  ASSUME NEW f, NEW n, <<f, n>> \in Runs
  PROVE  /\ f \in Lba /\ n \in Nat /\ n >= 1 /\ f \in Run(f, n)
         /\ \A l \in Run(f, n) : /\ l \in Lba /\ l \in Nat /\ f <= l
                                 /\ l + 1 < f + n => l + 1 \in Run(f, n)
<1>1. f \in Lba /\ n \in 1 .. RUN /\ f + n <= SECTORS /\ RUN \in Nat /\ SECTORS \in Nat
  BY DeviceAssumption DEF Runs
<1> QED BY <1>1 DEF Run, Lba

\* the call core 0 is in
LEMMA InRun ==
  ASSUME Types, master.at \in {"ask", "card", "fill"}
  PROVE  /\ <<master.first, master.n>> \in Runs
         /\ master.lba \in Run(master.first, master.n)
         /\ master.lba \in Lba
BY RunFacts DEF Types

LEMMA IdleType == Idle = [at |-> "idle", first |-> 0, n |-> 1, lba |-> 0] /\ 0 \in Lba /\ 1 \in Nat
<1>1. 0 \in Lba /\ 1 \in Nat
  BY DeviceAssumption DEF Lba
<1>2. Idle = [at |-> "idle", first |-> 0, n |-> 1, lba |-> 0]
  BY DEF Idle, Core0
<1> QED BY <1>1, <1>2

LEMMA RebootInv ==
  ASSUME Inv, Reboot
  PROVE  Inv'
<1>1. master' = [at |-> "boot", first |-> 0, n |-> 1, lba |-> 0] /\ 0 \in Lba /\ 1 \in Nat
  BY IdleType DEF Reboot, Core0
<1>2. /\ tags' = [s \in Slots |-> Empty] /\ on' = FALSE
      /\ UNCHANGED <<card, mem, slave>>
  BY DEF Reboot, Reuse
<1>3. Types'
  <2>1. /\ tags' \in [Slots -> Lba \cup {Empty}]
        /\ \A s \in Slots : tags'[s] = Empty
    BY <1>2
  <2> QED BY <1>1, <1>2, <2>1 DEF Inv, Types
<1>4. Booting'
  BY <1>1, <1>2 DEF Booting, Reboot
<1> QED BY <1>1, <1>2, <1>3, <1>4 DEF Inv, InUse

LEMMA StrayInv ==
  ASSUME Inv, Stray
  PROVE  Inv'
<1>1. master.at = "boot" /\ ~on
  BY DEF Inv, Booting, Stray
<1>2. UNCHANGED <<card, tx, down, mem, slave, tags, on, master, out, got>>
  BY DEF Stray, cacheVars
<1>3. Types'
  BY <1>2 DEF Inv, Types
<1>4. Booting'
  BY <1>1, <1>2 DEF Inv, Booting
<1> QED BY <1>1, <1>2, <1>3, <1>4 DEF Inv, InUse

LEMMA SyncInv ==
  ASSUME Inv, Sync
  PROVE  Inv'
<1>1. /\ master.at = "boot" /\ ~on /\ got = <<>> /\ out = <<>> /\ \A s \in Slots : tags[s] = Empty
      /\ rx = <<>> /\ slave.at = "idle"
      /\ UNCHANGED <<card, rx, mem, slave, tags, on, got>>
  BY DEF Inv, Booting, Sync
<1>2. master' \in {Core0("ping", 0, 1, 0), Idle}
  BY DEF Sync
<1>3. master' \in {[at |-> "ping", first |-> 0, n |-> 1, lba |-> 0], Idle}
  BY <1>2 DEF Core0
<1>4. Types'
  BY <1>1, <1>3, IdleType DEF Inv, Types
<1>5. Booting'
  <2>1. CASE tx' = <<>> /\ down' = <<>> /\ out' = <<Req("ping", 0)>>
             /\ master' = Core0("ping", 0, 1, 0)
    BY <1>1, <2>1 DEF Booting, Core0
  <2>2. CASE master' = Idle
    BY <1>1, <2>2, IdleType DEF Booting
  <2> QED BY <2>1, <2>2 DEF Sync
<1> QED BY <1>1, <1>3, <1>4, <1>5, IdleType DEF Inv, InUse

\* the answer to the ping is the magic word: from here on the cache is in use,
\* with nothing on the wire and nothing in it
LEMMA PongInv ==
  ASSUME Inv, Pong
  PROVE  Inv'
<1>1. /\ tx = <<>> /\ rx = <<>> /\ out = <<>> /\ down = <<Magic>> /\ slave.at = "idle"
      /\ ~on /\ got = <<>> /\ \A s \in Slots : tags[s] = Empty
  BY DEF Inv, Booting, Pong
<1>2. /\ down' = <<>> /\ master' = Idle
      /\ UNCHANGED <<card, tx, rx, mem, slave, tags, out, got>>
  BY <1>1 DEF Pong
<1>3. Types'
  <2>1. on' \in BOOLEAN
    BY DEF Pong
  <2> QED BY <1>2, <2>1, IdleType DEF Inv, Types
<1>4. Booting'
  BY <1>2, IdleType DEF Booting
<1>5. InUse'
  <2>1. Stream' = <<>>
    BY <1>1, <1>2, ConcatEmptySeq, EmptySeq DEF Stream
  <2>2. slave = Waiting
    BY <1>1 DEF Inv, Types
  <2>3. Wired'
    <3>1. Parses(Stream)'
      BY <2>1 DEF Parses
    <3>2. Expected(Stream)'
      BY <2>1, <1>1, <1>2 DEF Expected
    <3> QED BY <3>1, <3>2, <2>2, <1>1, <1>2, EmptySeq DEF Wired, Stations, Waiting
  <2>4. Filed'
    BY <1>1, <1>2, IdleType DEF Filed, Says
  <2>5. Quiet'
    BY <2>1, <1>1, <1>2 DEF Quiet, Reads
  <2> QED BY <2>3, <2>4, <2>5, <1>1, <1>2, IdleType DEF InUse
<1> QED BY <1>2, <1>3, <1>4, <1>5, IdleType DEF Inv

LEMMA AbandonInv ==
  ASSUME Inv, Abandon
  PROVE  Inv'
<1>1. /\ on' = FALSE /\ out' = <<>> /\ got' = <<>>
      /\ UNCHANGED <<card, ans, tx, rx, down, mem, slave, tags>>
  BY DEF Abandon, linkVars
<1>2. CASE master.at = "ask"
  <2>1. master' = [at |-> "card", first |-> master.first, n |-> master.n, lba |-> master.first]
    BY <1>2 DEF Abandon, Inv, Types
  <2>2. <<master.first, master.n>> \in Runs /\ master.first \in Run(master.first, master.n)
    BY <1>2, InRun, RunFacts DEF Inv
  <2>3. Types'
    BY <2>1, <2>2, <1>1 DEF Inv, Types
  <2>4. Booting'
    BY <2>1 DEF Booting
  <2> QED BY <2>1, <2>3, <2>4, <1>1 DEF Inv, InUse
<1>3. CASE master.at # "ask"
  <2>1. master' = Idle
    BY <1>3 DEF Abandon
  <2>2. Types'
    BY <2>1, <1>1, IdleType DEF Inv, Types
  <2>3. Booting'
    BY <2>1, IdleType DEF Booting
  <2> QED BY <2>1, <2>2, <2>3, <1>1, IdleType DEF Inv, InUse
<1> QED BY <1>2, <1>3

LEMMA PutInv ==
  ASSUME Inv, Put
  PROVE  Inv'
<1>1. /\ out # <<>> /\ tx' = Append(tx, Head(out)) /\ out' = Tail(out)
      /\ UNCHANGED <<card, ans, rx, down, mem, slave, tags, on, master, got>>
  BY DEF Put
<1>2. Types'
  BY <1>1 DEF Inv, Types
<1>3. Booting'
  <2>1. CASE master.at = "ping"
    <3>1. out = <<Req("ping", 0)>> /\ tx = <<>> /\ rx = <<>> /\ down = <<>>
      BY <2>1, <1>1 DEF Inv, Booting
    <3>2. out' = <<>> /\ tx' = <<Req("ping", 0)>>
      BY <3>1, <1>1
    <3> QED BY <3>1, <3>2, <2>1, <1>1 DEF Inv, Booting
  <2>2. CASE master.at # "ping"
    BY <2>2, <1>1 DEF Inv, Booting
  <2> QED BY <2>1, <2>2
<1>4. InUse'
  BY PutInUse, <1>1 DEF Inv, InUse
<1> QED BY <1>1, <1>2, <1>3, <1>4 DEF Inv

-----------------------------------------------------------------------------
(* Core 0: reads, fills and writes.                                        *)

\* starting to fetch sector l, with nothing on the wire behind the stream
LEMMA AskStarts ==
  ASSUME Types, Wired, Filed, Reads, on, out = <<>>, down' = <<>>,
         NEW l \in Lba, \A s \in Slots : Says(s)' # Empty => Says(s)' = Says(s),
         out' = Ask(l), master'.at = "ask", master'.lba = l,
         UNCHANGED <<card, rx, tx, mem, slave, tags>>
  PROVE  /\ Wired' /\ Filed'
         /\ Taken' = 0 => Asked'
         /\ \A i \in 1 .. Len(out') : out'[i] \notin Data
<1> DEFINE S == Stream
           W == Ask(l)
<1>1. S \in Seq(Streamed) /\ Parses(S) /\ Expected(S)
  BY StreamType DEF Wired
<1>2. /\ W \in Seq(Streamed) /\ Len(W) = 2
      /\ W[1] = Req("readBurst", Slot(l) * BURST) /\ W[1] \in Orders
      /\ Parses(W)
      /\ \A i \in 1 .. 2 : W[i] \notin Data
  BY AskWords
<1>3. Stream' = S \o W
  <2>1. rx \o tx \in Seq(Streamed)
    BY ConcatProperties DEF Wired
  <2>2. (rx \o tx) \o <<>> = rx \o tx
    BY <2>1, ConcatEmptySeq
  <2>3. S = rx \o tx
    BY <2>2 DEF Stream
  <2> QED BY <2>3 DEF Stream
<1> HIDE DEF S, W
<1>4. Parses(S \o W)
  <2>1. \A i \in 1 .. Len(S) : Kind(S[i]) # "readBurst"
    BY DEF Reads, S
  <2> QED BY <2>1, <1>1, <1>2, ParsesBehind
<1>5. Expected(S \o W)
  <2>1. slave.at # "send" /\ ~(slave.at = "count" /\ slave.op = "readBurst")
    BY DEF Reads
  <2> QED BY <2>1, <1>1, <1>2, ExpectedBehind
<1>6. Wired'
  <2>1. Expected(Stream)' /\ Parses(Stream)'
    BY <1>3, <1>4, <1>5 DEF Expected, Parses, Begins, Continues, Asks
  <2> QED BY <2>1, <1>2 DEF Wired, W
<1>7. Filed'
  <2> SUFFICES ASSUME NEW s \in Slots, Says(s)' # Empty, NEW k \in 0 .. BURST - 1
               PROVE  Holds(Stream', mem', s, k, DataWord(Says(s)', card'[Says(s)'], k))
    BY DEF Filed, Holds
  <2> DEFINE d == DataWord(Says(s), card[Says(s)], k)
  <2>1. Says(s)' = Says(s) /\ Says(s) # Empty
    OBVIOUS
  <2>2. Holds(S, mem, s, k, d)
    BY <2>1 DEF Filed, S
  <2>3. \A j \in 1 .. Len(W) : ~Aims(W[j], s, k)
    BY <1>2 DEF Aims
  <2> HIDE DEF d
  <2>4. Holds(S \o W, mem, s, k, d)
    BY <2>2, <2>3, <1>1, <1>2, HoldsBehind
  <2> QED BY <2>1, <2>4, <1>3 DEF d
<1>8. Taken' = 0 => Asked'
  <2>1. /\ Len(S) \in Nat /\ Len(S \o W) = Len(S) + 2
        /\ (S \o W)[Len(S) + 1] = W[1]
    <3>1. S \in Seq(Streamed) /\ W \in Seq(Streamed) /\ Len(W) = 2
      BY <1>1, <1>2
    <3>2. /\ Len(S) \in Nat /\ Len(S \o W) = Len(S) + Len(W)
          /\ \A i \in 1 .. Len(W) : (S \o W)[Len(S) + i] = W[i]
      BY <3>1, Behind
    <3> QED BY <3>1, <3>2
  <2>2. Len(Stream') >= 2 /\ Stream'[Len(Stream') - 1] = W[1]
    <3>1. Len(Stream') - 1 = Len(S) + 1
      BY <2>1, <1>3
    <3> QED BY <3>1, <2>1, <1>3
  <2>3. slave'.at # "send" /\ ~(slave'.at = "count" /\ slave'.op = "readBurst")
    BY DEF Reads
  <2> QED BY <2>2, <2>3, <1>2 DEF Asked
<1>9. \A i \in 1 .. Len(out') : out'[i] \notin Data
  BY <1>2 DEF W
<1> QED BY <1>6, <1>7, <1>8, <1>9

\* starting to copy sector l to its slot
LEMMA FillStarts ==
  ASSUME Types, Wired, Filed, Quiet, on, out = <<>>, NEW l \in Lba,
         \A s \in Slots : s # Slot(l) /\ Says(s)' # Empty => Says(s)' = Says(s),
         Says(Slot(l))' = l,
         out' = Fill(l), master'.at = "fill", on',
         UNCHANGED <<card, rx, tx, down, mem, slave, got>>
  PROVE  InUse'
<1> DEFINE S == Stream
           F == Fill(l)
<1>1. S \in Seq(Streamed) /\ Parses(S) /\ Expected(S)
  BY StreamType DEF Wired
<1>2. card \in [Lba -> 0 .. VERSIONS - 1] /\ BURST \in Nat
  BY Constants DEF Types
<1>3. /\ F \in Seq(Streamed) /\ Len(F) = BURST + 2 /\ F[1] \in Orders
      /\ Parses(F) /\ \A i \in 1 .. BURST + 2 : Kind(F[i]) # "readBurst"
  BY <1>2, FillWords, FillParses
<1>4. Stream' = S \o F
  <2>1. rx \o tx \in Seq(Streamed)
    BY ConcatProperties DEF Wired
  <2>2. (rx \o tx) \o <<>> = rx \o tx
    BY <2>1, ConcatEmptySeq
  <2>3. S = rx \o tx
    BY <2>2 DEF Stream
  <2> QED BY <2>3 DEF Stream
<1>5. /\ \A i \in 1 .. Len(S) : Kind(S[i]) # "readBurst"
      /\ slave.at # "send" /\ ~(slave.at = "count" /\ slave.op = "readBurst")
  BY DEF Quiet, Reads
<1> HIDE DEF S, F
<1>6. Len(F) >= 1
  BY <1>2, <1>3
<1>7. Parses(S \o F) /\ Expected(S \o F)
  BY <1>1, <1>3, <1>5, <1>6, ParsesBehind, ExpectedBehind
<1>8. Wired'
  <2>1. Expected(Stream)' /\ Parses(Stream)'
    BY <1>4, <1>7 DEF Expected, Parses, Begins, Continues, Asks
  <2> QED BY <2>1, <1>3 DEF Wired, F
<1>9. Filed'
  <2> SUFFICES ASSUME NEW s \in Slots, Says(s)' # Empty, NEW k \in 0 .. BURST - 1
               PROVE  Holds(Stream', mem', s, k, DataWord(Says(s)', card'[Says(s)'], k))
    BY DEF Filed, Holds
  <2>1. CASE s = Slot(l)
    <3>1. Holds(S \o F, mem, s, k, DataWord(l, card[l], k))
      BY <2>1, <1>1, <1>2, FillHolds DEF F
    <3> QED BY <3>1, <2>1, <1>4
  <2>2. CASE s # Slot(l)
    <3> DEFINE d == DataWord(Says(s), card[Says(s)], k)
    <3>1. Says(s)' = Says(s) /\ Says(s) # Empty
      BY <2>2
    <3>2. Holds(S, mem, s, k, d)
      BY <3>1 DEF Filed, S
    <3> HIDE DEF d
    <3>3. Holds(S \o F, mem, s, k, d)
      BY <3>2, <2>2, <1>1, <1>2, FillHolds DEF F
    <3> QED BY <3>1, <3>3, <1>4 DEF d
  <2> QED BY <2>1, <2>2
<1>10. Quiet'
  <2>1. /\ Len(S) \in Nat /\ Len(S \o F) = Len(S) + Len(F)
        /\ \A i \in 1 .. Len(S) : (S \o F)[i] = S[i]
        /\ \A i \in 1 .. Len(F) : (S \o F)[Len(S) + i] = F[i]
    BY <1>1, <1>3, Behind
  <2>2. ASSUME NEW i \in 1 .. Len(S \o F) PROVE Kind((S \o F)[i]) # "readBurst"
    <3>1. CASE i <= Len(S)
      BY <3>1, <2>1, <1>5
    <3>2. CASE i > Len(S)
      <4>1. i - Len(S) \in 1 .. Len(F) /\ Len(S) + (i - Len(S)) = i
        BY <3>2, <2>1, <1>2, <1>3
      <4>2. (S \o F)[i] = F[i - Len(S)]
        BY <4>1, <2>1
      <4> QED BY <4>1, <4>2, <1>3
    <3> QED BY <3>1, <3>2, <2>1, <1>2, <1>3
  <2>3. Reads'
    BY <2>2, <1>4, <1>5 DEF Reads
  <2> QED BY <2>3 DEF Quiet
<1> QED BY <1>8, <1>9, <1>10 DEF InUse

\* core 0 goes on with the wire as it is
LEMMA GoesOn ==
  ASSUME InUse, on, Quiet, UNCHANGED <<rx, tx, out, down, got, mem, slave>>,
         \A s \in Slots : Says(s)' # Empty =>
            Says(s)' = Says(s) /\ card'[Says(s)] = card[Says(s)],
         master'.at # "ask", master'.at \in {"idle", "card"} => out = <<>>
  PROVE  InUse'
<1>1. Stream' = Stream
  BY DEF Stream
<1>2. Wired'
  BY <1>1 DEF InUse, Wired, Parses, Begins, Continues, Asks, Expected
<1>3. Filed'
  <2> SUFFICES ASSUME NEW s \in Slots, Says(s)' # Empty, NEW k \in 0 .. BURST - 1
               PROVE  Holds(Stream', mem', s, k, DataWord(Says(s)', card'[Says(s)'], k))
    BY DEF Filed, Holds
  <2>1. Says(s)' = Says(s) /\ card'[Says(s)] = card[Says(s)] /\ Says(s) # Empty
    OBVIOUS
  <2>2. Holds(Stream, mem, s, k, DataWord(Says(s), card[Says(s)], k))
    BY <2>1 DEF InUse, Filed
  <2> QED BY <2>1, <2>2, <1>1
<1>4. Quiet'
  BY <1>1 DEF Quiet, Reads
<1> QED BY <1>2, <1>3, <1>4 DEF InUse

LEMMA DiskReadInv ==
  ASSUME Inv, NEW l, NEW n, <<l, n>> \in Runs, DiskRead(l, n)
  PROVE  Inv'
<1>1. /\ master.at = "idle" /\ l \in Lba /\ l \in Nat /\ n \in Nat /\ l \in Run(l, n)
      /\ UNCHANGED <<card, rx, tx, down, mem, slave, tags, on, got>>
  BY RunFacts DEF DiskRead, Reuse, linkVars
<1>2. CASE on /\ Resident(l, n)
  <2>1. master' = [at |-> "ask", first |-> l, n |-> n, lba |-> l] /\ out' = Ask(l)
    BY <1>2 DEF DiskRead, Core0
  <2>2. Types'
    BY <1>1, <2>1 DEF Inv, Types
  <2>3. Booting'
    BY <2>1 DEF Booting
  <2>4. Wired /\ Filed /\ Quiet /\ out = <<>>
    BY <1>1, <1>2 DEF Inv, InUse
  <2>5. Taken' = 0
    <3>1. got' = <<>> /\ Len(got') = 0
      BY <2>4, <1>1 DEF Quiet
    <3>2. Base' = 0
      <4>1. Base' = (l - l) * BURST
        BY <2>1 DEF Base
      <4>2. l - l = 0 /\ 0 * BURST = 0
        BY <1>1, Constants
      <4> QED BY <4>1, <4>2
    <3> QED BY <3>1, <3>2 DEF Taken
  <2>6. /\ Wired' /\ Filed'
        /\ Taken' = 0 => Asked'
        /\ \A i \in 1 .. Len(out') : out'[i] \notin Data
    <3>1. \A s \in Slots : Says(s)' # Empty => Says(s)' = Says(s)
      BY <1>1, <2>1 DEF Says
    <3>2. master'.at = "ask" /\ master'.lba = l
      BY <2>1
    <3>3. down' = <<>> /\ Reads
      BY <2>4, <1>1 DEF Quiet
    <3> QED BY <3>1, <3>2, <3>3, <2>1, <2>4, <1>1, <1>2, AskStarts DEF Inv
  <2>7. Reading'
    <3>1. Resident(master.first, master.n)'
      BY <1>1, <1>2, <2>1 DEF Resident
    <3>2. got' = <<>> /\ down' = <<>>
      BY <1>1, <2>4 DEF Quiet
    <3>3. Taken' \in 0 .. BURST - 1
      BY <2>5, Constants
    <3> QED BY <3>1, <3>2, <3>3, <2>5, <2>6 DEF Reading
  <2> QED BY <2>1, <2>2, <2>3, <2>6, <2>7, <1>1, <1>2 DEF Inv, InUse
<1>3. CASE ~(on /\ Resident(l, n))
  <2>1. master' = [at |-> "card", first |-> l, n |-> n, lba |-> l] /\ out' = out
    BY <1>3 DEF DiskRead, Core0
  <2>2. Types'
    BY <1>1, <2>1 DEF Inv, Types
  <2>3. Booting'
    BY <2>1 DEF Booting
  <2>4. ASSUME on PROVE InUse'
    <3>1. Quiet /\ out = <<>> /\ InUse
      BY <1>1, <2>4 DEF Inv, InUse
    <3>2. \A s \in Slots : Says(s)' # Empty =>
             Says(s)' = Says(s) /\ card'[Says(s)] = card[Says(s)]
      BY <1>1, <2>1 DEF Says
    <3> QED BY <3>1, <3>2, <2>1, <2>4, <1>1, GoesOn
  <2>5. InUse'
    BY <2>4, <1>1 DEF InUse
  <2> QED BY <2>1, <2>2, <2>3, <2>5 DEF Inv
<1> QED BY <1>2, <1>3

LEMMA CardReadInv ==
  ASSUME Inv, CardRead
  PROVE  Inv'
<1>1. /\ master.at = "card"
      /\ UNCHANGED <<card, rx, tx, down, mem, slave, tags, on, got>>
  BY DEF CardRead, ReadSectors, linkVars
<1>2. /\ <<master.first, master.n>> \in Runs /\ master.first \in Lba
      /\ master.first \in Run(master.first, master.n)
  BY <1>1, InRun, RunFacts DEF Inv
<1>3. CASE on /\ out' = Fill(master.first)
           /\ master' = [master EXCEPT !.at = "fill", !.lba = master.first]
  <2>1. master' = [at |-> "fill", first |-> master.first, n |-> master.n, lba |-> master.first]
    BY <1>3 DEF Inv, Types
  <2>2. Types'
    BY <1>1, <1>2, <2>1 DEF Inv, Types
  <2>3. Booting'
    BY <2>1 DEF Booting
  <2>4. Types /\ Wired /\ Filed /\ Quiet /\ out = <<>>
    BY <1>1, <1>3 DEF Inv, InUse
  <2>5. \A s \in Slots : s # Slot(master.first) /\ Says(s)' # Empty => Says(s)' = Says(s)
    BY <1>1, <2>1 DEF Says
  <2>6. Says(Slot(master.first))' = master.first
    BY <2>1 DEF Says
  <2>7. InUse'
    <3> DEFINE l == master.first
    <3>1. l \in Lba /\ out' = Fill(l) /\ master'.at = "fill" /\ on'
      BY <1>1, <1>2, <1>3, <2>1
    <3> QED BY <3>1, <1>1, <1>3, <2>4, <2>5, <2>6, FillStarts
  <2> QED BY <2>1, <2>2, <2>3, <2>7, <1>1, <1>3 DEF Inv
<1>4. CASE master' = Idle /\ out' = out
  <2>1. Types'
    BY <1>1, <1>4, IdleType DEF Inv, Types
  <2>2. Booting'
    BY <1>4, IdleType DEF Booting
  <2>3. ASSUME on PROVE InUse'
    <3>1. Quiet /\ out = <<>> /\ InUse
      BY <1>1, <2>3 DEF Inv, InUse
    <3>2. \A s \in Slots : Says(s)' # Empty =>
             Says(s)' = Says(s) /\ card'[Says(s)] = card[Says(s)]
      BY <1>1, <1>4, IdleType DEF Says
    <3> QED BY <3>1, <3>2, <1>1, <1>4, <2>3, IdleType, GoesOn
  <2>4. InUse'
    BY <2>3, <1>1 DEF InUse
  <2> QED BY <2>1, <2>2, <2>4, <1>4, IdleType DEF Inv
<1> QED BY <1>3, <1>4 DEF CardRead

\* all words of the sector are on the wire: the slot counts as its own
LEMMA FilledInv ==
  ASSUME Inv, Filled
  PROVE  Inv'
<1>1. /\ master.at = "fill" /\ on /\ out = <<>>
      /\ tags' = [tags EXCEPT ![Slot(master.lba)] = master.lba]
      /\ UNCHANGED <<card, rx, tx, down, mem, slave, on, got>>
  BY DEF Inv, Filled, linkVars
<1>2. /\ <<master.first, master.n>> \in Runs /\ master.first \in Lba /\ master.n \in Nat
      /\ master.lba \in Run(master.first, master.n) /\ master.lba \in Lba
      /\ master.lba \in Nat
      /\ Slot(master.lba) \in Slots
      /\ More => master.lba + 1 \in Run(master.first, master.n) /\ master.lba + 1 \in Lba
  BY <1>1, InRun, RunFacts, SlotType DEF Inv, More
<1>3. Types /\ Wired /\ Filed /\ Quiet /\ InUse
  BY <1>1 DEF Inv, InUse
<1>4. /\ tags' \in [Slots -> Lba \cup {Empty}]
      /\ \A s \in Slots : tags'[s] # Empty => Slot(tags'[s]) = s
      /\ \A s \in Slots : tags'[s] = Says(s)
  BY <1>1, <1>2, <1>3 DEF Types, Says
<1>5. CASE More
  <2>0. PICK l : l = master.lba + 1
    OBVIOUS
  <2>1. master' = [at |-> "fill", first |-> master.first, n |-> master.n, lba |-> l]
        /\ out' = Fill(l)
    BY <2>0, <1>1, <1>3, <1>5 DEF Filled, Onwards, Types
  <2>2. l \in Lba /\ l \in Run(master.first, master.n)
    BY <2>0, <1>2, <1>5
  <2>3. Types'
    BY <1>1, <1>2, <1>3, <1>4, <2>1, <2>2 DEF Types
  <2>4. Booting'
    BY <2>1 DEF Booting
  <2>5. /\ \A s \in Slots : s # Slot(l) /\ Says(s)' # Empty => Says(s)' = Says(s)
        /\ Says(Slot(l))' = l
    <3>1. master'.at = "fill" /\ master'.lba = l
      BY <2>1
    <3>2. \A s \in Slots : Says(s)' = IF Slot(l) = s THEN l ELSE tags'[s]
      BY <3>1 DEF Says
    <3>3. Slot(l) \in Slots
      BY <2>2, SlotType
    <3> QED BY <3>2, <3>3, <1>4
  <2>6. master'.at = "fill" /\ on'
    BY <1>1, <2>1
  <2>7. InUse'
    <3>1. out' = Fill(l) /\ on /\ out = <<>> /\ l \in Lba
          /\ UNCHANGED <<card, rx, tx, down, mem, slave, got>>
      BY <2>1, <2>2, <1>1
    <3> QED BY <3>1, <2>5, <2>6, <1>3, FillStarts
  <2> QED BY <2>3, <2>4, <2>6, <2>7 DEF Inv
<1>6. CASE ~More
  <2>1. master' = Idle /\ out' = out
    BY <1>6 DEF Filled
  <2>2. Types'
    BY <1>1, <1>3, <1>4, <2>1, IdleType DEF Types
  <2>3. Booting'
    BY <2>1, IdleType DEF Booting
  <2>4. \A s \in Slots : Says(s)' # Empty =>
           Says(s)' = Says(s) /\ card'[Says(s)] = card[Says(s)]
    BY <2>1, <1>1, <1>4, IdleType DEF Says
  <2>5. InUse'
    BY <2>1, <2>4, <1>1, <1>3, IdleType, GoesOn
  <2> QED BY <2>1, <2>2, <2>3, <2>5, IdleType DEF Inv
<1> QED BY <1>5, <1>6

\* what a write may have changed is not resident any more
LEMMA DiskWriteInv ==
  ASSUME Inv, NEW l, NEW n, <<l, n>> \in Runs, DiskWrite(l, n)
  PROVE  Inv'
<1>1. /\ master.at = "idle"
      /\ UNCHANGED <<rx, tx, down, mem, slave, on, master, out, got>>
  BY DEF DiskWrite, linkVars
<1>2. PICK reached \in SUBSET Run(l, n) :
         card' = [s \in Lba |-> IF s \in reached THEN (card[s] + 1) % VERSIONS ELSE card[s]]
  BY DEF DiskWrite, WriteSectors
<1>3. card' \in [Lba -> 0 .. VERSIONS - 1]
  <2>1. \A s \in Lba : card[s] \in 0 .. VERSIONS - 1
    BY DEF Inv, Types
  <2>2. \A v \in 0 .. VERSIONS - 1 : (v + 1) % VERSIONS \in 0 .. VERSIONS - 1
    BY Constants
  <2> QED BY <2>1, <2>2, <1>2
<1>4. /\ tags' \in [Slots -> Lba \cup {Empty}]
      /\ \A s \in Slots : tags'[s] = Empty \/ tags'[s] = tags[s]
      /\ on => \A s \in Slots : tags'[s] # Empty => tags[s] \notin Run(l, n)
  BY DEF DiskWrite, Invalidate, Inv, Types
<1>5. Types'
  BY <1>1, <1>3, <1>4 DEF Inv, Types
<1>6. Booting'
  BY <1>1 DEF Inv, Booting
<1>7. ASSUME on PROVE InUse'
  <2>1. Quiet /\ out = <<>> /\ InUse
    BY <1>1, <1>7 DEF Inv, InUse
  <2>2. \A s \in Slots : Says(s)' # Empty =>
           Says(s)' = Says(s) /\ card'[Says(s)] = card[Says(s)]
    <3> SUFFICES ASSUME NEW s \in Slots, Says(s)' # Empty
                 PROVE  Says(s)' = Says(s) /\ card'[Says(s)] = card[Says(s)]
      OBVIOUS
    <3>1. Says(s)' = tags'[s] /\ Says(s) = tags[s]
      BY <1>1 DEF Says
    <3>2. tags[s] = tags'[s] /\ tags[s] \notin Run(l, n) /\ tags[s] \in Lba
      BY <3>1, <1>4, <1>7 DEF Inv, Types
    <3> QED BY <3>1, <3>2, <1>2
  <2> QED BY <2>1, <2>2, <1>1, <1>7, GoesOn
<1>8. InUse'
  BY <1>7, <1>1 DEF InUse
<1> QED BY <1>1, <1>5, <1>6, <1>8 DEF Inv

-----------------------------------------------------------------------------
(* Core 0: a word of the burst is taken. *)

LEMMA Quotients ==
  ASSUME NEW q \in Nat, NEW t \in 0 .. BURST - 1
  PROVE  /\ q * BURST \in Nat /\ (q + 1) * BURST = q * BURST + BURST
         /\ (q * BURST + t) \div BURST = q
         /\ (q * BURST + t) % BURST = t
         /\ (q * BURST + (t + 1)) % BURST = 0 <=> t + 1 = BURST
<1>1. BURST \in Nat /\ BURST > 0
  BY Constants
<1>2. \A r \in Nat, u \in 0 .. BURST - 1 :
         (r * BURST + u) \div BURST = r /\ (r * BURST + u) % BURST = u
  BY <1>1
<1>3. q * BURST \in Nat /\ (q + 1) * BURST = q * BURST + BURST
  BY <1>1
<1>4. (q * BURST + (t + 1)) % BURST = 0 <=> t + 1 = BURST
  <2>1. CASE t + 1 = BURST
    <3>1. q * BURST + (t + 1) = (q + 1) * BURST + 0
      BY <2>1, <1>1, <1>3
    <3>2. ((q + 1) * BURST + 0) % BURST = 0
      BY <1>1, <1>2
    <3> QED BY <3>1, <3>2, <2>1
  <2>2. CASE t + 1 # BURST
    <3>1. t + 1 \in 0 .. BURST - 1 /\ t + 1 # 0
      BY <2>2, <1>1
    <3> QED BY <3>1, <2>2, <1>2
  <2> QED BY <2>1, <2>2
<1> QED BY <1>1, <1>2, <1>3, <1>4

\* what core 0 has of the run with the word at the head of its FIFO
Took == Append(got, Head(down))
Last == Len(Took) % BURST = 0

\* the word is the next one of the run, and the last one of its sector when
\* the slave has nothing left to send
LEMMA GetWord ==
  ASSUME Inv, Get
  PROVE  /\ on /\ Reading
         /\ <<master.first, master.n>> \in Runs
         /\ Base \in Nat /\ Len(got) \in Nat /\ Len(got) = Base + Taken
         /\ Took \in Seq(Data) /\ Len(Took) = Len(got) + 1
         /\ Len(Took) <= master.n * BURST
         /\ \A i \in 1 .. Len(Took) : Took[i] = Contents(master.first, master.n)[i]
         /\ Last <=> Taken + 1 = BURST
         /\ down' \in Seq(Data) /\ Len(down) \in Nat /\ Len(down') = Len(down) - 1
         /\ \A i \in 1 .. Len(down') :
               down'[i] = DataWord(master.lba, card[master.lba], (Taken + 1) + i - 1)
         /\ Answering \/ Answered
<1>1. master.at = "ask" /\ out = <<>> /\ down # <<>> /\ down' = Tail(down) /\ on /\ Reading
  BY DEF Inv, InUse, Get
<1>2. /\ <<master.first, master.n>> \in Runs /\ master.lba \in Run(master.first, master.n)
      /\ master.lba \in Lba /\ master.lba \in Nat /\ master.first \in Nat /\ master.n \in Nat
      /\ master.lba < master.first + master.n /\ master.first <= master.lba
  <2>1. /\ <<master.first, master.n>> \in Runs
        /\ master.lba \in Run(master.first, master.n) /\ master.lba \in Lba
    BY <1>1, InRun DEF Inv
  <2> QED BY <2>1, RunFacts, DeviceAssumption DEF Run, Lba
<1> DEFINE q == master.lba - master.first
<1>3. q \in Nat /\ q + 1 <= master.n /\ Base = q * BURST
  BY <1>2 DEF Base
<1>4. BURST \in Nat /\ BURST > 0
  BY Constants
<1>5. Taken \in 0 .. BURST - 1 /\ got \in Seq(Data) /\ down \in Seq(Data)
  BY <1>1 DEF Reading
<1>6. /\ Base \in Nat /\ (q + 1) * BURST = Base + BURST
      /\ (Base + Taken) \div BURST = q
      /\ (Base + Taken) % BURST = Taken
      /\ (Base + (Taken + 1)) % BURST = 0 <=> Taken + 1 = BURST
  BY <1>3, <1>5, Quotients
<1>7. Base + BURST <= master.n * BURST
  <2>1. \A a, b \in Nat : a <= b => a * BURST <= b * BURST
    BY <1>4
  <2>2. (q + 1) * BURST <= master.n * BURST
    BY <2>1, <1>2, <1>3
  <2> QED BY <2>2, <1>6
<1> HIDE DEF q
<1>8. Len(got) \in Nat /\ Len(got) = Base + Taken
  BY <1>5, <1>6, LenProperties DEF Taken
<1>9. /\ Head(down) \in Data /\ down' \in Seq(Data) /\ Len(down') = Len(down) - 1
      /\ Len(down) \in Nat /\ Len(down) >= 1 /\ Head(down) = down[1]
      /\ \A i \in 1 .. Len(down') : down'[i] = down[i + 1]
  BY <1>1, <1>5, HeadTailProperties, LenProperties, EmptySeq
<1>10. \A i \in 1 .. Len(down) : down[i] = DataWord(master.lba, card[master.lba], Taken + i - 1)
  BY <1>1 DEF Reading
<1>11. Head(down) = DataWord(master.lba, card[master.lba], Taken)
  <2>1. down[1] = DataWord(master.lba, card[master.lba], Taken + 1 - 1)
    BY <1>9, <1>10
  <2>2. Taken + 1 - 1 = Taken
    BY <1>5
  <2> QED BY <2>1, <2>2, <1>9
<1>12. /\ Took \in Seq(Data) /\ Len(Took) = Len(got) + 1
       /\ \A i \in 1 .. Len(got) : Took[i] = got[i]
       /\ Took[Len(got) + 1] = Head(down)
  BY <1>5, <1>9, AppendProperties DEF Took
<1>13. Len(Took) <= master.n * BURST
  <2> DEFINE X == master.n * BURST
  <2>1. X \in Nat /\ Base + BURST <= X
    BY <1>2, <1>4, <1>7
  <2>2. Len(Took) = (Base + Taken) + 1 /\ Base \in Nat /\ Taken \in Nat /\ Taken + 1 <= BURST
    BY <1>4, <1>5, <1>6, <1>8, <1>12
  <2> HIDE DEF X
  <2>3. Len(Took) <= X
    BY <2>1, <2>2, <1>4
  <2> QED BY <2>3 DEF X
<1>14. ASSUME NEW i \in 1 .. Len(Took)
       PROVE  Took[i] = Contents(master.first, master.n)[i]
  <2>1. CASE i <= Len(got)
    BY <2>1, <1>1, <1>8, <1>12 DEF Reading
  <2>2. CASE i = Len(got) + 1
    <3>1. i \in 1 .. master.n * BURST
      <4>1. master.n * BURST \in Nat
        BY <1>2, <1>4
      <4> QED BY <4>1, <1>8, <1>12, <1>13
    <3>2. i - 1 = Base + Taken
      BY <2>2, <1>5, <1>6, <1>8
    <3>3. master.first + (i - 1) \div BURST = master.lba
      <4>1. master.first + q = master.lba
        BY <1>2 DEF q
      <4> QED BY <4>1, <3>2, <1>6
    <3>4. Contents(master.first, master.n)[i] = DataWord(master.lba, card[master.lba], Taken)
      BY <3>1, <3>2, <3>3, <1>6 DEF Contents
    <3> QED BY <3>4, <2>2, <1>11, <1>12
  <2> QED BY <2>1, <2>2, <1>8, <1>12
<1>15. Last <=> Taken + 1 = BURST
  <2>1. Len(Took) = Base + (Taken + 1)
    BY <1>5, <1>6, <1>8, <1>12
  <2> QED BY <2>1, <1>6 DEF Last
<1>16. ASSUME NEW i \in 1 .. Len(down')
       PROVE  down'[i] = DataWord(master.lba, card[master.lba], (Taken + 1) + i - 1)
  <2>1. i + 1 \in 1 .. Len(down) /\ down'[i] = down[i + 1]
    BY <1>9
  <2>2. Taken + (i + 1) - 1 = (Taken + 1) + i - 1
    BY <1>5, <1>9
  <2>3. down[i + 1] = DataWord(master.lba, card[master.lba], Taken + (i + 1) - 1)
    BY <2>1, <1>10
  <2> QED BY <2>1, <2>2, <2>3
<1>17. Answering \/ Answered
  BY <1>1 DEF Reading, Asked
<1> QED BY <1>1, <1>2, <1>6, <1>8, <1>9, <1>12, <1>13, <1>14, <1>15, <1>16, <1>17

\* with the last word of a sector the wire is empty
LEMMA GetLast ==
  ASSUME Inv, Get, Last
  PROVE  down' = <<>> /\ slave.at = "idle" /\ Stream = <<>>
         /\ Len(Took) = Base + BURST
<1>1. /\ Taken + 1 = BURST /\ Len(down) \in Nat /\ Len(down') = Len(down) - 1
      /\ down' \in Seq(Data) /\ Base \in Nat /\ Len(got) = Base + Taken
      /\ Len(Took) = Len(got) + 1
      /\ Answering \/ Answered
      /\ Reading
  BY GetWord
<1>2. Taken \in 0 .. BURST - 1 /\ BURST \in Nat
  BY <1>1, Constants DEF Reading
<1>3. Len(down') \in Nat
  BY <1>1, LenProperties
<1>4. Len(down) >= 1
  BY <1>1, <1>3
<1>5. ~Answering
  <2> SUFFICES ASSUME Answering PROVE FALSE
    OBVIOUS
  <2>1. slave.left \in 1 .. BURST /\ Taken + Len(down) = BURST - slave.left
    BY DEF Answering
  <2> QED BY <2>1, <1>1, <1>2, <1>4
<1>6. Answered
  BY <1>1, <1>5
<1>7. Taken + Len(down) = BURST
  BY <1>6 DEF Answered
<1>8. Len(down') = 0
  BY <1>1, <1>2, <1>7
<1>9. down' = <<>>
  BY <1>1, <1>8, EmptySeq
<1>10. Len(Took) = Base + BURST
  BY <1>1, <1>2
<1> QED BY <1>6, <1>9, <1>10 DEF Answered

LEMMA GetInv ==
  ASSUME Inv, Get
  PROVE  Inv'
<1>1. /\ master.at = "ask" /\ out = <<>> /\ Types /\ Wired /\ Filed /\ InUse
      /\ UNCHANGED <<card, tx, rx, mem, slave, tags, on>>
  BY GetWord DEF Get, Inv, InUse
<1>2. /\ on /\ Reading
      /\ <<master.first, master.n>> \in Runs
      /\ Base \in Nat /\ Len(got) = Base + Taken
      /\ Took \in Seq(Data) /\ Len(Took) = Len(got) + 1
      /\ \A i \in 1 .. Len(Took) : Took[i] = Contents(master.first, master.n)[i]
      /\ Last <=> Taken + 1 = BURST
      /\ down' \in Seq(Data) /\ Len(down) \in Nat /\ Len(down') = Len(down) - 1
      /\ \A i \in 1 .. Len(down') :
            down'[i] = DataWord(master.lba, card[master.lba], (Taken + 1) + i - 1)
      /\ Answering \/ Answered
  BY GetWord
<1>3. Taken \in 0 .. BURST - 1 /\ BURST \in Nat /\ BURST > 0
  BY <1>2, Constants DEF Reading
<1>4. /\ got' = IF Last /\ ~More THEN <<>> ELSE Took
      /\ out' = IF Last /\ More THEN Ask(master.lba + 1) ELSE <<>>
      /\ master' = CASE ~Last -> master [] Last /\ More -> Onwards [] OTHER -> Idle
  BY DEF Get, Last, Took
<1>5. CASE ~Last
  <2>1. got' = Took /\ out' = <<>> /\ master' = master
    BY <1>4, <1>5
  <2>2. Types'
    BY <2>1, <1>1 DEF Types
  <2>3. Booting'
    BY <2>1, <1>1 DEF Booting
  <2>4. Stream' = Stream
    BY <2>1, <1>1 DEF Stream
  <2>5. Wired'
    BY <2>1, <2>4, <1>1 DEF Wired, Parses, Begins, Continues, Asks, Expected
  <2>6. Filed'
    BY <2>1, <2>4, <1>1 DEF Filed, Holds, Says
  <2>7. Taken' = Taken + 1
    <3>1. Base' = Base
      BY <2>1 DEF Base
    <3> QED BY <3>1, <2>1, <1>2, <1>3 DEF Taken
  <2>8. Taken' + Len(down') = Taken + Len(down) /\ Taken' \in 0 .. BURST - 1
    BY <2>7, <1>2, <1>3, <1>5
  <2>9. Answering' \/ Answered'
    BY <2>1, <2>4, <2>8, <1>1, <1>2 DEF Answering, Answered
  <2>10. Resident(master.first, master.n)'
    BY <2>1, <1>1, <1>2 DEF Reading, Resident
  <2>11. Contents(master.first, master.n)' = Contents(master.first, master.n)
    BY <2>1, <1>1 DEF Contents
  <2>12. Reading'
    BY <2>1, <2>7, <2>8, <2>9, <2>10, <2>11, <1>1, <1>2 DEF Reading
  <2> QED BY <2>1, <2>2, <2>3, <2>5, <2>6, <2>12, <1>1, <1>2 DEF Inv, InUse
<1>6. CASE Last /\ More
  <2>0. PICK l : l = master.lba + 1
    OBVIOUS
  <2>1. /\ got' = Took /\ out' = Ask(l)
        /\ master' = [at |-> "ask", first |-> master.first, n |-> master.n, lba |-> l]
    BY <2>0, <1>1, <1>4, <1>6 DEF Onwards, Types
  <2>2. /\ l \in Lba /\ l \in Run(master.first, master.n)
        /\ master.lba \in Nat /\ master.first \in Nat /\ master.first <= master.lba
    <3>1. master.lba \in Run(master.first, master.n) /\ master.first \in Lba
      BY <1>1, InRun, RunFacts
    <3>2. master.lba + 1 \in Run(master.first, master.n)
      BY <3>1, <1>2, <1>6, RunFacts DEF More
    <3> QED BY <3>1, <3>2, <2>0, <1>2, RunFacts DEF Lba
  <2>3. Types'
    BY <2>1, <2>2, <1>1, <1>2 DEF Types
  <2>4. Booting'
    BY <2>1 DEF Booting
  <2>5. down' = <<>> /\ slave.at = "idle" /\ Stream = <<>> /\ Len(Took) = Base + BURST
    BY <1>6, GetLast
  <2>6. Taken' = 0
    <3> DEFINE q == master.lba - master.first
    <3>1. q \in Nat
      BY <2>2
    <3>2. (q + 1) * BURST = q * BURST + BURST
      BY <3>1, <1>3, Constants
    <3>3. Base' = (q + 1) * BURST
      <4>1. Base' = (l - master.first) * BURST
        BY <2>1 DEF Base
      <4>2. l - master.first = q + 1
        BY <2>0, <2>2
      <4> QED BY <4>1, <4>2
    <3>4. Base = q * BURST
      BY DEF Base
    <3>5. Len(got') = Base'
      BY <3>2, <3>3, <3>4, <2>1, <2>5
    <3>6. Len(got') \in Nat
      BY <2>1, <2>5, <1>2, <1>3
    <3> QED BY <3>5, <3>6 DEF Taken
  <2>7. Reads
    BY <2>5 DEF Reads
  <2>8. \A s \in Slots : Says(s)' # Empty => Says(s)' = Says(s)
    BY <2>1, <1>1 DEF Says
  <2>9. /\ Wired' /\ Filed'
        /\ Taken' = 0 => Asked'
        /\ \A i \in 1 .. Len(out') : out'[i] \notin Data
    <3>1. master'.at = "ask" /\ master'.lba = l
      BY <2>1
    <3>2. out = <<>> /\ down' = <<>> /\ out' = Ask(l)
          /\ UNCHANGED <<card, rx, tx, mem, slave, tags>>
      BY <2>1, <2>5, <1>1
    <3> QED BY <3>1, <3>2, <2>2, <2>7, <2>8, <1>1, <1>2, AskStarts
  <2>10. Resident(master.first, master.n)'
    BY <2>1, <1>1, <1>2 DEF Reading, Resident
  <2>11. Contents(master.first, master.n)' = Contents(master.first, master.n)
    BY <2>1, <1>1 DEF Contents
  <2>12. Reading'
    <3>1. \A i \in 1 .. Len(down') : FALSE
      BY <2>5
    <3>2. Taken' \in 0 .. BURST - 1
      BY <2>6, <1>3
    <3> QED BY <3>1, <3>2, <2>1, <2>6, <2>9, <2>10, <2>11, <1>2 DEF Reading
  <2>13. master'.at = "ask" /\ on'
    BY <2>1, <1>1, <1>2
  <2> QED BY <2>3, <2>4, <2>9, <2>12, <2>13 DEF Inv, InUse
<1>7. CASE Last /\ ~More
  <2>1. got' = <<>> /\ out' = <<>> /\ master' = Idle
    BY <1>4, <1>7
  <2>2. Types'
    BY <2>1, <1>1, IdleType DEF Types
  <2>3. Booting'
    BY <2>1, IdleType DEF Booting
  <2>4. down' = <<>> /\ slave.at = "idle" /\ Stream = <<>>
    BY <1>7, GetLast
  <2>5. Stream' = Stream
    BY <2>1, <1>1 DEF Stream
  <2>6. Wired'
    BY <2>1, <2>5, <1>1 DEF Wired, Parses, Begins, Continues, Asks, Expected
  <2>7. Filed'
    <3>1. \A s \in Slots : Says(s)' = Says(s)
      BY <2>1, <1>1, IdleType DEF Says
    <3> QED BY <3>1, <2>5, <1>1 DEF Filed, Holds
  <2>8. Quiet'
    BY <2>1, <2>4, <2>5, <1>1 DEF Quiet, Reads
  <2> QED BY <2>1, <2>2, <2>3, <2>6, <2>7, <2>8, IdleType DEF Inv, InUse
<1> QED BY <1>5, <1>6, <1>7

-----------------------------------------------------------------------------
(* The theorems. *)

LEMMA InitInv ==
  ASSUME Init
  PROVE  Inv
<1>1. master = [at |-> "boot", first |-> 0, n |-> 1, lba |-> 0] /\ 0 \in Lba /\ 1 \in Nat
  BY IdleType DEF Init, Core0
<1>2. tags = [s \in Slots |-> Empty] /\ on = FALSE /\ out = <<>> /\ got = <<>>
  BY DEF Init
<1>3. slave = Waiting /\ mem = [a \in 0 .. MEM - 1 |-> Zero]
  BY DEF Init, LinkInit
<1>4. card \in [Lba -> 0 .. VERSIONS - 1]
  BY Constants DEF Init, DeviceInit
<1>5. Types
  BY <1>1, <1>2, <1>3, <1>4 DEF Types, Waiting
<1>6. Booting
  BY <1>1, <1>2 DEF Booting
<1> QED BY <1>1, <1>2, <1>5, <1>6 DEF Inv, InUse

LEMMA NextInv ==
  ASSUME ~Overrun, ~Pauses, Inv, [Next]_vars
  PROVE  Inv'
<1>1. CASE Slave
  <2>1. Types' /\ Booting'
    BY <1>1, SlaveTypes, SlaveBooting DEF Inv
  <2>2. UNCHANGED <<on, master>>
    BY <1>1 DEF Slave, cacheVars
  <2>3. InUse'
    <3>1. CASE on
      BY <3>1, <1>1, SlaveInUse DEF Inv
    <3>2. CASE ~on
      BY <3>2, <2>2 DEF InUse
    <3> QED BY <3>1, <3>2
  <2> QED BY <2>1, <2>2, <2>3 DEF Inv
<1>2. CASE Transfer
  BY <1>2, SyncInv, PongInv, PutInv, AbandonInv, GetInv, CardReadInv, FilledInv
     DEF Transfer, PutTimeout, GetTimeout
<1>3. CASE Calls
  <2>1. PICK r \in Runs : DiskRead(r[1], r[2]) \/ DiskWrite(r[1], r[2])
    BY <1>3 DEF Calls
  <2>2. <<r[1], r[2]>> \in Runs
    BY DEF Runs
  <2> QED BY <2>1, <2>2, DiskReadInv, DiskWriteInv
<1>4. CASE Reboot
  BY <1>4, RebootInv
<1>5. CASE Stray
  BY <1>5, StrayInv
<1>6. CASE UNCHANGED vars
  <2>1. UNCHANGED <<card, tx, rx, down, mem, slave, tags, on, master, out, got>>
    BY <1>6 DEF vars, linkVars, cacheVars
  <2>2. UNCHANGED <<Stream, Taken, Base>>
    BY <2>1 DEF Stream, Taken, Base
  <2>3. Types' /\ Booting'
    BY <2>1 DEF Inv, Types, Booting
  <2>4. InUse'
    <3>1. CASE on
      <4>1. /\ rx' \in Seq(Streamed) /\ tx' \in Seq(Streamed) /\ out' \in Seq(Streamed)
            /\ master.at = "ask" => \A i \in 1 .. Len(out') : out'[i] \notin Data
        BY <3>1, <2>1 DEF Inv, InUse, Wired, Reading
      <4> QED BY <4>1, <3>1, <2>1, <2>2, Moved DEF Inv
    <3>2. CASE ~on
      BY <3>2, <2>1 DEF InUse
    <3> QED BY <3>1, <3>2
  <2> QED BY <2>1, <2>3, <2>4 DEF Inv
<1> QED BY <1>1, <1>2, <1>3, <1>4, <1>5, <1>6 DEF Next

\* The invariant behind the other theorems: what is on the wire is a sequence
\* of whole transfers, and it carries every resident sector's words to where
\* the slave keeps them.
THEOREM CacheInvariance ==
  ASSUME ~Overrun, ~Pauses
  PROVE  Spec => []Inv
<1>1. Init => Inv
  BY InitInv
<1>2. Inv /\ [Next]_vars => Inv'
  BY NextInv
<1> QED BY <1>1, <1>2, PTL DEF Spec

\* With FIFOs that lose nothing and a master that does not pause in mid-burst,
\* disk_read and disk_write with the cache in the way are those of the card:
\* a read hands over what the card holds now, whatever reboots, timeouts and
\* posted fills lie behind it (diskcache.c, diskcache.h:27-28).
LEMMA StepTransparent ==
  ASSUME Inv, [Next]_vars
  PROVE  [DeviceNext]_<<card, ans>>
<1>1. CASE Get
  <2>1. CASE Last /\ ~More
    <3>1. ans' = Took /\ card' = card
      BY <1>1, <2>1 DEF Get, Last, Took
    <3>2. /\ <<master.first, master.n>> \in Runs
          /\ Took \in Seq(Data) /\ Len(Took) <= master.n * BURST
          /\ \A i \in 1 .. Len(Took) : Took[i] = Contents(master.first, master.n)[i]
      BY <1>1, GetWord
    <3>3. Len(Took) = Base + BURST
      BY <1>1, <2>1, GetLast
    <3>4. /\ master.lba \in Nat /\ master.first \in Nat /\ master.n \in Nat
          /\ master.first <= master.lba /\ master.lba + 1 = master.first + master.n
      <4>1. master.at = "ask"
        BY <1>1 DEF Get
      <4>2. master.lba \in Run(master.first, master.n) /\ master.lba \in Lba
        BY <4>1, InRun DEF Inv
      <4>3. master.first \in Lba /\ master.n \in Nat /\ master.lba \in Nat /\ master.first \in Nat
        BY <4>2, <3>2, RunFacts, DeviceAssumption DEF Lba
      <4>4. master.first <= master.lba /\ master.lba <= master.first + master.n - 1
        BY <4>2, <4>3 DEF Run
      <4> QED BY <4>3, <4>4, <2>1 DEF More
    <3>5. Len(Took) = master.n * BURST
      <4> DEFINE q == master.lba - master.first
      <4>1. q \in Nat /\ q + 1 = master.n /\ Base = q * BURST
        BY <3>4 DEF Base
      <4>2. (q + 1) * BURST = q * BURST + BURST
        BY <4>1, Constants
      <4> QED BY <4>1, <4>2, <3>3
    <3>6. Took = Contents(master.first, master.n)
      <4>1. Took = [i \in 1 .. Len(Took) |-> Took[i]]
        BY <3>2, LenProperties
      <4>2. Contents(master.first, master.n) =
              [i \in 1 .. Len(Took) |-> Contents(master.first, master.n)[i]]
        BY <3>5 DEF Contents
      <4> QED BY <4>1, <4>2, <3>2
    <3>7. ReadSectors(master.first, master.n)
      BY <3>1, <3>6 DEF ReadSectors
    <3>8. PICK r \in Runs : r = <<master.first, master.n>>
      BY <3>2
    <3> QED BY <3>7, <3>8 DEF DeviceNext
  <2>2. CASE ~(Last /\ ~More)
    BY <1>1, <2>2 DEF Get, Last, Took
  <2> QED BY <2>1, <2>2
<1>2. CASE CardRead
  <2>1. CASE ReadSectors(master.first, master.n)
    <3>1. <<master.first, master.n>> \in Runs
      BY <1>2, InRun DEF CardRead, Inv
    <3>2. PICK r \in Runs : r = <<master.first, master.n>>
      BY <3>1
    <3> QED BY <2>1, <3>2 DEF DeviceNext
  <2>2. CASE UNCHANGED <<card, ans>>
    BY <2>2
  <2> QED BY <1>2, <2>1, <2>2 DEF CardRead
<1>3. CASE Calls
  <2>1. PICK r \in Runs : DiskRead(r[1], r[2]) \/ DiskWrite(r[1], r[2])
    BY <1>3 DEF Calls
  <2>2. CASE DiskRead(r[1], r[2])
    BY <2>2 DEF DiskRead, DeviceNext
  <2>3. CASE DiskWrite(r[1], r[2])
    BY <2>3 DEF DiskWrite, DeviceNext
  <2> QED BY <2>1, <2>2, <2>3
<1>4. CASE Reboot
  BY <1>4 DEF Reboot, DeviceNext
<1>5. CASE Slave \/ Stray \/ UNCHANGED vars
  BY <1>5 DEF Slave, Stray, vars
<1>6. CASE Sync \/ Pong \/ Put \/ PutTimeout \/ GetTimeout \/ Filled
  BY <1>6 DEF Sync, Pong, Put, PutTimeout, GetTimeout, Abandon, Filled
<1> QED BY <1>1, <1>2, <1>3, <1>4, <1>5, <1>6 DEF Next, Transfer

\* disk_read and disk_write behind the cache do what those of the card do, for
\* any depth of the FIFOs, any loss of replies, any time-out and any reboot, as
\* long as no word of a burst is lost or late on its way to the slave.
THEOREM CacheIsTransparent ==
  ASSUME ~Overrun, ~Pauses
  PROVE  Spec => Transparent
<1>1. Init => DeviceInit
  BY DEF Init
<1>2. Inv /\ [Next]_vars => [DeviceNext]_<<card, ans>>
  BY StepTransparent
<1> QED BY <1>1, <1>2, CacheInvariance, PTL DEF Spec, Transparent, DeviceSpec

\* Between two calls nothing of an earlier transfer is about, and whenever the
\* link is quiet the slave holds the card's words of every resident sector.
THEOREM CacheIsCoherent ==
  ASSUME ~Overrun, ~Pauses
  PROVE  Spec => []Coherent
<1>1. ASSUME Inv PROVE NoLeftovers
  BY <1>1 DEF Inv, InUse, Quiet, Reads, NoLeftovers
<1>2. ASSUME Inv PROVE ResidentIsCard
  <2> SUFFICES ASSUME on, tx = <<>>, rx = <<>>, slave.at = "idle", master.at # "fill",
                      NEW s \in Slots, tags[s] # Empty, NEW k \in 0 .. BURST - 1
               PROVE  mem[s * BURST + k] = DataWord(tags[s], card[tags[s]], k)
    BY DEF ResidentIsCard
  <2>1. Wired /\ Filed /\ InUse /\ Types /\ Booting
    BY <1>2 DEF Inv, InUse
  <2>2. Stream = out /\ out \in Seq(Streamed)
    <3>1. out \in Seq(Streamed)
      BY <2>1 DEF Wired
    <3>2. Stream = (<<>> \o <<>>) \o out
      BY DEF Stream
    <3>3. <<>> \o <<>> = <<>>
      BY EmptySeq, ConcatEmptySeq
    <3> QED BY <3>1, <3>2, <3>3, ConcatEmptySeq
  <2>3. \A i \in 1 .. Len(out) : out[i] \notin Data
    <3>1. master.at \in {"idle", "card"} => out = <<>>
      BY <2>1 DEF InUse
    <3>2. master.at = "ask" => \A i \in 1 .. Len(out) : out[i] \notin Data
      BY <2>1 DEF InUse, Reading
    <3>3. master.at \in {"idle", "card", "ask"}
      BY <2>1 DEF Types, Booting
    <3> QED BY <3>1, <3>2, <3>3
  <2>4. Says(s) = tags[s]
    BY DEF Says
  <2> DEFINE d == DataWord(tags[s], card[tags[s]], k)
  <2>5. Holds(out, mem, s, k, d)
    BY <2>1, <2>2, <2>4 DEF Filed
  <2>6. Aims(d, s, k)
    BY <2>1, <2>4, SaysAims
  <2> HIDE DEF d
  <2>7. d = mem[s * BURST + k]
    <3>1. PICK i \in 0 .. Len(out) : d = IF i = 0 THEN mem[s * BURST + k] ELSE out[i]
      BY <2>5 DEF Holds
    <3>2. d \in Data
      BY <2>6 DEF Aims
    <3>3. Len(out) \in Nat
      BY <2>2, LenProperties
    <3>4. i = 0
      BY <2>3, <3>1, <3>2, <3>3
    <3> QED BY <3>1, <3>4
  <2> QED BY <2>7 DEF d
<1>3. Inv => Coherent
  BY <1>1, <1>2 DEF Coherent
<1> QED BY <1>3, CacheInvariance, PTL
=============================================================================
