---------------------------- MODULE DeviceProofs ----------------------------
(***************************************************************************)
(* Proofs about the memory of the display (VgaMem), for windows, memories and   *)
(* banks of any size: a store that translated code makes straight to memory is  *)
(* the interpreter's; and about the devices side by side (MCDevices): whichever  *)
(* moves, none loses its types, nor the display the memory it lent.             *)
(***************************************************************************)
EXTENDS MCDevices, DiskProofs

-----------------------------------------------------------------------------
(* The registers and the table that belongs to them.                        *)
Inv == regs \in Registers /\ table = DirectTable(regs)

(* A byte stored with no rotation, set/reset or mask goes through unchanged. *)
LEMMA ThroughPlain ==
    ASSUME NEW r \in Registers, OneByte(r), NEW l \in [Planes -> Bytes], NEW p \in Planes,
           NEW v \in Bytes
    PROVE  Through(r, l, p, v) = v
<1>1. Rotated(v, 0) = v
  <2>1. \A i \in Bits : (i + 0) % 8 = i
    BY DEF Bits
  <2> QED BY <2>1 DEF Rotated, Bytes
<1>2. Data(r, p, v) = v
  BY <1>1 DEF Data, OneByte
<1>3. Written8(r, v) = Bits
  BY DEF Written8, OneByte
<1>4. Combined(r.func, v, l[p]) = v
  BY DEF Combined, OneByte
<1>5. (v \cap Bits) \cup (l[p] \ Bits) = v
  BY DEF Bytes
<1> QED BY <1>2, <1>3, <1>4, <1>5 DEF Through, OneByte

(* Chain 4: the operand lies below what is lent, in the window, and every plane *)
(* is open.                                                                *)
LEMMA DirectChained ==
    ASSUME NEW r \in Registers, r.chain4, NEW n \in Sizes, NEW o \in Offsets,
           Admits(DirectTable(r), n, o)
    PROVE  /\ DirectTable(r)[n].ram + DirectTable(r)[n].scale * o = Address(r, o)
           /\ InWindow(r, o) /\ Cells(r, o) = {Address(r, o)}
           /\ Address(r, o) \in Nat /\ Address(r, o) + n <= LENT
<1>1. /\ r.map \in {0, 1} /\ r.planes = Planes /\ Span(r) >= n
      /\ DirectTable(r)[n] = Entry(Bank(r), 1, Span(r) - n)
  BY DEF Admits, DirectTable, Direct, Refused, Registers
<1>2. o \in Nat /\ n \in Nat \ {0} /\ Bank(r) \in Nat /\ Extent(r) \in Nat /\ Start(r) = 0
  BY <1>1, Layout DEF Offsets, Sizes, Bank, Extent, Start, Registers
<1>3. o <= Span(r) - n
  BY <1>1 DEF Admits, Entry
<1>4. Span(r) <= LENT - Bank(r) /\ Span(r) <= Extent(r) /\ Span(r) \in Int
  BY <1>2, Layout DEF Span, Top, Least
<1>5. Address(r, o) = o + Bank(r)
  BY <1>2 DEF Address
<1>6. InWindow(r, o)
  BY <1>2, <1>3, <1>4 DEF InWindow
<1>7. Address(r, o) \in Nat /\ Address(r, o) + n <= LENT
  BY <1>2, <1>3, <1>4, <1>5, Layout
<1>8. Address(r, o) % 4 \in Planes
  BY <1>7 DEF Planes
<1>9. Cells(r, o) = {Address(r, o)}
  BY <1>1, <1>6, <1>8 DEF Cells
<1>10. DirectTable(r)[n].ram = Bank(r) /\ DirectTable(r)[n].scale = 1
  BY <1>1 DEF Entry
<1> QED BY <1>2, <1>5, <1>6, <1>7, <1>9, <1>10

(* One plane: the byte lies in the memory, below what is lent.                *)
LEMMA DirectPlane ==
    ASSUME NEW r \in Registers, ~r.chain4, NEW n \in Sizes, NEW o \in Offsets,
           Admits(DirectTable(r), n, o)
    PROVE  /\ n = 1 /\ OneByte(r) /\ InWindow(r, o)
           /\ \E p \in Planes :
                 /\ Cells(r, o) = {4 * Address(r, o) + p}
                 /\ DirectTable(r)[n].ram + DirectTable(r)[n].scale * o
                       = 4 * Address(r, o) + p
                 /\ (4 * Address(r, o) + p) % 4 = p
           /\ 4 * Address(r, o) < LENT /\ Address(r, o) \in Nat
<1> DEFINE p == CHOOSE q \in Planes : r.planes = {q}
<1>1. /\ r.map \in {0, 1} /\ n = 1 /\ OneByte(r) /\ Bank(r) < Top \div 4
      /\ DirectTable(r)[n] = Entry(4 * Bank(r) + p, 4,
                                   Least(Top \div 4 - Bank(r), Extent(r)) - 1)
  BY DEF Admits, DirectTable, Direct, Refused, Registers
<1>2. o \in Nat /\ Bank(r) \in Nat /\ Extent(r) \in Nat /\ Start(r) = 0
  BY <1>1, Layout DEF Offsets, Bank, Extent, Start, Registers
<1>3. p \in Planes /\ r.planes = {p}
  BY <1>1 DEF OneByte
<1>4. Top \in Nat /\ Top <= LENT /\ Top <= RAM /\ Top \div 4 \in Nat /\ 4 * (Top \div 4) <= Top
  <2>1. Top \in Nat /\ Top <= LENT /\ Top <= RAM
    BY Layout DEF Top, Least
  <2> QED BY <2>1
<1>5. o < Top \div 4 - Bank(r) /\ o < Extent(r)
  <2>1. o <= Least(Top \div 4 - Bank(r), Extent(r)) - 1
    BY <1>1 DEF Admits, Entry
  <2> QED BY <1>2, <1>4, <2>1 DEF Least
<1>6. Address(r, o) = o + Bank(r) /\ Address(r, o) \in Nat /\ InWindow(r, o)
  BY <1>2, <1>5 DEF Address, InWindow
<1>7. 4 * Address(r, o) < RAM /\ 4 * Address(r, o) < LENT
  BY <1>2, <1>4, <1>5, <1>6, Layout
<1>8. Cells(r, o) = {4 * Address(r, o) + p}
  BY <1>1, <1>3, <1>6, <1>7 DEF Cells, OneByte
<1>9. DirectTable(r)[n].ram = 4 * Bank(r) + p /\ DirectTable(r)[n].scale = 4
  BY <1>1 DEF Entry
<1>10. DirectTable(r)[n].ram + DirectTable(r)[n].scale * o = 4 * Address(r, o) + p
  <2> HIDE DEF p
  <2>1. p \in Nat
    BY <1>3 DEF Planes
  <2> QED BY <1>2, <1>6, <1>9, <2>1
<1>11. (4 * Address(r, o) + p) % 4 = p
  <2> HIDE DEF p
  <2>1. p \in 0 .. 3
    BY <1>3 DEF Planes
  <2> QED BY <1>6, <2>1
<1> QED BY <1>1, <1>3, <1>6, <1>7, <1>8, <1>10, <1>11

(* A direct store is the interpreter's, and need not claim what is lent.      *)
LEMMA DirectSound ==
    ASSUME NEW r \in Registers, NEW n \in Sizes, NEW o \in Offsets, NEW s \in Patterns,
           NEW bs, bs = [i \in 1 .. n |-> s[i]], Admits(DirectTable(r), n, o)
    PROVE  /\ \A l \in Latches : Native(DirectTable(r), n, o, bs) = Interpreted(r, l, o, bs)
           /\ ~InterpreterClaims(r, o, n)
<1> DEFINE a == Address(r, o)
           h == DirectTable(r)[n].ram + DirectTable(r)[n].scale * o
<1>1. DOMAIN bs = 1 .. n /\ n \in Nat \ {0} /\ bs[1] = s[1] /\ bs[1] \in Bytes
  <2>1. 1 \in 1 .. n
    BY DEF Sizes
  <2>2. s[1] \in Bytes
    BY Layout
  <2> QED BY <2>1, <2>2 DEF Sizes
<1>2. (DOMAIN bs = {1}) <=> (n = 1)
  <2>1. n # 1 => 2 \in 1 .. n
    BY DEF Sizes
  <2> QED BY <1>1, <2>1
<1>3. \A k \in Nat : n = 1 => Run(k, bs) = [c \in {k} |-> bs[1]]
  <2> SUFFICES ASSUME NEW k \in Nat, n = 1 PROVE Run(k, bs) = [c \in {k} |-> bs[1]]
    OBVIOUS
  <2>1. {k + i - 1 : i \in DOMAIN bs} = {k}
    BY <1>1
  <2>2. Run(k, bs) = [c \in {k} |-> bs[c - k + 1]]
    BY <2>1 DEF Run
  <2> QED BY <2>2
<1>4. CASE r.chain4
  <2>1. /\ h = a /\ InWindow(r, o) /\ Cells(r, o) = {a} /\ a \in Nat /\ a + n <= LENT
    BY <1>4, DirectChained
  <2>2. Native(DirectTable(r), n, o, bs) = Run(a, bs)
    BY <2>1 DEF Native
  <2>3. ASSUME NEW l \in Latches PROVE Run(a, bs) = Interpreted(r, l, o, bs)
    <3>1. CASE n = 1
      <4>1. Interpreted(r, l, o, bs) = Store(r, l, o, bs[1])
        BY <1>2, <3>1 DEF Interpreted
      <4>2. Store(r, l, o, bs[1]) = [c \in {a} |-> bs[1]]
        BY <1>4, <2>1 DEF Store, Stored, Latched
      <4> QED BY <1>3, <2>1, <3>1, <4>1, <4>2
    <3>2. CASE n # 1
      BY <1>2, <1>4, <2>1, <3>2 DEF Interpreted, Wide
    <3> QED BY <3>1, <3>2
  <2>4. ~InterpreterClaims(r, o, n)
    BY <1>1, <1>4, <2>1, Layout DEF InterpreterClaims, Claims, WideClaims
  <2> QED BY <2>2, <2>3, <2>4
<1>5. CASE ~r.chain4
  <2>1. n = 1 /\ OneByte(r) /\ InWindow(r, o) /\ 4 * a < LENT /\ a \in Nat
    BY <1>5, DirectPlane
  <2>2. PICK p \in Planes : /\ Cells(r, o) = {4 * a + p} /\ h = 4 * a + p
                            /\ (4 * a + p) % 4 = p
    BY <1>5, DirectPlane
  <2>3. Native(DirectTable(r), n, o, bs) = [c \in {4 * a + p} |-> bs[1]]
    <3>1. 4 * a + p \in Nat
      BY <2>1, <2>2 DEF Planes
    <3>2. Native(DirectTable(r), n, o, bs) = Run(4 * a + p, bs)
      BY <2>2 DEF Native
    <3> QED BY <1>3, <2>1, <3>1, <3>2
  <2>4. ASSUME NEW l \in Latches
        PROVE  Interpreted(r, l, o, bs) = [c \in {4 * a + p} |-> bs[1]]
    <3>1. l \in [Planes -> Bytes]
      BY Layout
    <3>2. Stored(r, l, 4 * a + p, bs[1]) = bs[1]
      <4>1. Through(r, l, p, bs[1]) = bs[1]
        BY <1>1, <2>1, <3>1, ThroughPlain
      <4> QED BY <2>1, <2>2, <4>1 DEF Stored, OneByte
    <3>3. Store(r, l, o, bs[1]) = [c \in {4 * a + p} |-> Stored(r, l, c, bs[1])]
      BY <2>2 DEF Store
    <3> QED BY <1>2, <2>1, <3>2, <3>3 DEF Interpreted
  <2>5. ~InterpreterClaims(r, o, n)
    BY <1>5, <2>1, Layout DEF InterpreterClaims, Claims, OneByte
  <2> QED BY <2>3, <2>4, <2>5
<1> QED BY <1>4, <1>5

(* Every register write that the table rests on makes it again, as long as VBE  *)
(* is not turned off.                                                      *)
LEMMA InvHolds == ~Disables /\ MSpec => []Inv
<1> SUFFICES ASSUME ~Disables PROVE MSpec => []Inv
  OBVIOUS
<1>1. ASSUME MInit PROVE Inv
  BY <1>1, Layout DEF MInit, Inv, Registers, Planes, Bytes, Bits
<1>2. ASSUME Inv, [MNext]_mvars PROVE Inv'
  <2>1. ASSUME NEW q \in Sequencer, SequencerWrite(q) PROVE Inv'
    <3>1. q.chain4 \in BOOLEAN /\ q.planes \in SUBSET Planes
      BY Written
    <3> QED BY <1>2, <2>1, <3>1 DEF Inv, SequencerWrite, Refreshed, Registers
  <2>2. ASSUME NEW g \in Graphics, GraphicsWrite(g) PROVE Inv'
    <3>1. /\ g.evenodd \in BOOLEAN /\ g.chained \in BOOLEAN /\ g.wmode \in 0 .. 3
          /\ g.map \in 0 .. 3 /\ g.plane \in Planes
      BY Written
    <3> QED BY <1>2, <2>2, <3>1 DEF Inv, GraphicsWrite, Refreshed, Registers
  <2>3. ASSUME NEW u \in Alu, AluWrite(u) PROVE Inv'
    <3>1. /\ u.func \in 0 .. 3 /\ u.rotate \in 0 .. 7 /\ u.set \in SUBSET Planes
          /\ u.value \in SUBSET Planes /\ u.mask \in Bytes
      BY Written
    <3> QED BY <1>2, <2>3, <3>1 DEF Inv, AluWrite, Refreshed, Registers
  <2>4. ASSUME NEW on \in BOOLEAN, VbeEnable(on) PROVE Inv'
    <3>1. on
      BY <1>2, <2>4 DEF VbeEnable
    <3> DEFINE b == IF ~vbe THEN regs.bank ELSE 0
    <3>2. /\ b \in Nat /\ 1 \in 0 .. 3 /\ (regs.chain4 \/ deep) \in BOOLEAN
          /\ (IF deep THEN Planes ELSE regs.planes) \in SUBSET Planes
      BY <1>2 DEF Inv, Registers
    <3>3. /\ regs' = [regs EXCEPT !.map = 1, !.bank = b, !.chain4 = regs.chain4 \/ deep,
                                  !.planes = IF deep THEN Planes ELSE regs.planes]
          /\ table' = DirectTable(regs')
      BY <2>4, <3>1 DEF VbeEnable, Follow, Refreshed
    <3>4. regs' \in Registers
      BY <1>2, <3>2, <3>3 DEF Inv, Registers
    <3> QED BY <3>3, <3>4 DEF Inv
  <2>5. ASSUME NEW on \in BOOLEAN, VbeMode(on) PROVE Inv'
    <3>1. CASE vbe
      <4>1. /\ regs.bank \in Nat /\ 1 \in 0 .. 3 /\ Planes \in SUBSET Planes
            /\ (regs.chain4 \/ on) \in BOOLEAN
            /\ (IF on THEN Planes ELSE regs.planes) \in SUBSET Planes
        BY <1>2 DEF Inv, Registers
      <4>2. /\ regs' = [regs EXCEPT !.map = 1, !.bank = regs.bank,
                                    !.chain4 = regs.chain4 \/ on,
                                    !.planes = IF on THEN Planes ELSE regs.planes]
            /\ table' = DirectTable(regs')
        BY <2>5, <3>1 DEF VbeMode, Follow, Refreshed
      <4>3. regs' \in Registers
        BY <1>2, <4>1, <4>2 DEF Inv, Registers
      <4> QED BY <4>2, <4>3 DEF Inv
    <3>2. CASE ~vbe
      <4>1. regs' = regs /\ table' = table
        BY <1>2, <2>5, <3>2 DEF Inv, VbeMode, Follow, Registers
      <4> QED BY <1>2, <4>1 DEF Inv
    <3> QED BY <3>1, <3>2
  <2>6. ASSUME NEW b \in 0 .. BANKS - 1, VbeBank(b) PROVE Inv'
    <3>1. b * WINDOW \in Nat
      BY Layout
    <3> QED BY <1>2, <2>6, <3>1 DEF Inv, VbeBank, Refreshed, Registers
  <2>7. CASE UNCHANGED mvars
    BY <1>2, <2>7 DEF Inv, mvars
  <2> QED BY <1>2, <2>1, <2>2, <2>3, <2>4, <2>5, <2>6, <2>7 DEF MNext
<1> QED BY <1>1, <1>2, PTL DEF MSpec

(* While the guest leaves VBE on, what translated code stores straight to the    *)
(* memory of the display is what the interpreter would have stored, whatever   *)
(* the sizes of window, memory and bank (njit_vga_write_update).             *)
THEOREM DirectStoresAreInterpreted == ~Disables /\ MSpec => []DirectIsInterpreted
<1>1. ASSUME Inv PROVE DirectIsInterpreted
  <2> SUFFICES ASSUME NEW n \in Sizes, NEW o \in Offsets, NEW s \in Patterns,
                      Admits(table, n, o)
               PROVE  LET bs == [i \in 1 .. n |-> s[i]]
                      IN /\ \A l \in Latches :
                               Native(table, n, o, bs) = Interpreted(regs, l, o, bs)
                         /\ ~InterpreterClaims(regs, o, n)
    BY DEF DirectIsInterpreted
  <2> QED BY <1>1, DirectSound DEF Inv
<1> QED BY <1>1, InvHolds, PTL

-----------------------------------------------------------------------------
(* The registers, with a bank that begins at a multiple of four.             *)
Banked == /\ regs \in Registers /\ regs.bank % 4 = 0
          /\ vbe \in BOOLEAN /\ deep \in BOOLEAN

(* An access of one byte claims what it reaches of the lent memory.            *)
LEMMA ByteClaims ==
    ASSUME NEW r \in Registers, NEW o \in Offsets, NEW c \in Int, c >= LENT
    PROVE  /\ c \in Cells(r, o) => Claims(r, o)
           /\ c \in ReadCell(r, o) => ReadClaims(r, o)
<1> DEFINE a == Address(r, o)
<1>1. a \in Int /\ r.plane \in 0 .. 3 /\ r.planes \subseteq 0 .. 3
  BY Layout DEF Address, Start, Bank, Registers, Offsets, Planes
<1>2. ASSUME 4 * a + 3 >= LENT PROVE 4 * a >= LENT
  BY <1>1, <1>2, Layout
<1> HIDE DEF a
<1>3. c \in Cells(r, o) => Claims(r, o)
  BY <1>1, <1>2, Layout DEF Cells, Claims, a
<1>4. c \in ReadCell(r, o) => ReadClaims(r, o)
  BY <1>1, <1>2, Layout DEF ReadCell, ReadClaims, a
<1> QED BY <1>3, <1>4

(* In chain 4 an aligned operand lies on one side of the border.              *)
LEMMA OneSide ==
    ASSUME NEW r \in Registers, r.bank % 4 = 0, NEW o \in Offsets, NEW n \in Sizes,
           o % n = 0, Address(r, o) + n > LENT
    PROVE  Address(r, o) >= LENT
<1>1. r.bank \in Nat /\ r.map \in 0 .. 3 /\ o \in Nat
  BY Layout DEF Registers, Offsets
<1>2. Start(r) \in Nat /\ Start(r) % 4 = 0 /\ Bank(r) \in Nat /\ Bank(r) % 4 = 0
  BY <1>1, Layout DEF Start, Bank
<1>3. Address(r, o) \in Int /\ Address(r, o) = o - Start(r) + Bank(r)
  BY <1>1, <1>2 DEF Address
<1>4. CASE n = 1
  BY <1>3, <1>4, Layout
<1>5. CASE n = 2
  <2>1. Address(r, o) % 2 = 0 /\ LENT % 2 = 0
    BY <1>1, <1>2, <1>3, <1>5, Layout
  <2> QED BY <1>3, <1>5, <2>1, Layout
<1>6. CASE n = 4
  <2>1. Address(r, o) % 4 = 0
    BY <1>1, <1>2, <1>3, <1>6
  <2> QED BY <1>3, <1>6, <2>1, Layout
<1> QED BY <1>4, <1>5, <1>6 DEF Sizes

LEMMA BankedStarts ==
    ASSUME MInit
    PROVE  Banked
<1>1. regs \in Registers
  BY DEF MInit, Registers, Planes, Bytes, Bits
<1>2. regs.bank % 4 = 0
  BY DEF MInit
<1>3. vbe \in BOOLEAN /\ deep \in BOOLEAN
  BY DEF MInit
<1> QED BY <1>1, <1>2, <1>3 DEF Banked

LEMMA BankedSteps ==
    ASSUME Banked, [MNext]_mvars
    PROVE  Banked'
<1>1. ASSUME NEW q \in Sequencer, SequencerWrite(q) PROVE Banked'
  <2>1. q.chain4 \in BOOLEAN /\ q.planes \in SUBSET Planes
    BY Written
  <2> QED BY <1>1, <2>1 DEF Banked, SequencerWrite, Registers
<1>2. ASSUME NEW g \in Graphics, GraphicsWrite(g) PROVE Banked'
  <2>1. /\ g.evenodd \in BOOLEAN /\ g.chained \in BOOLEAN /\ g.wmode \in 0 .. 3
        /\ g.map \in 0 .. 3 /\ g.plane \in Planes
    BY Written
  <2> QED BY <1>2, <2>1 DEF Banked, GraphicsWrite, Registers
<1>3. ASSUME NEW u \in Alu, AluWrite(u) PROVE Banked'
  <2>1. /\ u.func \in 0 .. 3 /\ u.rotate \in 0 .. 7 /\ u.set \in SUBSET Planes
        /\ u.value \in SUBSET Planes /\ u.mask \in Bytes
    BY Written
  <2> QED BY <1>3, <2>1 DEF Banked, AluWrite, Registers
<1>4. ASSUME NEW on \in BOOLEAN, NEW depth \in BOOLEAN, NEW b \in Nat, b % 4 = 0,
             Follow(on, depth, b)
      PROVE  regs' \in Registers /\ regs'.bank % 4 = 0
  <2>1. /\ (regs.chain4 \/ depth) \in BOOLEAN /\ 1 \in 0 .. 3
        /\ (IF depth THEN Planes ELSE regs.planes) \in SUBSET Planes
    BY DEF Banked, Registers
  <2>2. \/ regs' = [regs EXCEPT !.map = 1, !.bank = b, !.chain4 = regs.chain4 \/ depth,
                                !.planes = IF depth THEN Planes ELSE regs.planes]
        \/ regs' = [regs EXCEPT !.bank = b]
    BY <1>4 DEF Follow
  <2>3. regs' \in Registers /\ regs'.bank = b
    BY <1>4, <2>1, <2>2 DEF Banked, Registers
  <2> QED BY <1>4, <2>3
<1>5. regs.bank \in Nat /\ regs.bank % 4 = 0 /\ 0 % 4 = 0
  BY DEF Banked, Registers
<1>6. ASSUME NEW on \in BOOLEAN, VbeEnable(on) PROVE Banked'
  BY <1>4, <1>5, <1>6 DEF VbeEnable, Banked
<1>7. ASSUME NEW on \in BOOLEAN, VbeMode(on) PROVE Banked'
  BY <1>4, <1>5, <1>7 DEF VbeMode, Banked
<1>8. ASSUME NEW b \in 0 .. BANKS - 1, VbeBank(b) PROVE Banked'
  <2>1. PICK k \in Nat : WINDOW = 4 * k
    <3>1. WINDOW = 4 * (WINDOW \div 4) /\ WINDOW \div 4 \in Nat
      BY Layout
    <3> QED BY <3>1
  <2>2. b * WINDOW \in Nat /\ (b * WINDOW) % 4 = 0
    <3>1. b * WINDOW = 4 * (b * k) /\ b * k \in Nat
      BY <2>1, Written
    <3> QED BY <3>1
  <2> QED BY <1>8, <2>2 DEF Banked, VbeBank, Registers
<1>9. CASE UNCHANGED mvars
  BY <1>9 DEF Banked, mvars
<1> QED BY <1>1, <1>2, <1>3, <1>6, <1>7, <1>8, <1>9 DEF MNext

(* The bank is a multiple of four in every state.                            *)
LEMMA BankedHolds == MSpec => []Banked
BY BankedStarts, BankedSteps, PTL DEF MSpec

LEMMA BankedClaims ==
    ASSUME Banked
    PROVE  LentIsClaimed
<1>1. regs \in Registers /\ regs.bank % 4 = 0
  BY DEF Banked
<1>2. ASSUME NEW o \in Offsets PROVE Cells(regs, o) \subseteq Int /\ ReadCell(regs, o) \subseteq Int
  <2> DEFINE a == Address(regs, o)
  <2>1. a \in Int /\ regs.plane \in 0 .. 3
    BY <1>1, Layout DEF Address, Start, Bank, Registers, Offsets, Planes
  <2>2. EvenOdd(regs, a) \in Int
    BY <2>1 DEF EvenOdd
  <2>3. \A p \in Planes : 4 * a + p \in Int
    BY <2>1 DEF Planes
  <2> HIDE DEF a
  <2>4. regs.planes \subseteq Planes
    BY <1>1 DEF Registers
  <2>5. Cells(regs, o) \subseteq Int
    BY <2>1, <2>2, <2>3, <2>4 DEF Cells, a
  <2>6. ReadCell(regs, o) \subseteq Int
    BY <2>1, <2>2 DEF ReadCell, a
  <2> QED BY <2>5, <2>6
<1>3. ASSUME NEW o \in Offsets, NEW n \in Sizes, NEW s \in Patterns, NEW l \in Latches,
             NEW c \in DOMAIN Wide(regs, l, o, [i \in 1 .. n |-> s[i]]), c >= LENT
      PROVE  /\ o % n = 0 => WideClaims(regs, o, n)
             /\ StringTaken(regs, o) => StringClaims(regs, o, n)
  <2> DEFINE bs == [i \in 1 .. n |-> s[i]]
  <2>1. n \in Nat \ {0} /\ DOMAIN bs = 1 .. n
    BY DEF Sizes
  <2>2. CASE ~regs.chain4
    <3>1. PICK i \in 1 .. n : c \in Cells(regs, Along(o, i))
      BY <1>3, <2>1, <2>2 DEF Wide, ByBytes
    <3>2. Along(o, i) \in Offsets
      BY <2>1, Layout DEF Along, Offsets
    <3>3. Claims(regs, Along(o, i))
      BY <1>1, <1>2, <1>3, <3>1, <3>2, ByteClaims
    <3> QED BY <2>2, <3>3 DEF WideClaims, StringTaken
  <2>3. CASE regs.chain4 /\ Cells(regs, o) # {}
    <3>1. InWindow(regs, o) /\ Address(regs, o) \in Int
      BY <1>1, <2>3, Layout DEF Cells, Address, Start, Bank, Registers, Offsets
    <3>2. PICK i \in 1 .. n : c = Address(regs, o) + i - 1
      BY <1>3, <2>1, <2>3 DEF Wide, Run
    <3>3. Address(regs, o) + n > LENT
      BY <1>3, <2>1, <3>1, <3>2, Layout
    <3>4. o % n = 0 => Address(regs, o) >= LENT
      BY <1>1, <3>3, OneSide
    <3> QED BY <2>3, <3>1, <3>3, <3>4 DEF WideClaims, StringClaims
  <2>4. CASE regs.chain4 /\ Cells(regs, o) = {}
    <3>1. DOMAIN Wide(regs, l, o, bs) = {}
      BY <2>4 DEF Wide, Store
    <3> QED BY <1>3, <3>1
  <2> QED BY <2>2, <2>3, <2>4
<1> QED BY <1>1, <1>2, <1>3, ByteClaims DEF LentIsClaimed

(* The guest never reaches the memory lent to the JIT without claiming it back,  *)
(* by any access that is aligned to its size, in any mapping and any bank, and   *)
(* also after VBE was turned off (the tests of NJ_VGA_ARENA_OFF in vga.c).      *)
THEOREM LentMemoryIsClaimed == MSpec => []LentIsClaimed
BY BankedHolds, BankedClaims, PTL

-----------------------------------------------------------------------------
(* The windows lie in the aperture.                                           *)
LEMMA WindowFits ==
    ASSUME NEW r \in Registers, NEW o \in Int, InWindow(r, o)
    PROVE  o \in Offsets /\ Address(r, o) \in Nat
<1>1. r.map \in 0 .. 3 /\ r.bank \in Nat
  BY DEF Registers
<1>2. Start(r) \in Nat /\ Extent(r) \in Nat /\ Start(r) + Extent(r) <= 2 * WINDOW
  BY <1>1, Layout DEF Start, Extent
<1>3. Bank(r) \in Nat
  BY <1>1 DEF Bank
<1> QED BY <1>2, <1>3, Layout DEF InWindow, Offsets, Address

(* In chain 4, with every plane open, a byte of the window changes the cell at its *)
(* address, and the next byte the next one.                                   *)
LEMMA ChainedCells ==
    ASSUME NEW r \in Registers, r.chain4, r.planes = Planes, NEW o \in Offsets,
           NEW n \in Sizes, NEW i \in 1 .. n, InWindow(r, o), InWindow(r, o + n - 1)
    PROVE  /\ Along(o, i) = o + i - 1
           /\ Cells(r, Along(o, i)) = {Address(r, o) + i - 1}
<1>1. o \in Nat /\ n \in Nat /\ i \in 1 .. n /\ o + i - 1 \in Int /\ o + n - 1 \in Int
  BY Layout DEF Offsets, Sizes
<1>2. Start(r) \in Nat /\ Extent(r) \in Nat /\ Bank(r) \in Nat
  BY Layout DEF Start, Extent, Bank, Registers
<1>3. InWindow(r, o + i - 1)
  BY <1>1, <1>2 DEF InWindow
<1>4. o + i - 1 \in Offsets /\ Address(r, o + i - 1) \in Nat
  BY <1>1, <1>3, WindowFits
<1>5. Along(o, i) = o + i - 1
  BY <1>1, <1>4, Layout DEF Along, Offsets
<1>6. Address(r, o + i - 1) = Address(r, o) + i - 1
  BY <1>1, <1>2 DEF Address
<1>7. Address(r, o + i - 1) % 4 \in Planes
  BY <1>4 DEF Planes
<1>8. Cells(r, o + i - 1) = {Address(r, o + i - 1)}
  BY <1>3, <1>7 DEF Cells
<1> QED BY <1>5, <1>6, <1>8

(* Chain 4 looks at the first byte only, and stores the operand as a run.       *)
LEMMA WideAgrees ==
    ASSUME NEW r \in Registers, r.chain4, r.planes = Planes, NEW o \in Offsets,
           NEW n \in Sizes, NEW l, NEW bs, DOMAIN bs = 1 .. n,
           InWindow(r, o), InWindow(r, o + n - 1)
    PROVE  Wide(r, l, o, bs) = ByBytes(r, l, o, bs)
<1> DEFINE a == Address(r, o)
<1>1. n \in Nat \ {0} /\ 1 \in 1 .. n
  BY DEF Sizes
<1>2. a \in Nat
  BY WindowFits, Layout DEF Offsets
<1>3. \A i \in 1 .. n : Cells(r, Along(o, i)) = {a + i - 1}
  BY ChainedCells
<1>4. Cells(r, o) # {}
  <2>1. Along(o, 1) = o + 1 - 1
    BY <1>1, ChainedCells
  <2>2. Along(o, 1) = o
    BY <2>1, Layout DEF Offsets
  <2> QED BY <1>1, <1>3, <2>2
<1>5. Wide(r, l, o, bs) = Run(a, bs)
  BY <1>4 DEF Wide
<1> HIDE DEF a
<1>6. UNION {Cells(r, Along(o, i)) : i \in DOMAIN bs} = {a + i - 1 : i \in DOMAIN bs}
  BY <1>3
<1>7. ASSUME NEW c \in {a + i - 1 : i \in DOMAIN bs}
      PROVE  Stored(r, l, c, bs[CHOOSE i \in DOMAIN bs : c \in Cells(r, Along(o, i))])
               = bs[c - a + 1]
  <2>1. PICK k \in 1 .. n : c = a + k - 1
    OBVIOUS
  <2>2. \A i \in DOMAIN bs : c \in Cells(r, Along(o, i)) <=> i = k
    BY <1>1, <1>2, <1>3, <2>1
  <2>3. (CHOOSE i \in DOMAIN bs : c \in Cells(r, Along(o, i))) = k
    BY <2>2
  <2>4. c - a + 1 = k
    BY <1>2, <2>1
  <2> QED BY <2>3, <2>4 DEF Stored, Latched
<1> QED BY <1>5, <1>6, <1>7 DEF ByBytes, Run

(* With every plane open a load finds its byte among the cells that a store at the *)
(* same address changes, and finds none only where the store changes none.      *)
LEMMA ReadsWhatIsWritten ==
    ASSUME NEW r \in Registers, r.planes = Planes, NEW o \in Offsets
    PROVE  /\ ReadCell(r, o) \subseteq Cells(r, o)
           /\ ReadCell(r, o) = {} => Cells(r, o) = {}
<1> DEFINE a == Address(r, o)
<1>1. a \in Int /\ r.plane \in Planes /\ r.plane \in Int
  BY Layout DEF Address, Start, Bank, Registers, Offsets, Planes
<1>2. EvenOdd(r, a) \in Int
  BY <1>1 DEF EvenOdd
<1>3. a % 4 \in Planes /\ EvenOdd(r, a) % 4 \in Planes
  BY <1>1, <1>2 DEF Planes
<1> HIDE DEF a
<1>4. CASE r.chain4
  BY <1>3, <1>4 DEF ReadCell, Cells, a
<1>5. CASE ~r.chain4 /\ ~Latched(r)
  BY <1>3, <1>5 DEF ReadCell, Cells, a
<1>6. CASE ~r.chain4 /\ Latched(r)
  BY <1>1, <1>6 DEF ReadCell, Cells, a
<1> QED BY <1>4, <1>5, <1>6

(* The ways to the memory of the display agree in every mapping and every bank:  *)
(* an operand of several bytes with its bytes (vga_mem_write16, vga_mem_write32  *)
(* against vga_mem_write), a load with the stores before it (vga_mem_read).      *)
THEOREM WaysAgree == MSpec => []AccessesAgree
<1>1. ASSUME Banked PROVE AccessesAgree
  <2>1. regs \in Registers
    BY <1>1 DEF Banked
  <2>2. WideIsBytes
    BY <2>1, WideAgrees DEF WideIsBytes
  <2>3. ReadsBack
    BY <2>1, ReadsWhatIsWritten DEF ReadsBack
  <2> QED BY <2>2, <2>3 DEF AccessesAgree
<1> QED BY <1>1, BankedHolds, PTL

-----------------------------------------------------------------------------
(* The devices side by side.                                                   *)

(* An entry of the table of direct stores is one, whatever the registers say.   *)
TableTyped == table \in [Sizes -> [direct : BOOLEAN, ram : Nat, scale : {1, 4}, limit : Nat]]

LEMMA TableType ==
    ASSUME NEW r \in Registers
    PROVE  DirectTable(r) \in [Sizes -> [direct : BOOLEAN, ram : Nat, scale : {1, 4}, limit : Nat]]
<1> DEFINE E == [direct : BOOLEAN, ram : Nat, scale : {1, 4}, limit : Nat]
<1>1. Refused \in E
  BY DEF Refused
<1>2. ASSUME NEW n \in Sizes PROVE Direct(r, n) \in E
  <2>1. /\ Bank(r) \in Nat /\ Extent(r) \in Nat /\ Extent(r) > 0 /\ Top \in Nat /\ Top \div 4 \in Nat
        /\ n \in Nat
    <3>1. r.bank \in Nat /\ WINDOW \div 2 \in Nat /\ WINDOW \div 2 > 0
      BY Layout DEF Registers
    <3>2. Top \in Nat
      BY Layout DEF Top, Least
    <3> QED BY <3>1, <3>2, Layout DEF Bank, Extent, Sizes
  <2>2. CASE r.map > 1
    BY <1>1, <2>2 DEF Direct
  <2>3. CASE ~(r.map > 1) /\ r.chain4
    <3>1. CASE Span(r) >= n
      <4>1. Span(r) - n \in Nat
        BY <2>1, <3>1 DEF Span, Least
      <4>2. Entry(Bank(r), 1, Span(r) - n) \in E
        BY <2>1, <4>1 DEF Entry
      <4> QED BY <1>1, <2>3, <4>2 DEF Direct
    <3> QED BY <1>1, <2>3, <3>1 DEF Direct
  <2>4. CASE ~(r.map > 1) /\ ~r.chain4
    <3>1. CASE OneByte(r) /\ Bank(r) < Top \div 4
      <4> DEFINE q == CHOOSE p \in Planes : r.planes = {p}
                 d == Top \div 4
      <4>1. q \in 0 .. 3
        BY <3>1 DEF OneByte, Planes
      <4>2. d \in Nat /\ Bank(r) < d
        BY <2>1, <3>1
      <4>3. Direct(r, n) = IF n = 1 THEN Entry(4 * Bank(r) + q, 4, Least(d - Bank(r), Extent(r)) - 1)
                           ELSE Refused
        BY <2>4, <3>1 DEF Direct
      <4> HIDE DEF q, d
      <4>4. 4 * Bank(r) + q \in Nat /\ Least(d - Bank(r), Extent(r)) - 1 \in Nat
        BY <2>1, <4>1, <4>2 DEF Least
      <4>5. Entry(4 * Bank(r) + q, 4, Least(d - Bank(r), Extent(r)) - 1) \in E
        BY <4>4 DEF Entry
      <4> QED BY <1>1, <4>3, <4>5
    <3>2. CASE ~(OneByte(r) /\ Bank(r) < Top \div 4)
      BY <1>1, <2>4, <3>2 DEF Direct
    <3> QED BY <3>1, <3>2
  <2> QED BY <2>2, <2>3, <2>4
<1> QED BY <1>2 DEF DirectTable

LEMMA TableStarts ==
    ASSUME MInit
    PROVE  TableTyped
<1>1. regs \in Registers
  BY BankedStarts DEF Banked
<1> QED BY <1>1, TableType DEF MInit, TableTyped

LEMMA TableSteps ==
    ASSUME Banked, TableTyped, [MNext]_mvars
    PROVE  TableTyped'
<1>1. regs' \in Registers
  BY BankedSteps DEF Banked
<1>2. table' = DirectTable(regs') \/ table' = table
  BY DEF MNext, SequencerWrite, GraphicsWrite, AluWrite, VbeEnable, VbeMode, VbeBank, Follow,
         Refreshed, mvars
<1> QED BY <1>1, <1>2, TableType DEF TableTyped

(* What each of the eight parts keeps, whichever of them moves.                 *)
DevicesInv == HdInv /\ CdInv /\ KInv /\ PTypeOK /\ FAll /\ WInv /\ Banked /\ TableTyped /\ SInv

LEMMA AllStart ==
    ASSUME QUEUE \in Nat \ {0}, BUDGET \in Nat, AnyInit
    PROVE  DevicesInv /\ which \in {"hd", "cd", "kbc", "pit", "fdc", "cpu", "vga", "setup"}
BY HdStarts, CdStarts, KStarts, PTypesStart, FStarts, InitInv, BankedStarts, TableStarts, SStarts
   DEF AnyInit, DevicesInv

(* Every step of the whole is one of each part, or leaves it alone.             *)
LEMMA AnyStep ==
    ASSUME [AnyNext]_allvars
    PROVE  /\ [HdNext]_hdvars /\ [CdNext]_cdvars /\ [KNext]_kvars /\ [PNext]_pvars
           /\ [FNext]_fvars /\ [WNext]_wvars /\ [MNext]_mvars /\ [SNext]_svars
           /\ which' = which
BY DEF AnyNext, allvars, OnlyHd, OnlyCd, OnlyKbc, OnlyPit, OnlyFdc, OnlyCpu, OnlyVga, OnlySetup

LEMMA AllStep ==
    ASSUME AmpleLimits, ~SwapsKind, QUEUE \in Nat \ {0}, BUDGET \in Nat, DevicesInv, [AnyNext]_allvars
    PROVE  DevicesInv' /\ which' = which
<1>1. /\ [HdNext]_hdvars /\ [CdNext]_cdvars /\ [KNext]_kvars /\ [PNext]_pvars
      /\ [FNext]_fvars /\ [WNext]_wvars /\ [MNext]_mvars /\ [SNext]_svars /\ which' = which
  BY AnyStep
<1>2. HdInv /\ CdInv /\ KInv /\ PTypeOK /\ FAll /\ WInv /\ Banked /\ TableTyped /\ SInv
  BY DEF DevicesInv
<1>3. HdInv' /\ CdInv'
  BY <1>1, <1>2, HdSteps, CdSteps
<1>4. KInv' /\ PTypeOK' /\ WInv'
  BY <1>1, <1>2, KSteps, PTypesKeep, WSteps
<1>5. FAll'
  BY <1>1, <1>2, FSteps
<1>6. Banked' /\ TableTyped'
  BY <1>1, <1>2, BankedSteps, TableSteps
<1>7. SInv'
  BY <1>1, <1>2, SSteps
<1> QED BY <1>1, <1>3, <1>4, <1>5, <1>6, <1>7 DEF DevicesInv

LEMMA AllTyped ==
    ASSUME DevicesInv
    PROVE  /\ HdTypeOK /\ CdTypeOK /\ KTypeOK /\ PTypeOK /\ FTypeOK /\ WTypeOK /\ MTypeOK /\ STypeOK
<1>1. HdTypeOK /\ CdTypeOK
  BY DEF DevicesInv, HdInv, CdInv
<1>2. KTypeOK /\ PTypeOK /\ WTypeOK
  BY Parts DEF DevicesInv, KInv, WInv
<1>3. FTypeOK
  BY DEF DevicesInv, FAll, FRest, FInv, Ranges, FTypeOK
<1>4. MTypeOK
  BY DEF DevicesInv, Banked, TableTyped, MTypeOK
<1>5. STypeOK
  BY DEF DevicesInv, SInv
<1> QED BY <1>1, <1>2, <1>3, <1>4, <1>5

(* The registers, tables and queues of every device keep their types (ide.c,      *)
(* i8042.c, i8254.c, fdd.c, vga.c, diskui.c and the CPU's flags), for queues,      *)
(* disks, counters, batches and memories of any size.                           *)
THEOREM DevicesKeepTypes ==
    ASSUME AmpleLimits, ~SwapsKind, QUEUE \in Nat \ {0}, BUDGET \in Nat
    PROVE  AnySpec => []DevicesTypeOK
<1> DEFINE Chosen == which \in {"hd", "cd", "kbc", "pit", "fdc", "cpu", "vga", "setup"}
<1>1. AnyInit => DevicesInv /\ Chosen
  BY AllStart
<1>2. DevicesInv /\ Chosen /\ [AnyNext]_allvars => DevicesInv' /\ Chosen'
  BY AllStep
<1>3. DevicesInv /\ Chosen => DevicesTypeOK
  BY AllTyped DEF DevicesTypeOK
<1> QED BY <1>1, <1>2, <1>3, PTL DEF AnySpec

(* The memory lent to the JIT stays claimed among the other devices as well, and  *)
(* nothing need be assumed of those.                                          *)
THEOREM LentStays == AnySpec => []LentStaysLent
<1>1. AnyInit => Banked
  BY BankedStarts DEF AnyInit
<1>2. Banked /\ [AnyNext]_allvars => Banked'
  BY AnyStep, BankedSteps
<1>3. Banked => LentStaysLent
  BY BankedClaims DEF LentStaysLent
<1> QED BY <1>1, <1>2, <1>3, PTL DEF AnySpec
=============================================================================
