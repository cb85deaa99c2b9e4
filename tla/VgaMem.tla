------------------------------- MODULE VgaMem -------------------------------
(***************************************************************************)
(* How a store of the guest reaches the memory of the display               *)
(* (src/src/vga.c).  The interpreter takes it through the registers of the   *)
(* sequencer and the graphics controller, a byte at a time or, in chain 4,     *)
(* several at once; translated code takes it straight to memory, through a     *)
(* table of base, scale and limit for each size of operand                   *)
(* (njit_vga_arena.h) that is made again where a register changes.    *)
(* The top of the memory may be lent to the JIT, and must be claimed back       *)
(* before the guest touches it (see JitCache for what a claim does).          *)
(*                                                                         *)
(* What the memory holds is no part of the state: a store is a function from  *)
(* the cells it changes to the bytes it leaves there, and the properties ask    *)
(* of every store the guest could make next.  The comparing read mode is left   *)
(* out, and so is all of the CRT controller.                                *)
(***************************************************************************)
EXTENDS Integers

CONSTANTS WINDOW,   \* bytes of the 64 KB window; the aperture is two of them
          RAM,      \* vga_ram_size
          LENT,     \* NJ_VGA_ARENA_OFF: the first of the bytes that may be lent
          Latches,  \* what the latch may hold, a byte per plane
          Patterns, \* four bytes the guest may store
          Sequencer, Graphics, \* values the guest writes to sr[4] and sr[2], gr[5] and gr[6]
          Alu,      \* and to gr[3], gr[1], gr[0], gr[8]
          BANKS,    \* VBE banks
          Disables  \* whether the guest turns VBE off

Planes == 0 .. 3
Bits == 0 .. 7
Bytes == SUBSET Bits
Sizes == {1, 2, 4}
Offsets == 0 .. 2 * WINDOW - 1

ASSUME Layout == /\ WINDOW \in Nat \ {0} /\ RAM \in Nat /\ LENT \in Nat
                 /\ WINDOW % 8 = 0 /\ RAM % 4 = 0 /\ LENT % 4 = 0
                 /\ Latches \subseteq [Planes -> Bytes] /\ Patterns \subseteq [1 .. 4 -> Bytes]
ASSUME Written == /\ Sequencer \subseteq [chain4 : BOOLEAN, planes : SUBSET Planes]
                  /\ Graphics \subseteq [evenodd : BOOLEAN, chained : BOOLEAN, wmode : 0 .. 3,
                                         map : 0 .. 3, plane : Planes]
                  /\ Alu \subseteq [func : 0 .. 3, rotate : 0 .. 7, set : SUBSET Planes,
                                    value : SUBSET Planes, mask : Bytes]
                  /\ BANKS \in Nat \ {0} /\ Disables \in BOOLEAN

VARIABLES regs,  \* sr[2], sr[4], gr[0], gr[1], gr[3] to gr[6], gr[8] and bank_offset
          vbe,   \* VBE is enabled
          deep,  \* its depth is not 4 bits
          table  \* njit_vga_write

mvars == <<regs, vbe, deep, table>>

Registers ==
    [chain4 : BOOLEAN,              \* sr[4], chain 4
     planes : SUBSET Planes,        \* sr[2]
     evenodd : BOOLEAN,             \* gr[5], odd/even
     chained : BOOLEAN,             \* gr[6], chain odd/even
     map : 0 .. 3,                  \* gr[6], memory map
     wmode : 0 .. 3,                \* gr[5], write mode
     plane : Planes,                \* gr[4]
     func : 0 .. 3, rotate : 0 .. 7, \* gr[3]
     set : SUBSET Planes,           \* gr[1], enable set/reset
     value : SUBSET Planes,         \* gr[0], set/reset
     mask : Bytes,                  \* gr[8]
     bank : Nat]                    \* bank_offset

-----------------------------------------------------------------------------
(* The address of a byte of the aperture.                                   *)

Start(r) == IF r.map < 2 THEN 0 ELSE IF r.map = 2 THEN WINDOW ELSE WINDOW + WINDOW \div 2
Extent(r) == IF r.map = 0 THEN 2 * WINDOW ELSE IF r.map = 1 THEN WINDOW ELSE WINDOW \div 2
InWindow(r, o) == o >= Start(r) /\ o < Start(r) + Extent(r)
Bank(r) == IF r.map = 1 THEN r.bank ELSE 0
Address(r, o) == o - Start(r) + Bank(r)

Latched(r) == ~r.chain4 /\ ~r.evenodd /\ ~r.chained

\* odd/even: address bit 0 chooses the plane, gr[4] the pair of planes
EvenOdd(r, a) == 2 * (a - (a % 2)) + 2 * (r.plane \div 2) + (a % 2)

-----------------------------------------------------------------------------
(* vga_mem_write                                                           *)

Rotated(v, n) == {i \in Bits : (i + n) % 8 \in v}
Solid(ps, p) == IF p \in ps THEN Bits ELSE {}

\* the byte before the logical operation, the latch, the bits that are written
Data(r, p, v) == CASE r.wmode = 0 -> IF p \in r.set THEN Solid(r.value, p)
                                                      ELSE Rotated(v, r.rotate)
                   [] r.wmode = 2 -> Solid(v, p)
                   [] OTHER       -> Solid(r.value, p)
Written8(r, v) == IF r.wmode = 3 THEN r.mask \cap Rotated(v, r.rotate) ELSE r.mask

Combined(f, d, l) == CASE f = 0 -> d
                       [] f = 1 -> d \cap l
                       [] f = 2 -> d \cup l
                       [] f = 3 -> (d \ l) \cup (l \ d)

\* what plane p is left with when v is stored through latch l
Through(r, l, p, v) ==
    IF r.wmode = 1 THEN l[p]
    ELSE LET m == Written8(r, v)
         IN (Combined(r.func, Data(r, p, v), l[p]) \cap m) \cup (l[p] \ m)

\* the cells a byte at o changes
Cells(r, o) ==
    LET a == Address(r, o)
    IN IF ~InWindow(r, o) THEN {}
       ELSE IF r.chain4 THEN {c \in {a} : c % 4 \in r.planes}
       ELSE IF ~Latched(r) THEN {c \in {EvenOdd(r, a)} : c % 4 \in r.planes /\ c < RAM}
       ELSE IF 4 * a < RAM THEN {4 * a + p : p \in r.planes} ELSE {}

Stored(r, l, c, v) == IF Latched(r) THEN Through(r, l, c % 4, v) ELSE v

Store(r, l, o, v) == [c \in Cells(r, o) |-> Stored(r, l, c, v)]

\* njit_vga_arena_forfeit is called
Claims(r, o) ==
    LET a == Address(r, o)
    IN /\ InWindow(r, o)
       /\ IF r.chain4 THEN a % 4 \in r.planes /\ a >= LENT
          ELSE IF ~Latched(r) THEN EvenOdd(r, a) % 4 \in r.planes /\ EvenOdd(r, a) >= LENT
          ELSE 4 * a >= LENT

\* the bytes of bs one after the other; their cells are distinct
Along(o, i) == (o + i - 1) % (2 * WINDOW)
ByBytes(r, l, o, bs) ==
    [c \in UNION {Cells(r, Along(o, i)) : i \in DOMAIN bs} |->
        Stored(r, l, c, bs[CHOOSE i \in DOMAIN bs : c \in Cells(r, Along(o, i))])]

\* as many bytes from cell h on
Run(h, bs) == [c \in {h + i - 1 : i \in DOMAIN bs} |-> bs[c - h + 1]]

\* vga_mem_write16, vga_mem_write32: chain 4 looks at the first byte only
Wide(r, l, o, bs) ==
    IF ~r.chain4 THEN ByBytes(r, l, o, bs)
    ELSE IF Cells(r, o) # {} THEN Run(Address(r, o), bs) ELSE Store(r, l, o, bs[1])
WideClaims(r, o, n) ==
    IF ~r.chain4 THEN \E i \in 1 .. n : Claims(r, Along(o, i))
    ELSE InWindow(r, o) /\ Address(r, o) >= LENT

\* vga_mem_write_string stores as they do, or leaves it to them byte by byte
StringTaken(r, o) == r.chain4 /\ Cells(r, o) # {}

\* the end of the string is not looked at
BadStringClaims(r, o, n) == r.chain4 /\ InWindow(r, o) /\ Address(r, o) >= LENT

StringClaims(r, o, n) == r.chain4 /\ InWindow(r, o) /\ Address(r, o) + n > LENT

\* what the interpreter does with an operand of one, two or four bytes
Interpreted(r, l, o, bs) ==
    IF DOMAIN bs = {1} THEN Store(r, l, o, bs[1]) ELSE Wide(r, l, o, bs)
InterpreterClaims(r, o, n) == IF n = 1 THEN Claims(r, o) ELSE WideClaims(r, o, n)

-----------------------------------------------------------------------------
(* vga_mem_read: the cell whose byte it gives                               *)

\* the odd/even bit of gr[5] alone decides
BadReadCell(r, o) ==
    LET a == Address(r, o)
    IN IF ~InWindow(r, o) THEN {}
       ELSE IF r.chain4 THEN {a}
       ELSE IF r.evenodd THEN {c \in {EvenOdd(r, a)} : c < RAM}
       ELSE IF 4 * a < RAM THEN {4 * a + r.plane} ELSE {}

ReadCell(r, o) ==
    LET a == Address(r, o)
    IN IF ~InWindow(r, o) THEN {}
       ELSE IF r.chain4 THEN {a}
       ELSE IF ~Latched(r) THEN {c \in {EvenOdd(r, a)} : c < RAM}
       ELSE IF 4 * a < RAM THEN {4 * a + r.plane} ELSE {}

ReadClaims(r, o) ==
    LET a == Address(r, o)
    IN InWindow(r, o) /\ (IF r.chain4 THEN a ELSE IF ~Latched(r) THEN EvenOdd(r, a)
                          ELSE 4 * a) >= LENT

-----------------------------------------------------------------------------
(* njit_vga_write_update: the table of direct stores, an entry per size      *)

Least(m, n) == IF m < n THEN m ELSE n
Top == Least(RAM, LENT)

Refused == [direct |-> FALSE, ram |-> 0, scale |-> 1, limit |-> 0]
Entry(ram, scale, limit) == [direct |-> TRUE, ram |-> ram, scale |-> scale, limit |-> limit]

\* a store leaves the byte it stores, in one plane
OneByte(r) == /\ Latched(r) /\ r.wmode = 0 /\ r.func = 0 /\ r.rotate = 0 /\ r.set = {}
            /\ r.mask = Bits
            /\ \E p \in Planes : r.planes = {p}

\* bytes that chain 4 reaches
Span(r) == Least(Top - Bank(r), Extent(r))

\* what the entry for operands of n bytes says
Direct(r, n) ==
    IF r.map > 1 THEN Refused
    ELSE IF r.chain4
    THEN IF r.planes = Planes /\ Span(r) >= n THEN Entry(Bank(r), 1, Span(r) - n) ELSE Refused
    ELSE IF n = 1 /\ OneByte(r) /\ Bank(r) < Top \div 4
    THEN Entry(4 * Bank(r) + (CHOOSE p \in Planes : r.planes = {p}), 4,
               Least(Top \div 4 - Bank(r), Extent(r)) - 1)
    ELSE Refused

DirectTable(r) == [n \in Sizes |-> Direct(r, n)]

\* the guard of translated code, and its store
Admits(t, n, o) == t[n].direct /\ o <= t[n].limit
Native(t, n, o, bs) == Run(t[n].ram + t[n].scale * o, bs)

-----------------------------------------------------------------------------
(* The ports.                                                              *)

\* vga_initmode: text
MInit == /\ regs = [chain4 |-> FALSE, planes |-> {0, 1}, evenodd |-> TRUE, chained |-> TRUE,
                    map |-> 3, wmode |-> 0, plane |-> 0, func |-> 0, rotate |-> 0,
                    set |-> {}, value |-> {}, mask |-> Bits, bank |-> 0]
         /\ vbe = FALSE /\ deep = TRUE
         /\ table = DirectTable(regs)

Refreshed == table' = DirectTable(regs')

\* port 0x3c5
SequencerWrite(q) ==
    /\ regs' = [regs EXCEPT !.chain4 = q.chain4] \/ regs' = [regs EXCEPT !.planes = q.planes]
    /\ Refreshed
    /\ UNCHANGED <<vbe, deep>>

\* port 0x3cf: gr[4], gr[5], gr[6]
GraphicsWrite(g) ==
    /\ \/ regs' = [regs EXCEPT !.plane = g.plane]
       \/ regs' = [regs EXCEPT !.evenodd = g.evenodd, !.wmode = g.wmode]
       \/ regs' = [regs EXCEPT !.chained = g.chained, !.map = g.map]
    /\ Refreshed
    /\ UNCHANGED <<vbe, deep>>

\* gr[0], gr[1], gr[3], gr[8]
AluWrite(u) ==
    /\ \/ regs' = [regs EXCEPT !.func = u.func, !.rotate = u.rotate]
       \/ regs' = [regs EXCEPT !.set = u.set]
       \/ regs' = [regs EXCEPT !.value = u.value]
       \/ regs' = [regs EXCEPT !.mask = u.mask]
    /\ Refreshed
    /\ UNCHANGED <<vbe, deep>>

\* vbe_update_vgaregs, with bank b
Follow(on, depth, b) ==
    IF on
    THEN /\ regs' = [regs EXCEPT !.map = 1, !.bank = b,
                                 !.chain4 = @ \/ depth,
                                 !.planes = IF depth THEN Planes ELSE @]
         /\ Refreshed
    ELSE /\ regs' = [regs EXCEPT !.bank = b]
         /\ UNCHANGED table

\* the ENABLE register of VBE
VbeEnable(on) ==
    /\ on \/ Disables
    /\ Follow(on, deep, IF on /\ ~vbe THEN regs.bank ELSE 0)
    /\ vbe' = on
    /\ UNCHANGED deep

\* its resolution and depth
VbeMode(depth) ==
    /\ deep' = depth
    /\ Follow(vbe, depth, regs.bank)
    /\ UNCHANGED vbe

\* the table is not made again
BadVbeBank(b) ==
    /\ regs' = [regs EXCEPT !.bank = b * WINDOW]
    /\ UNCHANGED <<vbe, deep, table>>

\* its BANK register
VbeBank(b) ==
    /\ regs' = [regs EXCEPT !.bank = b * WINDOW]
    /\ Refreshed
    /\ UNCHANGED <<vbe, deep>>

MNext == \/ \E q \in Sequencer : SequencerWrite(q)
         \/ \E g \in Graphics : GraphicsWrite(g)
         \/ \E u \in Alu : AluWrite(u)
         \/ \E on \in BOOLEAN : VbeEnable(on) \/ VbeMode(on)
         \/ \E b \in 0 .. BANKS - 1 : VbeBank(b)

MSpec == MInit /\ [][MNext]_mvars

-----------------------------------------------------------------------------
MTypeOK == /\ regs \in Registers
           /\ vbe \in BOOLEAN /\ deep \in BOOLEAN
           /\ table \in [Sizes -> [direct : BOOLEAN, ram : Nat, scale : {1, 4}, limit : Nat]]

\* A store that translated code may make straight to memory leaves there exactly
\* what the interpreter's would, whatever the latch holds, and is not one that has
\* to claim the lent memory (njit_vga_arena.h:95 to 108, vga.c:486: "reproduces
\* vga_mem_write() exactly").
DirectIsInterpreted ==
    \A n \in Sizes, o \in Offsets, s \in Patterns :
        Admits(table, n, o) =>
            LET bs == [i \in 1 .. n |-> s[i]]
            IN /\ \A l \in Latches : Native(table, n, o, bs) = Interpreted(regs, l, o, bs)
               /\ ~InterpreterClaims(regs, o, n)

\* In chain 4 with every plane open, an operand of several bytes that lies in the
\* window is stored as its bytes would be one after the other.
WideIsBytes ==
    regs.chain4 /\ regs.planes = Planes =>
        \A n \in Sizes, o \in Offsets, s \in Patterns, l \in Latches :
            InWindow(regs, o) /\ InWindow(regs, o + n - 1) =>
                LET bs == [i \in 1 .. n |-> s[i]]
                IN Wide(regs, l, o, bs) = ByBytes(regs, l, o, bs)

\* What a store leaves can be read back at its address.
ReadsBack ==
    regs.planes = Planes =>
        \A o \in Offsets : /\ ReadCell(regs, o) \subseteq Cells(regs, o)
                          /\ ReadCell(regs, o) = {} => Cells(regs, o) = {}

\* The ways to the memory of the display agree in every mapping: an operand of
\* several bytes with its bytes, a load with the stores before it ("the read path
\* has to agree with the write path above, or a read-modify-write scrambles the
\* screen", vga.c:2152).
AccessesAgree == WideIsBytes /\ ReadsBack

\* No access of the guest, aligned to its size, reaches the memory lent to the JIT
\* without claiming it.
LentIsClaimed ==
    \A o \in Offsets :
        /\ (\E c \in Cells(regs, o) : c >= LENT) => Claims(regs, o)
        /\ (\E c \in ReadCell(regs, o) : c >= LENT) => ReadClaims(regs, o)
        /\ \A n \in Sizes, s \in Patterns, l \in Latches :
              (\E c \in DOMAIN Wide(regs, l, o, [i \in 1 .. n |-> s[i]]) : c >= LENT) =>
                  /\ o % n = 0 => WideClaims(regs, o, n)
                  /\ StringTaken(regs, o) => StringClaims(regs, o, n)
=============================================================================
