------------------------------- MODULE JitCache -------------------------------
(***************************************************************************)
(* The cache of translated code of the native JIT (src/src/i386.c, nj_...): *)
(* blocks in a small set-associative table, their ARM code packed in an     *)
(* arena, the summary of the guest pages they were translated from, the     *)
(* sets of shared guards they call, and the arena lent to them by the       *)
(* display (src/src/njit_vga_arena.h).                                     *)
(*                                                                         *)
(* All of it runs on core 0.  What makes it hard is who else writes: the    *)
(* guest stores over its own code, remaps pages, changes mode, and takes    *)
(* the lent memory back, all between and some of it inside translated       *)
(* blocks.  Left out: what a block computes, the table of hot addresses,    *)
(* the filter of heads (a head it rejects is not in the table), and the     *)
(* segment bases a block was translated for, which the linear address and   *)
(* the mode stand for.                                                     *)
(***************************************************************************)
EXTENDS Integers, FiniteSets

CONSTANTS
    PAGE,        \* bytes of a page
    Ram,         \* physical pages of guest memory, numbered
    Linear,      \* linear pages, numbered
    Modes,       \* values of nj_mmu_key
    PagedModes,       \* those with paging on
    Flat,        \* without paging: the page of a linear page, under the A20 mask
    Outs,        \* the modes an OUT in translated code may lead to (the A20 gate)
    Ways,        \* entries of the table
    SetOf,       \* the ways of a head in a mode
    Traces,      \* what the guest runs often: [head, len, data, mem, words], data
                 \* being what it stores in at known addresses, mem whether it has
                 \* other memory operands, words how long its code may come out
    Stores,      \* stores of the guest: [page, off, len]
    NativeStores,\* stores a translated block may make itself
    GuardSets,   \* sets of shared guards, numbered from 0
    HOME, LENT,  \* words of the arena of its own and of the lent one
    RESERVE      \* words set aside for a translation before it is emitted

Guards == 0 .. GuardSets - 1
Cells == Ram \X (0 .. PAGE - 1)      \* physical addresses
Heads == Linear \X (0 .. PAGE - 1)   \* linear addresses
Gone == -1       \* a page the TLB does not hold
NoWay == -1
NoBlock == [head |-> <<Gone, 0>>]
NoGuard == -1
Dead == "dead"   \* a set of guards that is not built
NoTrace == [head |-> <<Gone, 0>>]

ASSUME JitSizes == /\ {PAGE, HOME, LENT, RESERVE} \subseteq Nat \ {0}
                   /\ GuardSets \in Nat /\ RESERVE <= HOME /\ RESERVE <= LENT
ASSUME JitPages == Ram \subseteq Nat /\ Linear \subseteq Nat
ASSUME JitModes == /\ PagedModes \subseteq Modes /\ Dead \notin Modes
                   /\ Flat \in [Modes \ PagedModes -> [Linear -> Ram]]
                   /\ Outs \in [Modes -> SUBSET Modes]
ASSUME JitTable == /\ Ways \subseteq Nat /\ IsFiniteSet(Ways)
                   /\ SetOf \in [Heads \X Modes -> SUBSET Ways]
\* a trace spans two pages at most
ASSUME JitTraces == Traces \subseteq [head: Heads, len: 1 .. PAGE, data: SUBSET Heads,
                                      mem: BOOLEAN, words: SUBSET (1 .. RESERVE)]
ASSUME JitStores == /\ Stores \subseteq [page: Ram, off: 0 .. PAGE - 1, len: 1 .. PAGE]
                    /\ NativeStores \subseteq Stores

VARIABLES
    code,       \* nj_cache
    marks,      \* nj_page_bits
    lent,       \* nj_arena is the lent one
    top,        \* nj_code_ptr, from the start of the arena
    offered,    \* nj_vga_arena_offered
    forfeited,  \* nj_vga_arena_forfeited
    guards,     \* nj_guard_key of the sets that are live
    inUse,      \* nj_guard_cur
    turn,       \* nj_guard_next_victim
    mode,       \* what nj_mmu_key computes now
    map,        \* the pages the TLB would find, with paging on
    at,         \* where core 0 is: with the guest, or in a step of the JIT
    asked,      \* the trace being translated
    running,    \* the entry whose code runs or is about to
    stored      \* history: the guest has stored in the lent memory

arena == <<lent, top, offered, forfeited>>
guarding == <<guards, inUse, turn>>
world == <<mode, map, stored>>
flow == <<at, asked, running>>
jvars == <<code, marks, arena, guarding, world, flow>>

Size(l) == IF l THEN LENT ELSE HOME
Live(c) == {w \in Ways : c[w] # NoBlock}
Words(b) == b.at .. b.at + b.hw - 1

\* the bytes a store reaches
Reach(s) == Cells \cap ({<<s.page, i>> : i \in s.off .. s.off + s.len - 1} \cup
                        {<<s.page + 1, i - PAGE>> : i \in PAGE .. s.off + s.len - 1})

-----------------------------------------------------------------------------
(* Where the guest's bytes are. *)

\* the page the CPU fetches a linear page from; Gone if it must ask the tables
PageOf(m, mp, l) == IF l \notin Linear THEN Gone
                    ELSE IF m \in PagedModes THEN mp[l] ELSE Flat[m][l]

\* nj_v8_code_window: bytes in the page of the head, and what is on the next one
InFirst(h) == PAGE - h[2]
Second(h) == PageOf(mode, map, h[1] + 1)

\* the bytes the CPU would execute for len bytes from h
Fetched(m, mp, h, len) ==
    [i \in 0 .. len - 1 |-> IF h[2] + i < PAGE THEN <<PageOf(m, mp, h[1]), h[2] + i>>
                            ELSE <<PageOf(m, mp, h[1] + 1), h[2] + i - PAGE>>]

Data(m, mp, ds) == {<<PageOf(m, mp, d[1]), d[2]>> : d \in ds}

-----------------------------------------------------------------------------
(* The table. *)

First(b) == IF b.split > 0 THEN b.split ELSE b.len

\* the bytes a block stands for, as nj_invalidate_exact_range computes them
Bytes(b) == {<<b.page, b.head[2] + i>> : i \in 0 .. First(b) - 1}
              \cup {<<b.page2, i>> : i \in 0 .. b.len - First(b) - 1}

\* the page it crosses into is forgotten
BadPagesOf(b) == {b.page}

PagesOf(b) == {b.page} \cup (IF b.split > 0 THEN {b.page2} ELSE {})

\* nj_rebuild_pages
MarksOf(c) == UNION {PagesOf(c[w]) : w \in Live(c)}

Over(c, cells, except) == {w \in Live(c) \ {except} : Bytes(c[w]) \cap cells # {}}
Without(c, ws) == [w \in Ways |-> IF w \in ws THEN NoBlock ELSE c[w]]

\* nj_note_write: what a store of the guest invalidates
Noted(s) == IF \E c \in Reach(s) : c[1] \in marks THEN Over(code, Reach(s), NoWay) ELSE {}

\* nj_invalidate_exact_range, once it has found the blocks
Keep(ws) == marks' = IF ws = {} THEN marks ELSE MarksOf(Without(code, ws))

\* the ghost: blocks whose bytes have been stored over since they were read
Rot(c, cells) ==
    [w \in Ways |-> IF w \in Live(c) /\ \E i \in 0 .. c[w].len - 1 : c[w].from[i] \in cells
                    THEN [c[w] EXCEPT !.fresh = FALSE] ELSE c[w]]

-----------------------------------------------------------------------------
(* The arena. *)

\* words taken by the blocks below a block: where compaction puts it
Below(c, w) == {x \in 0 .. top - 1 : \E v \in Live(c) : c[v].at < c[w].at /\ x \in Words(c[v])}
Place(c, w) == Cardinality(Below(c, w))
Taken(c) == Cardinality({x \in 0 .. top - 1 : \E v \in Live(c) : x \in Words(c[v])})

\* the ghost: a block moved after another was copied over it
Torn(c, w) == \E v \in Live(c) :
                /\ c[v].at < c[w].at
                /\ Words([c[v] EXCEPT !.at = Place(c, v)]) \cap Words(c[w]) # {}

\* nj_compact_code
Compacted(c) == [w \in Ways |-> IF w \notin Live(c) THEN c[w]
                                ELSE [c[w] EXCEPT !.at = Place(c, w),
                                                  !.whole = @ /\ ~Torn(c, w)]]

\* nj_flush
Flushed == /\ code' = [w \in Ways |-> NoBlock]
           /\ marks' = {}
           /\ top' = 0

\* nj_arena_switch
Switch(l) == Flushed /\ lent' = l

\* njit_vga_arena_release
Release == IF lent THEN Switch(FALSE) ELSE UNCHANGED <<code, marks, top, lent>>

\* njit_vga_arena_forfeit
Forfeit == /\ stored' = TRUE /\ forfeited' = TRUE /\ offered' = FALSE
           /\ Release

\* taken back, but not for good
Claim == /\ offered' = FALSE /\ UNCHANGED <<forfeited, stored>>
         /\ Release

Fits(t, l) == Size(l) - t >= RESERVE

-----------------------------------------------------------------------------
(* The guest, in the interpreter. *)

Guest == at = "guest" /\ UNCHANGED <<guarding, flow>>

\* pstore8, pstore16, pstore32
NotedStore(s) == LET hit == Noted(s) IN
    /\ code' = Rot(Without(code, hit), Reach(s))
    /\ Keep(hit)

GuestStore(s) == Guest /\ NotedStore(s) /\ UNCHANGED <<arena, world>>

\* the TLB is refilled, evicted or flushed, the tables having changed or not
GuestRemap(l, p) ==
    /\ Guest
    /\ mode \in PagedModes
    /\ map' = [map EXCEPT ![l] = p]
    /\ UNCHANGED <<code, marks, arena, mode, stored>>

\* a far jump, an interrupt, the A20 gate, or MOV CR0, which clears the TLB as it
\* turns paging on or off
GuestMode(m) ==
    /\ Guest
    /\ mode' = m
    /\ map' = IF (m \in PagedModes) = (mode \in PagedModes) THEN map ELSE [l \in Linear |-> Gone]
    /\ UNCHANGED <<code, marks, arena, stored>>

\* a store through the VGA windows into the lent memory
VideoStore == Guest /\ Forfeit /\ UNCHANGED <<mode, map>>

\* an access through the linear aperture of PCI, or a clear by the VBE registers
VideoClaim == Guest /\ Claim /\ UNCHANGED <<mode, map>>

\* the guard on what the guest has claimed is forgotten
BadRearm == offered' = TRUE

\* njit_vga_arena_rearm
Rearm == offered' = (offered \/ ~forfeited)

VideoMode ==
    /\ Guest
    /\ Rearm
    /\ UNCHANGED <<code, marks, lent, top, forfeited, world>>

\* njit_diag_reset_hot: Win+F7
ColdStart ==
    /\ Guest
    /\ Flushed
    /\ UNCHANGED <<lent, offered, forfeited, world>>

-----------------------------------------------------------------------------
(* A backward branch: nj_try_execute. *)

Probe == at = "guest" /\ at' = "look" /\ UNCHANGED <<asked, running, world>>

GuardsOk == GuardSets > 0 /\ guards[inUse] = mode

\* nj_guards_build; a set that does not fit its memory stays dead
Build(g) == \E fits \in BOOLEAN :
    /\ guards' = [guards EXCEPT ![g] = IF fits THEN mode ELSE Dead]
    /\ inUse' = IF fits THEN g ELSE inUse

\* nj_guards_refresh
ProbeReady ==
    /\ Probe
    /\ GuardSets = 0 \/ GuardsOk
    /\ UNCHANGED <<code, marks, arena, guarding>>

ProbeOther(g) ==
    /\ Probe
    /\ ~GuardsOk /\ guards[g] = mode
    /\ inUse' = g
    /\ UNCHANGED <<code, marks, arena, guards, turn>>

ProbeBuild(g) ==
    /\ Probe
    /\ \A h \in Guards : guards[h] # mode
    /\ guards[g] = Dead /\ \A h \in 0 .. g - 1 : guards[h] # Dead
    /\ Build(g)
    /\ UNCHANGED <<code, marks, arena, turn>>

\* the blocks that call the old set stay
BadDropCallers == UNCHANGED <<code, marks, top>>

DropCallers == IF top # 0 THEN Flushed ELSE UNCHANGED <<code, marks, top>>

ProbeSteal ==
    /\ Probe
    /\ GuardSets > 0 /\ \A h \in Guards : guards[h] \notin {mode, Dead}
    /\ turn' = (turn + 1) % GuardSets
    /\ Build(turn)
    /\ DropCallers
    /\ UNCHANGED <<lent, offered, forfeited>>

-----------------------------------------------------------------------------
(* Look-up and entry: nj_lookup_linear, nj_exec_loop. *)

\* nj_code_mapping_valid; a block with data is left to the walk on its entry
Mapped(b) ==
    \/ mode \notin PagedModes
    \/ b.data # {}
    \/ /\ map[b.head[1]] = b.page
       /\ b.split > 0 => map[b.head[1] + 1] = b.page2

\* nj_block_matches
Matches(w, h) == /\ w \in SetOf[<<h, mode>>] /\ code[w] # NoBlock
                 /\ code[w].head = h /\ code[w].mode = mode
                 /\ Mapped(code[w])

\* nj_v45_paged_static_valid, of a block with data
Walked(b) ==
    \/ mode \notin PagedModes
    \/ b.data = {}
    \/ /\ map[b.head[1]] = b.page
       /\ b.split > 0 => map[b.head[1] + 1] = b.page2
       /\ Data(mode, map, b.data) = b.writes

\* nj_exec_loop: what the block's own stores reach is dropped before it runs
Enter(w) ==
    /\ Walked(code[w])
    /\ at' = "run"
    /\ running' = w
    /\ LET hit == Over(code, code[w].writes, w) IN
         /\ code' = Without(code, hit)
         /\ Keep(hit)

Looking == at = "look" /\ UNCHANGED <<arena, guarding, world>>

Hit(t, w) == Looking /\ Matches(w, t.head) /\ Enter(w) /\ UNCHANGED asked

\* nothing translated, or not for this state of the tables
Miss(t) ==
    /\ Looking
    /\ \A w \in Ways : ~Matches(w, t.head)
    /\ PageOf(mode, map, t.head[1]) # Gone
    /\ at' = "room" /\ asked' = t
    /\ UNCHANGED <<code, marks, running>>

\* not hot enough, refused, out of budget, or the walk of the tables failed
GiveUp ==
    /\ at \in {"look", "emit", "ready"}
    /\ at' = "guest" /\ asked' = NoTrace /\ running' = NoWay
    /\ UNCHANGED <<code, marks, arena, guarding, world>>

-----------------------------------------------------------------------------
(* Translation: nj_make_code_room and the compilers. *)

Making(place) == at = place /\ UNCHANGED <<forfeited, guarding, world, asked, running>>

Enough ==
    /\ Making("room") /\ Fits(top, lent)
    /\ at' = "emit"
    /\ UNCHANGED <<code, marks, lent, top, offered>>

Compact ==
    /\ Making("room") /\ ~Fits(top, lent)
    /\ code' = Compacted(code) /\ top' = Taken(code)
    /\ at' = IF Fits(top', lent) THEN "emit" ELSE "short"
    /\ UNCHANGED <<marks, lent, offered>>

\* nj_vga_arena_take
Borrow ==
    /\ Making("short") /\ ~lent /\ offered
    /\ Switch(TRUE)
    /\ at' = IF Fits(0, TRUE) THEN "emit" ELSE "short"
    /\ UNCHANGED offered

\* the largest goes
Evict(w) ==
    /\ Making("short") /\ (lent \/ ~offered)
    /\ w \in Live(code) /\ \A v \in Live(code) : code[v].hw <= code[w].hw
    /\ LET c == Without(code, {w}) IN
         /\ code' = Compacted(c)
         /\ marks' = MarksOf(c)
         /\ top' = Taken(c)
    /\ at' = IF Fits(top', lent) THEN "emit" ELSE "short"
    /\ UNCHANGED <<lent, offered>>

\* what a compiler makes of the trace: cut where the second page is not at hand,
\* or, if its mode has no guards, at the first memory operand
Translated(t, words) ==
    LET wide == t.len > InFirst(t.head)
        far == wide /\ Second(t.head) # Gone
        len == IF wide /\ ~far THEN InFirst(t.head) ELSE t.len
    IN  [head |-> t.head, mode |-> mode, len |-> len,
         split |-> IF far THEN InFirst(t.head) ELSE 0,
         page |-> PageOf(mode, map, t.head[1]), page2 |-> IF far THEN Second(t.head) ELSE 0,
         data |-> t.data, writes |-> Data(mode, map, t.data),
         at |-> top, hw |-> words, guard |-> IF t.mem /\ GuardsOk THEN inUse ELSE NoGuard,
         from |-> Fetched(mode, map, t.head, len), fresh |-> TRUE, whole |-> TRUE]

\* nj_compile_v45_bpstack: all of it, data at hand and clear of its own code;
\* without paging a block with data that crosses must be in one piece
Sound(b, t) == b.data = {} \/ /\ b.len = t.len
                              /\ \A d \in b.data : PageOf(mode, map, d[1]) # Gone
                              /\ b.writes \cap Bytes(b) = {}
                              /\ (mode \notin PagedModes /\ b.split > 0) => b.page2 = b.page + 1

\* nj_cache_insert_slot: a free way if there is one
Room(ws) == LET free == {w \in ws : code[w] = NoBlock} IN IF free = {} THEN ws ELSE free

Emit(words, w) ==
    /\ at = "emit" /\ words \in asked.words
    /\ LET b == Translated(asked, words) IN
         /\ Sound(b, asked)
         /\ w \in Room(SetOf[<<asked.head, mode>>])
         /\ code' = [code EXCEPT ![w] = b]
         /\ marks' = marks \cup PagesOf(b)
    /\ top' = top + words
    /\ at' = "ready" /\ asked' = NoTrace /\ running' = w
    /\ UNCHANGED <<lent, offered, forfeited, guarding, world>>

EnterNew ==
    /\ at = "ready"
    /\ Enter(running)
    /\ UNCHANGED <<arena, guarding, world, asked>>

-----------------------------------------------------------------------------
(* A block runs.  "adrift" is a block under which the mode or the TLB has       *)
(* changed, "loose" one that has stored by REP MOVSB: its own entry may have   *)
(* been dropped under it, and it runs on.                                      *)

Runs == {"run", "adrift", "loose"}
Running == at \in Runs /\ UNCHANGED <<guarding, running, asked>>

\* its entry is still there; what a block was whose entry is gone is not remembered,
\* but that it has no data
Listed == code[running] # NoBlock
Traced == Listed => code[running].writes = {}

\* a guarded store: to a page with no translated code, within it if paged
NativeStore(s) ==
    /\ Running
    /\ Listed => code[running].guard # NoGuard
    /\ s.page \notin marks
    /\ mode \in PagedModes => s.off + s.len <= PAGE
    /\ code' = Rot(code, Reach(s))
    /\ UNCHANGED <<marks, arena, world, at>>

\* the stores of a block with data go straight to its words
StaticStore ==
    /\ Running
    /\ ~Traced
    /\ code' = Rot(code, code[running].writes)
    /\ UNCHANGED <<marks, arena, world, at>>

Drift == at' = IF at = "run" THEN "adrift" ELSE at

\* nj_io_out; the ports of the VBE registers are left to the interpreter
Out(m) ==
    /\ Running /\ Traced
    /\ m \in Outs[mode] /\ mode' = m
    /\ Drift
    /\ UNCHANGED <<code, marks, arena, map, stored>>

OutVideo ==
    /\ Running /\ Traced
    /\ Rearm
    /\ UNCHANGED <<code, marks, lent, top, forfeited, world, at>>

\* IN and OUT look up the TSS, REP MOVSB its operands: the TLB is refilled
Lookup(l, p) ==
    /\ Running /\ Traced
    /\ mode \in PagedModes
    /\ map' = [map EXCEPT ![l] = p]
    /\ Drift
    /\ UNCHANGED <<code, marks, arena, mode, stored>>

\* nj_rep_movs, a byte of memory: there is no guard on the pages with code
RepStore(s) ==
    /\ Running /\ Traced
    /\ s.len = 1
    /\ NotedStore(s)
    /\ at' = "loose"
    /\ UNCHANGED <<arena, world>>

\* the same through the VGA windows or the linear aperture of PCI
RepVideo ==
    /\ Running /\ Traced
    /\ Forfeit \/ Claim
    /\ at' = "loose"
    /\ UNCHANGED <<mode, map>>

\* nj_exec_chain goes on with the next block, without a look at the guards; a
\* block that was flushed has no instructions to chain from
Chain ==
    /\ at \in Runs /\ Traced
    /\ top > 0
    /\ at' = "look" /\ running' = NoWay
    /\ UNCHANGED <<code, marks, arena, guarding, world, asked>>

Leave ==
    /\ at \in Runs
    /\ at' = "guest" /\ running' = NoWay
    /\ UNCHANGED <<code, marks, arena, guarding, world, asked>>

-----------------------------------------------------------------------------

JInit ==
    /\ code = [w \in Ways |-> NoBlock] /\ marks = {}
    /\ lent = FALSE /\ top = 0 /\ offered = TRUE /\ forfeited = FALSE
    /\ guards = [g \in Guards |-> Dead] /\ inUse = 0 /\ turn = 0
    /\ mode \in Modes \ PagedModes /\ map = [l \in Linear |-> Gone]
    /\ at = "guest" /\ asked = NoTrace /\ running = NoWay
    /\ stored = FALSE

InGuest ==
    \/ \E s \in Stores : GuestStore(s)
    \/ \E l \in Linear, p \in Ram \cup {Gone} : GuestRemap(l, p)
    \/ \E m \in Modes : GuestMode(m)
    \/ VideoStore \/ VideoClaim \/ VideoMode \/ ColdStart

InProbe == ProbeReady \/ ProbeSteal \/ \E g \in Guards : ProbeOther(g) \/ ProbeBuild(g)

InLook == EnterNew \/ GiveUp \/ \E t \in Traces : Miss(t) \/ \E w \in Ways : Hit(t, w)

InMake == Enough \/ Compact \/ Borrow
            \/ \E w \in Ways : Evict(w)
                 \/ \E words \in 1 .. RESERVE : Emit(words, w)

InRun == StaticStore \/ OutVideo \/ RepVideo \/ Chain \/ Leave
           \/ (\E s \in NativeStores : NativeStore(s)) \/ (\E s \in Stores : RepStore(s))
           \/ (\E m \in Modes : Out(m))
           \/ \E l \in Linear, p \in Ram \cup {Gone} : Lookup(l, p)

JNext == InGuest \/ InProbe \/ InLook \/ InMake \/ InRun

JSpec == JInit /\ [][JNext]_jvars

-----------------------------------------------------------------------------

Addresses == (Ram \cup {Gone}) \X (0 .. PAGE - 1)
Block == [head: Heads, mode: Modes, len: 1 .. PAGE, split: 0 .. PAGE,
          page: Ram, page2: Ram \cup {0}, data: SUBSET Heads, writes: SUBSET Addresses,
          at: Nat, hw: 1 .. RESERVE, guard: Guards \cup {NoGuard},
          from: UNION {[0 .. n - 1 -> Addresses] : n \in 1 .. PAGE},
          fresh: BOOLEAN, whole: BOOLEAN]

JTypeOK ==
    /\ code \in [Ways -> Block \cup {NoBlock}]
    /\ marks \subseteq Ram \cup {0} /\ top \in Nat
    /\ lent \in BOOLEAN /\ offered \in BOOLEAN /\ forfeited \in BOOLEAN
    /\ guards \in [Guards -> Modes \cup {Dead}]
    /\ inUse \in Guards \cup {0} /\ turn \in Guards \cup {0}
    /\ mode \in Modes /\ map \in [Linear -> Ram \cup {Gone}]
    /\ at \in {"guest", "look", "room", "short", "emit", "ready"} \cup Runs
    /\ asked \in Traces \cup {NoTrace} /\ running \in Ways \cup {NoWay}
    /\ stored \in BOOLEAN

\* What can be entered is what the CPU would fetch: no block stays in the table
\* once one of the bytes it was translated from has been stored over, and one
\* starts only where those bytes are mapped.  It stays in the table while it runs,
\* until it stores by REP MOVSB itself.  (Bytes may change hands by six roads: stores
\* of the interpreter, guarded and direct ones of blocks, REP MOVSB in a block,
\* remapping, a change of mode.)
FreshCode ==
    /\ \A w \in Live(code) : code[w].fresh
    /\ at \in {"run", "adrift"} => running \in Live(code)
    /\ at = "run" => LET b == code[running] IN b.from = Fetched(mode, map, b.head, b.len)

\* The ARM code of a block that can be entered is in one piece: nothing was
\* emitted or copied over it, nothing of it is past the end of the arena, and the
\* guards it calls are those of its mode.
IntactCode ==
    /\ top <= Size(lent)
    /\ \A w \in Live(code) : LET b == code[w] IN
         /\ b.whole /\ b.at + b.hw <= top
         /\ b.guard # NoGuard => guards[b.guard] = b.mode
    /\ \A v, w \in Live(code) : v # w => Words(code[v]) \cap Words(code[w]) = {}

\* Memory the guest has stored in through the display's windows is never taken
\* for code again.
GuestKeeps == stored => ~lent /\ ~offered

\* No block is executing when the lent memory is taken back: the arena is not
\* flushed under one (njit_vga_arena.h, njit_vga_arena_release).
NoneExecuting == at \in Runs => top > 0
=============================================================================
