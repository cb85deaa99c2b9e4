-------------------------------- MODULE Paging --------------------------------
(***************************************************************************)
(* The paging unit of the emulated 386 (src/src/i386.c): a direct-mapped TLB  *)
(* refilled from the guest's page tables, and the instruction fetch's own    *)
(* two caches in front of it, the page it last translated (ifetch) and the   *)
(* 32 bytes it last read (prefetch_base).  The guest's system edits the      *)
(* tables in its memory at any moment; it flushes by INVLPG or a control     *)
(* register when it likes.                                                  *)
(*                                                                         *)
(* Addresses are page numbers.  A page table belongs to one directory, and   *)
(* the accessed bits, which tlb_refill sets, are left out: nothing reads     *)
(* them back.                                                               *)
(***************************************************************************)
EXTENDS Integers, FiniteSets

CONSTANTS
    PAGES,     \* linear pages
    SPAN,      \* pages of one directory entry (1024 in the code)
    TLB,       \* tlb_size
    FRAMES,    \* page frames, the identity of every page among them
    Roots,     \* page directories, 0 the one at address 0
    SAID,      \* bound: what the tables say of all pages between two flushes
    Entries    \* protection bits the guest writes: [p, rw, us]

Pages == 0 .. PAGES - 1
Slots == 0 .. TLB - 1
Frames == 0 .. FRAMES - 1
Dirs == 0 .. (PAGES - 1) \div SPAN
Bits == [p: BOOLEAN, rw: BOOLEAN, us: BOOLEAN]

ASSUME PagingAssumption == /\ {PAGES, SPAN, TLB} \subseteq Nat \ {0}
                           /\ FRAMES \in Nat /\ PAGES <= FRAMES
ASSUME EntryAssumption == 0 \in Roots /\ Entries \subseteq Bits

VARIABLES
    pde,       \* directory entries, per root
    pte,       \* table entries, per root: Bits and a frame
    dirty,     \* table entries whose dirty bit is set
    root,      \* CR3
    pg, wp,    \* CR0.PG and CR0.WP
    user,      \* CPL > 0
    tlb,       \* TLB entries; ppte is the table entry they were filled from
    ifetch,    \* the page and frame of the last fetch translation
    line,      \* the page and frame the prefetch line was read from
    exc,       \* the page fault of the last step
    wrote,     \* the pages the last step was let write through the tables
    since      \* history: per page, what the tables have said since the flush

tables == <<pde, pte, dirty>>
regs == <<root, pg, wp, user>>
vars == <<tables, regs, tlb, ifetch, line, exc, wrote, since>>

\* a tag of -1: no page
None == [page |-> -1]
Slot(v) == v % TLB

\* what the current tables say of a page; both levels must grant a right
Absent == [p |-> FALSE, rw |-> FALSE, us |-> FALSE, frame |-> 0]
Say(d, t, paging, v) ==
    IF ~paging THEN [p |-> TRUE, rw |-> TRUE, us |-> TRUE, frame |-> v]
    ELSE IF ~d[v \div SPAN].p \/ ~t[v].p THEN Absent
    ELSE [p |-> TRUE, rw |-> d[v \div SPAN].rw /\ t[v].rw,
          us |-> d[v \div SPAN].us /\ t[v].us, frame |-> t[v].frame]
Walk(v) == Say(pde[root], pte[root], pg, v)

\* pte_lookup[wp][u/s, r/w][cpl > 0][write]: nonzero is refused
Refuses(e, w, u, write) == (u /\ ~e.us) \/ (write /\ ~e.rw /\ (u \/ w))

-----------------------------------------------------------------------------
(* Translations.  m is what one may change: [tlb, dirty, exc, wrote]. *)

Fault(v, present) == [page |-> v, present |-> present]
Mmu == [tlb |-> tlb, dirty |-> dirty, exc |-> None, wrote |-> {}]

\* tlb_refill's entry
Refill(v) == [page |-> v, frame |-> Walk(v).frame, rw |-> Walk(v).rw, us |-> Walk(v).us,
              wp |-> wp, ppte |-> <<root, v>>]

\* an entry is taken for the page whatever its tag
BadCached(m, v) == m.tlb[Slot(v)] # None

Cached(m, v) == m.tlb[Slot(v)].page = v

\* the dirty bit is set by the refill, not by the write
BadDirty(m, v, u, write) ==
    LET e == IF Cached(m, v) THEN m.tlb[Slot(v)] ELSE Refill(v)
    IN  IF ~Cached(m, v) /\ ~Walk(v).p THEN [m EXCEPT !.exc = Fault(v, FALSE)]
        ELSE IF Refuses(e, e.wp, u, write)
          THEN [m EXCEPT !.exc = Fault(v, TRUE), !.tlb[Slot(v)] = None]
        ELSE [m EXCEPT !.tlb[Slot(v)] = e,
                       !.dirty = IF write /\ ~Cached(m, v) THEN @ \cup {e.ppte} ELSE @,
                       !.wrote = IF write THEN @ \cup {v} ELSE @]

\* translate_lpgno, and the hit of translate
Translate(m, v, u, write) ==
    LET e == IF Cached(m, v) THEN m.tlb[Slot(v)] ELSE Refill(v)
    IN  IF ~Cached(m, v) /\ ~Walk(v).p THEN [m EXCEPT !.exc = Fault(v, FALSE)]
        ELSE IF Refuses(e, e.wp, u, write)
          THEN [m EXCEPT !.exc = Fault(v, TRUE), !.tlb[Slot(v)] = None]
        ELSE [m EXCEPT !.tlb[Slot(v)] = e,
                       !.dirty = IF write THEN @ \cup {e.ppte} ELSE @,
                       !.wrote = IF write THEN @ \cup {v} ELSE @]

Becomes(m) == tlb' = m.tlb /\ dirty' = m.dirty /\ exc' = m.exc /\ wrote' = m.wrote
\* without paging, nothing is translated
Paged(m) == IF pg THEN m ELSE Mmu

NoAccess == exc' = None /\ wrote' = {}
Keeps == UNCHANGED <<pde, pte, regs, since>>

\* a data access within a page; the CPU's own accesses to descriptor tables
\* and stacks pass CPL 0
Access(v, u, write) ==
    /\ u => user
    /\ Becomes(Paged(Translate(Mmu, v, u, write)))
    /\ Keeps /\ UNCHANGED <<ifetch, line>>

\* an access that runs into the next page: the first translation stands when
\* the second one faults
TranslateBoth(v, write) ==
    LET first == Translate(Mmu, v, user, write)
    IN  IF first.exc # None THEN first ELSE Translate(first, v + 1, user, write)

Straddle(v, write) ==
    /\ v + 1 \in Pages
    /\ Becomes(Paged(TranslateBoth(v, write)))
    /\ Keeps /\ UNCHANGED <<ifetch, line>>

Filled(v) == [page |-> v, frame |-> IF pg THEN tlb'[Slot(v)].frame ELSE v]

\* fetch8: the line if it has the byte, then the page last translated, then
\* translate8r; what is fetched from I/O memory is not kept as a line
Fetch(v) ==
    /\ \/ /\ line.page = v
          /\ Becomes(Mmu) /\ UNCHANGED <<ifetch, line>>
       \/ /\ ifetch.page = v
          /\ line' \in {ifetch, None}
          /\ Becomes(Mmu) /\ UNCHANGED ifetch
       \/ /\ ifetch.page # v
          /\ Becomes(Paged(Translate(Mmu, v, user, FALSE)))
          /\ IF exc' = None THEN ifetch' = Filled(v) /\ line' \in {Filled(v), None}
                            ELSE UNCHANGED <<ifetch, line>>
    /\ Keeps

\* fetch16 and fetch32 outside the page last translated, or across its end: a
\* data read that drops the line, unless it faults
FetchWide(v) ==
    /\ \/ v # ifetch.page /\ Becomes(Paged(Translate(Mmu, v, user, FALSE)))
       \/ v + 1 \in Pages /\ Becomes(Paged(TranslateBoth(v, FALSE)))
    /\ line' = IF exc' = None THEN None ELSE line
    /\ Keeps /\ UNCHANGED ifetch

\* every control transfer drops the line; an interrupt, a far return or
\* SYSEXIT also changes the privilege
Transfer(u) ==
    /\ user' = u /\ line' = None /\ NoAccess
    /\ UNCHANGED <<tables, root, pg, wp, tlb, ifetch, since>>

-----------------------------------------------------------------------------
(* The guest's system. *)

\* only the TLB
BadTlbClear == tlb' = [s \in Slots |-> None] /\ UNCHANGED <<ifetch, line>>

TlbClear == /\ tlb' = [s \in Slots |-> None]
            /\ ifetch' = None /\ line' = None

\* the history after a flush, and after an edit without one
Now(v) == Say(pde'[root'], pte'[root'], pg', v)
Restart == since' = [v \in Pages |-> {Now(v)}]
Extend == /\ since' = [v \in Pages |-> since[v] \cup {Now(v)}]
          /\ Cardinality(UNION {{v} \X since'[v] : v \in Pages}) <= SAID

\* a store into a page table, or the clearing of a dirty bit
EditTable(r, v) ==
    /\ ~user /\ NoAccess
    /\ UNCHANGED <<pde, regs, tlb, ifetch, line>>
    /\ \/ /\ \E b \in Entries, f \in Frames :
                pte' = [pte EXCEPT ![r][v] = [p |-> b.p, rw |-> b.rw, us |-> b.us, frame |-> f]]
          /\ UNCHANGED dirty
       \/ dirty' = dirty \ {<<r, v>>} /\ UNCHANGED pte
    /\ Extend

EditDirectory(r, d) ==
    /\ ~user /\ NoAccess
    /\ UNCHANGED <<pte, dirty, regs, tlb, ifetch, line>>
    /\ \E b \in Entries : pde' = [pde EXCEPT ![r][d] = b]
    /\ Extend

\* MOV to CR3
MovCr3(r) ==
    /\ ~user /\ NoAccess
    /\ root' = r
    /\ UNCHANGED <<tables, pg, wp, user>>
    /\ TlbClear /\ Restart

\* a task switch, which any program may cause, loads CR3 last
TaskSwitch(r, u) ==
    /\ NoAccess
    /\ root' = r /\ user' = u
    /\ UNCHANGED <<tables, pg, wp>>
    /\ TlbClear /\ Restart

\* the flush looks at PG alone
BadMovCr0(paging, protect, pe) ==
    /\ ~user /\ NoAccess
    /\ pg' = paging /\ wp' = protect
    /\ UNCHANGED <<tables, root, user>>
    /\ IF paging # pg THEN TlbClear /\ Restart
                      ELSE UNCHANGED <<tlb, ifetch, line, since>>

\* pe: the write also changes CR0.PE
MovCr0(paging, protect, pe) ==
    /\ ~user /\ NoAccess
    /\ pg' = paging /\ wp' = protect
    /\ UNCHANGED <<tables, root, user>>
    /\ IF pe \/ paging # pg \/ protect # wp
         THEN TlbClear /\ Restart
         ELSE UNCHANGED <<tlb, ifetch, line, since>>

\* INVLPG clears everything
Invlpg ==
    /\ ~user /\ NoAccess
    /\ UNCHANGED <<tables, regs>>
    /\ TlbClear /\ Restart

\* the machine's reset, or a triple fault
Reset ==
    /\ NoAccess
    /\ root' = 0 /\ pg' = FALSE /\ wp' = FALSE /\ user' = FALSE
    /\ UNCHANGED tables
    /\ TlbClear /\ Restart

-----------------------------------------------------------------------------
Init ==
    /\ pde = [r \in Roots |-> [d \in Dirs |-> [p |-> FALSE, rw |-> FALSE, us |-> FALSE]]]
    /\ pte = [r \in Roots |-> [v \in Pages |-> Absent]]
    /\ dirty = {}
    /\ root = 0 /\ pg = FALSE /\ wp = FALSE /\ user = FALSE
    /\ tlb = [s \in Slots |-> None]
    /\ ifetch = None /\ line = None /\ exc = None /\ wrote = {}
    /\ since = [v \in Pages |-> {Walk(v)}]

Cpu == \E v \in Pages :
          \/ \E u, write \in BOOLEAN : Access(v, u, write)
          \/ \E write \in BOOLEAN : Straddle(v, write)
          \/ Fetch(v) \/ FetchWide(v)

System == \/ \E u \in BOOLEAN : Transfer(u)
          \/ \E r \in Roots : \/ \E v \in Pages : EditTable(r, v)
                              \/ \E d \in Dirs : EditDirectory(r, d)
                              \/ MovCr3(r)
                              \/ \E u \in BOOLEAN : TaskSwitch(r, u)
          \/ \E paging, protect, pe \in BOOLEAN : MovCr0(paging, protect, pe)
          \/ Invlpg \/ Reset

Next == Cpu \/ System

Spec == Init /\ [][Next]_vars

-----------------------------------------------------------------------------
Said == [p: BOOLEAN, rw: BOOLEAN, us: BOOLEAN, frame: Frames]
Cell == [page: Pages, frame: Frames]
TlbEntry == [page: Pages, frame: Frames, rw: BOOLEAN, us: BOOLEAN, wp: BOOLEAN,
             ppte: Roots \X Pages]

\* The tables hold entries, every TLB slot nothing or an entry.
TypeOK ==
    /\ pde \in [Roots -> [Dirs -> Bits]]
    /\ pte \in [Roots -> [Pages -> Said]]
    /\ dirty \subseteq Roots \X Pages
    /\ root \in Roots /\ pg \in BOOLEAN /\ wp \in BOOLEAN /\ user \in BOOLEAN
    /\ tlb \in [Slots -> TlbEntry \cup {None}]
    /\ ifetch \in Cell \cup {None} /\ line \in Cell \cup {None}
    /\ exc \in [page: Pages, present: BOOLEAN] \cup {None}
    /\ wrote \subseteq Pages
    /\ since \in [Pages -> SUBSET Said]

\* What the TLB holds of a page, the tables have said since the last flush,
\* the write-protect bit it was computed with is the present one, and the
\* dirty bit it points to is that of the directory in use (i386.c:902-903): no
\* entry outlives a change of CR3, CR0.PG or CR0.WP.
CachedWasSaid ==
    \A s \in Slots : tlb[s] # None =>
        /\ Slot(tlb[s].page) = s
        /\ [p |-> TRUE, rw |-> tlb[s].rw, us |-> tlb[s].us, frame |-> tlb[s].frame]
             \in since[tlb[s].page]
        /\ tlb[s].wp = wp
        /\ tlb[s].ppte = <<root, tlb[s].page>>

\* The fetch never reads a frame that the tables have not given the page since
\* the last flush, although its two caches are refilled past the TLB.
FetchedWasSaid ==
    \A c \in {ifetch, line} \ {None} : \E s \in since[c.page] : s.p /\ s.frame = c.frame

\* A page fault is never raised from thin air: a fault for an absent page
\* names one that is absent now, and a refused access was refused by something
\* the tables have said since the last flush.
FaultJustified ==
    [][exc' # None =>
         IF exc'.present THEN \E s \in since[exc'.page], u, w \in BOOLEAN :
                                  s.p /\ Refuses(s, wp, u, w)
                         ELSE ~Walk(exc'.page).p]_vars

\* A handler that repairs the table entry and returns need not flush: the
\* access that faulted is retried against the tables (i386.c:930, 1098).
FaultForgets ==
    [][exc' # None => \A s \in Slots : tlb'[s].page # exc'.page]_vars

\* A write that is let through leaves the page dirty, also when the dirty bit
\* was cleared behind a TLB entry's back (i386.c:944-946).
WriteMarks ==
    [][\A v \in wrote' : <<root, v>> \in dirty']_vars
=============================================================================
