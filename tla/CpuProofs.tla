-------------------------------- MODULE CpuProofs --------------------------------
(***************************************************************************)
(* Proofs about the emulated CPU: what its TLB and its fetch caches hold,     *)
(* when a fault is raised and what it leaves behind, and that writes mark     *)
(* their pages (Paging); that the privilege level, the code segment, the      *)
(* stack and the data segment agree over transfers of control, and that       *)
(* these give the interrupted or calling program back as it was (Transfers). *)
(* The modules share no variable; each part below is about one of them.        *)
(***************************************************************************)
EXTENDS Paging, Transfers, SequenceTheorems, TLAPS

-----------------------------------------------------------------------------
(* Paging, for any number of pages, TLB entries, frames and directories.       *)

(* Page numbers reach the slots and the directory entries there are. *)
LEMMA SlotOf ==
    ASSUME NEW v \in Pages
    PROVE  Slot(v) \in Slots
  BY PagingAssumption DEF Slot, Slots, Pages

LEMMA DirOf ==
    ASSUME NEW v \in Pages
    PROVE  v \div SPAN \in Dirs
  BY PagingAssumption DEF Dirs, Pages

(* No entry and no fault is the empty one. *)
LEMMA NoneApart ==
    /\ None.page \notin Pages
    /\ None \notin TlbEntry /\ None \notin Cell
    /\ \A v \in Pages, present \in BOOLEAN : Fault(v, present) # None
<1>1. None.page = -1 /\ -1 \notin Pages
  BY DEF None, Pages
<1>2. \A e \in TlbEntry \cup Cell : e.page \in Pages
  BY DEF TlbEntry, Cell
<1>3. \A v, present : Fault(v, present).page = v
  BY DEF Fault
<1> QED BY <1>1, <1>2, <1>3

Faults == [page: Pages, present: BOOLEAN]

\* what the tables say of a page now is part of what they have said
NowSaid == \A v \in Pages : Walk(v) \in since[v]

Inv == TypeOK /\ NowSaid /\ CachedWasSaid /\ FetchedWasSaid

-----------------------------------------------------------------------------
(* What the tables say is a translation of the page. *)
LEMMA SayType ==
    ASSUME NEW d \in [Dirs -> Bits], NEW t \in [Pages -> Said],
           NEW paging \in BOOLEAN, NEW v \in Pages
    PROVE  Say(d, t, paging, v) \in Said
<1>1. v \in Frames /\ 0 \in Frames
  BY PagingAssumption DEF Pages, Frames
<1>2. d[v \div SPAN] \in Bits /\ t[v] \in Said
  BY DirOf
<1>3. CASE ~paging
  BY <1>1, <1>3 DEF Say, Said
<1>4. CASE paging /\ (~d[v \div SPAN].p \/ ~t[v].p)
  BY <1>1, <1>4 DEF Say, Absent, Said
<1>5. CASE paging /\ d[v \div SPAN].p /\ t[v].p
  BY <1>2, <1>5 DEF Say, Said, Bits
<1> QED BY <1>3, <1>4, <1>5

LEMMA WalkType ==
    ASSUME TypeOK, NEW v \in Pages
    PROVE  Walk(v) \in Said
  BY SayType DEF TypeOK, Walk

(* A fresh entry holds what the tables say now. *)
LEMMA RefillType ==
    ASSUME TypeOK, NEW v \in Pages
    PROVE  /\ Refill(v) \in TlbEntry
           /\ Refill(v).page = v /\ Refill(v).wp = wp /\ Refill(v).ppte = <<root, v>>
           /\ Walk(v).p => [p |-> TRUE, rw |-> Refill(v).rw, us |-> Refill(v).us,
                            frame |-> Refill(v).frame] = Walk(v)
<1>1. Walk(v) \in Said
  BY WalkType
<1>2. wp \in BOOLEAN /\ root \in Roots
  BY DEF TypeOK
<1> QED BY <1>1, <1>2 DEF Refill, TlbEntry, Said

-----------------------------------------------------------------------------
(* What a translation may start from and what it leaves: well-formed parts,    *)
(* entries the tables have said, and a mark on every page written.             *)
Holds(t, s) ==
    /\ Slot(t[s].page) = s
    /\ [p |-> TRUE, rw |-> t[s].rw, us |-> t[s].us, frame |-> t[s].frame] \in since[t[s].page]
    /\ t[s].wp = wp
    /\ t[s].ppte = <<root, t[s].page>>

Sound(m) ==
    /\ m = [tlb |-> m.tlb, dirty |-> m.dirty, exc |-> m.exc, wrote |-> m.wrote]
    /\ m.tlb \in [Slots -> TlbEntry \cup {None}]
    /\ m.dirty \subseteq Roots \X Pages
    /\ m.exc \in Faults \cup {None}
    /\ m.wrote \subseteq Pages
    /\ \A s \in Slots : m.tlb[s] # None => Holds(m.tlb, s)
    /\ \A v \in m.wrote : <<root, v>> \in m.dirty

\* the fault an access to v reports
Justified(m, v) ==
    /\ m.exc.page = v
    /\ \A s \in Slots : m.tlb[s].page # v
    /\ IF m.exc.present
         THEN \E s \in since[v], u, w \in BOOLEAN : s.p /\ Refuses(s, wp, u, w)
         ELSE ~Walk(v).p

Outcome(m, v) ==
    /\ Sound(m)
    /\ m.exc # None => Justified(m, v)
    /\ m.exc = None => m.tlb[Slot(v)] # None /\ m.tlb[Slot(v)].page = v

(* A translation faults on good grounds and forgets the page, or leaves its    *)
(* entry in the TLB.                                                        *)
LEMMA Translation ==
    ASSUME Inv, NEW m, Sound(m), m.exc = None,
           NEW v \in Pages, NEW u \in BOOLEAN, NEW write \in BOOLEAN
    PROVE  Outcome(Translate(m, v, u, write), v)
<1> DEFINE n == Slot(v)
           e == IF Cached(m, v) THEN m.tlb[n] ELSE Refill(v)
           r == Translate(m, v, u, write)
<1>1. n \in Slots
  BY SlotOf
<1>2. m.tlb \in [Slots -> TlbEntry \cup {None}] /\ m.dirty \subseteq Roots \X Pages
      /\ m.wrote \subseteq Pages
  BY DEF Sound
<1>3. Cached(m, v) => m.tlb[n] # None /\ m.tlb[n] \in TlbEntry /\ Holds(m.tlb, n)
  BY <1>1, <1>2, NoneApart DEF Cached, Sound
<1>4. e.page = v
  BY RefillType DEF Cached, Inv
<1>5. e \in TlbEntry
  BY <1>3, RefillType DEF Inv
<1>6. e.wp = wp /\ e.ppte = <<root, v>>
  BY <1>3, <1>4, RefillType DEF Holds, Inv
<1>7. Cached(m, v) \/ Walk(v).p =>
        [p |-> TRUE, rw |-> e.rw, us |-> e.us, frame |-> e.frame] \in since[v]
  BY <1>3, <1>4, RefillType DEF Holds, Inv, NowSaid
<1>8. root \in Roots
  BY DEF Inv, TypeOK
<1>9. \A s \in Slots : s # n => m.tlb[s].page # v
  BY NoneApart DEF Sound, Holds
<1> HIDE DEF n, e
<1>10. CASE ~Cached(m, v) /\ ~Walk(v).p
  <2>1. r = [m EXCEPT !.exc = Fault(v, FALSE)]
    BY <1>10 DEF Translate, e, n
  <2>2. r = [tlb |-> m.tlb, dirty |-> m.dirty, exc |-> Fault(v, FALSE), wrote |-> m.wrote]
    BY <2>1 DEF Sound
  <2> HIDE DEF r
  <2>3. Fault(v, FALSE) \in Faults /\ Fault(v, FALSE) # None
    BY NoneApart DEF Fault, Faults
  <2>4. Sound(r)
    BY <2>2, <2>3 DEF Sound, Holds
  <2>5. Justified(r, v)
    BY <2>2, <1>9, <1>10, <1>1 DEF Justified, Fault, Cached, n
  <2>10. Outcome(r, v)
    BY <2>2, <2>3, <2>4, <2>5 DEF Outcome
  <2> QED BY <2>10 DEF r
<1>11. CASE (Cached(m, v) \/ Walk(v).p) /\ Refuses(e, e.wp, u, write)
  <2>1. r = [m EXCEPT !.exc = Fault(v, TRUE), !.tlb[n] = None]
    BY <1>11 DEF Translate, e, n
  <2> DEFINE t == [m.tlb EXCEPT ![n] = None]
  <2>2. r = [tlb |-> t, dirty |-> m.dirty, exc |-> Fault(v, TRUE), wrote |-> m.wrote]
    BY <2>1 DEF Sound
  <2> HIDE DEF r
  <2>3. Fault(v, TRUE) \in Faults /\ Fault(v, TRUE) # None
    BY NoneApart DEF Fault, Faults
  <2>4. /\ t \in [Slots -> TlbEntry \cup {None}]
        /\ t[n] = None /\ \A s \in Slots : s # n => t[s] = m.tlb[s]
    BY <1>1, <1>2
  <2> HIDE DEF t
  <2>5. Sound(r)
    BY <2>2, <2>3, <2>4 DEF Sound, Holds
  <2>6. \A s \in Slots : t[s].page # v
    BY <2>4, <1>9, NoneApart
  <2>7. \E s \in since[v], x, w \in BOOLEAN : s.p /\ Refuses(s, wp, x, w)
    <3> DEFINE s == [p |-> TRUE, rw |-> e.rw, us |-> e.us, frame |-> e.frame]
    <3>1. s \in since[v] /\ s.p
      BY <1>7, <1>11
    <3>2. Refuses(s, wp, u, write)
      BY <1>11, <1>6 DEF Refuses
    <3> QED BY <3>1, <3>2
  <2>8. r.exc.page = v /\ r.exc.present = TRUE
    BY <2>2 DEF Fault
  <2>9. Justified(r, v)
    BY <2>2, <2>6, <2>7, <2>8 DEF Justified
  <2>10. Outcome(r, v)
    BY <2>2, <2>3, <2>5, <2>9 DEF Outcome
  <2> QED BY <2>10 DEF r
<1>12. CASE (Cached(m, v) \/ Walk(v).p) /\ ~Refuses(e, e.wp, u, write)
  <2> DEFINE t == [m.tlb EXCEPT ![n] = e]
             d == IF write THEN m.dirty \cup {e.ppte} ELSE m.dirty
             w == IF write THEN m.wrote \cup {v} ELSE m.wrote
  <2>1. r = [m EXCEPT !.tlb[n] = e, !.dirty = d, !.wrote = w]
    BY <1>12 DEF Translate, e, n
  <2>2. r = [tlb |-> t, dirty |-> d, exc |-> None, wrote |-> w]
    BY <2>1 DEF Sound
  <2> HIDE DEF r
  <2>3. /\ t \in [Slots -> TlbEntry \cup {None}]
        /\ t[n] = e /\ \A s \in Slots : s # n => t[s] = m.tlb[s]
    BY <1>1, <1>2, <1>5
  <2>4. d \subseteq Roots \X Pages /\ w \subseteq Pages
    BY <1>2, <1>6, <1>8
  <2>5. \A x \in w : <<root, x>> \in d
    BY <1>6 DEF Sound
  <2> HIDE DEF t, d, w
  <2>6. Holds(t, n)
    BY <2>3, <1>4, <1>6, <1>7, <1>12 DEF Holds, n
  <2>7. \A s \in Slots : t[s] # None => Holds(t, s)
    BY <2>3, <2>6 DEF Sound, Holds
  <2>8. Sound(r)
    BY <2>2, <2>3, <2>4, <2>5, <2>7 DEF Sound, Holds
  <2>9. r.tlb[n] # None /\ r.tlb[n].page = v
    BY <2>2, <2>3, <1>4, <1>5, NoneApart
  <2>10. Outcome(r, v)
    BY <2>2, <2>8, <2>9 DEF n, Outcome
  <2> QED BY <2>10 DEF r
<1> QED BY <1>10, <1>11, <1>12

LEMMA Resting ==
    ASSUME Inv
    PROVE  Sound(Mmu) /\ Mmu.exc = None
  BY DEF Inv, TypeOK, CachedWasSaid, Sound, Holds, Mmu

\* what holds of every state a CPU access reaches
Accessed(m) ==
    /\ Sound(m)
    /\ m.exc # None => \E v \in Pages : Justified(m, v)

LEMMA TranslationOfOne ==
    ASSUME Inv, NEW v \in Pages, NEW u \in BOOLEAN, NEW write \in BOOLEAN,
           NEW m, m = Paged(Translate(Mmu, v, u, write))
    PROVE  /\ Accessed(m)
           /\ pg /\ m.exc = None => m.tlb[Slot(v)] # None /\ m.tlb[Slot(v)].page = v
<1>1. Outcome(Translate(Mmu, v, u, write), v)
  BY Resting, Translation
<1>2. pg \in BOOLEAN
  BY DEF Inv, TypeOK
<1>3. CASE pg
  BY <1>1, <1>3 DEF Outcome, Accessed, Paged
<1>4. CASE ~pg
  BY <1>4, Resting DEF Accessed, Paged
<1> QED BY <1>2, <1>3, <1>4

LEMMA TranslationOfBoth ==
    ASSUME Inv, NEW v \in Pages, v + 1 \in Pages, NEW write \in BOOLEAN,
           NEW m, m = Paged(TranslateBoth(v, write))
    PROVE  Accessed(m)
<1> DEFINE first == Translate(Mmu, v, user, write)
           second == Translate(first, v + 1, user, write)
<1>1. user \in BOOLEAN /\ pg \in BOOLEAN
  BY DEF Inv, TypeOK
<1>2. Outcome(first, v)
  BY <1>1, Resting, Translation
<1> HIDE DEF first
<1>3. first.exc = None => Outcome(second, v + 1)
  BY <1>1, <1>2, Translation DEF Outcome
<1>4. pg => m = IF first.exc # None THEN first ELSE second
  BY DEF TranslateBoth, first, second, Paged
<1> HIDE DEF second
<1>5. CASE pg
  BY <1>2, <1>3, <1>4, <1>5 DEF Outcome, Accessed
<1>6. CASE ~pg
  BY <1>6, Resting DEF Accessed, Paged
<1> QED BY <1>1, <1>5, <1>6

-----------------------------------------------------------------------------
(* The steps.  An access leaves the tables alone and installs such a result.   *)

\* what the action properties ask of a step
FaultJustifiedStep ==
    exc' # None => IF exc'.present THEN \E s \in since[exc'.page], u, w \in BOOLEAN :
                                          s.p /\ Refuses(s, wp, u, w)
                                   ELSE ~Walk(exc'.page).p
FaultForgetsStep == exc' # None => \A s \in Slots : tlb'[s].page # exc'.page
WriteMarksStep == \A v \in wrote' : <<root, v>> \in dirty'

StepOK == FaultJustifiedStep /\ FaultForgetsStep /\ WriteMarksStep

\* TypeOK but for the fetch caches
TablesTyped ==
    /\ pde \in [Roots -> [Dirs -> Bits]]
    /\ pte \in [Roots -> [Pages -> Said]]
    /\ dirty \subseteq Roots \X Pages
    /\ root \in Roots /\ pg \in BOOLEAN /\ wp \in BOOLEAN /\ user \in BOOLEAN
    /\ tlb \in [Slots -> TlbEntry \cup {None}]
    /\ exc \in [page: Pages, present: BOOLEAN] \cup {None}
    /\ wrote \subseteq Pages
    /\ since \in [Pages -> SUBSET Said]
FetchTyped == ifetch \in Cell \cup {None} /\ line \in Cell \cup {None}

LEMMA AccessStep ==
    ASSUME Inv, NEW m, Accessed(m), Becomes(m), Keeps
    PROVE  TablesTyped' /\ NowSaid' /\ CachedWasSaid' /\ StepOK
<1>1. Sound(m)
  BY DEF Accessed
<1>2. TablesTyped'
  BY <1>1 DEF Inv, TypeOK, TablesTyped, Keeps, regs, Becomes, Sound, Faults
<1>3. NowSaid'
  BY DEF Inv, NowSaid, Walk, Keeps, regs
<1>4. CachedWasSaid'
  BY <1>1 DEF CachedWasSaid, Keeps, regs, Becomes, Sound, Holds
<1>5. exc' # None => \E v \in Pages : Justified(m, v)
  BY DEF Accessed, Becomes
<1>6. FaultJustifiedStep /\ FaultForgetsStep
  BY <1>5 DEF Justified, Becomes, FaultJustifiedStep, FaultForgetsStep
<1>7. WriteMarksStep
  BY <1>1 DEF Sound, Becomes, WriteMarksStep
<1> QED BY <1>2, <1>3, <1>4, <1>6, <1>7 DEF StepOK

LEMMA AccessKeeps ==
    ASSUME Inv, NEW m, Accessed(m), Becomes(m), Keeps, UNCHANGED <<ifetch, line>>
    PROVE  Inv' /\ StepOK
<1>1. TablesTyped' /\ NowSaid' /\ CachedWasSaid' /\ StepOK
  BY AccessStep
<1>2. TypeOK'
  BY <1>1 DEF Inv, TypeOK, TablesTyped
<1>3. FetchedWasSaid'
  BY DEF Inv, FetchedWasSaid, Keeps
<1> QED BY <1>1, <1>2, <1>3 DEF Inv

LEMMA AccessInv ==
    ASSUME Inv, NEW v \in Pages, NEW u \in BOOLEAN, NEW write \in BOOLEAN,
           Access(v, u, write)
    PROVE  Inv' /\ StepOK
<1> DEFINE m == Paged(Translate(Mmu, v, u, write))
<1>1. Accessed(m)
  BY TranslationOfOne
<1>2. Becomes(m) /\ Keeps /\ UNCHANGED <<ifetch, line>>
  BY DEF Access
<1> HIDE DEF m
<1> QED BY <1>1, <1>2, AccessKeeps

LEMMA StraddleInv ==
    ASSUME Inv, NEW v \in Pages, NEW write \in BOOLEAN, Straddle(v, write)
    PROVE  Inv' /\ StepOK
<1> DEFINE m == Paged(TranslateBoth(v, write))
<1>1. Accessed(m)
  BY TranslationOfBoth DEF Straddle
<1>2. Becomes(m) /\ Keeps /\ UNCHANGED <<ifetch, line>>
  BY DEF Straddle
<1> HIDE DEF m
<1> QED BY <1>1, <1>2, AccessKeeps

(* The frame a fetch caches is one the tables have given the page.            *)
LEMMA FilledWasSaid ==
    ASSUME Inv, NEW v \in Pages, NEW m,
           m = Paged(Translate(Mmu, v, user, FALSE)),
           m.exc = None, tlb' = m.tlb
    PROVE  Filled(v) \in Cell /\ \E s \in since[v] : s.p /\ s.frame = Filled(v).frame
<1>1. user \in BOOLEAN /\ pg \in BOOLEAN
  BY DEF Inv, TypeOK
<1>2. CASE pg
  <2>1. /\ Sound(m)
        /\ m.tlb[Slot(v)] # None /\ m.tlb[Slot(v)].page = v
    BY <1>1, <1>2, TranslationOfOne DEF Accessed
  <2>2. m.tlb[Slot(v)] \in TlbEntry /\ Holds(m.tlb, Slot(v))
    BY <2>1, SlotOf DEF Sound
  <2>3. m.tlb[Slot(v)].frame \in Frames
    BY <2>2 DEF TlbEntry
  <2>4. Filled(v) = [page |-> v, frame |-> m.tlb[Slot(v)].frame]
    BY <1>2 DEF Filled
  <2>5. Filled(v) \in Cell
    <3>1. \A f \in Frames : [page |-> v, frame |-> f] \in Cell
      BY DEF Cell
    <3> QED BY <2>3, <2>4, <3>1
  <2> DEFINE e == m.tlb[Slot(v)]
             s == [p |-> TRUE, rw |-> e.rw, us |-> e.us, frame |-> e.frame]
  <2>6. s \in since[v] /\ s.p /\ s.frame = e.frame
    BY <2>1, <2>2 DEF Holds
  <2>7. Filled(v).frame = e.frame
    BY <2>4
  <2> QED BY <2>5, <2>6, <2>7
<1>3. CASE ~pg
  <2>1. Filled(v) = [page |-> v, frame |-> v] /\ v \in Frames
    BY <1>3, PagingAssumption DEF Filled, Pages, Frames
  <2>2. Walk(v) = [p |-> TRUE, rw |-> TRUE, us |-> TRUE, frame |-> v]
    BY <1>3 DEF Walk, Say
  <2>3. Walk(v) \in since[v]
    BY DEF Inv, NowSaid
  <2> QED BY <2>1, <2>2, <2>3 DEF Cell
<1> QED BY <1>1, <1>2, <1>3

LEMMA FetchInv ==
    ASSUME Inv, NEW v \in Pages, Fetch(v)
    PROVE  Inv' /\ StepOK
<1>1. CASE line.page = v /\ Becomes(Mmu) /\ UNCHANGED <<ifetch, line>>
  BY <1>1, Resting, AccessKeeps DEF Fetch, Accessed
<1>2. CASE ifetch.page = v /\ line' \in {ifetch, None} /\ Becomes(Mmu) /\ UNCHANGED ifetch
  <2>1. TablesTyped' /\ NowSaid' /\ CachedWasSaid' /\ StepOK
    BY <1>2, Resting, AccessStep DEF Fetch, Accessed
  <2>2. TypeOK'
    BY <1>2, <2>1 DEF Inv, TypeOK, TablesTyped
  <2>3. FetchedWasSaid'
    BY <1>2 DEF Inv, FetchedWasSaid, Fetch, Keeps
  <2> QED BY <2>1, <2>2, <2>3 DEF Inv
<1> DEFINE m == Paged(Translate(Mmu, v, user, FALSE))
<1>3. CASE /\ Becomes(m)
           /\ IF exc' = None THEN ifetch' = Filled(v) /\ line' \in {Filled(v), None}
                             ELSE UNCHANGED <<ifetch, line>>
  <2>1. Accessed(m)
    BY TranslationOfOne DEF Inv, TypeOK
  <2>2. exc' = None => /\ Filled(v) \in Cell
                       /\ \E s \in since[v] : s.p /\ s.frame = Filled(v).frame
    BY <1>3, FilledWasSaid DEF Becomes
  <2> HIDE DEF m
  <2>3. TablesTyped' /\ NowSaid' /\ CachedWasSaid' /\ StepOK
    BY <1>3, <2>1, AccessStep DEF Fetch
  <2>4. TypeOK'
    BY <1>3, <2>2, <2>3 DEF Inv, TypeOK, TablesTyped
  <2>5. Filled(v).page = v
    BY DEF Filled
  <2>6. FetchedWasSaid'
    BY <1>3, <2>2, <2>5 DEF Inv, FetchedWasSaid, Fetch, Keeps
  <2> QED BY <2>3, <2>4, <2>6 DEF Inv
<1> QED BY <1>1, <1>2, <1>3 DEF Fetch

LEMMA FetchWideInv ==
    ASSUME Inv, NEW v \in Pages, FetchWide(v)
    PROVE  Inv' /\ StepOK
<1> DEFINE one == Paged(Translate(Mmu, v, user, FALSE))
           both == Paged(TranslateBoth(v, FALSE))
<1>1. PICK m : Accessed(m) /\ Becomes(m)
  <2>1. Accessed(one)
    BY TranslationOfOne DEF Inv, TypeOK
  <2>2. v + 1 \in Pages => Accessed(both)
    BY TranslationOfBoth
  <2>3. Becomes(one) \/ (v + 1 \in Pages /\ Becomes(both))
    BY DEF FetchWide
  <2> HIDE DEF one, both
  <2> QED BY <2>1, <2>2, <2>3
<1>2. Keeps /\ ifetch' = ifetch /\ line' \in {line, None}
  BY DEF FetchWide
<1>3. TablesTyped' /\ NowSaid' /\ CachedWasSaid' /\ StepOK
  BY <1>1, <1>2, AccessStep
<1>4. TypeOK'
  BY <1>2, <1>3 DEF Inv, TypeOK, TablesTyped
<1>5. FetchedWasSaid'
  BY <1>2 DEF Inv, FetchedWasSaid, Keeps
<1> QED BY <1>3, <1>4, <1>5 DEF Inv

(* Steps without an access raise no fault and write nothing.                  *)
LEMMA QuietStep ==
    ASSUME NoAccess
    PROVE  StepOK
  BY DEF NoAccess, StepOK, FaultJustifiedStep, FaultForgetsStep, WriteMarksStep

LEMMA NowType ==
    ASSUME pde' \in [Roots -> [Dirs -> Bits]], pte' \in [Roots -> [Pages -> Said]],
           root' \in Roots, pg' \in BOOLEAN, NEW v \in Pages
    PROVE  Now(v) \in Said /\ Walk(v)' = Now(v)
<1>1. pde'[root'] \in [Dirs -> Bits] /\ pte'[root'] \in [Pages -> Said]
  OBVIOUS
<1>2. Now(v) \in Said
  BY <1>1, SayType DEF Now
<1> QED BY <1>2 DEF Now, Walk

(* A flush empties every cache, so nothing it held matters. *)
LEMMA FlushInv ==
    ASSUME Inv, NoAccess, TlbClear, Restart, UNCHANGED tables,
           root' \in Roots, pg' \in BOOLEAN, wp' \in BOOLEAN, user' \in BOOLEAN
    PROVE  Inv'
<1>1. /\ pde' \in [Roots -> [Dirs -> Bits]] /\ pte' \in [Roots -> [Pages -> Said]]
      /\ dirty' \subseteq Roots \X Pages
  BY DEF Inv, TypeOK, tables
<1>2. /\ since' = [v \in Pages |-> {Now(v)}]
      /\ \A v \in Pages : Now(v) \in Said /\ Walk(v)' = Now(v)
  BY <1>1, NowType DEF Restart
<1>3. tlb' = [s \in Slots |-> None] /\ ifetch' = None /\ line' = None
  BY DEF TlbClear
<1>4. TypeOK'
  BY <1>1, <1>2, <1>3 DEF TypeOK, NoAccess
<1>5. NowSaid'
  BY <1>2 DEF NowSaid
<1>6. CachedWasSaid'
  BY <1>3 DEF CachedWasSaid
<1>7. FetchedWasSaid'
  BY <1>3 DEF FetchedWasSaid
<1> QED BY <1>4, <1>5, <1>6, <1>7 DEF Inv

(* An edit of the tables only adds to what they have said. *)
LEMMA EditInv ==
    ASSUME Inv, NoAccess, UNCHANGED <<regs, tlb, ifetch, line>>, Extend,
           pde' \in [Roots -> [Dirs -> Bits]], pte' \in [Roots -> [Pages -> Said]],
           dirty' \subseteq Roots \X Pages
    PROVE  Inv'
<1>1. /\ root' = root /\ pg' = pg /\ wp' = wp /\ user' = user
      /\ tlb' = tlb /\ ifetch' = ifetch /\ line' = line
  BY DEF regs
<1>2. root' \in Roots /\ pg' \in BOOLEAN
  BY <1>1 DEF Inv, TypeOK
<1>3. /\ since' = [v \in Pages |-> since[v] \cup {Now(v)}]
      /\ \A v \in Pages : Now(v) \in Said /\ Walk(v)' = Now(v)
  BY <1>2, NowType DEF Extend
<1>4. /\ since \in [Pages -> SUBSET Said] /\ since' \in [Pages -> SUBSET Said]
      /\ \A v \in Pages : since[v] \subseteq since'[v]
  BY <1>3 DEF Inv, TypeOK
<1>5. TypeOK'
  BY <1>1, <1>4 DEF Inv, TypeOK, NoAccess
<1>6. NowSaid'
  BY <1>3 DEF NowSaid
<1>7. CachedWasSaid'
  <2>1. \A s \in Slots : tlb[s] # None => tlb[s].page \in Pages
    BY DEF Inv, TypeOK, TlbEntry
  <2> QED BY <1>1, <1>4, <2>1 DEF Inv, CachedWasSaid
<1>8. FetchedWasSaid'
  <2>1. \A c \in {ifetch, line} \ {None} : c.page \in Pages
    BY DEF Inv, TypeOK, Cell
  <2> QED BY <1>1, <1>4, <2>1 DEF Inv, FetchedWasSaid
<1> QED BY <1>5, <1>6, <1>7, <1>8 DEF Inv

LEMMA EditTableInv ==
    ASSUME Inv, NEW r \in Roots, NEW v \in Pages, EditTable(r, v)
    PROVE  Inv'
<1>1. /\ pde' \in [Roots -> [Dirs -> Bits]] /\ pte \in [Roots -> [Pages -> Said]]
      /\ dirty \subseteq Roots \X Pages
  BY DEF Inv, TypeOK, EditTable
<1>2. ASSUME NEW b \in Entries, NEW f \in Frames,
             pte' = [pte EXCEPT ![r][v] = [p |-> b.p, rw |-> b.rw, us |-> b.us, frame |-> f]]
      PROVE  pte' \in [Roots -> [Pages -> Said]]
  <2>1. [p |-> b.p, rw |-> b.rw, us |-> b.us, frame |-> f] \in Said
    BY EntryAssumption DEF Said, Bits
  <2> QED BY <1>1, <1>2, <2>1
<1>3. pte' \in [Roots -> [Pages -> Said]] /\ dirty' \subseteq Roots \X Pages
  BY <1>1, <1>2 DEF EditTable
<1> QED BY <1>1, <1>3, EditInv DEF EditTable

LEMMA EditDirectoryInv ==
    ASSUME Inv, NEW r \in Roots, NEW d \in Dirs, EditDirectory(r, d)
    PROVE  Inv'
<1>1. /\ pde \in [Roots -> [Dirs -> Bits]] /\ pte' \in [Roots -> [Pages -> Said]]
      /\ dirty' \subseteq Roots \X Pages
  BY DEF Inv, TypeOK, EditDirectory
<1>2. PICK b \in Entries : pde' = [pde EXCEPT ![r][d] = b]
  BY DEF EditDirectory
<1>3. pde' \in [Roots -> [Dirs -> Bits]]
  BY <1>1, <1>2, EntryAssumption
<1> QED BY <1>1, <1>3, EditInv DEF EditDirectory

LEMMA MovCr0Inv ==
    ASSUME Inv, NEW paging \in BOOLEAN, NEW protect \in BOOLEAN, NEW pe \in BOOLEAN,
           MovCr0(paging, protect, pe)
    PROVE  Inv'
<1>1. CASE TlbClear /\ Restart
  BY <1>1, FlushInv DEF MovCr0, Inv, TypeOK
<1>2. CASE paging = pg /\ protect = wp /\ UNCHANGED <<tlb, ifetch, line, since>>
  <2>1. UNCHANGED <<pde, pte, dirty, root, pg, wp, user, tlb, ifetch, line, since>>
    BY <1>2 DEF MovCr0, tables
  <2>2. TypeOK'
    BY <2>1 DEF Inv, TypeOK, MovCr0, NoAccess
  <2>3. NowSaid' /\ CachedWasSaid' /\ FetchedWasSaid'
    BY <2>1 DEF Inv, NowSaid, Walk, CachedWasSaid, FetchedWasSaid
  <2> QED BY <2>2, <2>3 DEF Inv
<1> QED BY <1>1, <1>2 DEF MovCr0

LEMMA TransferInv ==
    ASSUME Inv, NEW u \in BOOLEAN, Transfer(u)
    PROVE  Inv'
<1>1. UNCHANGED <<pde, pte, dirty, root, pg, wp, tlb, ifetch, since>>
  BY DEF Transfer, tables
<1>2. user' \in BOOLEAN /\ line' = None /\ NoAccess
  BY DEF Transfer
<1>3. TypeOK'
  BY <1>1, <1>2 DEF Inv, TypeOK, NoAccess
<1>4. NowSaid' /\ CachedWasSaid'
  BY <1>1 DEF Inv, NowSaid, Walk, CachedWasSaid
<1>5. FetchedWasSaid'
  BY <1>1, <1>2 DEF Inv, FetchedWasSaid
<1> QED BY <1>3, <1>4, <1>5 DEF Inv

LEMMA InitInv == Init => Inv
<1> SUFFICES ASSUME Init PROVE Inv
  OBVIOUS
<1>1. TablesTyped /\ FetchTyped
  <2>1. pde \in [Roots -> [Dirs -> Bits]]
    BY DEF Init, Bits
  <2>2. pte \in [Roots -> [Pages -> Said]]
    BY PagingAssumption DEF Init, Said, Absent, Frames
  <2>3. root \in Roots /\ pg \in BOOLEAN /\ wp \in BOOLEAN /\ user \in BOOLEAN
    BY EntryAssumption DEF Init
  <2>4. \A v \in Pages : Walk(v) \in Said
    BY <2>1, <2>2, <2>3, SayType DEF Walk
  <2> QED BY <2>1, <2>2, <2>3, <2>4 DEF Init, TablesTyped, FetchTyped
<1>2. TypeOK
  BY <1>1 DEF TablesTyped, FetchTyped, TypeOK
<1>3. NowSaid /\ CachedWasSaid /\ FetchedWasSaid
  BY DEF Init, NowSaid, CachedWasSaid, FetchedWasSaid
<1> QED BY <1>2, <1>3 DEF Inv

LEMMA NextInv ==
    ASSUME Inv, Next
    PROVE  Inv' /\ StepOK
<1>1. ASSUME NEW v \in Pages, NEW u \in BOOLEAN, NEW write \in BOOLEAN, Access(v, u, write)
      PROVE  Inv' /\ StepOK
  BY <1>1, AccessInv
<1>2. ASSUME NEW v \in Pages, NEW write \in BOOLEAN, Straddle(v, write)
      PROVE  Inv' /\ StepOK
  BY <1>2, StraddleInv
<1>3. ASSUME NEW v \in Pages, Fetch(v) \/ FetchWide(v)
      PROVE  Inv' /\ StepOK
  BY <1>3, FetchInv, FetchWideInv
<1>4. ASSUME NEW u \in BOOLEAN, Transfer(u)
      PROVE  Inv' /\ StepOK
  BY <1>4, TransferInv, QuietStep DEF Transfer
<1>5. ASSUME NEW r \in Roots, NEW v \in Pages, EditTable(r, v)
      PROVE  Inv' /\ StepOK
  BY <1>5, EditTableInv, QuietStep DEF EditTable
<1>6. ASSUME NEW r \in Roots, NEW d \in Dirs, EditDirectory(r, d)
      PROVE  Inv' /\ StepOK
  BY <1>6, EditDirectoryInv, QuietStep DEF EditDirectory
<1>7. ASSUME NEW r \in Roots, MovCr3(r)
      PROVE  Inv' /\ StepOK
  BY <1>7, FlushInv, QuietStep DEF MovCr3, Inv, TypeOK
<1>8. ASSUME NEW paging \in BOOLEAN, NEW protect \in BOOLEAN, NEW pe \in BOOLEAN,
             MovCr0(paging, protect, pe)
      PROVE  Inv' /\ StepOK
  BY <1>8, MovCr0Inv, QuietStep DEF MovCr0
<1>9. CASE Invlpg
  BY <1>9, FlushInv, QuietStep DEF Invlpg, Inv, TypeOK, regs
<1>10. CASE Reset
  BY <1>10, FlushInv, QuietStep, EntryAssumption DEF Reset
<1>11. ASSUME NEW r \in Roots, NEW u \in BOOLEAN, TaskSwitch(r, u)
       PROVE  Inv' /\ StepOK
  BY <1>11, FlushInv, QuietStep DEF TaskSwitch, Inv, TypeOK
<1>12. CASE Cpu
  BY <1>12, <1>1, <1>2, <1>3 DEF Cpu
<1>13. CASE System
  BY <1>13, <1>4, <1>5, <1>6, <1>7, <1>8, <1>9, <1>10, <1>11 DEF System
<1> QED BY <1>12, <1>13 DEF Next

LEMMA StutterInv ==
    ASSUME Inv, UNCHANGED vars
    PROVE  Inv'
<1>1. UNCHANGED <<pde, pte, dirty, root, pg, wp, user, tlb, ifetch, line, exc, wrote, since>>
  BY DEF vars, tables, regs
<1>2. TypeOK'
  BY <1>1 DEF Inv, TypeOK
<1>3. NowSaid' /\ CachedWasSaid' /\ FetchedWasSaid'
  BY <1>1 DEF Inv, NowSaid, Walk, CachedWasSaid, FetchedWasSaid
<1> QED BY <1>2, <1>3 DEF Inv

THEOREM Invariance == Spec => []Inv
<1>1. Inv /\ [Next]_vars => Inv'
  BY NextInv, StutterInv
<1> QED BY InitInv, <1>1, PTL DEF Spec

(* Every variable keeps its type (i386.c:877-971).                             *)
THEOREM TypeCorrect == Spec => []TypeOK
<1>1. Inv => TypeOK
  BY DEF Inv
<1> QED BY Invariance, <1>1, PTL

(* The TLB holds only what the tables have said since the last flush, under    *)
(* the present CR3 and CR0.WP (tlb_refill, tlb_clear and its callers).          *)
THEOREM TlbSound == Spec => []CachedWasSaid
<1>1. Inv => CachedWasSaid
  BY DEF Inv
<1> QED BY Invariance, <1>1, PTL

(* The fetch's two caches hold only frames the tables have given the page      *)
(* since the last flush (peek8_miss, prefetch_fill).                           *)
THEOREM FetchSound == Spec => []FetchedWasSaid
<1>1. Inv => FetchedWasSaid
  BY DEF Inv
<1> QED BY Invariance, <1>1, PTL

(* Every step keeps the promises of the action properties. *)
LEMMA StepsSound ==
    Spec => [][FaultJustifiedStep /\ FaultForgetsStep /\ WriteMarksStep]_vars
<1>1. Inv /\ [Next]_vars => [StepOK]_vars
  BY NextInv
<1>2. StepOK => FaultJustifiedStep /\ FaultForgetsStep /\ WriteMarksStep
  BY DEF StepOK
<1> QED BY Invariance, <1>1, <1>2, PTL DEF Spec

(* A page fault has grounds: the page is absent in the tables now, or          *)
(* something they said since the last flush refuses (translate_lpgno).         *)
THEOREM FaultsHaveGrounds == Spec => FaultJustified
  BY StepsSound, PTL DEF FaultJustified, FaultJustifiedStep

(* The TLB holds nothing of a page that has just faulted (i386.c:930, 1098).   *)
THEOREM FaultsAreForgotten == Spec => FaultForgets
  BY StepsSound, PTL DEF FaultForgets, FaultForgetsStep

(* A write that went through has marked its page (i386.c:944-946, 1055-1059).  *)
THEOREM WritesAreMarked == Spec => WriteMarks
  BY StepsSound, PTL DEF WriteMarks, WriteMarksStep

-----------------------------------------------------------------------------
(* Transfers, for any segments, vectors and kinds of guest, any width of the   *)
(* registers and any depth of nesting.                                       *)

-----------------------------------------------------------------------------
(* The invariant. *)

\* a state of the registers, as a record
IsCpu(c) == c = [cs |-> c.cs, ip |-> c.ip, ss |-> c.ss, esp |-> c.esp, ds |-> c.ds,
                 cpl |-> c.cpl, ifl |-> c.ifl, vm |-> c.vm, iopl |-> c.iopl,
                 arith |-> c.arith, lazy |-> c.lazy]

\* the same segments, level and mode
Alike(c, d) == /\ c.cs = d.cs /\ c.ss = d.ss /\ c.ds = d.ds
               /\ c.cpl = d.cpl /\ c.vm = d.vm

\* a stack of level l
StackOf(s, l) == s.rpl = l /\ s.seg \in DOMAIN Gdt /\ Dpl(s) = l

\* the registers agree
Good(c) ==
    /\ IsCpu(c)
    /\ c.vm \in BOOLEAN /\ ~(os.real /\ c.vm)
    /\ c.cpl \in Levels
    /\ c.cpl = IF os.real THEN 0 ELSE IF c.vm THEN 3 ELSE c.cs.rpl
    /\ c.vm => c.ss = Para
    /\ ~os.real /\ ~c.vm => /\ MayEnter(c.cs) /\ StackOf(c.ss, c.cpl)
                            /\ c.ds # Null => Dpl(c.ds) >= c.cpl

\* a frame gives back registers that agree
GoodFrame(f) ==
    /\ f.vm \in BOOLEAN
    /\ f.vm => f.ofss = Para
    /\ f.vm /\ f.how \in {"far", "gate"} => f.ss = "para"
    /\ ~os.real /\ ~f.vm => f.cs.rpl \in Levels /\ StackOf(f.ofss, f.cs.rpl)

GoodFrames(fs) == \A f \in fs : GoodFrame(f)

XInv == os \in Systems /\ absent \subseteq Movable /\ Good(cpu) /\ GoodFrames(frames)

-----------------------------------------------------------------------------
(* Operators. *)

\* A change of other registers keeps what agrees.
LEMMA AlikeGood ==
  ASSUME NEW c, NEW d, Good(c), IsCpu(d), Alike(c, d)
  PROVE  Good(d)
  BY DEF Good, Alike

LEMMA WithSpAlike ==
  ASSUME NEW c, IsCpu(c), NEW v
  PROVE  IsCpu(WithSp(c, v)) /\ Alike(c, WithSp(c, v))
  BY DEF IsCpu, Alike, WithSp

LEMMA FlagsAlike ==
  ASSUME NEW c, IsCpu(c), NEW t
  PROVE  IsCpu(Flags(Refreshed(c), t)) /\ Alike(c, Flags(Refreshed(c), t))
  <1> DEFINE r == Refreshed(c)
  <1>1. IsCpu(r) /\ Alike(c, r)
    <2> DEFINE a == Arith(c)
    <2> r = [c EXCEPT !.arith = a, !.lazy = <<>>]  BY DEF Refreshed
    <2> HIDE DEF a
    <2> QED  BY DEF IsCpu, Alike
  <1> HIDE DEF r
  <1>2. IsCpu(Flags(r, t)) /\ Alike(r, Flags(r, t))
    <2> DEFINE i == r.ifl /\ t
    <2> Flags(r, t) = [r EXCEPT !.ifl = i]  BY <1>1 DEF Flags, IsCpu
    <2> HIDE DEF i
    <2> QED  BY <1>1 DEF IsCpu, Alike
  <1> QED  BY <1>1, <1>2 DEF Alike, r

LEMMA NewMode ==
  ASSUME NEW c, IsCpu(c), NEW b
  PROVE  LET d == [c EXCEPT !.vm = b] IN
         /\ IsCpu(d) /\ d.vm = b
         /\ d.cs = c.cs /\ d.ss = c.ss /\ d.ds = c.ds /\ d.cpl = c.cpl
  BY DEF IsCpu

LEMMA PastAlike ==
  ASSUME NEW c, IsCpu(c)
  PROVE  IsCpu(Past(c)) /\ Alike(c, Past(c))
  BY DEF IsCpu, Alike, Past

LEMMA IretAlike ==
  ASSUME NEW c, IsCpu(c), NEW f
  PROVE  IsCpu(IretFlags(c, f)) /\ Alike(c, IretFlags(c, f))
  <1> DEFINE i == IF c.iopl < c.cpl THEN c.ifl ELSE f.ifl
             o == IF c.cpl > 0 THEN c.iopl ELSE f.iopl
             a == f.arith
  <1> IretFlags(c, f) = [c EXCEPT !.arith = a, !.lazy = <<>>, !.ifl = i, !.iopl = o]
    BY DEF IretFlags, IsCpu
  <1> HIDE DEF i, o, a
  <1> QED  BY DEF IsCpu, Alike

\* Loading CS in a mode sets the level of that mode.
LEMMA LoadCsCpu ==
  ASSUME NEW c, IsCpu(c), NEW s
  PROVE  LET d == LoadCs(c, s) IN
         /\ IsCpu(d) /\ d.cs = s /\ d.ss = c.ss /\ d.ds = c.ds /\ d.vm = c.vm
         /\ d.cpl = IF os.real THEN 0 ELSE IF c.vm THEN 3 ELSE s.rpl
  <1> DEFINE l == IF os.real THEN 0 ELSE IF c.vm THEN 3 ELSE s.rpl
  <1> LoadCs(c, s) = [c EXCEPT !.cs = s, !.cpl = l]  BY DEF LoadCs
  <1>1. l = IF os.real THEN 0 ELSE IF c.vm THEN 3 ELSE s.rpl  OBVIOUS
  <1> HIDE DEF l
  <1> QED  BY <1>1 DEF IsCpu

\* The level of a segment is a number.
LEMMA DplLevel == ASSUME GuestSystem, NEW s PROVE Dpl(s) \in Levels
  BY DEF GuestSystem, Segments, Dpl, Levels

-----------------------------------------------------------------------------
(* Frames. *)

\* Registers that agree make a frame that gives them back.
LEMMA FrameGood ==
  ASSUME NEW c, Good(c), NEW d, NEW how, NEW wide, NEW n,
         c.vm /\ how \in {"far", "gate"} => d.ss.seg = "para"
  PROVE  GoodFrame(Frame(d, how, wide, n, c))
  <1> DEFINE f == Frame(d, how, wide, n, c)
  <1>1. f.vm = c.vm /\ f.ofss = c.ss /\ f.how = how /\ f.ss = d.ss.seg /\ f.cs = c.cs
    BY DEF Frame
  <1> HIDE DEF f
  <1>2. GoodFrame(f)  BY <1>1 DEF GoodFrame, Good
  <1> QED  BY <1>2 DEF f

\* A push changes nothing but the stack pointer, and leaves good frames.
LEMMA PushedGood ==
  ASSUME NEW c, Good(c), NEW d, IsCpu(d), GoodFrames(frames),
         NEW how, NEW wide, NEW n, NEW code \in BOOLEAN,
         c.vm /\ how \in {"far", "gate"} => d.ss.seg = "para"
  PROVE  LET p == Pushed(d, how, wide, n, c, code) IN
         /\ p = [exc |-> "none", cpu |-> p.cpu, frames |-> p.frames]
         /\ IsCpu(p.cpu) /\ Alike(d, p.cpu) /\ GoodFrames(p.frames)
  <1> DEFINE f == Frame(d, how, wide, n, c)
             v == d.esp - f.size
             e == WithSp(d, v)
             g == Frame(e, "code", wide, 1, c)
             w == e.esp - g.size
             h == WithSp(e, w)
             one == Put(frames, f)
             two == Put(one, g)
  <1>1. GoodFrame(f)  BY FrameGood
  <1>2. GoodFrame(g)
    <2> "code" \notin {"far", "gate"}  OBVIOUS
    <2> QED  BY FrameGood
  <1>3. IsCpu(e) /\ Alike(d, e)  BY WithSpAlike
  <1>4. IsCpu(h) /\ Alike(d, h)
    <2> HIDE DEF e, w
    <2> IsCpu(h) /\ Alike(e, h)  BY <1>3, WithSpAlike
    <2> QED  BY <1>3 DEF Alike
  <1>5. GoodFrames(one) /\ GoodFrames(two)
    <2> HIDE DEF f, g
    <2> QED  BY <1>1, <1>2 DEF GoodFrames, Put
  <1>6. Pushed(d, how, wide, n, c, code) = IF code THEN Moves(h, two) ELSE Moves(e, one)
    BY DEF Pushed
  <1> HIDE DEF e, h, one, two
  <1> QED  BY <1>3, <1>4, <1>5, <1>6 DEF Moves

\* What a return finds is a good frame, or no frame of its kind, without a segment.
LEMMA FoundGood ==
  ASSUME NEW how, NEW wide, GoodFrames(frames)
  PROVE  LET f == Found(cpu, how, wide) IN
         \/ f \in frames /\ GoodFrame(f) /\ f.how = how /\ f.ss = cpu.ss.seg
         \/ f.cs = Null /\ f.vm = cpu.vm
  <1> DEFINE here == {f \in frames : /\ f.how = how /\ f.wide = wide
                                      /\ f.ss = cpu.ss.seg /\ f.at = cpu.esp % Modulus(cpu.ss)}
  <1>1. CASE here # {}
    <2> (CHOOSE f \in here : TRUE) \in here  BY <1>1
    <2> QED  BY <1>1 DEF Found, GoodFrames
  <1>2. CASE here = {}
    <2> Found(cpu, how, wide) = Frame(cpu, how, wide, 1, [cpu EXCEPT !.cs = Null])
      BY <1>2 DEF Found
    <2> QED  BY DEF Frame
  <1> QED  BY <1>1, <1>2

-----------------------------------------------------------------------------
(* call_isr. *)

\* What a transfer makes of the state.
GoodOutcome(r) == IsCpu(r.cpu) /\ Good(r.cpu) /\ GoodFrames(r.frames)

\* r is c in another code segment, at the level that goes with it
Moved(c, s, r) ==
    /\ IsCpu(r) /\ r.cs = s /\ r.ss = c.ss /\ r.ds = c.ds /\ r.vm = c.vm
    /\ r.cpl = IF os.real THEN 0 ELSE IF c.vm THEN 3 ELSE s.rpl

\* Entering a handler changes the code segment, and the level with it.
LEMMA EnteredCpu ==
  ASSUME NEW c, IsCpu(c), NEW s, NEW t
  PROVE  Moved(c, s, Entered(c, s, t))
  <1> DEFINE e == LoadCs(c, s)
             d == [e EXCEPT !.ip = 0]
             r == Flags(Refreshed(d), t)
  <1>1. /\ IsCpu(e) /\ e.cs = s /\ e.ss = c.ss /\ e.ds = c.ds /\ e.vm = c.vm
        /\ e.cpl = IF os.real THEN 0 ELSE IF c.vm THEN 3 ELSE s.rpl
    BY LoadCsCpu
  <1> HIDE DEF e
  <1>2. IsCpu(d) /\ Alike(e, d)  BY <1>1 DEF IsCpu, Alike
  <1> HIDE DEF d
  <1>3. IsCpu(r) /\ Alike(d, r)  BY <1>2, FlagsAlike
  <1>4. Entered(c, s, t) = r  BY DEF Entered, r, d, e
  <1> HIDE DEF r
  <1> QED  BY <1>1, <1>2, <1>3, <1>4 DEF Alike, Moved

\* A handler entered in protected mode, on a stack of its level.
LEMMA HandlerGood ==
  ASSUME ~os.real, NEW c, IsCpu(c), NEW s, NEW t,
         c.vm = FALSE, s.rpl \in Levels, MayEnter(s), StackOf(c.ss, s.rpl),
         c.ds # Null => Dpl(c.ds) >= s.rpl
  PROVE  Good(Entered(c, s, t))
  <1> DEFINE r == Entered(c, s, t)
  <1>1. Moved(c, s, r)  BY EnteredCpu
  <1> HIDE DEF r
  <1>2. Good(r)  BY <1>1 DEF Good, Moved
  <1> QED  BY <1>2 DEF r

LEMMA RealGood ==
  ASSUME os.real, NEW c, Good(c), GoodFrames(frames)
  PROVE  RealIsr(c).exc = "none" /\ GoodOutcome(RealIsr(c))
  <1> DEFINE p == Pushed(c, "int", FALSE, 3, c, FALSE)
             m == p.cpu.esp % R
             d == [p.cpu EXCEPT !.esp = m]
             r == Entered(d, Para, FALSE)
  <1>1. IsCpu(p.cpu) /\ Alike(c, p.cpu) /\ GoodFrames(p.frames)
    <2> IsCpu(c)  BY DEF Good
    <2> "int" \notin {"far", "gate"}  OBVIOUS
    <2> QED  BY PushedGood
  <1>2. RealIsr(c) = Moves(r, p.frames)  BY DEF RealIsr
  <1> HIDE DEF p, m
  <1>3. IsCpu(d) /\ Alike(p.cpu, d)  BY <1>1 DEF IsCpu, Alike
  <1> HIDE DEF d
  <1>4. Moved(d, Para, r)  BY <1>3, EnteredCpu
  <1> HIDE DEF r
  <1>5. Good(r)  BY <1>1, <1>3, <1>4 DEF Good, Alike, Levels, Moved
  <1> QED  BY <1>1, <1>2, <1>4, <1>5 DEF GoodOutcome, Moves, Moved

LEMMA SameGood ==
  ASSUME ~os.real, NEW c, Good(c), c.vm = FALSE, GoodFrames(frames),
         NEW v, NEW code \in BOOLEAN, MayEnter(Sel(Idt[v].cs, c.cpl))
  PROVE  SameIsr(c, v, code).exc = "none" /\ GoodOutcome(SameIsr(c, v, code))
  <1> DEFINE p == Pushed(c, "int", os.wide, 3, c, code)
             s == Sel(Idt[v].cs, c.cpl)
             r == Entered(p.cpu, s, Idt[v].trap)
  <1>1. IsCpu(p.cpu) /\ Alike(c, p.cpu) /\ GoodFrames(p.frames)
    <2> IsCpu(c)  BY DEF Good
    <2> "int" \notin {"far", "gate"}  OBVIOUS
    <2> QED  BY PushedGood
  <1>2. SameIsr(c, v, code) = Moves(r, p.frames)  BY DEF SameIsr
  <1>3. s.rpl = c.cpl /\ MayEnter(s)  BY DEF Sel
  <1> HIDE DEF p, s
  <1>4. p.cpu.vm = FALSE /\ s.rpl \in Levels /\ StackOf(p.cpu.ss, s.rpl)
        /\ (p.cpu.ds # Null => Dpl(p.cpu.ds) >= s.rpl)
    BY <1>1, <1>3 DEF Good, Alike
  <1>5. Good(r)  BY <1>1, <1>3, <1>4, HandlerGood
  <1> HIDE DEF r
  <1> QED  BY <1>1, <1>2, <1>5 DEF GoodOutcome, Moves, Good

\* The stack of the TSS is one of the inner level.
LEMMA InnerCpu ==
  ASSUME GuestSystem, NEW c, IsCpu(c)
  PROVE  LET d == InnerStack(c, 0) IN
         /\ IsCpu(d) /\ d.cs = c.cs /\ d.ds = c.ds /\ d.cpl = c.cpl /\ d.vm = c.vm
         /\ StackOf(d.ss, 0)
  <1> DEFINE s == Sel("stack0", 0)
             t == os.top
             e == [c EXCEPT !.ss = s]
             d == [e EXCEPT !.esp = t]
  <1>1. StackOf(s, 0)  BY DEF GuestSystem, Segments, StackOf, Sel, Dpl
  <1>2. InnerStack(c, 0) = d  BY DEF InnerStack
  <1> HIDE DEF s, t
  <1>3. /\ IsCpu(e) /\ e.ss = s
        /\ e.cs = c.cs /\ e.ds = c.ds /\ e.cpl = c.cpl /\ e.vm = c.vm
    BY DEF IsCpu
  <1> HIDE DEF e
  <1>4. IsCpu(d) /\ Alike(e, d)  BY <1>3 DEF IsCpu, Alike
  <1> HIDE DEF d
  <1> QED  BY <1>1, <1>2, <1>3, <1>4 DEF Alike

LEMMA InnerGood ==
  ASSUME GuestSystem, ~os.real, NEW c, Good(c), c.vm = FALSE, GoodFrames(frames),
         NEW v, NEW code \in BOOLEAN, Gdt[Idt[v].cs].dpl = 0, MayEnter(Sel(Idt[v].cs, 0))
  PROVE  InnerIsr(c, v, code).exc = "none" /\ GoodOutcome(InnerIsr(c, v, code))
  <1> DEFINE i == InnerStack(c, 0)
             p == Pushed(i, "int", os.wide, 5, c, code)
             n == IF code THEN 6 ELSE 5
             m == IF os.wide THEN (os.top - 2 * n) % (R * R) ELSE p.cpu.esp
             d == [p.cpu EXCEPT !.esp = m]
             s == Sel(Idt[v].cs, 0)
             r == Entered(d, s, Idt[v].trap)
  <1>1. /\ IsCpu(i) /\ i.cs = c.cs /\ i.ds = c.ds /\ i.cpl = c.cpl /\ i.vm = c.vm
        /\ StackOf(i.ss, 0)
    BY InnerCpu DEF Good
  <1>2. InnerIsr(c, v, code) = Moves(r, p.frames)  BY DEF InnerIsr
  <1>3. s.rpl = 0 /\ MayEnter(s)  BY DEF Sel
  <1> HIDE DEF i, s
  <1>4. IsCpu(p.cpu) /\ Alike(i, p.cpu) /\ GoodFrames(p.frames)
    <2> "int" \notin {"far", "gate"}  OBVIOUS
    <2> QED  BY <1>1, PushedGood
  <1> HIDE DEF p, m
  <1>5. IsCpu(d) /\ Alike(p.cpu, d)  BY <1>4 DEF IsCpu, Alike
  <1> HIDE DEF d
  <1>6. d.ds # Null => Dpl(d.ds) >= 0
    <2> Dpl(d.ds) \in Levels  BY DplLevel
    <2> QED  BY DEF Levels
  <1>7. d.vm = FALSE /\ s.rpl \in Levels /\ StackOf(d.ss, s.rpl)
        /\ (d.ds # Null => Dpl(d.ds) >= s.rpl)
    BY <1>1, <1>3, <1>4, <1>5, <1>6 DEF Alike, Levels
  <1>8. Good(r)  BY <1>3, <1>5, <1>7, HandlerGood
  <1> HIDE DEF r
  <1> QED  BY <1>2, <1>4, <1>8 DEF GoodOutcome, Moves, Good

LEMMA VirtualGood ==
  ASSUME GuestSystem, ~os.real, NEW c, Good(c), GoodFrames(frames),
         NEW v, NEW code \in BOOLEAN, MayEnter(Sel(Idt[v].cs, 0))
  PROVE  VirtualIsr(c, v, code).exc = "none" /\ GoodOutcome(VirtualIsr(c, v, code))
  <1> DEFINE i == InnerStack(c, 0)
             o == [i EXCEPT !.vm = FALSE]
             p == Pushed(o, "int", TRUE, 9, c, code)
             d == [p.cpu EXCEPT !.ds = Null]
             s == Sel(Idt[v].cs, 0)
             r == Entered(d, s, Idt[v].trap)
  <1>1. IsCpu(i) /\ StackOf(i.ss, 0)  BY InnerCpu DEF Good
  <1>2. VirtualIsr(c, v, code) = Moves(r, p.frames)  BY DEF VirtualIsr
  <1>3. s.rpl = 0 /\ MayEnter(s)  BY DEF Sel
  <1> HIDE DEF i, s
  <1>4. IsCpu(o) /\ o.ss = i.ss /\ o.vm = FALSE  BY <1>1, NewMode
  <1> HIDE DEF o
  <1>5. IsCpu(p.cpu) /\ Alike(o, p.cpu) /\ GoodFrames(p.frames)
    <2> "int" \notin {"far", "gate"}  OBVIOUS
    <2> QED  BY <1>4, PushedGood
  <1> HIDE DEF p
  <1>6. IsCpu(d) /\ d.ss = p.cpu.ss /\ d.vm = p.cpu.vm /\ d.ds = Null  BY <1>5 DEF IsCpu
  <1> HIDE DEF d
  <1>7. d.vm = FALSE /\ s.rpl \in Levels /\ StackOf(d.ss, s.rpl)
        /\ (d.ds # Null => Dpl(d.ds) >= s.rpl)
    BY <1>1, <1>3, <1>4, <1>5, <1>6 DEF Alike, Levels
  <1>8. Good(r)  BY <1>3, <1>6, <1>7, HandlerGood
  <1> HIDE DEF r
  <1> QED  BY <1>2, <1>5, <1>8 DEF GoodOutcome, Moves, Good

\* call_isr refuses, or leaves registers that agree and good frames.
LEMMA IsrGood ==
  ASSUME GuestSystem, NEW c, Good(c), GoodFrames(frames),
         NEW v \in DOMAIN Idt, NEW code \in BOOLEAN, NEW ext \in BOOLEAN
  PROVE  LET r == CallIsr(c, v, code, ext)
         IN  r.exc \in {"gp", "np"} \/ (r.exc = "none" /\ GoodOutcome(r))
  <1> DEFINE r == CallIsr(c, v, code, ext)
             s == Gdt[Idt[v].cs]
  <1> SUFFICES ASSUME r.exc \notin {"gp", "np"} PROVE r.exc = "none" /\ GoodOutcome(r)
    OBVIOUS
  <1>0. /\ Idt[v].cs \in DOMAIN Gdt /\ s.dpl \in Levels /\ s.conforming \in BOOLEAN
        /\ c.cpl \in Levels /\ c.vm \in BOOLEAN
    BY DEF GuestSystem, Segments, Vectors, Good
  <1>1. CASE os.real
    <2> r = RealIsr(c)  BY <1>1 DEF CallIsr
    <2> QED  BY <1>1, RealGood
  <1>2. CASE ~os.real
    <2>1. /\ ~(s.dpl > c.cpl) /\ r = IF ~s.conforming /\ s.dpl < c.cpl
                                    THEN IF c.vm THEN VirtualIsr(c, v, code)
                                         ELSE InnerIsr(c, v, code)
                                    ELSE SameIsr(c, v, code)
          /\ ~(~s.conforming /\ s.dpl < c.cpl) => ~c.vm
      BY <1>2 DEF CallIsr, Fails
    <2>2. CASE ~s.conforming /\ s.dpl < c.cpl
      <3>1. s.dpl = 0  BY <1>0, <2>2 DEF Levels
      <3>2. MayEnter(Sel(Idt[v].cs, 0))  BY <1>0, <2>2, <3>1 DEF MayEnter, Sel, Dpl
      <3>3. CASE c.vm
        <4> r = VirtualIsr(c, v, code)  BY <2>1, <2>2, <3>3
        <4> QED  BY <1>2, <3>2, VirtualGood
      <3>4. CASE ~c.vm
        <4> r = InnerIsr(c, v, code) /\ c.vm = FALSE  BY <1>0, <2>1, <2>2, <3>4
        <4> QED  BY <1>2, <3>1, <3>2, InnerGood
      <3> QED  BY <3>3, <3>4
    <2>3. CASE ~(~s.conforming /\ s.dpl < c.cpl)
      <3>1. r = SameIsr(c, v, code) /\ c.vm = FALSE  BY <1>0, <2>1, <2>3
      <3>2. MayEnter(Sel(Idt[v].cs, c.cpl))
        BY <1>0, <2>1, <2>3 DEF MayEnter, Sel, Dpl, Levels
      <3> QED  BY <1>2, <3>1, <3>2, SameGood
    <2> QED  BY <2>2, <2>3
  <1> QED  BY <1>1, <1>2

LEMMA BecomesNone == \A x, y : Moves(x, y).exc = "none"
  BY DEF Moves

\* The faults and the interrupts of the guest are never refused.
LEMMA FaultTaken ==
  ASSUME GuestSystem, absent \subseteq Movable, NEW c, Good(c), NEW v \in FaultVectors, NEW code \in BOOLEAN
  PROVE  CallIsr(c, v, code, TRUE).exc = "none"
  <1> DEFINE r == CallIsr(c, v, code, TRUE)
             s == Gdt[Idt[v].cs]
  <1>1. s.dpl = 0 /\ ~s.conforming /\ Idt[v].cs \notin absent
    BY DEF GuestSystem, Vectors
  <1>2. CASE os.real
    <2> r = RealIsr(c)  BY <1>2 DEF CallIsr
    <2> QED  BY BecomesNone DEF RealIsr
  <1>3. CASE ~os.real
    <2>1. ~MovedOut(Sel(Idt[v].cs, 0))  BY <1>1 DEF MovedOut, Sel
    <2>2. c.cpl \in Levels /\ (c.vm => c.cpl = 3)  BY <1>3 DEF Good
    <2>3. \/ r = VirtualIsr(c, v, code)
          \/ r = InnerIsr(c, v, code)
          \/ r = SameIsr(c, v, code)
      <3>1. CASE c.cpl = 3  BY <1>1, <1>3, <2>1, <3>1 DEF CallIsr
      <3>2. CASE c.cpl = 0  BY <1>1, <1>3, <2>1, <2>2, <3>2 DEF CallIsr
      <3> QED  BY <2>2, <3>1, <3>2 DEF Levels
    <2>4. VirtualIsr(c, v, code).exc = "none"  BY BecomesNone DEF VirtualIsr
    <2>5. InnerIsr(c, v, code).exc = "none"  BY BecomesNone DEF InnerIsr
    <2>6. SameIsr(c, v, code).exc = "none"  BY BecomesNone DEF SameIsr
    <2> QED  BY <2>3, <2>4, <2>5, <2>6
  <1> QED  BY <1>2, <1>3

-----------------------------------------------------------------------------
(* The steps. *)

\* The invariant after a step, from the registers and frames it leaves.
LEMMA Lifted ==
  ASSUME XInv, os' = os, absent' \subseteq Movable,
         NEW c, Good(c), cpu' = c, NEW fs, GoodFrames(fs), frames' = fs
  PROVE  XInv'
  <1>1. Good(cpu)'  BY DEF Good, IsCpu, MayEnter, StackOf, Dpl
  <1>2. GoodFrames(frames)'  BY DEF GoodFrames, GoodFrame, StackOf, Dpl
  <1> QED  BY <1>1, <1>2 DEF XInv

\* A step that leaves the stacks and the segments alone.
LEMMA StaysKeeps ==
  ASSUME XInv, Stays, NEW c, Good(c), cpu' = c
  PROVE  XInv'
  BY Lifted DEF Stays, XInv

\* A fault is taken.
LEMMA ThrowsKeeps ==
  ASSUME GuestSystem, XInv, NEW v \in FaultVectors, Throws(v)
  PROVE  XInv'
  <1> DEFINE r == CallIsr(cpu, v, TRUE, TRUE)
  <1>1. v \in DOMAIN Idt  BY DEF GuestSystem, Vectors
  <1>2. GoodOutcome(r)
    <2> r.exc = "none"  BY FaultTaken DEF XInv
    <2> QED  BY <1>1, IsrGood DEF XInv
  <1>3. cpu' = r.cpu /\ frames' = r.frames  BY DEF Throws, Takes
  <1> HIDE DEF r
  <1> QED  BY <1>2, <1>3, Lifted DEF GoodOutcome, Throws, XInv

LEMMA InterruptKeeps == ASSUME GuestSystem, XInv, Interrupt PROVE XInv'
  <1> DEFINE r == CallIsr(cpu, "hw", FALSE, TRUE)
  <1>1. "hw" \in DOMAIN Idt /\ "hw" \in FaultVectors  BY DEF GuestSystem, Vectors, FaultVectors
  <1>2. GoodOutcome(r)
    <2> r.exc = "none"  BY <1>1, FaultTaken DEF XInv
    <2> QED  BY <1>1, IsrGood DEF XInv
  <1>3. cpu' = r.cpu /\ frames' = r.frames  BY DEF Interrupt, Takes
  <1> HIDE DEF r
  <1> QED  BY <1>2, <1>3, Lifted DEF GoodOutcome, Interrupt, XInv

\* INT is served, or refused with a fault.
LEMMA IntKeeps == ASSUME GuestSystem, XInv, NEW v \in Called, IntN(v) PROVE XInv'
  <1> DEFINE r == CallIsr(Past(cpu), v, FALSE, FALSE)
  <1>1. v \in DOMAIN Idt  BY DEF GuestSystem, Vectors
  <1>2. {"gp", "np"} \subseteq FaultVectors  BY DEF FaultVectors
  <1>3. Good(Past(cpu))
    <2> IsCpu(cpu) /\ Good(cpu)  BY DEF XInv, Good
    <2> QED  BY PastAlike, AlikeGood
  <1>4. r.exc \in {"gp", "np"} \/ (r.exc = "none" /\ GoodOutcome(r))
    BY <1>1, <1>3, IsrGood DEF XInv
  <1>5. \/ Throws("gp")
        \/ r.exc # "none" /\ Throws(r.exc)
        \/ r.exc = "none" /\ Takes(r) /\ UNCHANGED <<os, absent>>
    BY DEF IntN
  <1> HIDE DEF r
  <1>6. CASE \E e \in {"gp", "np"} : Throws(e)  BY <1>2, <1>6, ThrowsKeeps
  <1>7. CASE GoodOutcome(r) /\ Takes(r) /\ UNCHANGED <<os, absent>>
    BY <1>7, Lifted DEF GoodOutcome, Takes, XInv
  <1> QED  BY <1>4, <1>5, <1>6, <1>7

LEMMA LoadKeeps == ASSUME GuestSystem, XInv, NEW s \in DsChoices, LoadDs(s) PROVE XInv'
  <1> DEFINE d == [cpu EXCEPT !.ds = s]
  <1>1. CASE Throws("np")  BY <1>1, ThrowsKeeps DEF FaultVectors
  <1>2. CASE cpu' = d /\ Stays
    <2>1. IsCpu(d) /\ d.ds = s /\ d.cs = cpu.cs /\ d.ss = cpu.ss /\ d.cpl = cpu.cpl
          /\ d.vm = cpu.vm
      BY DEF XInv, Good, IsCpu
    <2>2. ~os.real /\ ~cpu.vm /\ s # Null => Dpl(s) >= cpu.cpl
      BY DEF DsChoices, ByParagraph, GuestSystem, Segments, Sel, Dpl, XInv, Good, Levels
    <2> HIDE DEF d
    <2>3. Good(d)  BY <2>1, <2>2 DEF XInv, Good
    <2> QED  BY <1>2, <2>3, StaysKeeps
  <1> QED  BY <1>1, <1>2 DEF LoadDs

LEMMA ComputeKeeps == ASSUME XInv, NEW b, Compute(b) PROVE XInv'
  <1> DEFINE h == <<b>>
             d == [cpu EXCEPT !.lazy = h]
  <1>1. cpu' = d /\ Stays  BY DEF Compute
  <1> HIDE DEF h
  <1>2. IsCpu(d) /\ Alike(cpu, d)  BY DEF XInv, Good, IsCpu, Alike
  <1> HIDE DEF d
  <1>3. Good(d)  BY <1>2, AlikeGood DEF XInv
  <1> QED  BY <1>1, <1>3, StaysKeeps

LEMMA StiKeeps == ASSUME XInv, Sti PROVE XInv'
  <1> DEFINE b == TRUE
             d == [cpu EXCEPT !.ifl = b]
  <1>1. cpu' = d /\ Stays  BY DEF Sti
  <1> HIDE DEF b
  <1>2. IsCpu(d) /\ Alike(cpu, d)  BY DEF XInv, Good, IsCpu, Alike
  <1> HIDE DEF d
  <1>3. Good(d)  BY <1>2, AlikeGood DEF XInv
  <1> QED  BY <1>1, <1>3, StaysKeeps

LEMMA AdvanceKeeps == ASSUME XInv, Advance PROVE XInv'
  <1> DEFINE i == R - 1
             d == [cpu EXCEPT !.ip = i]
  <1>1. (cpu' = Past(cpu) \/ cpu' = d) /\ Stays  BY DEF Advance
  <1>2. IsCpu(cpu) /\ Good(cpu)  BY DEF XInv, Good
  <1> HIDE DEF i
  <1>3. IsCpu(d) /\ Alike(cpu, d)  BY <1>2 DEF IsCpu, Alike
  <1> HIDE DEF d
  <1>4. Good(d) /\ Good(Past(cpu))  BY <1>2, <1>3, PastAlike, AlikeGood
  <1> QED  BY <1>1, <1>4, StaysKeeps

-----------------------------------------------------------------------------
(* Calls and returns. *)

\* Registers moved to another code segment agree if it fits the stack and the data.
LEMMA MovedGood ==
  ASSUME NEW c, NEW s, NEW r, Moved(c, s, r),
         c.vm \in BOOLEAN, ~(os.real /\ c.vm), c.vm => c.ss = Para,
         ~os.real /\ ~c.vm => /\ s.rpl \in Levels /\ MayEnter(s) /\ StackOf(c.ss, s.rpl)
                              /\ c.ds # Null => Dpl(c.ds) >= s.rpl
  PROVE  Good(r)
  BY DEF Good, Moved, Levels

\* Loading CS and the address moves.
LEMMA LoadCsMoved ==
  ASSUME NEW c, IsCpu(c), NEW s, NEW i
  PROVE  /\ Moved(c, s, LoadCs(c, s))
         /\ Moved(c, s, [LoadCs(c, s) EXCEPT !.ip = i])
  <1> DEFINE e == LoadCs(c, s)
             d == [e EXCEPT !.ip = i]
  <1>1. Moved(c, s, e)  BY LoadCsCpu DEF Moved
  <1> HIDE DEF e
  <1>2. IsCpu(d) /\ Alike(e, d)  BY <1>1 DEF Moved, IsCpu, Alike
  <1> HIDE DEF d
  <1>3. Moved(c, s, d)  BY <1>1, <1>2 DEF Moved, Alike
  <1> QED  BY <1>1, <1>3 DEF d, e

\* A call onto the stack of c, which goes with the new code segment.
LEMMA CallsKeep ==
  ASSUME GuestSystem, XInv, NEW c, IsCpu(c), c.vm = cpu.vm, c.ds = cpu.ds,
         NEW how, NEW wide, NEW n, NEW to, Calls(c, how, wide, n, to),
         cpu.vm => c.ss = Para,
         ~os.real /\ ~cpu.vm => /\ to.rpl \in Levels /\ MayEnter(to) /\ StackOf(c.ss, to.rpl)
                                /\ to.rpl <= cpu.cpl
  PROVE  XInv'
  <1> DEFINE q == Past(cpu)
             p == Pushed(c, how, wide, n, q, FALSE)
             d == [LoadCs(p.cpu, to) EXCEPT !.ip = 0]
  <1>1. IsCpu(cpu) /\ Good(cpu)  BY DEF XInv, Good
  <1>2. Good(q) /\ q.vm = cpu.vm  BY <1>1, PastAlike, AlikeGood DEF Alike
  <1>3. cpu' = d /\ frames' = p.frames /\ os' = os /\ absent' = absent  BY DEF Calls
  <1>4. q.vm => c.ss.seg = "para"  BY <1>2 DEF Para, Sel
  <1> HIDE DEF q
  <1>5. IsCpu(p.cpu) /\ Alike(c, p.cpu) /\ GoodFrames(p.frames)
    BY <1>2, <1>4, PushedGood DEF XInv
  <1> HIDE DEF p
  <1>6. Moved(p.cpu, to, d)  BY <1>5, LoadCsMoved
  <1> HIDE DEF d
  <1>7. ~os.real /\ ~cpu.vm /\ cpu.ds # Null => Dpl(cpu.ds) >= to.rpl
    BY <1>1, DplLevel DEF Good, Levels
  <1>8. Good(d)  BY <1>1, <1>5, <1>6, <1>7, MovedGood DEF Good, Alike
  <1> QED  BY <1>3, <1>5, <1>8, Lifted DEF XInv

LEMMA CallFarKeeps ==
  ASSUME GuestSystem, XInv, NEW s \in DOMAIN Gdt, CallFar(s)
  PROVE  XInv'
  <1> DEFINE d == Gdt[s]
  <1>1. IsCpu(cpu) /\ Good(cpu)  BY DEF XInv, Good
  <1>2. CASE ByParagraph
    <2> Calls(cpu, "far", FALSE, 2, Para)  BY <1>2 DEF CallFar
    <2> QED  BY <1>1, <1>2, CallsKeep DEF Good, ByParagraph
  <1>3. CASE Throws("np") \/ Throws("gp")  BY <1>3, ThrowsKeeps DEF FaultVectors
  <1>4. CASE /\ ~ByParagraph /\ ~(IF d.conforming THEN d.dpl > cpu.cpl ELSE d.dpl # cpu.cpl)
             /\ Calls(cpu, "far", cpu.cs.seg \in os.big, 2, Sel(s, cpu.cpl))
    <2> DEFINE to == Sel(s, cpu.cpl)
               w == cpu.cs.seg \in os.big
    <2>1. MayEnter(to) /\ to.rpl = cpu.cpl
      BY <1>1, <1>4 DEF MayEnter, Sel, Dpl, Good, GuestSystem, Segments, Levels
    <2>2. Calls(cpu, "far", w, 2, to)  BY <1>4
    <2> HIDE DEF to, w
    <2>3. cpu.cpl \in Levels /\ StackOf(cpu.ss, cpu.cpl) /\ ~cpu.vm
      BY <1>1, <1>4 DEF Good, ByParagraph
    <2> QED  BY <1>1, <2>1, <2>2, <2>3, CallsKeep DEF Levels
  <1> QED  BY <1>2, <1>3, <1>4 DEF CallFar

LEMMA CallGateKeeps ==
  ASSUME GuestSystem, XInv, NEW s \in DOMAIN Gdt, CallGate(s)
  PROVE  XInv'
  <1> DEFINE d == Gdt[s]
  <1>1. IsCpu(cpu) /\ Good(cpu)  BY DEF XInv, Good
  <1>2. /\ ~ByParagraph /\ ~os.real /\ ~cpu.vm /\ cpu.cpl \in Levels /\ StackOf(cpu.ss, cpu.cpl)
        /\ d.dpl \in Levels /\ d.conforming \in BOOLEAN
    BY <1>1 DEF CallGate, Good, ByParagraph, GuestSystem, Segments
  <1>3. CASE Throws("np") \/ Throws("gp")  BY <1>3, ThrowsKeeps DEF FaultVectors
  <1>4. CASE /\ ~(d.dpl > cpu.cpl) /\ ~d.conforming /\ d.dpl < cpu.cpl
             /\ Calls(InnerStack(cpu, d.dpl), "gate", os.wide, 4 + PARAMS, Sel(s, d.dpl))
    <2> DEFINE to == Sel(s, 0)
               c == InnerStack(cpu, 0)
               n == 4 + PARAMS
               w == os.wide
    <2>1. d.dpl = 0  BY <1>2, <1>4 DEF Levels
    <2>2. MayEnter(to) /\ to.rpl = 0  BY <1>4, <2>1 DEF MayEnter, Sel, Dpl
    <2>3. Calls(c, "gate", w, n, to)  BY <1>4, <2>1
    <2>4. IsCpu(c) /\ c.vm = cpu.vm /\ c.ds = cpu.ds /\ StackOf(c.ss, 0)
      BY <1>1, InnerCpu
    <2> HIDE DEF to, c, n, w
    <2> QED  BY <1>2, <2>2, <2>3, <2>4, CallsKeep DEF Levels
  <1>5. CASE /\ ~(d.dpl > cpu.cpl) /\ ~(~d.conforming /\ d.dpl < cpu.cpl)
             /\ Calls(cpu, "far", os.wide, 2, Sel(s, cpu.cpl))
    <2> DEFINE to == Sel(s, cpu.cpl)
               w == os.wide
    <2>1. MayEnter(to) /\ to.rpl = cpu.cpl
      BY <1>2, <1>5 DEF MayEnter, Sel, Dpl, Levels
    <2>2. Calls(cpu, "far", w, 2, to)  BY <1>5
    <2> HIDE DEF to, w
    <2> QED  BY <1>1, <1>2, <2>1, <2>2, CallsKeep DEF Levels
  <1> QED  BY <1>2, <1>3, <1>4, <1>5 DEF CallGate

\* A return ends with registers that agree.
LEMMA EndsKeeps ==
  ASSUME XInv, NEW c, Good(c), NEW f, Ends(c, f)
  PROVE  XInv'
  <1>1. GoodFrames(frames \ {f})  BY DEF XInv, GoodFrames
  <1> QED  BY <1>1, Lifted DEF Ends, XInv

\* A return within the level, or in real or virtual 8086 mode.
LEMMA SameKeeps ==
  ASSUME XInv, NEW c, IsCpu(c), Alike(cpu, c), NEW f, ToSame(c, f),
         ~ByParagraph => MayEnter(f.cs) /\ f.cs.rpl = cpu.cpl
  PROVE  XInv'
  <1> DEFINE v == cpu.esp + f.size
             w == WithSp(c, v)
             i == f.ip
             d == [w EXCEPT !.ip = i]
             s == f.cs
             r == LoadCs(d, s)
  <1>1. Ends(r, f)  BY DEF ToSame
  <1>2. IsCpu(w) /\ Alike(c, w)  BY WithSpAlike
  <1>3. ~ByParagraph => MayEnter(s) /\ s.rpl = cpu.cpl  OBVIOUS
  <1> HIDE DEF w, i, s
  <1>4. IsCpu(d) /\ Alike(w, d)  BY <1>2 DEF IsCpu, Alike
  <1> HIDE DEF d
  <1>5. Moved(d, s, r)  BY <1>4, LoadCsMoved
  <1> HIDE DEF r
  <1>6. Good(r)
    <2>1. Alike(cpu, d)  BY <1>2, <1>4 DEF Alike
    <2> QED  BY <1>3, <1>5, <2>1, MovedGood DEF Alike, XInv, Good, ByParagraph
  <1> QED  BY <1>1, <1>6, EndsKeeps

\* A return to an outer level takes the stack with it and leaves no inner data segment.
LEMMA OuterKeeps ==
  ASSUME GuestSystem, XInv, ~ByParagraph, NEW c, IsCpu(c), Alike(cpu, c), NEW f, ToOuter(c, f),
         MayEnter(f.cs), f.cs.rpl \in Levels, StackOf(f.ofss, f.cs.rpl)
  PROVE  XInv'
  <1> DEFINE s == f.cs
             k == f.ofss
             i == f.ip
             v == f.esp
             l == LoadCs(c, s)
             e == [l EXCEPT !.ip = i]
             d == [e EXCEPT !.ss = k]
             w == WithSp(d, v)
             n == [w EXCEPT !.ds = Null]
             r == Cleared(w)
  <1>1. Ends(r, f)
    <2> d = [l EXCEPT !.ip = i, !.ss = k]  OBVIOUS
    <2> QED  BY DEF ToOuter
  <1>2. Moved(c, s, l)  BY LoadCsMoved
  <1>3. MayEnter(s) /\ s.rpl \in Levels /\ StackOf(k, s.rpl)  OBVIOUS
  <1> HIDE DEF l, i, k, s, v
  <1>4. IsCpu(d) /\ d.cs = l.cs /\ d.ss = k /\ d.ds = l.ds /\ d.cpl = l.cpl /\ d.vm = l.vm
    <2>1. IsCpu(e) /\ Alike(l, e)  BY <1>2 DEF Moved, IsCpu, Alike
    <2> HIDE DEF e
    <2>2. /\ IsCpu(d) /\ d.ss = k
          /\ d.cs = e.cs /\ d.ds = e.ds /\ d.cpl = e.cpl /\ d.vm = e.vm
      BY <2>1 DEF IsCpu
    <2> QED  BY <2>1, <2>2 DEF Alike
  <1> HIDE DEF d, e
  <1>5. IsCpu(w) /\ Alike(d, w)  BY <1>4, WithSpAlike
  <1> HIDE DEF w
  <1>6. /\ IsCpu(n) /\ n.cs = w.cs /\ n.ss = w.ss /\ n.ds = Null /\ n.cpl = w.cpl
        /\ n.vm = w.vm
    BY <1>5 DEF IsCpu
  <1>7. r = IF Dpl(w.ds) < w.cpl THEN n ELSE w  BY DEF Cleared
  <1> HIDE DEF n, r
  <1>8. Dpl(w.ds) \in Levels  BY DplLevel
  <1>9. Good(r)
    <2>1. /\ IsCpu(r) /\ r.cs = s /\ r.ss = k /\ r.vm = cpu.vm
          /\ r.cpl = w.cpl /\ r.ds \in {w.ds, Null}
          /\ r.ds # Null => ~(Dpl(r.ds) < r.cpl)
      BY <1>2, <1>4, <1>5, <1>6, <1>7 DEF Moved, Alike
    <2>2. r.cpl = s.rpl /\ ~os.real /\ ~cpu.vm /\ cpu.vm \in BOOLEAN
      BY <1>2, <1>4, <1>5, <2>1 DEF Moved, Alike, ByParagraph, XInv, Good
    <2>3. r.ds # Null => Dpl(r.ds) >= r.cpl  BY <1>3, <1>8, <2>1, <2>2 DEF Levels
    <2> QED  BY <1>3, <2>1, <2>2, <2>3 DEF Good
  <1> QED  BY <1>1, <1>9, EndsKeeps

\* A return in protected mode from a frame that is good, or from none.
LEMMA PmRetKeeps ==
  ASSUME GuestSystem, XInv, ~ByParagraph, NEW c, IsCpu(c), Alike(cpu, c), NEW f, PmRet(c, f),
         f.cs = Null \/ (~f.vm /\ GoodFrame(f))
  PROVE  XInv'
  <1>1. CASE Throws("np") \/ Throws("gp")  BY <1>1, ThrowsKeeps DEF FaultVectors
  <1>2. CASE MayEnter(f.cs) /\ f.cs.rpl = cpu.cpl /\ ToSame(c, f)  BY <1>2, SameKeeps
  <1>3. CASE MayEnter(f.cs) /\ ToOuter(c, f)
    <2> f.cs.seg # "null"  BY <1>3 DEF MayEnter, GuestSystem, Segments
    <2> f.cs # Null  BY DEF Null, Sel
    <2> f.cs.rpl \in Levels /\ StackOf(f.ofss, f.cs.rpl)  BY DEF GoodFrame, ByParagraph
    <2> QED  BY <1>3, OuterKeeps
  <1> QED  BY <1>1, <1>2, <1>3 DEF PmRet

\* A return to virtual 8086 mode.
LEMMA VirtualKeeps ==
  ASSUME XInv, ~os.real, NEW f, f.ofss = Para, ToVirtual(cpu, f)
  PROVE  XInv'
  <1> DEFINE e == IretFlags(cpu, f)
             i == f.ip
             k == f.ofss
             g == f.ds
             v == f.esp
             s == f.cs
             m == [e EXCEPT !.vm = TRUE]
             a == [m EXCEPT !.ip = i]
             b == [a EXCEPT !.ss = k]
             d == [b EXCEPT !.ds = g]
             h == [d EXCEPT !.esp = v]
             r == LoadCs(h, s)
  <1>1. Ends(r, f)
    <2> h = [e EXCEPT !.vm = TRUE, !.ip = i, !.ss = k, !.ds = g, !.esp = v]
      OBVIOUS
    <2> QED  BY DEF ToVirtual
  <1>2. IsCpu(e)  BY IretAlike DEF XInv, Good
  <1> HIDE DEF e
  <1>3. k = Para  OBVIOUS
  <1> HIDE DEF i, k, g, v, s
  <1>4. IsCpu(m) /\ m.vm = TRUE  BY <1>2, NewMode
  <1> HIDE DEF m
  <1>5. IsCpu(a) /\ a.vm = m.vm  BY <1>4 DEF IsCpu
  <1> HIDE DEF a
  <1>6. IsCpu(b) /\ b.vm = a.vm /\ b.ss = k  BY <1>5 DEF IsCpu
  <1> HIDE DEF b
  <1>7. IsCpu(d) /\ d.vm = b.vm /\ d.ss = b.ss  BY <1>6 DEF IsCpu
  <1> HIDE DEF d
  <1>8. IsCpu(h) /\ h.vm = d.vm /\ h.ss = d.ss  BY <1>7 DEF IsCpu
  <1> HIDE DEF h
  <1>9. Moved(h, s, r)  BY <1>8, LoadCsMoved
  <1> HIDE DEF r
  <1>10. Good(r)  BY <1>3, <1>4, <1>5, <1>6, <1>7, <1>8, <1>9, MovedGood
  <1> QED  BY <1>1, <1>10, EndsKeeps

LEMMA IretKeeps == ASSUME GuestSystem, XInv, Iret PROVE XInv'
  <1> DEFINE f == Found(cpu, "int", Head(waits).wide)
             c == IretFlags(cpu, f)
  <1>1. IsCpu(cpu) /\ ~cpu.vm  BY DEF Iret, XInv, Good
  <1>2. \/ f \in frames /\ GoodFrame(f) /\ f.how = "int" /\ f.ss = cpu.ss.seg
        \/ f.cs = Null /\ f.vm = cpu.vm
    BY FoundGood DEF XInv
  <1>3. IF os.real THEN ToSame(c, f)
        ELSE IF f.vm THEN ToVirtual(cpu, f)
        ELSE PmRet(c, f)
    BY DEF Iret
  <1>4. IsCpu(c) /\ Alike(cpu, c)  BY <1>1, IretAlike
  <1> HIDE DEF f, c
  <1>5. CASE os.real  BY <1>3, <1>4, <1>5, SameKeeps DEF ByParagraph
  <1>6. CASE ~os.real /\ f.vm
    <2> f.ofss = Para  BY <1>1, <1>2, <1>6 DEF GoodFrame
    <2> QED  BY <1>3, <1>6, VirtualKeeps
  <1>7. CASE ~os.real /\ ~f.vm
    <2> ~ByParagraph  BY <1>1, <1>7 DEF ByParagraph
    <2> QED  BY <1>2, <1>3, <1>4, <1>7, PmRetKeeps
  <1> QED  BY <1>5, <1>6, <1>7

LEMMA RetFarKeeps == ASSUME GuestSystem, XInv, RetFar PROVE XInv'
  <1> DEFINE h == Head(waits).how
             f == Found(cpu, h, Head(waits).wide)
  <1>1. IsCpu(cpu) /\ Alike(cpu, cpu) /\ h \in {"far", "gate"}
    BY DEF RetFar, XInv, Good, Alike
  <1>2. \/ f \in frames /\ GoodFrame(f) /\ f.how = h /\ f.ss = cpu.ss.seg
        \/ f.cs = Null /\ f.vm = cpu.vm
    BY FoundGood DEF XInv
  <1>3. IF ByParagraph THEN ToSame(cpu, f) ELSE PmRet(cpu, f)  BY DEF RetFar
  <1> HIDE DEF f, h
  <1>4. CASE ByParagraph  BY <1>1, <1>3, <1>4, SameKeeps
  <1>5. CASE ~ByParagraph
    <2>1. cpu.ss.seg # "para"  BY <1>5 DEF ByParagraph, XInv, Good, StackOf, GuestSystem, Segments
    <2>2. f.cs = Null \/ (~f.vm /\ GoodFrame(f))  BY <1>1, <1>2, <2>1 DEF GoodFrame
    <2> QED  BY <1>1, <1>3, <1>5, <2>2, PmRetKeeps
  <1> QED  BY <1>4, <1>5

LEMMA DropKeeps == ASSUME XInv, DropCode PROVE XInv'
  <1> DEFINE v == cpu.esp + Units(os.wide)
             d == WithSp(cpu, v)
             fs == frames \ {Found(cpu, "code", os.wide)}
  <1>1. cpu' = d /\ frames' = fs /\ os' = os /\ absent' = absent  BY DEF DropCode
  <1>2. IsCpu(d) /\ Alike(cpu, d)  BY WithSpAlike DEF XInv, Good
  <1>3. GoodFrames(fs)  BY DEF XInv, GoodFrames
  <1> HIDE DEF d, fs
  <1>4. Good(d)  BY <1>2, AlikeGood DEF XInv
  <1> QED  BY <1>1, <1>3, <1>4, Lifted DEF XInv

LEMMA SwapKeeps == ASSUME XInv, NEW s \in Movable, Swap(s) PROVE XInv'
  <1> absent' \subseteq Movable /\ os' = os /\ cpu' = cpu /\ frames' = frames
    BY DEF Swap
  <1> QED  BY Lifted DEF XInv

-----------------------------------------------------------------------------

LEMMA InitHolds == ASSUME GuestSystem, TInit PROVE XInv
  <1>1. os.real \in BOOLEAN /\ os.vm \in BOOLEAN /\ ~(os.real /\ os.vm)
    BY DEF TInit, GuestSystem, Kinds
  <1>2. IsCpu(cpu)  BY DEF TInit, IsCpu
  <1>3. Good(cpu)
    <2>1. CASE os.real \/ os.vm  BY <1>1, <1>2, <2>1 DEF TInit, Good, Levels
    <2>2. CASE ~(os.real \/ os.vm)
      <3>1. /\ cpu.cs = Sel("app", 3) /\ cpu.ss = Sel("stack3", 3)
            /\ cpu.ds = Sel("data3", 3) /\ cpu.cpl = 3 /\ cpu.vm = FALSE
        BY <1>1, <2>2 DEF TInit
      <3>2. MayEnter(Sel("app", 3)) /\ StackOf(Sel("stack3", 3), 3) /\ Dpl(Sel("data3", 3)) = 3
        BY DEF GuestSystem, Segments, MayEnter, StackOf, Sel, Dpl
      <3>3. Sel("app", 3).rpl = 3  BY DEF Sel
      <3>4. /\ MayEnter(cpu.cs) /\ StackOf(cpu.ss, cpu.cpl) /\ Dpl(cpu.ds) = 3
            /\ cpu.cs.rpl = cpu.cpl /\ cpu.cpl = 3 /\ os.real = FALSE
        BY <1>1, <2>2, <3>1, <3>2, <3>3
      <3>5. Moved(cpu, cpu.cs, cpu)  BY <1>2, <3>1, <3>4 DEF Moved
      <3>6. 3 \in Levels /\ (cpu.ds # Null => Dpl(cpu.ds) >= 3)  BY <3>4 DEF Levels
      <3> QED  BY <1>1, <2>2, <3>1, <3>4, <3>5, <3>6, MovedGood
    <2> QED  BY <2>1, <2>2
  <1> QED  BY <1>3 DEF TInit, XInv, GoodFrames

LEMMA NextKeeps == ASSUME GuestSystem, XInv, [TNext]_tvars PROVE XInv'
  <1>1. CASE UNCHANGED tvars  BY <1>1, Lifted DEF tvars, XInv
  <1>2. CASE TNext
    BY <1>2, InterruptKeeps, ThrowsKeeps, StiKeeps, AdvanceKeeps, DropKeeps, IretKeeps,
       RetFarKeeps, ComputeKeeps, LoadKeeps, IntKeeps, CallFarKeeps, CallGateKeeps, SwapKeeps
       DEF TNext, PageFault, FaultVectors
  <1> QED  BY <1>1, <1>2

\* The privilege level is that of the code segment, the stack one of that level, and
\* no data segment of an inner level is left to an outer one, through every interrupt,
\* fault, call and return (call_isr, pmcall, pmret), whatever the guest loads.
THEOREM LevelsHold == TSpec => []LevelsAgree
  <1> GuestSystem  BY GuestAssumption
  <1>1. TInit => XInv  BY InitHolds
  <1>2. XInv /\ [TNext]_tvars => XInv'  BY NextKeeps
  <1>3. XInv => LevelsAgree  BY DEF XInv, Good, LevelsAgree, ByParagraph, StackOf
  <1> QED  BY <1>1, <1>2, <1>3, PTL DEF TSpec

-----------------------------------------------------------------------------
(* Arithmetic of the stack pointer. *)

LEMMA TimesLe ==
  ASSUME NEW a \in Int, NEW b \in Int, NEW d \in Nat, a <= b
  PROVE  a * d <= b * d /\ a * d \in Int /\ b * d \in Int
  BY Z3

LEMMA TimesSum ==
  ASSUME NEW a \in Int, NEW b \in Int, NEW d \in Int
  PROVE  /\ a * d \in Int /\ b * d \in Int
         /\ (a + b) * d = a * d + b * d /\ (a - b) * d = a * d - b * d
  BY Z3

LEMMA Remainder ==
  ASSUME NEW x \in Int, NEW m \in Nat \ {0}
  PROVE  x % m \in 0 .. m - 1 /\ \E q \in Int : x = q * m + (x % m)
<1>1. x % m \in 0 .. m - 1
  BY SMT
<1>2. x \div m \in Int /\ x = (x \div m) * m + (x % m)
  BY Z3
<1> QED BY <1>1, <1>2

\* what leaves r leaves r
LEMMA RemainderIs ==
  ASSUME NEW m \in Nat \ {0}, NEW q \in Int, NEW r \in 0 .. m - 1
  PROVE  (q * m + r) % m = r
<1> DEFINE x == q * m + r
<1>1. x \in Int /\ q * m \in Int
  BY TimesSum
<1>2. x = q * m + r
  OBVIOUS
<1> HIDE DEF x
<1>3. PICK p \in Int : x = p * m + (x % m)
  BY <1>1, Remainder
<1>4. x % m \in 0 .. m - 1
  BY <1>1, Remainder
<1>5. (q - p) * m = (x % m) - r
  BY <1>1, <1>2, <1>3, <1>4, TimesSum
<1>6. q - p = 0
  <2>1. CASE q - p >= 1
    <3> 1 * m = m /\ 1 * m <= (q - p) * m
      BY <2>1, TimesLe
    <3> QED BY <1>4, <1>5
  <2>2. CASE q - p <= -1
    <3> (-1) * m = -m /\ (q - p) * m <= (-1) * m
      BY <2>2, TimesLe
    <3> QED BY <1>4, <1>5
  <2> QED BY <2>1, <2>2
<1>7. 0 * m = 0
  BY Z3
<1>8. x % m = r
  BY <1>4, <1>5, <1>6, <1>7
<1> QED BY <1>8 DEF x

\* it is indifferent whether a part is cut before
LEMMA CutFirst ==
  ASSUME NEW x \in Int, NEW k \in Int, NEW m \in Nat \ {0}
  PROVE  /\ ((x % m) + k) % m = (x + k) % m
         /\ (k - (x % m)) % m = (k - x) % m
         /\ (x % m) % m = x % m
<1>1. PICK q \in Int : x = q * m + (x % m)
  BY Remainder
<1>2. x % m \in 0 .. m - 1
  BY Remainder
<1>3. ((x % m) + k) % m = (x + k) % m
  <2> DEFINE y == (x % m) + k
  <2>0. y \in Int
    BY <1>2
  <2> HIDE DEF y
  <2>1. PICK p \in Int : y = p * m + (y % m)
    BY <2>0, Remainder
  <2>2. y % m \in 0 .. m - 1
    BY <2>0, Remainder
  <2>3. x + k = (p + q) * m + (y % m)
    <3> (p + q) * m = p * m + q * m /\ p * m \in Int /\ q * m \in Int
      BY TimesSum
    <3> x + k = q * m + y
      BY <1>1, <1>2, TimesSum DEF y
    <3> QED BY <2>1, <2>2
  <2>4. ((p + q) * m + (y % m)) % m = y % m
    BY <2>2, RemainderIs
  <2> QED BY <2>3, <2>4 DEF y
<1>4. (k - (x % m)) % m = (k - x) % m
  <2> DEFINE y == k - (x % m)
  <2>0. y \in Int
    BY <1>2
  <2> HIDE DEF y
  <2>1. PICK p \in Int : y = p * m + (y % m)
    BY <2>0, Remainder
  <2>2. y % m \in 0 .. m - 1
    BY <2>0, Remainder
  <2>3. k - x = (p - q) * m + (y % m)
    <3> (p - q) * m = p * m - q * m /\ p * m \in Int /\ q * m \in Int
      BY TimesSum
    <3> k - x = y - q * m
      <4> DEFINE z == x % m
                 w == q * m
      <4> z \in Int /\ w \in Int /\ x = w + z
        BY <1>1, <1>2, TimesSum
      <4> y = k - z
        BY DEF y
      <4> HIDE DEF z, w
      <4> k - x = y - w
        OBVIOUS
      <4> QED BY DEF w
    <3> QED BY <2>1, <2>2
  <2>4. ((p - q) * m + (y % m)) % m = y % m
    BY <2>2, RemainderIs
  <2> QED BY <2>3, <2>4 DEF y
<1>5. (x % m) % m = x % m
  BY <1>2, SMT
<1> QED BY <1>3, <1>4, <1>5

\* and whole turns do not count
LEMMA Turns ==
  ASSUME NEW x \in Int, NEW k \in Int, NEW m \in Nat \ {0}
  PROVE  (x + k * m) % m = x % m
<1>1. PICK q \in Int : x = q * m + (x % m)
  BY Remainder
<1>2. x % m \in 0 .. m - 1
  BY Remainder
<1>3. x + k * m = (q + k) * m + (x % m)
  <2> (q + k) * m = q * m + k * m /\ q * m \in Int /\ k * m \in Int
    BY TimesSum
  <2> QED BY <1>1, <1>2
<1>4. ((q + k) * m + (x % m)) % m = x % m
  BY <1>2, RemainderIs
<1> QED BY <1>3, <1>4

LEMMA CutTwice ==
  ASSUME NEW x \in Int, NEW m \in Nat \ {0}
  PROVE  (x % (m * m)) % m = x % m
<1>1. m * m \in Nat \ {0}
  BY Z3
<1>2. PICK q \in Int : x = q * (m * m) + (x % (m * m))
  BY <1>1, Remainder
<1>3. x % (m * m) \in Int
  BY <1>1, Remainder
<1>4. q * (m * m) = (q * m) * m /\ q * m \in Int
  BY Z3
<1>5. ((x % (m * m)) + (q * m) * m) % m = (x % (m * m)) % m
  BY <1>3, <1>4, Turns
<1>6. (q * m) * m \in Int
  BY <1>4, TimesSum
<1> QED BY <1>2, <1>3, <1>4, <1>5, <1>6

LEMMA PlaceOfDepth ==
  ASSUME NEW b \in Int, NEW m \in Nat \ {0}, NEW d \in 0 .. m - 1
  PROVE  (b - ((b - d) % m)) % m = d
<1>1. b - d \in Int /\ b - (b - d) = d /\ d % m = d /\ d \in Int
  BY SMT
<1>2. (b - ((b - d) % m)) % m = (b - (b - d)) % m
  BY <1>1, CutFirst
<1> QED BY <1>1, <1>2

\* what lies above a range or below it does not begin in it
LEMMA Outside ==
  ASSUME NEW b \in Int, NEW m \in Nat \ {0}, NEW d \in 0 .. m - 1, NEW e \in 0 .. m - 1,
         NEW n \in Nat \ {0}, n <= d, e <= d - n \/ d < e
  PROVE  ~((((b - e) % m) - ((b - d) % m)) % m < n)
<1> DEFINE k == (b - e) % m
<1>1. k \in Int /\ b - d \in Int /\ b - e \in Int /\ d - b \in Int
  BY Remainder
<1>2. (k - ((b - d) % m)) % m = (k - (b - d)) % m
  BY <1>1, CutFirst
<1>3. (((b - e) % m) + (d - b)) % m = ((b - e) + (d - b)) % m
  BY <1>1, CutFirst
<1>4. k - (b - d) = k + (d - b) /\ (b - e) + (d - b) = d - e
  BY <1>1
<1>5. (k - ((b - d) % m)) % m = (d - e) % m
  BY <1>2, <1>3, <1>4
<1>6. CASE e <= d - n
  <2> (d - e) % m = d - e
    BY <1>6, SMT
  <2> QED BY <1>5, <1>6
<1>7. CASE d < e
  <2>1. (d - e) % m = d - e + m
    BY <1>7, SMT
  <2> QED BY <1>5, <1>7, <2>1
<1> QED BY <1>6, <1>7

-----------------------------------------------------------------------------
(* The stacks of a guest, which grow down from where they begin. *)

Base(s) == IF s.seg = "stack0" THEN os.top ELSE os.start
Spot(s, d) == (Base(s) - d) % Modulus(s)
Deep(c) == (Base(c.ss) - c.sp) % Modulus(c.ss)

\* f is in stack s, from depth d up
Lies(f, s, d) ==
    /\ d \in 0 .. Modulus(s) - 1 /\ f.size \in Nat \ {0} /\ f.size <= d
    /\ f.ss = s.seg /\ f.mod = Modulus(s) /\ f.at = Spot(s, d)

Apart(fs) == \A f, g \in fs : f.ss = g.ss /\ f.at = g.at => f = g

Fit == Numbers /\ Plain(os)

LEMMA Stacks ==
  ASSUME Fit, NEW s
  PROVE  Base(s) \in Int /\ Modulus(s) \in Nat \ {0}
<1> R * R \in Nat \ {0}
  BY Z3 DEF Fit, Numbers
<1> QED BY DEF Fit, Numbers, Plain, Base, Modulus

LEMMA DeepSpot ==
  ASSUME Fit, NEW c, c.sp \in 0 .. Modulus(c.ss) - 1
  PROVE  Deep(c) \in 0 .. Modulus(c.ss) - 1 /\ c.sp = Spot(c.ss, Deep(c))
<1> DEFINE b == Base(c.ss)
           m == Modulus(c.ss)
<1>1. b \in Int /\ m \in Nat \ {0} /\ c.sp \in 0 .. m - 1
  BY Stacks
<1>2. Deep(c) = (b - c.sp) % m /\ Spot(c.ss, Deep(c)) = (b - Deep(c)) % m
  BY DEF Deep, Spot
<1> HIDE DEF b, m
<1>3. (b - c.sp) % m \in 0 .. m - 1
  <2> b - c.sp \in Int
    BY <1>1
  <2> QED BY <1>1, Remainder
<1>4. (b - ((b - c.sp) % m)) % m = c.sp
  BY <1>1, PlaceOfDepth
<1> QED BY <1>2, <1>3, <1>4 DEF m

LEMMA SpotDeep ==
  ASSUME Fit, NEW c, NEW d \in 0 .. Modulus(c.ss) - 1, c.sp = Spot(c.ss, d)
  PROVE  c.sp \in 0 .. Modulus(c.ss) - 1 /\ Deep(c) = d
<1> DEFINE b == Base(c.ss)
           m == Modulus(c.ss)
<1>1. b \in Int /\ m \in Nat \ {0} /\ d \in 0 .. m - 1
  BY Stacks
<1>2. Deep(c) = (b - c.sp) % m /\ c.sp = (b - d) % m
  BY DEF Deep, Spot
<1> HIDE DEF b, m
<1>3. (b - d) % m \in 0 .. m - 1
  BY <1>1, Remainder
<1>4. (b - ((b - d) % m)) % m = d
  BY <1>1, PlaceOfDepth
<1> QED BY <1>2, <1>3, <1>4 DEF m

\* n words further down, and up
LEMMA SpotMoves ==
  ASSUME Fit, NEW s, NEW x \in Int, NEW d \in Int, x % Modulus(s) = Spot(s, d), NEW n \in Int
  PROVE  (x - n) % Modulus(s) = Spot(s, d + n)
<1> DEFINE b == Base(s)
           m == Modulus(s)
<1>1. b \in Int /\ m \in Nat \ {0}
  BY Stacks
<1>2. x % m = (b - d) % m /\ Spot(s, d + n) = (b - (d + n)) % m
  BY DEF Spot
<1> HIDE DEF b, m
<1>0. -n \in Int /\ b - d \in Int
  BY <1>1
<1>3. ((x % m) + (-n)) % m = (x + (-n)) % m
  BY <1>0, <1>1, CutFirst
<1>4. (((b - d) % m) + (-n)) % m = ((b - d) + (-n)) % m
  BY <1>0, <1>1, CutFirst
<1>5. (b - d) + (-n) = b - (d + n) /\ x + (-n) = x - n
  BY <1>1
<1> QED BY <1>2, <1>3, <1>4, <1>5 DEF m

\* frames at different depths, or of different stacks, are apart
LEMMA Clear ==
  ASSUME Fit, NEW f, NEW s, NEW d, Lies(f, s, d), NEW g, NEW t, NEW e, Lies(g, t, e),
         s.seg = t.seg => e <= d - f.size
  PROVE  ~Overlap(f, g) /\ ~Overlap(g, f) /\ f # g
<1>1. CASE s.seg # t.seg
  BY <1>1 DEF Lies, Overlap
<1>2. CASE s.seg = t.seg
  <2> DEFINE b == Base(s)
             m == Modulus(s)
  <2>1. b \in Int /\ m \in Nat \ {0} /\ b = Base(t) /\ m = Modulus(t)
    BY <1>2, Stacks DEF Base, Modulus
  <2>2. /\ d \in 0 .. m - 1 /\ e \in 0 .. m - 1 /\ f.size \in Nat \ {0} /\ g.size \in Nat \ {0}
        /\ f.size <= d /\ g.size <= e /\ f.mod = m /\ g.mod = m
        /\ f.at = (b - d) % m /\ g.at = (b - e) % m
    BY <2>1 DEF Lies, Spot
  <2>3. e <= d - f.size /\ e < d
    BY <1>2, <2>1, <2>2
  <2> HIDE DEF b, m
  <2>4. ~((((b - e) % m) - ((b - d) % m)) % m < f.size)
    BY <2>1, <2>2, <2>3, Outside
  <2>5. ~((((b - d) % m) - ((b - e) % m)) % m < g.size)
    BY <2>1, <2>2, <2>3, Outside
  <2>6. ~Within(f, g) /\ ~Within(g, f)
    BY <2>2, <2>4, <2>5 DEF Within
  <2>7. (b - ((b - d) % m)) % m = d /\ (b - ((b - e) % m)) % m = e
    BY <2>1, <2>2, PlaceOfDepth
  <2>8. f.at # g.at
    BY <2>2, <2>3, <2>7
  <2> QED BY <2>6, <2>8 DEF Overlap
<1> QED BY <1>1, <1>2

\* a frame put in place overwrites those it overlaps, and no other
LEMMA PutApart ==
  ASSUME Fit, NEW f, NEW s, NEW d, Lies(f, s, d), NEW fs, Apart(fs)
  PROVE  /\ f \in Put(fs, f) /\ Apart(Put(fs, f))
         /\ \A g \in fs : ~Overlap(f, g) => g \in Put(fs, f)
<1> DEFINE m == Modulus(s)
<1>1. m \in Nat \ {0} /\ Base(s) - d \in Int
  BY Stacks DEF Lies
<1>2. f.size \in Nat \ {0} /\ f.mod = m /\ f.at \in Int
  BY <1>1, Remainder DEF Lies, Spot
<1> HIDE DEF m
<1>3. ASSUME NEW g, g.ss = f.ss, g.at = f.at PROVE Overlap(f, g)
  <2> g.at - f.at = 0 /\ 0 % m = 0
    BY <1>1, <1>2, <1>3, SMT
  <2> QED BY <1>2, <1>3 DEF Overlap, Within
<1> QED BY <1>3 DEF Put, Apart

-----------------------------------------------------------------------------
(* The programs that wait. *)

\* the words an error code takes
Code(w) == IF w.code THEN Units(os.wide) ELSE 0

IsContext(c) == c = [cs |-> c.cs, ip |-> c.ip, ss |-> c.ss, sp |-> c.sp, ds |-> c.ds,
                     ifl |-> c.ifl, vm |-> c.vm, iopl |-> c.iopl, arith |-> c.arith]

\* c is what a program of the guest can tell
IsProgram(c) ==
    /\ IsContext(c)
    /\ c.iopl = os.iopl /\ c.sp \in 0 .. Modulus(c.ss) - 1 /\ c.ifl \in BOOLEAN
    /\ c.vm \in BOOLEAN /\ (c.vm => os.vm)
    /\ c.vm \/ os.real => c.ss = Para /\ c.cs = Para
    /\ ~c.vm /\ ~os.real => /\ c.ss \in {Sel("stack0", 0), Sel("stack3", 3)}
                            /\ c.cs.rpl = c.ss.rpl
                            /\ c.ds # Null => Dpl(c.ds) >= c.cs.rpl
                            /\ c.ss.rpl = 3 => c.ifl

\* f tells what w remembers
Tells(f, w) ==
    LET c == w.ctx
    IN /\ f.ip \in Int /\ f.esp \in Int
       /\ f.cs = c.cs /\ f.ip % Modulus(c.cs) = c.ip
       /\ w.how # "far" => f.ofss = c.ss /\ f.esp % Modulus(c.ss) = c.sp
       /\ f.ds = c.ds /\ f.ifl = c.ifl /\ f.vm = c.vm /\ f.iopl = c.iopl /\ f.arith = c.arith

\* f is what w has left on the stack of c, which runs since
Ours(f, c, w) ==
    /\ f.how = w.how /\ f.wide = w.wide
    /\ Lies(f, c.ss, Deep(c) - Code(w))
    /\ Tells(f, w)
    /\ w.ctx.ss = c.ss => Deep(w.ctx) + f.size + Code(w) = Deep(c)

\* c is of the kind that w waits for
Serves(c, w) ==
    /\ w = [ctx |-> w.ctx, how |-> w.how, wide |-> w.wide, code |-> w.code]
    /\ w.how \in {"int", "far", "gate"} /\ w.code \in BOOLEAN
    /\ w.how = "int" => ~c.vm /\ (~os.real /\ w.ctx.vm => c.ss.seg = "stack0")
    /\ w.how = "far" => c.vm = w.ctx.vm /\ c.ss = w.ctx.ss
    /\ w.how = "gate" => ~c.vm /\ ~w.ctx.vm /\ c.ss.seg = "stack0" /\ w.ctx.ss.seg = "stack3"
    /\ w.how # "int" => (w.ctx.ifl => c.ifl)

\* d is further out than c, which w waits for
Outer(c, w, d) == /\ d.ss.seg = "stack0" => c.ss.seg = "stack0"
                  /\ d.ss = c.ss => Deep(d) + Code(w) < Deep(c)

At(c, ws, i) == IF i = 1 THEN c ELSE ws[i - 1].ctx

Bounded(c, n) == Deep(c) <= MostPushed(os, c.ss.seg) * n

Nested(c, ws, fs) ==
    /\ \E S : ws \in Seq(S)
    /\ Len(ws) <= DEPTH
    /\ \A i \in 1 .. Len(ws) + 1 : /\ IsProgram(At(c, ws, i))
                                   /\ Bounded(At(c, ws, i), Len(ws) + 1 - i)
    /\ \A i \in 1 .. Len(ws) : /\ Serves(At(c, ws, i), ws[i])
                               /\ \E f \in fs : Ours(f, At(c, ws, i), ws[i])
    /\ \A i \in 1 .. Len(ws) : \A j \in i + 1 .. Len(ws) + 1 :
          Outer(At(c, ws, i), ws[i], At(c, ws, j))
    /\ Apart(fs)

\* c and d differ in what no waiting program depends on
Akin(c, d) == c.ss = d.ss /\ c.sp = d.sp /\ c.vm = d.vm

LEMMA AkinSame ==
  ASSUME NEW c, NEW d, Akin(c, d)
  PROVE  /\ Deep(c) = Deep(d) /\ \A n : Bounded(c, n) <=> Bounded(d, n)
         /\ \A f, w : Ours(f, c, w) <=> Ours(f, d, w)
         /\ \A w, e : Outer(c, w, e) <=> Outer(d, w, e)
<1>1. Deep(c) = Deep(d) /\ c.ss = d.ss
  BY DEF Akin, Deep
<1>2. \A n : Bounded(c, n) <=> Bounded(d, n)
  BY <1>1 DEF Bounded
<1>3. \A f, w : Ours(f, c, w) <=> Ours(f, d, w)
  BY <1>1 DEF Ours
<1>4. \A w, e : Outer(c, w, e) <=> Outer(d, w, e)
  BY <1>1 DEF Outer
<1> QED BY <1>1, <1>2, <1>3, <1>4

\* The program that runs changes other registers.
LEMMA TopNested ==
  ASSUME NEW c, NEW ws, NEW fs, Nested(c, ws, fs), NEW d, Akin(c, d), IsProgram(d),
         c.ifl => d.ifl
  PROVE  Nested(d, ws, fs)
<1>1. At(c, ws, 1) = c /\ At(d, ws, 1) = d /\ \A i : i # 1 => At(d, ws, i) = At(c, ws, i)
  BY DEF At
<1>2. \E S : ws \in Seq(S)
  BY DEF Nested
<1>3. Len(ws) \in Nat
  BY <1>2
<1>4. ASSUME NEW i \in 1 .. Len(ws) + 1
      PROVE  IsProgram(At(d, ws, i)) /\ Bounded(At(d, ws, i), Len(ws) + 1 - i)
  <2> IsProgram(At(c, ws, i)) /\ Bounded(At(c, ws, i), Len(ws) + 1 - i)
    BY DEF Nested
  <2> QED BY <1>1, AkinSame
<1>5. ASSUME NEW i \in 1 .. Len(ws)
      PROVE  Serves(At(d, ws, i), ws[i]) /\ \E f \in fs : Ours(f, At(d, ws, i), ws[i])
  <2>1. Serves(At(c, ws, i), ws[i]) /\ \E f \in fs : Ours(f, At(c, ws, i), ws[i])
    BY DEF Nested
  <2>2. Serves(c, ws[i]) => Serves(d, ws[i])
    BY DEF Serves, Akin
  <2> QED BY <1>1, <2>1, <2>2, AkinSame
<1>6. ASSUME NEW i \in 1 .. Len(ws), NEW j \in i + 1 .. Len(ws) + 1
      PROVE  Outer(At(d, ws, i), ws[i], At(d, ws, j))
  <2>1. Outer(At(c, ws, i), ws[i], At(c, ws, j))
    BY DEF Nested
  <2>2. j # 1
    BY <1>3
  <2> QED BY <1>1, <2>1, <2>2, AkinSame
<1>7. Len(ws) <= DEPTH /\ Apart(fs)
  BY DEF Nested
<1> QED BY <1>2, <1>4, <1>5, <1>6, <1>7 DEF Nested

LEMMA PushSeq ==
  ASSUME NEW ws, \E S : ws \in Seq(S), NEW w
  PROVE  LET us == <<w>> \o ws IN
         /\ \E S : us \in Seq(S)
         /\ Len(ws) \in Nat /\ Len(us) = Len(ws) + 1
         /\ us[1] = w /\ \A i \in 1 .. Len(ws) : us[i + 1] = ws[i]
<1>1. PICK S : ws \in Seq(S)
  OBVIOUS
<1> DEFINE T == S \cup {w}
           us == <<w>> \o ws
<1>2. ws \in Seq(T)
  BY <1>1
<1>3. <<w>> \in Seq(T) /\ Len(<<w>>) = 1 /\ <<w>>[1] = w
  OBVIOUS
<1> HIDE DEF T
<1>4. us \in Seq(T) /\ Len(us) = Len(ws) + 1
  BY <1>2, <1>3, ConcatProperties
<1>5. \A i \in 1 .. Len(us) : us[i] = IF i <= 1 THEN <<w>>[i] ELSE ws[i - 1]
  BY <1>2, <1>3, ConcatProperties
<1>6. Len(ws) \in Nat
  BY <1>2
<1> HIDE DEF us
<1>7. us[1] = w /\ \A i \in 1 .. Len(ws) : us[i + 1] = ws[i]
  BY <1>3, <1>4, <1>5, <1>6
<1> QED BY <1>4, <1>6, <1>7 DEF us

LEMMA PopSeq ==
  ASSUME NEW ws, \E S : ws \in Seq(S), ws # <<>>
  PROVE  LET us == Tail(ws) IN
         /\ \E S : us \in Seq(S)
         /\ Len(ws) \in Nat \ {0} /\ Len(us) = Len(ws) - 1 /\ Head(ws) = ws[1]
         /\ \A i \in 1 .. Len(us) : us[i] = ws[i + 1]
<1>1. PICK S : ws \in Seq(S)
  OBVIOUS
<1> QED BY <1>1, HeadTailProperties, LenProperties

\* of the frames fs those stay in gs that lie elsewhere than below d in stack s
Spares(fs, gs, s, d) ==
    \A g \in fs : \A t, e : Lies(g, t, e) /\ (t.seg = s.seg => e <= d) => g \in gs

\* the stacks of a guest are told apart by their segments
LEMMA OneStack ==
  ASSUME NEW c, NEW d, IsProgram(c), IsProgram(d), c.ss.seg = d.ss.seg
  PROVE  c.ss = d.ss
  BY DEF IsProgram, Para, Sel

LEMMA DeepNat ==
  ASSUME Fit, NEW c, IsProgram(c)
  PROVE  Deep(c) \in Nat /\ Deep(c) < Modulus(c.ss) /\ Modulus(c.ss) \in Nat \ {0}
<1>1. c.sp \in 0 .. Modulus(c.ss) - 1
  BY DEF IsProgram
<1>2. Deep(c) \in 0 .. Modulus(c.ss) - 1
  BY <1>1, DeepSpot
<1>3. Modulus(c.ss) \in Nat \ {0}
  BY Stacks
<1> QED BY <1>2, <1>3

LEMMA CodeNat ==
  ASSUME NEW w
  PROVE  Code(w) \in Nat
  BY DEF Code, Units

LEMMA MostNat ==
  ASSUME Fit, NEW seg
  PROVE  PushWords(os, seg) \in Nat \ {0} /\ MostPushed(os, seg) \in Nat
<1>1. PARAMS \in Nat
  BY DEF Fit, Numbers
<1>2. PushWords(os, seg) \in Nat \ {0}
  BY <1>1 DEF PushWords
<1>3. MostPushed(os, seg) = PushWords(os, seg) \/ MostPushed(os, seg) = PushWords(os, seg) * 2
  <2> Units(os.wide) \in {1, 2}
    BY DEF Units
  <2> QED BY <1>2 DEF MostPushed
<1> QED BY <1>2, <1>3

\* A transfer puts the program c aside, as w, and leaves f on the stack of the new one.
LEMMA PushNested ==
  ASSUME Fit, NEW c, NEW ws, NEW fs, Nested(c, ws, fs), Len(ws) < DEPTH,
         NEW w, w.ctx = c, NEW d, IsProgram(d), Serves(d, w),
         NEW gs, Apart(gs), NEW f \in gs, Ours(f, d, w),
         NEW D \in Nat, Spares(fs, gs, d.ss, D),
         \/ d.ss = c.ss /\ D = Deep(c)
         \/ d.ss.seg = "stack0" /\ c.ss.seg # "stack0" /\ D = 0,
         Deep(d) = D + f.size + Code(w), f.size + Code(w) <= MostPushed(os, d.ss.seg)
  PROVE  Nested(d, <<w>> \o ws, gs)
<1> DEFINE us == <<w>> \o ws
           n == Len(ws)
<1>1. /\ \E S : us \in Seq(S)
      /\ n \in Nat /\ Len(us) = n + 1
      /\ us[1] = w /\ \A i \in 1 .. n : us[i + 1] = ws[i]
  <2> \E S : ws \in Seq(S)
    BY DEF Nested
  <2> QED BY PushSeq
<1> HIDE DEF us
<1>2. At(d, us, 1) = d /\ \A i \in 1 .. n + 1 : At(d, us, i + 1) = At(c, ws, i)
  <2> At(d, us, 1) = d
    BY DEF At
  <2> At(d, us, 2) = c /\ At(c, ws, 1) = c
    BY <1>1 DEF At
  <2> ASSUME NEW i \in 2 .. n + 1 PROVE At(d, us, i + 1) = At(c, ws, i)
    <3> us[(i - 1) + 1] = ws[i - 1] /\ (i + 1) - 1 = i /\ (i - 1) + 1 = i
      BY <1>1
    <3> i + 1 # 1 /\ i # 1
      BY <1>1
    <3> QED BY DEF At
  <2> QED BY <1>1
<1>3. /\ \A i \in 1 .. n + 1 : IsProgram(At(c, ws, i)) /\ Bounded(At(c, ws, i), n + 1 - i)
      /\ \A i \in 1 .. n : Serves(At(c, ws, i), ws[i]) /\ \E g \in fs : Ours(g, At(c, ws, i), ws[i])
      /\ \A i \in 1 .. n : \A j \in i + 1 .. n + 1 : Outer(At(c, ws, i), ws[i], At(c, ws, j))
  BY DEF Nested
<1>4. At(c, ws, 1) = c /\ IsProgram(c) /\ Bounded(c, n)
  <2> At(c, ws, 1) = c /\ 1 \in 1 .. n + 1 /\ (n + 1) - 1 = n
    BY <1>1 DEF At
  <2> QED BY <1>3
<1>5. /\ Deep(c) \in Nat /\ Deep(d) \in Nat /\ Code(w) \in Nat /\ f.size \in Nat \ {0}
      /\ MostPushed(os, d.ss.seg) \in Nat
  BY <1>4, DeepNat, CodeNat, MostNat DEF Ours, Lies
\* nothing that waits is below D
<1>6. ASSUME NEW j \in 1 .. n + 1
      PROVE  LET e == At(c, ws, j) IN
             /\ Outer(d, w, e)
             /\ e.ss.seg = d.ss.seg => Deep(e) <= D
  <2> DEFINE e == At(c, ws, j)
  <2>1. IsProgram(e)
    BY <1>3
  <2>2. Deep(e) \in Nat
    BY <2>1, DeepNat
  <2>3. e = c \/ (Outer(c, ws[1], e) /\ n >= 1)
    <3>1. CASE j = 1  BY <3>1, <1>4
    <3>2. CASE j # 1
      <4> 1 \in 1 .. n /\ j \in 1 + 1 .. n + 1 /\ n >= 1
        BY <1>1, <3>2
      <4> QED BY <1>3, <1>4
    <3> QED BY <3>1, <3>2
  <2> HIDE DEF e
  <2>4. Code(ws[1]) \in Nat
    BY CodeNat
  <2>5. e.ss.seg = d.ss.seg => Deep(e) <= D
    <3> SUFFICES ASSUME e.ss.seg = d.ss.seg PROVE Deep(e) <= D
      OBVIOUS
    <3>1. e.ss = d.ss
      BY <2>1, OneStack
    <3>2. d.ss = c.ss /\ D = Deep(c)
      BY <2>3 DEF Outer
    <3>3. e = c \/ Deep(e) + Code(ws[1]) < Deep(c)
      BY <2>3, <3>1, <3>2 DEF Outer
    <3> QED BY <1>5, <2>2, <2>4, <3>2, <3>3
  <2>6. e.ss.seg = "stack0" => d.ss.seg = "stack0"
    BY <2>3 DEF Outer
  <2>7. e.ss = d.ss => Deep(e) + Code(w) < Deep(d)
    <3> SUFFICES ASSUME e.ss = d.ss PROVE Deep(e) + Code(w) < Deep(d)
      OBVIOUS
    <3> Deep(e) <= D
      BY <2>5
    <3> QED BY <1>5, <2>2
  <2>8. Outer(d, w, e)
    BY <2>6, <2>7 DEF Outer
  <2> QED BY <2>5, <2>8 DEF e
<1>7. ASSUME NEW i \in 1 .. (n + 1) + 1
      PROVE  IsProgram(At(d, us, i)) /\ Bounded(At(d, us, i), (n + 1) + 1 - i)
  <2>1. CASE i = 1
    <3> DEFINE k == MostPushed(os, d.ss.seg)
    <3>1. Deep(d) <= k * (n + 1)
      <4>0. k \in Nat /\ D \in Nat
        BY <1>5
      <4>1. D <= k * n /\ k * n \in Int
        <5>1. k * n \in Nat
          BY <1>1, <4>0, Z3
        <5>2. CASE d.ss = c.ss /\ D = Deep(c)
          BY <1>4, <5>1, <5>2 DEF Bounded
        <5>3. CASE D = 0
          BY <5>1, <5>3
        <5> QED BY <5>1, <5>2, <5>3
      <4>2. Deep(d) <= D + k
        BY <1>5
      <4>3. k * (n + 1) = k * n + k
        BY <1>1, <4>0, Z3
      <4> HIDE DEF k
      <4> QED BY <1>5, <4>0, <4>1, <4>2, <4>3
    <3>2. (n + 1) + 1 - 1 = n + 1
      BY <1>1
    <3> QED BY <1>2, <2>1, <3>1, <3>2 DEF Bounded
  <2>2. CASE i # 1
    <3> PICK j \in 1 .. n + 1 : i = j + 1
      <4> i - 1 \in 1 .. n + 1 /\ i = (i - 1) + 1
        BY <1>1, <2>2
      <4> QED OBVIOUS
    <3> (n + 1) + 1 - i = n + 1 - j
      BY <1>1
    <3> QED BY <1>2, <1>3
  <2> QED BY <2>1, <2>2
<1>8. ASSUME NEW i \in 1 .. n + 1
      PROVE  Serves(At(d, us, i), us[i]) /\ \E g \in gs : Ours(g, At(d, us, i), us[i])
  <2>1. CASE i = 1
    BY <1>1, <1>2, <2>1
  <2>2. CASE i # 1
    <3>1. PICK j \in 1 .. n : i = j + 1
      <4> i - 1 \in 1 .. n /\ i = (i - 1) + 1
        BY <1>1, <2>2
      <4> QED OBVIOUS
    <3>2. At(d, us, i) = At(c, ws, j) /\ us[i] = ws[j]
      <4> j \in 1 .. n + 1
        BY <1>1
      <4> QED BY <1>1, <1>2, <3>1
    <3> DEFINE e == At(c, ws, j)
    <3>3. PICK g \in fs : Ours(g, e, ws[j])
      BY <1>3
    <3>4. Lies(g, e.ss, Deep(e) - Code(ws[j]))
      BY <3>3 DEF Ours
    <3>5. Deep(e) \in Nat /\ Code(ws[j]) \in Nat /\ (e.ss.seg = d.ss.seg => Deep(e) <= D)
      <4> j \in 1 .. n + 1
        BY <1>1
      <4> QED BY <1>3, <1>6, DeepNat, CodeNat
    <3>6. e.ss.seg = d.ss.seg => Deep(e) - Code(ws[j]) <= D
      BY <3>5
    <3>7. g \in gs
      BY <3>4, <3>6 DEF Spares
    <3> QED BY <1>3, <3>2, <3>3, <3>7
  <2> QED BY <2>1, <2>2
<1>9. ASSUME NEW i \in 1 .. n + 1, NEW j \in i + 1 .. (n + 1) + 1
      PROVE  Outer(At(d, us, i), us[i], At(d, us, j))
  <2>0. j - 1 \in 1 .. n + 1 /\ j = (j - 1) + 1
    BY <1>1
  <2>1. At(d, us, j) = At(c, ws, j - 1)
    BY <1>2, <2>0
  <2>2. CASE i = 1
    BY <1>1, <1>2, <1>6, <2>0, <2>1, <2>2
  <2>3. CASE i # 1
    <3>1. i - 1 \in 1 .. n /\ i - 1 \in 1 .. n + 1 /\ i = (i - 1) + 1
          /\ j - 1 \in (i - 1) + 1 .. n + 1
      BY <1>1, <2>3
    <3>2. At(d, us, i) = At(c, ws, i - 1) /\ us[i] = ws[i - 1]
      BY <1>1, <1>2, <3>1
    <3> QED BY <1>3, <2>1, <3>1, <3>2
  <2> QED BY <2>2, <2>3
<1>10. n + 1 <= DEPTH
  BY <1>1 DEF Fit, Numbers
<1> QED BY <1>1, <1>7, <1>8, <1>9, <1>10 DEF Nested, us

\* A return takes f, the frame of the program that waits, and gives it the CPU.
LEMMA PopNested ==
  ASSUME Fit, NEW c, NEW ws, NEW fs, Nested(c, ws, fs), ws # <<>>,
         NEW f, Ours(f, c, ws[1])
  PROVE  Nested(ws[1].ctx, Tail(ws), fs \ {f})
<1> DEFINE us == Tail(ws)
           d == ws[1].ctx
           gs == fs \ {f}
           n == Len(ws)
<1>1. /\ \E S : us \in Seq(S)
      /\ n \in Nat \ {0} /\ Len(us) = n - 1
      /\ \A i \in 1 .. n - 1 : us[i] = ws[i + 1]
  <2> \E S : ws \in Seq(S)
    BY DEF Nested
  <2> QED BY PopSeq
<1> HIDE DEF us
<1>2. \A i \in 1 .. n : At(d, us, i) = At(c, ws, i + 1)
  <2> ASSUME NEW i \in 1 .. n PROVE At(d, us, i) = At(c, ws, i + 1)
    <3>1. At(c, ws, i + 1) = ws[i].ctx
      <4> i + 1 # 1 /\ (i + 1) - 1 = i
        BY <1>1
      <4> QED BY DEF At
    <3>2. CASE i = 1  BY <3>1, <3>2 DEF At
    <3>3. CASE i # 1
      <4> i - 1 \in 1 .. n - 1 /\ (i - 1) + 1 = i
        BY <1>1, <3>3
      <4> us[i - 1] = ws[i]
        BY <1>1
      <4> QED BY <3>1, <3>3 DEF At
    <3> QED BY <3>2, <3>3
  <2> QED OBVIOUS
<1>3. /\ \A i \in 1 .. n + 1 : IsProgram(At(c, ws, i)) /\ Bounded(At(c, ws, i), n + 1 - i)
      /\ \A i \in 1 .. n : Serves(At(c, ws, i), ws[i]) /\ \E g \in fs : Ours(g, At(c, ws, i), ws[i])
      /\ \A i \in 1 .. n : \A j \in i + 1 .. n + 1 : Outer(At(c, ws, i), ws[i], At(c, ws, j))
      /\ n <= DEPTH /\ Apart(fs)
  BY DEF Nested
<1>4. At(c, ws, 1) = c /\ IsProgram(c)
  <2> At(c, ws, 1) = c /\ 1 \in 1 .. n + 1
    BY <1>1 DEF At
  <2> QED BY <1>3
<1>5. ASSUME NEW i \in 1 .. n
      PROVE  IsProgram(At(d, us, i)) /\ Bounded(At(d, us, i), n - i)
  <2> i + 1 \in 1 .. n + 1 /\ n + 1 - (i + 1) = n - i
    BY <1>1
  <2> QED BY <1>2, <1>3
<1>6. ASSUME NEW i \in 1 .. n - 1
      PROVE  Serves(At(d, us, i), us[i]) /\ \E g \in gs : Ours(g, At(d, us, i), us[i])
  <2> DEFINE e == At(c, ws, i + 1)
  <2>1. i \in 1 .. n /\ i + 1 \in 1 .. n /\ i + 1 \in 1 .. n + 1 /\ i + 1 \in 1 + 1 .. n + 1
        /\ 1 \in 1 .. n
    BY <1>1
  <2>2. At(d, us, i) = e /\ us[i] = ws[i + 1]
    BY <1>1, <1>2, <2>1
  <2>3. PICK g \in fs : Ours(g, e, ws[i + 1])
    BY <1>3, <2>1
  <2>4. IsProgram(e) /\ Outer(c, ws[1], e) /\ Serves(e, ws[i + 1])
    BY <1>3, <1>4, <2>1
  <2> HIDE DEF e
  <2>5. Lies(g, e.ss, Deep(e) - Code(ws[i + 1])) /\ Lies(f, c.ss, Deep(c) - Code(ws[1]))
    BY <2>3 DEF Ours
  <2>6. Code(ws[i + 1]) \in Nat /\ Code(ws[1]) \in Nat /\ Deep(e) \in Nat /\ Deep(c) \in Nat
    BY <1>4, <2>4, CodeNat, DeepNat
  <2>7. g # f
    <3>1. CASE e.ss.seg # c.ss.seg
      BY <2>5, <3>1 DEF Lies
    <3>2. CASE e.ss.seg = c.ss.seg
      <4>1. e.ss = c.ss
        BY <1>4, <2>4, <3>2, OneStack
      <4>2. Deep(e) + Code(ws[1]) < Deep(c)
        BY <2>4, <4>1 DEF Outer
      <4> DEFINE p == Deep(e) - Code(ws[i + 1])
                 q == Deep(c) - Code(ws[1])
                 b == Base(c.ss)
                 m == Modulus(c.ss)
      <4>3. p \in 0 .. m - 1 /\ q \in 0 .. m - 1 /\ g.at = (b - p) % m /\ f.at = (b - q) % m
        BY <2>5, <4>1 DEF Lies, Spot
      <4>4. p < q /\ p \in Int /\ q \in Int
        BY <2>6, <4>2
      <4>5. b \in Int /\ m \in Nat \ {0}
        BY Stacks
      <4> HIDE DEF p, q, b, m
      <4>6. (b - ((b - p) % m)) % m = p /\ (b - ((b - q) % m)) % m = q
        BY <4>3, <4>5, PlaceOfDepth
      <4> QED BY <4>3, <4>4, <4>6
    <3> QED BY <3>1, <3>2
  <2> QED BY <2>2, <2>3, <2>4, <2>7
<1>7. ASSUME NEW i \in 1 .. n - 1, NEW j \in i + 1 .. n
      PROVE  Outer(At(d, us, i), us[i], At(d, us, j))
  <2>1. i \in 1 .. n /\ i + 1 \in 1 .. n /\ j \in 1 .. n /\ j + 1 \in (i + 1) + 1 .. n + 1
    BY <1>1
  <2> QED BY <1>1, <1>2, <1>3, <2>1
<1>8. Apart(gs)
  BY <1>3 DEF Apart
<1>9. Len(us) <= DEPTH /\ Len(us) + 1 = n /\ Len(us) = n - 1
  BY <1>1, <1>3 DEF Fit, Numbers
<1> HIDE DEF n, d, gs
<1>10. Nested(d, us, gs)
  BY <1>1, <1>5, <1>6, <1>7, <1>8, <1>9 DEF Nested
<1> QED BY <1>10 DEF us, d, gs

LEMMA CodeDropped ==
  ASSUME NEW v, v = [ctx |-> v.ctx, how |-> v.how, wide |-> v.wide, code |-> v.code], NEW b
  PROVE  LET w == [v EXCEPT !.code = b] IN
         /\ w.code = b /\ w.ctx = v.ctx /\ w.how = v.how /\ w.wide = v.wide
         /\ w = [ctx |-> w.ctx, how |-> w.how, wide |-> w.wide, code |-> w.code]
  OBVIOUS

\* A handler drops its error code: the frame below it is what the stack begins with.
LEMMA DropNested ==
  ASSUME Fit, NEW c, NEW ws, NEW fs, Nested(c, ws, fs), ws # <<>>, ws[1].code,
         NEW d, IsProgram(d), d.ss = c.ss, d.vm = c.vm, d.ifl = c.ifl,
         Deep(d) = Deep(c) - Units(os.wide),
         NEW gs, gs \subseteq fs, \A g \in fs : g.how # "code" => g \in gs,
         NEW us, us = [ws EXCEPT ![1].code = FALSE]
  PROVE  Nested(d, us, gs)
<1> DEFINE n == Len(ws)
           w == [ws[1] EXCEPT !.code = FALSE]
<1>1. PICK S : ws \in Seq(S)
  BY DEF Nested
<1>2. n \in Nat \ {0} /\ DOMAIN ws = 1 .. n
  BY <1>1, LenProperties
<1>3. \E T : us \in Seq(T)
  <2> DEFINE T == S \cup {w}
  <2>1. ws \in Seq(T) /\ w \in T /\ 1 \in 1 .. Len(ws)
    BY <1>1, <1>2
  <2> DEFINE vs == [ws EXCEPT ![1] = w]
  <2>2. us = vs
    OBVIOUS
  <2> HIDE DEF w, T
  <2>3. vs \in Seq(T)
    BY <2>1, ExceptSeq
  <2> QED BY <2>2, <2>3
<1>4. Len(us) = n /\ us[1] = w /\ \A i \in 2 .. n : us[i] = ws[i]
  <2>1. us = [ws EXCEPT ![1] = w]
    OBVIOUS
  <2> DEFINE T == S \cup {w}
  <2>2. ws \in Seq(T) /\ w \in T /\ 1 \in 1 .. Len(ws)
    BY <1>1, <1>2
  <2> HIDE DEF w, T
  <2> DEFINE vs == [ws EXCEPT ![1] = w]
  <2>3. Len(vs) = Len(ws) /\ \A j \in 1 .. Len(ws) : vs[j] = IF j = 1 THEN w ELSE ws[j]
    BY <2>2, ExceptSeq
  <2>4. us = vs
    BY <2>1
  <2> HIDE DEF vs
  <2> QED BY <1>2, <2>3, <2>4
<1>5. At(c, ws, 1) = c /\ At(d, us, 1) = d /\ \A i \in 2 .. n + 1 : At(d, us, i) = At(c, ws, i)
  <2> ASSUME NEW i \in 2 .. n + 1 PROVE At(d, us, i) = At(c, ws, i)
    <3>1. CASE i = 2
      <4> w.ctx = ws[1].ctx
        <5> 1 \in 1 .. n
          BY <1>2
        <5> Serves(At(c, ws, 1), ws[1])
          BY DEF Nested
        <5> ws[1] = [ctx |-> ws[1].ctx, how |-> ws[1].how, wide |-> ws[1].wide, code |-> ws[1].code]
          BY DEF Serves
        <5> QED OBVIOUS
      <4> QED BY <1>4, <3>1 DEF At
    <3>2. CASE i # 2
      <4> i - 1 \in 2 .. n /\ i # 1
        BY <1>2, <3>2
      <4> QED BY <1>4 DEF At
    <3> QED BY <3>1, <3>2
  <2> QED BY DEF At
<1>6. /\ \A i \in 1 .. n + 1 : IsProgram(At(c, ws, i)) /\ Bounded(At(c, ws, i), n + 1 - i)
      /\ \A i \in 1 .. n : Serves(At(c, ws, i), ws[i]) /\ \E g \in fs : Ours(g, At(c, ws, i), ws[i])
      /\ \A i \in 1 .. n : \A j \in i + 1 .. n + 1 : Outer(At(c, ws, i), ws[i], At(c, ws, j))
      /\ n <= DEPTH /\ Apart(fs)
  BY DEF Nested
<1>7. /\ IsProgram(c) /\ Bounded(c, n) /\ Serves(c, ws[1])
      /\ \E g \in fs : Ours(g, c, ws[1])
  <2> 1 \in 1 .. n + 1 /\ 1 \in 1 .. n /\ n + 1 - 1 = n
    BY <1>2
  <2> QED BY <1>5, <1>6
<1>8. /\ w.code = FALSE /\ w.ctx = ws[1].ctx /\ w.how = ws[1].how /\ w.wide = ws[1].wide
      /\ w = [ctx |-> w.ctx, how |-> w.how, wide |-> w.wide, code |-> w.code]
  <2> ws[1] = [ctx |-> ws[1].ctx, how |-> ws[1].how, wide |-> ws[1].wide, code |-> ws[1].code]
    BY <1>7 DEF Serves
  <2> DEFINE v == ws[1]
             b == FALSE
             u == [v EXCEPT !.code = b]
  <2>1. w = u /\ v = [ctx |-> v.ctx, how |-> v.how, wide |-> v.wide, code |-> v.code]
    OBVIOUS
  <2> HIDE DEF v, b
  <2>2. /\ u.code = b /\ u.ctx = v.ctx /\ u.how = v.how /\ u.wide = v.wide
        /\ u = [ctx |-> u.ctx, how |-> u.how, wide |-> u.wide, code |-> u.code]
    BY <2>1, CodeDropped
  <2> HIDE DEF w, u
  <2> QED BY <2>1, <2>2 DEF v, b
<1> HIDE DEF w
<1>9. /\ Code(w) = 0 /\ Code(ws[1]) = Units(os.wide) /\ Units(os.wide) \in Nat
      /\ Deep(c) \in Nat /\ Deep(d) \in Nat /\ d.ss = c.ss
      /\ Deep(d) - Code(w) = Deep(c) - Code(ws[1])
  <2> Deep(c) \in Nat /\ Deep(d) \in Nat
    BY <1>7, DeepNat
  <2> QED BY <1>8 DEF Code, Units
<1>10. Serves(d, w)
  BY <1>7, <1>8 DEF Serves
<1>11. \E g \in gs : Ours(g, d, w)
  <2>1. PICK g \in fs : Ours(g, c, ws[1])
    BY <1>7
  <2>2. g.how # "code"
    BY <1>7, <2>1 DEF Ours, Serves
  <2>3. Lies(g, d.ss, Deep(d) - Code(w))
    BY <1>9, <2>1 DEF Ours
  <2>4. Tells(g, w)
    BY <1>8, <2>1 DEF Ours, Tells
  <2>5. w.ctx.ss = d.ss => Deep(w.ctx) + g.size + Code(w) = Deep(d)
    <3> SUFFICES ASSUME w.ctx.ss = d.ss PROVE Deep(w.ctx) + g.size + Code(w) = Deep(d)
      OBVIOUS
    <3>1. Deep(w.ctx) + g.size + Code(ws[1]) = Deep(c)
      BY <1>8, <1>9, <2>1 DEF Ours
    <3>2. Deep(w.ctx) \in Nat /\ g.size \in Nat
      <4> At(c, ws, 2) = w.ctx /\ 2 \in 1 .. n + 1
        BY <1>2, <1>8 DEF At
      <4> IsProgram(w.ctx)
        BY <1>6
      <4> QED BY <2>3, DeepNat DEF Lies
    <3> QED BY <1>9, <3>1, <3>2
  <2> Ours(g, d, w)
    BY <1>8, <2>1, <2>3, <2>4, <2>5 DEF Ours
  <2> QED BY <2>2
<1>12. Bounded(d, n)
  <2> MostPushed(os, c.ss.seg) * n \in Int
    <3> MostPushed(os, c.ss.seg) \in Nat
      BY MostNat
    <3> QED BY <1>2, TimesSum
  <2> QED BY <1>7, <1>9 DEF Bounded
<1>13. ASSUME NEW i \in 1 .. n + 1
       PROVE  IsProgram(At(d, us, i)) /\ Bounded(At(d, us, i), n + 1 - i)
  <2>1. CASE i = 1
    <3> n + 1 - 1 = n
      BY <1>2
    <3> QED BY <1>5, <1>12, <2>1
  <2>2. CASE i # 1
    <3> i \in 2 .. n + 1
      BY <1>2, <2>2
    <3> QED BY <1>5, <1>6
  <2> QED BY <2>1, <2>2
<1>14. ASSUME NEW i \in 1 .. n
       PROVE  Serves(At(d, us, i), us[i]) /\ \E g \in gs : Ours(g, At(d, us, i), us[i])
  <2>1. CASE i = 1
    BY <1>4, <1>5, <1>10, <1>11, <2>1
  <2>2. CASE i # 1
    <3>1. i \in 2 .. n + 1 /\ i \in 2 .. n
      BY <1>2, <2>2
    <3>2. At(d, us, i) = At(c, ws, i) /\ us[i] = ws[i]
      BY <1>4, <1>5, <3>1
    <3>3. Serves(At(c, ws, i), ws[i]) /\ \E g \in fs : Ours(g, At(c, ws, i), ws[i])
      BY <1>6
    <3>4. \A g : Ours(g, At(c, ws, i), ws[i]) => g.how # "code"
      BY <3>3 DEF Ours, Serves
    <3> QED BY <3>2, <3>3, <3>4
  <2> QED BY <2>1, <2>2
<1>15. ASSUME NEW i \in 1 .. n, NEW j \in i + 1 .. n + 1
       PROVE  Outer(At(d, us, i), us[i], At(d, us, j))
  <2>0. j \in 2 .. n + 1
    BY <1>2
  <2>1. Outer(At(c, ws, i), ws[i], At(c, ws, j)) /\ At(d, us, j) = At(c, ws, j)
    BY <1>5, <1>6, <2>0
  <2>2. CASE i = 1
    <3> DEFINE e == At(c, ws, j)
    <3>1. Outer(c, ws[1], e) /\ IsProgram(e)
      <4> j \in 1 .. n + 1
        BY <1>2, <2>0
      <4> QED BY <1>5, <1>6, <2>1, <2>2
    <3>2. Deep(e) \in Nat
      BY <3>1, DeepNat
    <3> HIDE DEF e
    <3>3. Outer(d, w, e)
      BY <1>9, <3>1, <3>2 DEF Outer
    <3> QED BY <1>4, <1>5, <2>1, <2>2, <3>3 DEF e
  <2>3. CASE i # 1
    <3> i \in 2 .. n /\ i \in 2 .. n + 1
      BY <1>2, <2>3
    <3> QED BY <1>4, <1>5, <2>1
  <2> QED BY <2>2, <2>3
<1>16. Apart(gs)
  BY <1>6 DEF Apart
<1> QED BY <1>3, <1>4, <1>6, <1>13, <1>14, <1>15, <1>16 DEF Nested

-----------------------------------------------------------------------------
(* Pushes. *)

\* d is c but for one register
SameBut(c, d, f) ==
    /\ f # "cs" => d.cs = c.cs
    /\ f # "ip" => d.ip = c.ip
    /\ f # "ss" => d.ss = c.ss
    /\ f # "esp" => d.esp = c.esp
    /\ f # "ds" => d.ds = c.ds
    /\ f # "cpl" => d.cpl = c.cpl
    /\ f # "ifl" => d.ifl = c.ifl
    /\ f # "vm" => d.vm = c.vm
    /\ f # "iopl" => d.iopl = c.iopl
    /\ f # "arith" => d.arith = c.arith
    /\ f # "lazy" => d.lazy = c.lazy

LEMMA CsSet ==
  ASSUME NEW c, IsCpu(c), NEW v
  PROVE  LET d == [c EXCEPT !.cs = v] IN IsCpu(d) /\ SameBut(c, d, "cs") /\ d.cs = v
  BY DEF IsCpu, SameBut

LEMMA IpSet ==
  ASSUME NEW c, IsCpu(c), NEW v
  PROVE  LET d == [c EXCEPT !.ip = v] IN IsCpu(d) /\ SameBut(c, d, "ip") /\ d.ip = v
  BY DEF IsCpu, SameBut

LEMMA SsSet ==
  ASSUME NEW c, IsCpu(c), NEW v
  PROVE  LET d == [c EXCEPT !.ss = v] IN IsCpu(d) /\ SameBut(c, d, "ss") /\ d.ss = v
  BY DEF IsCpu, SameBut

LEMMA EspSet ==
  ASSUME NEW c, IsCpu(c), NEW v
  PROVE  LET d == [c EXCEPT !.esp = v] IN IsCpu(d) /\ SameBut(c, d, "esp") /\ d.esp = v
  BY DEF IsCpu, SameBut

LEMMA DsSet ==
  ASSUME NEW c, IsCpu(c), NEW v
  PROVE  LET d == [c EXCEPT !.ds = v] IN IsCpu(d) /\ SameBut(c, d, "ds") /\ d.ds = v
  BY DEF IsCpu, SameBut

LEMMA CplSet ==
  ASSUME NEW c, IsCpu(c), NEW v
  PROVE  LET d == [c EXCEPT !.cpl = v] IN IsCpu(d) /\ SameBut(c, d, "cpl") /\ d.cpl = v
  BY DEF IsCpu, SameBut

LEMMA IflSet ==
  ASSUME NEW c, IsCpu(c), NEW v
  PROVE  LET d == [c EXCEPT !.ifl = v] IN IsCpu(d) /\ SameBut(c, d, "ifl") /\ d.ifl = v
  BY DEF IsCpu, SameBut

LEMMA VmSet ==
  ASSUME NEW c, IsCpu(c), NEW v
  PROVE  LET d == [c EXCEPT !.vm = v] IN IsCpu(d) /\ SameBut(c, d, "vm") /\ d.vm = v
  BY DEF IsCpu, SameBut

LEMMA IoplSet ==
  ASSUME NEW c, IsCpu(c), NEW v
  PROVE  LET d == [c EXCEPT !.iopl = v] IN IsCpu(d) /\ SameBut(c, d, "iopl") /\ d.iopl = v
  BY DEF IsCpu, SameBut

LEMMA ArithSet ==
  ASSUME NEW c, IsCpu(c), NEW v
  PROVE  LET d == [c EXCEPT !.arith = v] IN IsCpu(d) /\ SameBut(c, d, "arith") /\ d.arith = v
  BY DEF IsCpu, SameBut

LEMMA LazySet ==
  ASSUME NEW c, IsCpu(c), NEW v
  PROVE  LET d == [c EXCEPT !.lazy = v] IN IsCpu(d) /\ SameBut(c, d, "lazy") /\ d.lazy = v
  BY DEF IsCpu, SameBut

LEMMA WithSpIs ==
  ASSUME Fit, NEW c, IsCpu(c), c.esp \in Int, NEW v \in Int
  PROVE  \E e \in Int : WithSp(c, v) = [c EXCEPT !.esp = e] /\ e % Modulus(c.ss) = v % Modulus(c.ss)
<1> DEFINE m == Modulus(c.ss)
           k == c.esp \div m
           e == (v % m) + k * m
<1>1. m \in Nat \ {0}
  BY Stacks
<1>2. WithSp(c, v) = [c EXCEPT !.esp = e]
  BY DEF WithSp, IsCpu
<1> HIDE DEF m
<1>3. k \in Int
  BY <1>1, Z3
<1> HIDE DEF k
<1>4. v % m \in Int /\ k * m \in Int
  BY <1>1, <1>3, Remainder, TimesSum
<1>5. ((v % m) + k * m) % m = (v % m) % m /\ (v % m) % m = v % m
  BY <1>1, <1>3, <1>4, Turns, CutFirst
<1> QED BY <1>2, <1>4, <1>5 DEF m

\* The size of a frame, and what it takes with an error code below it.
Size(n, wide) == n * Units(wide)
Taken(n, wide, code) == Size(n, wide) + (IF code THEN Units(wide) ELSE 0)

LEMMA SizeNat ==
  ASSUME NEW n \in Nat \ {0}, NEW wide, NEW code
  PROVE  /\ Units(wide) \in 1 .. 2 /\ Size(n, wide) \in Nat \ {0} /\ Taken(n, wide, code) \in Nat
         /\ Size(n, wide) = IF wide THEN 2 * n ELSE n
         /\ Size(1, wide) = Units(wide)
  BY DEF Size, Taken, Units

LEMMA FrameLies ==
  ASSUME Fit, NEW c, c.esp \in Int, NEW D \in Nat, c.esp % Modulus(c.ss) = Spot(c.ss, D),
         NEW how, NEW wide, NEW n \in Nat \ {0}, NEW of, D + Size(n, wide) < Modulus(c.ss)
  PROVE  LET f == Frame(c, how, wide, n, of) IN
         Lies(f, c.ss, D + Size(n, wide)) /\ f.size = Size(n, wide) /\ f.how = how
<1> DEFINE f == Frame(c, how, wide, n, of)
           z == Size(n, wide)
<1>1. /\ f.size = z /\ f.how = how /\ f.ss = c.ss.seg /\ f.mod = Modulus(c.ss)
      /\ f.at = (c.esp - z) % Modulus(c.ss)
  BY DEF Frame, Size
<1>2. z \in Nat \ {0}
  BY SizeNat
<1> HIDE DEF f, z
<1>3. (c.esp - z) % Modulus(c.ss) = Spot(c.ss, D + z)
  BY <1>2, SpotMoves
<1>4. D + z \in 0 .. Modulus(c.ss) - 1 /\ z <= D + z
  <2> Modulus(c.ss) \in Nat
    BY Stacks
  <2> D + z < Modulus(c.ss)
    BY DEF z
  <2> QED BY <1>2
<1> QED BY <1>1, <1>2, <1>3, <1>4 DEF Lies, f, z

LEMMA PutSpares ==
  ASSUME Fit, NEW f, NEW s, NEW d, Lies(f, s, d), NEW fs, NEW e \in Int, e <= d - f.size
  PROVE  Spares(fs, Put(fs, f), s, e)
<1> SUFFICES ASSUME NEW g \in fs, NEW t, NEW h, Lies(g, t, h), t.seg = s.seg => h <= e
             PROVE  g \in Put(fs, f)
  BY DEF Spares
<1>1. ~Overlap(f, g)
  <2>1. s.seg = t.seg => h <= d - f.size
    <3> h \in Int /\ d - f.size \in Int
      <4> Modulus(s) \in Nat /\ Modulus(t) \in Nat
        BY Stacks
      <4> QED BY DEF Lies
    <3> QED OBVIOUS
  <2> QED BY <2>1, Clear
<1> QED BY <1>1 DEF Put

\* What a push leaves: the stack pointer is lower, the frame is there, and nothing
\* is lost that was not below.
LEMMA PushedIs ==
  ASSUME Fit, NEW c, IsCpu(c), c.esp \in Int, NEW D \in Nat, c.esp % Modulus(c.ss) = Spot(c.ss, D),
         NEW how, NEW wide, NEW n \in Nat \ {0}, NEW of, NEW code \in BOOLEAN,
         D + Taken(n, wide, code) < Modulus(c.ss), Apart(frames)
  PROVE  LET p == Pushed(c, how, wide, n, of, code)
             f == Frame(c, how, wide, n, of)
         IN /\ IsCpu(p.cpu) /\ SameBut(c, p.cpu, "esp") /\ p.cpu.esp \in Int
            /\ p.cpu.esp % Modulus(c.ss) = Spot(c.ss, D + Taken(n, wide, code))
            /\ f \in p.frames /\ Lies(f, c.ss, D + Size(n, wide)) /\ f.size = Size(n, wide)
            /\ Apart(p.frames) /\ Spares(frames, p.frames, c.ss, D)
            /\ p.exc = "none"
<1> DEFINE m == Modulus(c.ss)
           z == Size(n, wide)
           y == Size(1, wide)
           f == Frame(c, how, wide, n, of)
           v == c.esp - z
           d == WithSp(c, v)
           g == Frame(d, "code", wide, 1, of)
           w == d.esp - y
           h == WithSp(d, w)
           one == Put(frames, f)
           two == Put(one, g)
           p == Pushed(c, how, wide, n, of, code)
<1>1. f.size = z /\ g.size = y
  BY DEF Frame, Size
<1>2. p = IF code THEN Moves(h, two) ELSE Moves(d, one)
  BY <1>1 DEF Pushed
<1>3. /\ z \in Nat \ {0} /\ y \in Nat \ {0} /\ m \in Nat \ {0}
      /\ Taken(n, wide, code) = z + (IF code THEN y ELSE 0)
  <2> Units(wide) = y
    BY SizeNat
  <2> QED BY SizeNat, Stacks DEF Taken
<1>4. Lies(f, c.ss, D + z)
  <2> D + z < m
    BY <1>3
  <2> QED BY FrameLies
<1> HIDE DEF f, p
<1>5. f \in one /\ Apart(one) /\ Spares(frames, one, c.ss, D)
  <2> D + z \in Int /\ D <= (D + z) - z
    BY <1>3
  <2> QED BY <1>1, <1>4, PutApart, PutSpares
<1>6. v \in Int /\ v % m = Spot(c.ss, D + z)
  BY <1>3, SpotMoves
<1> HIDE DEF v
<1>7. PICK a \in Int : d = [c EXCEPT !.esp = a] /\ a % m = v % m
  BY <1>6, WithSpIs
<1> HIDE DEF d
<1>8. d.esp = a /\ d.ss = c.ss /\ IsCpu(d) /\ SameBut(c, d, "esp")
  <2> IsCpu(d) /\ SameBut(c, d, "esp") /\ d.esp = a
    BY <1>7, EspSet
  <2> QED BY DEF SameBut
<1>9. CASE ~code
  <2>1. p.cpu = d /\ p.frames = one /\ p.exc = "none" /\ Taken(n, wide, code) = z
    BY <1>2, <1>3, <1>9 DEF Moves
  <2> QED BY <1>1, <1>4, <1>5, <1>6, <1>7, <1>8, <2>1 DEF f, p, m
<1>10. CASE code
  <2>1. p.cpu = h /\ p.frames = two /\ p.exc = "none" /\ Taken(n, wide, code) = z + y
    BY <1>2, <1>3, <1>10 DEF Moves
  <2>2. D + z \in Nat /\ (D + z) + y < m /\ (D + z) + y = D + (z + y)
    BY <1>3, <2>1
  <2>3. Lies(g, c.ss, (D + z) + y) /\ g.size = y
    <3> DEFINE E == D + z
    <3>1. E \in Nat /\ d.esp % Modulus(d.ss) = Spot(d.ss, E) /\ E + Size(1, wide) < Modulus(d.ss)
      BY <1>6, <1>7, <1>8, <2>2
    <3> HIDE DEF E
    <3> Lies(g, d.ss, E + Size(1, wide)) /\ g.size = Size(1, wide)
      BY <1>8, <3>1, FrameLies
    <3> QED BY <1>8 DEF E
  <2> HIDE DEF g
  <2>4. Apart(two)
    BY <1>5, <2>3, PutApart
  <2>5. ~Overlap(g, f)
    <3> D + z <= ((D + z) + y) - g.size
      BY <1>3, <2>3
    <3> QED BY <1>4, <2>3, Clear
  <2>6. f \in two
    BY <1>5, <2>5 DEF Put
  <2>7. Spares(frames, two, c.ss, D)
    <3> D <= ((D + z) + y) - g.size
      BY <1>3, <2>3
    <3> Spares(one, two, c.ss, D)
      BY <2>3, PutSpares
    <3> QED BY <1>5 DEF Spares
  <2>8. w \in Int /\ w % m = Spot(c.ss, (D + z) + y)
    <3> a % m = Spot(c.ss, D + z) /\ w = a - y /\ D + z \in Int /\ y \in Int
      BY <1>3, <1>6, <1>7, <1>8
    <3> QED BY SpotMoves
  <2> HIDE DEF w
  <2>9. PICK b \in Int : h = [d EXCEPT !.esp = b] /\ b % Modulus(d.ss) = w % Modulus(d.ss)
    BY <1>8, <2>8, WithSpIs
  <2> HIDE DEF h
  <2>10. IsCpu(h) /\ SameBut(c, h, "esp") /\ h.esp = b
    <3> IsCpu(h) /\ SameBut(d, h, "esp") /\ h.esp = b
      BY <1>8, <2>9, EspSet
    <3> QED BY <1>8 DEF SameBut
  <2> QED BY <1>1, <1>4, <1>8, <2>1, <2>2, <2>4, <2>6, <2>7, <2>8, <2>9, <2>10 DEF f, p, m
<1> QED BY <1>9, <1>10

\* A frame tells the program it was made of.
LEMMA FrameTells ==
  ASSUME Fit, NEW c, NEW how, NEW wide \in BOOLEAN, NEW n, NEW of, of.ip \in Int, of.esp \in Int,
         wide \/ Modulus(of.cs) = R, wide \/ how = "far" \/ Modulus(of.ss) = R,
         NEW w, w.ctx = Context(of), w.how = how
  PROVE  Tells(Frame(c, how, wide, n, of), w)
<1> DEFINE f == Frame(c, how, wide, n, of)
           x == Context(of)
<1>1. /\ f.cs = of.cs /\ f.ip = Cut(wide, of.ip) /\ f.ofss = of.ss /\ f.esp = Cut(wide, of.esp)
      /\ f.ds = of.ds /\ f.ifl = of.ifl /\ f.vm = of.vm /\ f.iopl = of.iopl /\ f.arith = Arith(of)
  BY DEF Frame
<1>2. /\ x.cs = of.cs /\ x.ip = of.ip % Modulus(of.cs) /\ x.ss = of.ss
      /\ x.sp = of.esp % Modulus(of.ss)
      /\ x.ds = of.ds /\ x.ifl = of.ifl /\ x.vm = of.vm /\ x.iopl = of.iopl /\ x.arith = Arith(of)
  BY DEF Context, Ip
<1> HIDE DEF f, x
<1>3. R \in Nat \ {0}
  BY DEF Fit, Numbers
<1>4. /\ Cut(wide, of.ip) \in Int /\ Cut(wide, of.esp) \in Int
      /\ Cut(wide, of.ip) = IF wide THEN of.ip ELSE of.ip % R
      /\ Cut(wide, of.esp) = IF wide THEN of.esp ELSE of.esp % R
  <2>0. \A k \in Int : k % R \in Int
    BY <1>3, SMT
  <2> of.ip % R \in Int /\ of.esp % R \in Int
    BY <2>0
  <2>1. CASE wide = TRUE
    BY <2>1 DEF Cut
  <2>2. CASE wide = FALSE
    BY <2>2 DEF Cut
  <2> QED BY <2>1, <2>2
<1>5. (of.ip % R) % R = of.ip % R /\ (of.esp % R) % R = of.esp % R
  BY <1>3, CutFirst
<1>6. f.ip % Modulus(of.cs) = of.ip % Modulus(of.cs)
  BY <1>1, <1>4, <1>5
<1>7. how # "far" => f.esp % Modulus(of.ss) = of.esp % Modulus(of.ss)
  BY <1>1, <1>4, <1>5
<1>8. Tells(f, w)
  BY <1>1, <1>2, <1>4, <1>6, <1>7 DEF Tells, x
<1> QED BY <1>8 DEF f

\* There is room for one more.
LEMMA Room ==
  ASSUME Fit, NEW s, s.seg \in StackSegs, ~(s.seg = "stack0" /\ os.real),
         NEW n \in Nat, n < DEPTH, NEW D \in Nat, D <= MostPushed(os, s.seg) * n,
         NEW T \in Nat, T <= MostPushed(os, s.seg)
  PROVE  D + T < Modulus(s)
<1> DEFINE k == MostPushed(os, s.seg)
<1>1. k \in Nat /\ DEPTH \in Nat
  BY MostNat DEF Fit, Numbers
<1>2. k * DEPTH < Modulus(s)
  BY DEF Fit, Plain, Width, Modulus
<1>3. Modulus(s) \in Nat
  BY Stacks
<1> HIDE DEF k
<1>4. k * (n + 1) = k * n + k /\ k * (n + 1) <= k * DEPTH
      /\ k * n \in Int /\ k * DEPTH \in Int /\ k * (n + 1) \in Int
  <2>1. (n + 1) * k <= DEPTH * k /\ n * k \in Int /\ DEPTH * k \in Int /\ (n + 1) * k \in Int
    BY <1>1, TimesLe
  <2>2. k * (n + 1) = (n + 1) * k /\ k * DEPTH = DEPTH * k /\ k * n = n * k
    BY <1>1, Z3
  <2>3. (n + 1) * k = n * k + 1 * k /\ 1 * k = k
    BY <1>1, TimesSum
  <2> QED BY <2>1, <2>2, <2>3
<1>5. D <= k * n /\ T <= k
  BY DEF k
<1> QED BY <1>1, <1>2, <1>3, <1>4, <1>5

LEMMA ContextIs ==
  ASSUME NEW c
  PROVE  LET x == Context(c) IN
         /\ x = [cs |-> x.cs, ip |-> x.ip, ss |-> x.ss, sp |-> x.sp, ds |-> x.ds, ifl |-> x.ifl,
                 vm |-> x.vm, iopl |-> x.iopl, arith |-> x.arith]
         /\ x.cs = c.cs /\ x.ip = Ip(c) /\ x.ss = c.ss /\ x.sp = c.esp % Modulus(c.ss)
         /\ x.ds = c.ds /\ x.ifl = c.ifl /\ x.vm = c.vm /\ x.iopl = c.iopl /\ x.arith = Arith(c)
  BY DEF Context

LEMMA NestedTop ==
  ASSUME NEW c, NEW ws, NEW fs, Nested(c, ws, fs)
  PROVE  /\ Len(ws) \in Nat /\ Len(ws) <= DEPTH /\ IsProgram(c) /\ Bounded(c, Len(ws)) /\ Apart(fs)
         /\ ws # <<>> => /\ Serves(c, ws[1]) /\ IsProgram(ws[1].ctx)
                         /\ Outer(c, ws[1], ws[1].ctx)
                         /\ \E f \in fs : Ours(f, c, ws[1])
<1>1. PICK S : ws \in Seq(S)
  BY DEF Nested
<1>2. Len(ws) \in Nat /\ (ws # <<>> => Len(ws) >= 1)
  BY <1>1, EmptySeq
<1>3. At(c, ws, 1) = c /\ At(c, ws, 2) = ws[1].ctx
  BY DEF At
<1>4. 1 \in 1 .. Len(ws) + 1 /\ Len(ws) + 1 - 1 = Len(ws)
  BY <1>2
<1>5. IsProgram(c) /\ Bounded(c, Len(ws)) /\ Apart(fs) /\ Len(ws) <= DEPTH
  BY <1>3, <1>4 DEF Nested
<1>6. ASSUME ws # <<>>
      PROVE  /\ Serves(c, ws[1]) /\ IsProgram(ws[1].ctx) /\ Outer(c, ws[1], ws[1].ctx)
             /\ \E f \in fs : Ours(f, c, ws[1])
  <2> 1 \in 1 .. Len(ws) /\ 2 \in 1 .. Len(ws) + 1 /\ 2 \in 1 + 1 .. Len(ws) + 1
    BY <1>2, <1>6
  <2> QED BY <1>3 DEF Nested
<1> QED BY <1>2, <1>5, <1>6

\* s has the stack onto which a transfer pushes, at depth D: that of the program or the
\* inner one, on which nothing is
Onto(s, D) ==
    \/ s.ss = cpu.ss /\ s.esp = cpu.esp /\ D = Deep(Context(cpu))
    \/ s.ss = Sel("stack0", 0) /\ cpu.ss.seg # "stack0" /\ s.esp = os.top /\ D = 0 /\ ~os.real

LEMMA PushFits ==
  ASSUME Fit, Nested(Context(cpu), waits, frames), Len(waits) < DEPTH, cpu.esp \in Int,
         NEW s, NEW D, Onto(s, D), NEW T \in Nat, T <= MostPushed(os, s.ss.seg)
  PROVE  /\ s.esp \in Int /\ D \in Nat /\ s.esp % Modulus(s.ss) = Spot(s.ss, D)
         /\ D + T < Modulus(s.ss)
<1> DEFINE x == Context(cpu)
           n == Len(waits)
<1>1. n \in Nat /\ IsProgram(x) /\ Bounded(x, n)
  BY NestedTop
<1>2. x.ss = cpu.ss /\ x.sp = cpu.esp % Modulus(cpu.ss)
  BY ContextIs
<1> HIDE DEF x
<1>3. Deep(x) \in Nat /\ Modulus(cpu.ss) \in Nat \ {0}
  BY <1>1, <1>2, DeepNat
<1>4. CASE s.ss = cpu.ss /\ s.esp = cpu.esp /\ D = Deep(x)
  <2>1. x.sp \in 0 .. Modulus(x.ss) - 1
    BY <1>1 DEF IsProgram
  <2>2. x.sp = Spot(x.ss, Deep(x))
    BY <2>1, DeepSpot
  <2>3. s.ss.seg \in StackSegs /\ ~(s.ss.seg = "stack0" /\ os.real)
    BY <1>1, <1>2, <1>4 DEF IsProgram, StackSegs, Para, Sel
  <2>4. D \in Nat /\ D <= MostPushed(os, s.ss.seg) * n
    BY <1>1, <1>2, <1>3, <1>4 DEF Bounded
  <2>5. D + T < Modulus(s.ss)
    BY <1>1, <2>3, <2>4, Room
  <2> QED BY <1>2, <1>4, <2>2, <2>4, <2>5
<1>5. CASE s.ss = Sel("stack0", 0) /\ s.esp = os.top /\ D = 0 /\ ~os.real
  <2>1. s.ss.seg = "stack0" /\ os.top \in Int
    BY <1>5 DEF Sel, Fit, Plain
  <2>2. s.esp % Modulus(s.ss) = Spot(s.ss, D)
    <3> Base(s.ss) = os.top
      BY <2>1 DEF Base
    <3> os.top - 0 = os.top
      BY <2>1
    <3> QED BY <1>5 DEF Spot
  <2>3. D \in Nat /\ D <= MostPushed(os, s.ss.seg) * n
    <3> DEFINE k == MostPushed(os, s.ss.seg)
    <3> k \in Nat
      BY MostNat
    <3> HIDE DEF k
    <3> k * n \in Nat
      BY <1>1, Z3
    <3> QED BY <1>5 DEF k
  <2>4. D + T < Modulus(s.ss)
    BY <1>1, <1>5, <2>1, <2>3, Room DEF StackSegs
  <2> QED BY <1>5, <2>1, <2>2, <2>3, <2>4
<1> QED BY <1>4, <1>5 DEF Onto, x

\* A transfer that pushes a frame of the program and goes on as d.
LEMMA Enters ==
  ASSUME Fit, Nested(Context(cpu), waits, frames), Len(waits) < DEPTH, cpu.esp \in Int,
         NEW of, of.ip \in Int, of.esp \in Int, IsProgram(Context(of)),
         Akin(Context(cpu), Context(of)), of.ifl = cpu.ifl,
         NEW s, IsCpu(s), NEW D, Onto(s, D),
         NEW how, NEW wide \in BOOLEAN, NEW n \in Nat \ {0}, NEW code \in BOOLEAN,
         Taken(n, wide, code) <= MostPushed(os, s.ss.seg), code => wide = os.wide,
         wide \/ Modulus(of.cs) = R, wide \/ how = "far" \/ Modulus(of.ss) = R,
         NEW w, w = [ctx |-> Context(of), how |-> how, wide |-> wide, code |-> code],
         NEW d, d.ss = s.ss,
         d.esp % Modulus(s.ss) = Spot(s.ss, D + Taken(n, wide, code)),
         IsProgram(Context(d)), Serves(Context(d), w)
  PROVE  Nested(Context(d), <<w>> \o waits, Pushed(s, how, wide, n, of, code).frames)
<1> DEFINE c == Context(of)
           e == Context(d)
           p == Pushed(s, how, wide, n, of, code)
           f == Frame(s, how, wide, n, of)
           T == Taken(n, wide, code)
           z == Size(n, wide)
<1>1. /\ w.ctx = c /\ w.how = how /\ w.wide = wide /\ w.code = code
  OBVIOUS
<1>2. /\ T \in Nat /\ z \in Nat \ {0} /\ T = z + Code(w) /\ Code(w) \in Nat
  <2>1. T \in Nat /\ z \in Nat \ {0} /\ Units(wide) \in 1 .. 2
    BY SizeNat
  <2>2. Code(w) = IF code THEN Units(wide) ELSE 0
    BY <1>1 DEF Code
  <2> QED BY <2>1, <2>2 DEF Taken
<1>3. T <= MostPushed(os, s.ss.seg)
  OBVIOUS
<1> HIDE DEF T
<1>4. s.esp \in Int /\ D \in Nat /\ s.esp % Modulus(s.ss) = Spot(s.ss, D) /\ D + T < Modulus(s.ss)
  BY <1>2, <1>3, PushFits
<1>5. Apart(frames) /\ Len(waits) \in Nat
  BY NestedTop
<1>6. /\ f \in p.frames /\ Lies(f, s.ss, D + z) /\ f.size = z
      /\ Apart(p.frames) /\ Spares(frames, p.frames, s.ss, D)
  BY <1>4, <1>5, PushedIs DEF T
<1>7. f.how = how /\ f.wide = wide
  BY DEF Frame
<1>8. Tells(f, w)
  BY <1>1, FrameTells
<1>9. c.ss = cpu.ss /\ e.ss = s.ss /\ c.ifl = cpu.ifl /\ Deep(c) = Deep(Context(cpu))
  <2> Deep(Context(cpu)) = Deep(c)
    BY AkinSame
  <2> c.ss = of.ss /\ c.ifl = of.ifl /\ e.ss = d.ss /\ Context(cpu).ss = cpu.ss
    BY ContextIs
  <2> QED BY DEF Akin
<1>10. Nested(c, waits, frames)
  <2> Context(cpu).ifl = cpu.ifl
    BY ContextIs
  <2> QED BY <1>9, TopNested
<1>11. Deep(e) = D + T
  <2>1. D + T \in 0 .. Modulus(e.ss) - 1
    <3> Modulus(s.ss) \in Nat
      BY Stacks
    <3> QED BY <1>2, <1>4, <1>9
  <2>2. e.sp = Spot(e.ss, D + T)
    <3> e.sp = d.esp % Modulus(d.ss)
      BY ContextIs
    <3> QED BY <1>9 DEF T
  <2> HIDE DEF e
  <2> QED BY <2>1, <2>2, SpotDeep
<1>12. \/ e.ss = c.ss /\ D = Deep(c)
       \/ e.ss.seg = "stack0" /\ c.ss.seg # "stack0" /\ D = 0
  BY <1>9 DEF Onto, Sel
<1>13. Ours(f, e, w)
  <2>1. Deep(e) - Code(w) = D + z
    BY <1>2, <1>4, <1>11
  <2>2. w.ctx.ss = e.ss => Deep(w.ctx) + f.size + Code(w) = Deep(e)
    <3> SUFFICES ASSUME c.ss = e.ss PROVE Deep(c) + z + Code(w) = Deep(e)
      BY <1>1, <1>6
    <3> D = Deep(c)
      BY <1>12
    <3> QED BY <1>2, <1>4, <1>11
  <2> QED BY <1>1, <1>6, <1>7, <1>8, <1>9, <2>1, <2>2 DEF Ours
<1>14. Deep(e) = D + f.size + Code(w) /\ f.size + Code(w) <= MostPushed(os, e.ss.seg)
  BY <1>2, <1>3, <1>4, <1>6, <1>9, <1>11
<1>15. Spares(frames, p.frames, e.ss, D)
  BY <1>6, <1>9
<1>16. IsProgram(e) /\ Serves(e, w)
  OBVIOUS
<1> HIDE DEF c, e, p, f, z
<1>17. Nested(e, <<w>> \o waits, p.frames)
  BY <1>1, <1>4, <1>6, <1>10, <1>12, <1>13, <1>14, <1>15, <1>16, PushNested
<1> QED BY <1>17 DEF e, p

-----------------------------------------------------------------------------
(* call_isr. *)

LEMMA FitIs ==
  ASSUME Ample, os \in Systems
  PROVE  /\ Fit
         /\ Modulus(Para) = R /\ \A s : ~os.wide => Modulus(s) = R
         /\ (os.real => ~os.wide) /\ (os.vm => os.wide) /\ os.wide \in BOOLEAN
<1>1. Numbers /\ Plain(os)
  BY DEF Ample
<1> QED BY <1>1 DEF Fit, Plain, Modulus, Para, Sel

\* What a transfer takes there is room for.
LEMMA TakenFits ==
  ASSUME Fit, NEW seg, NEW n \in Nat \ {0}, NEW wide \in BOOLEAN, wide => os.wide,
         NEW code \in BOOLEAN,
         LET k == IF code THEN n + 1 ELSE n IN k <= PushWords(os, seg)
  PROVE  Taken(n, wide, code) <= MostPushed(os, seg)
<1> DEFINE k == IF code THEN n + 1 ELSE n
           q == PushWords(os, seg)
<1>1. q \in Nat /\ k \in Nat /\ k <= q
  BY MostNat
<1>2. Taken(n, wide, code) = IF wide THEN 2 * k ELSE k
  BY DEF Taken, Size, Units
<1>3. MostPushed(os, seg) = IF os.wide THEN q * 2 ELSE q
  <2> q * 1 = q
    BY <1>1
  <2> QED BY DEF MostPushed, Units
<1> HIDE DEF k, q
<1>4. os.wide \in BOOLEAN
  BY DEF Fit, Plain
<1> QED BY <1>1, <1>2, <1>3, <1>4

LEMMA EnteredIs ==
  ASSUME NEW c, IsCpu(c), NEW s, NEW t
  PROVE  LET r == Entered(c, s, t) IN
         /\ r.cs = s /\ r.ip = 0 /\ r.ss = c.ss /\ r.esp = c.esp /\ r.ds = c.ds
         /\ r.ifl = (c.ifl /\ t) /\ r.vm = c.vm /\ r.iopl = c.iopl
<1> DEFINE l == IF os.real THEN 0 ELSE IF c.vm THEN 3 ELSE s.rpl
           g == [c EXCEPT !.cs = s]
           e == [g EXCEPT !.cpl = l]
           i == 0
           d == [e EXCEPT !.ip = i]
           a == Arith(d)
           h == <<>>
           k == [d EXCEPT !.arith = a]
           m == [k EXCEPT !.lazy = h]
           b == m.ifl /\ t
           r == [m EXCEPT !.ifl = b]
<1>0. e = LoadCs(c, s)
  BY DEF LoadCs
<1>1. Entered(c, s, t) = r
  <2>1. [LoadCs(c, s) EXCEPT !.ip = 0] = d
    BY <1>0
  <2> HIDE DEF d
  <2>2. Refreshed(d) = m
    BY DEF Refreshed
  <2> HIDE DEF m
  <2>3. Flags(m, t) = r
    BY DEF Flags
  <2> HIDE DEF r
  <2> QED BY <2>1, <2>2, <2>3 DEF Entered
<1> HIDE DEF l
<1>2. IsCpu(g) /\ SameBut(c, g, "cs") /\ g.cs = s
  BY CsSet
<1> HIDE DEF g
<1>3. IsCpu(e) /\ SameBut(g, e, "cpl")
  BY <1>2, CplSet
<1> HIDE DEF e, i
<1>4. IsCpu(d) /\ SameBut(e, d, "ip") /\ d.ip = i
  BY <1>3, IpSet
<1> HIDE DEF d, a, h
<1>5. IsCpu(k) /\ SameBut(d, k, "arith")
  BY <1>4, ArithSet
<1> HIDE DEF k
<1>6. IsCpu(m) /\ SameBut(k, m, "lazy")
  BY <1>5, LazySet
<1> HIDE DEF m, b
<1>7. IsCpu(r) /\ SameBut(m, r, "ifl") /\ r.ifl = b
  BY <1>6, IflSet
<1> HIDE DEF r
<1>8. m.ifl = c.ifl
  BY <1>2, <1>3, <1>4, <1>5, <1>6 DEF SameBut
<1>9. b = (c.ifl /\ t)
  BY <1>8 DEF b
<1> QED BY <1>1, <1>2, <1>3, <1>4, <1>5, <1>6, <1>7, <1>9 DEF SameBut, i

Stack0 == Sel("stack0", 0)
Stack3 == Sel("stack3", 3)

LEMMA StackNames ==
  /\ Stack0.seg = "stack0" /\ Stack3.seg = "stack3" /\ Para.seg = "para"
  /\ Stack0.rpl = 0 /\ Stack3.rpl = 3
  BY DEF Stack0, Stack3, Para, Sel

\* Registers that agree, on the stack of their level, are those of a program.
LEMMA ProgramIs ==
  ASSUME Fit, NEW d, Good(d), d.esp \in Int, d.iopl = os.iopl, d.ifl \in BOOLEAN,
         d.vm => os.vm, d.vm \/ os.real => d.ss = Para /\ d.cs = Para,
         ~d.vm /\ ~os.real => d.ss \in {Stack0, Stack3} /\ (d.ss.rpl = 3 => d.ifl)
  PROVE  IsProgram(Context(d))
<1> DEFINE x == Context(d)
<1>1. /\ x.cs = d.cs /\ x.ss = d.ss /\ x.sp = d.esp % Modulus(d.ss)
      /\ x.ds = d.ds /\ x.ifl = d.ifl /\ x.vm = d.vm /\ x.iopl = d.iopl
  BY ContextIs
<1>0. IsContext(x)
  BY ContextIs DEF IsContext
<1> HIDE DEF x
<1>2. x.sp \in 0 .. Modulus(x.ss) - 1
  <2> Modulus(d.ss) \in Nat \ {0}
    BY Stacks
  <2> QED BY <1>1, Remainder
<1>3. ~d.vm /\ ~os.real => d.cs.rpl = d.ss.rpl /\ (d.ds # Null => Dpl(d.ds) >= d.cs.rpl)
  BY DEF Good, StackOf
<1>4. d.vm \in BOOLEAN
  BY DEF Good
<1>5. IsProgram(x)
  BY <1>0, <1>1, <1>2, <1>3, <1>4 DEF IsProgram, Stack0, Stack3
<1> QED BY <1>5 DEF x

TInv == XInv /\ cpu.esp \in Int /\ cpu.ip \in Int /\ Nested(Context(cpu), waits, frames)

\* The program that runs, here or past its instruction.
IsHere(c) ==
    /\ IsCpu(c) /\ Good(c) /\ c.ip \in Int /\ c.esp \in Int /\ c.esp = cpu.esp
    /\ IsProgram(Context(c)) /\ Akin(Context(cpu), Context(c))
    /\ c.cs = cpu.cs /\ c.ss = cpu.ss /\ c.ds = cpu.ds /\ c.cpl = cpu.cpl /\ c.ifl = cpu.ifl
    /\ c.vm = cpu.vm /\ c.iopl = cpu.iopl
    /\ c.iopl = os.iopl /\ c.ifl \in BOOLEAN /\ (c.vm => os.vm)
    /\ c.vm \/ os.real => c.ss = Para /\ c.cs = Para
    /\ ~c.vm /\ ~os.real => c.ss \in {Stack0, Stack3} /\ (c.ss.rpl = 3 => c.ifl)
                            /\ c.cpl = c.ss.rpl

LEMMA Here ==
  ASSUME Ample, TInv
  PROVE  IsHere(cpu) /\ IsHere(Past(cpu))
<1> DEFINE x == Context(cpu)
<1>1. Fit /\ os \in Systems
  BY FitIs DEF TInv, XInv
<1>2. IsProgram(x)
  BY NestedTop DEF TInv
<1>3. /\ x.cs = cpu.cs /\ x.ss = cpu.ss /\ x.sp = cpu.esp % Modulus(cpu.ss)
      /\ x.ds = cpu.ds /\ x.ifl = cpu.ifl /\ x.vm = cpu.vm /\ x.iopl = cpu.iopl
  BY ContextIs
<1>4. IsCpu(cpu) /\ Good(cpu) /\ cpu.esp \in Int /\ cpu.ip \in Int
  BY DEF TInv, XInv, Good
<1> HIDE DEF x
<1>5. IsHere(cpu)
  <2>1. ~cpu.vm /\ ~os.real => cpu.cpl = cpu.ss.rpl
    BY <1>4 DEF Good, StackOf
  <2> QED BY <1>2, <1>3, <1>4, <2>1 DEF IsHere, IsProgram, Akin, x, Stack0, Stack3
<1>6. IsHere(Past(cpu))
  <2> DEFINE i == Ip(cpu) + 1
             d == [cpu EXCEPT !.ip = i]
  <2>1. Past(cpu) = d
    BY DEF Past
  <2>2. i \in Int
    <3>1. Modulus(cpu.cs) \in Nat \ {0}
      BY <1>1, Stacks
    <3>2. cpu.ip % Modulus(cpu.cs) \in 0 .. Modulus(cpu.cs) - 1
      BY <1>4, <3>1, Remainder
    <3>3. Ip(cpu) \in Int
      BY <3>1, <3>2 DEF Ip
    <3> QED BY <3>3
  <2> HIDE DEF i
  <2>3. IsCpu(d) /\ SameBut(cpu, d, "ip") /\ d.ip = i
    BY <1>4, IpSet
  <2> HIDE DEF d
  <2>4. /\ d.cs = cpu.cs /\ d.ss = cpu.ss /\ d.ds = cpu.ds /\ d.cpl = cpu.cpl /\ d.ifl = cpu.ifl
        /\ d.vm = cpu.vm /\ d.iopl = cpu.iopl /\ d.esp = cpu.esp
    BY <2>3 DEF SameBut
  <2>5. Good(d)
    BY <1>4, <2>3, <2>4, AlikeGood DEF Alike
  <2>6. Akin(x, Context(d))
    <3> Context(d).ss = d.ss /\ Context(d).sp = d.esp % Modulus(d.ss) /\ Context(d).vm = d.vm
      BY ContextIs
    <3> QED BY <1>3, <2>4 DEF Akin
  <2>7. IsProgram(Context(d))
    BY <1>1, <1>4, <1>5, <2>4, <2>5, ProgramIs DEF IsHere
  <2>8. IsHere(d)
    BY <1>4, <1>5, <2>2, <2>3, <2>4, <2>5, <2>6, <2>7 DEF IsHere, x
  <2> QED BY <2>1, <2>8
<1> QED BY <1>5, <1>6

\* What a transfer from here leaves in the stack pointer.
LEMMA PushDone ==
  ASSUME Ample, TInv, Len(waits) < DEPTH,
         NEW s, IsCpu(s), NEW D, Onto(s, D),
         NEW how, NEW wide \in BOOLEAN, NEW n \in Nat \ {0}, NEW of, NEW code \in BOOLEAN,
         Taken(n, wide, code) <= MostPushed(os, s.ss.seg)
  PROVE  LET p == Pushed(s, how, wide, n, of, code) IN
         /\ D \in Nat /\ p.exc = "none"
         /\ IsCpu(p.cpu) /\ SameBut(s, p.cpu, "esp") /\ p.cpu.esp \in Int
         /\ p.cpu.esp % Modulus(s.ss) = Spot(s.ss, D + Taken(n, wide, code))
<1> DEFINE p == Pushed(s, how, wide, n, of, code)
           T == Taken(n, wide, code)
<1>1. Fit /\ Nested(Context(cpu), waits, frames) /\ cpu.esp \in Int /\ Apart(frames)
  BY FitIs, NestedTop DEF TInv, XInv
<1>2. T \in Nat
  BY SizeNat
<1> HIDE DEF T
<1>3. s.esp \in Int /\ D \in Nat /\ s.esp % Modulus(s.ss) = Spot(s.ss, D) /\ D + T < Modulus(s.ss)
  BY <1>1, <1>2, PushFits DEF T
<1>4. /\ p.exc = "none"
      /\ IsCpu(p.cpu) /\ SameBut(s, p.cpu, "esp") /\ p.cpu.esp \in Int
      /\ p.cpu.esp % Modulus(s.ss) = Spot(s.ss, D + T)
  BY <1>1, <1>3, PushedIs DEF T
<1> QED BY <1>3, <1>4 DEF T

\* r goes on where w waits
Taking(r, w) ==
    r.cpu.esp \in Int /\ r.cpu.ip \in Int /\ Nested(Context(r.cpu), <<w>> \o waits, r.frames)

LEMMA RealTakes ==
  ASSUME Ample, TInv, os.real, Len(waits) < DEPTH, NEW of, IsHere(of), GoodOutcome(RealIsr(of)),
         NEW w, w = [ctx |-> Context(of), how |-> "int", wide |-> os.wide, code |-> FALSE]
  PROVE  Taking(RealIsr(of), w)
<1> DEFINE no == FALSE
           p == Pushed(of, "int", no, 3, of, no)
           m == p.cpu.esp % R
           d == [p.cpu EXCEPT !.esp = m]
           r == Entered(d, Para, no)
           D == Deep(Context(cpu))
           T == Taken(3, no, no)
<1>0. no \in BOOLEAN /\ ~no
  OBVIOUS
<1>4. RealIsr(of) = Moves(r, p.frames)
  BY DEF RealIsr
<1> HIDE DEF no
<1>1. /\ Fit /\ Modulus(Para) = R /\ (os.real => ~os.wide) /\ os.wide \in BOOLEAN
      /\ R \in Nat \ {0}
  BY FitIs DEF TInv, XInv, Fit, Numbers
<1>2. /\ Nested(Context(cpu), waits, frames) /\ IsCpu(of) /\ Onto(of, D) /\ of.ss = Para
      /\ ~of.vm /\ of.cs = Para
  BY DEF TInv, IsHere, Onto, Good
<1>3. T <= MostPushed(os, of.ss.seg)
  <2> PushWords(os, Para.seg) = 3
    BY StackNames DEF PushWords
  <2> QED BY <1>0, <1>1, <1>2, TakenFits
<1>5. /\ D \in Nat /\ IsCpu(p.cpu) /\ SameBut(of, p.cpu, "esp") /\ p.cpu.esp \in Int
      /\ p.cpu.esp % Modulus(of.ss) = Spot(of.ss, D + T)
  BY <1>0, <1>2, <1>3, PushDone
<1>6. m \in Int /\ m % R = p.cpu.esp % R
  <2>1. p.cpu.esp % R \in 0 .. R - 1 /\ (p.cpu.esp % R) % R = p.cpu.esp % R
    BY <1>1, <1>5, Remainder, CutFirst
  <2> QED BY <1>1, <2>1
<1> HIDE DEF m, D
<1>7. IsCpu(d) /\ SameBut(p.cpu, d, "esp") /\ d.esp = m
  BY <1>5, EspSet
<1> HIDE DEF d
<1>8. /\ r.cs = Para /\ r.ip = 0 /\ r.ss = d.ss /\ r.esp = d.esp /\ r.ifl = (d.ifl /\ no)
      /\ r.vm = d.vm /\ r.iopl = d.iopl
  BY <1>7, EnteredIs
<1>9. Good(r)
  BY <1>4 DEF GoodOutcome, Moves
<1> HIDE DEF r
<1>10. r.ss = Para /\ r.vm = of.vm /\ r.iopl = of.iopl /\ r.esp = m
  BY <1>2, <1>5, <1>7, <1>8 DEF SameBut
<1>11. r.ifl \in BOOLEAN
  BY <1>0, <1>8
<1>12. IsProgram(Context(r))
  BY <1>1, <1>2, <1>6, <1>8, <1>9, <1>10, <1>11, ProgramIs DEF IsHere
<1>13. Serves(Context(r), w)
  <2>1. Context(r).vm = r.vm /\ w.how = "int" /\ w.code = FALSE
        /\ w = [ctx |-> w.ctx, how |-> w.how, wide |-> w.wide, code |-> w.code]
    BY ContextIs
  <2> HIDE DEF p
  <2> QED BY <1>2, <1>10, <2>1 DEF Serves
<1>14. Nested(Context(r), <<w>> \o waits, p.frames)
  <2>1. r.esp % Modulus(of.ss) = Spot(of.ss, D + T)
    BY <1>1, <1>2, <1>5, <1>6, <1>10
  <2>2. of.ip \in Int /\ of.esp \in Int /\ IsProgram(Context(of)) /\ Akin(Context(cpu), Context(of))
        /\ of.ifl = cpu.ifl /\ cpu.esp \in Int
    BY DEF IsHere, TInv
  <2>3. w = [ctx |-> Context(of), how |-> "int", wide |-> no, code |-> no]
    BY <1>1 DEF no
  <2>5. /\ Modulus(of.cs) = R /\ Modulus(of.ss) = R /\ r.ss = of.ss /\ 3 \in Nat \ {0}
        /\ Taken(3, no, no) <= MostPushed(os, of.ss.seg) /\ (no => no = os.wide)
        /\ r.esp % Modulus(of.ss) = Spot(of.ss, D + Taken(3, no, no))
    BY <1>0, <1>1, <1>2, <1>3, <1>10, <2>1
  <2> HIDE DEF p, T
  <2>4. Nested(Context(r), <<w>> \o waits, Pushed(of, "int", no, 3, of, no).frames)
    BY <1>0, <1>1, <1>2, <1>12, <1>13, <2>2, <2>3, <2>5, Enters
  <2> QED BY <2>4 DEF p
<1> QED BY <1>4, <1>6, <1>8, <1>10, <1>14 DEF Taking, Moves

\* A handler of the system entered in protected mode.
LEMMA HandlerTakes ==
  ASSUME Ample, TInv, ~os.real, Len(waits) < DEPTH, NEW of, IsHere(of),
         NEW s, IsCpu(s), NEW D, Onto(s, D), s.ss \in {Stack0, Stack3}, of.vm => s.ss = Stack0,
         NEW n \in Nat \ {0}, NEW code \in BOOLEAN,
         (IF code THEN n + 1 ELSE n) <= PushWords(os, s.ss.seg),
         NEW d, Good(d), ~d.vm, d.ip \in Int, d.esp \in Int, d.ss = s.ss, d.iopl = os.iopl,
         d.ifl \in BOOLEAN, d.ss.rpl = 3 => d.ifl,
         d.esp % Modulus(s.ss) = Spot(s.ss, D + Taken(n, os.wide, code)),
         NEW w, w = [ctx |-> Context(of), how |-> "int", wide |-> os.wide, code |-> code]
  PROVE  Taking(Moves(d, Pushed(s, "int", os.wide, n, of, code).frames), w)
<1>1. Fit /\ os.wide \in BOOLEAN /\ \A t : ~os.wide => Modulus(t) = R
  BY FitIs DEF TInv, XInv
<1>2. Nested(Context(cpu), waits, frames) /\ cpu.esp \in Int
  BY DEF TInv
<1>3. /\ of.ip \in Int /\ of.esp \in Int /\ IsProgram(Context(of)) /\ Akin(Context(cpu), Context(of))
      /\ of.ifl = cpu.ifl
  BY DEF IsHere
<1>4. Taken(n, os.wide, code) <= MostPushed(os, s.ss.seg)
  BY <1>1, TakenFits
<1>5. IsProgram(Context(d))
  BY <1>1, ProgramIs
<1>6. Serves(Context(d), w)
  <2>1. Context(d).vm = d.vm /\ Context(d).ss = d.ss /\ Context(of).vm = of.vm
    BY ContextIs
  <2>2. /\ w = [ctx |-> w.ctx, how |-> w.how, wide |-> w.wide, code |-> w.code]
        /\ w.how = "int" /\ w.code = code /\ w.ctx = Context(of)
    OBVIOUS
  <2>3. of.vm => d.ss.seg = "stack0"
    BY StackNames
  <2> QED BY <2>1, <2>2, <2>3 DEF Serves
<1> DEFINE z == os.wide
           p == Pushed(s, "int", z, n, of, code)
<1>7. /\ z \in BOOLEAN /\ (code => z = os.wide) /\ (z \/ Modulus(of.cs) = R)
      /\ z \/ "int" = "far" \/ Modulus(of.ss) = R
  BY <1>1
<1>8. /\ Taken(n, z, code) <= MostPushed(os, s.ss.seg)
      /\ d.esp % Modulus(s.ss) = Spot(s.ss, D + Taken(n, z, code))
      /\ w = [ctx |-> Context(of), how |-> "int", wide |-> z, code |-> code]
  BY <1>4
<1> HIDE DEF z
<1>9. Nested(Context(d), <<w>> \o waits, p.frames)
  BY <1>1, <1>2, <1>3, <1>5, <1>6, <1>7, <1>8, Enters
<1> QED BY <1>9 DEF Taking, Moves, z

LEMMA SameTakes ==
  ASSUME Ample, TInv, ~os.real, Len(waits) < DEPTH, NEW of, IsHere(of), ~of.vm,
         NEW v, NEW code \in BOOLEAN, of.ss.rpl = 3 => Idt[v].trap /\ ~code,
         GoodOutcome(SameIsr(of, v, code)),
         NEW w, w = [ctx |-> Context(of), how |-> "int", wide |-> os.wide, code |-> code]
  PROVE  Taking(SameIsr(of, v, code), w)
<1> DEFINE z == os.wide
           p == Pushed(of, "int", z, 3, of, code)
           s == Sel(Idt[v].cs, of.cpl)
           t == Idt[v].trap
           r == Entered(p.cpu, s, t)
           D == Deep(Context(cpu))
<1>1. SameIsr(of, v, code) = Moves(r, p.frames)
  BY DEF SameIsr
<1>2. /\ IsCpu(of) /\ Onto(of, D) /\ of.ss \in {Stack0, Stack3} /\ of.iopl = os.iopl
      /\ of.ifl \in BOOLEAN /\ (of.ss.rpl = 3 => of.ifl)
  BY DEF IsHere, Onto
<1>3. Fit /\ z \in BOOLEAN
  BY FitIs DEF TInv, XInv
<1>4. (IF code THEN 3 + 1 ELSE 3) <= PushWords(os, of.ss.seg)
  <2>1. PARAMS \in Nat
    BY <1>3 DEF Fit, Numbers
  <2>2. CASE of.ss = Stack0
    <3> of.ss.seg = "stack0"
      BY <2>2, StackNames
    <3> QED BY <2>1 DEF PushWords
  <2>3. CASE of.ss = Stack3
    <3> of.ss.seg # "stack0" /\ ~code
      BY <2>3, StackNames
    <3> QED BY DEF PushWords
  <2> QED BY <1>2, <2>2, <2>3
<1>5. Taken(3, z, code) <= MostPushed(os, of.ss.seg)
  BY <1>3, <1>4, TakenFits
<1> HIDE DEF z
<1>6. /\ D \in Nat /\ IsCpu(p.cpu) /\ SameBut(of, p.cpu, "esp") /\ p.cpu.esp \in Int
      /\ p.cpu.esp % Modulus(of.ss) = Spot(of.ss, D + Taken(3, z, code))
  BY <1>2, <1>3, <1>5, PushDone
<1> HIDE DEF p, D, s, t
<1>7. /\ r.ip = 0 /\ r.ss = p.cpu.ss /\ r.esp = p.cpu.esp /\ r.ifl = (p.cpu.ifl /\ t)
      /\ r.vm = p.cpu.vm /\ r.iopl = p.cpu.iopl
  BY <1>6, EnteredIs
<1>8. Good(r)
  BY <1>1 DEF GoodOutcome, Moves
<1> HIDE DEF r
<1>9. r.ss = of.ss /\ r.vm = of.vm /\ r.iopl = of.iopl /\ r.ifl = (of.ifl /\ t)
  BY <1>6, <1>7 DEF SameBut
<1>10. r.ifl \in BOOLEAN /\ (r.ss.rpl = 3 => r.ifl)
  BY <1>2, <1>9 DEF t
<1>11. Taking(Moves(r, Pushed(of, "int", os.wide, 3, of, code).frames), w)
  <2>1. r.esp % Modulus(of.ss) = Spot(of.ss, D + Taken(3, os.wide, code))
    BY <1>6, <1>7 DEF z
  <2>2. /\ r.ip \in Int /\ r.esp \in Int /\ ~r.vm /\ r.iopl = os.iopl /\ 3 \in Nat \ {0}
        /\ (of.vm => of.ss = Stack0)
    BY <1>2, <1>6, <1>7, <1>9
  <2> QED BY <1>2, <1>4, <1>8, <1>9, <1>10, <2>1, <2>2, HandlerTakes
<1> QED BY <1>1, <1>11 DEF p, z

LEMMA InnerStackIs ==
  ASSUME NEW c, IsCpu(c)
  PROVE  LET d == InnerStack(c, 0) IN
         /\ IsCpu(d) /\ d.ss = Stack0 /\ d.esp = os.top
         /\ d.cs = c.cs /\ d.ip = c.ip /\ d.ds = c.ds /\ d.cpl = c.cpl /\ d.ifl = c.ifl
         /\ d.vm = c.vm /\ d.iopl = c.iopl
<1> DEFINE s == Stack0
           t == os.top
           e == [c EXCEPT !.ss = s]
           d == [e EXCEPT !.esp = t]
<1>1. InnerStack(c, 0) = d
  BY DEF InnerStack, Stack0
<1> HIDE DEF s, t
<1>2. IsCpu(e) /\ SameBut(c, e, "ss") /\ e.ss = s
  BY SsSet
<1> HIDE DEF e
<1>3. IsCpu(d) /\ SameBut(e, d, "esp") /\ d.esp = t
  BY <1>2, EspSet
<1> HIDE DEF d
<1> QED BY <1>1, <1>2, <1>3 DEF SameBut, s, t

\* The inner stack is empty where it is gone to.
LEMMA InnerOnto ==
  ASSUME ~os.real, NEW of, IsHere(of), of.cpl = 3, NEW s, s.ss = Stack0, s.esp = os.top
  PROVE  Onto(s, 0)
<1>1. cpu.ss = Para \/ cpu.ss = Stack3
  <2> of.vm \in BOOLEAN
    BY DEF IsHere, Good
  <2> QED BY StackNames DEF IsHere
<1> QED BY <1>1, StackNames DEF Onto, Stack0

LEMMA InnerTakes ==
  ASSUME Ample, TInv, ~os.real, Len(waits) < DEPTH, NEW of, IsHere(of), ~of.vm, of.cpl = 3,
         NEW v, NEW code \in BOOLEAN, Gdt[Idt[v].cs].dpl = 0,
         GoodOutcome(InnerIsr(of, v, code)),
         NEW w, w = [ctx |-> Context(of), how |-> "int", wide |-> os.wide, code |-> code]
  PROVE  Taking(InnerIsr(of, v, code), w)
<1> DEFINE z == os.wide
           i == InnerStack(of, 0)
           p == Pushed(i, "int", z, 5, of, code)
           n == IF code THEN 6 ELSE 5
           m == IF z THEN (os.top - 2 * n) % (R * R) ELSE p.cpu.esp
           d == [p.cpu EXCEPT !.esp = m]
           s == Sel(Idt[v].cs, 0)
           t == Idt[v].trap
           r == Entered(d, s, t)
           T == Taken(5, z, code)
<1>1. InnerIsr(of, v, code) = Moves(r, p.frames)
  BY DEF InnerIsr
<1>2. IsCpu(of) /\ of.iopl = os.iopl /\ of.ifl \in BOOLEAN
  BY DEF IsHere
<1>3. /\ Fit /\ z \in BOOLEAN /\ R \in Nat \ {0} /\ PARAMS \in Nat /\ os.top \in Int
  BY FitIs DEF TInv, XInv, Fit, Numbers, Plain
<1>4. /\ IsCpu(i) /\ i.ss = Stack0 /\ i.esp = os.top /\ i.ifl = of.ifl /\ i.vm = of.vm
      /\ i.iopl = of.iopl
  BY <1>2, InnerStackIs
<1> HIDE DEF i
<1>5. Onto(i, 0)
  BY <1>4, InnerOnto
<1>6. (IF code THEN 5 + 1 ELSE 5) <= PushWords(os, i.ss.seg)
  BY <1>3, <1>4, StackNames DEF PushWords
<1>7. T <= MostPushed(os, i.ss.seg)
  BY <1>3, <1>6, TakenFits
<1> HIDE DEF z
<1>8. /\ IsCpu(p.cpu) /\ SameBut(i, p.cpu, "esp") /\ p.cpu.esp \in Int
      /\ p.cpu.esp % Modulus(i.ss) = Spot(i.ss, 0 + T)
  BY <1>3, <1>4, <1>5, <1>7, PushDone
<1>9. m \in Int /\ m % Modulus(i.ss) = Spot(i.ss, 0 + T)
  <2>1. CASE ~z
    BY <1>8, <2>1
  <2>2. CASE z
    <3> DEFINE k == os.top - 2 * n
               q == Modulus(i.ss)
    <3>1. T = 2 * n /\ n \in Nat
      BY <2>2 DEF Taken, Size, Units
    <3>2. k \in Int
      BY <1>3, <3>1
    <3>3. R * R \in Nat \ {0}
      BY <1>3, Z3
    <3>4. q = R \/ q = R * R
      BY DEF Modulus
    <3>5. Spot(i.ss, 0 + T) = k % q
      <4> Base(i.ss) = os.top
        BY <1>4, StackNames DEF Base
      <4> os.top - (0 + T) = k
        BY <1>3, <3>1
      <4> QED BY DEF Spot
    <3> HIDE DEF k, q
    <3>6. k % (R * R) \in Int /\ (k % (R * R)) % R = k % R /\ (k % (R * R)) % (R * R) = k % (R * R)
      <4>1. k % (R * R) \in 0 .. (R * R) - 1
        BY <3>2, <3>3, Remainder
      <4>2. (k % (R * R)) % R = k % R
        BY <1>3, <3>2, CutTwice
      <4>3. (k % (R * R)) % (R * R) = k % (R * R)
        BY <3>2, <3>3, CutFirst
      <4> QED BY <3>3, <4>1, <4>2, <4>3
    <3>7. m = k % (R * R)
      BY <2>2 DEF k
    <3> QED BY <3>4, <3>5, <3>6, <3>7 DEF q
  <2> QED BY <1>3, <2>1, <2>2
<1> HIDE DEF p, m, s, t
<1>10. IsCpu(d) /\ SameBut(p.cpu, d, "esp") /\ d.esp = m
  BY <1>8, EspSet
<1> HIDE DEF d
<1>11. /\ r.ip = 0 /\ r.ss = d.ss /\ r.esp = d.esp /\ r.ifl = (d.ifl /\ t)
       /\ r.vm = d.vm /\ r.iopl = d.iopl
  BY <1>10, EnteredIs
<1>12. Good(r)
  BY <1>1 DEF GoodOutcome, Moves
<1> HIDE DEF r
<1>13. r.ss = Stack0 /\ r.vm = of.vm /\ r.iopl = of.iopl /\ r.ifl = (of.ifl /\ t) /\ r.esp = m
  BY <1>4, <1>8, <1>10, <1>11 DEF SameBut
<1>14. r.ifl \in BOOLEAN /\ r.ss.rpl # 3
  BY <1>2, <1>13, StackNames
<1>15. Taking(Moves(r, Pushed(i, "int", os.wide, 5, of, code).frames), w)
  <2>1. r.esp % Modulus(i.ss) = Spot(i.ss, 0 + Taken(5, os.wide, code))
    BY <1>9, <1>13 DEF z
  <2>2. /\ r.ip \in Int /\ r.esp \in Int /\ ~r.vm /\ r.iopl = os.iopl /\ 5 \in Nat \ {0}
        /\ i.ss = Stack0 /\ r.ss = i.ss
    BY <1>2, <1>4, <1>9, <1>11, <1>13
  <2> HIDE DEF T
  <2> QED BY <1>4, <1>5, <1>6, <1>12, <1>14, <2>1, <2>2, HandlerTakes
<1> QED BY <1>1, <1>15 DEF p, z

LEMMA VirtualTakes ==
  ASSUME Ample, TInv, ~os.real, Len(waits) < DEPTH, NEW of, IsHere(of), of.vm, of.cpl = 3,
         NEW v, NEW code \in BOOLEAN, GoodOutcome(VirtualIsr(of, v, code)),
         NEW w, w = [ctx |-> Context(of), how |-> "int", wide |-> os.wide, code |-> code]
  PROVE  Taking(VirtualIsr(of, v, code), w)
<1> DEFINE z == TRUE
           no == FALSE
           g == Null
           i == InnerStack(of, 0)
           o == [i EXCEPT !.vm = no]
           p == Pushed(o, "int", z, 9, of, code)
           d == [p.cpu EXCEPT !.ds = g]
           s == Sel(Idt[v].cs, 0)
           t == Idt[v].trap
           r == Entered(d, s, t)
           T == Taken(9, z, code)
<1>1. VirtualIsr(of, v, code) = Moves(r, p.frames)
  BY DEF VirtualIsr
<1>2. IsCpu(of) /\ of.iopl = os.iopl /\ of.ifl \in BOOLEAN /\ os.vm
  BY DEF IsHere
<1>3. Fit /\ os.wide = z /\ z \in BOOLEAN /\ PARAMS \in Nat /\ no = FALSE
  BY <1>2, FitIs DEF TInv, XInv, Fit, Numbers
<1> HIDE DEF z, no, g
<1>4. /\ IsCpu(i) /\ i.ss = Stack0 /\ i.esp = os.top /\ i.ifl = of.ifl /\ i.iopl = of.iopl
  BY <1>2, InnerStackIs
<1> HIDE DEF i
<1>5. IsCpu(o) /\ SameBut(i, o, "vm") /\ o.vm = no
  BY <1>4, VmSet
<1> HIDE DEF o
<1>6. o.ss = Stack0 /\ o.esp = os.top /\ o.ifl = of.ifl /\ o.iopl = of.iopl
  BY <1>4, <1>5 DEF SameBut
<1>7. Onto(o, 0)
  BY <1>6, InnerOnto
<1>8. (IF code THEN 9 + 1 ELSE 9) <= PushWords(os, o.ss.seg)
  BY <1>2, <1>3, <1>6, StackNames DEF PushWords
<1>9. T <= MostPushed(os, o.ss.seg)
  BY <1>3, <1>8, TakenFits
<1>10. /\ IsCpu(p.cpu) /\ SameBut(o, p.cpu, "esp") /\ p.cpu.esp \in Int
       /\ p.cpu.esp % Modulus(o.ss) = Spot(o.ss, 0 + T)
  BY <1>3, <1>5, <1>7, <1>9, PushDone
<1> HIDE DEF p, s, t
<1>11. IsCpu(d) /\ SameBut(p.cpu, d, "ds")
  BY <1>10, DsSet
<1> HIDE DEF d
<1>12. /\ r.ip = 0 /\ r.ss = d.ss /\ r.esp = d.esp /\ r.ifl = (d.ifl /\ t)
       /\ r.vm = d.vm /\ r.iopl = d.iopl
  BY <1>11, EnteredIs
<1>13. Good(r)
  BY <1>1 DEF GoodOutcome, Moves
<1> HIDE DEF r
<1>14. /\ r.ss = Stack0 /\ ~r.vm /\ r.iopl = of.iopl /\ r.ifl = (of.ifl /\ t)
       /\ r.esp = p.cpu.esp
  BY <1>3, <1>5, <1>6, <1>10, <1>11, <1>12 DEF SameBut
<1>15. r.ifl \in BOOLEAN /\ r.ss.rpl # 3
  BY <1>2, <1>14, StackNames
<1>16. Taking(Moves(r, Pushed(o, "int", os.wide, 9, of, code).frames), w)
  <2>1. r.esp % Modulus(o.ss) = Spot(o.ss, 0 + Taken(9, os.wide, code))
    BY <1>3, <1>10, <1>14
  <2>2. /\ r.ip \in Int /\ r.esp \in Int /\ ~r.vm /\ r.iopl = os.iopl /\ 9 \in Nat \ {0}
        /\ o.ss = Stack0 /\ r.ss = o.ss
    BY <1>2, <1>6, <1>10, <1>12, <1>14
  <2> HIDE DEF T
  <2> QED BY <1>5, <1>7, <1>8, <1>13, <1>15, <2>1, <2>2, HandlerTakes
<1> QED BY <1>1, <1>3, <1>16 DEF p

\* call_isr, where it does not refuse.
LEMMA IsrTakes ==
  ASSUME Ample, GuestSystem, TInv, Len(waits) < DEPTH, NEW of, IsHere(of),
         NEW v \in DOMAIN Idt, v \in FaultVectors \/ v \in Called,
         NEW code \in BOOLEAN, code => v \in FaultVectors, NEW ext \in BOOLEAN,
         CallIsr(of, v, code, ext).exc = "none",
         NEW kept, kept = (code /\ ~os.real),
         NEW w, w = [ctx |-> Context(of), how |-> "int", wide |-> os.wide, code |-> kept]
  PROVE  Taking(CallIsr(of, v, code, ext), w)
<1> DEFINE r == CallIsr(of, v, code, ext)
           s == Gdt[Idt[v].cs]
<1>1. /\ Idt[v].cs \in DOMAIN Gdt /\ s.dpl \in Levels /\ s.conforming \in BOOLEAN
      /\ of.cpl \in Levels /\ of.vm \in BOOLEAN /\ Good(of)
  BY DEF GuestSystem, Segments, Vectors, Good, IsHere
<1>2. GoodOutcome(r)
  BY <1>1, IsrGood DEF TInv, XInv
<1>3. CASE os.real
  <2> r = RealIsr(of)
    BY <1>3 DEF CallIsr
  <2> w = [ctx |-> Context(of), how |-> "int", wide |-> os.wide, code |-> FALSE]
    <3> kept = FALSE
      BY <1>3
    <3> QED OBVIOUS
  <2> QED BY <1>2, <1>3, RealTakes
<1>4. CASE ~os.real
  <2>0. w = [ctx |-> Context(of), how |-> "int", wide |-> os.wide, code |-> code]
    <3> kept = code
      BY <1>4
    <3> QED OBVIOUS
  <2>1. /\ ~(s.dpl > of.cpl) /\ r = IF ~s.conforming /\ s.dpl < of.cpl
                                    THEN IF of.vm THEN VirtualIsr(of, v, code)
                                         ELSE InnerIsr(of, v, code)
                                    ELSE SameIsr(of, v, code)
        /\ ~(~s.conforming /\ s.dpl < of.cpl) => ~of.vm
    <3> \A x : Fails(x).exc = x
      BY DEF Fails
    <3> r.exc \notin {"gp", "np"}
      OBVIOUS
    <3> QED BY <1>4 DEF CallIsr, Fails
  <2>2. CASE ~s.conforming /\ s.dpl < of.cpl
    <3>1. s.dpl = 0 /\ of.cpl = 3
      BY <1>1, <2>2 DEF Levels
    <3>2. CASE of.vm
      <4> r = VirtualIsr(of, v, code)
        BY <2>1, <2>2, <3>2
      <4> QED BY <1>2, <1>4, <2>0, <3>1, <3>2, VirtualTakes
    <3>3. CASE ~of.vm
      <4> r = InnerIsr(of, v, code)
        BY <2>1, <2>2, <3>3
      <4> QED BY <1>2, <1>4, <2>0, <3>1, <3>3, InnerTakes
    <3> QED BY <3>2, <3>3
  <2>3. CASE ~(~s.conforming /\ s.dpl < of.cpl)
    <3>1. r = SameIsr(of, v, code) /\ ~of.vm
      BY <1>1, <2>1, <2>3
    <3>2. of.ss.rpl = 3 => Idt[v].trap /\ ~code
      <4> SUFFICES ASSUME of.ss.rpl = 3 PROVE Idt[v].trap /\ ~code
        OBVIOUS
      <4>1. of.cpl = 3
        BY <1>1, <1>4, <3>1 DEF IsHere
      <4>2. s.conforming \/ s.dpl = 3
        BY <1>1, <2>3, <4>1 DEF Levels
      <4>3. v \notin FaultVectors
        BY <4>2 DEF GuestSystem, Vectors
      <4> QED BY <4>2, <4>3 DEF Ample
    <3> QED BY <1>2, <1>4, <2>0, <3>1, <3>2, SameTakes
  <2> QED BY <2>2, <2>3
<1> QED BY <1>3, <1>4

-----------------------------------------------------------------------------
(* The steps keep what is needed to go on. *)

\* The invariant after a step, from the state it leaves.
LEMMA TLifted ==
  ASSUME XInv', os' = os, NEW c, cpu' = c, NEW gs, frames' = gs, NEW us, waits' = us,
         c.esp \in Int, c.ip \in Int, Nested(Context(c), us, gs)
  PROVE  TInv'
<1>1. \A d : Context(d)' = Context(d)
  BY DEF Context, Ip, Modulus
<1>2. \A d : IsProgram(d)' <=> IsProgram(d)
  BY DEF IsProgram, IsContext, Modulus
<1>3. \A d : Deep(d)' = Deep(d)
  BY DEF Deep, Base, Modulus
<1>4. \A d, n : Bounded(d, n)' <=> Bounded(d, n)
  BY <1>3 DEF Bounded
<1>5. \A w : Code(w)' = Code(w)
  BY DEF Code
<1>6. \A f, d, w : Ours(f, d, w)' <=> Ours(f, d, w)
  <2>1. \A f, s, d : Lies(f, s, d)' <=> Lies(f, s, d)
    BY DEF Lies, Spot, Base, Modulus
  <2>2. \A f, w : Tells(f, w)' <=> Tells(f, w)
    BY DEF Tells, Modulus
  <2> QED BY <1>3, <1>5, <2>1, <2>2 DEF Ours
<1>7. \A d, w : Serves(d, w)' <=> Serves(d, w)
  BY DEF Serves
<1>8. \A d, w, e : Outer(d, w, e)' <=> Outer(d, w, e)
  BY <1>3, <1>5 DEF Outer
<1>9. \A d, ws, fs : Nested(d, ws, fs)' <=> Nested(d, ws, fs)
  BY <1>2, <1>4, <1>6, <1>7, <1>8 DEF Nested
<1>10. Nested(Context(cpu), waits, frames)'
  BY <1>1, <1>9
<1> QED BY <1>10 DEF TInv

\* What the programs that wait are to find.
ToFind(w) == [ctx |-> w.ctx, call |-> w.how # "int"]
AllToFind(ws) == [i \in DOMAIN ws |-> ToFind(ws[i])]

LEMMA KnownSeq ==
  ASSUME NEW ws, \E S : ws \in Seq(S)
  PROVE  /\ \E T : AllToFind(ws) \in Seq(T)
         /\ Len(AllToFind(ws)) = Len(ws) /\ Len(ws) \in Nat
         /\ \A i \in 1 .. Len(ws) : AllToFind(ws)[i] = ToFind(ws[i])
<1>1. PICK S : ws \in Seq(S)
  OBVIOUS
<1>2. DOMAIN ws = 1 .. Len(ws) /\ Len(ws) \in Nat
  BY <1>1, LenProperties
<1> DEFINE T == {ToFind(ws[i]) : i \in 1 .. Len(ws)}
<1>3. AllToFind(ws) \in [1 .. Len(ws) -> T]
  BY <1>2 DEF AllToFind
<1> HIDE DEF T
<1>4. AllToFind(ws) \in Seq(T) /\ Len(AllToFind(ws)) = Len(ws)
  BY <1>2, <1>3, SeqDef, LenProperties
<1>5. \A i \in 1 .. Len(ws) : AllToFind(ws)[i] = ToFind(ws[i])
  BY <1>2 DEF AllToFind
<1> QED BY <1>2, <1>4, <1>5

LEMMA Equal ==
  ASSUME NEW s, NEW t, \E S : s \in Seq(S), \E T : t \in Seq(T), Len(s) = Len(t),
         \A i \in 1 .. Len(s) : s[i] = t[i]
  PROVE  s = t
<1>1. PICK S : s \in Seq(S)
  OBVIOUS
<1>2. PICK T : t \in Seq(T)
  OBVIOUS
<1>3. s \in Seq(S \cup T) /\ t \in Seq(S \cup T)
  BY <1>1, <1>2
<1> QED BY <1>3, SeqEqual

LEMMA KnownPush ==
  ASSUME NEW ws, \E S : ws \in Seq(S), NEW w
  PROVE  AllToFind(<<w>> \o ws) = <<ToFind(w)>> \o AllToFind(ws)
<1> DEFINE us == <<w>> \o ws
           ks == AllToFind(ws)
           k == ToFind(w)
           ls == <<k>> \o ks
<1>1. /\ \E S : us \in Seq(S)
      /\ Len(ws) \in Nat /\ Len(us) = Len(ws) + 1
      /\ us[1] = w /\ \A i \in 1 .. Len(ws) : us[i + 1] = ws[i]
  BY PushSeq
<1>2. /\ \E T : ks \in Seq(T)
      /\ Len(ks) = Len(ws)
      /\ \A i \in 1 .. Len(ws) : ks[i] = ToFind(ws[i])
  BY KnownSeq
<1> HIDE DEF k, ks, us
<1>3. /\ \E S : ls \in Seq(S)
      /\ Len(ls) = Len(ks) + 1
      /\ ls[1] = k /\ \A i \in 1 .. Len(ks) : ls[i + 1] = ks[i]
  BY <1>2, PushSeq
<1>4. /\ \E T : AllToFind(us) \in Seq(T)
      /\ Len(AllToFind(us)) = Len(us)
      /\ \A i \in 1 .. Len(us) : AllToFind(us)[i] = ToFind(us[i])
  BY <1>1, KnownSeq
<1> HIDE DEF ls
<1>5. ASSUME NEW i \in 1 .. Len(us)
      PROVE  AllToFind(us)[i] = ls[i]
  <2>1. CASE i = 1
    BY <1>1, <1>3, <1>4, <2>1 DEF k
  <2>2. CASE i # 1
    <3> i - 1 \in 1 .. Len(ws) /\ (i - 1) + 1 = i
      BY <1>1, <2>2
    <3> QED BY <1>1, <1>2, <1>3, <1>4
  <2> QED BY <2>1, <2>2
<1>6. AllToFind(us) = ls
  BY <1>1, <1>2, <1>3, <1>4, <1>5, Equal
<1> QED BY <1>6 DEF us, ls, ks, k

LEMMA KnownPop ==
  ASSUME NEW ws, \E S : ws \in Seq(S), ws # <<>>
  PROVE  /\ AllToFind(ws) # <<>> /\ AllToFind(Tail(ws)) = Tail(AllToFind(ws)) /\ Head(AllToFind(ws)) = ToFind(ws[1])
         /\ Head(ws) = ws[1]
<1> DEFINE us == Tail(ws)
           ks == AllToFind(ws)
           ls == Tail(ks)
<1>1. /\ \E S : us \in Seq(S)
      /\ Len(ws) \in Nat \ {0} /\ Len(us) = Len(ws) - 1 /\ Head(ws) = ws[1]
      /\ \A i \in 1 .. Len(us) : us[i] = ws[i + 1]
  BY PopSeq
<1>2. /\ \E T : ks \in Seq(T)
      /\ Len(ks) = Len(ws)
      /\ \A i \in 1 .. Len(ws) : ks[i] = ToFind(ws[i])
  BY KnownSeq
<1> HIDE DEF ks, us
<1>3. ks # <<>>
  <2> Len(<<>>) = 0
    OBVIOUS
  <2> QED BY <1>1, <1>2
<1>4. /\ \E S : ls \in Seq(S)
      /\ Len(ls) = Len(ks) - 1 /\ Head(ks) = ks[1]
      /\ \A i \in 1 .. Len(ls) : ls[i] = ks[i + 1]
  BY <1>2, <1>3, PopSeq
<1>5. /\ \E T : AllToFind(us) \in Seq(T)
      /\ Len(AllToFind(us)) = Len(us)
      /\ \A i \in 1 .. Len(us) : AllToFind(us)[i] = ToFind(us[i])
  BY <1>1, KnownSeq
<1> HIDE DEF ls
<1>6. ASSUME NEW i \in 1 .. Len(us)
      PROVE  AllToFind(us)[i] = ls[i]
  <2> i + 1 \in 1 .. Len(ws) /\ i \in 1 .. Len(ls)
    BY <1>1, <1>2, <1>4
  <2> QED BY <1>1, <1>2, <1>4, <1>5
<1>7. AllToFind(us) = ls
  BY <1>1, <1>2, <1>4, <1>5, <1>6, Equal
<1>8. Head(ks) = ToFind(ws[1])
  <2> 1 \in 1 .. Len(ws)
    BY <1>1
  <2> QED BY <1>2, <1>4
<1> QED BY <1>1, <1>3, <1>7, <1>8 DEF us, ls, ks

LEMMA KnownDrop ==
  ASSUME NEW ws, \E S : ws \in Seq(S), ws # <<>>, NEW b,
         ws[1] = [ctx |-> ws[1].ctx, how |-> ws[1].how, wide |-> ws[1].wide, code |-> ws[1].code]
  PROVE  AllToFind([ws EXCEPT ![1].code = b]) = AllToFind(ws)
<1> DEFINE w == [ws[1] EXCEPT !.code = b]
           us == [ws EXCEPT ![1] = w]
<1>1. us = [ws EXCEPT ![1].code = b]
  OBVIOUS
<1>2. w.ctx = ws[1].ctx /\ w.how = ws[1].how
  OBVIOUS
<1>3. ToFind(w) = ToFind(ws[1])
  BY <1>2 DEF ToFind
<1> HIDE DEF w
<1>4. DOMAIN us = DOMAIN ws /\ \A i \in DOMAIN ws : us[i] = IF i = 1 THEN w ELSE ws[i]
  OBVIOUS
<1> HIDE DEF us
<1>5. \A i \in DOMAIN ws : ToFind(us[i]) = ToFind(ws[i])
  BY <1>3, <1>4
<1>6. AllToFind(us) = AllToFind(ws)
  BY <1>4, <1>5 DEF AllToFind
<1> QED BY <1>1, <1>6

\* How a step is one of Contexts.
LEMMA WorkDone == ASSUME AllToFind(waits)' = AllToFind(waits) PROVE Nest!Work
  BY DEF Nest!Work, AllToFind, ToFind

LEMMA EnterDone ==
  ASSUME \E S : waits \in Seq(S), NEW w, w.ctx \in {Context(cpu), Context(Past(cpu))},
         waits' = <<w>> \o waits
  PROVE  Nest!Enter
<1> DEFINE b == w.how # "int"
           c == w.ctx
<1>1. AllToFind(waits)' = <<ToFind(w)>> \o AllToFind(waits)
  BY KnownPush DEF AllToFind
<1>2. b \in BOOLEAN /\ ToFind(w) = [ctx |-> c, call |-> b]
  BY DEF ToFind
<1>3. c \in {Context(cpu), Context(Past(cpu))}
  OBVIOUS
<1> HIDE DEF b, c
<1>4. /\ [i \in DOMAIN waits |-> [ctx |-> waits[i].ctx, call |-> waits[i].how # "int"]] = AllToFind(waits)
      /\ [i \in DOMAIN waits |-> [ctx |-> waits[i].ctx, call |-> waits[i].how # "int"]]' = AllToFind(waits)'
  BY DEF AllToFind, ToFind
<1>5. AllToFind(waits)' = <<[ctx |-> c, call |-> b]>> \o AllToFind(waits)
  BY <1>1, <1>2
<1> QED BY <1>2, <1>3, <1>4, <1>5 DEF Nest!Enter

LEMMA LeaveDone ==
  ASSUME \E S : waits \in Seq(S), waits # <<>>, waits' = Tail(waits), NEW x, Context(cpu)' = x,
         NEW w, w = waits[1],
         w.how = "int" => x = w.ctx,
         w.how # "int" => x = [w.ctx EXCEPT !.ds = x.ds, !.ifl = cpu.ifl, !.arith = Arith(cpu)]
  PROVE  Nest!Leave
<1>1. /\ AllToFind(waits) # <<>> /\ AllToFind(waits)' = Tail(AllToFind(waits)) /\ Head(AllToFind(waits)) = ToFind(w)
  BY KnownPop DEF AllToFind
<1>2. ToFind(w).ctx = w.ctx /\ (ToFind(w).call <=> w.how # "int")
  BY DEF ToFind
<1>3. Context(cpu).ifl = cpu.ifl /\ Context(cpu).arith = Arith(cpu)
  BY ContextIs
<1>4. /\ [i \in DOMAIN waits |-> [ctx |-> waits[i].ctx, call |-> waits[i].how # "int"]] = AllToFind(waits)
      /\ [i \in DOMAIN waits |-> [ctx |-> waits[i].ctx, call |-> waits[i].how # "int"]]' = AllToFind(waits)'
  BY DEF AllToFind, ToFind
<1> DEFINE k == Head(AllToFind(waits))
<1>5. k.ctx = w.ctx /\ (k.call <=> w.how # "int")
  BY <1>1, <1>2
<1> HIDE DEF k
<1>6. x = IF k.call THEN [k.ctx EXCEPT !.ds = x.ds, !.ifl = Context(cpu).ifl, !.arith = Context(cpu).arith]
          ELSE k.ctx
  <2>1. CASE w.how = "int"
    BY <1>5, <2>1
  <2>2. CASE w.how # "int"
    BY <1>3, <1>5, <2>2
  <2> QED BY <2>1, <2>2
<1> QED BY <1>1, <1>4, <1>6 DEF Nest!Leave, k

\* A transfer through call_isr.
LEMMA TakesDone ==
  ASSUME XInv', os' = os, Nested(Context(cpu), waits, frames), NEW r, Takes(r),
         NEW w, w.ctx \in {Context(cpu), Context(Past(cpu))}, waits' = <<w>> \o waits, Taking(r, w)
  PROVE  TInv' /\ Nest!Enter
<1>1. \E S : waits \in Seq(S)
  BY DEF Nested
<1> DEFINE c == r.cpu
           gs == r.frames
           us == <<w>> \o waits
<1>2. /\ cpu' = c /\ frames' = gs /\ waits' = us
      /\ c.esp \in Int /\ c.ip \in Int /\ Nested(Context(c), us, gs)
  BY DEF Takes, Taking
<1> HIDE DEF c, gs, us
<1>3. TInv'
  BY <1>2, TLifted
<1>4. Nest!Enter
  BY <1>1, EnterDone
<1> QED BY <1>3, <1>4

LEMMA ThrowsStep ==
  ASSUME Ample, GuestSystem, TInv, XInv', NEW v \in FaultVectors, Throws(v)
  PROVE  TInv' /\ Nest!Enter
<1> DEFINE r == CallIsr(cpu, v, TRUE, TRUE)
           kept == ~os.real
           yes == TRUE
           w == [ctx |-> Context(cpu), how |-> "int", wide |-> os.wide, code |-> kept]
<1>1. v \in DOMAIN Idt
  BY DEF GuestSystem, Vectors
<1>2. r.exc = "none"
  BY FaultTaken DEF TInv, XInv
<1>3. Takes(r) /\ waits' = <<w>> \o waits /\ os' = os /\ Len(waits) < DEPTH
  BY DEF Throws, Remember, Free
<1>4. IsHere(cpu) /\ Nested(Context(cpu), waits, frames)
  BY Here DEF TInv
<1>5. yes \in BOOLEAN /\ kept = (yes /\ ~os.real) /\ r = CallIsr(cpu, v, yes, yes)
      /\ (yes => v \in FaultVectors)
  OBVIOUS
<1> HIDE DEF kept, yes, r
<1>6. Taking(CallIsr(cpu, v, yes, yes), w)
  BY <1>1, <1>2, <1>3, <1>4, <1>5, IsrTakes
<1>7. w.ctx \in {Context(cpu), Context(Past(cpu))} /\ Taking(r, w)
  BY <1>5, <1>6
<1> HIDE DEF w
<1> QED BY <1>3, <1>4, <1>7, TakesDone

LEMMA InterruptStep ==
  ASSUME Ample, GuestSystem, TInv, XInv', Interrupt
  PROVE  TInv' /\ Nest!Enter
<1> DEFINE v == "hw"
           no == FALSE
           yes == TRUE
           r == CallIsr(cpu, v, no, yes)
           w == [ctx |-> Context(cpu), how |-> "int", wide |-> os.wide, code |-> no]
<1>1. v \in DOMAIN Idt /\ v \in FaultVectors
  BY DEF GuestSystem, Vectors, FaultVectors
<1>0. no \in BOOLEAN /\ yes \in BOOLEAN /\ no = (no /\ ~os.real) /\ yes /\ ~no
  OBVIOUS
<1>3. Takes(r) /\ waits' = <<w>> \o waits /\ os' = os /\ Len(waits) < DEPTH
  BY DEF Interrupt, Remember, Free
<1>2. r.exc = "none"
  <2> yes = TRUE
    OBVIOUS
  <2> HIDE DEF v, no
  <2> QED BY <1>0, <1>1, FaultTaken DEF TInv, XInv
<1>4. IsHere(cpu) /\ Nested(Context(cpu), waits, frames)
  BY Here DEF TInv
<1>5. no => v \in FaultVectors
  BY <1>0
<1> HIDE DEF no, yes, v
<1>6. Taking(r, w)
  BY <1>0, <1>1, <1>2, <1>3, <1>4, <1>5, IsrTakes
<1>7. w.ctx \in {Context(cpu), Context(Past(cpu))}
  OBVIOUS
<1> HIDE DEF w, r
<1> QED BY <1>3, <1>4, <1>6, <1>7, TakesDone

LEMMA IntStep ==
  ASSUME Ample, GuestSystem, TInv, XInv', NEW v \in Called, IntN(v)
  PROVE  TInv' /\ Nest!Enter
<1> DEFINE no == FALSE
           q == Past(cpu)
           r == CallIsr(q, v, no, no)
           w == [ctx |-> Context(q), how |-> "int", wide |-> os.wide, code |-> no]
<1>0. no \in BOOLEAN /\ no = (no /\ ~os.real) /\ ~no
  OBVIOUS
<1>1. \/ Throws("gp")
      \/ r.exc # "none" /\ Throws(r.exc)
      \/ r.exc = "none" /\ Takes(r) /\ waits' = <<w>> \o waits /\ os' = os /\ Len(waits) < DEPTH
  BY DEF IntN, Remember, Free
<1>2. v \in DOMAIN Idt /\ {"gp", "np"} \subseteq FaultVectors
  BY DEF GuestSystem, Vectors, FaultVectors
<1>3. IsHere(q) /\ Nested(Context(cpu), waits, frames)
  BY Here DEF TInv
<1>4. r.exc \in {"gp", "np", "none"}
  <2> XInv /\ Good(q)
    BY <1>3 DEF TInv, IsHere
  <2> HIDE DEF q
  <2> HIDE DEF no
  <2> QED BY <1>0, <1>2, IsrGood DEF XInv
<1>5. CASE r.exc = "none" /\ Takes(r) /\ waits' = <<w>> \o waits /\ os' = os /\ Len(waits) < DEPTH
  <2> HIDE DEF no
  <2>1. w.ctx \in {Context(cpu), Context(Past(cpu))}
    OBVIOUS
  <2>3. no => v \in FaultVectors
    BY <1>0
  <2> HIDE DEF q
  <2>2. Taking(r, w)
    BY <1>0, <1>2, <1>3, <1>5, <2>3, IsrTakes
  <2> HIDE DEF w, r
  <2> QED BY <1>3, <1>5, <2>1, <2>2, TakesDone
<1> HIDE DEF r
<1>6. CASE \E e \in {"gp", "np"} : Throws(e)
  BY <1>2, <1>6, ThrowsStep
<1> QED BY <1>1, <1>4, <1>5, <1>6

\* The program, or the system for it, goes on: the stack stays as it is.
LEMMA StaysStep ==
  ASSUME Ample, GuestSystem, TInv, XInv', os' = os, frames' = frames, waits' = waits,
         NEW d, cpu' = d, Good(d), d.ip \in Int,
         d.esp = cpu.esp, d.ss = cpu.ss, d.vm = cpu.vm, d.cs = cpu.cs, d.iopl = cpu.iopl,
         d.ifl \in BOOLEAN, cpu.ifl => d.ifl
  PROVE  TInv' /\ Nest!Work
<1>1. Fit /\ IsHere(cpu) /\ Nested(Context(cpu), waits, frames)
  BY FitIs, Here DEF TInv, XInv
<1>2. d.esp \in Int
  BY DEF TInv
<1>3. IsProgram(Context(d))
  BY <1>1, <1>2, ProgramIs DEF IsHere
<1>4. Akin(Context(cpu), Context(d)) /\ (Context(cpu).ifl => Context(d).ifl)
  <2> /\ Context(d).ss = d.ss /\ Context(d).sp = d.esp % Modulus(d.ss) /\ Context(d).vm = d.vm
      /\ Context(cpu).ss = cpu.ss /\ Context(cpu).sp = cpu.esp % Modulus(cpu.ss)
      /\ Context(cpu).vm = cpu.vm /\ Context(cpu).ifl = cpu.ifl /\ Context(d).ifl = d.ifl
    BY ContextIs
  <2> QED BY DEF Akin
<1>5. Nested(Context(d), waits, frames)
  BY <1>1, <1>3, <1>4, TopNested
<1>6. TInv'
  BY <1>2, <1>5, TLifted
<1>7. AllToFind(waits)' = AllToFind(waits)
  BY DEF AllToFind, ToFind
<1> QED BY <1>6, <1>7, WorkDone

LEMMA LoadStep ==
  ASSUME Ample, GuestSystem, TInv, XInv', NEW s \in DsChoices, LoadDs(s)
  PROVE  TInv' /\ (Nest!Work \/ Nest!Enter)
<1> DEFINE d == [cpu EXCEPT !.ds = s]
<1>1. CASE Throws("np")
  BY <1>1, ThrowsStep DEF FaultVectors
<1>2. CASE cpu' = d /\ Stays
  <2>1. IsCpu(d) /\ SameBut(cpu, d, "ds") /\ d.ds = s
    BY DsSet DEF TInv, XInv, Good
  <2>2. ~os.real /\ ~cpu.vm /\ s # Null => Dpl(s) >= cpu.cpl
    BY DEF DsChoices, ByParagraph, GuestSystem, Segments, Sel, Dpl, TInv, XInv, Good, Levels
  <2> HIDE DEF d
  <2>3. /\ d.cs = cpu.cs /\ d.ss = cpu.ss /\ d.vm = cpu.vm /\ d.iopl = cpu.iopl /\ d.esp = cpu.esp
        /\ d.ip = cpu.ip /\ d.ifl = cpu.ifl /\ d.cpl = cpu.cpl
    BY <2>1 DEF SameBut
  <2>4. Good(d)
    BY <2>1, <2>2, <2>3 DEF TInv, XInv, Good
  <2>5. d.ip \in Int /\ d.ifl \in BOOLEAN /\ (cpu.ifl => d.ifl)
    BY <2>3, Here DEF IsHere
  <2>6. os' = os /\ frames' = frames /\ waits' = waits /\ cpu' = d
    BY <1>2 DEF Stays
  <2> QED BY <2>3, <2>4, <2>5, <2>6, StaysStep
<1> QED BY <1>1, <1>2 DEF LoadDs

LEMMA ComputeStep ==
  ASSUME Ample, GuestSystem, TInv, XInv', NEW b, Compute(b)
  PROVE  TInv' /\ Nest!Work
<1> DEFINE h == <<b>>
           d == [cpu EXCEPT !.lazy = h]
<1>1. os' = os /\ frames' = frames /\ waits' = waits /\ cpu' = d
  BY DEF Compute, Stays
<1> HIDE DEF h
<1>2. IsCpu(cpu) /\ Good(cpu) /\ cpu.ip \in Int /\ cpu.ifl \in BOOLEAN
  BY Here DEF IsHere
<1>3. IsCpu(d) /\ SameBut(cpu, d, "lazy")
  BY <1>2, LazySet
<1> HIDE DEF d
<1>4. /\ d.cs = cpu.cs /\ d.ss = cpu.ss /\ d.vm = cpu.vm /\ d.iopl = cpu.iopl /\ d.esp = cpu.esp
      /\ d.ip = cpu.ip /\ d.ifl = cpu.ifl /\ d.cpl = cpu.cpl /\ d.ds = cpu.ds
  BY <1>3 DEF SameBut
<1>5. Good(d)
  BY <1>2, <1>3, <1>4, AlikeGood DEF Alike
<1>6. d.ip \in Int /\ d.ifl \in BOOLEAN /\ (cpu.ifl => d.ifl)
  BY <1>2, <1>4
<1> QED BY <1>1, <1>4, <1>5, <1>6, StaysStep

LEMMA StiStep ==
  ASSUME Ample, GuestSystem, TInv, XInv', Sti
  PROVE  TInv' /\ Nest!Work
<1> DEFINE b == TRUE
           d == [cpu EXCEPT !.ifl = b]
<1>1. os' = os /\ frames' = frames /\ waits' = waits /\ cpu' = d
  BY DEF Sti, Stays
<1>0. b \in BOOLEAN /\ b
  OBVIOUS
<1> HIDE DEF b
<1>2. IsCpu(cpu) /\ Good(cpu) /\ cpu.ip \in Int
  BY Here DEF IsHere
<1>3. IsCpu(d) /\ SameBut(cpu, d, "ifl") /\ d.ifl = b
  BY <1>2, IflSet
<1> HIDE DEF d
<1>4. /\ d.cs = cpu.cs /\ d.ss = cpu.ss /\ d.vm = cpu.vm /\ d.iopl = cpu.iopl /\ d.esp = cpu.esp
      /\ d.ip = cpu.ip /\ d.cpl = cpu.cpl /\ d.ds = cpu.ds
  BY <1>3 DEF SameBut
<1>5. Good(d)
  BY <1>2, <1>3, <1>4, AlikeGood DEF Alike
<1>6. d.ip \in Int /\ d.ifl \in BOOLEAN /\ (cpu.ifl => d.ifl)
  BY <1>0, <1>2, <1>3, <1>4
<1> QED BY <1>1, <1>4, <1>5, <1>6, StaysStep

LEMMA AdvanceStep ==
  ASSUME Ample, GuestSystem, TInv, XInv', Advance
  PROVE  TInv' /\ Nest!Work
<1> DEFINE q == Past(cpu)
           i == R - 1
           d == [cpu EXCEPT !.ip = i]
<1>1. os' = os /\ frames' = frames /\ waits' = waits /\ (cpu' = d \/ cpu' = q)
  BY DEF Advance, Stays
<1>2. IsCpu(cpu) /\ Good(cpu) /\ cpu.ifl \in BOOLEAN /\ IsHere(q) /\ R \in Nat \ {0}
  BY FitIs, Here DEF IsHere, TInv, XInv, Fit, Numbers
<1>3. i \in Int
  BY <1>2
<1>4. CASE cpu' = q
  <2>1. /\ q.cs = cpu.cs /\ q.ss = cpu.ss /\ q.vm = cpu.vm /\ q.iopl = cpu.iopl /\ q.esp = cpu.esp
        /\ q.ifl = cpu.ifl /\ Good(q) /\ q.ip \in Int /\ q.ifl \in BOOLEAN /\ (cpu.ifl => q.ifl)
    BY <1>2, Here DEF IsHere
  <2> HIDE DEF q
  <2> QED BY <1>1, <1>4, <2>1, StaysStep
<1>5. CASE cpu' = d
  <2> HIDE DEF i
  <2>3. IsCpu(d) /\ SameBut(cpu, d, "ip") /\ d.ip = i
    BY <1>2, IpSet
  <2> HIDE DEF d
  <2>4. /\ d.cs = cpu.cs /\ d.ss = cpu.ss /\ d.vm = cpu.vm /\ d.iopl = cpu.iopl /\ d.esp = cpu.esp
        /\ d.ifl = cpu.ifl /\ d.cpl = cpu.cpl /\ d.ds = cpu.ds
    BY <2>3 DEF SameBut
  <2>5. Good(d)
    BY <1>2, <2>3, <2>4, AlikeGood DEF Alike
  <2>6. d.ip \in Int /\ d.ifl \in BOOLEAN /\ (cpu.ifl => d.ifl)
    BY <1>2, <1>3, <2>3, <2>4
  <2> QED BY <1>1, <1>5, <2>4, <2>5, <2>6, StaysStep
<1> QED BY <1>1, <1>4, <1>5

LEMMA SameStep ==
  ASSUME Ample, GuestSystem, TInv, XInv', UNCHANGED <<os, cpu, frames, waits>>
  PROVE  TInv' /\ Nest!Work
<1>1. /\ Good(cpu) /\ cpu.ip \in Int /\ cpu.ifl \in BOOLEAN
  BY Here DEF IsHere
<1> QED BY <1>1, StaysStep

\* What agrees after a step agreed in the state it leaves.
LEMMA GoodAfter ==
  ASSUME XInv', os' = os, NEW d, cpu' = d
  PROVE  Good(d)
<1>1. Good(cpu)'
  BY DEF XInv
<1>2. Good(cpu)' <=> Good(d)
  BY DEF Good, IsCpu, MayEnter, StackOf, Dpl
<1> QED BY <1>1, <1>2

LEMMA FarCpu ==
  ASSUME NEW c, IsCpu(c), NEW s
  PROVE  LET d == [LoadCs(c, s) EXCEPT !.ip = 0] IN
         /\ IsCpu(d) /\ d.cs = s /\ d.ip = 0 /\ d.ss = c.ss /\ d.esp = c.esp /\ d.ds = c.ds
         /\ d.ifl = c.ifl /\ d.vm = c.vm /\ d.iopl = c.iopl
<1> DEFINE l == IF os.real THEN 0 ELSE IF c.vm THEN 3 ELSE s.rpl
           g == [c EXCEPT !.cs = s]
           e == [g EXCEPT !.cpl = l]
           i == 0
           d == [e EXCEPT !.ip = i]
<1>1. [LoadCs(c, s) EXCEPT !.ip = 0] = d
  BY DEF LoadCs
<1> HIDE DEF l
<1>2. IsCpu(g) /\ SameBut(c, g, "cs") /\ g.cs = s
  BY CsSet
<1> HIDE DEF g
<1>3. IsCpu(e) /\ SameBut(g, e, "cpl")
  BY <1>2, CplSet
<1> HIDE DEF e, i
<1>4. IsCpu(d) /\ SameBut(e, d, "ip") /\ d.ip = i
  BY <1>3, IpSet
<1> HIDE DEF d
<1> QED BY <1>1, <1>2, <1>3, <1>4 DEF SameBut, i

\* A call onto the stack of c.
LEMMA CallsStep ==
  ASSUME Ample, GuestSystem, TInv, XInv', NEW c, IsCpu(c), NEW D, Onto(c, D),
         c.vm = cpu.vm, c.ifl = cpu.ifl, c.iopl = cpu.iopl,
         NEW how, NEW wide \in BOOLEAN, NEW n \in Nat \ {0}, NEW to, Calls(c, how, wide, n, to),
         n <= PushWords(os, c.ss.seg), wide => os.wide,
         wide \/ Modulus(cpu.cs) = R, wide \/ how = "far" \/ Modulus(cpu.ss) = R,
         os.real \/ cpu.vm => to = Para,
         \/ how = "far" /\ c.ss = cpu.ss
         \/ how = "gate" /\ ~os.real /\ ~cpu.vm /\ c.ss = Stack0 /\ cpu.ss = Stack3
  PROVE  TInv' /\ Nest!Enter
<1> DEFINE q == Past(cpu)
           no == FALSE
           p == Pushed(c, how, wide, n, q, no)
           d == [LoadCs(p.cpu, to) EXCEPT !.ip = 0]
           x == Context(q)
           w == [ctx |-> x, how |-> how, wide |-> wide, code |-> no]
           T == Taken(n, wide, no)
<1>0. no = FALSE /\ no \in BOOLEAN
  OBVIOUS
<1>1. cpu' = d /\ frames' = p.frames /\ waits' = <<w>> \o waits /\ os' = os /\ Len(waits) < DEPTH
  BY DEF Calls, Remember, Free
<1>2. Fit /\ IsHere(cpu) /\ IsHere(q) /\ Nested(Context(cpu), waits, frames)
  BY FitIs, Here DEF TInv, XInv
<1> HIDE DEF no
<1>3. T <= MostPushed(os, c.ss.seg)
  BY <1>0, <1>2, TakenFits
<1>4. /\ D \in Nat /\ IsCpu(p.cpu) /\ SameBut(c, p.cpu, "esp") /\ p.cpu.esp \in Int
      /\ p.cpu.esp % Modulus(c.ss) = Spot(c.ss, D + T)
  BY <1>0, <1>1, <1>3, PushDone
<1> HIDE DEF p
<1>5. /\ IsCpu(d) /\ d.cs = to /\ d.ip = 0 /\ d.ss = p.cpu.ss /\ d.esp = p.cpu.esp /\ d.ds = p.cpu.ds
      /\ d.ifl = p.cpu.ifl /\ d.vm = p.cpu.vm /\ d.iopl = p.cpu.iopl
  BY <1>4, FarCpu
<1>6. Good(d)
  BY <1>1, GoodAfter
<1> HIDE DEF d
<1>7. d.ss = c.ss /\ d.vm = cpu.vm /\ d.ifl = cpu.ifl /\ d.iopl = os.iopl /\ d.ifl \in BOOLEAN
  BY <1>2, <1>4, <1>5 DEF SameBut, IsHere
<1>8. /\ d.vm \/ os.real => d.ss = Para /\ d.cs = Para
      /\ ~d.vm /\ ~os.real => d.ss \in {Stack0, Stack3} /\ (d.ss.rpl = 3 => d.ifl)
      /\ d.vm => os.vm
  BY <1>2, <1>5, <1>7, StackNames DEF IsHere
<1>9. IsProgram(Context(d))
  BY <1>2, <1>4, <1>5, <1>6, <1>7, <1>8, ProgramIs
<1>10. x.ss = cpu.ss /\ x.vm = cpu.vm /\ x.ifl = cpu.ifl /\ IsProgram(x) /\ Akin(Context(cpu), x)
  <2> x.ss = q.ss /\ x.vm = q.vm /\ x.ifl = q.ifl
    BY ContextIs
  <2> QED BY <1>2 DEF IsHere
<1>11. w.ctx = x /\ w.how = how /\ w.wide = wide /\ w.code = no
       /\ w = [ctx |-> w.ctx, how |-> w.how, wide |-> w.wide, code |-> w.code]
  OBVIOUS
<1>12. Serves(Context(d), w)
  <2>1. Context(d).ss = d.ss /\ Context(d).vm = d.vm /\ Context(d).ifl = d.ifl
    BY ContextIs
  <2> HIDE DEF w, x
  <2>2. CASE how = "far" /\ c.ss = cpu.ss
    BY <1>0, <1>7, <1>10, <1>11, <2>1, <2>2 DEF Serves
  <2>3. CASE how = "gate" /\ ~os.real /\ ~cpu.vm /\ c.ss = Stack0 /\ cpu.ss = Stack3
    BY <1>0, <1>7, <1>10, <1>11, <2>1, <2>3, StackNames DEF Serves
  <2> QED BY <2>2, <2>3
<1>13. /\ q.ip \in Int /\ q.esp \in Int /\ q.ifl = cpu.ifl /\ cpu.esp \in Int
       /\ q.cs = cpu.cs /\ q.ss = cpu.ss
  BY <1>2 DEF IsHere
<1>14. /\ IsProgram(Context(q)) /\ Akin(Context(cpu), Context(q))
       /\ wide \/ Modulus(q.cs) = R
       /\ wide \/ how = "far" \/ Modulus(q.ss) = R
       /\ (no => wide = os.wide)
       /\ Taken(n, wide, no) <= MostPushed(os, c.ss.seg)
       /\ w = [ctx |-> Context(q), how |-> how, wide |-> wide, code |-> no]
       /\ d.esp % Modulus(c.ss) = Spot(c.ss, D + Taken(n, wide, no))
  BY <1>0, <1>3, <1>4, <1>5, <1>10, <1>13
<1> HIDE DEF T, w, x, q
<1>15. Nested(Context(d), <<w>> \o waits, Pushed(c, how, wide, n, q, no).frames)
  BY <1>0, <1>1, <1>2, <1>7, <1>9, <1>12, <1>13, <1>14, Enters
<1> DEFINE r == [cpu |-> d, frames |-> p.frames]
<1>16. Takes(r) /\ Taking(r, w)
  <2> r.cpu = d /\ r.frames = p.frames
    OBVIOUS
  <2> HIDE DEF r
  <2> QED BY <1>1, <1>4, <1>5, <1>15 DEF Takes, Taking, p
<1>17. w.ctx \in {Context(cpu), Context(Past(cpu))}
  BY <1>11 DEF x, q
<1> HIDE DEF r
<1> QED BY <1>1, <1>2, <1>16, <1>17, TakesDone

LEMMA CallFarStep ==
  ASSUME Ample, GuestSystem, TInv, XInv', NEW s \in DOMAIN Gdt, CallFar(s)
  PROVE  TInv' /\ Nest!Enter
<1> DEFINE D == Deep(Context(cpu))
<1>1. Fit /\ IsHere(cpu) /\ Onto(cpu, D) /\ Modulus(Para) = R /\ PARAMS \in Nat
  BY FitIs, Here DEF TInv, XInv, Onto, Fit, Numbers
<1>2. IsCpu(cpu) /\ 2 \in Nat \ {0} /\ 2 <= PushWords(os, cpu.ss.seg)
  <2> PushWords(os, cpu.ss.seg) >= 3
    BY <1>1 DEF PushWords
  <2> PushWords(os, cpu.ss.seg) \in Nat
    BY <1>1, MostNat
  <2> QED BY <1>1 DEF IsHere
<1> HIDE DEF D
<1>3. CASE Throws("np") \/ Throws("gp")
  BY <1>3, ThrowsStep DEF FaultVectors
<1>4. CASE ByParagraph
  <2> DEFINE no == FALSE
  <2>1. Calls(cpu, "far", no, 2, Para) /\ no \in BOOLEAN /\ ~no
    BY <1>4 DEF CallFar
  <2>2. Modulus(cpu.cs) = R
    BY <1>1, <1>4 DEF ByParagraph, IsHere
  <2> HIDE DEF no
  <2> QED BY <1>1, <1>2, <2>1, <2>2, CallsStep
<1>5. CASE ~ByParagraph /\ Calls(cpu, "far", cpu.cs.seg \in os.big, 2, Sel(s, cpu.cpl))
  <2> DEFINE z == cpu.cs.seg \in os.big
  <2>1. Calls(cpu, "far", z, 2, Sel(s, cpu.cpl)) /\ z \in BOOLEAN
    BY <1>5
  <2>2. (z => os.wide) /\ (z \/ Modulus(cpu.cs) = R)
    BY <1>1 DEF Fit, Plain, Modulus
  <2> HIDE DEF z
  <2>3. ~os.real /\ ~cpu.vm
    BY <1>5 DEF ByParagraph
  <2> QED BY <1>1, <1>2, <2>1, <2>2, <2>3, CallsStep
<1> QED BY <1>3, <1>4, <1>5 DEF CallFar

LEMMA CallGateStep ==
  ASSUME Ample, GuestSystem, TInv, XInv', NEW s \in DOMAIN Gdt, CallGate(s)
  PROVE  TInv' /\ Nest!Enter
<1> DEFINE D == Deep(Context(cpu))
           d == Gdt[s]
           z == os.wide
<1>1. /\ Fit /\ IsHere(cpu) /\ Onto(cpu, D) /\ PARAMS \in Nat /\ z \in BOOLEAN /\ Good(cpu)
      /\ \A t : ~os.wide => Modulus(t) = R
  BY FitIs, Here DEF TInv, XInv, Onto, Fit, Numbers, IsHere
<1>2. IsCpu(cpu) /\ 2 \in Nat \ {0} /\ 2 <= PushWords(os, cpu.ss.seg)
  <2> PushWords(os, cpu.ss.seg) >= 3
    BY <1>1 DEF PushWords
  <2> PushWords(os, cpu.ss.seg) \in Nat
    BY <1>1, MostNat
  <2> QED BY <1>1 DEF IsHere
<1> HIDE DEF D
<1>3. /\ ~os.real /\ ~cpu.vm /\ cpu.cpl \in Levels /\ d.dpl \in Levels
  BY <1>1 DEF CallGate, Good, ByParagraph, GuestSystem, Segments
<1>4. CASE Throws("np") \/ Throws("gp")
  BY <1>4, ThrowsStep DEF FaultVectors
<1>5. CASE d.dpl < cpu.cpl /\ Calls(InnerStack(cpu, d.dpl), "gate", os.wide, 4 + PARAMS, Sel(s, d.dpl))
  <2> DEFINE c == InnerStack(cpu, 0)
             n == 4 + PARAMS
             to == Sel(s, 0)
  <2>1. d.dpl = 0 /\ cpu.cpl = 3
    BY <1>3, <1>5 DEF Levels
  <2>2. Calls(c, "gate", z, n, to)
    BY <1>5, <2>1
  <2>3. /\ IsCpu(c) /\ c.ss = Stack0 /\ c.esp = os.top /\ c.ifl = cpu.ifl /\ c.vm = cpu.vm
        /\ c.iopl = cpu.iopl
    BY <1>2, InnerStackIs
  <2> HIDE DEF c
  <2>4. Onto(c, 0)
    BY <1>1, <1>3, <2>1, <2>3, InnerOnto
  <2>5. n \in Nat \ {0} /\ n <= PushWords(os, c.ss.seg)
    BY <1>1, <2>3, StackNames DEF PushWords
  <2>6. cpu.ss = Stack3
    BY <1>1, <1>3, <2>1, StackNames DEF IsHere
  <2>7. (z => os.wide) /\ (z \/ Modulus(cpu.cs) = R) /\ (z \/ Modulus(cpu.ss) = R)
    BY <1>1
  <2> HIDE DEF n, to, z
  <2> QED BY <1>1, <1>3, <2>2, <2>3, <2>4, <2>5, <2>6, <2>7, CallsStep
<1>6. CASE Calls(cpu, "far", os.wide, 2, Sel(s, cpu.cpl))
  <2>1. Calls(cpu, "far", z, 2, Sel(s, cpu.cpl)) /\ (z => os.wide) /\ (z \/ Modulus(cpu.cs) = R)
    BY <1>1, <1>6
  <2> HIDE DEF z
  <2> QED BY <1>1, <1>2, <1>3, <2>1, CallsStep
<1> QED BY <1>3, <1>4, <1>5, <1>6 DEF CallGate

-----------------------------------------------------------------------------
(* Returns. *)

LEMMA FoundIs ==
  ASSUME NEW how, NEW wide
  PROVE  Found(cpu, how, wide).how = how
<1> DEFINE here == {f \in frames : /\ f.how = how /\ f.wide = wide
                                    /\ f.ss = cpu.ss.seg /\ f.at = cpu.esp % Modulus(cpu.ss)}
<1>1. CASE here # {}
  <2> (CHOOSE f \in here : TRUE) \in here
    BY <1>1
  <2> QED BY <1>1 DEF Found
<1>2. CASE here = {}
  <2> Found(cpu, how, wide) = Frame(cpu, how, wide, 1, [cpu EXCEPT !.cs = Null])
    BY <1>2 DEF Found
  <2> QED BY DEF Frame
<1> QED BY <1>1, <1>2

\* A return finds the frame of the program that waits, and no other.
LEMMA FoundOurs ==
  ASSUME Ample, TInv, Done, NEW w, w = waits[1]
  PROVE  /\ Ours(Found(cpu, w.how, w.wide), Context(cpu), w) /\ Head(waits) = w
         /\ waits # <<>> /\ w.code \in BOOLEAN /\ ~w.code
<1> DEFINE x == Context(cpu)
           here == {g \in frames : /\ g.how = w.how /\ g.wide = w.wide
                                    /\ g.ss = cpu.ss.seg /\ g.at = cpu.esp % Modulus(cpu.ss)}
<1>1. Fit /\ Nested(x, waits, frames) /\ waits # <<>>
  BY FitIs DEF TInv, XInv, Done
<1>2. IsProgram(x) /\ Apart(frames) /\ Serves(x, w) /\ \E f \in frames : Ours(f, x, w)
  BY <1>1, NestedTop
<1>3. Head(waits) = w
  <2> \E S : waits \in Seq(S)
    BY <1>1 DEF Nested
  <2> QED BY <1>1, PopSeq
<1>4. w.code \in BOOLEAN /\ ~w.code
  BY <1>2, <1>3 DEF Serves, Done
<1>5. x.ss = cpu.ss /\ x.sp = cpu.esp % Modulus(cpu.ss)
  BY ContextIs
<1>6. PICK f \in frames : Ours(f, x, w)
  BY <1>2
<1> HIDE DEF x
<1>7. x.sp = Spot(x.ss, Deep(x)) /\ Deep(x) \in Nat
  <2>1. x.sp \in 0 .. Modulus(x.ss) - 1
    BY <1>2 DEF IsProgram
  <2> QED BY <1>1, <1>2, <2>1, DeepSpot, DeepNat
<1>8. f.how = w.how /\ f.wide = w.wide /\ f.ss = cpu.ss.seg /\ f.at = cpu.esp % Modulus(cpu.ss)
  <2> Code(w) = 0 /\ Deep(x) - 0 = Deep(x)
    BY <1>4, <1>7 DEF Code
  <2> QED BY <1>5, <1>6, <1>7 DEF Ours, Lies
<1>9. \A g \in here : g = f
  BY <1>2, <1>8 DEF Apart
<1>10. f \in here
  BY <1>8
<1>11. Found(cpu, w.how, w.wide) = f
  <2> (CHOOSE g \in here : TRUE) = f
    BY <1>9, <1>10
  <2> QED BY <1>10 DEF Found
<1> QED BY <1>1, <1>3, <1>4, <1>6, <1>11 DEF x

\* The registers c, as they are when the program that w remembers goes on.
Back(c, w) ==
    /\ c.esp \in Int /\ c.ip \in Int
    /\ c.cs = w.ctx.cs /\ c.ip % Modulus(c.cs) = w.ctx.ip
    /\ c.ss = w.ctx.ss /\ c.esp % Modulus(c.ss) = w.ctx.sp
    /\ c.vm = w.ctx.vm /\ c.iopl = w.ctx.iopl
    /\ w.how = "int" => c.ds = w.ctx.ds /\ c.ifl = w.ctx.ifl /\ Arith(c) = w.ctx.arith
    /\ w.how # "int" => c.ifl = cpu.ifl /\ Arith(c) = Arith(cpu)

LEMMA LeaveStep ==
  ASSUME Ample, GuestSystem, TInv, XInv', Done, NEW w, w = waits[1],
         NEW f, f = Found(cpu, w.how, w.wide), NEW c, Ends(c, f), Back(c, w)
  PROVE  TInv' /\ Nest!Leave
<1> DEFINE x == Context(c)
           y == Context(cpu)
           v == w.ctx
<1>1. Ours(f, y, w) /\ waits # <<>> /\ Fit /\ Nested(y, waits, frames)
  BY FoundOurs, FitIs DEF TInv, XInv
<1>2. Nested(v, Tail(waits), frames \ {f})
  BY <1>1, PopNested
<1>3. cpu' = c /\ frames' = frames \ {f} /\ waits' = Tail(waits) /\ os' = os
  BY DEF Ends
<1>4. Good(c)
  BY <1>3, GoodAfter
<1>5. IsProgram(y) /\ IsProgram(v) /\ Serves(y, w) /\ y.ifl = cpu.ifl
  BY <1>1, NestedTop, ContextIs
<1>6. IsContext(x) /\ IsContext(v)
  BY <1>5, ContextIs DEF IsContext, IsProgram
<1>7. /\ x.cs = c.cs /\ x.ip = c.ip % Modulus(c.cs) /\ x.ss = c.ss /\ x.sp = c.esp % Modulus(c.ss)
      /\ x.ds = c.ds /\ x.ifl = c.ifl /\ x.vm = c.vm /\ x.iopl = c.iopl /\ x.arith = Arith(c)
  BY ContextIs DEF Ip
<1> HIDE DEF x, y, v
<1>8. x.cs = v.cs /\ x.ip = v.ip /\ x.ss = v.ss /\ x.sp = v.sp /\ x.vm = v.vm /\ x.iopl = v.iopl
  BY <1>7 DEF Back, v
<1>9. w.how = "int" => x = v
  <2> SUFFICES ASSUME w.how = "int" PROVE x = v
    OBVIOUS
  <2> x.ds = v.ds /\ x.ifl = v.ifl /\ x.arith = v.arith
    BY <1>7 DEF Back, v
  <2> QED BY <1>6, <1>8 DEF IsContext
<1>10. w.how # "int" => x = [v EXCEPT !.ds = x.ds, !.ifl = cpu.ifl, !.arith = Arith(cpu)]
  <2> SUFFICES ASSUME w.how # "int" PROVE x = [v EXCEPT !.ds = x.ds, !.ifl = cpu.ifl, !.arith = Arith(cpu)]
    OBVIOUS
  <2> DEFINE i == cpu.ifl
             a == Arith(cpu)
             g == x.ds
  <2>1. x.ifl = i /\ x.arith = a
    BY <1>7 DEF Back
  <2> HIDE DEF i, a, g
  <2>2. x = [v EXCEPT !.ds = g, !.ifl = i, !.arith = a]
    BY <1>6, <1>8, <2>1 DEF IsContext, g
  <2> QED BY <2>2 DEF i, a, g
<1>11. IsProgram(x) /\ (v.ifl => x.ifl)
  <2>1. CASE w.how = "int"
    BY <1>5, <1>9, <2>1
  <2>2. CASE w.how # "int"
    <3>1. (v.ifl => x.ifl) /\ x.ifl \in BOOLEAN
      <4> x.ifl = y.ifl
        BY <1>5, <1>7, <2>2 DEF Back
      <4> (v.ifl => y.ifl) /\ y.ifl \in BOOLEAN
        BY <1>5, <2>2 DEF Serves, v, IsProgram
      <4> QED OBVIOUS
    <3>2. /\ c.esp \in Int /\ c.iopl = os.iopl /\ c.ifl \in BOOLEAN /\ (c.vm => os.vm)
          /\ c.vm \/ os.real => c.ss = Para /\ c.cs = Para
      BY <1>5, <1>7, <1>8, <3>1 DEF IsProgram, Back
    <3>3. ~c.vm /\ ~os.real => c.ss \in {Stack0, Stack3} /\ (c.ss.rpl = 3 => c.ifl)
      BY <1>5, <1>7, <1>8, <3>1 DEF IsProgram, Stack0, Stack3
    <3>4. IsProgram(Context(c))
      BY <1>1, <1>4, <3>2, <3>3, ProgramIs
    <3> QED BY <3>1, <3>4 DEF x
  <2> QED BY <2>1, <2>2
<1>12. Akin(v, x)
  BY <1>8 DEF Akin
<1> DEFINE us == Tail(waits)
           gs == frames \ {f}
<1>13. Nested(v, us, gs) /\ waits' = us /\ frames' = gs
  BY <1>2, <1>3 DEF v
<1> HIDE DEF us, gs
<1>14. Nested(x, us, gs)
  BY <1>11, <1>12, <1>13, TopNested
<1>15. c.esp \in Int /\ c.ip \in Int /\ Nested(Context(c), us, gs)
  BY <1>14 DEF Back, x
<1>16. TInv'
  BY <1>3, <1>13, <1>15, TLifted
<1>17. Context(cpu)' = x
  BY <1>3 DEF Context, Ip, Modulus, x
<1>18. \E S : waits \in Seq(S)
  BY <1>1 DEF Nested
<1>19. Nest!Leave
  BY <1>1, <1>3, <1>9, <1>10, <1>17, <1>18, LeaveDone DEF v
<1> QED BY <1>16, <1>19

LEMMA SameArith ==
  ASSUME NEW c, NEW d, c.arith = d.arith, c.lazy = d.lazy
  PROVE  Arith(c) = Arith(d)
  BY DEF Arith

LEMMA IretIs ==
  ASSUME NEW c, IsCpu(c), NEW f
  PROVE  LET d == IretFlags(c, f) IN
         /\ IsCpu(d) /\ d.cs = c.cs /\ d.ip = c.ip /\ d.ss = c.ss /\ d.esp = c.esp /\ d.ds = c.ds
         /\ d.cpl = c.cpl /\ d.vm = c.vm /\ Arith(d) = f.arith
         /\ d.ifl = IF c.iopl < c.cpl THEN c.ifl ELSE f.ifl
         /\ d.iopl = IF c.cpl > 0 THEN c.iopl ELSE f.iopl
<1> DEFINE i == IF c.iopl < c.cpl THEN c.ifl ELSE f.ifl
           o == IF c.cpl > 0 THEN c.iopl ELSE f.iopl
           a == f.arith
           h == <<>>
           g == [c EXCEPT !.arith = a]
           e == [g EXCEPT !.lazy = h]
           k == [e EXCEPT !.ifl = i]
           d == [k EXCEPT !.iopl = o]
<1>1. IretFlags(c, f) = d
  <2> IretFlags(c, f) = [c EXCEPT !.arith = a, !.lazy = h, !.ifl = i, !.iopl = o]
    BY DEF IretFlags, IsCpu
  <2> QED OBVIOUS
<1> HIDE DEF i, o, a
<1>2. IsCpu(g) /\ SameBut(c, g, "arith") /\ g.arith = a
  BY ArithSet
<1>0. h = <<>>
  OBVIOUS
<1> HIDE DEF g, h
<1>3. IsCpu(e) /\ SameBut(g, e, "lazy") /\ e.lazy = h
  BY <1>2, LazySet
<1> HIDE DEF e
<1>4. IsCpu(k) /\ SameBut(e, k, "ifl") /\ k.ifl = i
  BY <1>3, IflSet
<1> HIDE DEF k
<1>5. IsCpu(d) /\ SameBut(k, d, "iopl") /\ d.iopl = o
  BY <1>4, IoplSet
<1> HIDE DEF d
<1>6. Arith(d) = a
  <2> d.arith = a /\ d.lazy = <<>>
    BY <1>0, <1>2, <1>3, <1>4, <1>5 DEF SameBut
  <2> QED BY DEF Arith
<1> QED BY <1>1, <1>2, <1>3, <1>4, <1>5, <1>6 DEF SameBut, i, o, a

LEMMA LoadCsIs ==
  ASSUME NEW c, IsCpu(c), NEW s
  PROVE  LET d == LoadCs(c, s) IN
         /\ IsCpu(d) /\ d.cs = s /\ d.cpl = IF os.real THEN 0 ELSE IF c.vm THEN 3 ELSE s.rpl
         /\ d.ip = c.ip /\ d.ss = c.ss /\ d.esp = c.esp /\ d.ds = c.ds
         /\ d.ifl = c.ifl /\ d.vm = c.vm /\ d.iopl = c.iopl /\ Arith(d) = Arith(c)
<1> DEFINE l == IF os.real THEN 0 ELSE IF c.vm THEN 3 ELSE s.rpl
           g == [c EXCEPT !.cs = s]
           d == [g EXCEPT !.cpl = l]
<1>1. LoadCs(c, s) = d
  BY DEF LoadCs
<1> HIDE DEF l
<1>2. IsCpu(g) /\ SameBut(c, g, "cs") /\ g.cs = s
  BY CsSet
<1> HIDE DEF g
<1>3. IsCpu(d) /\ SameBut(g, d, "cpl") /\ d.cpl = l
  BY <1>2, CplSet
<1> HIDE DEF d
<1>4. Arith(d) = Arith(c)
  <2> d.arith = c.arith /\ d.lazy = c.lazy
    BY <1>2, <1>3 DEF SameBut
  <2> QED BY SameArith
<1> QED BY <1>1, <1>2, <1>3, <1>4 DEF SameBut, l

LEMMA StackSet ==
  ASSUME Fit, NEW c, IsCpu(c), c.esp \in Int, NEW v \in Int
  PROVE  LET d == WithSp(c, v) IN
         /\ IsCpu(d) /\ SameBut(c, d, "esp") /\ Arith(d) = Arith(c)
         /\ d.esp \in Int /\ d.esp % Modulus(d.ss) = v % Modulus(c.ss)
<1> DEFINE d == WithSp(c, v)
<1>1. PICK e \in Int : d = [c EXCEPT !.esp = e] /\ e % Modulus(c.ss) = v % Modulus(c.ss)
  BY WithSpIs
<1> HIDE DEF d
<1>2. IsCpu(d) /\ SameBut(c, d, "esp") /\ d.esp = e
  BY <1>1, EspSet
<1>3. d.ss = c.ss /\ Arith(d) = Arith(c)
  <2> d.arith = c.arith /\ d.lazy = c.lazy
    BY <1>2 DEF SameBut
  <2> QED BY <1>2, SameArith DEF SameBut
<1> QED BY <1>1, <1>2, <1>3 DEF d

\* What the three kinds of return make of the registers.
SameCpu(c, f) == LoadCs([WithSp(c, cpu.esp + f.size) EXCEPT !.ip = f.ip], f.cs)
OuterCpu(c, f) == Cleared(WithSp([LoadCs(c, f.cs) EXCEPT !.ip = f.ip, !.ss = f.ofss], f.esp))
VirtualCpu(c, f) == LoadCs([IretFlags(c, f) EXCEPT !.vm = TRUE, !.ip = f.ip, !.ss = f.ofss,
                                                   !.ds = f.ds, !.esp = f.esp], f.cs)

LEMMA EndsAs ==
  ASSUME NEW c, NEW f
  PROVE  /\ ToSame(c, f) => Ends(SameCpu(c, f), f)
         /\ ToOuter(c, f) => Ends(OuterCpu(c, f), f)
         /\ ToVirtual(c, f) => Ends(VirtualCpu(c, f), f)
  BY DEF ToSame, ToOuter, ToVirtual, SameCpu, OuterCpu, VirtualCpu

LEMMA SameCpuIs ==
  ASSUME Fit, NEW c, IsCpu(c), c.esp \in Int, NEW f, cpu.esp + f.size \in Int
  PROVE  LET r == SameCpu(c, f) IN
         /\ r.cs = f.cs /\ r.ip = f.ip /\ r.ss = c.ss /\ r.ds = c.ds
         /\ r.esp \in Int /\ r.esp % Modulus(r.ss) = (cpu.esp + f.size) % Modulus(c.ss)
         /\ r.ifl = c.ifl /\ r.vm = c.vm /\ r.iopl = c.iopl /\ Arith(r) = Arith(c)
<1> DEFINE v == cpu.esp + f.size
           w == WithSp(c, v)
           i == f.ip
           s == f.cs
           d == [w EXCEPT !.ip = i]
           r == LoadCs(d, s)
<1>1. SameCpu(c, f) = r
  BY DEF SameCpu
<1>2. v \in Int
  OBVIOUS
<1> HIDE DEF v, i, s
<1>3. /\ IsCpu(w) /\ SameBut(c, w, "esp") /\ Arith(w) = Arith(c)
      /\ w.esp \in Int /\ w.esp % Modulus(w.ss) = v % Modulus(c.ss)
  BY <1>2, StackSet
<1> HIDE DEF w
<1>4. IsCpu(d) /\ SameBut(w, d, "ip") /\ d.ip = i
  BY <1>3, IpSet
<1> HIDE DEF d
<1>5. Arith(d) = Arith(w)
  <2> d.arith = w.arith /\ d.lazy = w.lazy
    BY <1>4 DEF SameBut
  <2> QED BY SameArith
<1>6. /\ IsCpu(r) /\ r.cs = s /\ r.cpl = IF os.real THEN 0 ELSE IF d.vm THEN 3 ELSE s.rpl
      /\ r.ip = d.ip /\ r.ss = d.ss /\ r.esp = d.esp /\ r.ds = d.ds
      /\ r.ifl = d.ifl /\ r.vm = d.vm /\ r.iopl = d.iopl /\ Arith(r) = Arith(d)
  BY <1>4, LoadCsIs
<1> HIDE DEF r
<1>7. r.ss = w.ss /\ r.esp = w.esp /\ r.ss = c.ss
  BY <1>3, <1>4, <1>6 DEF SameBut
<1> QED BY <1>1, <1>3, <1>4, <1>5, <1>6, <1>7 DEF SameBut, v, i, s

LEMMA OuterCpuIs ==
  ASSUME Fit, NEW c, IsCpu(c), c.esp \in Int, NEW f, f.esp \in Int, ~os.real, ~c.vm
  PROVE  LET r == OuterCpu(c, f) IN
         /\ r.cs = f.cs /\ r.ip = f.ip /\ r.ss = f.ofss
         /\ r.ds = IF Dpl(c.ds) < f.cs.rpl THEN Null ELSE c.ds
         /\ r.esp \in Int /\ r.esp % Modulus(r.ss) = f.esp % Modulus(f.ofss)
         /\ r.ifl = c.ifl /\ r.vm = c.vm /\ r.iopl = c.iopl /\ Arith(r) = Arith(c)
<1> DEFINE v == f.esp
           i == f.ip
           s == f.cs
           k == f.ofss
           g == Null
           l == LoadCs(c, s)
           e == [l EXCEPT !.ip = i]
           d == [e EXCEPT !.ss = k]
           w == WithSp(d, v)
           n == [w EXCEPT !.ds = g]
           r == IF Dpl(w.ds) < w.cpl THEN n ELSE w
<1>1. OuterCpu(c, f) = r
  <2>1. [LoadCs(c, f.cs) EXCEPT !.ip = f.ip, !.ss = f.ofss] = d
    OBVIOUS
  <2> HIDE DEF d
  <2>2. OuterCpu(c, f) = Cleared(w)
    BY <2>1 DEF OuterCpu
  <2> HIDE DEF w
  <2> QED BY <2>2 DEF Cleared
<1>2. v \in Int
  OBVIOUS
<1> HIDE DEF v, i, k, g, s
<1>14. /\ IsCpu(l) /\ l.cs = s /\ l.cpl = IF os.real THEN 0 ELSE IF c.vm THEN 3 ELSE s.rpl
      /\ l.ip = c.ip /\ l.ss = c.ss /\ l.esp = c.esp /\ l.ds = c.ds
      /\ l.ifl = c.ifl /\ l.vm = c.vm /\ l.iopl = c.iopl /\ Arith(l) = Arith(c)
  <2> DEFINE h == LoadCs(c, s)
  <2> HIDE DEF l
  <2>1. /\ IsCpu(h) /\ h.cs = s /\ h.cpl = IF os.real THEN 0 ELSE IF c.vm THEN 3 ELSE s.rpl
        /\ h.ip = c.ip /\ h.ss = c.ss /\ h.esp = c.esp /\ h.ds = c.ds
        /\ h.ifl = c.ifl /\ h.vm = c.vm /\ h.iopl = c.iopl /\ Arith(h) = Arith(c)
    BY LoadCsIs
  <2> QED BY <2>1 DEF l
<1> HIDE DEF l
<1>3. /\ IsCpu(l) /\ l.cs = s /\ l.cpl = s.rpl
      /\ l.ip = c.ip /\ l.ss = c.ss /\ l.esp = c.esp /\ l.ds = c.ds
      /\ l.ifl = c.ifl /\ l.vm = c.vm /\ l.iopl = c.iopl /\ Arith(l) = Arith(c)
  BY <1>14
<1>4. IsCpu(e) /\ SameBut(l, e, "ip") /\ e.ip = i
  BY <1>3, IpSet
<1> HIDE DEF e
<1>5. IsCpu(d) /\ SameBut(e, d, "ss") /\ d.ss = k
  BY <1>4, SsSet
<1> HIDE DEF d
<1>6. d.esp \in Int /\ Arith(d) = Arith(l)
  <2> d.arith = l.arith /\ d.lazy = l.lazy /\ d.esp = l.esp
    BY <1>4, <1>5 DEF SameBut
  <2> QED BY <1>3, SameArith
<1>7. /\ IsCpu(w) /\ SameBut(d, w, "esp") /\ Arith(w) = Arith(d)
      /\ w.esp \in Int /\ w.esp % Modulus(w.ss) = v % Modulus(d.ss)
  BY <1>2, <1>5, <1>6, StackSet
<1> HIDE DEF w
<1>8. IsCpu(n) /\ SameBut(w, n, "ds") /\ n.ds = g
  BY <1>7, DsSet
<1> HIDE DEF n
<1>9. Arith(n) = Arith(w)
  <2> n.arith = w.arith /\ n.lazy = w.lazy
    BY <1>8 DEF SameBut
  <2> QED BY SameArith
<1>10. w.ds = c.ds /\ w.cpl = s.rpl
  BY <1>3, <1>4, <1>5, <1>7 DEF SameBut
<1>11. /\ r.cs = w.cs /\ r.ip = w.ip /\ r.ss = w.ss /\ r.esp = w.esp /\ r.ifl = w.ifl
       /\ r.vm = w.vm /\ r.iopl = w.iopl /\ Arith(r) = Arith(w)
       /\ r.ds = IF Dpl(c.ds) < s.rpl THEN g ELSE c.ds
  <2>1. CASE Dpl(w.ds) < w.cpl
    <3> r = n
      BY <2>1
    <3> HIDE DEF r
    <3> QED BY <1>8, <1>9, <1>10, <2>1 DEF SameBut
  <2>2. CASE ~(Dpl(w.ds) < w.cpl)
    <3> r = w
      BY <2>2
    <3> HIDE DEF r
    <3> QED BY <1>10, <2>2
  <2> QED BY <2>1, <2>2
<1> HIDE DEF r
<1>12. /\ w.cs = s /\ w.ip = i /\ w.ss = k /\ w.ifl = c.ifl /\ w.vm = c.vm /\ w.iopl = c.iopl
       /\ Arith(w) = Arith(c)
  BY <1>3, <1>4, <1>5, <1>6, <1>7 DEF SameBut
<1>13. r.esp \in Int /\ r.esp % Modulus(r.ss) = v % Modulus(k)
  BY <1>5, <1>7, <1>11
<1> QED BY <1>1, <1>11, <1>12, <1>13 DEF v, i, s, k, g

LEMMA VirtualCpuIs ==
  ASSUME NEW c, IsCpu(c), NEW f
  PROVE  LET r == VirtualCpu(c, f) IN
         /\ r.cs = f.cs /\ r.ip = f.ip /\ r.ss = f.ofss /\ r.ds = f.ds /\ r.esp = f.esp
         /\ r.vm \in BOOLEAN /\ r.vm /\ Arith(r) = f.arith
         /\ r.ifl = IF c.iopl < c.cpl THEN c.ifl ELSE f.ifl
         /\ r.iopl = IF c.cpl > 0 THEN c.iopl ELSE f.iopl
<1> DEFINE v == f.esp
           i == f.ip
           s == f.cs
           k == f.ofss
           g == f.ds
           z == TRUE
           e == IretFlags(c, f)
           m == [e EXCEPT !.vm = z]
           a == [m EXCEPT !.ip = i]
           b == [a EXCEPT !.ss = k]
           d == [b EXCEPT !.ds = g]
           h == [d EXCEPT !.esp = v]
           r == LoadCs(h, s)
<1>1. VirtualCpu(c, f) = r
  <2> [IretFlags(c, f) EXCEPT !.vm = TRUE, !.ip = f.ip, !.ss = f.ofss, !.ds = f.ds, !.esp = f.esp] = h
    OBVIOUS
  <2> QED BY DEF VirtualCpu
<1>0. z \in BOOLEAN /\ z
  OBVIOUS
<1>2. /\ IsCpu(e) /\ Arith(e) = f.arith
      /\ e.ifl = IF c.iopl < c.cpl THEN c.ifl ELSE f.ifl
      /\ e.iopl = IF c.cpl > 0 THEN c.iopl ELSE f.iopl
  BY IretIs
<1> HIDE DEF v, i, s, k, g, z, e
<1>3. IsCpu(m) /\ SameBut(e, m, "vm") /\ m.vm = z
  BY <1>2, VmSet
<1> HIDE DEF m
<1>4. IsCpu(a) /\ SameBut(m, a, "ip") /\ a.ip = i
  BY <1>3, IpSet
<1> HIDE DEF a
<1>5. IsCpu(b) /\ SameBut(a, b, "ss") /\ b.ss = k
  BY <1>4, SsSet
<1> HIDE DEF b
<1>6. IsCpu(d) /\ SameBut(b, d, "ds") /\ d.ds = g
  BY <1>5, DsSet
<1> HIDE DEF d
<1>7. IsCpu(h) /\ SameBut(d, h, "esp") /\ h.esp = v
  BY <1>6, EspSet
<1> HIDE DEF h
<1>8. Arith(h) = Arith(e)
  <2> h.arith = e.arith /\ h.lazy = e.lazy
    BY <1>3, <1>4, <1>5, <1>6, <1>7 DEF SameBut
  <2> QED BY SameArith
<1>9. /\ IsCpu(r) /\ r.cs = s /\ r.cpl = IF os.real THEN 0 ELSE IF h.vm THEN 3 ELSE s.rpl
      /\ r.ip = h.ip /\ r.ss = h.ss /\ r.esp = h.esp /\ r.ds = h.ds
      /\ r.ifl = h.ifl /\ r.vm = h.vm /\ r.iopl = h.iopl /\ Arith(r) = Arith(h)
  BY <1>7, LoadCsIs
<1> HIDE DEF r
<1>10. /\ r.ip = i /\ r.ss = k /\ r.ds = g /\ r.esp = v /\ r.vm = z /\ r.ifl = e.ifl /\ r.iopl = e.iopl
  BY <1>3, <1>4, <1>5, <1>6, <1>7, <1>9 DEF SameBut
<1> QED BY <1>0, <1>1, <1>2, <1>8, <1>9, <1>10 DEF v, i, s, k, g

\* What is known of the program that waits and of its frame.
Remembered(w, f, v) ==
    /\ f.ip \in Int /\ f.esp \in Int /\ f.cs = v.cs /\ f.ip % Modulus(v.cs) = v.ip
    /\ w.how # "far" => f.ofss = v.ss /\ f.esp % Modulus(v.ss) = v.sp
    /\ f.ds = v.ds /\ f.ifl = v.ifl /\ f.vm = v.vm /\ f.iopl = v.iopl /\ f.arith = v.arith
    /\ v.ss = cpu.ss => /\ cpu.esp + f.size \in Int
                        /\ (cpu.esp + f.size) % Modulus(cpu.ss) = v.sp
    /\ w.how \in {"int", "far", "gate"}
    /\ w.how = "int" => ~cpu.vm /\ (~os.real /\ v.vm => cpu.ss.seg = "stack0")
    /\ w.how = "far" => cpu.vm = v.vm /\ cpu.ss = v.ss
    /\ w.how = "gate" => ~cpu.vm /\ ~v.vm /\ cpu.ss.seg = "stack0" /\ v.ss.seg = "stack3"

LEMMA Waiting ==
  ASSUME Ample, TInv, Done, NEW w, w = waits[1],
         NEW f, f = Found(cpu, w.how, w.wide), NEW v, v = w.ctx
  PROVE  Remembered(w, f, v) /\ IsProgram(v)
<1> DEFINE y == Context(cpu)
           d == Deep(y)
<1>1. Ours(f, y, w) /\ waits # <<>> /\ Fit /\ Nested(y, waits, frames) /\ Code(w) = 0
  BY FoundOurs, FitIs DEF TInv, XInv, Code
<1>2. IsProgram(y) /\ IsProgram(v) /\ Serves(y, w)
  BY <1>1, NestedTop
<1>3. y.ss = cpu.ss /\ y.sp = cpu.esp % Modulus(cpu.ss) /\ y.vm = cpu.vm
  BY ContextIs
<1>4. Tells(f, w) /\ Lies(f, y.ss, d - 0)
  BY <1>1 DEF Ours
<1>5. d \in Nat /\ y.sp \in 0 .. Modulus(y.ss) - 1 /\ v.sp \in 0 .. Modulus(v.ss) - 1
      /\ Deep(v) \in Nat
  BY <1>1, <1>2, DeepNat DEF IsProgram
<1> HIDE DEF y
<1>6. y.sp = Spot(y.ss, d) /\ v.sp = Spot(v.ss, Deep(v))
  BY <1>1, <1>5, DeepSpot
<1>7. ASSUME v.ss = cpu.ss
      PROVE  /\ cpu.esp + f.size \in Int
             /\ (cpu.esp + f.size) % Modulus(cpu.ss) = v.sp
  <2> DEFINE n == f.size
             x == cpu.esp
             k == -n
             D == Deep(v)
             s == cpu.ss
  <2>1. n \in Nat /\ x \in Int /\ k \in Int
    BY <1>4 DEF Lies, TInv
  <2>2. D + n + 0 = d
    BY <1>1, <1>3, <1>7 DEF Ours
  <2>3. x % Modulus(s) = Spot(s, d) /\ v.sp = Spot(s, D)
    BY <1>3, <1>6, <1>7
  <2>4. D \in Nat /\ d \in Int
    BY <1>5
  <2>5. x - k = x + n
    BY <2>1
  <2>6. d + k = D
    BY <2>1, <2>2, <2>4
  <2>7. x + n \in Int
    BY <2>1
  <2> HIDE DEF n, x, k, D, s, d
  <2>8. (x - k) % Modulus(s) = Spot(s, d + k)
    BY <1>1, <2>1, <2>3, <2>4, SpotMoves
  <2>9. (x + n) % Modulus(s) = v.sp
    BY <2>3, <2>5, <2>6, <2>8
  <2> QED BY <2>7, <2>9 DEF n, x, s
<1>8. /\ f.ip \in Int /\ f.esp \in Int /\ f.cs = v.cs /\ f.ip % Modulus(v.cs) = v.ip
      /\ w.how # "far" => f.ofss = v.ss /\ f.esp % Modulus(v.ss) = v.sp
      /\ f.ds = v.ds /\ f.ifl = v.ifl /\ f.vm = v.vm /\ f.iopl = v.iopl /\ f.arith = v.arith
  BY <1>4 DEF Tells
<1>9. /\ w.how \in {"int", "far", "gate"}
      /\ w.how = "int" => ~cpu.vm /\ (~os.real /\ v.vm => cpu.ss.seg = "stack0")
      /\ w.how = "far" => cpu.vm = v.vm /\ cpu.ss = v.ss
      /\ w.how = "gate" => ~cpu.vm /\ ~v.vm /\ cpu.ss.seg = "stack0" /\ v.ss.seg = "stack3"
  BY <1>2, <1>3 DEF Serves
<1> QED BY <1>2, <1>7, <1>8, <1>9 DEF Remembered

\* The registers a return begins with.
Begins(c, w, f, v) ==
    \/ w.how = "int" /\ c = IretFlags(cpu, f) /\ (v.vm \/ cpu.ds = v.ds)
    \/ w.how \in {"far", "gate"} /\ c = cpu

LEMMA BeginIs ==
  ASSUME Ample, GuestSystem, TInv, NEW w, NEW f, NEW v, Remembered(w, f, v), IsProgram(v), ~v.vm,
         NEW c, Begins(c, w, f, v)
  PROVE  /\ IsCpu(c) /\ c.ss = cpu.ss /\ c.esp = cpu.esp /\ c.ds = cpu.ds /\ c.vm = cpu.vm
         /\ c.iopl = v.iopl
         /\ w.how = "int" /\ (cpu.cpl = 0 \/ v.ss = cpu.ss) => c.ifl = v.ifl
         /\ w.how = "int" => Arith(c) = v.arith /\ c.ds = v.ds
         /\ w.how # "int" => c.ifl = cpu.ifl /\ Arith(c) = Arith(cpu)
<1>1. IsHere(cpu) /\ IsCpu(cpu) /\ Good(cpu) /\ cpu.iopl = os.iopl /\ os.iopl \in 0 .. 3
  BY Here, FitIs DEF IsHere, TInv, XInv, Fit, Plain
<1>2. v.iopl = os.iopl /\ f.iopl = v.iopl /\ f.ifl = v.ifl /\ v.ifl \in BOOLEAN /\ f.arith = v.arith
  BY DEF IsProgram, Remembered
<1>3. CASE w.how \in {"far", "gate"} /\ c = cpu
  BY <1>1, <1>2, <1>3
<1>4. CASE w.how = "int" /\ c = IretFlags(cpu, f) /\ cpu.ds = v.ds
  <2>1. /\ IsCpu(c) /\ c.cs = cpu.cs /\ c.ip = cpu.ip /\ c.ss = cpu.ss /\ c.esp = cpu.esp /\ c.ds = cpu.ds
        /\ c.cpl = cpu.cpl /\ c.vm = cpu.vm /\ Arith(c) = f.arith
        /\ c.ifl = IF cpu.iopl < cpu.cpl THEN cpu.ifl ELSE f.ifl
        /\ c.iopl = IF cpu.cpl > 0 THEN cpu.iopl ELSE f.iopl
    <3> DEFINE d == IretFlags(cpu, f)
    <3>1. /\ IsCpu(d) /\ d.cs = cpu.cs /\ d.ip = cpu.ip /\ d.ss = cpu.ss /\ d.esp = cpu.esp /\ d.ds = cpu.ds
          /\ d.cpl = cpu.cpl /\ d.vm = cpu.vm /\ Arith(d) = f.arith
          /\ d.ifl = IF cpu.iopl < cpu.cpl THEN cpu.ifl ELSE f.ifl
          /\ d.iopl = IF cpu.cpl > 0 THEN cpu.iopl ELSE f.iopl
      BY <1>1, IretIs
    <3> HIDE DEF d
    <3> QED BY <1>4, <3>1 DEF d
  <2>2. c.iopl = v.iopl
    BY <1>1, <1>2, <2>1
  <2>3. cpu.cpl = 0 => c.ifl = v.ifl
    BY <1>1, <1>2, <2>1
  <2>4. ASSUME cpu.cpl # 0, v.ss = cpu.ss PROVE c.ifl = v.ifl
    <3>1. ~os.real /\ ~cpu.vm /\ cpu.ss = Stack3 /\ cpu.ifl
      <4>1. ~os.real /\ cpu.cpl = 3 /\ ~cpu.vm
        BY <1>1, <1>4, <2>4 DEF Good, Levels, Remembered
      <4>2. cpu.ss = Stack3 /\ cpu.ifl
        BY <1>1, <4>1, StackNames DEF IsHere
      <4> QED BY <4>1, <4>2
    <3>2. v.ifl
      BY <2>4, <3>1, StackNames DEF IsProgram
    <3>3. cpu.ifl \in BOOLEAN
      BY <1>1 DEF IsHere
    <3> QED BY <1>2, <2>1, <3>1, <3>2, <3>3
  <2> QED BY <1>2, <1>4, <2>1, <2>2, <2>3, <2>4
<1> QED BY <1>3, <1>4 DEF Begins

LEMMA SameBack ==
  ASSUME Ample, GuestSystem, TInv, NEW w, NEW f, NEW v, v = w.ctx, Remembered(w, f, v), IsProgram(v),
         v.ss = cpu.ss, v.vm = cpu.vm, NEW c, Begins(c, w, f, v)
  PROVE  Back(SameCpu(c, f), w)
<1> DEFINE r == SameCpu(c, f)
<1>1. Fit /\ cpu.esp \in Int /\ cpu.esp + f.size \in Int /\ f.ip \in Int
      /\ (cpu.esp + f.size) % Modulus(cpu.ss) = v.sp /\ f.cs = v.cs /\ f.ip % Modulus(v.cs) = v.ip
  BY FitIs DEF TInv, XInv, Remembered
<1>2. CASE ~v.vm
  <2>1. /\ IsCpu(c) /\ c.ss = cpu.ss /\ c.esp = cpu.esp /\ c.ds = cpu.ds /\ c.vm = cpu.vm
        /\ c.iopl = v.iopl
        /\ w.how = "int" /\ (cpu.cpl = 0 \/ v.ss = cpu.ss) => c.ifl = v.ifl
        /\ w.how = "int" => Arith(c) = v.arith /\ c.ds = v.ds
        /\ w.how # "int" => c.ifl = cpu.ifl /\ Arith(c) = Arith(cpu)
    BY <1>2, BeginIs
  <2>2. c.esp \in Int
    BY <1>1, <2>1
  <2>3. /\ r.cs = f.cs /\ r.ip = f.ip /\ r.ss = c.ss /\ r.ds = c.ds
        /\ r.esp \in Int /\ r.esp % Modulus(r.ss) = (cpu.esp + f.size) % Modulus(c.ss)
        /\ r.ifl = c.ifl /\ r.vm = c.vm /\ r.iopl = c.iopl /\ Arith(r) = Arith(c)
    BY <1>1, <2>1, <2>2, SameCpuIs
  <2> HIDE DEF r
  <2>4. Back(r, w)
    BY <1>1, <2>1, <2>3 DEF Back
  <2> QED BY <2>4 DEF r
<1>3. CASE v.vm
  <2>1. c = cpu /\ w.how # "int" /\ IsCpu(cpu) /\ cpu.iopl = v.iopl
    BY <1>3, Here DEF Begins, Remembered, IsHere, IsProgram
  <2>3. /\ r.cs = f.cs /\ r.ip = f.ip /\ r.ss = c.ss /\ r.ds = c.ds
        /\ r.esp \in Int /\ r.esp % Modulus(r.ss) = (cpu.esp + f.size) % Modulus(c.ss)
        /\ r.ifl = c.ifl /\ r.vm = c.vm /\ r.iopl = c.iopl /\ Arith(r) = Arith(c)
    BY <1>1, <2>1, SameCpuIs
  <2> HIDE DEF r
  <2>4. Back(r, w)
    BY <1>1, <2>1, <2>3 DEF Back
  <2> QED BY <2>4 DEF r
<1>4. v.vm \in BOOLEAN
  BY DEF IsProgram
<1> QED BY <1>2, <1>3, <1>4

LEMMA OuterBack ==
  ASSUME Ample, GuestSystem, TInv, NEW w, NEW f, NEW v, v = w.ctx, Remembered(w, f, v), IsProgram(v),
         ~os.real, ~cpu.vm, ~v.vm, cpu.cpl = 0, v.cs.rpl = 3, NEW c, Begins(c, w, f, v)
  PROVE  Back(OuterCpu(c, f), w)
<1> DEFINE r == OuterCpu(c, f)
<1>1. /\ Fit /\ cpu.esp \in Int /\ f.ip \in Int /\ f.esp \in Int
      /\ f.cs = v.cs /\ f.ip % Modulus(v.cs) = v.ip
  BY FitIs DEF TInv, XInv, Remembered
<1>2. w.how # "far"
  <2>1. v.cs.rpl = v.ss.rpl
    BY DEF IsProgram
  <2>2. cpu.cpl = cpu.ss.rpl
    BY Here DEF IsHere
  <2> QED BY <2>1, <2>2 DEF Remembered
<1>3. f.ofss = v.ss /\ f.esp % Modulus(v.ss) = v.sp
  BY <1>2 DEF Remembered
<1>4. /\ IsCpu(c) /\ c.ss = cpu.ss /\ c.esp = cpu.esp /\ c.ds = cpu.ds /\ c.vm = cpu.vm
      /\ c.iopl = v.iopl
      /\ w.how = "int" /\ (cpu.cpl = 0 \/ v.ss = cpu.ss) => c.ifl = v.ifl
      /\ w.how = "int" => Arith(c) = v.arith /\ c.ds = v.ds
      /\ w.how # "int" => c.ifl = cpu.ifl /\ Arith(c) = Arith(cpu)
  BY BeginIs
<1>5. c.esp \in Int /\ ~c.vm
  BY <1>1, <1>4
<1>6. /\ r.cs = f.cs /\ r.ip = f.ip /\ r.ss = f.ofss
      /\ r.ds = IF Dpl(c.ds) < f.cs.rpl THEN Null ELSE c.ds
      /\ r.esp \in Int /\ r.esp % Modulus(r.ss) = f.esp % Modulus(f.ofss)
      /\ r.ifl = c.ifl /\ r.vm = c.vm /\ r.iopl = c.iopl /\ Arith(r) = Arith(c)
  BY <1>1, <1>4, <1>5, OuterCpuIs
<1>7. w.how = "int" => r.ds = v.ds
  <2> SUFFICES ASSUME w.how = "int" PROVE r.ds = v.ds
    OBVIOUS
  <2>1. v.ds # Null => Dpl(v.ds) >= 3
    BY DEF IsProgram
  <2>2. Dpl(v.ds) \in {0, 3}
    BY DplLevel DEF Levels
  <2>3. c.ds = v.ds /\ f.cs.rpl = 3
    BY <1>1, <1>4
  <2> QED BY <1>6, <2>1, <2>2, <2>3
<1> HIDE DEF r
<1>8. /\ r.esp \in Int /\ r.ip \in Int
      /\ r.cs = v.cs /\ r.ip % Modulus(r.cs) = v.ip
      /\ r.ss = v.ss /\ r.esp % Modulus(r.ss) = v.sp
      /\ r.vm = cpu.vm /\ r.iopl = v.iopl
  BY <1>1, <1>3, <1>4, <1>6
<1>9. cpu.vm = v.vm
  BY Here DEF IsHere, Good, IsProgram
<1>10. /\ w.how = "int" => r.ds = v.ds /\ r.ifl = v.ifl /\ Arith(r) = v.arith
       /\ w.how # "int" => r.ifl = cpu.ifl /\ Arith(r) = Arith(cpu)
  BY <1>4, <1>6, <1>7
<1>11. Back(r, w)
  BY <1>8, <1>9, <1>10 DEF Back
<1> QED BY <1>11 DEF r

LEMMA VirtualBack ==
  ASSUME Ample, GuestSystem, TInv, NEW w, NEW f, NEW v, v = w.ctx, Remembered(w, f, v), IsProgram(v),
         ~os.real, v.vm, w.how = "int"
  PROVE  Back(VirtualCpu(cpu, f), w)
<1> DEFINE r == VirtualCpu(cpu, f)
<1>1. IsHere(cpu) /\ IsCpu(cpu) /\ ~cpu.vm /\ cpu.ss.seg = "stack0" /\ os.iopl \in 0 .. 3
      /\ cpu.iopl = os.iopl
  BY Here, FitIs DEF IsHere, Remembered, TInv, XInv, Fit, Plain
<1>2. cpu.cpl = 0
  BY <1>1, StackNames DEF IsHere
<1>3. /\ r.cs = f.cs /\ r.ip = f.ip /\ r.ss = f.ofss /\ r.ds = f.ds /\ r.esp = f.esp
      /\ r.vm \in BOOLEAN /\ r.vm /\ Arith(r) = f.arith
      /\ r.ifl = IF cpu.iopl < cpu.cpl THEN cpu.ifl ELSE f.ifl
      /\ r.iopl = IF cpu.cpl > 0 THEN cpu.iopl ELSE f.iopl
  BY <1>1, VirtualCpuIs
<1> HIDE DEF r
<1>4. r.ifl = f.ifl /\ r.iopl = f.iopl
  BY <1>1, <1>2, <1>3
<1>5. v.vm = r.vm
  BY <1>3 DEF IsProgram
<1>6. Back(r, w)
  BY <1>3, <1>4, <1>5 DEF Back, Remembered
<1> QED BY <1>6 DEF r

LEMMA PmRetStep ==
  ASSUME Ample, GuestSystem, TInv, XInv', Done, NEW w, w = waits[1],
         NEW f, f = Found(cpu, w.how, w.wide), NEW v, v = w.ctx,
         ~os.real, ~cpu.vm, ~v.vm, NEW c, Begins(c, w, f, v), PmRet(c, f)
  PROVE  TInv' /\ (Nest!Enter \/ Nest!Leave)
<1>1. Remembered(w, f, v) /\ IsProgram(v)
  BY Waiting
<1>2. v.ss \in {Stack0, Stack3} /\ v.cs.rpl = v.ss.rpl /\ f.cs = v.cs
  BY <1>1 DEF IsProgram, Remembered, Stack0, Stack3
<1>3. cpu.ss \in {Stack0, Stack3} /\ cpu.cpl = cpu.ss.rpl
  BY Here DEF IsHere
<1>4. CASE Throws("np") \/ Throws("gp")
  BY <1>4, ThrowsStep DEF FaultVectors
<1>5. CASE f.cs.rpl = cpu.cpl /\ ToSame(c, f)
  <2>1. v.ss = cpu.ss /\ v.vm = cpu.vm
    <3>1. v.vm \in BOOLEAN /\ cpu.vm \in BOOLEAN
      BY <1>1, Here DEF IsProgram, IsHere, Good
    <3>2. v.vm = cpu.vm
      BY <3>1
    <3>3. v.ss = cpu.ss
      <4>1. v.ss.rpl = cpu.ss.rpl
        BY <1>2, <1>3, <1>5
      <4>2. Stack0.rpl # Stack3.rpl
        BY StackNames
      <4> QED BY <1>2, <1>3, <4>1, <4>2
    <3> QED BY <3>2, <3>3
  <2>2. Back(SameCpu(c, f), w)
    BY <1>1, <2>1, SameBack
  <2>3. Ends(SameCpu(c, f), f)
    BY <1>5, EndsAs
  <2> QED BY <2>2, <2>3, LeaveStep
<1>6. CASE ~(f.cs.rpl < cpu.cpl) /\ f.cs.rpl # cpu.cpl /\ ToOuter(c, f)
  <2>1. cpu.cpl = 0 /\ v.cs.rpl = 3
    BY <1>2, <1>3, <1>6, StackNames
  <2>2. Back(OuterCpu(c, f), w)
    BY <1>1, <2>1, OuterBack
  <2>3. Ends(OuterCpu(c, f), f)
    BY <1>6, EndsAs
  <2> QED BY <2>2, <2>3, LeaveStep
<1> QED BY <1>4, <1>5, <1>6 DEF PmRet

LEMMA IretStep ==
  ASSUME Ample, GuestSystem, TInv, XInv', Iret
  PROVE  TInv' /\ (Nest!Enter \/ Nest!Leave)
<1> DEFINE w == waits[1]
           f == Found(cpu, w.how, w.wide)
           v == w.ctx
           c == IretFlags(cpu, f)
<1>1. Done /\ Head(waits) = w
  BY FoundOurs DEF Iret
<1>2. w.how = "int" /\ ~cpu.vm /\ (v.vm \/ cpu.ds = v.ds)
      /\ IF os.real THEN ToSame(c, f) ELSE IF f.vm THEN ToVirtual(cpu, f) ELSE PmRet(c, f)
  BY <1>1 DEF Iret, Restored
<1>3. Remembered(w, f, v) /\ IsProgram(v)
  BY <1>1, Waiting
<1>4. f.vm = v.vm /\ v.vm \in BOOLEAN /\ (v.vm => os.vm)
  BY <1>3 DEF Remembered, IsProgram
<1>5. Begins(c, w, f, v)
  BY <1>2 DEF Begins
<1> HIDE DEF c
<1> HIDE DEF f
<1>0. f = Found(cpu, w.how, w.wide) /\ v = w.ctx
  BY DEF f
<1> HIDE DEF v
<1> HIDE DEF w
<1>w. w = waits[1]
  BY DEF w
<1>6. CASE os.real
  <2>1. ~v.vm /\ v.ss = Para /\ cpu.ss = Para
    <3>1. ~(os.real /\ os.vm)
      BY DEF GuestSystem, Kinds, TInv, XInv
    <3> QED BY <1>3, <1>4, <1>6, <3>1, Here DEF IsProgram, IsHere
  <2>2. v.vm = cpu.vm
    <3> cpu.vm \in BOOLEAN
      BY Here DEF IsHere, Good
    <3> QED BY <1>2, <1>4, <2>1
  <2>3. Back(SameCpu(c, f), w)
    BY <1>0, <1>3, <1>5, <2>1, <2>2, SameBack
  <2>4. Ends(SameCpu(c, f), f)
    BY <1>2, <1>6, EndsAs
  <2> QED BY <1>w, <1>0, <1>1, <2>3, <2>4, LeaveStep
<1>7. CASE ~os.real /\ f.vm
  <2>1. Back(VirtualCpu(cpu, f), w)
    BY <1>0, <1>2, <1>3, <1>4, <1>7, VirtualBack
  <2>2. Ends(VirtualCpu(cpu, f), f)
    BY <1>2, <1>7, EndsAs
  <2> QED BY <1>w, <1>0, <1>1, <2>1, <2>2, LeaveStep
<1>8. CASE ~os.real /\ ~f.vm
  <2> ~v.vm /\ PmRet(c, f)
    BY <1>2, <1>4, <1>8
  <2> QED BY <1>w, <1>0, <1>1, <1>2, <1>5, <1>8, PmRetStep
<1> QED BY <1>6, <1>7, <1>8

LEMMA RetFarStep ==
  ASSUME Ample, GuestSystem, TInv, XInv', RetFar
  PROVE  TInv' /\ (Nest!Enter \/ Nest!Leave)
<1> DEFINE w == waits[1]
           f == Found(cpu, w.how, w.wide)
           v == w.ctx
<1>1. Done /\ Head(waits) = w
  BY FoundOurs DEF RetFar
<1>2. w.how \in {"far", "gate"} /\ IF ByParagraph THEN ToSame(cpu, f) ELSE PmRet(cpu, f)
  BY <1>1 DEF RetFar
<1>3. Remembered(w, f, v) /\ IsProgram(v)
  BY <1>1, Waiting
<1>4. v.vm \in BOOLEAN /\ (v.vm => os.vm) /\ cpu.vm \in BOOLEAN
  BY <1>3, Here DEF IsProgram, IsHere, Good
<1>5. Begins(cpu, w, f, v)
  BY <1>2 DEF Begins
<1> HIDE DEF f
<1>0. f = Found(cpu, w.how, w.wide) /\ v = w.ctx
  BY DEF f
<1> HIDE DEF v
<1> HIDE DEF w
<1>w. w = waits[1]
  BY DEF w
<1>6. CASE ByParagraph
  <2>1. w.how = "far"
    <3>1. cpu.ss = Para
      BY <1>6, Here DEF ByParagraph, IsHere
    <3> QED BY <1>2, <1>3, <3>1, StackNames DEF Remembered
  <2>2. v.ss = cpu.ss /\ v.vm = cpu.vm
    BY <1>3, <2>1 DEF Remembered
  <2>3. Back(SameCpu(cpu, f), w)
    BY <1>0, <1>3, <1>5, <2>2, SameBack
  <2>4. Ends(SameCpu(cpu, f), f)
    BY <1>2, <1>6, EndsAs
  <2> QED BY <1>w, <1>0, <1>1, <2>3, <2>4, LeaveStep
<1>7. CASE ~ByParagraph
  <2>1. ~os.real /\ ~cpu.vm
    BY <1>7 DEF ByParagraph
  <2>2. ~v.vm
    BY <1>2, <1>3, <1>4, <2>1 DEF Remembered
  <2>3. PmRet(cpu, f)
    BY <1>2, <1>7
  <2> QED BY <1>w, <1>0, <1>1, <1>5, <2>1, <2>2, <2>3, PmRetStep
<1> QED BY <1>6, <1>7

LEMMA DropStep ==
  ASSUME Ample, GuestSystem, TInv, XInv', DropCode
  PROVE  TInv' /\ Nest!Work
<1> DEFINE x == Context(cpu)
           w == waits[1]
           u == Units(os.wide)
           v == cpu.esp + u
           d == WithSp(cpu, v)
           y == Context(d)
           g == Found(cpu, "code", os.wide)
           gs == frames \ {g}
           us == [waits EXCEPT ![1].code = FALSE]
           D == Deep(x)
           k == -u
           s == cpu.ss
<1>1. Fit /\ Nested(x, waits, frames) /\ waits # <<>> /\ IsHere(cpu)
  BY FitIs, Here DEF TInv, XInv, DropCode
<1>2. \E S : waits \in Seq(S)
  BY <1>1 DEF Nested
<1>3. Head(waits) = w
  BY <1>1, <1>2, PopSeq
<1>4. w.code /\ cpu' = d /\ waits' = us /\ frames' = gs /\ os' = os
  BY <1>3 DEF DropCode
<1>5. IsProgram(x) /\ Serves(x, w) /\ \E f \in frames : Ours(f, x, w)
  BY <1>1, NestedTop
<1>6. x.ss = s /\ x.sp = cpu.esp % Modulus(s) /\ x.vm = cpu.vm /\ x.ifl = cpu.ifl
  BY ContextIs
<1>7. u \in Nat /\ Code(w) = u
  BY <1>4 DEF Code, Units
<1>8. PICK f \in frames : Ours(f, x, w)
  BY <1>5
<1>9. D - u \in 0 .. Modulus(s) - 1
  BY <1>6, <1>7, <1>8 DEF Ours, Lies
<1>10. D \in Nat /\ x.sp = Spot(s, D)
  <2> x.sp \in 0 .. Modulus(s) - 1
    BY <1>5, <1>6 DEF IsProgram
  <2> QED BY <1>1, <1>5, <1>6, DeepSpot, DeepNat
<1>11. v \in Int /\ IsCpu(cpu) /\ cpu.esp \in Int /\ k \in Int /\ cpu.esp - k = v /\ D + k = D - u
  BY <1>1, <1>7, <1>10 DEF IsHere
<1> HIDE DEF v
<1>12. /\ IsCpu(d) /\ SameBut(cpu, d, "esp") /\ d.esp \in Int /\ d.esp % Modulus(d.ss) = v % Modulus(s)
  BY <1>1, <1>11, StackSet
<1> HIDE DEF d
<1>13. v % Modulus(s) = Spot(s, D - u)
  <2> HIDE DEF D, k, u, s
  <2>1. (cpu.esp - k) % Modulus(s) = Spot(s, D + k)
    BY <1>1, <1>6, <1>10, <1>11, SpotMoves
  <2> QED BY <1>11, <2>1
<1>14. /\ d.cs = cpu.cs /\ d.ip = cpu.ip /\ d.ss = s /\ d.ds = cpu.ds /\ d.ifl = cpu.ifl
       /\ d.vm = cpu.vm /\ d.iopl = cpu.iopl
  BY <1>12 DEF SameBut
<1>15. y.ss = s /\ y.sp = Spot(s, D - u) /\ y.vm = cpu.vm /\ y.ifl = cpu.ifl
  <2> y.ss = d.ss /\ y.sp = d.esp % Modulus(d.ss) /\ y.vm = d.vm /\ y.ifl = d.ifl
    BY ContextIs
  <2> QED BY <1>12, <1>13, <1>14
<1>16. Good(d)
  BY <1>4, GoodAfter
<1>17. IsProgram(y)
  <2>1. d.vm \/ os.real => d.ss = Para /\ d.cs = Para
    BY <1>1, <1>14 DEF IsHere
  <2>2. ~d.vm /\ ~os.real => d.ss \in {Stack0, Stack3} /\ (d.ss.rpl = 3 => d.ifl)
    BY <1>1, <1>14 DEF IsHere
  <2>3. d.iopl = os.iopl /\ d.ifl \in BOOLEAN /\ (d.vm => os.vm)
    BY <1>1, <1>14 DEF IsHere
  <2> QED BY <1>1, <1>12, <1>16, <2>1, <2>2, <2>3, ProgramIs
<1> HIDE DEF y
<1>18. Deep(y) = D - u
  <2> HIDE DEF D, u, s
  <2> QED BY <1>1, <1>9, <1>15, SpotDeep
<1>19. gs \subseteq frames /\ \A h \in frames : h.how # "code" => h \in gs
  <2> g.how = "code"
    BY FoundIs
  <2> QED OBVIOUS
<1> HIDE DEF gs, g
<1>20. y.ss = x.ss /\ y.vm = x.vm /\ y.ifl = x.ifl /\ Deep(y) = Deep(x) - Units(os.wide)
  BY <1>6, <1>15, <1>18
<1> HIDE DEF x, D, u
<1>21. Nested(y, us, gs)
  BY <1>1, <1>4, <1>17, <1>19, <1>20, DropNested
<1>22. AllToFind(us) = AllToFind(waits)
  <2>1. w = [ctx |-> w.ctx, how |-> w.how, wide |-> w.wide, code |-> w.code]
    BY <1>5 DEF Serves
  <2> QED BY <1>1, <1>2, <2>1, KnownDrop
<1> HIDE DEF us
<1>23. AllToFind(waits)' = AllToFind(waits)
  BY <1>4, <1>22 DEF AllToFind, ToFind
<1>24. TInv'
  <2> d.ip \in Int /\ d.esp \in Int
    BY <1>1, <1>12, <1>14 DEF IsHere
  <2> QED BY <1>4, <1>21, TLifted DEF y
<1> QED BY <1>23, <1>24, WorkDone

-----------------------------------------------------------------------------
(* All together. *)

LEMMA StepResumes ==
  ASSUME Ample, GuestSystem, TInv, [TNext]_tvars
  PROVE  TInv' /\ (Nest!Work \/ Nest!Enter \/ Nest!Leave)
<1>1. XInv'
  BY NextKeeps DEF TInv
<1>2. CASE UNCHANGED tvars
  BY <1>1, <1>2, SameStep DEF tvars
<1>3. CASE TNext
  <2>1. CASE Interrupt  BY <1>1, <2>1, InterruptStep
  <2>2. CASE PageFault
    <3> "pf" \in FaultVectors /\ Throws("pf")
      BY <2>2 DEF PageFault, FaultVectors
    <3> QED BY <1>1, ThrowsStep
  <2>3. CASE Sti  BY <1>1, <2>3, StiStep
  <2>4. CASE Advance  BY <1>1, <2>4, AdvanceStep
  <2>5. CASE DropCode  BY <1>1, <2>5, DropStep
  <2>6. CASE Iret  BY <1>1, <2>6, IretStep
  <2>7. CASE RetFar  BY <1>1, <2>7, RetFarStep
  <2>8. CASE \E b : Compute(b)  BY <1>1, <2>8, ComputeStep
  <2>9. CASE \E s \in DsChoices : LoadDs(s)  BY <1>1, <2>9, LoadStep
  <2>10. CASE \E v \in Called : IntN(v)  BY <1>1, <2>10, IntStep
  <2>11. CASE \E s \in DOMAIN Gdt : CallFar(s)  BY <1>1, <2>11, CallFarStep
  <2>12. CASE \E s \in DOMAIN Gdt : CallGate(s)  BY <1>1, <2>12, CallGateStep
  <2>13. CASE \E s \in Movable : Swap(s)
    <3> UNCHANGED <<os, cpu, frames, waits>>
      BY <2>13 DEF Swap
    <3> QED BY <1>1, SameStep
  <2> QED BY <1>3, <2>1, <2>2, <2>3, <2>4, <2>5, <2>6, <2>7, <2>8, <2>9, <2>10, <2>11, <2>12, <2>13
          DEF TNext
<1> QED BY <1>2, <1>3

LEMMA StartResumes ==
  ASSUME Ample, GuestSystem, TInit
  PROVE  TInv /\ AllToFind(waits) = <<>>
<1> DEFINE x == Context(cpu)
<1>1. XInv /\ os \in Systems
  BY InitHolds DEF TInit
<1>2. Fit /\ R \in Nat \ {0} /\ DEPTH \in Nat /\ os.start \in Nat
  BY <1>1, FitIs DEF Fit, Numbers, Plain
<1>3. /\ waits = <<>> /\ frames = {} /\ cpu.esp = os.start /\ cpu.ip = R - 1 /\ cpu.iopl = os.iopl
      /\ cpu.vm = os.vm
      /\ cpu.cs = IF os.real \/ os.vm THEN Para ELSE Sel("app", 3)
      /\ cpu.ss = IF os.real \/ os.vm THEN Para ELSE Sel("stack3", 3)
  BY DEF TInit
<1>4. cpu.ifl \in BOOLEAN /\ cpu.ifl
  BY DEF TInit
<1>5. cpu.esp \in Int /\ cpu.ip \in Int
  BY <1>2, <1>3
<1>6. IsProgram(x)
  <2>1. Good(cpu)
    BY <1>1 DEF XInv
  <2>2. /\ cpu.vm => os.vm
        /\ cpu.vm \/ os.real => cpu.ss = Para /\ cpu.cs = Para
        /\ ~cpu.vm /\ ~os.real => cpu.ss \in {Stack0, Stack3}
    BY <1>3 DEF Stack3
  <2> QED BY <1>2, <1>3, <1>4, <1>5, <2>1, <2>2, ProgramIs
<1>7. Deep(x) = 0
  <2> DEFINE m == Modulus(cpu.ss)
  <2>1. x.ss = cpu.ss /\ x.sp = os.start % m
    BY <1>3, ContextIs
  <2>2. Base(cpu.ss) = os.start
    BY <1>3, StackNames DEF Base, Stack3
  <2>3. m \in Nat \ {0}
    BY <1>2, Stacks
  <2> HIDE DEF x, m
  <2>4. 0 \in 0 .. m - 1 /\ os.start - 0 = os.start
    BY <1>2, <2>3
  <2>5. x.sp = Spot(x.ss, 0)
    BY <2>1, <2>2, <2>4 DEF Spot, m
  <2> QED BY <1>2, <2>1, <2>4, <2>5, SpotDeep DEF m
<1>8. waits \in Seq({}) /\ Len(waits) = 0
  BY <1>3, EmptySeq
<1> HIDE DEF x
<1>9. Bounded(x, 0)
  <2> DEFINE k == MostPushed(os, x.ss.seg)
  <2> k \in Nat
    BY <1>2, MostNat
  <2> HIDE DEF k
  <2> k * 0 = 0
    OBVIOUS
  <2> QED BY <1>7 DEF Bounded, k
<1>10. Nested(x, waits, frames)
  <2>1. At(x, waits, 1) = x
    BY DEF At
  <2>2. \A i \in 1 .. Len(waits) + 1 : i = 1 /\ Len(waits) + 1 - i = 0
    BY <1>8
  <2>3. Len(waits) <= DEPTH /\ \A i \in 1 .. Len(waits) : FALSE
    BY <1>2, <1>8
  <2>4. Apart(frames)
    BY <1>3 DEF Apart
  <2> QED BY <1>6, <1>8, <1>9, <2>1, <2>2, <2>3, <2>4 DEF Nested
<1>11. AllToFind(waits) = <<>>
  <2>1. DOMAIN waits = {}
    BY <1>3
  <2>2. AllToFind(waits) = AllToFind(<<>>)
    BY <1>3
  <2>3. /\ \E T : AllToFind(waits) \in Seq(T)
        /\ Len(AllToFind(waits)) = 0
    BY <1>8, KnownSeq
  <2> QED BY <2>3, EmptySeq
<1> QED BY <1>1, <1>5, <1>10, <1>11 DEF TInv, x

\* Interrupts, faults and calls (call_isr, pmcall) give the program back as it was when
\* they return (pmret, IRET, RETF), at whatever depth they nest: to every step of the
\* CPU belongs one of Contexts, which works, saves what runs, or resumes the last saved.
THEOREM ProgramsResume == TSpec => Resumes
<1> GuestSystem /\ Ample
  BY GuestAssumption
<1> DEFINE cur == Context(cpu)
           beyond == Context(Past(cpu))
           saved == [i \in DOMAIN waits |-> [ctx |-> waits[i].ctx, call |-> waits[i].how # "int"]]
<1>1. saved = AllToFind(waits)
  BY DEF AllToFind, ToFind
<1>2. TInit => TInv /\ saved = <<>>
  BY <1>1, StartResumes
<1>3. TInv /\ [TNext]_tvars => TInv' /\ [Nest!Work \/ Nest!Enter \/ Nest!Leave]_<<cur, beyond, saved>>
  BY StepResumes
<1> QED BY <1>2, <1>3, PTL DEF TSpec, Resumes, Nest!ContextsSpec

-----------------------------------------------------------------------------
(* The registers keep their width. *)

Esps == 0 .. R * R - 1

\* The instruction after the last of 64 KiB is as far as EIP gets in a 32-bit segment.
Trim(c) == c.esp \in Esps /\ c.ip \in 0 .. R

TrimFrame(f) == f.esp \in Esps /\ f.ip \in 0 .. R /\ f.size \in Int
TrimFrames(fs) == \A f \in fs : TrimFrame(f)
TrimOutcome(r) == Trim(r.cpu) /\ TrimFrames(r.frames)

Bounds == Fit /\ R > 1 /\ os.top \in Esps /\ os.start \in Esps

LEMMA BoundsAre == ASSUME os \in Systems PROVE Bounds
<1> Ample
  BY GuestAssumption
<1> QED BY FitIs, RegistersAssumption DEF Bounds, Esps

LEMMA Widths ==
  ASSUME Bounds
  PROVE  /\ R \in Nat /\ R * R \in Nat /\ R < R * R /\ Esps \subseteq Int
         /\ \A s : Modulus(s) \in {R, R * R}
<1>1. R \in Nat /\ R > 1
  BY DEF Bounds, Fit, Numbers
<1>2. 2 * R <= R * R /\ R * R \in Int
  BY <1>1, TimesLe
<1>3. \A s : Modulus(s) \in {R, R * R}
  BY DEF Modulus
<1> QED BY <1>1, <1>2, <1>3 DEF Esps

\* A new low half leaves a number of the same width.
LEMMA LowHalf ==
  ASSUME Bounds, NEW x \in Esps, NEW v \in Int, NEW m \in {R, R * R}
  PROVE  (v % m) + (x \div m) * m \in Esps
<1>1. R \in Nat /\ R > 1 /\ R * R \in Nat /\ R < R * R /\ m \in Nat \ {0}
  BY Widths DEF Bounds
<1>2. v % m \in 0 .. m - 1 /\ x % m \in 0 .. m - 1 /\ x \in Int
  BY <1>1, Remainder DEF Esps
<1> DEFINE k == x \div m
<1>3. k \in Int /\ x = k * m + (x % m)
  BY <1>1, <1>2, Z3
<1>4. x \in 0 .. R * R - 1
  BY DEF Esps
<1> HIDE DEF k
<1>5. k * m \in Int /\ 0 <= k
  <2>1. k * m \in Int
    BY <1>1, <1>3, TimesSum
  <2>2. CASE k <= -1
    <3> k * m <= (-1) * m /\ (-1) * m = -m
      BY <1>1, <1>3, <2>2, TimesLe
    <3> QED BY <1>1, <1>2, <1>3, <1>4, <2>1
  <2> QED BY <1>3, <2>1, <2>2
<1>6. 0 <= k * m
  <2> 0 * m <= k * m /\ 0 * m = 0
    BY <1>1, <1>3, <1>5, TimesLe
  <2> QED OBVIOUS
<1>7. k * m + m <= R * R
  <2>1. CASE m = R * R
    <3>1. CASE k >= 1
      <4> 1 * m <= k * m /\ 1 * m = m
        BY <1>1, <1>3, <3>1, TimesLe
      <4> QED BY <1>2, <1>3, <1>4, <1>5, <2>1, <3>1
    <3>2. CASE k = 0
      <4> 0 * m = 0
        BY <1>1
      <4> QED BY <1>1, <2>1, <3>2
    <3> QED BY <1>3, <1>5, <3>1, <3>2
  <2>2. CASE m = R
    <3>0. k * m = k * R /\ k * R \in Int /\ R \in Nat
      BY <1>1, <1>3, <2>2, TimesSum
    <3>1. CASE k >= R
      <4> R * R <= k * R
        BY <1>1, <1>3, <3>1, TimesLe
      <4> QED BY <1>2, <1>3, <1>4, <1>5, <3>0
    <3>2. CASE k + 1 <= R
      <4>1. (k + 1) * R <= R * R /\ (k + 1) * R \in Int
        BY <1>1, <1>3, <3>2, TimesLe
      <4>2. (k + 1) * R = k * R + 1 * R /\ 1 * R = R
        BY <1>1, <1>3, TimesSum
      <4> QED BY <1>1, <2>2, <3>0, <4>1, <4>2
    <3> QED BY <1>1, <1>3, <3>1, <3>2
  <2> QED BY <2>1, <2>2
<1>8. (v % m) + k * m \in 0 .. R * R - 1
  BY <1>1, <1>2, <1>5, <1>6, <1>7
<1> QED BY <1>8 DEF Esps, k

LEMMA WithSpTrim ==
  ASSUME Bounds, NEW c, IsCpu(c), c.esp \in Esps, NEW v \in Int
  PROVE  LET d == WithSp(c, v) IN IsCpu(d) /\ SameBut(c, d, "esp") /\ d.esp \in Esps
<1> DEFINE m == Modulus(c.ss)
           e == (v % m) + (c.esp \div m) * m
           d == [c EXCEPT !.esp = e]
<1>1. WithSp(c, v) = d
  BY DEF WithSp, IsCpu
<1>2. e \in Esps
  <2> m \in {R, R * R}
    BY Widths
  <2> HIDE DEF m
  <2> QED BY LowHalf
<1> HIDE DEF e
<1>3. IsCpu(d) /\ SameBut(c, d, "esp") /\ d.esp = e
  BY EspSet
<1> QED BY <1>1, <1>2, <1>3

LEMMA CutTrim ==
  ASSUME Bounds, NEW wide
  PROVE  /\ \A v \in Esps : Cut(wide, v) \in Esps
         /\ \A v \in 0 .. R : Cut(wide, v) \in 0 .. R
<1>1. R \in Nat \ {0} /\ R * R \in Nat /\ R < R * R
  BY Widths DEF Bounds
<1>2. \A v \in Int : v % R \in 0 .. R - 1
  BY <1>1, Remainder
<1>3. 0 .. R - 1 \subseteq Esps /\ 0 .. R - 1 \subseteq 0 .. R /\ Esps \subseteq Int
  BY <1>1 DEF Esps
<1>4. \A v \in Int : v % R \in Esps /\ v % R \in 0 .. R
  BY <1>2, <1>3
<1>5. \A v \in Esps : Cut(wide, v) \in Esps
  BY <1>3, <1>4 DEF Cut
<1>6. \A v \in 0 .. R : v \in Int /\ Cut(wide, v) \in 0 .. R
  BY <1>1, <1>4 DEF Cut
<1> QED BY <1>5, <1>6

LEMMA FrameTrim ==
  ASSUME Bounds, NEW c, NEW how, NEW wide, NEW n \in Nat, NEW of, Trim(of)
  PROVE  TrimFrame(Frame(c, how, wide, n, of))
<1> DEFINE f == Frame(c, how, wide, n, of)
<1>1. f.size = n * Units(wide) /\ f.ip = Cut(wide, of.ip) /\ f.esp = Cut(wide, of.esp)
  BY DEF Frame
<1>2. n * Units(wide) \in Int
  BY DEF Units
<1> HIDE DEF f
<1>3. TrimFrame(f)
  BY <1>1, <1>2, CutTrim DEF TrimFrame, Trim
<1> QED BY <1>3 DEF f

LEMMA PushedTrim ==
  ASSUME Bounds, NEW c, IsCpu(c), c.esp \in Esps, NEW of, Trim(of), TrimFrames(frames),
         NEW how, NEW wide, NEW n \in Nat, NEW code \in BOOLEAN
  PROVE  LET p == Pushed(c, how, wide, n, of, code) IN
         IsCpu(p.cpu) /\ SameBut(c, p.cpu, "esp") /\ p.cpu.esp \in Esps /\ TrimFrames(p.frames)
<1> DEFINE f == Frame(c, how, wide, n, of)
           v == c.esp - f.size
           d == WithSp(c, v)
           g == Frame(d, "code", wide, 1, of)
           w == d.esp - g.size
           h == WithSp(d, w)
           one == Put(frames, f)
           two == Put(one, g)
<1>1. TrimFrame(f) /\ TrimFrame(g)
  BY FrameTrim
<1>2. Pushed(c, how, wide, n, of, code) = IF code THEN Moves(h, two) ELSE Moves(d, one)
  BY DEF Pushed
<1>3. TrimFrames(one) /\ TrimFrames(two)
  <2> HIDE DEF f, g
  <2> QED BY <1>1 DEF TrimFrames, Put
<1> HIDE DEF f
<1>4. v \in Int
  BY <1>1, Widths DEF TrimFrame
<1> HIDE DEF v
<1>5. IsCpu(d) /\ SameBut(c, d, "esp") /\ d.esp \in Esps
  BY <1>4, WithSpTrim
<1> HIDE DEF d, g
<1>6. w \in Int
  BY <1>1, <1>5, Widths DEF TrimFrame
<1> HIDE DEF w
<1>7. IsCpu(h) /\ SameBut(d, h, "esp") /\ h.esp \in Esps
  BY <1>5, <1>6, WithSpTrim
<1> HIDE DEF h, one, two
<1>8. SameBut(c, h, "esp")
  BY <1>5, <1>7 DEF SameBut
<1> QED BY <1>2, <1>3, <1>5, <1>7, <1>8 DEF Moves

-----------------------------------------------------------------------------
(* call_isr. *)

LEMMA EnteredTrim ==
  ASSUME Bounds, NEW c, IsCpu(c), c.esp \in Esps, NEW s, NEW t
  PROVE  Trim(Entered(c, s, t))
<1>1. Entered(c, s, t).ip = 0 /\ Entered(c, s, t).esp = c.esp
  BY EnteredIs
<1> QED BY <1>1, Widths DEF Trim

LEMMA RealTrim ==
  ASSUME Bounds, NEW c, IsCpu(c), Trim(c), TrimFrames(frames)
  PROVE  TrimOutcome(RealIsr(c))
<1> DEFINE p == Pushed(c, "int", FALSE, 3, c, FALSE)
           m == p.cpu.esp % R
           d == [p.cpu EXCEPT !.esp = m]
           r == Entered(d, Para, FALSE)
<1>1. IsCpu(p.cpu) /\ p.cpu.esp \in Esps /\ TrimFrames(p.frames)
  BY PushedTrim DEF Trim
<1>2. RealIsr(c) = Moves(r, p.frames)
  BY DEF RealIsr
<1> HIDE DEF p
<1>3. m \in Esps
  <2> R \in Nat \ {0} /\ R * R \in Nat /\ R < R * R /\ p.cpu.esp \in Int
    BY <1>1, Widths DEF Bounds
  <2> m \in 0 .. R - 1
    BY Remainder
  <2> QED BY DEF Esps
<1> HIDE DEF m
<1>4. IsCpu(d) /\ d.esp = m
  BY <1>1, EspSet
<1> HIDE DEF d
<1>5. Trim(r)
  BY <1>3, <1>4, EnteredTrim
<1> HIDE DEF r
<1> QED BY <1>1, <1>2, <1>5 DEF TrimOutcome, Moves

LEMMA SameTrim ==
  ASSUME Bounds, NEW c, IsCpu(c), Trim(c), TrimFrames(frames), NEW v, NEW code \in BOOLEAN
  PROVE  TrimOutcome(SameIsr(c, v, code))
<1> DEFINE p == Pushed(c, "int", os.wide, 3, c, code)
           r == Entered(p.cpu, Sel(Idt[v].cs, c.cpl), Idt[v].trap)
<1>1. IsCpu(p.cpu) /\ p.cpu.esp \in Esps /\ TrimFrames(p.frames)
  BY PushedTrim DEF Trim
<1>2. SameIsr(c, v, code) = Moves(r, p.frames)
  BY DEF SameIsr
<1> HIDE DEF p
<1>3. Trim(r)
  BY <1>1, EnteredTrim
<1> HIDE DEF r
<1> QED BY <1>1, <1>2, <1>3 DEF TrimOutcome, Moves

LEMMA InnerStackTrim ==
  ASSUME Bounds, NEW c, IsCpu(c), NEW l
  PROVE  LET d == InnerStack(c, l) IN IsCpu(d) /\ d.esp \in Esps /\ d.ip = c.ip
<1> DEFINE s == Sel("stack0", l)
           t == os.top
           e == [c EXCEPT !.ss = s]
           d == [e EXCEPT !.esp = t]
<1>1. InnerStack(c, l) = d
  BY DEF InnerStack
<1>2. t \in Esps
  BY DEF Bounds
<1> HIDE DEF s, t
<1>3. IsCpu(e) /\ SameBut(c, e, "ss")
  BY SsSet
<1> HIDE DEF e
<1>4. IsCpu(d) /\ SameBut(e, d, "esp") /\ d.esp = t
  BY <1>3, EspSet
<1> HIDE DEF d
<1> QED BY <1>1, <1>2, <1>3, <1>4 DEF SameBut

LEMMA InnerTrim ==
  ASSUME Bounds, NEW c, IsCpu(c), Trim(c), TrimFrames(frames), NEW v, NEW code \in BOOLEAN
  PROVE  TrimOutcome(InnerIsr(c, v, code))
<1> DEFINE l == Gdt[Idt[v].cs].dpl
           i == InnerStack(c, l)
           p == Pushed(i, "int", os.wide, 5, c, code)
           n == IF code THEN 6 ELSE 5
           k == os.top - 2 * n
           m == IF os.wide THEN k % (R * R) ELSE p.cpu.esp
           d == [p.cpu EXCEPT !.esp = m]
           r == Entered(d, Sel(Idt[v].cs, l), Idt[v].trap)
<1>1. IsCpu(i) /\ i.esp \in Esps
  BY InnerStackTrim
<1>2. InnerIsr(c, v, code) = Moves(r, p.frames)
  BY DEF InnerIsr
<1> HIDE DEF i, l
<1>3. IsCpu(p.cpu) /\ p.cpu.esp \in Esps /\ TrimFrames(p.frames)
  BY <1>1, PushedTrim
<1> HIDE DEF p
<1>4. m \in Esps
  <2>1. R * R \in Nat \ {0} /\ k \in Int
    BY Widths DEF Bounds
  <2> HIDE DEF k
  <2>2. k % (R * R) \in Esps
    BY <2>1, Remainder DEF Esps
  <2> QED BY <1>3, <2>2
<1> HIDE DEF m
<1>5. IsCpu(d) /\ d.esp = m
  BY <1>3, EspSet
<1> HIDE DEF d
<1>6. Trim(r)
  BY <1>4, <1>5, EnteredTrim
<1> HIDE DEF r
<1> QED BY <1>2, <1>3, <1>6 DEF TrimOutcome, Moves

LEMMA VirtualTrim ==
  ASSUME Bounds, NEW c, IsCpu(c), Trim(c), TrimFrames(frames), NEW v, NEW code \in BOOLEAN
  PROVE  TrimOutcome(VirtualIsr(c, v, code))
<1> DEFINE i == InnerStack(c, 0)
           z == FALSE
           g == Null
           o == [i EXCEPT !.vm = z]
           p == Pushed(o, "int", TRUE, 9, c, code)
           d == [p.cpu EXCEPT !.ds = g]
           r == Entered(d, Sel(Idt[v].cs, 0), Idt[v].trap)
<1>1. IsCpu(i) /\ i.esp \in Esps
  BY InnerStackTrim
<1>2. VirtualIsr(c, v, code) = Moves(r, p.frames)
  BY DEF VirtualIsr
<1> HIDE DEF i, z, g
<1>3. IsCpu(o) /\ SameBut(i, o, "vm")
  BY <1>1, VmSet
<1> HIDE DEF o
<1>4. o.esp \in Esps
  BY <1>1, <1>3 DEF SameBut
<1>5. IsCpu(p.cpu) /\ p.cpu.esp \in Esps /\ TrimFrames(p.frames)
  BY <1>3, <1>4, PushedTrim
<1> HIDE DEF p
<1>6. IsCpu(d) /\ SameBut(p.cpu, d, "ds")
  BY <1>5, DsSet
<1> HIDE DEF d
<1>7. d.esp \in Esps
  BY <1>5, <1>6 DEF SameBut
<1>8. Trim(r)
  BY <1>6, <1>7, EnteredTrim
<1> HIDE DEF r
<1> QED BY <1>2, <1>5, <1>8 DEF TrimOutcome, Moves

LEMMA IsrTrim ==
  ASSUME Bounds, NEW c, IsCpu(c), Trim(c), TrimFrames(frames), NEW v, NEW code \in BOOLEAN,
         NEW ext, CallIsr(c, v, code, ext).exc = "none"
  PROVE  TrimOutcome(CallIsr(c, v, code, ext))
<1> DEFINE r == CallIsr(c, v, code, ext)
<1>1. r \in {RealIsr(c), VirtualIsr(c, v, code), InnerIsr(c, v, code), SameIsr(c, v, code),
             Fails("gp"), Fails("np")}
  BY DEF CallIsr
<1>2. r # Fails("gp") /\ r # Fails("np")
  BY DEF Fails
<1> HIDE DEF r
<1>3. TrimOutcome(r)
  BY <1>1, <1>2, RealTrim, VirtualTrim, InnerTrim, SameTrim
<1> QED BY <1>3 DEF r

-----------------------------------------------------------------------------
(* The steps. *)

TrimInv == TInv /\ Trim(cpu) /\ TrimFrames(frames)
TrimAfter == Trim(cpu') /\ TrimFrames(frames')

LEMMA TrimNow ==
  ASSUME TrimInv
  PROVE  /\ Bounds /\ IsCpu(cpu) /\ Good(cpu) /\ Trim(cpu) /\ TrimFrames(frames)
         /\ absent \subseteq Movable
<1> os \in Systems /\ Good(cpu) /\ absent \subseteq Movable
  BY DEF TrimInv, TInv, XInv
<1> QED BY BoundsAre DEF TrimInv, Good

LEMMA PastTrim ==
  ASSUME TrimInv, Once
  PROVE  IsCpu(Past(cpu)) /\ Good(Past(cpu)) /\ Trim(Past(cpu))
<1> DEFINE i == Ip(cpu) + 1
           d == [cpu EXCEPT !.ip = i]
<1>1. Past(cpu) = d
  BY DEF Past
<1>2. i \in 0 .. R
  <2> R \in Nat /\ R > 1 /\ Ip(cpu) \in {0, R - 1}
    BY TrimNow, Widths DEF Bounds, Once
  <2> QED OBVIOUS
<1> HIDE DEF i
<1>3. IsCpu(d) /\ SameBut(cpu, d, "ip") /\ d.ip = i
  BY TrimNow, IpSet
<1> HIDE DEF d
<1>4. Trim(d)
  BY <1>2, <1>3, TrimNow DEF SameBut, Trim
<1>5. Good(d)
  BY <1>3, TrimNow, AlikeGood DEF SameBut, Alike
<1> QED BY <1>1, <1>3, <1>4, <1>5

LEMMA ThrowsTrim ==
  ASSUME GuestSystem, TrimInv, NEW v \in FaultVectors, Throws(v)
  PROVE  TrimAfter
<1> DEFINE r == CallIsr(cpu, v, TRUE, TRUE)
<1>1. r.exc = "none"
  BY TrimNow, FaultTaken
<1>2. TrimOutcome(r)
  BY <1>1, TrimNow, IsrTrim
<1>3. cpu' = r.cpu /\ frames' = r.frames
  BY DEF Throws, Takes
<1> HIDE DEF r
<1> QED BY <1>2, <1>3 DEF TrimOutcome, TrimAfter

LEMMA InterruptTrim ==
  ASSUME GuestSystem, TrimInv, Interrupt
  PROVE  TrimAfter
<1> DEFINE r == CallIsr(cpu, "hw", FALSE, TRUE)
<1>1. r.exc = "none"
  <2> "hw" \in FaultVectors
    BY DEF FaultVectors
  <2> QED BY TrimNow, FaultTaken
<1>2. TrimOutcome(r)
  BY <1>1, TrimNow, IsrTrim
<1>3. cpu' = r.cpu /\ frames' = r.frames
  BY DEF Interrupt, Takes
<1> HIDE DEF r
<1> QED BY <1>2, <1>3 DEF TrimOutcome, TrimAfter

LEMMA IntTrim ==
  ASSUME GuestSystem, TrimInv, Once, NEW v \in Called, IntN(v)
  PROVE  TrimAfter
<1> DEFINE r == CallIsr(Past(cpu), v, FALSE, FALSE)
<1>1. \/ Throws("gp")
      \/ r.exc # "none" /\ Throws(r.exc)
      \/ r.exc = "none" /\ Takes(r)
  BY DEF IntN
<1>2. r.exc \in {"gp", "np", "none"}
  <2> v \in DOMAIN Idt
    BY DEF GuestSystem, Vectors
  <2> GoodFrames(frames)
    BY DEF TrimInv, TInv, XInv
  <2> QED BY PastTrim, IsrGood
<1>3. r.exc = "none" => TrimOutcome(r)
  BY PastTrim, TrimNow, IsrTrim
<1> HIDE DEF r
<1>4. {"gp", "np"} \subseteq FaultVectors
  BY DEF FaultVectors
<1> QED BY <1>1, <1>2, <1>3, <1>4, ThrowsTrim DEF Takes, TrimOutcome, TrimAfter

LEMMA SameRegisters ==
  ASSUME TrimInv, NEW d, cpu' = d, Trim(d), UNCHANGED frames
  PROVE  TrimAfter
  BY DEF TrimInv, TrimAfter

LEMMA StepsHere ==
  ASSUME TrimInv, NEW s, NEW b
  PROVE  /\ Trim([cpu EXCEPT !.ds = s]) /\ Trim([cpu EXCEPT !.lazy = b])
         /\ Trim([cpu EXCEPT !.ifl = b])
<1>1. SameBut(cpu, [cpu EXCEPT !.ds = s], "ds")
  BY TrimNow, DsSet
<1>2. SameBut(cpu, [cpu EXCEPT !.lazy = b], "lazy")
  BY TrimNow, LazySet
<1>3. SameBut(cpu, [cpu EXCEPT !.ifl = b], "ifl")
  BY TrimNow, IflSet
<1> QED BY <1>1, <1>2, <1>3, TrimNow DEF Trim, SameBut

LEMMA AdvanceTrim ==
  ASSUME TrimInv, Advance
  PROVE  TrimAfter
<1>1. CASE Ip(cpu) = R - 1
  <2> cpu' = Past(cpu) /\ UNCHANGED frames
    BY <1>1 DEF Advance, Stays
  <2> QED BY <1>1, PastTrim, SameRegisters DEF Once
<1>2. CASE Ip(cpu) # R - 1
  <2> DEFINE i == R - 1
             d == [cpu EXCEPT !.ip = i]
  <2>1. cpu' = d /\ UNCHANGED frames
    BY <1>2 DEF Advance, Stays
  <2>2. i \in 0 .. R
    <3> R \in Nat /\ R > 1
      BY TrimNow, Widths DEF Bounds
    <3> QED OBVIOUS
  <2> HIDE DEF i
  <2>3. SameBut(cpu, d, "ip") /\ d.ip = i
    BY TrimNow, IpSet
  <2> HIDE DEF d
  <2> QED BY <2>1, <2>2, <2>3, TrimNow, SameRegisters DEF Trim, SameBut
<1> QED BY <1>1, <1>2

LEMMA CallsTrim ==
  ASSUME TrimInv, Once, NEW c, IsCpu(c), c.esp \in Esps, NEW how, NEW wide, NEW n \in Nat, NEW to,
         Calls(c, how, wide, n, to)
  PROVE  TrimAfter
<1> DEFINE q == Past(cpu)
           p == Pushed(c, how, wide, n, q, FALSE)
           i == 0
           l == LoadCs(p.cpu, to)
           d == [l EXCEPT !.ip = i]
<1>1. cpu' = d /\ frames' = p.frames
  BY DEF Calls
<1>2. Trim(q)
  BY PastTrim
<1> HIDE DEF q
<1>3. IsCpu(p.cpu) /\ p.cpu.esp \in Esps /\ TrimFrames(p.frames)
  BY <1>2, TrimNow, PushedTrim
<1> HIDE DEF p
<1>4. IsCpu(l) /\ l.esp = p.cpu.esp
  BY <1>3, LoadCsIs
<1>5. i \in 0 .. R
  <2> R \in Nat
    BY TrimNow, Widths
  <2> QED OBVIOUS
<1> HIDE DEF l, i
<1>6. SameBut(l, d, "ip") /\ d.ip = i
  BY <1>4, IpSet
<1> HIDE DEF d
<1> QED BY <1>1, <1>3, <1>4, <1>5, <1>6 DEF SameBut, Trim, TrimAfter

LEMMA CallFarTrim ==
  ASSUME GuestSystem, TrimInv, Once, NEW s, CallFar(s)
  PROVE  TrimAfter
<1>1. \/ Throws("np") \/ Throws("gp")
      \/ \E to, wide : Calls(cpu, "far", wide, 2, to)
  BY DEF CallFar
<1>2. cpu.esp \in Esps /\ IsCpu(cpu)
  BY TrimNow DEF Trim
<1> QED BY <1>1, <1>2, ThrowsTrim, CallsTrim DEF FaultVectors

LEMMA CallGateTrim ==
  ASSUME GuestSystem, TrimInv, Once, NEW s, CallGate(s)
  PROVE  TrimAfter
<1> DEFINE l == Gdt[s].dpl
           n == 4 + PARAMS
<1>1. \/ Throws("np") \/ Throws("gp")
      \/ \E to, wide : Calls(InnerStack(cpu, l), "gate", wide, n, to)
      \/ \E to, wide : Calls(cpu, "far", wide, 2, to)
  BY DEF CallGate
<1>2. cpu.esp \in Esps /\ IsCpu(cpu)
  BY TrimNow DEF Trim
<1>3. n \in Nat
  <2> PARAMS \in Nat
    BY TrimNow DEF Bounds, Fit, Numbers
  <2> QED OBVIOUS
<1> HIDE DEF l, n
<1>4. InnerStack(cpu, l).esp \in Esps /\ IsCpu(InnerStack(cpu, l))
  BY <1>2, TrimNow, InnerStackTrim
<1> QED BY <1>1, <1>2, <1>3, <1>4, ThrowsTrim, CallsTrim DEF FaultVectors

-----------------------------------------------------------------------------
(* Returns. *)

LEMMA FoundTrim ==
  ASSUME TrimInv, NEW how, NEW wide
  PROVE  TrimFrame(Found(cpu, how, wide))
<1> DEFINE here == {f \in frames : /\ f.how = how /\ f.wide = wide
                                    /\ f.ss = cpu.ss.seg /\ f.at = cpu.esp % Modulus(cpu.ss)}
           z == Null
           e == [cpu EXCEPT !.cs = z]
<1>1. CASE here # {}
  <2> (CHOOSE f \in here : TRUE) \in here
    BY <1>1
  <2> QED BY <1>1, TrimNow DEF Found, TrimFrames
<1>2. CASE here = {}
  <2>1. Found(cpu, how, wide) = Frame(cpu, how, wide, 1, e)
    BY <1>2 DEF Found
  <2> HIDE DEF z
  <2>2. SameBut(cpu, e, "cs")
    BY TrimNow, CsSet
  <2> HIDE DEF e
  <2>3. Trim(e)
    BY <2>2, TrimNow DEF SameBut, Trim
  <2> QED BY <2>1, <2>3, TrimNow, FrameTrim
<1> QED BY <1>1, <1>2

LEMMA EndsTrim ==
  ASSUME TrimInv, NEW c, Trim(c), NEW f, Ends(c, f)
  PROVE  TrimAfter
<1> TrimFrames(frames \ {f})
  BY TrimNow DEF TrimFrames
<1> QED BY DEF Ends, TrimAfter

LEMMA ToSameTrim ==
  ASSUME TrimInv, NEW c, IsCpu(c), c.esp \in Esps, NEW f, TrimFrame(f), ToSame(c, f)
  PROVE  TrimAfter
<1> DEFINE v == cpu.esp + f.size
           w == WithSp(c, v)
           i == f.ip
           s == f.cs
           d == [w EXCEPT !.ip = i]
           r == LoadCs(d, s)
<1>1. Ends(r, f)
  BY DEF ToSame
<1>2. v \in Int /\ i \in 0 .. R
  BY TrimNow, Widths DEF Trim, TrimFrame
<1> HIDE DEF v, i, s
<1>3. IsCpu(w) /\ w.esp \in Esps
  BY <1>2, TrimNow, WithSpTrim
<1> HIDE DEF w
<1>4. IsCpu(d) /\ SameBut(w, d, "ip") /\ d.ip = i
  BY <1>3, IpSet
<1> HIDE DEF d
<1>5. r.ip = d.ip /\ r.esp = d.esp
  BY <1>4, LoadCsIs
<1> HIDE DEF r
<1>6. Trim(r)
  BY <1>2, <1>3, <1>4, <1>5 DEF SameBut, Trim
<1> QED BY <1>1, <1>6, EndsTrim

LEMMA ToOuterTrim ==
  ASSUME TrimInv, NEW c, IsCpu(c), c.esp \in Esps, NEW f, TrimFrame(f), ToOuter(c, f)
  PROVE  TrimAfter
<1> DEFINE v == f.esp
           i == f.ip
           k == f.ofss
           g == Null
           l == LoadCs(c, f.cs)
           e == [l EXCEPT !.ip = i]
           d == [e EXCEPT !.ss = k]
           w == WithSp(d, v)
           n == [w EXCEPT !.ds = g]
           r == Cleared(w)
<1>1. Ends(r, f)
  <2> d = [l EXCEPT !.ip = i, !.ss = k]
    OBVIOUS
  <2> QED BY DEF ToOuter
<1>2. v \in Int /\ i \in 0 .. R
  BY TrimNow, Widths DEF TrimFrame
<1>3. IsCpu(l) /\ l.esp = c.esp
  BY LoadCsIs
<1> HIDE DEF v, i, k, g, l
<1>4. IsCpu(e) /\ SameBut(l, e, "ip") /\ e.ip = i
  BY <1>3, IpSet
<1> HIDE DEF e
<1>5. IsCpu(d) /\ SameBut(e, d, "ss")
  BY <1>4, SsSet
<1> HIDE DEF d
<1>6. d.esp \in Esps /\ d.ip = i
  BY <1>3, <1>4, <1>5 DEF SameBut
<1>7. IsCpu(w) /\ SameBut(d, w, "esp") /\ w.esp \in Esps
  BY <1>2, <1>5, <1>6, TrimNow, WithSpTrim
<1>8. r = n \/ r = w
  BY DEF Cleared, g
<1> HIDE DEF w, r
<1>9. SameBut(w, n, "ds")
  BY <1>7, DsSet
<1> HIDE DEF n
<1>10. Trim(r)
  BY <1>2, <1>6, <1>7, <1>8, <1>9 DEF SameBut, Trim
<1> QED BY <1>1, <1>10, EndsTrim

LEMMA PmRetTrim ==
  ASSUME GuestSystem, TrimInv, NEW c, IsCpu(c), c.esp \in Esps, NEW f, TrimFrame(f), PmRet(c, f)
  PROVE  TrimAfter
<1> Throws("gp") \/ Throws("np") \/ ToSame(c, f) \/ ToOuter(c, f)
  BY DEF PmRet
<1> QED BY ThrowsTrim, ToSameTrim, ToOuterTrim DEF FaultVectors

LEMMA IretTrim == ASSUME GuestSystem, TrimInv, Iret PROVE TrimAfter
<1> DEFINE f == Found(cpu, "int", Head(waits).wide)
           c == IretFlags(cpu, f)
<1>1. TrimFrame(f)
  BY FoundTrim
<1>2. ToSame(c, f) \/ ToVirtual(cpu, f) \/ PmRet(c, f)
  BY DEF Iret
<1> HIDE DEF f
<1>3. IsCpu(c) /\ c.esp \in Esps
  BY TrimNow, IretIs DEF Trim
<1> HIDE DEF c
<1>4. CASE ToVirtual(cpu, f)
  <2>1. Ends(VirtualCpu(cpu, f), f)
    BY <1>4, EndsAs
  <2>2. Trim(VirtualCpu(cpu, f))
    BY <1>1, TrimNow, VirtualCpuIs DEF Trim, TrimFrame
  <2> QED BY <2>1, <2>2, EndsTrim
<1> QED BY <1>1, <1>2, <1>3, <1>4, ToSameTrim, PmRetTrim

LEMMA RetFarTrim == ASSUME GuestSystem, TrimInv, RetFar PROVE TrimAfter
<1> DEFINE f == Found(cpu, Head(waits).how, Head(waits).wide)
<1>1. TrimFrame(f)
  BY FoundTrim
<1>2. ToSame(cpu, f) \/ PmRet(cpu, f)
  BY DEF RetFar
<1> HIDE DEF f
<1>3. IsCpu(cpu) /\ cpu.esp \in Esps
  BY TrimNow DEF Trim
<1> QED BY <1>1, <1>2, <1>3, ToSameTrim, PmRetTrim

LEMMA DropTrim == ASSUME TrimInv, DropCode PROVE TrimAfter
<1> DEFINE v == cpu.esp + Units(os.wide)
           d == WithSp(cpu, v)
           g == Found(cpu, "code", os.wide)
<1>1. cpu' = d /\ frames' = frames \ {g}
  BY DEF DropCode
<1>2. v \in Int
  BY TrimNow, Widths DEF Trim, Units
<1> HIDE DEF v
<1>3. SameBut(cpu, d, "esp") /\ d.esp \in Esps
  BY <1>2, TrimNow, WithSpTrim DEF Trim
<1> HIDE DEF d, g
<1>4. Trim(d)
  BY <1>3, TrimNow DEF Trim, SameBut
<1>5. TrimFrames(frames \ {g})
  BY TrimNow DEF TrimFrames
<1> QED BY <1>1, <1>4, <1>5 DEF TrimAfter

-----------------------------------------------------------------------------

LEMMA NextTrim ==
  ASSUME GuestSystem, TrimInv, [TNext]_tvars
  PROVE  TrimAfter
<1>1. CASE UNCHANGED tvars
  BY <1>1, TrimNow DEF tvars, TrimAfter
<1>2. CASE TNext
  <2>1. CASE Interrupt  BY <2>1, InterruptTrim
  <2>2. CASE PageFault
    <3> "pf" \in FaultVectors /\ Throws("pf")
      BY <2>2 DEF PageFault, FaultVectors
    <3> QED BY ThrowsTrim
  <2>3. CASE Sti  BY <2>3, StepsHere, SameRegisters DEF Sti, Stays
  <2>4. CASE Advance  BY <2>4, AdvanceTrim
  <2>5. CASE DropCode  BY <2>5, DropTrim
  <2>6. CASE Iret  BY <2>6, IretTrim
  <2>7. CASE RetFar  BY <2>7, RetFarTrim
  <2>8. CASE \E b : Compute(b)
    <3> PICK b : Compute(b)
      BY <2>8
    <3> QED BY StepsHere, SameRegisters DEF Compute, Stays
  <2>9. CASE \E s \in DsChoices : LoadDs(s)
    <3> PICK s : LoadDs(s)
      BY <2>9
    <3>1. CASE Throws("np")
      BY <3>1, ThrowsTrim DEF FaultVectors
    <3>2. CASE cpu' = [cpu EXCEPT !.ds = s] /\ Stays
      BY <3>2, StepsHere, SameRegisters DEF Stays
    <3> QED BY <3>1, <3>2 DEF LoadDs
  <2>10. CASE \E v \in Called : Once /\ IntN(v)  BY <2>10, IntTrim
  <2>11. CASE \E s : Once /\ CallFar(s)  BY <2>11, CallFarTrim
  <2>12. CASE \E s : Once /\ CallGate(s)  BY <2>12, CallGateTrim
  <2>13. CASE \E s \in Movable : Swap(s)
    <3> UNCHANGED <<cpu, frames>>
      BY <2>13 DEF Swap
    <3> QED BY TrimNow DEF TrimAfter
  <2> QED BY <1>2, <2>1, <2>2, <2>3, <2>4, <2>5, <2>6, <2>7, <2>8, <2>9, <2>10, <2>11, <2>12, <2>13
          DEF TNext
<1> QED BY <1>1, <1>2

LEMMA StartTrim ==
  ASSUME GuestSystem, Ample, TInit
  PROVE  TrimInv
<1>1. TInv
  BY StartResumes
<1>2. cpu.esp = os.start /\ cpu.ip = R - 1 /\ frames = {} /\ Bounds
  BY BoundsAre DEF TInit
<1>3. R - 1 \in 0 .. R
  <2> R \in Nat /\ R > 1
    BY <1>2, Widths DEF Bounds
  <2> QED OBVIOUS
<1>4. Trim(cpu) /\ TrimFrames(frames)
  BY <1>2, <1>3 DEF Trim, TrimFrames, Bounds
<1> QED BY <1>1, <1>4 DEF TrimInv

\* ESP and EIP keep their width through every push, cut, wrap and stack switch of
\* call_isr, pmcall and pmret (set_sp changes the low half of ESP alone on a 16-bit
\* stack), the level is one of the guest's two, and what it moves out is movable.
THEOREM TransferTypes == TSpec => []TTypeOK
<1> GuestSystem /\ Ample
  BY GuestAssumption
<1>1. TInit => TrimInv
  BY StartTrim
<1>2. TrimInv /\ [TNext]_tvars => TrimInv'
  <2> SUFFICES ASSUME TrimInv, [TNext]_tvars PROVE TrimInv'
    OBVIOUS
  <2>1. TInv'
    BY StepResumes DEF TrimInv
  <2>2. TrimAfter
    BY NextTrim
  <2> QED BY <2>1, <2>2 DEF TrimInv, TrimAfter, Trim, TrimFrames, TrimFrame, Esps
<1>3. TrimInv => TTypeOK
  <2> SUFFICES ASSUME TrimInv PROVE TTypeOK
    OBVIOUS
  <2>1. os \in Systems /\ absent \subseteq Movable /\ cpu.cpl \in {0, 3} /\ Len(waits) <= DEPTH
    BY DEF TrimInv, TInv, XInv, Good, Levels, Nested
  <2>2. 0 .. R \subseteq 0 .. R * R - 1
    BY TrimNow, Widths
  <2> QED BY <2>1, <2>2, TrimNow DEF TTypeOK, Trim, Esps
<1> QED BY <1>1, <1>2, <1>3, PTL DEF TSpec
===============================================================================
