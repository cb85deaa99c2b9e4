------------------------------- MODULE JitProofs -------------------------------
(***************************************************************************)
(* Proofs about JitCache, for any sizes of the pages, the table and the     *)
(* arenas, any modes, any traces and any stores of the guest.               *)
(***************************************************************************)
EXTENDS JitCache, FiniteSetTheorems, TLAPS

Table == [Ways -> Block \cup {NoBlock}]

-----------------------------------------------------------------------------
(* Records. *)

\* A block is never taken for an empty entry.
LEMMA BlockIsNot == \A b \in Block : b # NoBlock
  <1> SUFFICES ASSUME NEW b \in Block, b = NoBlock PROVE FALSE  OBVIOUS
  <1>1. b.head \in Heads  BY DEF Block
  <1>2. b.head = <<Gone, 0>>  BY DEF NoBlock
  <1> QED  BY <1>1, <1>2, JitPages DEF Heads, Gone

\* The live entries hold blocks.
LEMMA LiveBlock == \A c \in Table : \A w \in Live(c) : w \in Ways /\ c[w] \in Block
  BY DEF Table, Live

\* Marking a block stale changes nothing else of it.
LEMMA StaleBlock ==
  ASSUME NEW b \in Block
  PROVE  LET d == [b EXCEPT !.fresh = FALSE] IN
         /\ d \in Block /\ d.head = b.head /\ d.mode = b.mode /\ d.len = b.len
         /\ d.split = b.split /\ d.page = b.page /\ d.page2 = b.page2
         /\ d.data = b.data /\ d.writes = b.writes /\ d.at = b.at /\ d.hw = b.hw
         /\ d.guard = b.guard /\ d.from = b.from /\ d.whole = b.whole
  BY DEF Block

\* Moving a block changes nothing else of it.
LEMMA MovedBlock ==
  ASSUME NEW b \in Block, NEW n \in Nat, NEW x \in BOOLEAN
  PROVE  LET d == [b EXCEPT !.at = n, !.whole = x] IN
         /\ d \in Block /\ d.head = b.head /\ d.mode = b.mode /\ d.len = b.len
         /\ d.split = b.split /\ d.page = b.page /\ d.page2 = b.page2
         /\ d.data = b.data /\ d.writes = b.writes /\ d.at = n /\ d.hw = b.hw
         /\ d.guard = b.guard /\ d.from = b.from /\ d.fresh = b.fresh /\ d.whole = x
  BY DEF Block

-----------------------------------------------------------------------------
(* What the steps make of the table. *)

\* Dropping blocks leaves the others as they were.
LEMMA WithoutTable ==
  ASSUME NEW c \in Table, NEW ws
  PROVE  /\ Without(c, ws) \in Table
         /\ \A w \in Live(Without(c, ws)) :
              w \in Live(c) /\ w \notin ws /\ Without(c, ws)[w] = c[w]
  BY DEF Table, Without, Live

\* A store leaves a table behind, with the same entries in use.
LEMMA RotTable ==
  ASSUME NEW c \in Table, NEW cells
  PROVE  /\ Rot(c, cells) \in Table
         /\ Live(Rot(c, cells)) = Live(c)
  <1> DEFINE r == Rot(c, cells)
             hurt(w) == w \in Live(c) /\ \E i \in 0 .. c[w].len - 1 : c[w].from[i] \in cells
  <1>1. ASSUME NEW w \in Ways
        PROVE  /\ r[w] \in Block \cup {NoBlock}
               /\ (r[w] # NoBlock) <=> (c[w] # NoBlock)
    <2>1. CASE hurt(w)
      <3>1. r[w] = [c[w] EXCEPT !.fresh = FALSE]  BY <2>1 DEF Rot
      <3>2. c[w] \in Block  BY <2>1, LiveBlock
      <3>3. r[w] \in Block  BY <3>1, <3>2, StaleBlock
      <3> QED  BY <3>2, <3>3, BlockIsNot
    <2>2. CASE ~hurt(w)
      <3>1. r[w] = c[w]  BY <2>2 DEF Rot
      <3> QED  BY <3>1 DEF Table
    <2> QED  BY <2>1, <2>2
  <1>2. r \in Table  BY <1>1 DEF Table, Rot
  <1> QED  BY <1>1, <1>2 DEF Live

\* Where compaction puts a block, and how much it keeps, are numbers.
LEMMA PlacesAreNumbers ==
  ASSUME NEW c \in Table, top \in Nat
  PROVE  Taken(c) \in Nat /\ Taken(c) <= top /\ \A w : Place(c, w) \in Nat
  <1>1. IsFiniteSet(0 .. top - 1) /\ Cardinality(0 .. top - 1) = top
    BY FS_Interval
  <1>2. Taken(c) \in Nat /\ Taken(c) <= top
    <2> DEFINE taken == {x \in 0 .. top - 1 : \E v \in Live(c) : x \in Words(c[v])}
    <2>1. taken \subseteq 0 .. top - 1  OBVIOUS
    <2> QED  BY <1>1, <2>1, FS_Subset, FS_CardinalityType DEF Taken
  <1>3. ASSUME NEW w PROVE Place(c, w) \in Nat
    <2>1. Below(c, w) \subseteq 0 .. top - 1  BY DEF Below
    <2> QED  BY <1>1, <2>1, FS_Subset, FS_CardinalityType DEF Place
  <1> QED  BY <1>2, <1>3

\* Compaction moves blocks and does nothing else.
LEMMA CompactedTable ==
  ASSUME NEW c \in Table, top \in Nat
  PROVE  /\ Compacted(c) \in Table
         /\ Live(Compacted(c)) = Live(c)
         /\ \A w \in Live(c) : \E x \in BOOLEAN :
              /\ x = (c[w].whole /\ ~Torn(c, w))
              /\ Compacted(c)[w] = [c[w] EXCEPT !.at = Place(c, w), !.whole = x]
  <1> DEFINE d == Compacted(c)
  <1>1. ASSUME NEW w \in Live(c)
        PROVE  /\ d[w] \in Block
               /\ \E x \in BOOLEAN : /\ x = (c[w].whole /\ ~Torn(c, w))
                                     /\ d[w] = [c[w] EXCEPT !.at = Place(c, w), !.whole = x]
    <2> DEFINE x == c[w].whole /\ ~Torn(c, w)
    <2>1. c[w] \in Block /\ w \in Ways  BY LiveBlock
    <2>2. c[w].whole \in BOOLEAN  BY <2>1 DEF Block
    <2>3. x \in BOOLEAN  BY <2>2
    <2>4. d[w] = [c[w] EXCEPT !.at = Place(c, w), !.whole = x]
      BY <2>1 DEF Compacted
    <2>5. Place(c, w) \in Nat  BY PlacesAreNumbers
    <2> DEFINE b == c[w]
               n == Place(c, w)
    <2> HIDE DEF x
    <2>6. d[w] \in Block
      <3>1. b \in Block /\ n \in Nat /\ x \in BOOLEAN  BY <2>1, <2>3, <2>5
      <3>2. d[w] = [b EXCEPT !.at = n, !.whole = x]  BY <2>4
      <3> HIDE DEF b, n, d
      <3>3. [b EXCEPT !.at = n, !.whole = x] \in Block  BY <3>1, MovedBlock, Zenon
      <3> QED  BY <3>2, <3>3
    <2>7. x = (c[w].whole /\ ~Torn(c, w))  BY DEF x
    <2> QED  BY <2>3, <2>4, <2>6, <2>7
  <1>2. \A w \in Ways \ Live(c) : d[w] = NoBlock  BY DEF Compacted, Live
  <1>3. d \in Table  BY <1>1, <1>2 DEF Table, Compacted
  <1>4. Live(d) = Live(c)  BY <1>1, <1>2, BlockIsNot DEF Live
  <1> QED  BY <1>1, <1>3, <1>4

-----------------------------------------------------------------------------
(* Translation. *)

\* What is to be translated is a trace whose first byte can be fetched.
AskKnown == at \in {"room", "short", "emit"} =>
                asked \in Traces /\ PageOf(mode, map, asked.head[1]) # Gone

\* A linear page is a page of memory, or not at hand.
LEMMA PageOfType ==
  ASSUME NEW m \in Modes, NEW mp \in [Linear -> Ram \cup {Gone}], NEW l
  PROVE  PageOf(m, mp, l) \in Ram \cup {Gone}
  <1>1. CASE l \notin Linear  BY <1>1 DEF PageOf
  <1>2. CASE l \in Linear /\ m \in PagedModes  BY <1>2 DEF PageOf
  <1>3. CASE l \in Linear /\ m \notin PagedModes
    BY <1>3, JitModes DEF PageOf
  <1> QED  BY <1>1, <1>2, <1>3

\* The parts of a head.
LEMMA HeadParts ==
  ASSUME NEW h \in Heads
  PROVE  h = <<h[1], h[2]>> /\ h[1] \in Linear /\ h[2] \in 0 .. PAGE - 1
  BY DEF Heads

\* The bytes the CPU would fetch are addresses.
LEMMA FetchedType ==
  ASSUME NEW m \in Modes, NEW mp \in [Linear -> Ram \cup {Gone}], NEW h \in Heads,
         NEW len \in 1 .. PAGE
  PROVE  Fetched(m, mp, h, len) \in [0 .. len - 1 -> Addresses]
  <1>0. PAGE \in Nat /\ h[2] \in 0 .. PAGE - 1  BY JitSizes, HeadParts
  <1>1. PageOf(m, mp, h[1]) \in Ram \cup {Gone} /\ PageOf(m, mp, h[1] + 1) \in Ram \cup {Gone}
    BY PageOfType
  <1>2. ASSUME NEW i \in 0 .. len - 1
        PROVE  (IF h[2] + i < PAGE THEN <<PageOf(m, mp, h[1]), h[2] + i>>
                ELSE <<PageOf(m, mp, h[1] + 1), h[2] + i - PAGE>>) \in Addresses
    <2>1. CASE h[2] + i < PAGE
      <3>1. h[2] + i \in 0 .. PAGE - 1  BY <1>0, <2>1
      <3> QED  BY <1>1, <2>1, <3>1 DEF Addresses
    <2>2. CASE ~(h[2] + i < PAGE)
      <3>1. h[2] + i - PAGE \in 0 .. PAGE - 1  BY <1>0, <2>2
      <3> QED  BY <1>1, <2>2, <3>1 DEF Addresses
    <2> QED  BY <2>1, <2>2
  <1> QED  BY <1>2 DEF Fetched

\* The parts of a block that has just been made.
LEMMA TranslatedParts ==
  ASSUME JTypeOK, NEW t \in Traces, NEW words \in t.words,
         PageOf(mode, map, t.head[1]) # Gone
  PROVE  LET b == Translated(t, words)
             far == t.len > InFirst(t.head) /\ Second(t.head) # Gone
         IN  /\ b \in Block
             /\ b.head = t.head /\ b.mode = mode /\ b.fresh /\ b.whole
             /\ b.at = top /\ b.hw = words
             /\ b.guard # NoGuard => b.guard \in Guards /\ guards[b.guard] = mode
             /\ b.from = Fetched(mode, map, b.head, b.len)
             /\ b.page = PageOf(mode, map, t.head[1])
             /\ b.split = IF far THEN InFirst(t.head) ELSE 0
             /\ far => b.len = t.len /\ b.page2 = Second(t.head)
             /\ ~far => b.len <= InFirst(t.head)
             /\ b.data = t.data /\ b.writes = Data(mode, map, t.data)
  <1> DEFINE wide == t.len > InFirst(t.head)
             far == wide /\ Second(t.head) # Gone
             len == IF wide /\ ~far THEN InFirst(t.head) ELSE t.len
             b == Translated(t, words)
  <1>1. /\ t.head \in Heads /\ t.len \in 1 .. PAGE /\ t.data \subseteq Heads
        /\ words \in 1 .. RESERVE
    BY JitTraces
  <1>2. PAGE \in Nat /\ t.head[2] \in 0 .. PAGE - 1 /\ t.head[1] \in Linear
    BY <1>1, HeadParts, JitSizes
  <1>3. InFirst(t.head) \in 1 .. PAGE  BY <1>2 DEF InFirst
  <1>4. len \in 1 .. PAGE  BY <1>1, <1>3
  <1>5. (IF far THEN InFirst(t.head) ELSE 0) \in 0 .. PAGE  BY <1>2, <1>3
  <1>6. PageOf(mode, map, t.head[1]) \in Ram  BY PageOfType DEF JTypeOK
  <1>7. (IF far THEN Second(t.head) ELSE 0) \in Ram \cup {0}
    BY PageOfType DEF JTypeOK, Second
  <1>8. Data(mode, map, t.data) \subseteq Addresses
    <2> SUFFICES ASSUME NEW d \in t.data
                 PROVE  <<PageOf(mode, map, d[1]), d[2]>> \in Addresses
      BY DEF Data
    <2>1. d \in Heads  BY <1>1
    <2> QED  BY <2>1, HeadParts, PageOfType DEF JTypeOK, Addresses
  <1>9. (IF t.mem /\ GuardsOk THEN inUse ELSE NoGuard) \in Guards \cup {NoGuard}
    <2>1. GuardsOk => 0 \in Guards  BY JitSizes DEF GuardsOk, Guards
    <2> QED  BY <2>1 DEF JTypeOK
  <1>10. Fetched(mode, map, t.head, len) \in [0 .. len - 1 -> Addresses]
    BY <1>1, <1>4, FetchedType DEF JTypeOK
  <1>11. Fetched(mode, map, t.head, len) \in UNION {[0 .. n - 1 -> Addresses] : n \in 1 .. PAGE}
    BY <1>4, <1>10
  <1>12. mode \in Modes /\ top \in Nat  BY DEF JTypeOK
  <1>13. b = [head |-> t.head, mode |-> mode, len |-> len,
              split |-> IF far THEN InFirst(t.head) ELSE 0,
              page |-> PageOf(mode, map, t.head[1]),
              page2 |-> IF far THEN Second(t.head) ELSE 0,
              data |-> t.data, writes |-> Data(mode, map, t.data),
              at |-> top, hw |-> words, guard |-> IF t.mem /\ GuardsOk THEN inUse ELSE NoGuard,
              from |-> Fetched(mode, map, t.head, len), fresh |-> TRUE, whole |-> TRUE]
    BY DEF Translated
  <1> HIDE DEF len, far, b
  <1>14. b \in Block
    BY <1>1, <1>4, <1>5, <1>6, <1>7, <1>8, <1>9, <1>11, <1>12, <1>13 DEF Block
  <1>15. far => len = t.len  BY DEF len, far
  <1>16. ~far => len <= InFirst(t.head)  BY <1>1, <1>3 DEF len, far
  <1>17. b.guard # NoGuard => b.guard \in Guards /\ guards[b.guard] = mode
    <2>1. b.guard = IF t.mem /\ GuardsOk THEN inUse ELSE NoGuard  BY <1>13
    <2> QED  BY <1>9, <2>1 DEF GuardsOk
  <1>18. far = (t.len > InFirst(t.head) /\ Second(t.head) # Gone)  BY DEF far
  <1>19. /\ b.head = t.head /\ b.mode = mode /\ b.fresh /\ b.whole /\ b.len = len
         /\ b.at = top /\ b.hw = words
         /\ b.from = Fetched(mode, map, t.head, len)
         /\ b.page = PageOf(mode, map, t.head[1])
         /\ b.split = (IF far THEN InFirst(t.head) ELSE 0)
         /\ b.page2 = (IF far THEN Second(t.head) ELSE 0)
         /\ b.data = t.data /\ b.writes = Data(mode, map, t.data)
    BY <1>13
  <1> QED  BY <1>14, <1>15, <1>16, <1>17, <1>18, <1>19 DEF b

-----------------------------------------------------------------------------
(* Types. *)

JitTypes == JTypeOK /\ AskKnown

\* A flush empties the table.
LEMMA FlushedTable ==
  ASSUME Flushed
  PROVE  code' \in Table /\ Live(code') = {} /\ marks' = {} /\ top' = 0
  BY DEF Flushed, Table, Live

\* Entering a block keeps the types.
LEMMA EnterTypes ==
  ASSUME JTypeOK, NEW w \in Ways, Enter(w)
  PROVE  /\ code' \in Table
         /\ marks' \subseteq Ram \cup {0}
         /\ at' = "run" /\ running' = w
  <1> DEFINE hit == Over(code, code[w].writes, w)
  <1>1. code' = Without(code, hit) /\ Keep(hit) /\ at' = "run" /\ running' = w
    BY DEF Enter
  <1>2. code \in Table  BY DEF JTypeOK, Table
  <1>3. code' \in Table  BY <1>1, <1>2, WithoutTable
  <1>4. marks' \subseteq Ram \cup {0}
    <2>1. MarksOf(Without(code, hit)) \subseteq Ram \cup {0}
      <3>1. Without(code, hit) \in Table  BY <1>2, WithoutTable
      <3>2. \A v \in Live(Without(code, hit)) : PagesOf(Without(code, hit)[v]) \subseteq Ram \cup {0}
        BY <3>1, LiveBlock DEF PagesOf, Block
      <3> QED  BY <3>2 DEF MarksOf
    <2> QED  BY <1>1, <2>1 DEF Keep, JTypeOK
  <1> QED  BY <1>1, <1>3, <1>4

\* The pages of the blocks of a table are pages of memory, or the number of none.
LEMMA MarksType ==
  ASSUME NEW c \in Table
  PROVE  MarksOf(c) \subseteq Ram \cup {0}
  <1>1. \A v \in Live(c) : PagesOf(c[v]) \subseteq Ram \cup {0}
    BY LiveBlock DEF PagesOf, Block
  <1> QED  BY <1>1 DEF MarksOf

\* A store that is noted leaves a table and its pages behind.
LEMMA NotedTypes ==
  ASSUME JTypeOK, NEW s, NotedStore(s)
  PROVE  code' \in Table /\ marks' \subseteq Ram \cup {0}
  <1> DEFINE hit == Noted(s)
  <1>1. code' = Rot(Without(code, hit), Reach(s)) /\ Keep(hit)
    BY DEF NotedStore
  <1>2. Without(code, hit) \in Table  BY WithoutTable DEF JTypeOK, Table
  <1>3. code' \in Table  BY <1>1, <1>2, RotTable
  <1>4. marks' \subseteq Ram \cup {0}  BY <1>1, <1>2, MarksType DEF Keep, JTypeOK
  <1> QED  BY <1>3, <1>4

\* Taking the lent memory back empties the table, or finds nothing lent.
LEMMA Released ==
  ASSUME Forfeit \/ Claim
  PROVE  /\ Flushed \/ UNCHANGED <<code, marks, top, lent>>
         /\ ~lent' /\ lent' \in {lent, FALSE} /\ offered' = FALSE
         /\ \/ stored' = TRUE /\ forfeited' = TRUE
            \/ UNCHANGED <<stored, forfeited>>
  <1>1. Release /\ offered' = FALSE
        /\ \/ stored' = TRUE /\ forfeited' = TRUE
           \/ UNCHANGED <<stored, forfeited>>
    BY DEF Forfeit, Claim
  <1>2. CASE lent  BY <1>1, <1>2 DEF Release, Switch
  <1>3. CASE ~lent  BY <1>1, <1>3 DEF Release
  <1> QED  BY <1>1, <1>2, <1>3

\* Every step keeps the types of the cache.
LEMMA TypesKept ==
  ASSUME JitTypes, [JNext]_jvars
  PROVE  JitTypes'
  <1> USE DEF JitTypes
  <1>0. code \in Table /\ top \in Nat  BY DEF JTypeOK, Table
  <1>1. ASSUME UNCHANGED jvars PROVE JitTypes'
    BY <1>1 DEF jvars, arena, guarding, world, flow, JTypeOK, AskKnown, PageOf
  <1>2. ASSUME NEW s \in Stores, GuestStore(s) PROVE JitTypes'
    <2>1. NotedStore(s) /\ UNCHANGED <<arena, world, guarding, flow>> /\ at = "guest"
      BY <1>2 DEF GuestStore, Guest
    <2>2. code' \in Table /\ marks' \subseteq Ram \cup {0}  BY <2>1, NotedTypes
    <2> QED  BY <2>1, <2>2 DEF JTypeOK, AskKnown, Table, arena, world, guarding, flow
  <1>3. ASSUME NEW l \in Linear, NEW p \in Ram \cup {Gone}, GuestRemap(l, p) PROVE JitTypes'
    BY <1>3 DEF GuestRemap, Guest, JTypeOK, AskKnown, arena, guarding, flow
  <1>4. ASSUME NEW m \in Modes, GuestMode(m) PROVE JitTypes'
    BY <1>4 DEF GuestMode, Guest, JTypeOK, AskKnown, arena, guarding, flow
  <1>5. ASSUME VideoStore \/ VideoClaim \/ VideoMode \/ ColdStart PROVE JitTypes'
    <2>1. /\ at = "guest" /\ UNCHANGED <<guarding, flow, mode, map>>
          /\ Flushed \/ UNCHANGED <<code, marks, top>>
          /\ lent' \in BOOLEAN /\ offered' \in BOOLEAN /\ forfeited' \in BOOLEAN
          /\ stored' \in BOOLEAN
      BY <1>5, Released DEF VideoStore, VideoClaim, VideoMode, ColdStart, Guest, Rearm,
                            JTypeOK, world, flow
    <2>2. code' \in Table /\ marks' \subseteq Ram \cup {0} /\ top' \in Nat
      BY <2>1, <1>0, FlushedTable DEF JTypeOK
    <2> QED  BY <2>1, <2>2 DEF JTypeOK, AskKnown, Table, guarding, flow
  <1>6. ASSUME InProbe PROVE JitTypes'
    <2>1. Probe  BY <1>6 DEF InProbe, ProbeReady, ProbeOther, ProbeBuild, ProbeSteal
    <2>2. /\ Flushed \/ UNCHANGED <<code, marks, top>>
          /\ UNCHANGED <<lent, offered, forfeited>>
      BY <1>6 DEF InProbe, ProbeReady, ProbeOther, ProbeBuild, ProbeSteal, DropCallers, arena
    <2>3. code' \in Table /\ marks' \subseteq Ram \cup {0} /\ top' \in Nat
      BY <2>2, <1>0, FlushedTable DEF JTypeOK
    <2>4. guards' \in [Guards -> Modes \cup {Dead}]
      BY <1>6 DEF InProbe, ProbeReady, ProbeOther, ProbeBuild, ProbeSteal, Build, guarding, JTypeOK
    <2>5. inUse' \in Guards \cup {0} /\ turn' \in Guards \cup {0}
      <3>1. CASE ProbeSteal
        <4>1. GuardSets \in Nat /\ GuardSets > 0  BY <3>1, JitSizes DEF ProbeSteal
        <4>2. turn \in 0 .. GuardSets - 1  BY <4>1 DEF JTypeOK, Guards
        <4>3. (turn + 1) % GuardSets \in 0 .. GuardSets - 1  BY <4>1, <4>2
        <4> QED  BY <3>1, <4>2, <4>3 DEF ProbeSteal, Build, JTypeOK, Guards
      <3>2. CASE ~ProbeSteal
        BY <1>6, <3>2 DEF InProbe, ProbeReady, ProbeOther, ProbeBuild, Build, guarding, JTypeOK
      <3> QED  BY <3>1, <3>2
    <2> QED  BY <2>1, <2>2, <2>3, <2>4, <2>5 DEF Probe, JTypeOK, AskKnown, Table, world
  <1>7. ASSUME NEW t \in Traces, NEW w \in Ways, Hit(t, w) PROVE JitTypes'
    <2>1. Enter(w) /\ UNCHANGED <<arena, guarding, world, asked>>
      BY <1>7 DEF Hit, Looking
    <2> QED  BY <2>1, EnterTypes DEF JTypeOK, AskKnown, Table, arena, guarding, world, Runs
  <1>8. ASSUME NEW t \in Traces, Miss(t) PROVE JitTypes'
    <2>1. /\ PageOf(mode, map, t.head[1]) # Gone
          /\ at' = "room" /\ asked' = t
          /\ UNCHANGED <<code, marks, running, arena, guarding, world>>
      BY <1>8 DEF Miss, Looking
    <2> QED  BY <2>1 DEF JTypeOK, AskKnown, PageOf, arena, guarding, world
  <1>9. ASSUME GiveUp \/ Leave PROVE JitTypes'
    BY <1>9 DEF GiveUp, Leave, Runs, JTypeOK, AskKnown, arena, guarding, world
  <1>10. ASSUME EnterNew PROVE JitTypes'
    <2>1. CASE running \in Ways
      <3>1. Enter(running) /\ UNCHANGED <<arena, guarding, world, asked>>
        BY <1>10 DEF EnterNew
      <3> QED  BY <2>1, <3>1, EnterTypes DEF JTypeOK, AskKnown, Table, arena, guarding, world, Runs
    <2>2. CASE running \notin Ways
      <3> DEFINE hit == Over(code, code[running].writes, running)
      <3>1. /\ code' = Without(code, hit) /\ Keep(hit)
            /\ at' = "run" /\ running' = running
            /\ UNCHANGED <<arena, guarding, world, asked>>
        BY <1>10 DEF EnterNew, Enter
      <3>2. code' \in Table /\ marks' \subseteq Ram \cup {0}
        BY <3>1, <1>0, WithoutTable, MarksType DEF Keep, JTypeOK
      <3> QED  BY <3>1, <3>2 DEF JTypeOK, AskKnown, Table, arena, guarding, world, Runs
    <2> QED  BY <2>1, <2>2
  <1>11. ASSUME Enough \/ Compact \/ Borrow \/ \E w \in Ways : Evict(w) PROVE JitTypes'
    <2>1. /\ at \in {"room", "short"} /\ at' \in {"short", "emit"}
          /\ UNCHANGED <<forfeited, guarding, world, asked, running>>
      BY <1>11 DEF Enough, Compact, Borrow, Evict, Making
    <2>2. /\ lent' \in BOOLEAN /\ offered' \in BOOLEAN
      BY <1>11 DEF Enough, Compact, Borrow, Evict, Switch, JTypeOK
    <2>3. code' \in Table /\ marks' \subseteq Ram \cup {0} /\ top' \in Nat
      <3>1. CASE Enough  BY <3>1, <1>0 DEF Enough, JTypeOK
      <3>2. CASE Compact
        BY <3>2, <1>0, CompactedTable, PlacesAreNumbers DEF Compact, JTypeOK
      <3>3. CASE Borrow  BY <3>3, FlushedTable DEF Borrow, Switch
      <3>4. ASSUME NEW w \in Ways, Evict(w)
            PROVE code' \in Table /\ marks' \subseteq Ram \cup {0} /\ top' \in Nat
        <4> DEFINE c == Without(code, {w})
        <4>1. c \in Table  BY <1>0, WithoutTable
        <4>2. code' = Compacted(c) /\ marks' = MarksOf(c) /\ top' = Taken(c)
          BY <3>4 DEF Evict
        <4> HIDE DEF c
        <4> QED  BY <4>1, <4>2, <1>0, CompactedTable, PlacesAreNumbers, MarksType
      <3> QED  BY <1>11, <3>1, <3>2, <3>3, <3>4
    <2> QED  BY <2>1, <2>2, <2>3 DEF JTypeOK, AskKnown, Table, PageOf, guarding, world
  <1>12. ASSUME NEW w \in Ways, NEW words \in 1 .. RESERVE, Emit(words, w) PROVE JitTypes'
    <2> DEFINE b == Translated(asked, words)
    <2>1. asked \in Traces /\ words \in asked.words /\ PageOf(mode, map, asked.head[1]) # Gone
      BY <1>12 DEF Emit, AskKnown
    <2>2. b \in Block  BY <2>1, TranslatedParts
    <2>3. /\ code' = [code EXCEPT ![w] = b] /\ marks' = marks \cup PagesOf(b)
          /\ top' = top + words /\ at' = "ready" /\ asked' = NoTrace /\ running' = w
          /\ UNCHANGED <<lent, offered, forfeited, guarding, world>>
      BY <1>12 DEF Emit
    <2> HIDE DEF b
    <2>4. code' \in Table  BY <1>0, <2>2, <2>3 DEF Table
    <2>5. PagesOf(b) \subseteq Ram \cup {0}  BY <2>2 DEF PagesOf, Block
    <2>6. top' \in Nat  BY <1>0, <2>3, JitSizes
    <2> QED  BY <2>3, <2>4, <2>5, <2>6 DEF JTypeOK, AskKnown, Table, guarding, world
  <1>13. CASE RepVideo
    <2>1. /\ at' \in Runs /\ UNCHANGED <<guarding, mode, map, running, asked>>
          /\ Flushed \/ UNCHANGED <<code, marks, top>>
          /\ lent' \in BOOLEAN /\ offered' \in BOOLEAN /\ forfeited' \in BOOLEAN
          /\ stored' \in BOOLEAN
      BY <1>13, Released DEF RepVideo, Running, Runs, JTypeOK
    <2>2. code' \in Table /\ marks' \subseteq Ram \cup {0} /\ top' \in Nat
      BY <2>1, <1>0, FlushedTable DEF JTypeOK
    <2> QED  BY <2>1, <2>2 DEF JTypeOK, AskKnown, Table, guarding, Runs
  <1>14. ASSUME NEW s \in Stores, RepStore(s) PROVE JitTypes'
    <2>1. NotedStore(s) /\ UNCHANGED <<arena, world, guarding, running, asked>> /\ at' \in Runs
      BY <1>14 DEF RepStore, Running, Runs
    <2>2. code' \in Table /\ marks' \subseteq Ram \cup {0}  BY <2>1, NotedTypes
    <2> QED  BY <2>1, <2>2 DEF JTypeOK, AskKnown, Table, arena, world, guarding, Runs
  <1>15. ASSUME NEW l \in Linear, NEW p \in Ram \cup {Gone}, Lookup(l, p) PROVE JitTypes'
    <2>1. /\ at \in Runs /\ at' \in Runs /\ map' = [map EXCEPT ![l] = p]
          /\ UNCHANGED <<code, marks, arena, mode, stored, guarding, running, asked>>
      BY <1>15 DEF Lookup, Running, Drift, Runs
    <2>2. map' \in [Linear -> Ram \cup {Gone}]  BY <2>1 DEF JTypeOK
    <2> QED  BY <2>1, <2>2 DEF JTypeOK, AskKnown, arena, guarding, Runs
  <1>16. ASSUME \/ StaticStore \/ OutVideo \/ Chain
                \/ \E s \in NativeStores : NativeStore(s)
                \/ \E m \in Modes : Out(m)
         PROVE  JitTypes'
    <2>1. /\ at \in Runs /\ at' \in Runs \cup {"look"}
          /\ UNCHANGED <<marks, lent, top, forfeited, guarding, map, stored, asked>>
          /\ mode' \in Modes /\ running' \in Ways \cup {NoWay} /\ offered' \in BOOLEAN
      BY <1>16 DEF StaticStore, OutVideo, Chain, NativeStore, Out, Running, Drift, Rearm, Runs,
                   arena, world, JTypeOK
    <2>2. code' \in Table
      <3>1. code' = code \/ \E cells : code' = Rot(code, cells)
        BY <1>16 DEF StaticStore, OutVideo, Chain, NativeStore, Out
      <3> QED  BY <1>0, <3>1, RotTable
    <2> QED  BY <2>1, <2>2 DEF JTypeOK, AskKnown, Table, guarding, Runs
  <1> QED
    BY <1>1, <1>2, <1>3, <1>4, <1>5, <1>6, <1>7, <1>8, <1>9, <1>10, <1>11, <1>12, <1>13, <1>14,
       <1>15, <1>16
    DEF JNext, InGuest, InLook, InMake, InRun

\* The cache starts empty.
LEMMA JitInitTypes ==
  ASSUME JInit
  PROVE  JitTypes
  <1>1. code \in [Ways -> Block \cup {NoBlock}] /\ map \in [Linear -> Ram \cup {Gone}]
        /\ guards \in [Guards -> Modes \cup {Dead}] /\ mode \in Modes
    BY JitModes DEF JInit
  <1>2. /\ marks \subseteq Ram \cup {0} /\ top \in Nat
        /\ lent \in BOOLEAN /\ offered \in BOOLEAN /\ forfeited \in BOOLEAN
        /\ inUse \in Guards \cup {0} /\ turn \in Guards \cup {0}
        /\ at = "guest" /\ asked = NoTrace /\ running = NoWay /\ stored \in BOOLEAN
    BY DEF JInit
  <1> QED  BY <1>1, <1>2 DEF JitTypes, JTypeOK, AskKnown

\* The registers of the cache keep their types, with any table and any arenas.
THEOREM JitTypeCorrect == JSpec => []JTypeOK
  <1>1. JInit => JitTypes  BY JitInitTypes
  <1>2. JitTypes /\ [JNext]_jvars => JitTypes'  BY TypesKept
  <1>3. JitTypes => JTypeOK  BY DEF JitTypes
  <1> QED  BY <1>1, <1>2, <1>3, PTL DEF JSpec

-----------------------------------------------------------------------------
(* The lent memory. *)

\* What the guest has stored in is known to be its own, and is not in use.
Claimed == stored => forfeited /\ ~lent /\ ~offered

\* No step gives the memory back to the cache.
LEMMA ClaimKept ==
  ASSUME Claimed, [JNext]_jvars
  PROVE  Claimed'
  <1>1. CASE UNCHANGED <<lent, offered, forfeited, stored>>
    BY <1>1 DEF Claimed
  <1>2. CASE VideoStore \/ VideoClaim \/ RepVideo
    <2>1. Forfeit \/ Claim  BY <1>2 DEF VideoStore, VideoClaim, RepVideo
    <2> QED  BY <2>1, Released DEF Claimed
  <1>4. CASE VideoMode \/ OutVideo
    <2>1. Rearm /\ UNCHANGED <<lent, forfeited, stored>>
      BY <1>4 DEF VideoMode, OutVideo, world
    <2>2. stored => ~offered'  BY <2>1, Zenon DEF Claimed, Rearm
    <2> QED  BY <2>1, <2>2 DEF Claimed
  <1>5. CASE Borrow
    <2>1. offered /\ UNCHANGED <<forfeited, stored, offered>>
      BY <1>5 DEF Borrow, Making, world
    <2>2. ~stored  BY <2>1, Zenon DEF Claimed
    <2> QED  BY <2>1, <2>2 DEF Claimed
  <1>6. CASE InGuest /\ ~VideoStore /\ ~VideoClaim /\ ~VideoMode
    BY <1>1, <1>6 DEF InGuest, GuestStore, GuestRemap, GuestMode, ColdStart, arena, world
  <1>7. CASE InProbe
    BY <1>1, <1>7 DEF InProbe, ProbeReady, ProbeOther, ProbeBuild, ProbeSteal, Probe, arena, world
  <1>8. CASE InLook
    BY <1>1, <1>8 DEF InLook, EnterNew, GiveUp, Miss, Hit, Looking, arena, world
  <1>9. CASE InMake /\ ~Borrow
    BY <1>1, <1>9 DEF InMake, Enough, Compact, Evict, Emit, Making, world
  <1>10. CASE InRun /\ ~OutVideo /\ ~RepVideo
    BY <1>1, <1>10 DEF InRun, StaticStore, RepStore, Lookup, Chain, Leave, NativeStore, Out, arena,
                       world
  <1>11. CASE UNCHANGED jvars
    BY <1>1, <1>11 DEF jvars, arena, world
  <1> QED
    BY <1>2, <1>4, <1>5, <1>6, <1>7, <1>8, <1>9, <1>10, <1>11 DEF JNext, InMake, InRun

\* Memory the guest has stored in through the display is never lent again
\* (njit_vga_arena_forfeit, njit_vga_arena_rearm, nj_vga_arena_take).
THEOREM MemoryStaysTheGuests == JSpec => []GuestKeeps
  <1>1. JInit => Claimed  BY DEF JInit, Claimed
  <1>2. Claimed /\ [JNext]_jvars => Claimed'  BY ClaimKept
  <1>3. Claimed => GuestKeeps  BY DEF Claimed, GuestKeeps
  <1> QED  BY <1>1, <1>2, <1>3, PTL DEF JSpec

-----------------------------------------------------------------------------
(* The arena. *)

\* The code of every block is in one piece, below t, and nowhere in another's.
Packed(c, t) ==
    /\ \A w \in Live(c) : c[w].whole /\ c[w].at + c[w].hw <= t
    /\ \A v, w \in Live(c) : v # w => Words(c[v]) \cap Words(c[w]) = {}

\* A block takes at least one word.
LEMMA BlockWords ==
  ASSUME NEW b \in Block
  PROVE  /\ b.at \in Nat /\ b.hw \in Nat /\ b.hw >= 1 /\ b.hw <= RESERVE
         /\ Words(b) = b.at .. b.at + b.hw - 1
         /\ b.at \in Words(b) /\ b.at + b.hw - 1 \in Words(b)
         /\ IsFiniteSet(Words(b)) /\ Cardinality(Words(b)) = b.hw
  <1>1. b.at \in Nat /\ b.hw \in 1 .. RESERVE  BY DEF Block
  <1>2. b.at \in Nat /\ b.hw \in Nat /\ b.hw >= 1 /\ b.hw <= RESERVE  BY <1>1, JitSizes
  <1> DEFINE x == b.at
             y == b.at + b.hw - 1
  <1>3. x \in Int /\ y \in Int /\ x <= y /\ y - x + 1 = b.hw  BY <1>2
  <1>4. IsFiniteSet(x .. y) /\ Cardinality(x .. y) = b.hw
    <2> HIDE DEF x, y
    <2> QED  BY <1>3, FS_Interval
  <1> QED  BY <1>2, <1>3, <1>4 DEF Words

\* Of two blocks that do not overlap, the lower ends where the upper begins, or before.
LEMMA Apart ==
  ASSUME NEW a \in Block, NEW b \in Block, Words(a) \cap Words(b) = {}
  PROVE  a.at # b.at /\ (a.at < b.at => a.at + a.hw <= b.at)
  <1>1. /\ a.at \in Nat /\ a.hw \in Nat /\ a.hw >= 1 /\ Words(a) = a.at .. a.at + a.hw - 1
        /\ b.at \in Nat /\ b.at \in Words(b) /\ a.at \in Words(a)
    BY BlockWords
  <1>2. b.at \notin a.at .. a.at + a.hw - 1  BY <1>1
  <1> QED  BY <1>1, <1>2

\* Compaction slides blocks down, in their order and without a gap.
LEMMA Slides ==
  ASSUME NEW c \in Table, top \in Nat, Packed(c, top), NEW w \in Live(c)
  PROVE  /\ Place(c, w) \in Nat /\ Place(c, w) <= c[w].at
         /\ Place(c, w) + c[w].hw <= Taken(c)
         /\ \A v \in Live(c) : c[v].at < c[w].at => Place(c, v) + c[v].hw <= Place(c, w)
  <1> DEFINE taken == {x \in 0 .. top - 1 : \E v \in Live(c) : x \in Words(c[v])}
  <1>0. c[w] \in Block  BY LiveBlock
  <1>1. IsFiniteSet(0 .. top - 1)  BY FS_Interval
  <1>2. \A v \in Live(c) : /\ Below(c, v) \subseteq 0 .. top - 1
                           /\ IsFiniteSet(Below(c, v))
                           /\ Place(c, v) \in Nat
    BY <1>1, FS_Subset, PlacesAreNumbers DEF Below
  <1>3. ASSUME NEW v \in Live(c) PROVE Words(c[v]) \subseteq 0 .. top - 1
    <2>1. c[v] \in Block /\ c[v].at + c[v].hw <= top  BY LiveBlock DEF Packed
    <2>2. /\ c[v].at \in Nat /\ c[v].hw \in Nat
          /\ Words(c[v]) = c[v].at .. c[v].at + c[v].hw - 1
      BY <2>1, BlockWords
    <2> QED  BY <2>1, <2>2
  <1>4. Place(c, w) <= c[w].at
    <2>1. Below(c, w) \subseteq 0 .. c[w].at - 1
      <3> SUFFICES ASSUME NEW x \in Below(c, w) PROVE x \in 0 .. c[w].at - 1  OBVIOUS
      <3>1. PICK v \in Live(c) : c[v].at < c[w].at /\ x \in Words(c[v]) /\ x \in 0 .. top - 1
        BY DEF Below
      <3>2. c[v] \in Block  BY LiveBlock
      <3>3. v # w  BY <3>1, <3>2, <1>0, BlockWords
      <3>4. c[v].at + c[v].hw <= c[w].at
        BY <3>1, <3>2, <3>3, <1>0, Apart DEF Packed
      <3>5. /\ c[v].at \in Nat /\ c[v].hw \in Nat /\ c[w].at \in Nat
            /\ Words(c[v]) = c[v].at .. c[v].at + c[v].hw - 1
        BY <3>2, <1>0, BlockWords
      <3>6. x \in c[v].at .. c[v].at + c[v].hw - 1  BY <3>1, <3>5
      <3> QED  BY <3>4, <3>5, <3>6
    <2>2. c[w].at \in Nat  BY <1>0, BlockWords
    <2>3. IsFiniteSet(0 .. c[w].at - 1) /\ Cardinality(0 .. c[w].at - 1) = c[w].at
      BY <2>2, FS_Interval
    <2> QED  BY <2>1, <2>3, FS_Subset DEF Place
  <1>5. ASSUME NEW v \in Live(c), NEW big, IsFiniteSet(big),
               Below(c, v) \subseteq big, Words(c[v]) \subseteq big
        PROVE  Place(c, v) + c[v].hw <= Cardinality(big)
    <2>0. c[v] \in Block  BY LiveBlock
    <2>1. Below(c, v) \cap Words(c[v]) = {}
      <3> SUFFICES ASSUME NEW x \in Below(c, v) PROVE x \notin Words(c[v])  OBVIOUS
      <3>1. PICK u \in Live(c) : c[u].at < c[v].at /\ x \in Words(c[u])  BY DEF Below
      <3>2. c[u] \in Block  BY LiveBlock
      <3>3. u # v  BY <3>1, <3>2, <2>0, BlockWords
      <3> QED  BY <3>1, <3>3 DEF Packed
    <2>2. IsFiniteSet(Words(c[v])) /\ Cardinality(Words(c[v])) = c[v].hw  BY <2>0, BlockWords
    <2>3. IsFiniteSet(Below(c, v))  BY <1>2
    <2> DEFINE A == Below(c, v)
               B == Words(c[v])
    <2>4. Cardinality(A \cup B) = Cardinality(A) + Cardinality(B)
      <3>1. IsFiniteSet(A) /\ IsFiniteSet(B) /\ A \cap B = {}  BY <2>1, <2>2, <2>3
      <3> HIDE DEF A, B
      <3>2. Cardinality(A \cap B) = 0  BY <3>1, FS_EmptySet
      <3>3. Cardinality(A) \in Nat /\ Cardinality(B) \in Nat  BY <3>1, FS_CardinalityType
      <3> QED  BY <3>1, <3>2, <3>3, FS_Union
    <2>5. A \cup B \subseteq big  BY <1>5
    <2>6. Cardinality(A \cup B) <= Cardinality(big)  BY <1>5, <2>5, FS_Subset
    <2> QED  BY <2>2, <2>4, <2>6 DEF Place
  <1>6. Place(c, w) + c[w].hw <= Taken(c)
    <2>1. IsFiniteSet(taken)  BY <1>1, FS_Subset
    <2>2. Below(c, w) \subseteq taken  BY DEF Below
    <2>3. Words(c[w]) \subseteq taken  BY <1>3
    <2> HIDE DEF taken
    <2>4. Place(c, w) + c[w].hw <= Cardinality(taken)  BY <1>5, <2>1, <2>2, <2>3
    <2> QED  BY <2>4 DEF Taken, taken
  <1>7. ASSUME NEW v \in Live(c), c[v].at < c[w].at
        PROVE  Place(c, v) + c[v].hw <= Place(c, w)
    <2>0. c[v] \in Block  BY LiveBlock
    <2>1. Below(c, v) \subseteq Below(c, w)
      <3> SUFFICES ASSUME NEW x \in Below(c, v) PROVE x \in Below(c, w)  OBVIOUS
      <3>1. PICK u \in Live(c) : c[u].at < c[v].at /\ x \in Words(c[u]) /\ x \in 0 .. top - 1
        BY DEF Below
      <3>2. c[u] \in Block  BY LiveBlock
      <3>3. c[u].at < c[w].at  BY <3>1, <3>2, <2>0, <1>0, <1>7, BlockWords
      <3> QED  BY <3>1, <3>3 DEF Below
    <2>2. Words(c[v]) \subseteq Below(c, w)  BY <1>3, <1>7 DEF Below
    <2> QED  BY <1>2, <1>5, <2>1, <2>2 DEF Place
  <1> QED  BY <1>2, <1>4, <1>6, <1>7

\* So compaction keeps the code of every block in one piece.
LEMMA CompactedPacked ==
  ASSUME NEW c \in Table, top \in Nat, Packed(c, top)
  PROVE  Packed(Compacted(c), Taken(c))
  <1> DEFINE d == Compacted(c)
  <1>1. d \in Table /\ Live(d) = Live(c)  BY CompactedTable
  <1>2. ASSUME NEW w \in Live(c)
        PROVE  /\ c[w] \in Block /\ d[w] \in Block
               /\ d[w].at = Place(c, w) /\ d[w].hw = c[w].hw
               /\ d[w].whole = (c[w].whole /\ ~Torn(c, w))
    <2>1. c[w] \in Block /\ d[w] \in Block  BY <1>1, LiveBlock
    <2>2. Place(c, w) \in Nat  BY PlacesAreNumbers
    <2>3. PICK x \in BOOLEAN : /\ x = (c[w].whole /\ ~Torn(c, w))
                               /\ d[w] = [c[w] EXCEPT !.at = Place(c, w), !.whole = x]
      BY CompactedTable
    <2> DEFINE b == c[w]
               n == Place(c, w)
               e == [b EXCEPT !.at = n, !.whole = x]
    <2>4. e.at = n /\ e.hw = b.hw /\ e.whole = x
      <3>1. b \in Block /\ n \in Nat  BY <2>1, <2>2
      <3> HIDE DEF b, n
      <3> QED  BY <3>1 DEF Block
    <2>5. d[w] = e  BY <2>3
    <2> QED  BY <2>1, <2>3, <2>4, <2>5
  <1>3. ASSUME NEW w \in Live(c) PROVE ~Torn(c, w)
    <2> SUFFICES ASSUME NEW v \in Live(c), c[v].at < c[w].at
                 PROVE  Words([c[v] EXCEPT !.at = Place(c, v)]) \cap Words(c[w]) = {}
      BY DEF Torn
    <2>1. c[v] \in Block /\ c[w] \in Block  BY <1>2
    <2>2. /\ Place(c, v) \in Nat /\ Place(c, w) \in Nat
          /\ Place(c, v) + c[v].hw <= Place(c, w) /\ Place(c, w) <= c[w].at
      BY Slides
    <2>3. Words([c[v] EXCEPT !.at = Place(c, v)]) = Place(c, v) .. Place(c, v) + c[v].hw - 1
      BY <2>1 DEF Words, Block
    <2>4. /\ c[w].at \in Nat /\ c[v].hw \in Nat
          /\ Words(c[w]) = c[w].at .. c[w].at + c[w].hw - 1
      BY <2>1, BlockWords
    <2> QED  BY <2>2, <2>3, <2>4
  <1>4. ASSUME NEW w \in Live(c) PROVE d[w].whole /\ d[w].at + d[w].hw <= Taken(c)
    <2>1. c[w].whole  BY DEF Packed
    <2> QED  BY <1>2, <1>3, <2>1, Slides
  <1>5. ASSUME NEW v \in Live(c), NEW w \in Live(c), v # w
        PROVE  Words(d[v]) \cap Words(d[w]) = {}
    <2>0. /\ d[v] \in Block /\ d[w] \in Block /\ c[v] \in Block /\ c[w] \in Block
          /\ d[v].at = Place(c, v) /\ d[w].at = Place(c, w)
          /\ d[v].hw = c[v].hw /\ d[w].hw = c[w].hw
      BY <1>2
    <2>1. c[v].at # c[w].at  BY <1>5, <2>0, Apart DEF Packed
    <2>2. /\ Words(d[v]) = d[v].at .. d[v].at + d[v].hw - 1
          /\ Words(d[w]) = d[w].at .. d[w].at + d[w].hw - 1
          /\ d[v].at \in Nat /\ d[v].hw \in Nat /\ d[w].at \in Nat /\ d[w].hw \in Nat
          /\ c[v].at \in Nat /\ c[w].at \in Nat
      BY <2>0, BlockWords
    <2>3. CASE c[v].at < c[w].at
      <3>1. Place(c, v) + c[v].hw <= Place(c, w)  BY <2>3, Slides
      <3> QED  BY <2>0, <2>2, <3>1
    <2>4. CASE c[w].at < c[v].at
      <3>1. Place(c, w) + c[w].hw <= Place(c, v)  BY <2>4, Slides
      <3> QED  BY <2>0, <2>2, <3>1
    <2> QED  BY <2>1, <2>2, <2>3, <2>4
  <1> QED  BY <1>1, <1>4, <1>5 DEF Packed

\* Dropping blocks keeps the others in one piece.
LEMMA WithoutPacked ==
  ASSUME NEW c \in Table, NEW t, Packed(c, t), NEW ws
  PROVE  Packed(Without(c, ws), t)
  <1> DEFINE d == Without(c, ws)
  <1>1. \A w \in Live(d) : w \in Live(c) /\ d[w] = c[w]  BY WithoutTable
  <1>2. ASSUME NEW w \in Live(d) PROVE d[w].whole /\ d[w].at + d[w].hw <= t
    BY <1>1 DEF Packed
  <1>3. ASSUME NEW v \in Live(d), NEW w \in Live(d), v # w
        PROVE  Words(d[v]) \cap Words(d[w]) = {}
    <2>1. v \in Live(c) /\ w \in Live(c) /\ d[v] = c[v] /\ d[w] = c[w]  BY <1>1
    <2> QED  BY <1>3, <2>1 DEF Packed
  <1> QED  BY <1>2, <1>3 DEF Packed

\* A store leaves the code where it was.
LEMMA RotParts ==
  ASSUME NEW c \in Table, NEW cells, NEW w \in Live(c)
  PROVE  LET d == Rot(c, cells)[w] IN
         /\ d.head = c[w].head /\ d.mode = c[w].mode /\ d.len = c[w].len
         /\ d.split = c[w].split /\ d.page = c[w].page /\ d.page2 = c[w].page2
         /\ d.data = c[w].data /\ d.writes = c[w].writes /\ d.at = c[w].at
         /\ d.hw = c[w].hw /\ d.guard = c[w].guard /\ d.from = c[w].from
         /\ d.whole = c[w].whole
  <1> DEFINE b == c[w]
             d == Rot(c, cells)[w]
  <1>1. b \in Block /\ w \in Ways  BY LiveBlock
  <1>2. d = b \/ d = [b EXCEPT !.fresh = FALSE]  BY <1>1 DEF Rot
  <1> HIDE DEF b, d
  <1>3. /\ d.head = b.head /\ d.mode = b.mode /\ d.len = b.len
        /\ d.split = b.split /\ d.page = b.page /\ d.page2 = b.page2
        /\ d.data = b.data /\ d.writes = b.writes /\ d.at = b.at
        /\ d.hw = b.hw /\ d.guard = b.guard /\ d.from = b.from /\ d.whole = b.whole
    BY <1>1, <1>2, StaleBlock
  <1> QED  BY <1>3 DEF b, d

\* And so in one piece.
LEMMA RotPacked ==
  ASSUME NEW c \in Table, NEW t, Packed(c, t), NEW cells
  PROVE  Packed(Rot(c, cells), t)
  <1>1. Live(Rot(c, cells)) = Live(c)  BY RotTable
  <1>2. \A w \in Live(c) : Words(Rot(c, cells)[w]) = Words(c[w])
    BY RotParts DEF Words
  <1> QED  BY <1>1, <1>2, RotParts DEF Packed

\* The guards a block calls are those of its mode.
Guarded(c, g) == \A w \in Live(c) : c[w].guard # NoGuard => g[c[w].guard] = c[w].mode

Whole == /\ top <= Size(lent) /\ Packed(code, top) /\ Guarded(code, guards)
         /\ at = "emit" => Fits(top, lent)

\* An arena has a size.
LEMMA SizeType == \A l : Size(l) \in Nat
  BY JitSizes DEF Size

\* A flush leaves nothing that could be torn.
LEMMA FlushedWhole ==
  ASSUME Flushed
  PROVE  top' <= Size(lent') /\ Packed(code', top') /\ Guarded(code', guards')
         /\ Fits(0, lent')
  <1>1. Live(code') = {} /\ top' = 0  BY FlushedTable
  <1>2. \A l : 0 <= Size(l) /\ Size(l) - 0 >= RESERVE  BY JitSizes DEF Size
  <1> QED  BY <1>1, <1>2 DEF Packed, Guarded, Fits

\* Dropping blocks and storing over their bytes leaves the code as it was.
LEMMA ShrunkWhole ==
  ASSUME NEW c \in Table, NEW t, NEW g, Packed(c, t), Guarded(c, g), NEW ws, NEW cells
  PROVE  /\ Packed(Without(c, ws), t) /\ Guarded(Without(c, ws), g)
         /\ Packed(Rot(Without(c, ws), cells), t) /\ Guarded(Rot(Without(c, ws), cells), g)
         /\ Packed(Rot(c, cells), t) /\ Guarded(Rot(c, cells), g)
  <1>1. Packed(Without(c, ws), t) /\ Without(c, ws) \in Table  BY WithoutPacked, WithoutTable
  <1>2. Guarded(Without(c, ws), g)  BY WithoutTable DEF Guarded
  <1>3. ASSUME NEW d \in Table, Packed(d, t), Guarded(d, g)
        PROVE  Packed(Rot(d, cells), t) /\ Guarded(Rot(d, cells), g)
    <2>1. Packed(Rot(d, cells), t)  BY <1>3, RotPacked
    <2>2. Live(Rot(d, cells)) = Live(d)  BY RotTable
    <2>3. \A w \in Live(d) : Rot(d, cells)[w].guard = d[w].guard /\ Rot(d, cells)[w].mode = d[w].mode
      BY RotParts
    <2> QED  BY <1>3, <2>1, <2>2, <2>3 DEF Guarded
  <1> QED  BY <1>1, <1>2, <1>3

\* Compaction leaves the code whole, and takes no more room than before.
LEMMA CompactedWhole ==
  ASSUME NEW c \in Table, NEW g, top \in Nat, Packed(c, top), Guarded(c, g)
  PROVE  /\ Packed(Compacted(c), Taken(c)) /\ Guarded(Compacted(c), g)
         /\ Taken(c) \in Nat /\ Taken(c) <= top
  <1>1. Live(Compacted(c)) = Live(c)  BY CompactedTable
  <1>2. ASSUME NEW w \in Live(c)
        PROVE  Compacted(c)[w].guard = c[w].guard /\ Compacted(c)[w].mode = c[w].mode
    <2>1. c[w] \in Block  BY LiveBlock
    <2>2. PICK x \in BOOLEAN : Compacted(c)[w] = [c[w] EXCEPT !.at = Place(c, w), !.whole = x]
      BY CompactedTable
    <2> QED  BY <2>1, <2>2 DEF Block
  <1> QED  BY <1>1, <1>2, CompactedPacked, PlacesAreNumbers DEF Guarded

\* Every step keeps the code of the blocks whole and their guards their own.
LEMMA WholeKept ==
  ASSUME JitTypes, Whole, [JNext]_jvars
  PROVE  Whole'
  <1>0. code \in Table /\ top \in Nat /\ top' \in Nat /\ code' \in Table
    BY TypesKept DEF JitTypes, JTypeOK, Table
  <1>1. ASSUME UNCHANGED <<lent, top, guards>>, at' = "emit" => at = "emit",
               NEW ws, NEW cells,
               code' \in {code, Without(code, ws), Rot(code, cells),
                          Rot(Without(code, ws), cells)}
        PROVE  Whole'
    <2>1. Packed(code', top) /\ Guarded(code', guards)
      BY <1>0, <1>1, ShrunkWhole DEF Whole
    <2> QED  BY <1>1, <2>1 DEF Whole, Packed, Guarded, Fits
  <1>2. ASSUME UNCHANGED <<lent, top, guards, code>>, at' = "emit" => at = "emit"
        PROVE  Whole'
    BY <1>2, <1>1
  <1>3. CASE UNCHANGED jvars
    BY <1>2, <1>3 DEF jvars, arena, guarding, flow
  <1>4. ASSUME NEW s \in Stores, GuestStore(s) PROVE Whole'
    <2>1. /\ code' = Rot(Without(code, Noted(s)), Reach(s))
          /\ UNCHANGED <<lent, top, guards, at>>
      BY <1>4 DEF GuestStore, NotedStore, Guest, arena, guarding, flow
    <2> QED  BY <1>1, <2>1
  <1>5. CASE InGuest /\ Flushed
    <2>1. UNCHANGED <<guards, at>> /\ at = "guest"
      BY <1>5 DEF InGuest, Guest, GuestStore, GuestRemap, GuestMode, VideoStore, VideoClaim,
                  VideoMode, ColdStart, guarding, flow
    <2> QED  BY <1>5, <2>1, FlushedWhole DEF Whole, Packed, Guarded
  <1>6. CASE InGuest /\ ~Flushed /\ ~\E s \in Stores : GuestStore(s)
    <2>1. UNCHANGED <<lent, top, guards, code, at>>
      BY <1>6, Released DEF InGuest, Guest, GuestRemap, GuestMode, VideoStore, VideoClaim,
                            VideoMode, ColdStart, guarding, flow, arena
    <2> QED  BY <1>2, <2>1
  <1>7. CASE ProbeReady \/ \E g \in Guards : ProbeOther(g)
    <2>1. UNCHANGED <<lent, top, guards, code>> /\ at' = "look"
      BY <1>7 DEF ProbeReady, ProbeOther, Probe, arena, guarding
    <2> QED  BY <1>2, <2>1
  <1>8. ASSUME NEW g \in Guards, ProbeBuild(g) PROVE Whole'
    <2>1. /\ UNCHANGED <<lent, top, code>> /\ at' = "look"
          /\ guards[g] = Dead
          /\ \E x : guards' = [guards EXCEPT ![g] = x]
      BY <1>8 DEF ProbeBuild, Probe, Build, arena
    <2>2. Guarded(code, guards')
      <3> SUFFICES ASSUME NEW w \in Live(code), code[w].guard # NoGuard
                   PROVE  guards'[code[w].guard] = code[w].mode
        BY DEF Guarded
      <3>1. code[w] \in Block  BY <1>0, LiveBlock
      <3>2. code[w].guard \in Guards /\ code[w].mode \in Modes  BY <3>1 DEF Block
      <3>3. guards[code[w].guard] = code[w].mode  BY DEF Whole, Guarded
      <3>4. code[w].guard # g  BY <2>1, <3>2, <3>3, JitModes
      <3> QED  BY <2>1, <3>2, <3>3, <3>4 DEF JitTypes, JTypeOK
    <2> QED  BY <2>1, <2>2 DEF Whole, Packed, Guarded
  <1>9. CASE ProbeSteal
    <2>1. at' = "look" /\ lent' = lent /\ DropCallers
      BY <1>9 DEF ProbeSteal, Probe
    <2>2. CASE top # 0
      <3>1. Flushed  BY <2>1, <2>2 DEF DropCallers
      <3> QED  BY <2>1, <3>1, FlushedWhole DEF Whole
    <2>3. CASE top = 0
      <3>1. UNCHANGED <<code, top>>  BY <2>1, <2>3 DEF DropCallers
      <3>2. Live(code) = {}
        <4> SUFFICES ASSUME NEW w \in Live(code) PROVE FALSE  OBVIOUS
        <4>1. code[w] \in Block /\ code[w].at + code[w].hw <= 0
          BY <1>0, <2>3, LiveBlock DEF Whole, Packed
        <4>2. code[w].at \in Nat /\ code[w].hw \in Nat /\ code[w].hw >= 1  BY <4>1, BlockWords
        <4> QED  BY <4>1, <4>2
      <3>3. Live(code') = {}  BY <3>1, <3>2
      <3> QED  BY <2>1, <3>1, <3>3 DEF Whole, Packed, Guarded
    <2> QED  BY <2>2, <2>3
  <1>10. ASSUME NEW w \in Ways \cup {NoWay}, Enter(w), UNCHANGED <<lent, top, guards>> PROVE Whole'
    <2>1. code' = Without(code, Over(code, code[w].writes, w)) /\ at' = "run"
      BY <1>10 DEF Enter
    <2> QED  BY <1>1, <1>10, <2>1
  <1>11. CASE InLook
    <2>1. UNCHANGED <<lent, top, guards>>
      BY <1>11 DEF InLook, Hit, Miss, Looking, EnterNew, GiveUp, arena, guarding
    <2>2. \/ \E w \in Ways \cup {NoWay} : Enter(w)
          \/ UNCHANGED code /\ at' \in {"guest", "room"}
      BY <1>11 DEF InLook, Hit, Miss, Looking, EnterNew, GiveUp, JitTypes, JTypeOK
    <2> QED  BY <1>2, <1>10, <2>1, <2>2
  <1>12. CASE Enough
    <2>1. Fits(top, lent) /\ UNCHANGED <<code, lent, top, guards>>
      BY <1>12 DEF Enough, Making, guarding
    <2> QED  BY <2>1 DEF Whole, Packed, Guarded, Fits
  <1>13. CASE Compact
    <2>1. /\ code' = Compacted(code) /\ top' = Taken(code) /\ UNCHANGED <<lent, guards>>
          /\ at' = "emit" => Fits(top', lent)
      BY <1>13 DEF Compact, Making, guarding
    <2>2. /\ Packed(code', top') /\ Guarded(code', guards)
          /\ Taken(code) <= top
      BY <1>0, <2>1, CompactedWhole DEF Whole
    <2>3. top' <= Size(lent)
      <3>1. top <= Size(lent) /\ Size(lent) \in Nat  BY SizeType DEF Whole
      <3> QED  BY <1>0, <2>1, <2>2, <3>1
    <2> QED  BY <2>1, <2>2, <2>3 DEF Whole, Packed, Guarded, Fits
  <1>14. CASE Borrow
    <2>1. Flushed  BY <1>14 DEF Borrow, Switch
    <2>2. top' = 0  BY <2>1 DEF Flushed
    <2>3. top' <= Size(lent') /\ Packed(code', top') /\ Guarded(code', guards') /\ Fits(top', lent')
      BY <2>1, <2>2, FlushedWhole
    <2> QED  BY <2>3 DEF Whole
  <1>15. ASSUME NEW w \in Ways, Evict(w) PROVE Whole'
    <2> DEFINE c == Without(code, {w})
    <2>1. /\ code' = Compacted(c) /\ top' = Taken(c) /\ UNCHANGED <<lent, guards>>
          /\ at' = "emit" => Fits(top', lent)
      BY <1>15 DEF Evict, Making, guarding
    <2>2. c \in Table /\ Packed(c, top) /\ Guarded(c, guards)
      BY <1>0, WithoutTable, ShrunkWhole DEF Whole
    <2> HIDE DEF c
    <2>3. /\ Packed(code', top') /\ Guarded(code', guards)
          /\ Taken(c) <= top
      BY <1>0, <2>1, <2>2, CompactedWhole
    <2>4. top' <= Size(lent)
      <3>1. top <= Size(lent) /\ Size(lent) \in Nat  BY SizeType DEF Whole
      <3> QED  BY <1>0, <2>1, <2>3, <3>1
    <2> QED  BY <2>1, <2>3, <2>4 DEF Whole, Packed, Guarded, Fits
  <1>16. ASSUME NEW w \in Ways, NEW words \in 1 .. RESERVE, Emit(words, w) PROVE Whole'
    <2> DEFINE b == Translated(asked, words)
    <2>1. /\ asked \in Traces /\ words \in asked.words
          /\ PageOf(mode, map, asked.head[1]) # Gone
      BY <1>16 DEF Emit, AskKnown, JitTypes
    <2>2. /\ b \in Block /\ b.whole /\ b.at = top /\ b.hw = words /\ b.mode = mode
          /\ b.guard # NoGuard => guards[b.guard] = mode
      BY <2>1, TranslatedParts DEF JitTypes
    <2>3. /\ code' = [code EXCEPT ![w] = b] /\ top' = top + words /\ at' = "ready"
          /\ UNCHANGED <<lent, guards>> /\ Fits(top, lent)
      BY <1>16 DEF Emit, Whole, guarding
    <2> HIDE DEF b
    <2>4. top' <= Size(lent)
      <3>1. Size(lent) \in Nat /\ Size(lent) - top >= RESERVE  BY <2>3, SizeType DEF Fits
      <3> QED  BY <1>0, <2>3, <3>1, JitSizes
    <2>5. code' \in Table /\ code'[w] = b /\ \A v \in Ways \ {w} : code'[v] = code[v]
      BY <1>0, <2>3 DEF Table
    <2>6. \A v \in Live(code') : v # w => v \in Live(code) /\ code'[v] = code[v]
      BY <2>5 DEF Live
    <2>7. ASSUME NEW v \in Live(code')
          PROVE  /\ code'[v].whole /\ code'[v].at + code'[v].hw <= top'
                 /\ code'[v].guard # NoGuard => guards[code'[v].guard] = code'[v].mode
      <3>1. CASE v = w
        <4>1. top' \in Nat /\ b.at + b.hw = top'  BY <1>0, <2>2, <2>3
        <4> QED  BY <2>2, <2>5, <3>1, <4>1
      <3>2. CASE v # w
        <4>1. code[v] \in Block /\ code[v].whole /\ code[v].at + code[v].hw <= top
          BY <1>0, <2>6, <3>2, LiveBlock DEF Whole, Packed
        <4>2. code[v].at \in Nat /\ code[v].hw \in Nat  BY <4>1, BlockWords
        <4>3. code[v].at + code[v].hw <= top + words  BY <1>0, <4>1, <4>2
        <4> QED  BY <2>3, <2>6, <3>2, <4>1, <4>3 DEF Whole, Guarded
      <3> QED  BY <3>1, <3>2
    <2>8. ASSUME NEW v \in Live(code'), v # w
          PROVE  Words(code'[v]) \cap Words(b) = {}
      <3>1. code[v] \in Block /\ code[v].at + code[v].hw <= top /\ code'[v] = code[v]
        BY <1>0, <2>6, <2>8, LiveBlock DEF Whole, Packed
      <3>2. /\ Words(code[v]) = code[v].at .. code[v].at + code[v].hw - 1
            /\ code[v].at \in Nat /\ code[v].hw \in Nat
        BY <3>1, BlockWords
      <3>3. Words(b) = top .. top + words - 1  BY <2>2 DEF Words
      <3> QED  BY <1>0, <3>1, <3>2, <3>3
    <2>9. ASSUME NEW u \in Live(code'), NEW v \in Live(code'), u # v
          PROVE  Words(code'[u]) \cap Words(code'[v]) = {}
      <3>1. CASE u = w  BY <2>5, <2>8, <2>9, <3>1
      <3>2. CASE v = w  BY <2>5, <2>8, <2>9, <3>2
      <3>3. CASE u # w /\ v # w  BY <2>6, <2>9, <3>3 DEF Whole, Packed
      <3> QED  BY <3>1, <3>2, <3>3
    <2>10. Packed(code', top') /\ Guarded(code', guards)  BY <2>7, <2>9 DEF Packed, Guarded
    <2> QED  BY <2>3, <2>4, <2>10 DEF Whole, Packed, Guarded
  <1>17. CASE RepVideo
    <2>1. UNCHANGED guards /\ at' # "emit" /\ (Forfeit \/ Claim)
      BY <1>17 DEF RepVideo, Running, guarding
    <2>2. CASE Flushed  BY <2>1, <2>2, FlushedWhole DEF Whole
    <2>3. CASE ~Flushed
      <3>1. UNCHANGED <<code, marks, top, lent>>  BY <2>1, <2>3, Released
      <3> QED  BY <1>2, <2>1, <3>1
    <2> QED  BY <2>2, <2>3
  <1>18. CASE InRun /\ ~RepVideo
    <2>1. UNCHANGED <<lent, top, guards>> /\ at' # "emit"
      BY <1>18 DEF InRun, StaticStore, RepStore, Lookup, OutVideo, Chain, Leave, NativeStore, Out,
                   Running, Drift, Runs, arena, guarding
    <2>2. \/ code' = code \/ \E cells : code' = Rot(code, cells)
          \/ \E ws, cells : code' = Rot(Without(code, ws), cells)
      BY <1>18 DEF InRun, StaticStore, RepStore, NotedStore, Lookup, OutVideo, Chain, Leave,
                   NativeStore, Out
    <2> QED  BY <1>1, <1>2, <2>1, <2>2
  <1> QED
    BY <1>3, <1>4, <1>5, <1>6, <1>7, <1>8, <1>9, <1>11, <1>12, <1>13, <1>14, <1>15, <1>16, <1>17,
       <1>18
    DEF JNext, InProbe, InMake

\* The ARM code of a block that can be entered is never torn by emission, by
\* compaction or by a new arena, and calls no guards but its mode's
\* (nj_compact_code, nj_make_code_room, nj_arena_switch, nj_guards_refresh).
THEOREM CodeStaysIntact == JSpec => []IntactCode
  <1>1. JInit => JitTypes /\ Whole
    <2> SUFFICES ASSUME JInit PROVE JitTypes /\ Whole  OBVIOUS
    <2>1. code = [w \in Ways |-> NoBlock] /\ top = 0 /\ at = "guest"  BY DEF JInit
    <2>2. Live(code) = {}  BY <2>1 DEF Live
    <2>3. 0 <= Size(lent)  BY SizeType
    <2> QED  BY <2>1, <2>2, <2>3, JitInitTypes DEF Whole, Packed, Guarded
  <1>2. JitTypes /\ Whole /\ [JNext]_jvars => (JitTypes /\ Whole)'
    BY TypesKept, WholeKept
  <1>3. Whole => IntactCode  BY DEF Whole, Packed, Guarded, IntactCode
  <1> QED  BY <1>1, <1>2, <1>3, PTL DEF JSpec

-----------------------------------------------------------------------------
(* What blocks stand for. *)

\* Where the bytes a block was translated from are.
Sources(b) == [i \in 0 .. b.len - 1 |-> IF b.head[2] + i < PAGE THEN <<b.page, b.head[2] + i>>
                                        ELSE <<b.page2, b.head[2] + i - PAGE>>]

WellMade(b) ==
    /\ b.from = Sources(b)
    /\ b.split = 0 => b.head[2] + b.len <= PAGE
    /\ b.split > 0 => /\ b.split = PAGE - b.head[2] /\ b.split < b.len
                      /\ b.head[1] + 1 \in Linear
    /\ b.mode \notin PagedModes => /\ b.page = Flat[b.mode][b.head[1]]
                                   /\ b.split > 0 => b.page2 = Flat[b.mode][b.head[1] + 1]

\* The numbers of a block.
LEMMA BlockNumbers ==
  ASSUME NEW b \in Block
  PROVE  /\ PAGE \in Nat /\ b.head \in Heads /\ b.head[1] \in Linear
         /\ b.head[2] \in 0 .. PAGE - 1 /\ b.len \in 1 .. PAGE /\ b.split \in 0 .. PAGE
         /\ b.mode \in Modes /\ b.page \in Ram
  <1>1. /\ b.head \in Heads /\ b.len \in 1 .. PAGE /\ b.split \in 0 .. PAGE
        /\ b.mode \in Modes /\ b.page \in Ram
    BY DEF Block
  <1> QED  BY <1>1, HeadParts, JitSizes

\* A store that reaches none of the bytes invalidation knows of reaches none
\* that the block was translated from.
LEMMA SourcesAreBytes ==
  ASSUME NEW b \in Block, WellMade(b), NEW i \in 0 .. b.len - 1
  PROVE  b.from[i] \in Bytes(b)
  <1>1. /\ PAGE \in Nat /\ b.head[2] \in 0 .. PAGE - 1 /\ b.len \in 1 .. PAGE
        /\ b.split \in 0 .. PAGE
    BY BlockNumbers
  <1>2. b.from[i] = IF b.head[2] + i < PAGE THEN <<b.page, b.head[2] + i>>
                    ELSE <<b.page2, b.head[2] + i - PAGE>>
    BY DEF WellMade, Sources
  <1>3. CASE b.head[2] + i < PAGE
    <2>1. i \in 0 .. First(b) - 1
      <3>1. CASE b.split = 0  BY <1>1, <3>1 DEF First
      <3>2. CASE b.split > 0
        <4>1. b.split = PAGE - b.head[2]  BY <3>2 DEF WellMade
        <4> QED  BY <1>1, <1>3, <3>2, <4>1 DEF First
      <3> QED  BY <1>1, <3>1, <3>2
    <2> QED  BY <1>2, <1>3, <2>1 DEF Bytes
  <1>4. CASE ~(b.head[2] + i < PAGE)
    <2>1. b.split > 0
      <3>1. b.split # 0
        <4> SUFFICES ASSUME b.split = 0 PROVE FALSE  OBVIOUS
        <4>1. b.head[2] + b.len <= PAGE  BY DEF WellMade
        <4> QED  BY <1>1, <1>4, <4>1
      <3> QED  BY <1>1, <3>1
    <2>2. b.split = PAGE - b.head[2] /\ First(b) = b.split  BY <2>1 DEF WellMade, First
    <2> DEFINE j == b.head[2] + i - PAGE
    <2>3. j \in 0 .. b.len - First(b) - 1  BY <1>1, <1>4, <2>2
    <2>4. b.from[i] = <<b.page2, j>>  BY <1>2, <1>4
    <2> HIDE DEF j
    <2> QED  BY <2>3, <2>4 DEF Bytes
  <1> QED  BY <1>3, <1>4

\* The bytes of a block are on the pages it is marked with.
LEMMA BytesOnPages ==
  ASSUME NEW b \in Block, WellMade(b), NEW x \in Bytes(b)
  PROVE  x[1] \in PagesOf(b)
  <1>1. b.len \in 1 .. PAGE /\ b.split \in 0 .. PAGE /\ PAGE \in Nat  BY BlockNumbers
  <1>2. CASE \E i \in 0 .. First(b) - 1 : x = <<b.page, b.head[2] + i>>
    BY <1>2 DEF PagesOf
  <1>3. CASE \E i \in 0 .. b.len - First(b) - 1 : x = <<b.page2, i>>
    <2>1. b.split > 0
      <3>1. CASE b.split = 0  BY <1>1, <1>3, <3>1 DEF First
      <3> QED  BY <1>1, <3>1
    <2> QED  BY <1>3, <2>1 DEF PagesOf
  <1> QED  BY <1>2, <1>3 DEF Bytes

\* A block whose pages are mapped where they were stands for what is fetched.
LEMMA MappedIsFetched ==
  ASSUME JTypeOK, NEW b \in Block, WellMade(b), b.mode = mode,
         mode \in PagedModes => /\ map[b.head[1]] = b.page
                                /\ b.split > 0 => map[b.head[1] + 1] = b.page2
  PROVE  b.from = Fetched(mode, map, b.head, b.len)
  <1>1. /\ PAGE \in Nat /\ b.head[1] \in Linear
        /\ b.head[2] \in 0 .. PAGE - 1 /\ b.len \in 1 .. PAGE /\ b.split \in 0 .. PAGE
    BY BlockNumbers
  <1>2. PageOf(mode, map, b.head[1]) = b.page  BY <1>1 DEF PageOf, WellMade
  <1>3. b.split > 0 => PageOf(mode, map, b.head[1] + 1) = b.page2
    BY DEF PageOf, WellMade
  <1>4. ASSUME NEW i \in 0 .. b.len - 1, ~(b.head[2] + i < PAGE) PROVE b.split > 0
    <2>1. CASE b.split = 0
      <3>1. b.head[2] + b.len <= PAGE  BY <2>1 DEF WellMade
      <3> QED  BY <1>1, <1>4, <3>1
    <2> QED  BY <1>1, <2>1
  <1>5. \A i \in 0 .. b.len - 1 :
          (IF b.head[2] + i < PAGE THEN <<b.page, b.head[2] + i>>
           ELSE <<b.page2, b.head[2] + i - PAGE>>)
          = (IF b.head[2] + i < PAGE THEN <<PageOf(mode, map, b.head[1]), b.head[2] + i>>
             ELSE <<PageOf(mode, map, b.head[1] + 1), b.head[2] + i - PAGE>>)
    BY <1>2, <1>3, <1>4
  <1>6. b.from = Sources(b)  BY DEF WellMade
  <1> QED  BY <1>5, <1>6 DEF Sources, Fetched

\* A block that has just been made stands for what was fetched for it.
LEMMA TranslatedWellMade ==
  ASSUME JTypeOK, NEW t \in Traces, NEW words \in t.words,
         PageOf(mode, map, t.head[1]) # Gone
  PROVE  WellMade(Translated(t, words))
  <1> DEFINE b == Translated(t, words)
             far == t.len > InFirst(t.head) /\ Second(t.head) # Gone
  <1>1. /\ b \in Block /\ b.head = t.head /\ b.mode = mode
        /\ b.from = Fetched(mode, map, b.head, b.len)
        /\ b.page = PageOf(mode, map, b.head[1])
        /\ b.split = (IF far THEN InFirst(t.head) ELSE 0)
        /\ far => b.len = t.len /\ b.page2 = Second(t.head)
        /\ ~far => b.len <= InFirst(t.head)
    BY TranslatedParts
  <1> HIDE DEF b
  <1>2. /\ PAGE \in Nat /\ b.head[1] \in Linear
        /\ b.head[2] \in 0 .. PAGE - 1 /\ b.len \in 1 .. PAGE /\ b.split \in 0 .. PAGE
    BY <1>1, BlockNumbers
  <1>3. InFirst(t.head) = PAGE - b.head[2]  BY <1>1 DEF InFirst
  <1>4. Second(t.head) = PageOf(mode, map, b.head[1] + 1)  BY <1>1 DEF Second
  <1>5. CASE far
    <2>1. /\ b.split = PAGE - b.head[2] /\ b.split < b.len /\ b.split > 0
          /\ b.page2 = PageOf(mode, map, b.head[1] + 1) /\ b.page2 # Gone
      BY <1>1, <1>2, <1>3, <1>4, <1>5
    <2>2. b.head[1] + 1 \in Linear  BY <2>1 DEF PageOf
    <2>3. b.mode \notin PagedModes => /\ b.page = Flat[b.mode][b.head[1]]
                                      /\ b.page2 = Flat[b.mode][b.head[1] + 1]
      BY <1>1, <1>2, <2>1, <2>2 DEF PageOf
    <2>4. b.from = Sources(b)  BY <1>1, <2>1 DEF Fetched, Sources
    <2> QED  BY <2>1, <2>2, <2>3, <2>4 DEF WellMade, b
  <1>6. CASE ~far
    <2>1. b.split = 0 /\ b.head[2] + b.len <= PAGE  BY <1>1, <1>2, <1>3, <1>6
    <2>2. b.mode \notin PagedModes => b.page = Flat[b.mode][b.head[1]]
      BY <1>1, <1>2 DEF PageOf
    <2>3. \A i \in 0 .. b.len - 1 : b.head[2] + i < PAGE  BY <1>2, <2>1
    <2>4. b.from = Sources(b)
      BY <1>1, <2>3 DEF Fetched, Sources
    <2> QED  BY <2>1, <2>2, <2>4 DEF WellMade, b
  <1> QED  BY <1>5, <1>6

-----------------------------------------------------------------------------
(* Fresh code. *)

Sane(c) == \A w \in Live(c) : /\ WellMade(c[w]) /\ c[w].fresh
                              /\ Bytes(c[w]) \cap c[w].writes = {}

Marked(c, m) == \A w \in Live(c) : PagesOf(c[w]) \subseteq m

Clear(c, cells) == \A w \in Live(c) : Bytes(c[w]) \cap cells = {}

Fresh ==
    /\ Sane(code) /\ Marked(code, marks)
    /\ at \in Runs => /\ running \in Ways
                      /\ running \in Live(code) => Clear(code, code[running].writes)
    /\ at \in {"run", "adrift"} => running \in Live(code)
    /\ at \in {"run", "ready"} =>
         /\ running \in Live(code) /\ code[running].mode = mode
         /\ code[running].from = Fetched(mode, map, code[running].head, code[running].len)

\* Native stores keep within the page whose mark they test.
Within == \A s \in NativeStores : s.off + s.len <= PAGE

\* A store that reaches no block changes none.
LEMMA RotNothing ==
  ASSUME NEW c \in Table, Sane(c), NEW cells, Clear(c, cells)
  PROVE  Rot(c, cells) = c
  <1>1. ASSUME NEW w \in Live(c), NEW i \in 0 .. c[w].len - 1 PROVE c[w].from[i] \notin cells
    <2>1. c[w] \in Block /\ WellMade(c[w])  BY LiveBlock DEF Sane
    <2>2. c[w].from[i] \in Bytes(c[w])  BY <2>1, SourcesAreBytes
    <2> QED  BY <2>2 DEF Clear
  <1>2. Rot(c, cells) = [w \in Ways |-> c[w]]  BY <1>1 DEF Rot
  <1> QED  BY <1>2 DEF Table

\* Dropping blocks leaves the others sane, and the marks cover them.
LEMMA DroppedSane ==
  ASSUME NEW c \in Table, NEW m, NEW ws, Sane(c), Marked(c, m)
  PROVE  /\ Sane(Without(c, ws)) /\ Marked(Without(c, ws), m)
         /\ Marked(Without(c, ws), MarksOf(Without(c, ws)))
         /\ \A cells : Clear(c, cells) => Clear(Without(c, ws), cells)
  <1> DEFINE d == Without(c, ws)
  <1>1. \A w \in Live(d) : w \in Live(c) /\ d[w] = c[w]  BY WithoutTable
  <1>2. Marked(d, MarksOf(d))  BY DEF Marked, MarksOf
  <1> HIDE DEF d
  <1>3. Sane(d)  BY <1>1 DEF Sane
  <1>4. Marked(d, m)  BY <1>1 DEF Marked
  <1>5. ASSUME NEW cells, Clear(c, cells) PROVE Clear(d, cells)
    BY <1>1, <1>5 DEF Clear
  <1> QED  BY <1>2, <1>3, <1>4, <1>5 DEF d

\* A store on pages without a mark reaches no block.
LEMMA UnmarkedIsClear ==
  ASSUME NEW c \in Table, NEW m, Sane(c), Marked(c, m), NEW cells,
         \A x \in cells : x[1] \notin m
  PROVE  Clear(c, cells)
  <1> SUFFICES ASSUME NEW w \in Live(c), NEW x \in Bytes(c[w]), x \in cells PROVE FALSE
    BY DEF Clear
  <1>1. c[w] \in Block /\ WellMade(c[w]) /\ PagesOf(c[w]) \subseteq m
    BY LiveBlock DEF Sane, Marked
  <1>2. x[1] \in PagesOf(c[w])  BY <1>1, BytesOnPages
  <1> QED  BY <1>1, <1>2

\* After the blocks a store reaches are dropped it reaches none.
LEMMA NotedIsClear ==
  ASSUME code \in Table, Sane(code), Marked(code, marks), NEW s
  PROVE  Clear(Without(code, Noted(s)), Reach(s))
  <1>1. CASE \E x \in Reach(s) : x[1] \in marks
    <2>1. Noted(s) = Over(code, Reach(s), NoWay)  BY <1>1 DEF Noted
    <2> SUFFICES ASSUME NEW w \in Live(Without(code, Noted(s)))
                 PROVE  Bytes(Without(code, Noted(s))[w]) \cap Reach(s) = {}
      BY DEF Clear
    <2>2. w \in Live(code) /\ w \notin Noted(s) /\ Without(code, Noted(s))[w] = code[w]
      BY WithoutTable
    <2>3. w # NoWay  BY <2>2, JitTable DEF Live, NoWay
    <2> QED  BY <2>1, <2>2, <2>3 DEF Over
  <1>2. CASE ~\E x \in Reach(s) : x[1] \in marks
    <2>1. Clear(code, Reach(s))  BY <1>2, UnmarkedIsClear
    <2> QED  BY <2>1, DroppedSane
  <1> QED  BY <1>1, <1>2

\* What a flush leaves is sane.
LEMMA FlushedFresh ==
  ASSUME Flushed, at' \notin {"run", "adrift", "ready"}, at' \in Runs => running' \in Ways
  PROVE  Fresh'
  <1>1. Live(code') = {}  BY FlushedTable
  <1> QED  BY <1>1 DEF Fresh, Sane, Marked, Runs

\* A noted store drops what it reaches and stores over none of the rest.
LEMMA NotedSane ==
  ASSUME code \in Table, Sane(code), Marked(code, marks), NEW s, NotedStore(s)
  PROVE  /\ Sane(code') /\ Marked(code', marks')
         /\ \A w \in Live(code') : w \in Live(code) /\ code'[w] = code[w]
         /\ \A cells : Clear(code, cells) => Clear(code', cells)
  <1> DEFINE c == Without(code, Noted(s))
  <1>1. code' = Rot(c, Reach(s)) /\ Keep(Noted(s))  BY DEF NotedStore
  <1>2. /\ c \in Table /\ Sane(c) /\ Marked(c, marks')
        /\ \A cells : Clear(code, cells) => Clear(c, cells)
    BY <1>1, WithoutTable, DroppedSane DEF Keep
  <1>3. Clear(c, Reach(s))  BY NotedIsClear
  <1>4. \A w \in Live(c) : w \in Live(code) /\ c[w] = code[w]  BY WithoutTable
  <1> HIDE DEF c
  <1>5. code' = c  BY <1>1, <1>2, <1>3, RotNothing
  <1> QED  BY <1>2, <1>4, <1>5

\* Compaction changes nothing a block stands for.
LEMMA CompactedSane ==
  ASSUME NEW c \in Table, top \in Nat, NEW m, Sane(c), Marked(c, m)
  PROVE  Sane(Compacted(c)) /\ Marked(Compacted(c), m)
  <1> DEFINE d == Compacted(c)
  <1>1. Live(d) = Live(c)  BY CompactedTable
  <1>2. ASSUME NEW w \in Live(c)
        PROVE  /\ d[w].head = c[w].head /\ d[w].mode = c[w].mode /\ d[w].len = c[w].len
               /\ d[w].split = c[w].split /\ d[w].page = c[w].page /\ d[w].page2 = c[w].page2
               /\ d[w].writes = c[w].writes /\ d[w].from = c[w].from /\ d[w].fresh = c[w].fresh
    <2>1. c[w] \in Block  BY LiveBlock
    <2>2. PICK x \in BOOLEAN : d[w] = [c[w] EXCEPT !.at = Place(c, w), !.whole = x]
      BY CompactedTable
    <2> HIDE DEF d
    <2> QED  BY <2>1, <2>2 DEF Block
  <1> HIDE DEF d
  <1>3. \A w \in Live(c) : Bytes(d[w]) = Bytes(c[w]) /\ PagesOf(d[w]) = PagesOf(c[w])
    BY <1>2 DEF Bytes, First, PagesOf
  <1>4. \A w \in Live(c) : WellMade(c[w]) => WellMade(d[w])
    BY <1>2 DEF WellMade, Sources
  <1>5. Sane(d)  BY <1>1, <1>2, <1>3, <1>4 DEF Sane
  <1>6. Marked(d, m)  BY <1>1, <1>3 DEF Marked
  <1> QED  BY <1>5, <1>6 DEF d

\* Entering a block drops what it is about to store over.
LEMMA EnterFresh ==
  ASSUME code \in Table, Sane(code), Marked(code, marks), NEW w \in Live(code), Enter(w)
  PROVE  /\ Sane(code') /\ Marked(code', marks')
         /\ w \in Live(code') /\ code'[w] = code[w]
         /\ Clear(code', code'[w].writes)
         /\ at' = "run" /\ running' = w
  <1> DEFINE hit == Over(code, code[w].writes, w)
  <1>1. code' = Without(code, hit) /\ Keep(hit) /\ at' = "run" /\ running' = w
    BY DEF Enter
  <1>2. Sane(code') /\ Marked(code', marks')
    BY <1>1, DroppedSane DEF Keep
  <1>3. w \notin hit  BY DEF Over
  <1>4. w \in Live(code') /\ code'[w] = code[w]
    BY <1>1, <1>3 DEF Without, Live
  <1>5. Clear(code', code[w].writes)
    <2> SUFFICES ASSUME NEW v \in Live(code') PROVE Bytes(code'[v]) \cap code[w].writes = {}
      BY DEF Clear
    <2>1. v \in Live(code) /\ v \notin hit /\ code'[v] = code[v]  BY <1>1, WithoutTable
    <2>2. CASE v = w  BY <2>1, <2>2 DEF Sane
    <2>3. CASE v # w  BY <2>1, <2>3 DEF Over
    <2> QED  BY <2>2, <2>3
  <1> QED  BY <1>1, <1>2, <1>4, <1>5

\* Every step keeps what runs fresh, if native stores keep within a page.
LEMMA FreshKept ==
  ASSUME Within, JitTypes, Fresh, [JNext]_jvars
  PROVE  Fresh'
  <1>0. code \in Table /\ top \in Nat /\ Sane(code) /\ Marked(code, marks) /\ JTypeOK
    BY DEF JitTypes, JTypeOK, Table, Fresh
  <1>1. ASSUME UNCHANGED <<code, marks>>, at' \notin Runs \cup {"ready"} PROVE Fresh'
    BY <1>1 DEF Fresh, Sane, Marked, Runs
  <1>2. CASE UNCHANGED jvars
    <2>1. UNCHANGED <<code, marks, at, running, mode, map>>
      BY <1>2 DEF jvars, world, flow
    <2> QED  BY <2>1 DEF Fresh, Sane, Marked, Clear, Fetched, PageOf
  <1>3. ASSUME NEW s \in Stores, GuestStore(s) PROVE Fresh'
    <2>1. NotedStore(s) /\ at' = "guest"  BY <1>3 DEF GuestStore, Guest, flow
    <2>2. Sane(code') /\ Marked(code', marks')  BY <1>0, <2>1, NotedSane
    <2> QED  BY <2>1, <2>2 DEF Fresh, Runs
  <1>4. CASE InGuest /\ ~\E s \in Stores : GuestStore(s)
    <2>1. at' = "guest" /\ (Flushed \/ UNCHANGED <<code, marks>>)
      BY <1>4, Released DEF InGuest, Guest, GuestRemap, GuestMode, VideoStore, VideoClaim,
                            VideoMode, ColdStart, flow
    <2> QED  BY <1>1, <2>1, FlushedFresh DEF Runs
  <1>5. CASE InProbe
    <2>1. at' = "look" /\ (Flushed \/ UNCHANGED <<code, marks>>)
      BY <1>5 DEF InProbe, ProbeReady, ProbeOther, ProbeBuild, ProbeSteal, Probe, DropCallers
    <2> QED  BY <1>1, <2>1, FlushedFresh DEF Runs
  <1>6. ASSUME NEW w \in Live(code), Enter(w), UNCHANGED <<mode, map>>, code[w].mode = mode,
               code[w].from = Fetched(mode, map, code[w].head, code[w].len)
        PROVE  Fresh'
    <2>1. /\ Sane(code') /\ Marked(code', marks')
          /\ w \in Live(code') /\ code'[w] = code[w]
          /\ Clear(code', code'[w].writes)
          /\ at' = "run" /\ running' = w
      BY <1>0, <1>6, EnterFresh
    <2>2. /\ code'[running'].mode = mode'
          /\ code'[running'].from = Fetched(mode', map', code'[running'].head, code'[running'].len)
      BY <1>6, <2>1
    <2>3. running' \in Ways  BY <2>1 DEF Live
    <2> QED  BY <2>1, <2>2, <2>3 DEF Fresh
  <1>7. ASSUME NEW t \in Traces, NEW w \in Ways, Hit(t, w) PROVE Fresh'
    <2>1. Matches(w, t.head) /\ Enter(w) /\ UNCHANGED <<mode, map>>
      BY <1>7 DEF Hit, Looking, world
    <2>2. w \in Live(code) /\ code[w].mode = mode /\ Mapped(code[w]) /\ Walked(code[w])
      BY <2>1 DEF Matches, Live, Enter
    <2>3. code[w] \in Block /\ WellMade(code[w])  BY <1>0, <2>2, LiveBlock DEF Sane
    <2>4. mode \in PagedModes =>
            /\ map[code[w].head[1]] = code[w].page
            /\ code[w].split > 0 => map[code[w].head[1] + 1] = code[w].page2
      BY <2>2 DEF Mapped, Walked
    <2>5. code[w].from = Fetched(mode, map, code[w].head, code[w].len)
      BY <1>0, <2>2, <2>3, <2>4, MappedIsFetched
    <2> QED  BY <1>6, <2>1, <2>2, <2>5
  <1>8. CASE EnterNew
    <2>1. at = "ready" /\ Enter(running) /\ UNCHANGED <<mode, map>>
      BY <1>8 DEF EnterNew, world
    <2>2. /\ running \in Live(code) /\ code[running].mode = mode
          /\ code[running].from = Fetched(mode, map, code[running].head, code[running].len)
      BY <2>1 DEF Fresh
    <2> QED  BY <1>6, <2>1, <2>2
  <1>9. CASE GiveUp \/ Leave \/ \E t \in Traces : Miss(t)
    <2>1. UNCHANGED <<code, marks>> /\ at' \in {"guest", "room"}
      BY <1>9 DEF GiveUp, Leave, Miss
    <2> QED  BY <1>1, <2>1 DEF Runs
  <1>10. CASE Enough \/ Borrow
    <2>1. at' \in {"short", "emit"} /\ (Flushed \/ UNCHANGED <<code, marks>>)
      BY <1>10 DEF Enough, Borrow, Switch
    <2> QED  BY <1>1, <2>1, FlushedFresh DEF Runs
  <1>11. ASSUME NEW c \in Table, NEW m, Sane(c), Marked(c, m), code' = Compacted(c), marks' = m,
                at' \in {"short", "emit"}
         PROVE  Fresh'
    <2>1. Sane(code') /\ Marked(code', marks')  BY <1>0, <1>11, CompactedSane
    <2> QED  BY <1>11, <2>1 DEF Fresh, Sane, Marked, Runs
  <1>12. CASE Compact
    <2>1. code' = Compacted(code) /\ marks' = marks /\ at' \in {"short", "emit"}
      BY <1>12 DEF Compact
    <2> QED  BY <1>0, <1>11, <2>1
  <1>13. ASSUME NEW w \in Ways, Evict(w) PROVE Fresh'
    <2> DEFINE c == Without(code, {w})
    <2>1. code' = Compacted(c) /\ marks' = MarksOf(c) /\ at' \in {"short", "emit"}
      BY <1>13 DEF Evict
    <2>2. c \in Table /\ Sane(c) /\ Marked(c, MarksOf(c))
      BY <1>0, WithoutTable, DroppedSane
    <2> HIDE DEF c
    <2> QED  BY <1>11, <2>1, <2>2
  <1>14. ASSUME NEW w \in Ways, NEW words \in 1 .. RESERVE, Emit(words, w) PROVE Fresh'
    <2> DEFINE b == Translated(asked, words)
    <2>1. /\ asked \in Traces /\ words \in asked.words
          /\ PageOf(mode, map, asked.head[1]) # Gone
      BY <1>14 DEF Emit, AskKnown, JitTypes
    <2>2. /\ b \in Block /\ b.fresh /\ b.mode = mode
          /\ b.from = Fetched(mode, map, b.head, b.len)
          /\ b.data = asked.data /\ b.writes = Data(mode, map, asked.data)
      BY <1>0, <2>1, TranslatedParts
    <2>3. WellMade(b)  BY <1>0, <2>1, TranslatedWellMade
    <2>4. /\ code' = [code EXCEPT ![w] = b] /\ marks' = marks \cup PagesOf(b)
          /\ at' = "ready" /\ running' = w /\ Sound(b, asked) /\ UNCHANGED <<mode, map>>
      BY <1>14 DEF Emit, world
    <2>5. Bytes(b) \cap b.writes = {}
      <3>1. CASE b.data = {}
        <4>1. b.writes = {}  BY <2>2, <3>1 DEF Data
        <4> QED  BY <4>1
      <3>2. CASE b.data # {}  BY <2>4, <3>2 DEF Sound
      <3> QED  BY <3>1, <3>2
    <2> HIDE DEF b
    <2>6. code'[w] = b /\ \A v \in Ways \ {w} : code'[v] = code[v]
      BY <1>0, <2>4 DEF Table
    <2>7. \A v \in Live(code') : v # w => v \in Live(code) /\ code'[v] = code[v]
      BY <2>6 DEF Live
    <2>8. w \in Live(code')  BY <2>2, <2>6, BlockIsNot DEF Live
    <2>9. ASSUME NEW v \in Live(code')
          PROVE  /\ WellMade(code'[v]) /\ code'[v].fresh
                 /\ Bytes(code'[v]) \cap code'[v].writes = {}
                 /\ PagesOf(code'[v]) \subseteq marks'
      <3>1. CASE v = w  BY <2>2, <2>3, <2>4, <2>5, <2>6, <3>1
      <3>2. CASE v # w  BY <1>0, <2>4, <2>7, <3>2 DEF Sane, Marked
      <3> QED  BY <3>1, <3>2
    <2>10. Sane(code') /\ Marked(code', marks')  BY <2>9 DEF Sane, Marked
    <2>11. /\ code'[running'].mode = mode'
           /\ code'[running'].from = Fetched(mode', map', code'[running'].head, code'[running'].len)
      BY <2>2, <2>4, <2>6
    <2> QED  BY <2>4, <2>8, <2>10, <2>11 DEF Fresh, Runs
  <1>15. ASSUME at \in Runs, UNCHANGED <<code, marks, running>>, at' \in Runs,
                at' = "loose" \/ at # "loose", at' = "run" => at = "run" /\ UNCHANGED <<mode, map>>
         PROVE  Fresh'
    <2>1. /\ running \in Ways
          /\ running \in Live(code) => Clear(code, code[running].writes)
          /\ at # "loose" => running \in Live(code)
          /\ at = "run" => /\ code[running].mode = mode
                           /\ code[running].from = Fetched(mode, map, code[running].head, code[running].len)
      BY <1>15 DEF Fresh, Runs
    <2>2. at' \in {"run", "adrift"} => at # "loose"  BY <1>15
    <2>3. Sane(code') /\ Marked(code', marks') /\ Live(code') = Live(code)
      BY <1>0, <1>15 DEF Sane, Marked
    <2>4. running' \in Live(code') => Clear(code', code'[running'].writes)
      BY <1>15, <2>1 DEF Clear
    <2>5. at' = "run" =>
            /\ running' \in Live(code') /\ code'[running'].mode = mode'
            /\ code'[running'].from = Fetched(mode', map', code'[running'].head, code'[running'].len)
      BY <1>15, <2>1 DEF Fetched, PageOf
    <2> QED  BY <1>15, <2>1, <2>2, <2>3, <2>4, <2>5 DEF Fresh, Runs
  <1>16. ASSUME NEW s \in NativeStores, NativeStore(s) PROVE Fresh'
    <2>1. /\ at \in Runs /\ UNCHANGED <<marks, running, map, mode, at>>
          /\ code' = Rot(code, Reach(s)) /\ s.page \notin marks
      BY <1>16 DEF NativeStore, Running, world
    <2>2. \A x \in Reach(s) : x[1] \notin marks
      <3>1. s.off + s.len <= PAGE /\ s.off \in Nat /\ s.len \in Nat /\ PAGE \in Nat
        <4>1. s \in Stores  BY JitStores
        <4> QED  BY <4>1, JitStores, JitSizes DEF Within
      <3>2. PAGE .. s.off + s.len - 1 = {}  BY <3>1
      <3>3. \A x \in Reach(s) : x[1] = s.page  BY <3>2 DEF Reach
      <3> QED  BY <2>1, <3>3
    <2>3. code' = code  BY <1>0, <2>1, <2>2, UnmarkedIsClear, RotNothing
    <2> QED  BY <1>15, <2>1, <2>3
  <1>17. CASE StaticStore
    <2>1. /\ at \in Runs /\ UNCHANGED <<marks, running, map, mode, at>>
          /\ code' = Rot(code, code[running].writes) /\ code[running] # NoBlock
      BY <1>17 DEF StaticStore, Traced, Listed, Running, world
    <2>2. Clear(code, code[running].writes)  BY <2>1 DEF Fresh, Live
    <2>3. code' = code  BY <1>0, <2>1, <2>2, RotNothing
    <2> QED  BY <1>15, <2>1, <2>3
  <1>18. CASE \/ OutVideo \/ \E m \in Modes : Out(m)
              \/ \E l \in Linear, p \in Ram \cup {Gone} : Lookup(l, p)
    <2>1. /\ at \in Runs /\ UNCHANGED <<code, marks, running>> /\ at' \in Runs
          /\ at' = "loose" \/ at # "loose"
          /\ at' = "run" => at = "run" /\ UNCHANGED <<mode, map>>
      BY <1>18 DEF OutVideo, Out, Lookup, Drift, Running, Runs, world
    <2> QED  BY <1>15, <2>1
  <1>19. CASE Chain
    <2>1. UNCHANGED <<code, marks>> /\ at' = "look"  BY <1>19 DEF Chain
    <2> QED  BY <1>1, <2>1 DEF Runs
  <1>20. ASSUME NEW s \in Stores, RepStore(s) PROVE Fresh'
    <2>1. NotedStore(s) /\ at' = "loose" /\ at \in Runs /\ running' = running
      BY <1>20 DEF RepStore, Running
    <2>2. /\ Sane(code') /\ Marked(code', marks')
          /\ \A w \in Live(code') : w \in Live(code) /\ code'[w] = code[w]
          /\ \A cells : Clear(code, cells) => Clear(code', cells)
      BY <1>0, <2>1, NotedSane
    <2>3. running \in Ways /\ (running \in Live(code) => Clear(code, code[running].writes))
      BY <2>1 DEF Fresh
    <2>4. running \in Live(code') => Clear(code', code'[running].writes)  BY <2>2, <2>3
    <2> QED  BY <2>1, <2>2, <2>3, <2>4 DEF Fresh
  <1>21. CASE RepVideo
    <2>1. /\ Flushed \/ UNCHANGED <<code, marks>>
          /\ at' = "loose" /\ at \in Runs /\ running' = running
      BY <1>21, Released DEF RepVideo, Running
    <2>2. running \in Ways  BY <2>1 DEF Fresh
    <2>3. CASE Flushed  BY <2>1, <2>2, <2>3, FlushedFresh
    <2>4. CASE UNCHANGED <<code, marks>>  BY <1>15, <2>1, <2>4 DEF Runs
    <2> QED  BY <2>1, <2>3, <2>4
  <1> QED
    BY <1>2, <1>3, <1>4, <1>5, <1>7, <1>8, <1>9, <1>10, <1>12, <1>13, <1>14, <1>16, <1>17, <1>18,
       <1>19, <1>20, <1>21
    DEF JNext, InLook, InMake, InRun

\* What can be entered was not stored over since it was translated, it is entered
\* only where the CPU would fetch it, and it stays in the table while it runs, until
\* it stores by REP MOVSB (nj_note_write, nj_invalidate_exact_range,
\* nj_code_mapping_valid, nj_v45_paged_static_valid); as long as the guarded stores
\* of translated code keep within a page.  One that straddles two pages is not
\* covered: the code tests the mark of the first page only.
THEOREM CodeStaysFresh == Within => (JSpec => []FreshCode)
  <1> SUFFICES ASSUME Within PROVE JSpec => []FreshCode  OBVIOUS
  <1>1. JInit => JitTypes /\ Fresh
    <2> SUFFICES ASSUME JInit PROVE JitTypes /\ Fresh  OBVIOUS
    <2>1. code = [w \in Ways |-> NoBlock] /\ at = "guest"  BY DEF JInit
    <2>2. Live(code) = {}  BY <2>1 DEF Live
    <2> QED  BY <2>1, <2>2, JitInitTypes DEF Fresh, Sane, Marked, Runs
  <1>2. JitTypes /\ Fresh /\ [JNext]_jvars => (JitTypes /\ Fresh)'
    BY TypesKept, FreshKept
  <1>3. JitTypes /\ Fresh => FreshCode
    BY DEF Fresh, FreshCode, Sane, Runs
  <1> QED  BY <1>1, <1>2, <1>3, PTL DEF JSpec
=============================================================================
