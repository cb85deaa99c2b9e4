------------------------------ MODULE DiskCache ------------------------------
(***************************************************************************)
(* The sector cache in the slave's memory (src/src/diskcache.c) under        *)
(* disk_read and disk_write (src/drivers/sdcard/sdcard.c), with the link of  *)
(* LinkSlave and the card of BlockDevice.                                   *)
(*                                                                         *)
(* The master is core 0 inside one of these calls; master says where:       *)
(* waiting for the reply to a ping, fetching a resident run, at the card,   *)
(* or copying what the card gave to the slave.  Every wait of the master is *)
(* bounded in the code and may time out here at any moment it has to wait.  *)
(***************************************************************************)
EXTENDS BlockDevice, LinkSlave

CONSTANTS SLOTS,    \* DC_SECTORS
          Strays    \* words the slave's receiver may collect from the bus of
                    \* a master that boots (link_fast.c:30-34)

ASSUME SlotAssumption == /\ SLOTS \in Nat \ {0} /\ MEM = SLOTS * BURST
                         /\ Strays \subseteq {Req(op, MEM) : op \in Operations} \cup {Zero}

VARIABLES
    tags,      \* dc_tag
    on,        \* dc_on
    master,    \* where core 0 is: in a run of left sectors, at lba
    out,       \* words the current transfer has still to put
    got        \* words it has taken so far

cacheVars == <<tags, on, master, out, got>>
vars == <<card, ans, linkVars, cacheVars>>

Empty == -1
Slots == 0 .. SLOTS - 1
Slot(l) == l % SLOTS
Resident(l, n) == \A s \in Run(l, n) : tags[Slot(s)] = s

Core0(at, first, n, lba) == [at |-> at, first |-> first, n |-> n, lba |-> lba]
Idle == Core0("idle", 0, 1, 0)
More == master.lba + 1 < master.first + master.n
Onwards == [master EXCEPT !.lba = @ + 1]

Ask(l) == <<Req("readBurst", Slot(l) * BURST), Num(BURST)>>
Fill(l) == <<Req("writeBurst", Slot(l) * BURST), Num(BURST)>>
           \o [k \in 1 .. BURST |-> DataWord(l, card[l], k - 1)]

-----------------------------------------------------------------------------
(* A reboot (main.c:2752, 305) and dc_init: the handshake drops what the     *)
(* master's FIFOs hold, then one ping.  Booting takes longer than the slave  *)
(* needs to finish or give up what it was in.                               *)

Reboot ==
    /\ master' = Core0("boot", 0, 1, 0)
    /\ tags' = [s \in Slots |-> Empty] /\ on' = FALSE
    /\ tx' = <<>> /\ out' = <<>> /\ got' = <<>>
    /\ Reuse
    /\ UNCHANGED <<rx, down, mem, slave>>

\* the bus floats until the master's link_tx owns the pins, long after the
\* slave has given up what the reboot cut off
Stray ==
    /\ master.at = "boot" /\ rx = <<>> /\ slave.at \in {"idle", "value"}
    /\ \E w \in Strays : rx' = <<w>>
    /\ UNCHANGED <<card, ans, tx, down, mem, slave, cacheVars>>

Sync ==
    /\ master.at = "boot" /\ rx = <<>> /\ slave.at = "idle"
    /\ \/ /\ tx' = <<>> /\ down' = <<>>
          /\ master' = Core0("ping", 0, 1, 0) /\ out' = <<Req("ping", 0)>>
       \/ /\ master' = Idle
          /\ UNCHANGED <<tx, down, out>>
    /\ UNCHANGED <<card, ans, rx, mem, slave, tags, on, got>>

Pong ==
    /\ master.at = "ping" /\ out = <<>> /\ down # <<>>
    /\ down' = Tail(down)
    /\ on' = (Head(down) = Magic)
    /\ master' = Idle
    /\ UNCHANGED <<card, ans, tx, rx, mem, slave, tags, out, got>>

-----------------------------------------------------------------------------
(* lf_put and the reads of the receive FIFO. *)

Put ==
    /\ out # <<>> /\ Len(tx) < TX
    /\ tx' = Append(tx, Head(out))
    /\ out' = Tail(out)
    /\ UNCHANGED <<card, ans, rx, down, mem, slave, tags, on, master, got>>

\* the transfer is given up, and the link with it
Abandon ==
    /\ on' = FALSE
    /\ out' = <<>> /\ got' = <<>>
    /\ master' = IF master.at = "ask" THEN [master EXCEPT !.at = "card", !.lba = master.first]
                                      ELSE Idle
    /\ UNCHANGED <<card, ans, linkVars, tags>>

\* "The original spun forever on a full TX FIFO" (link_fast.c:104-109)
BadPutTimeout == /\ out # <<>> /\ Len(tx) = TX
                 /\ UNCHANGED vars

PutTimeout == out # <<>> /\ Len(tx) = TX /\ Abandon

\* the caller falls back to the card, and the cache stays on
BadGetTimeout ==
    /\ master.at \in {"ask", "ping"} /\ out = <<>> /\ down = <<>>
    /\ got' = <<>>
    /\ master' = IF master.at = "ask" THEN [master EXCEPT !.at = "card", !.lba = master.first]
                                      ELSE Idle
    /\ UNCHANGED <<card, ans, linkVars, tags, on, out>>

GetTimeout ==
    /\ master.at \in {"ask", "ping"} /\ out = <<>> /\ down = <<>>
    /\ Abandon

\* a word of the burst; the last one of the run ends disk_read
Get ==
    /\ master.at = "ask" /\ out = <<>> /\ down # <<>>
    /\ down' = Tail(down)
    /\ LET words == Append(got, Head(down))
           last  == Len(words) % BURST = 0
       IN  /\ got' = IF last /\ ~More THEN <<>> ELSE words
           /\ ans' = IF last /\ ~More THEN words ELSE ans
           /\ out' = IF last /\ More THEN Ask(master.lba + 1) ELSE <<>>
           /\ master' = CASE ~last -> master [] last /\ More -> Onwards [] OTHER -> Idle
    /\ UNCHANGED <<card, tx, rx, mem, slave, tags, on>>

-----------------------------------------------------------------------------
(* disk_read and disk_write. *)

DiskRead(l, n) ==
    /\ master.at = "idle"
    /\ IF on /\ Resident(l, n)
         THEN master' = Core0("ask", l, n, l) /\ out' = Ask(l)
         ELSE master' = Core0("card", l, n, l) /\ UNCHANGED out
    /\ Reuse
    /\ UNCHANGED <<linkVars, tags, on, got>>

\* disk_read_impl; what the card gave goes to dc_fill
CardRead ==
    /\ master.at = "card"
    /\ \/ /\ ReadSectors(master.first, master.n)
          /\ IF on THEN /\ master' = [master EXCEPT !.at = "fill", !.lba = master.first]
                        /\ out' = Fill(master.first)
                   ELSE master' = Idle /\ UNCHANGED out
       \/ master' = Idle /\ UNCHANGED <<card, ans, out>>
    /\ UNCHANGED <<linkVars, tags, on, got>>

\* all words of a sector are put: it counts as resident
Filled ==
    /\ master.at = "fill" /\ out = <<>>
    /\ tags' = [tags EXCEPT ![Slot(master.lba)] = master.lba]
    /\ IF More THEN master' = Onwards /\ out' = Fill(master.lba + 1)
               ELSE master' = Idle /\ UNCHANGED out
    /\ UNCHANGED <<card, ans, linkVars, on, got>>

\* only the first sector is dropped
BadInvalidate(l, n) ==
    tags' = IF on /\ tags[Slot(l)] = l THEN [tags EXCEPT ![Slot(l)] = Empty] ELSE tags

Invalidate(l, n) ==
    tags' = IF on THEN [s \in Slots |-> IF tags[s] \in Run(l, n) THEN Empty ELSE tags[s]]
                  ELSE tags

\* the card first, whatever it answers, then dc_invalidate
DiskWrite(l, n) ==
    /\ master.at = "idle"
    /\ WriteSectors(l, n)
    /\ Invalidate(l, n)
    /\ UNCHANGED <<linkVars, on, master, out, got>>

-----------------------------------------------------------------------------
Init ==
    /\ DeviceInit /\ LinkInit
    /\ tags = [s \in Slots |-> Empty]
    /\ on = FALSE
    /\ master = Core0("boot", 0, 1, 0)
    /\ out = <<>> /\ got = <<>>

Sending == out # <<>> \/ (master.at = "fill" /\ More)

Listening == master.at \in {"ask", "ping"}

Slave == SlaveNext(Sending, Listening) /\ UNCHANGED <<card, ans, cacheVars>>
Transfer == Sync \/ Pong \/ Put \/ PutTimeout \/ Get \/ GetTimeout \/ CardRead \/ Filled
Calls == \E r \in Runs : DiskRead(r[1], r[2]) \/ DiskWrite(r[1], r[2])

Next == Slave \/ Transfer \/ Calls \/ Reboot \/ Stray

Spec == Init /\ [][Next]_vars

-----------------------------------------------------------------------------
Words == {Zero, Magic} \cup {Req(op, a) : op \in Operations, a \in 0 .. MEM}
         \cup {Num(n) : n \in 0 .. COUNTS + BURST}
         \cup {DataWord(l, v, k) : l \in Lba, v \in 0 .. VERSIONS - 1, k \in 0 .. BURST - 1}

\* The FIFOs keep their depths, the slave its place in a burst, core 0 its
\* place in a run.
TypeOK ==
    /\ card \in [Lba -> 0 .. VERSIONS - 1]
    /\ tags \in [Slots -> Lba \cup {Empty}]
    /\ on \in BOOLEAN
    /\ \A f \in {tx, rx, down, out, got, ans} : \A i \in DOMAIN f : f[i] \in Words
    /\ Len(tx) <= TX /\ Len(rx) <= RX /\ Len(down) <= DOWN
    /\ DOMAIN mem = 0 .. MEM - 1 /\ \A a \in DOMAIN mem : mem[a] \in Words
    /\ slave.at \in {"idle", "value", "count", "recv", "send"}
    /\ master.at \in {"boot", "ping", "idle", "ask", "card", "fill"}
    /\ master.lba \in Run(master.first, master.n)

\* With the cache in the way, disk_read and disk_write are still those of the
\* card: "nothing may live only here" (diskcache.h:27-28), and the cache stops
\* "rather than risk serving shifted bytes as disk contents"
\* (diskcache.c:73-75).
Transparent == DeviceSpec

\* "A reply can only ever belong to the one outstanding request"
\* (link_fast.h:43-44): while the cache is in use, no word of an earlier
\* transfer waits in the receive FIFO or is still to come when core 0 is
\* between two calls.
NoLeftovers == on /\ master.at = "idle" => down = <<>> /\ slave.at # "send"

\* Whenever the link is quiet, a resident sector's words in the slave are the
\* card's.  It relates a posted burst, which nothing acknowledges, with the
\* tag the master set when the last word left its hands.
ResidentIsCard ==
    on /\ tx = <<>> /\ rx = <<>> /\ slave.at = "idle" /\ master.at # "fill" =>
        \A s \in Slots : tags[s] # Empty =>
            \A k \in 0 .. BURST - 1 :
                mem[s * BURST + k] = DataWord(tags[s], card[tags[s]], k)

\* Nothing of an earlier transfer is about, and what is resident is the card's.
Coherent == NoLeftovers /\ ResidentIsCard

\* A call of the file system is never left waiting: whatever the slave does or
\* fails to do, core 0 has a step of its own that takes it further, and a full
\* FIFO or a missing reply does not hang the machine (link_fast.c:104-109).
NeverHangs == master.at \notin {"boot", "idle"} => ENABLED <<Transfer>>_vars
=============================================================================
