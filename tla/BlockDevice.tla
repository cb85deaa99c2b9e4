----------------------------- MODULE BlockDevice -----------------------------
(***************************************************************************)
(* What the file system needs of disk_read and disk_write                   *)
(* (src/drivers/sdcard/sdcard.c:717-787), whatever lies between it and the   *)
(* card: a read hands over what the card holds now, all of it or nothing.   *)
(*                                                                         *)
(* Word k of sector l is <<"data", l, v, k>>, v counting the writes of l     *)
(* modulo VERSIONS.                                                         *)
(***************************************************************************)
EXTENDS Integers, Sequences

CONSTANTS SECTORS,   \* sectors of the card
          BURST,     \* words in a sector, 128 in the code
          VERSIONS,  \* contents a sector may have
          RUN        \* bound: the longest run of sectors a call asks for

ASSUME DeviceAssumption == /\ SECTORS \in Nat \ {0}
                           /\ BURST \in Nat \ {0}
                           /\ VERSIONS \in Nat \ {0}
                           /\ RUN \in 1 .. SECTORS

VARIABLES card,      \* version of every sector
          ans        \* words the last call read, none if it wrote or failed

Lba == 0 .. SECTORS - 1

Runs == {r \in Lba \X (1 .. RUN) : r[1] + r[2] <= SECTORS}
Run(l, n) == l .. l + n - 1

DataWord(l, v, k) == <<"data", l, v, k>>

Contents(l, n) ==
    [i \in 1 .. n * BURST |->
        LET s == l + (i - 1) \div BURST
        IN  DataWord(s, card[s], (i - 1) % BURST)]

DeviceInit == card = [l \in Lba |-> 0] /\ ans = <<>>

ReadSectors(l, n) == ans' = Contents(l, n) /\ UNCHANGED card

\* a write that fails may have reached any of the sectors
WriteSectors(l, n) ==
    /\ ans' = <<>>
    /\ \E reached \in SUBSET Run(l, n) :
          card' = [s \in Lba |-> IF s \in reached THEN (card[s] + 1) % VERSIONS
                                                  ELSE card[s]]

\* the caller uses its buffer for something else
Reuse == ans' = <<>> /\ UNCHANGED card

DeviceNext ==
    \/ Reuse
    \/ \E r \in Runs : ReadSectors(r[1], r[2]) \/ WriteSectors(r[1], r[2])

DeviceSpec == DeviceInit /\ [][DeviceNext]_<<card, ans>>
=============================================================================
