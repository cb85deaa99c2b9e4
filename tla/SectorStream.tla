---------------------------- MODULE SectorStream ----------------------------
(***************************************************************************)
(* What a host sees of a disk behind a data port, whatever registers,       *)
(* blocks and file positions lie between: a command names a run of sectors, *)
(* and the words that follow are the words of that run, in order.           *)
(***************************************************************************)
EXTENDS Integers

CONSTANTS WORDS,     \* words in a sector
          Runs,      \* <<b, n>>: the runs of sectors a command may name
          FRESH      \* what the host writes

VARIABLES medium,    \* contents of the disk, by word
          job,       \* the command being served, NoJob if none
          out        \* the last word handed to the host

NoJob == [op |-> "none", at |-> 0, end |-> 0]

Start(op, b, n) ==
    /\ job = NoJob
    /\ job' = [op |-> op, at |-> b * WORDS, end |-> (b + n) * WORDS]
    /\ out' = FRESH
    /\ UNCHANGED medium

\* the host reads or writes the next k words of the run
Move(k) ==
    /\ job # NoJob /\ job.at + k <= job.end
    /\ job' = IF job.at + k = job.end THEN NoJob ELSE [job EXCEPT !.at = @ + k]
    /\ \/ /\ job.op = "read"
          /\ out' = medium[job.at + k - 1]
          /\ UNCHANGED medium
       \/ /\ job.op = "write"
          /\ medium' = [w \in DOMAIN medium |->
                           IF w \in job.at .. job.at + k - 1 THEN FRESH ELSE medium[w]]
          /\ UNCHANGED out

\* a soft reset drops the command; what was written stays written
Abort == job # NoJob /\ job' = NoJob /\ UNCHANGED <<medium, out>>

\* a command that moves no sector
Other == job = NoJob /\ out' = FRESH /\ UNCHANGED <<medium, job>>

StreamNext ==
    \/ Other
    \/ \E op \in {"read", "write"}, r \in Runs : Start(op, r[1], r[2])
    \/ \E k \in 1 .. job.end - job.at : Move(k)
    \/ Abort

StreamSpec == job = NoJob /\ [][StreamNext]_<<medium, job, out>>
=============================================================================
