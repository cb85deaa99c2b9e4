------------------------------- MODULE Disks -------------------------------
(***************************************************************************)
(* The three drives with the hosts that drive them: they share nothing, each *)
(* keeps its host going, and each moves the data it is asked for, in order.  *)
(***************************************************************************)
EXTENDS AtaDisk, Atapi, Fdc

\* A host that waits for interrupts of a disk is never left waiting (see AtaDisk and
\* Atapi).
HostsInStep == HostInStep /\ CdInStep

\* The hard disk, the CD-ROM and the floppy controller implement SectorStream: a
\* transfer moves the words of the sectors it names, in order (see each of them).
DisksStream == HdStreams /\ CdStreams /\ FloppyStreams
=============================================================================
