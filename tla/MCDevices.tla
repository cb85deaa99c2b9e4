----------------------------- MODULE MCDevices -----------------------------
(* Instances for TLC of the devices behind the port bus of core 0 that do not *)
(* meet each other's registers, of the CPU's batches and of the Disk Manager: *)
(* a behaviour is one of one of them, chosen at the start.                   *)
EXTENDS IntWindow, Kbc, Pit, Disks, Setup, MCVgaMem

VARIABLE which

allvars == <<which, hdvars, cdvars, kvars, pvars, fvars, wvars, mvars, svars>>

\* for the hard disk: as many sectors as the count holds, from one in the middle of
\* a track, or one sector
SomeMultiples == {0, 2, 3}
SomeRuns == {<<1, 0>>, <<2, 1>>}

\* for the floppy: across heads, within a track, across cylinders and past the end
SomeTransfers == {<<1, 4>>, <<2, 1>>, <<4, 2>>}

\* for the CD-ROM: none, a sector and more
SomeLimits == {0, 3, 4}

\* a floppy drive and two ATA slots, one of its number
SomeDrives == << <<"fd", 0>>, <<"ata", 0>>, <<"ata", 1>> >>

AnyInit == /\ which \in {"hd", "cd", "kbc", "pit", "fdc", "cpu", "vga", "setup"}
           /\ HdInit /\ CdInit /\ KInit /\ PInit /\ FInit /\ WInit
           /\ MInit /\ SInit
           /\ which # "cd" => present /\ ~changed

OnlyHd == /\ which = "hd"
          /\ UNCHANGED <<which, cdvars, kvars, pvars, fvars, wvars, mvars, svars>>
OnlyCd == /\ which = "cd"
          /\ UNCHANGED <<which, hdvars, kvars, pvars, fvars, wvars, mvars, svars>>
OnlyKbc == /\ which = "kbc"
           /\ UNCHANGED <<which, hdvars, cdvars, pvars, fvars, wvars, mvars, svars>>
OnlyPit == /\ which = "pit"
           /\ UNCHANGED <<which, hdvars, cdvars, kvars, fvars, wvars, mvars, svars>>
OnlyFdc == /\ which = "fdc"
           /\ UNCHANGED <<which, hdvars, cdvars, kvars, pvars, wvars, mvars, svars>>
OnlyCpu == /\ which = "cpu"
           /\ UNCHANGED <<which, hdvars, cdvars, kvars, pvars, fvars, mvars, svars>>
OnlyVga == /\ which = "vga"
           /\ UNCHANGED <<which, hdvars, cdvars, kvars, pvars, fvars, wvars, svars>>
OnlySetup == /\ which = "setup"
             /\ UNCHANGED <<which, hdvars, cdvars, kvars, pvars, fvars, wvars, mvars>>

AnyNext == \/ OnlyHd /\ HdNext
           \/ OnlyCd /\ CdNext
           \/ OnlyKbc /\ KNext
           \/ OnlyPit /\ PNext
           \/ OnlyFdc /\ FNext
           \/ OnlyCpu /\ WNext
           \/ OnlyVga /\ MNext
           \/ OnlySetup /\ SNext

\* the fairness of Kbc, Fdc and IntWindow, each where it is the one that runs
Fairness == /\ WF_allvars(OnlyKbc /\ Handler) /\ WF_allvars(OnlyKbc /\ KbdStep)
            /\ WF_allvars(OnlyFdc /\ DmaRun) /\ WF_allvars(OnlyFdc /\ Tick)
            /\ WF_allvars(OnlyFdc /\ Interrupt)
            /\ WF_allvars(OnlyCpu /\ Step) /\ WF_allvars(OnlyCpu /\ Instruction)

AnySpec == AnyInit /\ [][AnyNext]_allvars /\ Fairness

\* Every component keeps the types of its variables (the tables and registers of
\* ide.c, i8042.c, i8254.c, fdd.c and vga.c, the CPU's flags, the rows of diskui.c).
DevicesTypeOK ==
    CASE which = "hd" -> HdTypeOK [] which = "cd" -> CdTypeOK [] which = "kbc" -> KTypeOK
      [] which = "pit" -> PTypeOK [] which = "fdc" -> FTypeOK
      [] which = "cpu" -> WTypeOK [] which = "vga" -> MTypeOK
      [] which = "setup" -> STypeOK

\* What is lent to the JIT is claimed before the guest touches it (see VgaMem).
LentStaysLent == which = "vga" => LentIsClaimed
=============================================================================
