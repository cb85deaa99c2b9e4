-------------------------------- MODULE Setup --------------------------------
(* The Disk Manager (src/src/diskui.c), the drives it changes (disk.c) and the   *)
(* configuration file that brings them back (config_save.c, pc.c).           *)
(*                                                                         *)
(* A row of the menu is a floppy drive or an ATA slot.  What the user chooses is *)
(* pending until it is saved: then the drives change, the file is written anew,  *)
(* and the machine restarts if an ATA slot is concerned.  The power may fail at   *)
(* any time; a file that is being written is then empty.                      *)
(*                                                                         *)
(* The card takes every other write, and the settings that the same file holds   *)
(* are left out.                                                           *)
(***************************************************************************)
EXTENDS Naturals, Sequences

CONSTANTS DriveTable, \* drive_table: a floppy drive or an ATA slot, and its number,
                      \* which one of either kind may share
          Images,   \* names in the directory of images
          Iso,      \* those that end in .iso
          Opens,    \* those that can be opened: a name is cut to 31 characters
          Sized,    \* those whose size insertdisk accepts
          NONE, SAME,
          SwapsKind \* whether the user puts a disk where a CD was

ASSUME SetupNames ==
    /\ DriveTable \in Seq({"fd", "ata"} \X Nat)
    /\ NONE \notin Images /\ SAME \notin Images /\ SAME # NONE
    /\ Iso \cup Opens \cup Sized \subseteq Images

Rows == {DriveTable[i] : i \in 1 .. Len(DriveTable)}
IsAta(r) == r[1] = "ata"

VARIABLES drives,  \* struct_fdd, struct_ata: name, open file, iscdrom, image the geometry is of
          pendingFile, \* pending_filename: SAME if not changed, NONE to eject
          reboot,  \* reboot_required
          screen,  \* menu_state, and the row whose files it shows
          card,    \* lines of config.ini
          machine    \* "running", "saving", "rebooting" or "off"

svars == <<drives, pendingFile, reboot, screen, card, machine>>

Drive == [name : Images \cup {NONE}, file : Images \cup {NONE}, cd : BOOLEAN,
          geo : Images \cup {NONE}]
Empty == [name |-> NONE, file |-> NONE, cd |-> FALSE, geo |-> NONE]

-----------------------------------------------------------------------------
(* disk.c                                                                  *)

\* ejectdisk: a floppy drive that is empty falls through to the ATA slot
Ejected(ds, r) ==
    LET a == <<"ata", r[2]>>
    IN IF ~IsAta(r) /\ ds[r].name # NONE THEN [ds EXCEPT ![r] = Empty]
       ELSE [ds EXCEPT ![a].name = NONE, ![a].file = NONE]

\* the file of an image whose size is refused stays open
BadFilled(d, i, cd) ==
    IF cd THEN [name |-> i, file |-> i, cd |-> TRUE, geo |-> NONE]
    ELSE IF i \in Sized THEN [d EXCEPT !.name = i, !.file = i, !.geo = i]
    ELSE [d EXCEPT !.name = i, !.file = i]

\* a drive that has been emptied takes image i, which can be opened
Filled(d, i, cd) ==
    IF cd THEN [name |-> i, file |-> i, cd |-> TRUE, geo |-> NONE]
    ELSE IF i \in Sized THEN [d EXCEPT !.name = i, !.file = i, !.geo = i]
    ELSE [d EXCEPT !.name = i, !.file = NONE]

\* insertdisk
Inserted(ds, r, i, cd) ==
    LET freed == IF ds[r].file = NONE THEN ds ELSE Ejected(ds, r)
    IN IF i \in Opens THEN [freed EXCEPT ![r] = Filled(@, i, cd)] ELSE freed

-----------------------------------------------------------------------------
(* config_save.c; pc.c, parse_conf_ini and pc_new                           *)

\* the lines of config_save_all
Lines(ds) == {[row |-> r, name |-> ds[r].name, cd |-> IsAta(r) /\ ds[r].cd] :
                 r \in {q \in Rows : ds[q].name # NONE}}

\* the drives after a start
Mounted(lines) ==
    LET none == [r \in Rows |-> Empty]
    IN [r \in Rows |->
           IF \E l \in lines : l.row = r
           THEN LET l == CHOOSE m \in lines : m.row = r IN Inserted(none, r, l.name, l.cd)[r]
           ELSE Empty]

-----------------------------------------------------------------------------
(* diskui.c                                                                *)

Unchanged == [r \in Rows |-> SAME]
Closed == <<"closed">>
Main == <<"main">>

SInit == /\ card = {}
         /\ drives = Mounted(card)
         /\ pendingFile = Unchanged /\ reboot = FALSE
         /\ screen = Closed /\ machine = "running"

\* diskui_open, by Win+F12
Open == /\ machine = "running" /\ screen = Closed
        /\ screen' = Main /\ pendingFile' = Unchanged /\ reboot' = FALSE
        /\ UNCHANGED <<drives, card, machine>>

\* diskui_close, by Escape in the menu or by Win+F12
Close == /\ machine = "running" /\ screen # Closed
         /\ screen' = Closed /\ pendingFile' = Unchanged /\ reboot' = FALSE
         /\ UNCHANGED <<drives, card, machine>>

\* get_display_filename
Shown(r) == IF pendingFile[r] = SAME THEN drives[r].name ELSE pendingFile[r]

Pend(r, p) == /\ pendingFile' = [pendingFile EXCEPT ![r] = p]
              /\ reboot' = (reboot \/ IsAta(r))

\* Enter on a drive: eject_pending, or the file browser
EnterRow(r) == /\ machine = "running" /\ screen = Main
               /\ IF Shown(r) # NONE THEN Pend(r, NONE) /\ UNCHANGED screen
                  ELSE screen' = <<"files", r>> /\ UNCHANGED <<pendingFile, reboot>>
               /\ UNCHANGED <<drives, card, machine>>

\* select_file
SelectFile(i) == /\ machine = "running" /\ screen[1] = "files"
                 /\ SwapsKind \/ (drives[screen[2]].cd => i \in Iso)
                 /\ Pend(screen[2], i)
                 /\ screen' = Main
                 /\ UNCHANGED <<drives, card, machine>>

Back == /\ machine = "running" /\ screen[1] = "files"
        /\ screen' = Main
        /\ UNCHANGED <<drives, pendingFile, reboot, card, machine>>

\* one row of apply_and_close
Applied(ds, r) ==
    CASE pendingFile[r] = SAME -> ds
      [] pendingFile[r] = NONE -> Ejected(ds, r)
      [] OTHER -> Inserted(ds, r, pendingFile[r], IsAta(r) /\ pendingFile[r] \in Iso)

\* the loop of apply_and_close, over the rows in the order of drive_table
AllApplied ==
    LET after[i \in 0 .. Len(DriveTable)] ==
            IF i = 0 THEN drives ELSE Applied(after[i - 1], DriveTable[i])
    IN after[Len(DriveTable)]

\* the file is written before the drives change
BadSave == /\ machine = "running" /\ screen = Main
           /\ drives' = AllApplied
           /\ card' = Lines(drives)
           /\ machine' = "saving"
           /\ UNCHANGED <<pendingFile, reboot, screen>>

\* apply_and_close, as far as the open of the configuration file, which empties it
Save == /\ machine = "running" /\ screen = Main
        /\ drives' = AllApplied
        /\ card' = Lines(drives')
        /\ machine' = "saving"
        /\ UNCHANGED <<pendingFile, reboot, screen>>

\* the rest of it
Saved == /\ machine = "saving"
         /\ machine' = IF reboot THEN "rebooting" ELSE "running"
         /\ screen' = Closed /\ pendingFile' = Unchanged /\ reboot' = FALSE
         /\ UNCHANGED <<drives, card>>

\* the power fails, and the file is empty if it is not closed
PowerCut == /\ machine' = "off"
            /\ card' = IF machine = "saving" THEN {} ELSE card
            /\ screen' = Closed /\ pendingFile' = Unchanged /\ reboot' = FALSE
            /\ UNCHANGED drives

\* load_config_from_sd and pc_new
Boot == /\ machine \in {"rebooting", "off"}
        /\ drives' = Mounted(card)
        /\ machine' = "running"
        /\ UNCHANGED <<pendingFile, reboot, screen, card>>

SNext == \/ Open \/ Close \/ Back \/ Save \/ Saved \/ PowerCut \/ Boot
         \/ \E r \in Rows : EnterRow(r)
         \/ \E i \in Images : SelectFile(i)

SSpec == SInit /\ [][SNext]_svars

-----------------------------------------------------------------------------
STypeOK == /\ drives \in [Rows -> Drive]
           /\ pendingFile \in [Rows -> Images \cup {NONE, SAME}]
           /\ reboot \in BOOLEAN
           /\ screen \in {Closed, Main} \cup ({"files"} \X Rows)
           /\ \A l \in card : l.row \in Rows /\ l.name \in Images /\ l.cd \in BOOLEAN
           /\ machine \in {"running", "saving", "rebooting", "off"}

\* A drive with an open file goes by its name and has its geometry, also after an
\* image that could not be opened or was refused (the returns of insertdisk).
GeometryFits ==
    \A r \in Rows : LET d == drives[r]
                    IN d.file # NONE => d.name = d.file
                                        /\ d.geo = IF d.cd THEN NONE ELSE d.file

\* The restart that follows a save brings back the drives that were saved, with the
\* same images, open or not, and the same kind ("Changes made via Disk Manager are
\* saved to config.ini automatically", README.md:242).
SavedComesBack ==
    [][machine = "rebooting" /\ machine' = "running" =>
          \A r \in Rows : /\ drives'[r].name = drives[r].name
                          /\ drives'[r].file = drives[r].file
                          /\ drives[r].name # NONE => drives'[r].cd = drives[r].cd]_svars
=============================================================================
