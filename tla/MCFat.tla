-------------------------------- MODULE MCFat --------------------------------
(* Instance of Fat and Dirs for TLC.  For Fat, two files and four clusters,  *)
(* in two sectors of the FAT; a third write can shrink, grow or interleave   *)
(* what the first two have built, or fill the disk.  For Dirs, clusters of   *)
(* eight cells, names of one and of two pieces and one that fills its piece, *)
(* and boot drives as this system and as others leave them: empty, with a    *)
(* directory, without room, with deleted files, with a second cluster that   *)
(* has room or not.                                                          *)
(*                                                                           *)
(* A behaviour is of one kind: writes, or commands on one of these drives.   *)
EXTENDS Fat, Dirs

CONSTANTS f1, f2

MCFile == {f1, f2}

MCName == {"cat", "sub", "administrator", "background"}
MCChars == [n \in MCName |-> CASE n = "administrator" -> 13
                               [] n = "background" -> 20
                               [] OTHER -> 3]

BootDrive(cells, clusters) ==
  [root |-> cells, sub |-> <<Dot, Dot>> \o FileCells("cat"), clusters |-> clusters]

MCDisks ==
  { BootDrive(<<>>, 1),
    BootDrive(FileCells("sub"), 1),
    BootDrive(FileCells("sub") \o FileCells("background"), 1),
    BootDrive(<<Gone>> \o FileCells("cat") \o <<Gone, Gone>>, 1),
    BootDrive(<<Gone, GoneLong, Gone>> \o FileCells("cat"), 1),
    BootDrive(<<Dot, Gone>> \o FileCells("cat") \o FileCells("sub") \o <<Gone, Gone>>, 2),
    BootDrive(<<Dot>> \o FileCells("cat") \o FileCells("sub") \o <<Dot, Dot, Gone>>
                \o <<Gone, Dot, Dot, Dot, Dot>> \o FileCells("background"), 2) }

Untouched == left = MaxCommands /\ ents["root"] = Filled(<<>>, 1)

MCInit == Init /\ DirsInit

MCNext == \/ Untouched /\ Next /\ UNCHANGED dirvars
          \/ ops = 0 /\ DirsNext /\ UNCHANGED vars

MCSpec == MCInit /\ [][MCNext]_<<vars, dirvars>>
                 /\ WF_<<vars, dirvars>>(Untouched /\ Step /\ UNCHANGED dirvars)
===============================================================================
