--------------------------------- MODULE Dirs ---------------------------------
(***************************************************************************)
(* The directories of fs.cpp: findfile(), setmustdir(), createe() and      *)
(* generatee(), the command ls, and install, which copies the files of the *)
(* drive that was booted to a new one (createfs, copyfatdir).              *)
(*                                                                         *)
(* A directory is its cells, the 32-byte entries of its clusters in the    *)
(* order of the chain.  A file is a long name, cut into pieces of 13       *)
(* characters that stand in descending order, and behind them the short    *)
(* entry, the only one that says where the file is; all short names this   *)
(* program writes are the same.  The four directories are the root of the  *)
(* boot drive, a directory Sub in it, and those of the new drive.          *)
(*                                                                         *)
(* What the code does not handle is named in slip, and the model ends      *)
(* there; README says what becomes of each.                                *)
(***************************************************************************)
EXTENDS Integers, Sequences, FiniteSets

CONSTANTS Name,         \* file names
          Chars,        \* Chars[n]: the characters of n
          NoName,       \* the cells of other systems, ".", ".."
          Sub,          \* the name of the directory in the root
          Admin,        \* "administrator", whom install makes
          Epc,          \* cells of a cluster
          Disks,        \* what the boot drive's directories may hold
          MaxCommands   \* bound: commands

Dir == {"root", "sub", "new", "newsub"}
None == -1

ASSUME DirsAssumption ==
  /\ NoName \notin Name /\ {Sub, Admin} \subseteq Name
  /\ Chars \in [Name -> Nat \ {0}]
  /\ Epc \in Nat \ {0} /\ MaxCommands \in Nat

\* fs.cpp:230, 311: the cells of a file, and its pieces among them.
Cells(n) == (Chars[n] + 25) \div 13
Pieces(n) == Cells(n) - 1

\* The last piece has room for the 0 behind the name.
Ended(n) == Chars[n] % 13 # 0

\* struct fat_ent and fat_lent.  ord counts the pieces from this one on.
Kind == {"end", "gone", "gonelong", "long", "short"}
Cell == [kind : Kind, name : Name \cup {NoName}, ord : Nat]
End == [kind |-> "end", name |-> NoName, ord |-> 0]
Gone == [kind |-> "gone", name |-> NoName, ord |-> 0]
GoneLong == [kind |-> "gonelong", name |-> NoName, ord |-> 0]
Dot == [kind |-> "short", name |-> NoName, ord |-> 0]
FileCells(n) == [k \in 1..Cells(n) |->
               IF k = Cells(n) THEN [kind |-> "short", name |-> n, ord |-> 0]
               ELSE [kind |-> "long", name |-> n, ord |-> Cells(n) - k]]

\* The cells of a directory of so many clusters that begins with s.
Filled(s, clusters) ==
  [k \in 0..(clusters * Epc - 1) |-> IF k < Len(s) THEN s[k + 1] ELSE End]

VARIABLES ents,     \* ents[d]: the cells of directory d
          low,      \* a cluster below the second one of the root is free
          slip,     \* what went beyond this model, "" for nothing
          stage, op,\* where the command is, and which it is
          path,     \* what setmustdir has not looked up yet
          folder,   \* dir
          base, i,  \* de and i: the cluster's first cell, the cell in it
          en,       \* the pieces findfile has ever written into en
          c, b,     \* createe's run of deleted cells, and where it begins
          found,    \* the cell that was found or made
          listed,   \* the names ls has printed
          copies,   \* the loops of createfs and copyfatdir
          left,     \* count, for the bound
          asked,    \* history: the path of the command
          files     \* history: the names that belong into each directory

cursor == <<folder, base, i, en, c, b>>
answer == <<found, listed>>
count == <<left, asked>>
dirvars == <<ents, low, slip, stage, op, path, cursor, answer, copies, count, files>>

cell == ents[folder][base + i]
Clusters(d) == Cardinality(DOMAIN ents[d]) \div Epc

\* The file n stands at cell k of d, whole.
Stands(d, k, n) == /\ k + Cells(n) - 1 \in DOMAIN ents[d]
                   /\ \A j \in 1..Cells(n) : ents[d][k + j - 1] = FileCells(n)[j]
Whole(d) == {n \in Name : \E k \in DOMAIN ents[d] : Stands(d, k, n)}

DirsInit ==
  /\ \E disk \in Disks :
       /\ ents = [d \in Dir |-> CASE d = "root" -> Filled(disk.root, disk.clusters)
                                  [] d = "sub" -> Filled(disk.sub, 1)
                                  [] OTHER -> Filled(<<>>, 1)]
       /\ low \in IF disk.clusters > 1 THEN BOOLEAN ELSE {FALSE}
  /\ slip = "" /\ stage = "idle" /\ op = "none" /\ path = <<>>
  /\ folder = "root" /\ base = 0 /\ i = 0 /\ en = 0 /\ c = 0 /\ b = 0
  /\ found = None /\ listed = {}
  /\ copies = <<>>
  /\ left = MaxCommands /\ asked = <<>>
  /\ files = [d \in Dir |-> Whole(d)]

\* The model ends here.
Slip(s) == /\ slip' = s
           /\ UNCHANGED <<ents, low, stage, op, path, cursor, answer, copies, count, files>>

-------------------------------------------------------------------------------
(* Commands, and setmustdir()                                               *)

\* The next part of the path is looked up in d; behind the last one comes what
\* the command is for.
Part(o, p, d) ==
  /\ stage' = CASE p = <<>> -> "list"
             [] o # "find" /\ o # "ls" /\ Len(p) = 1 -> "place"
             [] OTHER -> "scan"
  /\ path' = p /\ folder' = d
  /\ base' = 0 /\ i' = 0 /\ en' = 0 /\ c' = 0 /\ b' = 0

\* login, chgc, open() and starting an application find a file, touch creates
\* one, ls lists the root or a directory.
Command(o, p) ==
  /\ stage = "idle" /\ slip = ""
  /\ left > 0 /\ left' = left - 1
  /\ o \in {"find", "create"} => p # <<>>
  /\ o = "ls" => Len(p) < 2
  /\ op' = o /\ asked' = p
  /\ Part(o, p, "root")
  /\ UNCHANGED <<ents, low, slip, answer, copies, files>>

Finish(k) == stage' = "done" /\ found' = k

Return == /\ stage = "done" /\ slip = ""
          /\ stage' = "idle" /\ op' = "none" /\ path' = <<>> /\ asked' = <<>>
          /\ folder' = "root" /\ base' = 0 /\ i' = 0 /\ en' = 0 /\ c' = 0 /\ b' = 0
          /\ found' = None /\ listed' = {}
          /\ UNCHANGED <<ents, low, slip, copies, left, files>>

-------------------------------------------------------------------------------
(* findfile()                                                               *)

\* A directory on the way that is missing: findfile goes on with a null pointer
\* for the name and finds nothing, createe makes an entry of that name, ls
\* lists where the null pointer leads.
NotFound ==
  IF op = "find" THEN /\ Finish(None)
                      /\ UNCHANGED <<ents, low, slip, op, path, cursor, listed, copies, count, files>>
  ELSE Slip("nodir")

\* Behind k more cells: the next one, or the next cluster.  dir stays that of
\* the first, so behind the second cluster comes the second again.
ScanOn(k, pieces) ==
  IF i + k + 1 < Epc
  THEN /\ i' = i + k + 1 /\ en' = pieces
       /\ UNCHANGED <<ents, low, slip, stage, op, path, folder, base, c, b, answer, copies, count, files>>
  ELSE IF Clusters(folder) = 1 THEN NotFound
  ELSE IF base > 0 THEN Slip("round")
  ELSE /\ base' = Epc /\ i' = 0 /\ en' = pieces
       /\ UNCHANGED <<ents, low, slip, stage, op, path, folder, c, b, answer, copies, count, files>>

Scanning == stage = "scan" /\ slip = ""

ScanEnd == Scanning /\ cell.kind = "end" /\ NotFound

ScanOther == Scanning /\ cell.kind \in {"short", "gone"} /\ ScanOn(0, en)

\* A deleted piece counts as five pieces of a name.
ScanGone == Scanning /\ cell.kind = "gonelong" /\ Slip("gone")

\* makename writes the pieces over those of the names before.
Written == IF cell.ord > en THEN cell.ord ELSE en

\* A name that fills its last piece is equal only to what is followed by a 0
\* in en: not by a piece of another name, and by nothing the code has put there.
CanEqual == /\ cell.name = Head(path)
            /\ Ended(cell.name) \/ Written = cell.ord

ScanMiss == /\ Scanning
            /\ cell.kind = "long"
            /\ cell.name # Head(path)
            /\ IF i + cell.ord >= Epc THEN Slip("cross") ELSE ScanOn(cell.ord, Written)

ScanTail == /\ Scanning
            /\ cell.kind = "long"
            /\ cell.name = Head(path) /\ ~Ended(cell.name)
            /\ Slip("tail")

Behind == base + i + cell.ord

\* Found: the entry behind the pieces; a part of the path must be a directory.
ScanHit ==
  /\ Scanning
  /\ cell.kind = "long" /\ CanEqual
  /\ IF Len(path) = 1 /\ op = "find"
     THEN /\ Finish(Behind)
          /\ UNCHANGED <<ents, low, slip, op, path, cursor, listed, copies, count, files>>
     ELSE IF Head(path) # Sub \/ folder # "root" THEN Slip("notdir")
     ELSE /\ Part(op, Tail(path), "sub")
          /\ UNCHANGED <<ents, low, slip, op, answer, copies, count, files>>

-------------------------------------------------------------------------------
(* createe() and generatee()                                                *)

Placing == stage = "place" /\ slip = ""

\* No room: the caller of install follows a null pointer, touch does not mind.
NoRoom == IF op = "install" THEN Slip("full")
          ELSE /\ Finish(None)
               /\ UNCHANGED <<ents, low, slip, op, path, cursor, listed, copies, count, files>>

\* fs.cpp:335-346; here dir does move on.
PlaceOn(run, first) ==
  IF i + 1 < Epc
  THEN /\ i' = i + 1 /\ c' = run /\ b' = first
       /\ UNCHANGED <<ents, low, slip, stage, op, path, folder, base, en, answer, copies, count, files>>
  ELSE IF base + Epc >= Clusters(folder) * Epc THEN NoRoom
  ELSE /\ base' = base + Epc /\ i' = 0 /\ c' = run /\ b' = first
       /\ UNCHANGED <<ents, low, slip, stage, op, path, folder, en, answer, copies, count, files>>

\* The pieces and the short entry are written from cell k on, and the rest of
\* the chain: its second cluster goes to the first free one, and is read there.
\* A second entry with the name of the directory is not told apart from it.
Generate(k) ==
  IF base = 0 /\ Clusters(folder) > 1 /\ low THEN Slip("moved")
  ELSE IF Head(path) = Sub /\ folder = "root" THEN Slip("twice")
  ELSE /\ ents' = [ents EXCEPT ![folder] = [j \in DOMAIN @ |->
                     IF j \in k..(k + Cells(Head(path)) - 1)
                     THEN FileCells(Head(path))[j - k + 1] ELSE @[j]]]
       /\ files' = [files EXCEPT ![folder] = @ \cup {Head(path)}]
       /\ found' = k
       /\ stage' = IF copies = <<>> THEN "done" ELSE "made"
       /\ UNCHANGED <<low, slip, op, path, cursor, listed, copies, count>>

\* A run of deleted cells that is long enough; one that began in the cluster
\* before is looked for at the same place of this one.
PlaceGone ==
  /\ Placing
  /\ cell.kind \in {"gone", "gonelong"}
  /\ LET first == IF c = 0 THEN base + i ELSE b
     IN  IF c + 1 < Cells(Head(path)) THEN PlaceOn(c + 1, first)
         ELSE IF first < base THEN Slip("cross")
         ELSE Generate(first)

\* Mutant of PlaceUsed: the run is not broken off.
PlaceUsedKeeps == Placing /\ cell.kind \in {"long", "short"} /\ PlaceOn(c, b)

PlaceUsed == Placing /\ cell.kind \in {"long", "short"} /\ PlaceOn(0, b)

\* The end of the entries: the last cell is refused, that all of them fit is
\* not asked.
PlaceEnd == /\ Placing
            /\ cell.kind = "end"
            /\ IF Epc <= i + 1 THEN NoRoom
               ELSE IF i + Cells(Head(path)) > Epc THEN Slip("spill")
               ELSE Generate(base + i)

-------------------------------------------------------------------------------
(* ls                                                                       *)

Listing == stage = "list" /\ slip = ""

\* The loop has no other end than the entries'.
ListPast == Listing /\ i >= Epc /\ Slip("past")

ListEnd == /\ Listing /\ i < Epc
           /\ cell.kind = "end"
           /\ Finish(None)
           /\ UNCHANGED <<ents, low, slip, op, path, cursor, listed, copies, count, files>>

ListLong == /\ Listing /\ i < Epc
            /\ cell.kind = "long"
            /\ listed' = listed \cup {cell.name}
            /\ i' = i + cell.ord + 1
            /\ UNCHANGED <<ents, low, slip, stage, op, path, folder, base, en, c, b, found, copies, count, files>>

ListOther == /\ Listing /\ i < Epc
             /\ cell.kind \in {"short", "gone"}
             /\ i' = i + 1
             /\ UNCHANGED <<ents, low, slip, stage, op, path, folder, base, en, c, b, answer, copies, count, files>>

ListGone == Listing /\ i < Epc /\ cell.kind = "gonelong" /\ Slip("gone")

-------------------------------------------------------------------------------
(* install: createfs() and copyfatdir()                                     *)

\* The new drive is made anew; createfs then goes through the boot drive's root.
Install == /\ stage = "idle" /\ slip = ""
           /\ left > 0 /\ left' = left - 1
           /\ ents' = [ents EXCEPT !["new"] = Filled(<<>>, 1), !["newsub"] = Filled(<<>>, 1)]
           /\ files' = [files EXCEPT !["new"] = {}, !["newsub"] = {}]
           /\ op' = "install" /\ stage' = "copy"
           /\ copies' = <<[from |-> "root", to |-> "new", k |-> 0]>>
           /\ UNCHANGED <<low, slip, path, cursor, answer, asked>>

loop == copies[Len(copies)]
source == ents[loop.from][loop.k]
Copying == stage = "copy" /\ slip = "" /\ copies # <<>>
Past == loop.k >= Epc

CopyPast == Copying /\ Past /\ Slip("past")

CopyGone == Copying /\ ~Past /\ source.kind = "gonelong" /\ Slip("gone")

CopySkip == /\ Copying /\ ~Past
            /\ source.kind \in {"short", "gone"}
            /\ copies' = [copies EXCEPT ![Len(copies)].k = @ + 1]
            /\ UNCHANGED <<ents, low, slip, stage, op, path, cursor, answer, count, files>>

\* Only files with a long name are copied; the name is put together in a buffer
\* nothing has cleared.
CopyName == /\ Copying /\ ~Past
            /\ source.kind = "long"
            /\ copies' = [copies EXCEPT ![Len(copies)].k = @ + source.ord + 1]
            /\ Part(op, <<source.name>>, loop.to)
            /\ UNCHANGED <<ents, low, slip, op, answer, count, files>>

CopyTail == /\ Copying /\ ~Past
            /\ source.kind = "long" /\ ~Ended(source.name)
            /\ Slip("tail")

\* createdir()
MadeDir == Filled(<<Dot, Dot>>, 1)

\* A file is written (module Fat); a directory is made, and copyfatdir goes on
\* with what is in it.
CopyMade ==
  /\ stage = "made" /\ slip = ""
  /\ stage' = "copy"
  /\ IF Head(path) = Sub /\ folder = "new"
     THEN /\ ents' = [ents EXCEPT !["newsub"] = MadeDir]
          /\ copies' = Append(copies, [from |-> "sub", to |-> "newsub", k |-> 0])
     ELSE UNCHANGED <<ents, copies>>
  /\ UNCHANGED <<low, slip, op, path, cursor, answer, count, files>>

\* The end of a directory, and of the root: then the profile of the
\* administrator is created.
CopyEnd == /\ Copying /\ ~Past
           /\ source.kind = "end"
           /\ copies' = SubSeq(copies, 1, Len(copies) - 1)
           /\ IF Len(copies) > 1 THEN UNCHANGED <<stage, path, cursor>>
              ELSE Part(op, <<Admin>>, "new")
           /\ UNCHANGED <<ents, low, slip, op, answer, count, files>>

DirsStep == \/ ScanEnd \/ ScanOther \/ ScanGone \/ ScanMiss \/ ScanTail \/ ScanHit
            \/ PlaceGone \/ PlaceUsed \/ PlaceEnd
            \/ ListPast \/ ListEnd \/ ListLong \/ ListOther \/ ListGone
            \/ CopyPast \/ CopyGone \/ CopySkip \/ CopyName \/ CopyTail
            \/ CopyMade \/ CopyEnd

Paths == {<<>>} \cup {<<n>> : n \in Name} \cup {<<Sub, n>> : n \in Name}

DirsNext == \/ \E o \in {"find", "create", "ls"}, p \in Paths : Command(o, p)
            \/ Install
            \/ Return
            \/ DirsStep

-------------------------------------------------------------------------------
(* Properties *)

DirsTypeOK ==
  /\ \A d \in Dir : ents[d] \in [DOMAIN ents[d] -> Cell]
  /\ low \in BOOLEAN
  /\ slip \in {"", "nodir", "notdir", "round", "gone", "tail", "cross", "moved",
               "twice", "spill", "full", "past"}
  /\ stage \in {"idle", "scan", "place", "list", "copy", "made", "done"}
  /\ op \in {"none", "find", "create", "ls", "install"}
  /\ folder \in Dir /\ base \in {0, Epc} /\ i \in Nat
  /\ path \in Paths /\ asked \in Paths
  /\ found \in {None} \cup Nat /\ listed \subseteq Name

\* The directory a path leads to.
Home(p) == IF Len(p) < 2 THEN "root" ELSE "sub"
Leads(p) == Len(p) = 2 => Sub \in files["root"]
Short(d, k) == ents[d][k].kind = "short" /\ ents[d][k].name = asked[Len(asked)]

\* A directory holds the files that were put into it, each of them whole: to
\* create one overwrites no other.  findfile returns the short entry of the
\* file the path names, or nothing if there is none; ls prints every name; and
\* install leaves every file of the boot drive that has a long name on the new
\* one, and the administrator (fs.cpp:50-134, 300-347, drive.cpp:126-144).
\* Except where slip names one of the cases that the code does not handle.
Answers ==
  slip = "" =>
    /\ DirsTypeOK
    /\ \A d \in Dir : files[d] = Whole(d)
    /\ stage = "done" /\ op = "find" =>
         IF Leads(asked) /\ asked[Len(asked)] \in files[Home(asked)]
         THEN found # None /\ Short(Home(asked), found)
         ELSE found = None
    /\ stage = "done" /\ op = "create" /\ found # None =>
         Stands(Home(asked), found, asked[Len(asked)])
    /\ stage = "done" /\ op = "ls" =>
         listed = files[IF asked = <<>> THEN "root" ELSE "sub"]
    /\ stage = "done" /\ op = "install" =>
         /\ files["root"] \cup {Admin} \subseteq files["new"]
         /\ Sub \in files["root"] => files["sub"] \subseteq files["newsub"]
================================================================================
