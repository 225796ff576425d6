--------------------------------- MODULE Fat ----------------------------------
(***************************************************************************)
(* The writing half of the FAT32 file system of fs.cpp: writef(),          *)
(* writecluschain(), allocfat() and writefat(), one sector write at a      *)
(* time, with a crash between any two of them.                             *)
(*                                                                         *)
(* The disk is two copies of the FAT, the data clusters and the directory, *)
(* which here is the one cluster Root: no directory this program makes has *)
(* more (createe gives up at its end, fs.cpp:325-327).  In memory are      *)
(* fats, the FAT, and dir, the directory's entries.  getfat() reads a      *)
(* sector of copy 1 when it is first needed; since writefat() writes       *)
(* through, fats is copy 1 from the start here.  A file is a sequence of   *)
(* blocks of one cluster, each standing for the bytes in it.               *)
(*                                                                         *)
(* The directory's cell keeps the number of the first cluster in two signed *)
(* shorts, and getclus() reads others than were written once bit 15 is set. *)
(* What is read through buf, the fat's 2 MB, is taken to lie in there.      *)
(*                                                                         *)
(* One call of writef() is under way at a time, as on the disks of this    *)
(* system while one terminal writes files; two calls are not excluded from *)
(* each other by the code (README, hazards).                               *)
(***************************************************************************)
EXTENDS Integers, Sequences, FiniteSets

CONSTANTS File,         \* the files of the directory
          NoFile,       \* no file
          Last,         \* last entry of the FAT
          PerSector,    \* FAT entries in a sector
          Sign,         \* the sign of clus_l (2^15)
          MaxBlocks,    \* bound: blocks of a file
          MaxOps,       \* bound: calls of writef()
          MaxCrashes    \* bound: crashes

ASSUME FileAssumption == NoFile \notin File
ASSUME FatAssumption == /\ Last \in Nat /\ Last > 2
                        /\ {PerSector, Sign} \subseteq Nat \ {0}
                        /\ {MaxBlocks, MaxOps} \subseteq Nat \ {0}
                        /\ MaxCrashes \in Nat

Root == 2
Entry == 0..Last
EOC == Last + 1             \* 0xffffff8
FatValue == 0..EOC          \* 0: the cluster is free

\* The blocks of the k-th writef(): told apart by k and by their place.
Block == [op : 1..MaxOps, at : 1..MaxBlocks]
Text(k, n) == [b \in 1..n |-> [op |-> k, at |-> b]]

VARIABLES fat1, fat2,   \* the copies on the disk
          data,         \* data[c]: the block in cluster c
          diskdir,      \* the directory on the disk
          fats,         \* the FAT in memory
          dir,          \* the directory in memory
          pc,           \* where writef() is, "idle" between calls
          file,         \* its parameter f
          size,         \* its parameter size, in clusters
          job,          \* the writecluschain() under way: "dir" or "file"
          clus, at,     \* that call's clus, and which block it has reached
          cc,           \* its cc
          ind, dt, ret, \* the parameters of writefat(), and where it returns to
          ops, crashes, \* counts, for the bounds
          before,       \* history: the files when writef() was called
          lost,         \* history: a crash met a chain whose first cluster is free
          created       \* the disk was formatted by createfs(), not elsewhere

disk == <<fat1, fat2, data, diskdir>>
call == <<file, size, job>>
chain == <<clus, at, cc>>
history == <<ops, crashes, before, lost, created>>
vars == <<disk, fats, dir, pc, call, chain, ind, dt, ret, history>>

\* The clusters of the chain that starts at c: what preparecluschain() walks.
Reach(c) ==
  LET step[k \in 0..Last] ==
        IF k = 0 THEN {c} \ {0}
        ELSE step[k - 1] \cup ({fat1[d] : d \in step[k - 1]} \cap 3..Last)
  IN  step[Last]

\* fat_ent::getclus() of a cell that was given c: clus_l with its sign set makes
\* 0xffffXXXX of it, which is no cluster.
Negative(c) == (c \div Sign) % 2 = 1
GetClus(c) == IF Negative(c) THEN EOC ELSE c

\* The blocks loadfile() finds.
Stored(f) ==
  LET walk[k \in 1..(Last + 1)] ==
        IF k = 1 THEN GetClus(diskdir[f].clus)
        ELSE IF walk[k - 1] \in 3..Last THEN fat1[walk[k - 1]] ELSE 0
      n == Cardinality({k \in 1..Last : walk[k] \in 3..Last})
  IN  [k \in 1..n |-> data[walk[k]]]

\* drive::createfs() makes a file system on a blank disk.  It writes sector i of
\* the FAT from i bytes behind the start of its own one, whose first two entries
\* are not 0: what these eight bytes leave in sectors 1 to 7 is in no chain.  Of
\* the second copy only the sector of Root is written.
Junk == {e \in 3..Last : e % PerSector < (11 - e \div PerSector) \div 4}

Formatted(marks) == [e \in Entry |-> IF e <= Root \/ e \in marks THEN EOC ELSE 0]

Init == /\ created \in BOOLEAN
        /\ fat1 = Formatted(IF created THEN Junk ELSE {})
        /\ fat2 = Formatted({})
        /\ data = [c \in 3..Last |-> [op |-> 1, at |-> 1]]
        /\ diskdir = [f \in File |-> [clus |-> 0, size |-> 0]]
        /\ fats = fat1
        /\ dir = diskdir
        /\ pc = "idle"
        /\ file = NoFile
        /\ size = 0
        /\ job = "dir"
        /\ clus = 0 /\ at = 0 /\ cc = 0
        /\ ind = 0 /\ dt = 0 /\ ret = "idle"
        /\ ops = 0 /\ crashes = 0
        /\ before = [f \in File |-> <<>>]
        /\ lost = FALSE

-------------------------------------------------------------------------------
(* writefat(ind, dt): the entry in memory, then its sector in both copies   *)

Call(i, v, r) == ind' = i /\ dt' = v /\ ret' = r /\ pc' = "fat"

\* The copy c of the FAT after the sector of entry i was written from s.
SectorFrom(c, s, i) == [e \in Entry |-> IF e \div PerSector = i \div PerSector
                                        THEN s[e] ELSE c[e]]

FatFirst == /\ pc = "fat"
            /\ fats' = [fats EXCEPT ![ind] = dt]
            /\ fat1' = SectorFrom(fat1, fats', ind)
            /\ pc' = "fat2"
            /\ UNCHANGED <<fat2, data, diskdir, dir, call, chain, ind, dt, ret, history>>

FatSecond == /\ pc = "fat2"
             /\ fat2' = SectorFrom(fat2, fats, ind)
             /\ pc' = ret
             /\ UNCHANGED <<fat1, data, diskdir, fats, dir, call, chain, ind, dt, ret, history>>

-------------------------------------------------------------------------------
(* allocfat(): the first entry that is 0 becomes the end of a chain         *)

Free(e) == fats[e] = 0
FirstFree(e) == Free(e) /\ \A d \in 0..(e - 1) : ~Free(d)

\* It returns -1, and its callers go on with that: what they overwrite then is
\* not followed.
DiskFull == /\ pc \in {"alloc", "extend"}
            /\ \A e \in Entry : ~Free(e)
            /\ pc' = "wild"
            /\ UNCHANGED <<disk, fats, dir, call, chain, ind, dt, ret, history>>

-------------------------------------------------------------------------------
(* writef(f, buf, size, dir)                                                *)

\* n is the size in clusters; 1 is also an empty file, which keeps a cluster.
\* A command has found f, so the walk over the directory's chain came to its
\* end: with the entry of Root 0 it goes round for ever (fs.cpp:41-48).
WriteF(f, n) ==
  /\ pc = "idle"
  /\ fats[Root] = EOC
  /\ ops < MaxOps
  /\ ops' = ops + 1
  /\ before' = [g \in File |-> Stored(g)]
  /\ file' = f
  /\ size' = n
  /\ dir' = [dir EXCEPT ![f].size = n]
  /\ job' = "dir"
  /\ clus' = Root /\ cc' = Root /\ at' = 1
  /\ pc' = IF dir[f].clus = 0 THEN "alloc" ELSE "free"
  /\ UNCHANGED <<disk, fats, ind, dt, ret, crashes, lost, created>>

\* An empty file gets its first cluster.
AllocFirst == /\ pc = "alloc"
              /\ \E c \in Entry : /\ FirstFree(c)
                                  /\ dir' = [dir EXCEPT ![file].clus = c]
                                  /\ Call(c, EOC, "free")
              /\ UNCHANGED <<disk, fats, call, chain, history>>

-------------------------------------------------------------------------------
(* writecluschain(db, clus, size), for the directory and then for the file  *)

\* Mutants of FreeChain: only the first cluster is freed; cc is not advanced
\* and not freed.
FreeChainFirst == /\ pc = "free"
                  /\ fats[cc] # 0
                  /\ Call(cc, 0, "data")
                  /\ UNCHANGED <<disk, fats, dir, call, chain, history>>

FreeChainStays == /\ pc = "free"
                  /\ fats[cc] # 0
                  /\ Call(cc, fats[cc], IF fats[cc] = EOC THEN "data" ELSE "free")
                  /\ UNCHANGED <<disk, fats, dir, call, chain, history>>

\* fs.cpp:160-166: the old chain is freed from its start.
FreeChain == /\ pc = "free"
             /\ fats[cc] # 0
             /\ Call(cc, 0, IF fats[cc] = EOC THEN "data" ELSE "free")
             /\ cc' = IF fats[cc] = EOC THEN cc ELSE fats[cc]
             /\ UNCHANGED <<disk, fats, dir, call, clus, at, history>>

FreedAlready == /\ pc = "free"
                /\ fats[cc] = 0
                /\ pc' = "data"
                /\ UNCHANGED <<disk, fats, dir, call, chain, ind, dt, ret, history>>

\* Mutant of WriteData: the FAT entry is left at 0.
WriteDataUnmarked == /\ pc = "data"
                     /\ IF job = "dir"
                        THEN diskdir' = dir /\ UNCHANGED data
                        ELSE data' = [data EXCEPT ![clus] = [op |-> ops, at |-> at]]
                             /\ UNCHANGED diskdir
                     /\ IF job = "dir" THEN Call(clus, EOC, "more")
                        ELSE pc' = "more" /\ UNCHANGED <<ind, dt, ret>>
                     /\ UNCHANGED <<fat1, fat2, fats, dir, call, chain, history>>

\* The block is written, and its cluster is the end of the chain for now.  No
\* chain on the disk leads to the cluster while its sectors are written.
WriteData == /\ pc = "data"
             /\ IF job = "dir"
                THEN diskdir' = dir /\ UNCHANGED data
                ELSE data' = [data EXCEPT ![clus] = [op |-> ops, at |-> at]]
                     /\ UNCHANGED diskdir
             /\ Call(clus, EOC, "more")
             /\ UNCHANGED <<fat1, fat2, fats, dir, call, chain, history>>

\* size>bpc: another cluster.  allocfat() marks it, and so does its caller, to
\* no effect.
Extend == /\ pc = "more"
          /\ job = "file" /\ at < size
          /\ pc' = "extend"
          /\ UNCHANGED <<disk, fats, dir, call, chain, ind, dt, ret, history>>

AllocNext == /\ pc = "extend"
             /\ \E c \in Entry : /\ FirstFree(c)
                                 /\ cc' = c
                                 /\ Call(c, EOC, "link")
             /\ UNCHANGED <<disk, fats, dir, call, clus, at, history>>

\* Mutant of LinkNext: the link goes from the new cluster to the old one.
LinkNextBack == /\ pc = "link"
                /\ Call(cc, clus, "data")
                /\ clus' = cc
                /\ at' = at + 1
                /\ UNCHANGED <<disk, fats, dir, call, cc, history>>

LinkNext == /\ pc = "link"
            /\ Call(clus, cc, "data")
            /\ clus' = cc
            /\ at' = at + 1
            /\ UNCHANGED <<disk, fats, dir, call, cc, history>>

\* The directory is done: the file's own chain follows.
DirDone == /\ pc = "more"
           /\ job = "dir"
           /\ ~Negative(dir[file].clus)
           /\ job' = "file"
           /\ clus' = dir[file].clus /\ cc' = dir[file].clus /\ at' = 1
           /\ pc' = "free"
           /\ UNCHANGED <<disk, fats, dir, file, size, ind, dt, ret, history>>

\* With a cluster that getclus() misreads, the second call of writecluschain()
\* works on memory and sectors that are not the file's: not followed either.
Misread == /\ pc = "more"
           /\ job = "dir"
           /\ Negative(dir[file].clus)
           /\ pc' = "wild"
           /\ UNCHANGED <<disk, fats, dir, call, chain, ind, dt, ret, history>>

Reset == /\ pc' = "idle" /\ file' = NoFile /\ size' = 0 /\ job' = "dir"
         /\ clus' = 0 /\ at' = 0 /\ cc' = 0
         /\ ind' = 0 /\ dt' = 0 /\ ret' = "idle"

FileDone == /\ pc = "more"
            /\ job = "file" /\ at >= size
            /\ Reset
            /\ UNCHANGED <<disk, fats, dir, history>>

-------------------------------------------------------------------------------
(* A crash, and the boot that follows: fat::init and getfat() read copy 1   *)

ChainLost(f) == diskdir[f].clus # 0 /\ fat1[diskdir[f].clus] = 0

Crash == /\ pc \notin {"idle", "wild"}
         /\ crashes < MaxCrashes
         /\ crashes' = crashes + 1
         /\ fats' = fat1
         /\ dir' = diskdir
         /\ lost' = (lost \/ fat1[Root] = 0 \/ \E f \in File : ChainLost(f))
         /\ Reset
         /\ UNCHANGED <<disk, ops, before, created>>

Step == \/ FatFirst \/ FatSecond \/ DiskFull \/ AllocFirst \/ FreeChain
        \/ FreedAlready \/ WriteData \/ Extend \/ AllocNext \/ LinkNext
        \/ DirDone \/ Misread \/ FileDone

Next == \/ \E f \in File, n \in 1..MaxBlocks : WriteF(f, n)
        \/ Step
        \/ Crash

Spec == Init /\ [][Next]_vars

\* The drives answer, so writef() goes on.
FairSpec == Spec /\ WF_vars(Step)

-------------------------------------------------------------------------------
(* Properties *)

PCs == {"idle", "fat", "fat2", "alloc", "free", "data", "more", "extend",
        "link", "wild"}

TypeOK == /\ fat1 \in [Entry -> FatValue] /\ fat2 \in [Entry -> FatValue]
          /\ fats \in [Entry -> FatValue]
          /\ data \in [3..Last -> Block]
          /\ diskdir \in [File -> [clus : Entry, size : 0..MaxBlocks]]
          /\ dir \in [File -> [clus : Entry, size : 0..MaxBlocks]]
          /\ pc \in PCs /\ ret \in PCs
          /\ file \in File \cup {NoFile} /\ size \in 0..MaxBlocks
          /\ job \in {"dir", "file"}
          /\ clus \in Entry /\ cc \in Entry /\ at \in 0..MaxBlocks
          /\ ind \in Entry /\ dt \in FatValue
          /\ ops \in 0..MaxOps /\ crashes \in 0..MaxCrashes
          /\ before \in [File -> Seq(Block)]
          /\ lost \in BOOLEAN /\ created \in BOOLEAN

\* No cluster is in the chains of two files, at any moment of any writef() and
\* after any crash that has lost no chain: what is written to one file never
\* lands in another.
ChainsApart ==
  /\ TypeOK
  /\ ~lost => \A f, g \in File :
       f # g => Reach(diskdir[f].clus) \cap Reach(diskdir[g].clus) = {}

\* Between calls, if there was no crash, the FAT in memory and both copies say
\* the same, and the clusters in use are those of the files: rewriting a file
\* with fewer or more blocks neither leaks a cluster nor frees one too many.  On
\* a disk from createfs() its odd entries stay in use, in one copy or in both.
NoLeak == pc = "idle" /\ crashes = 0 =>
  LET odd == IF created THEN Junk ELSE {}
  IN  /\ fats = fat1 /\ dir = diskdir
      /\ \A e \in Entry \ odd : fat2[e] = fat1[e]
      /\ {c \in 3..Last : fat1[c] # 0} =
             odd \cup UNION {Reach(diskdir[f].clus) : f \in File}

Store == INSTANCE FileStore WITH
           content <- IF pc = "idle" THEN [f \in File |-> Stored(f)] ELSE before,
           writing <- file,
           new <- IF file = NoFile THEN <<>> ELSE Text(ops, size)

\* On the disk, writef() replaces one file's blocks and touches no other
\* file's, and a crash leaves of it what FileStore says (fs.cpp:158-200, 348).
\* A file whose first cluster has bit 15 set holds nothing that loadfile() finds,
\* and its writef() never ends (kernel.h:153-155).
ImplementsStore == Store!Spec

\* writef() ends: the loop that frees the old chain finds its end, also in a
\* FAT that crashes have left behind.
WritesEnd == pc # "idle" ~> pc \in {"idle", "wild"}
===============================================================================
