------------------------------ MODULE FileStore ------------------------------
(***************************************************************************)
(* What fs.cpp promises to the commands that write files: writef() puts    *)
(* one file's new blocks in place of its old ones and leaves every other   *)
(* file alone.  When the machine stops inside writef(), the file keeps its *)
(* old blocks, or has a beginning of the new ones with at most one block   *)
(* behind it that its last cluster held before, for a cluster is linked    *)
(* before it is written.  When the crash fell where the file's chain, or   *)
(* the directory's, was on the disk as free clusters, `lost` says that     *)
(* nothing is promised any more.                                           *)
(***************************************************************************)
EXTENDS Integers, Sequences, SequencesExt

CONSTANTS File,     \* the files of the directory
          NoFile,   \* no file
          Block     \* what a cluster can hold

VARIABLES content,  \* content[f]: the blocks of f
          writing,  \* the file of the writef() under way, or NoFile
          new,      \* the blocks it is to have
          crashes,  \* how often the machine has stopped
          lost      \* a crash has lost a chain

vars == <<content, writing, new, crashes, lost>>

Init == /\ content = [f \in File |-> <<>>]
        /\ writing = NoFile
        /\ new = <<>>
        /\ crashes = 0
        /\ lost = FALSE

Begin(f) == /\ writing = NoFile
            /\ writing' = f
            /\ new' \in Seq(Block)
            /\ UNCHANGED <<content, crashes, lost>>

End == /\ writing # NoFile
       /\ content' = [content EXCEPT ![writing] = new]
       /\ writing' = NoFile
       /\ new' = <<>>
       /\ UNCHANGED <<crashes, lost>>

\* A beginning of s, not all of it, and one block of old data; only a file
\* without blocks can be left with nothing but the latter.
Torn(s) == {Append(p, b) : p \in Prefixes(s) \ {s}, b \in Block}

Crash == /\ writing # NoFile
         /\ LET old == content[writing]
                kept == {old} \cup (Prefixes(new) \ {<<>>}) \cup Torn(new)
            IN  \E s \in kept :
                  /\ old # <<>> /\ s # old => Head(s) = Head(new)
                  /\ content' = [content EXCEPT ![writing] = s]
         /\ writing' = NoFile
         /\ new' = <<>>
         /\ crashes' = crashes + 1
         /\ UNCHANGED lost

Lose == /\ writing # NoFile
        /\ crashes' = crashes + 1
        /\ lost' = TRUE

Next == \/ \E f \in File : Begin(f)
        \/ End \/ Crash \/ Lose
        \/ lost /\ lost'

Spec == Init /\ [][Next]_vars
==============================================================================
