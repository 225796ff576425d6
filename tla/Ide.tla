---------------------------------- MODULE Ide ---------------------------------
(***************************************************************************)
(* IDE drives: idedrv::read, idedrv::write and idecdrv::read of ide.cpp on *)
(* the registers of one channel with a disk, drive 0, and a CD, drive 1.   *)
(*                                                                         *)
(* Nothing but IF keeps tasks apart.  The disk's routines leave it as the  *)
(* caller has it, the CD's turn it on; a call with IF=1 can lose the       *)
(* processor between any two accesses to the registers, to one with IF=1   *)
(* or IF=0.  The drives are external: a command ends the one before, data  *)
(* are taken and given by the word, a disk's command may fail.             *)
(***************************************************************************)
EXTENDS Integers, Sequences

CONSTANTS Users,    \* the tasks that call
          Low,      \* sectors that the registers p3 to p5 tell apart (2^24)
          High,     \* values of the low four bits of p6 (16)
          Blocks,   \* blocks of the CD
          Per,      \* sectors of 512 bytes in one of them
          Span,     \* sectors after which a byte address is 0 again (2^32/512)
          W,        \* words of a sector
          Junk,     \* what the data register reads when there is none
          MaxCnt,   \* bound: sectors of a call
          MaxCalls, \* bound
          MaxErrors \* bound

ASSUME IdeAssumption == /\ {Low, High, Blocks, Per, Span, W} \subseteq Nat \ {0}
                        /\ {MaxCnt, MaxCalls, MaxErrors} \subseteq Nat

Disk == 0
Cd == 1
Sector == 0..(Low * High - 1)
CdSector == 0..(Blocks * Per - 1)

\* masked: the caller has IF=0.  new: what is written, as the word's value.
Request == [op : {"read"}, drive : {Disk}, at : Sector, cnt : 1..MaxCnt, masked : BOOLEAN]
      \cup [op : {"write"}, drive : {Disk}, at : Sector, cnt : 1..MaxCnt, masked : BOOLEAN]
      \cup [op : {"read"}, drive : {Cd}, at : CdSector, cnt : 1..MaxCnt, masked : {FALSE}]

VARIABLES request,  \* request[t]: the call of t
          step,     \* step[t]: what comes next in it, "out" for none
          sector,   \* sector[t]: i of its loop over the sectors
          words,    \* words[t]: the words of the transfer under way
          buf,      \* buf[t]: the sectors it has read
          regs,     \* p6: drive and high bits; p3, p4, p5: the low ones
          dev,      \* the command under way: in with the words to come, out with
                    \* those that came, packet
          platter,  \* the disk's sectors
          \* history
          want,     \* what the disk should hold
          bad,      \* bad[t]: t's call was crossed, failed, or left its range
          spoiled,  \* such a call was a write
          calls, errors

caller == <<request, step, sector, words, buf>>
ghosts == <<want, bad, spoiled, calls, errors>>
idevars == <<caller, regs, dev, platter, ghosts>>

IdleDev == [op |-> "idle", at |-> 0, data |-> <<>>]
Full(v) == [k \in 1..W |-> v]
\* The words of the CD's sector s tell where it is.
CdWord(s) == <<"cd", s>>
CdWords(s) == Full(CdWord(s))

IdeInit ==
  /\ request = [t \in Users |-> [op |-> "none"]]
  /\ step = [t \in Users |-> "out"]
  /\ sector = [t \in Users |-> 0]
  /\ words = [t \in Users |-> <<>>]
  /\ buf = [t \in Users |-> <<>>]
  /\ regs = [drive |-> Disk, high |-> 0, low |-> 0]
  /\ dev = IdleDev
  /\ platter = [s \in Sector |-> Full(<<"disk", s>>)]
  /\ want = platter
  /\ bad = [t \in Users |-> FALSE]
  /\ spoiled = FALSE
  /\ calls = 0 /\ errors = 0

InCall(t) == step[t] # "out"

\* t has the processor: no other task is in a call with IF=0.
MayRun(t) == \A o \in Users \ {t} : InCall(o) => ~request[o].masked

At(t, s) == step[t] = s /\ MayRun(t)
Goto(t, s) == step' = [step EXCEPT ![t] = s]

\* The calls of hit no longer count.
Spoils(hit) == /\ bad' = [o \in Users |-> bad[o] \/ o \in hit]
               /\ spoiled' = (spoiled \/ \E o \in hit : request[o].op = "write")

\* Each step at the registers crosses the calls it comes in between.
Interrupted(t) == {o \in Users \ {t} : InCall(o) /\ (step[o] # "end" \/ request[o].op = "read")}
Crosses(t) == Spoils(Interrupted(t))

Written(r) == Full(<<"new", r.at>>)
\* A call whose sectors have the same high bits, and the same place in memory's
\* 32 bits.
InRange(r) == LET last == r.at + r.cnt - 1
              IN  IF r.drive = Cd THEN last < Span /\ last \in CdSector
                  ELSE last \in Sector /\ r.at \div Low = last \div Low

Begin(t, r) ==
  /\ At(t, "out") /\ calls < MaxCalls
  /\ r.at + r.cnt - 1 \in IF r.drive = Cd THEN CdSector ELSE Sector
  /\ calls' = calls + 1
  /\ request' = [request EXCEPT ![t] = r]
  /\ sector' = [sector EXCEPT ![t] = 0]
  /\ words' = [words EXCEPT ![t] = <<>>]
  /\ buf' = [buf EXCEPT ![t] = <<>>]
  /\ want' = [s \in Sector |-> IF r.op = "write" /\ s \in r.at..(r.at + r.cnt - 1)
                               THEN Written(r) ELSE want[s]]
  /\ bad' = [o \in Users |-> IF o = t THEN ~InRange(r) ELSE bad[o] \/ o \in Interrupted(t)]
  /\ spoiled' = (spoiled \/ (r.op = "write" /\ ~InRange(r))
                         \/ \E o \in Interrupted(t) : request[o].op = "write")
  /\ Goto(t, "head")
  /\ UNCHANGED <<regs, dev, platter, errors>>

-------------------------------------------------------------------------------
(* sendcmd()                                                                *)

Rest(t) == UNCHANGED <<request, sector, words, buf, platter, want, calls>>

\* p6: the drive, and the high bits of the call's first sector.
PutHead(t) == /\ At(t, "head")
              /\ regs' = [regs EXCEPT !.drive = request[t].drive,
                                      !.high = IF request[t].drive = Cd THEN 0
                                               ELSE request[t].at \div Low]
              /\ Goto(t, "low")
              /\ Crosses(t)
              /\ Rest(t) /\ UNCHANGED <<dev, errors>>

\* Mutant of LowOf: every sector is the first.
LowOfFirst(r, k) == r.at % Low

\* The low bits of sector k of the call.
LowOf(r, k) == (r.at + k) % Low

PutLow(t) == /\ At(t, "low")
             /\ regs' = [regs EXCEPT !.low = IF request[t].drive = Cd THEN 0
                                             ELSE LowOf(request[t], sector[t])]
             /\ Goto(t, "command")
             /\ Crosses(t)
             /\ Rest(t) /\ UNCHANGED <<dev, errors>>

Addressed == regs.high * Low + regs.low

\* What the selected drive does with p7.  The disk knows no packets, the CD
\* nothing else.
Accepted(r) == r.drive = regs.drive
Executes(r) == dev' = IF r.drive = Cd THEN [op |-> "packet", at |-> 0, data |-> <<>>]
                      ELSE IF r.op = "read"
                           THEN [op |-> "in", at |-> Addressed, data |-> platter[Addressed]]
                           ELSE [op |-> "out", at |-> Addressed, data |-> <<>>]

PutCommand(t) ==
  LET r == request[t]
  IN  /\ At(t, "command")
      /\ Accepted(r) /\ Executes(r)
      /\ Goto(t, IF r.drive = Cd THEN "packet" ELSE "data")
      /\ Crosses(t)
      /\ Rest(t) /\ UNCHANGED <<regs, errors>>

\* An error: a disk's read or write returns, a CD's goes on.
CommandFails(t) ==
  LET r == request[t]
  IN  /\ At(t, "command")
      /\ \/ ~Accepted(r) /\ UNCHANGED errors
         \/ r.drive = Disk /\ errors < MaxErrors /\ errors' = errors + 1
      /\ dev' = IdleDev
      /\ Goto(t, IF r.drive = Cd THEN "packet" ELSE "end")
      /\ Spoils({t} \cup Interrupted(t))
      /\ Rest(t) /\ UNCHANGED regs

-------------------------------------------------------------------------------
(* The packet and the data                                                  *)

\* The block of the CD: the byte address is a product of 32 bits.
BlockOf(r, k) == (((r.at + k) % Span) \div Per)
BlockWords(b) == [k \in 1..(W * Per) |-> CdWord(b * Per + (k - 1) \div W)]

PutPacket(t) ==
  /\ At(t, "packet")
  /\ dev' = IF dev.op = "packet"
            THEN [op |-> "in", at |-> 0, data |-> BlockWords(BlockOf(request[t], sector[t]))]
            ELSE dev
  /\ Goto(t, "data")
  /\ Crosses(t)
  /\ Rest(t) /\ UNCHANGED <<regs, errors>>

\* The words of a transfer.
Transfer(r) == IF r.drive = Cd THEN W * Per ELSE W

\* The data register, as it is read.
Word == IF dev.op = "in" /\ dev.data # <<>> THEN Head(dev.data) ELSE Junk
Given == IF dev.op = "in" /\ Len(dev.data) > 1 THEN [dev EXCEPT !.data = Tail(@)]
         ELSE IF dev.op = "in" THEN IdleDev ELSE dev

\* What is still there behind a disk's sector is read as well.
Drained == IF Given.op = "in" THEN IdleDev ELSE Given

\* Behind the last word of a sector comes the next sector, or the end.
NextSector(t) ==
  /\ words' = [words EXCEPT ![t] = <<>>]
  /\ sector' = [sector EXCEPT ![t] = @ + 1]
  /\ Goto(t, IF sector[t] + 1 < request[t].cnt THEN "head" ELSE "end")

\* A CD's sector is cut out of the block, where its first byte is at the remainder.
CutOut(r, k, ws) ==
  LET off == (((r.at + k) % Span) % Per) * W
  IN  IF r.drive = Cd THEN SubSeq(ws, off + 1, off + W) ELSE ws

\* A disk is not asked whether there are data, a CD for each word.
DataHere(r) == r.drive = Cd => dev.op = "in"

GetWord(t) ==
  LET r == request[t]
      ws == Append(words[t], Word)
  IN  /\ At(t, "data") /\ r.op = "read"
      /\ DataHere(r)
      /\ IF Len(ws) < Transfer(r)
         THEN /\ words' = [words EXCEPT ![t] = ws]
              /\ dev' = Given
              /\ UNCHANGED <<sector, buf, step>>
         ELSE /\ buf' = [buf EXCEPT ![t] = Append(@, CutOut(r, sector[t], ws))]
              /\ dev' = Drained
              /\ NextSector(t)
      /\ Crosses(t)
      /\ UNCHANGED <<request, regs, platter, want, calls, errors>>

\* The drive writes a sector that is complete.
PutWord(t) ==
  LET v == Written(request[t])[1]
      ws == Append(words[t], v)
      full == dev.op = "out" /\ Len(dev.data) = W - 1
  IN  /\ At(t, "data") /\ request[t].op = "write"
      /\ dev' = IF full THEN IdleDev
                ELSE IF dev.op = "out" THEN [dev EXCEPT !.data = Append(@, v)] ELSE dev
      /\ platter' = IF full THEN [platter EXCEPT ![dev.at] = Append(dev.data, v)] ELSE platter
      /\ IF Len(ws) < W
         THEN words' = [words EXCEPT ![t] = ws] /\ UNCHANGED <<sector, step>>
         ELSE NextSector(t)
      /\ Crosses(t)
      /\ UNCHANGED <<request, buf, regs, want, calls, errors>>

CallEnds(t) == /\ At(t, "end")
               /\ Goto(t, "out")
               /\ request' = [request EXCEPT ![t] = [op |-> "none"]]
               /\ sector' = [sector EXCEPT ![t] = 0]
               /\ words' = [words EXCEPT ![t] = <<>>]
               /\ buf' = [buf EXCEPT ![t] = <<>>]
               /\ bad' = [bad EXCEPT ![t] = FALSE]
               /\ UNCHANGED <<regs, dev, platter, want, spoiled, calls, errors>>

IdeNext == \E t \in Users : \/ \E r \in Request : Begin(t, r)
                            \/ PutHead(t) \/ PutLow(t) \/ PutCommand(t) \/ CommandFails(t)
                            \/ PutPacket(t) \/ GetWord(t) \/ PutWord(t) \/ CallEnds(t)

IdeSpec == IdeInit /\ [][IdeNext]_idevars

-------------------------------------------------------------------------------
(* Properties *)

\* Sector s of r's drive, as it should be.
Content(r, s) == IF r.drive = Cd THEN CdWords(s) ELSE want[s]

\* What the call of t should have read.
Expected(t) == LET r == request[t] IN [k \in 1..r.cnt |-> Content(r, r.at + k - 1)]

\* A call with interrupts off is right whatever it interrupts: what it reads is
\* what was written, sector by sector, and what it writes changes those sectors
\* and no other.  So is one with interrupts on, as long as nobody else comes in
\* between.  Not where the drive reports an error, nor where a call goes over a
\* boundary of 2^24 sectors, whose high bits are those of its first (ide.cpp:95,
\* 109), or reads a disc beyond 2^32 bytes (ide.cpp:143).
CallsRight ==
  /\ ~spoiled =>
       /\ (\A t \in Users : step[t] = "end" \/ request[t].op # "write") => platter = want
       /\ \A t \in Users : step[t] = "end" /\ request[t].op = "read" /\ ~bad[t]
                             => buf[t] = Expected(t)
  /\ \A t \in Users : InCall(t) /\ request[t].masked /\ bad[t]
                        => ~InRange(request[t]) \/ errors > 0
===============================================================================
