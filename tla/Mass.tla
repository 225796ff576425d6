-------------------------------- MODULE Mass ----------------------------------
(***************************************************************************)
(* USB disks: the class driver of mass.cpp, its callers usbdrv::read and   *)
(* usbdrv::write, and the event loop posthandle() of xhci.cpp that hands   *)
(* it the completions.                                                     *)
(*                                                                         *)
(* A command is a CBW, the data and a CSW.  read() and write() push the    *)
(* CBW and poll posthandle() until initphase is 8; comp() is called for    *)
(* each completion and pushes the next transfer.  The event ring is taken  *)
(* as it is: posthandle() keeps its place in a local, erdp, and counts in  *)
(* the global eri, and comp() runs with interrupts on.  cpu is the task    *)
(* that holds the processor with IF=0, or NoTask; polls spin with IF=0.    *)
(*                                                                         *)
(* The device and the controller are external.  A device may answer with a *)
(* CSW that is none, with a failed status, or stall (6).                   *)
(***************************************************************************)
EXTENDS Integers, Sequences, FiniteSets

CONSTANTS Main,       \* the task of the event loop
          Others,     \* other tasks that use the disk
          NoTask,
          Blocks,     \* blocks of the disk
          Per,        \* sectors per block: bpb/512
          Wrap,       \* sectors whose bytes 32 bits can number (2^23)
          Value, Zero,
          Size,       \* entries of the event ring (30)
          MaxCalls,   \* bound: calls of usbdrv::read and usbdrv::write
          MaxOdd      \* bound: bad CSWs, failures and stalls

Task == Others \cup {Main}
Sector == 0..(Blocks * Per - 1)
NoJob == [op |-> "none"]
Job == [op : {"read"}, sector : Sector] \cup
       [op : {"write"}, sector : Sector, value : Value]

ASSUME MassAssumption == /\ {Blocks, Per, Wrap, Size} \subseteq Nat \ {0}
                         /\ Size > 1
                         /\ {MaxCalls, MaxOdd} \subseteq Nat
                         /\ NoTask \notin Task /\ Main \notin Others
                         /\ Zero \in Value

VARIABLES
  \* class mass
  phase,        \* initphase
  cbw,          \* mycbw: the command and its block
  tb,           \* whose buffer tb is
  outq, inq, ctlq,  \* TRBs pushed to the bulk and control endpoints
  csw,          \* what intrb's CSW holds
  ready,        \* the drive: "no", "told" (message 6 is written), "yes"
  \* its callers
  job,          \* job[t]: the call of usbdrv that t is in
  step,         \* step[t]: which of its commands, "read" or "write"
  buf,          \* buf[t]: the contents of its tb, one block
  pc,           \* pc[t]: "out", "poll", "loop" in posthandle(), "comp", "hlt"
  cpu,
  result,       \* what the last usbdrv::read returned
  \* the event ring
  ring, enq, pcs,   \* entries, and where the controller writes the next one
  reg, eri, c,      \* ERDP, eri and c
  erdp,         \* erdp[t]: posthandle()'s local
  wake,         \* a message 1 is in kernelbuf
  \* the device
  stage, dcmd, disk,
  \* history
  calls, odd,
  stalled,      \* a transfer ended with 6
  failed,       \* a command failed
  far,          \* a call was for a sector that 32 bits cannot reach
  lost          \* a call began inside another one; or a task went into
                \* posthandle() while another was in it; or phase 4 pushed a
                \* transfer that nobody asked for

driver == <<phase, cbw, tb, outq, inq, ctlq, csw, ready>>
queues == <<outq, inq, ctlq>>
user == <<job, step, buf, result>>
place == <<reg, eri, c, erdp>>
events == <<ring, enq, pcs>>
device == <<stage, dcmd, disk>>
flags == <<stalled, failed>>
begun == <<calls, far>>
history == <<begun, odd, flags, lost>>
vars == <<driver, user, pc, cpu, place, events, wake, device, history>>

Trb(w) == [what |-> w, buf |-> NoTask]
DataTrb == [what |-> "data", buf |-> tb]
Entry == [c : {0, 1}, code : {"ok", "stall"}]

\* mass::init: the endpoints are known and the reset is under way.
Init == /\ phase = 0
        /\ cbw = [op |-> "none", lba |-> 0]
        /\ tb = NoTask
        /\ outq = <<>> /\ inq = <<>> /\ ctlq = <<"reset">>
        /\ csw = "ok"
        /\ ready = "no"
        /\ job = [t \in Task |-> NoJob]
        /\ step = [t \in Task |-> "read"]
        /\ buf = [t \in Task |-> [i \in 0..(Per - 1) |-> Zero]]
        /\ result = Zero
        /\ pc = [t \in Task |-> "out"]
        /\ cpu = NoTask
        /\ ring = [i \in 0..(Size - 1) |-> [c |-> 0, code |-> "ok"]]
        /\ enq = 0 /\ pcs = 1
        /\ reg = 0 /\ eri = 0 /\ c = 1
        /\ erdp = [t \in Task |-> 0]
        /\ wake = FALSE
        /\ stage = "idle"
        /\ dcmd = [op |-> "none", lba |-> 0, ok |-> TRUE]
        /\ disk = [s \in Sector |-> Zero]
        /\ calls = 0 /\ odd = 0
        /\ stalled = FALSE /\ failed = FALSE /\ far = FALSE /\ lost = FALSE

\* Nothing is promised once lost, and the model ends there.
CanRun(t) == cpu \in {t, NoTask} /\ ~lost
At(t, p) == pc[t] = p /\ CanRun(t)

-------------------------------------------------------------------------------
(* posthandle() *)

InPosthandle(t) == pc[t] \in {"loop", "comp"}

\* Its beginning, with interrupts off.
Enter(t) == /\ lost' = (lost \/ \E o \in Task \ {t} : InPosthandle(o))
            /\ erdp' = [erdp EXCEPT ![t] = reg]
            /\ cpu' = t
            /\ pc' = [pc EXCEPT ![t] = "loop"]
            /\ UNCHANGED <<reg, eri, c>>

Due(t) == At(t, "loop") /\ erdp[t] < Size /\ ring[erdp[t]].c = c

\* Mutant of Advance: the cycle state is not toggled.
AdvanceKeepsCycle(t) ==
  LET last == eri + 1 >= Size
  IN  /\ eri' = IF last THEN 0 ELSE eri + 1
      /\ UNCHANGED c
      /\ erdp' = [erdp EXCEPT ![t] = IF last THEN 0 ELSE @ + 1]
      /\ reg' = erdp'[t]

\* erdp and eri go on; at the end of the ring, by eri, both go to the beginning.
Advance(t) ==
  LET last == eri + 1 >= Size
  IN  /\ eri' = IF last THEN 0 ELSE eri + 1
      /\ c' = IF last THEN 1 - c ELSE c
      /\ erdp' = [erdp EXCEPT ![t] = IF last THEN 0 ELSE @ + 1]
      /\ reg' = erdp'[t]

\* The next event is taken.  comp() returns at once for code 6 and otherwise
\* turns interrupts on; behind a handler posthandle() runs with them on.
Take(t) == /\ Due(t)
           /\ Advance(t)
           /\ pc' = [pc EXCEPT ![t] = IF ring[erdp[t]].code = "stall" THEN "loop" ELSE "comp"]
           /\ cpu' = NoTask
           /\ UNCHANGED <<driver, user, events, wake, device, history>>

\* There is none: main goes back to its loop, a caller tests initphase.
Leave(t) == /\ At(t, "loop") /\ ~Due(t)
            /\ \/ /\ job[t] = NoJob
                  /\ pc' = [pc EXCEPT ![t] = "out"]
                  /\ cpu' = NoTask
                  /\ UNCHANGED <<place, lost>>
               \/ /\ job[t] # NoJob /\ phase = 8
                  /\ pc' = [pc EXCEPT ![t] = "hlt"]
                  /\ cpu' = NoTask
                  /\ UNCHANGED <<place, lost>>
               \/ job[t] # NoJob /\ phase # 8 /\ Enter(t)
            /\ UNCHANGED <<driver, user, events, wake, device, begun, odd, flags>>

\* q==1 in the event loop (kernel.cpp:402-405).
KernelPost == /\ At(Main, "out")
              /\ wake
              /\ wake' = FALSE
              /\ Enter(Main)
              /\ UNCHANGED <<driver, user, events, device, begun, odd, flags>>

-------------------------------------------------------------------------------
(* mass::comp(), behind its sti *)

Handled(t) == /\ pc' = [pc EXCEPT ![t] = "loop"]
              /\ cpu' = NoTask
              /\ UNCHANGED <<user, place, events, wake, device, begun, odd>>

Comp(t, p) == At(t, "comp") /\ phase = p

\* The reset and the number of units, which is not used; then READ CAPACITY.
CompStart(t) ==
  /\ \/ /\ Comp(t, 0)
        /\ phase' = 1
        /\ ctlq' = Append(ctlq, "maxlun")
        /\ UNCHANGED <<cbw, outq, inq>>
     \/ /\ Comp(t, 1)
        /\ cbw' = [op |-> "capacity", lba |-> 0]
        /\ phase' = 2
        /\ outq' = Append(outq, Trb("cbw"))
        /\ UNCHANGED <<inq, ctlq>>
     \/ /\ Comp(t, 2)
        /\ phase' = 3
        /\ inq' = Append(inq, Trb("data"))
        /\ UNCHANGED <<cbw, outq, ctlq>>
     \/ /\ Comp(t, 3)
        /\ phase' = 4
        /\ inq' = Append(inq, Trb("csw"))
        /\ UNCHANGED <<cbw, outq, ctlq>>
  /\ UNCHANGED <<tb, csw, ready, flags, lost>>
  /\ Handled(t)

\* The CSW of READ CAPACITY: the drive is announced, and if it was none, one
\* more is asked for.
CompAnnounce(t) ==
  /\ Comp(t, 4)
  /\ inq' = IF csw = "bad" THEN Append(inq, Trb("csw")) ELSE inq
  /\ lost' = (lost \/ csw = "bad")
  /\ phase' = 8
  /\ ready' = "told"
  /\ UNCHANGED <<cbw, tb, outq, ctlq, csw, flags>>
  /\ Handled(t)

CompCommand(t) ==
  /\ Comp(t, 5)
  /\ phase' = 6
  /\ IF cbw.op = "write" THEN outq' = Append(outq, DataTrb) /\ UNCHANGED inq
     ELSE inq' = Append(inq, DataTrb) /\ UNCHANGED outq
  /\ UNCHANGED <<cbw, tb, ctlq, csw, ready, flags, lost>>
  /\ Handled(t)

CompData(t) ==
  /\ Comp(t, 6)
  /\ phase' = 7
  /\ inq' = Append(inq, Trb("csw"))
  /\ UNCHANGED <<cbw, tb, outq, ctlq, csw, ready, flags, lost>>
  /\ Handled(t)

\* Mutant of CompStatus: whatever comes ends the command.
CompStatusTrusts(t) ==
  /\ Comp(t, 7)
  /\ phase' = 8
  /\ failed' = (failed \/ csw = "failed")
  /\ UNCHANGED <<cbw, tb, queues, csw, ready, stalled, lost>>
  /\ Handled(t)

\* A failed status is printed and the command is over all the same.
CompStatus(t) ==
  /\ Comp(t, 7)
  /\ IF csw = "bad" THEN phase' = 9 /\ ctlq' = Append(ctlq, "reset") /\ UNCHANGED failed
     ELSE phase' = 8 /\ failed' = (failed \/ csw = "failed") /\ UNCHANGED ctlq
  /\ UNCHANGED <<cbw, tb, outq, inq, csw, ready, stalled, lost>>
  /\ Handled(t)

\* Mutant of CompReset: the command is not sent again.
CompResetOnly(t) ==
  /\ \E p \in 9..11 : Comp(t, p) /\ phase' = IF p = 11 THEN 5 ELSE p + 1
  /\ ctlq' = IF phase = 11 THEN ctlq ELSE Append(ctlq, "clear")
  /\ UNCHANGED <<cbw, tb, outq, inq, csw, ready, flags, lost>>
  /\ Handled(t)

\* Both endpoints are cleared and the command is sent again.
CompReset(t) ==
  /\ \E p \in 9..11 : Comp(t, p) /\ phase' = IF p = 11 THEN 5 ELSE p + 1
  /\ IF phase = 11 THEN outq' = Append(outq, Trb("cbw")) /\ UNCHANGED ctlq
     ELSE ctlq' = Append(ctlq, "clear") /\ UNCHANGED outq
  /\ UNCHANGED <<cbw, tb, inq, csw, ready, flags, lost>>
  /\ Handled(t)

HandlerStep(t) == \/ CompStart(t) \/ CompAnnounce(t) \/ CompCommand(t) \/ CompData(t)
                  \/ CompStatus(t) \/ CompReset(t)

-------------------------------------------------------------------------------
(* The callers *)

\* q==6 in the event loop: registdrv() makes the drive known.
Register == /\ At(Main, "out")
            /\ ready = "told"
            /\ ready' = "yes"
            /\ UNCHANGED <<phase, cbw, tb, queues, csw>>
            /\ UNCHANGED <<user, pc, cpu, place, events, wake, device, history>>

\* (lba+i)*0x200 is computed in 32 bits, and then divided by bpb.
Reached(s) == s % Wrap
BlockOf(s) == Reached(s) \div Per
Offset(s) == Reached(s) % Per

\* mass::read and mass::write up to the doorbell.
Command(t, op, s) == /\ phase' = 5
                     /\ tb' = t
                     /\ cbw' = [op |-> op, lba |-> BlockOf(s)]
                     /\ outq' = Append(outq, Trb("cbw"))
                     /\ pc' = [pc EXCEPT ![t] = "poll"]
                     /\ cpu' = NoTask
                     /\ UNCHANGED <<inq, ctlq, csw, ready>>

\* usbdrv::read and usbdrv::write of one sector: both read its block first.
Begin(t, j) == /\ At(t, "out")
               /\ ready = "yes" /\ calls < MaxCalls
               /\ calls' = calls + 1
               /\ job' = [job EXCEPT ![t] = j]
               /\ buf' = [buf EXCEPT ![t] = [i \in 0..(Per - 1) |-> Zero]]
               /\ step' = [step EXCEPT ![t] = "read"]
               /\ lost' = (lost \/ \E o \in Task \ {t} : job[o] # NoJob)
               /\ far' = (far \/ j.sector >= Wrap)
               /\ Command(t, "read", j.sector)
               /\ UNCHANGED <<result, place, events, wake, device, odd, flags>>

Poll(t) == /\ At(t, "poll")
           /\ IF phase = 8
              THEN pc' = [pc EXCEPT ![t] = "hlt"] /\ cpu' = NoTask /\ UNCHANGED <<place, lost>>
              ELSE Enter(t)
           /\ UNCHANGED <<driver, user, events, wake, device, begun, odd, flags>>

\* Behind sti; hlt; cli: the block has been read or written.
EndRead(t) == /\ At(t, "hlt") /\ job[t].op = "read"
              /\ result' = buf[t][Offset(job[t].sector)]
              /\ job' = [job EXCEPT ![t] = NoJob]
              /\ pc' = [pc EXCEPT ![t] = "out"]
              /\ UNCHANGED <<driver, step, buf, cpu, place, events, wake, device, history>>

\* Mutant of Modify: the rest of the block is not the one that was read.
ModifyFresh(t) == /\ At(t, "hlt") /\ job[t].op = "write" /\ step[t] = "read"
                  /\ buf' = [buf EXCEPT ![t] = [i \in 0..(Per - 1) |->
                               IF i = Offset(job[t].sector) THEN job[t].value ELSE Zero]]
                  /\ step' = [step EXCEPT ![t] = "write"]
                  /\ Command(t, "write", job[t].sector)
                  /\ UNCHANGED <<job, result, place, events, wake, device, history>>

Modify(t) == /\ At(t, "hlt") /\ job[t].op = "write" /\ step[t] = "read"
             /\ buf' = [buf EXCEPT ![t][Offset(job[t].sector)] = job[t].value]
             /\ step' = [step EXCEPT ![t] = "write"]
             /\ Command(t, "write", job[t].sector)
             /\ UNCHANGED <<job, result, place, events, wake, device, history>>

EndWrite(t) == /\ At(t, "hlt") /\ job[t].op = "write" /\ step[t] = "write"
               /\ job' = [job EXCEPT ![t] = NoJob]
               /\ pc' = [pc EXCEPT ![t] = "out"]
               /\ UNCHANGED <<driver, step, buf, result, cpu, place, events, wake, device, history>>

-------------------------------------------------------------------------------
(* The device and the controller *)

\* A transfer ends: an event, and the interrupt that posts message 1.  With a
\* full ring the controller waits.
Complete(code) == /\ ~lost
                  /\ (enq + 1) % Size # reg
                  /\ ring' = [ring EXCEPT ![enq] = [c |-> pcs, code |-> code]]
                  /\ enq' = (enq + 1) % Size
                  /\ pcs' = IF enq + 1 = Size THEN 1 - pcs ELSE pcs
                  /\ wake' = TRUE
                  /\ UNCHANGED <<phase, cbw, tb, ready, job, step, result, pc, cpu, place>>
                  /\ UNCHANGED <<begun, failed, lost>>

Odd == odd < MaxOdd /\ odd' = odd + 1
BlockAt(d, b) == [i \in 0..(Per - 1) |-> d[b * Per + i]]

\* The CBW is read from memory when it is sent.
DeviceCommand == /\ outq # <<>> /\ Head(outq).what = "cbw" /\ stage = "idle"
                 /\ outq' = Tail(outq)
                 /\ stage' = "data"
                 /\ \/ dcmd' = [op |-> cbw.op, lba |-> cbw.lba, ok |-> TRUE] /\ UNCHANGED odd
                    \/ dcmd' = [op |-> cbw.op, lba |-> cbw.lba, ok |-> FALSE] /\ Odd
                 /\ Complete("ok")
                 /\ UNCHANGED <<inq, ctlq, csw, buf, disk, stalled>>

\* Data to the device, from the buffer that the TRB names.
DeviceWrites == /\ outq # <<>> /\ Head(outq).what = "data"
                /\ stage = "data" /\ dcmd.op = "write"
                /\ outq' = Tail(outq)
                /\ stage' = "status"
                /\ disk' = [s \in Sector |->
                              IF dcmd.ok /\ s \div Per = dcmd.lba
                              THEN buf[Head(outq).buf][s % Per] ELSE disk[s]]
                /\ Complete("ok")
                /\ UNCHANGED <<inq, ctlq, csw, buf, dcmd, odd, stalled>>

\* Data from the device into the buffer that the TRB names; a failed command
\* sends none.
DeviceSends == /\ inq # <<>> /\ stage = "data" /\ dcmd.op # "write"
               /\ inq' = Tail(inq)
               /\ stage' = "status"
               /\ LET to == Head(inq).buf
                  IN  buf' = IF dcmd.ok /\ dcmd.op = "read" /\ to # NoTask
                             THEN [buf EXCEPT ![to] = [i \in 0..(Per - 1) |->
                                                         disk[dcmd.lba * Per + i]]]
                             ELSE buf
               /\ Complete("ok")
               /\ UNCHANGED <<outq, ctlq, csw, dcmd, disk, odd, stalled>>

DeviceStatus == /\ inq # <<>> /\ stage = "status"
                /\ inq' = Tail(inq)
                /\ stage' = "idle"
                /\ \/ csw' = (IF dcmd.ok THEN "ok" ELSE "failed") /\ UNCHANGED odd
                   \/ csw' = "bad" /\ Odd
                /\ Complete("ok")
                /\ UNCHANGED <<outq, ctlq, buf, dcmd, disk, stalled>>

\* A reset takes the device back to the beginning; the others clear an endpoint
\* or ask for the number of units.
DeviceControl == /\ ctlq # <<>>
                 /\ ctlq' = Tail(ctlq)
                 /\ stage' = IF Head(ctlq) = "reset" THEN "idle" ELSE stage
                 /\ Complete("ok")
                 /\ UNCHANGED <<outq, inq, csw, buf, dcmd, disk, odd, stalled>>

\* Any transfer may stall.
DeviceStalls == /\ \/ ctlq # <<>> /\ ctlq' = Tail(ctlq) /\ UNCHANGED <<outq, inq>>
                   \/ outq # <<>> /\ outq' = Tail(outq) /\ UNCHANGED <<ctlq, inq>>
                   \/ inq # <<>> /\ inq' = Tail(inq) /\ UNCHANGED <<outq, ctlq>>
                /\ Odd
                /\ stalled' = TRUE
                /\ Complete("stall")
                /\ UNCHANGED <<csw, buf, device>>

DeviceStep == \/ DeviceCommand \/ DeviceWrites \/ DeviceSends \/ DeviceStatus
              \/ DeviceControl

-------------------------------------------------------------------------------
TaskStep(t) == \/ Take(t) \/ Leave(t) \/ HandlerStep(t)
               \/ Poll(t) \/ EndRead(t) \/ Modify(t) \/ EndWrite(t)

Next == \/ \E t \in Task : TaskStep(t)
        \/ \E t \in Task, j \in Job : Begin(t, j)
        \/ KernelPost \/ Register
        \/ DeviceStep \/ DeviceStalls

Spec == Init /\ [][Next]_vars

\* Every task gets the processor (NoStarvation of Mtask, for posthandle() lets
\* interrupts in behind each event), messages are taken, and the controller and
\* the device work.
FairSpec == /\ Spec
            /\ \A t \in Task : SF_vars(TaskStep(t))
            /\ SF_vars(KernelPost) /\ SF_vars(Register)
            /\ WF_vars(DeviceStep)

-------------------------------------------------------------------------------
(* Properties *)

TypeOK == /\ phase \in 0..11
          /\ csw \in {"ok", "bad", "failed"} /\ ready \in {"no", "told", "yes"}
          /\ job \in [Task -> Job \cup {NoJob}]
          /\ pc \in [Task -> {"out", "poll", "loop", "comp", "hlt"}]
          /\ cpu \in Task \cup {NoTask}
          /\ ring \in [0..(Size - 1) -> Entry] /\ enq \in 0..(Size - 1)
          /\ reg \in 0..Size /\ eri \in 0..(Size - 1) /\ {c, pcs} \subseteq {0, 1}
          /\ stage \in {"idle", "data", "status"} /\ disk \in [Sector -> Value]

\* The place of the next event: i is one of those written and not taken.
Pending(i) == IF reg <= enq THEN reg <= i /\ i < enq ELSE i >= reg \/ i < enq

\* posthandle() takes each event once and in order, on every lap and whichever
\* task calls it: eri, c and the controller's ERDP agree, and the cycle bits
\* tell the pending events from the old ones; as long as no task goes into it
\* while another one is there, with its own erdp (xhci.cpp:439).
EventsOnce == ~lost =>
  /\ TypeOK
  /\ reg = eri
  /\ \A i \in 0..(Size - 1) :
       Pending(i) <=> ring[i].c = IF i >= reg THEN c ELSE 1 - c

\* A call ends, also behind CSWs that are none and the resets they cause, unless
\* a transfer has stalled: comp() then does nothing, and the caller polls for
\* ever (mass.cpp:87, 235); or unless the caller polls, with interrupts off,
\* while another task is in the middle of the completion it waits for.
CallsEnd == \A t \in Task :
  job[t] # NoJob ~> job[t] = NoJob \/ stalled \/ lost

SectorDisk == INSTANCE SectorDisk WITH
  store <- disk,
  NoCall <- NoJob,
  call <- IF \E t \in Task : job[t] # NoJob
          THEN job[CHOOSE t \in Task : job[t] # NoJob] ELSE NoJob,
  spoiled <- failed \/ far \/ lost

\* A drive of blocks of several sectors is a disk of sectors: a write of one
\* leaves its neighbours in the block alone, through bad CSWs, resets and
\* repeated commands.  Not beyond a failed command, whose status is printed and
\* not returned, nor with two callers at a time, nor beyond a call for a sector
\* behind 4 GB, whose number of bytes wraps (mass.cpp:293-312): it goes to a
\* sector at the beginning of the disk.
ImplementsDisk == SectorDisk!Spec
===============================================================================
