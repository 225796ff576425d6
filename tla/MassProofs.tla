------------------------------- MODULE MassProofs -------------------------------
(***************************************************************************)
(* Proofs about Mass: for every set of tasks, every size of the event ring  *)
(* and of the disk, and any number of calls and of odd answers.             *)
(***************************************************************************)
EXTENDS Mass, TLAPS

-------------------------------------------------------------------------------
(* The inductive invariant *)

BlockNo == 0..(Blocks - 1)
OpOf == {"none", "capacity", "read", "write"}
Contents == [0..(Per - 1) -> Value]
OutTrb == [what : {"cbw"}, buf : {NoTask}] \cup [what : {"data"}, buf : Task]
InTrb == [what : {"csw"}, buf : {NoTask}] \cup [what : {"data"}, buf : Task \cup {NoTask}]

DriverTypes == /\ phase \in 0..11
               /\ cbw \in [op : OpOf, lba : BlockNo]
               /\ tb \in Task \cup {NoTask}
               /\ outq \in Seq(OutTrb) /\ inq \in Seq(InTrb)
               /\ ctlq \in Seq({"reset", "maxlun", "clear"})
               /\ csw \in {"ok", "bad", "failed"} /\ ready \in {"no", "told", "yes"}

UserTypes == /\ job \in [Task -> Job \cup {NoJob}]
             /\ step \in [Task -> {"read", "write"}]
             /\ buf \in [Task -> Contents]
             /\ result \in Value
             /\ pc \in [Task -> {"out", "poll", "loop", "comp", "hlt"}]
             /\ cpu \in Task \cup {NoTask}

RingTypes == /\ ring \in [0..(Size - 1) -> Entry]
             /\ enq \in 0..(Size - 1) /\ pcs \in {0, 1}
             /\ reg \in 0..Size /\ eri \in 0..(Size - 1) /\ c \in {0, 1}
             /\ erdp \in [Task -> 0..Size]

DeviceTypes == /\ stage \in {"idle", "data", "status"}
               /\ dcmd \in [op : OpOf, lba : BlockNo, ok : BOOLEAN]
               /\ disk \in [Sector -> Value]

\* A command belongs to a task: the driver's own, for the capacity, is over
\* when phase is 5 for the first time.
Asked == phase \in {5, 6, 7, 9, 10, 11} => tb \in Task

TypeInv == DriverTypes /\ UserTypes /\ RingTypes /\ DeviceTypes /\ Asked

\* One task is in posthandle(), with the controller's place in its erdp.
OnePlace == /\ \A t, o \in Task : InPosthandle(t) /\ InPosthandle(o) => t = o
            /\ \A t \in Task : InPosthandle(t) => erdp[t] = reg
            /\ reg = eri

\* The controller's cycle state is the driver's, but while it is a lap ahead.
Cycles == /\ pcs = IF reg <= enq THEN c ELSE 1 - c
          /\ \A i \in 0..(Size - 1) :
               Pending(i) <=> ring[i].c = IF i >= reg THEN c ELSE 1 - c

IInv == TypeInv /\ (~lost => OnePlace /\ Cycles)

-------------------------------------------------------------------------------
(* Blocks and their sectors *)

LEMMA Product == ASSUME NEW m \in Int, NEW n \in Int, NEW p \in Nat, m <= n
                 PROVE  m * p <= n * p /\ m * p \in Int /\ n * p \in Int
<1>1. (n - m) * p >= 0
  <2> DEFINE d == n - m
  <2>1. d \in Nat
    OBVIOUS
  <2> HIDE DEF d
  <2>2. d * p >= 0
    BY <2>1
  <2> QED
    BY <2>2 DEF d
<1>2. (n - m) * p = n * p - m * p
  OBVIOUS
<1> QED
  BY <1>1, <1>2

\* A sector is at its offset in its block.
LEMMA Exact == /\ \A s \in Sector : /\ s \div Per \in BlockNo
                                    /\ s % Per \in 0..(Per - 1)
                                    /\ s = (s \div Per) * Per + (s % Per)
               /\ \A b \in BlockNo, i \in 0..(Per - 1) : /\ b * Per + i \in Sector
                                                         /\ (b * Per + i) \div Per = b
                                                         /\ (b * Per + i) % Per = i
<1> USE MassAssumption
<1>0. Per \in Nat /\ Per > 0 /\ Blocks \in Nat /\ Blocks > 0 /\ Blocks * Per \in Nat
  BY Z3
<1>1. \A s \in Int : /\ s \div Per \in Int /\ s % Per \in 0..(Per - 1)
                     /\ s = (s \div Per) * Per + (s % Per)
  BY <1>0, Z3
<1>2. ASSUME NEW s \in Sector
      PROVE  s \div Per \in BlockNo /\ s % Per \in 0..(Per - 1)
             /\ s = (s \div Per) * Per + (s % Per)
  <2> DEFINE q == s \div Per
  <2>1. s \in Int /\ 0 <= s /\ s < Blocks * Per
    BY <1>0 DEF Sector
  <2>2. q \in Int /\ s % Per \in 0..(Per - 1) /\ s = q * Per + (s % Per)
    BY <2>1, <1>1
  <2> HIDE DEF q
  <2>3. ~ q >= Blocks
    <3> SUFFICES ASSUME q >= Blocks PROVE FALSE
      OBVIOUS
    <3>1. Blocks * Per <= q * Per /\ q * Per \in Int
      BY <1>0, <2>2, Product
    <3> QED
      BY <3>1, <2>1, <2>2, <1>0
  <2>4. ~ q <= -1
    <3> SUFFICES ASSUME q <= -1 PROVE FALSE
      OBVIOUS
    <3>1. q * Per <= (-1) * Per /\ q * Per \in Int
      BY <1>0, <2>2, Product
    <3> QED
      BY <3>1, <2>1, <2>2, <1>0
  <2>5. q \in BlockNo
    BY <2>2, <2>3, <2>4, <1>0 DEF BlockNo
  <2> QED
    BY <2>2, <2>5 DEF q
<1>3. ASSUME NEW b \in BlockNo, NEW i \in 0..(Per - 1)
      PROVE  b * Per + i \in Sector /\ (b * Per + i) \div Per = b /\ (b * Per + i) % Per = i
  <2> DEFINE s == b * Per + i
             q == s \div Per
  <2>1. b \in Int /\ 0 <= b /\ b <= Blocks - 1 /\ i \in Int /\ 0 <= i /\ i < Per
    BY <1>0 DEF BlockNo
  <2>2. 0 * Per <= b * Per /\ b * Per <= (Blocks - 1) * Per /\ b * Per \in Int
    BY <2>1, <1>0, Product
  <2>3. (Blocks - 1) * Per = Blocks * Per - Per
    BY <1>0
  <2>4. s \in Sector /\ s \in Int
    BY <2>1, <2>2, <2>3, <1>0 DEF Sector
  <2>5. q \in Int /\ s % Per \in 0..(Per - 1) /\ s = q * Per + (s % Per)
    BY <2>4, <1>1
  <2> HIDE DEF q
  <2>6. ~ q >= b + 1
    <3> SUFFICES ASSUME q >= b + 1 PROVE FALSE
      OBVIOUS
    <3>1. (b + 1) * Per <= q * Per /\ q * Per \in Int
      BY <2>1, <1>0, <2>5, Product
    <3>2. (b + 1) * Per = b * Per + Per
      BY <2>1, <1>0
    <3> QED
      BY <3>1, <3>2, <2>1, <2>2, <2>5, <1>0
  <2>7. ~ q <= b - 1
    <3> SUFFICES ASSUME q <= b - 1 PROVE FALSE
      OBVIOUS
    <3>1. q * Per <= (b - 1) * Per /\ q * Per \in Int
      BY <2>1, <1>0, <2>5, Product
    <3>2. (b - 1) * Per = b * Per - Per
      BY <2>1, <1>0
    <3> QED
      BY <3>1, <3>2, <2>1, <2>2, <2>5, <1>0
  <2>8. q = b
    BY <2>1, <2>5, <2>6, <2>7
  <2>9. s % Per = i
    BY <2>5, <2>8, <2>1, <2>2, <1>0
  <2> QED
    BY <2>4, <2>8, <2>9 DEF q
<1> QED
  BY <1>2, <1>3

\* The sector a call reaches is one of the disk, and where it is in the block
\* that is read: the one asked for, as long as 32 bits number its bytes.
LEMMA Sectors == \A s \in Sector : /\ Reached(s) \in Sector
                                   /\ BlockOf(s) \in BlockNo
                                   /\ Offset(s) \in 0..(Per - 1)
                                   /\ Reached(s) = BlockOf(s) * Per + Offset(s)
                                   /\ s < Wrap => Reached(s) = s
<1> SUFFICES ASSUME NEW s \in Sector
             PROVE  Reached(s) \in Sector /\ (s < Wrap => Reached(s) = s)
  BY Exact DEF BlockOf, Offset
<1>0. Per \in Nat /\ Blocks \in Nat /\ Blocks * Per \in Nat /\ Wrap \in Nat /\ Wrap > 0
  BY MassAssumption, Z3
<1>1. s \in Nat /\ s < Blocks * Per
  BY <1>0 DEF Sector
<1> DEFINE q == s \div Wrap
           r == s % Wrap
<1>2. q \in Int /\ r \in 0..(Wrap - 1) /\ s = q * Wrap + r
  BY <1>0, <1>1, Z3
<1> HIDE DEF q, r
<1>3. ~ q <= -1
  <2> SUFFICES ASSUME q <= -1 PROVE FALSE
    OBVIOUS
  <2>1. q * Wrap <= (-1) * Wrap /\ q * Wrap \in Int
    BY <1>0, <1>2, Product
  <2> QED
    BY <2>1, <1>0, <1>1, <1>2
<1>4. 0 * Wrap <= q * Wrap /\ q * Wrap \in Int
  BY <1>0, <1>2, <1>3, Product
<1>5. r <= s /\ r \in Nat
  BY <1>0, <1>1, <1>2, <1>4
<1>6. ASSUME s < Wrap PROVE r = s
  <2>1. ~ q >= 1
    <3> SUFFICES ASSUME q >= 1 PROVE FALSE
      OBVIOUS
    <3>1. 1 * Wrap <= q * Wrap
      BY <1>0, <1>2, Product
    <3> QED
      BY <3>1, <1>0, <1>1, <1>2, <1>4, <1>6
  <2>2. q = 0
    BY <2>1, <1>2, <1>3
  <2> QED
    BY <2>2, <1>0, <1>1, <1>2
<1> QED
  BY <1>0, <1>1, <1>5, <1>6 DEF r, Reached, Sector

-------------------------------------------------------------------------------
(* Types *)

LEMMA Trbs == /\ Trb("cbw") \in OutTrb /\ Trb("csw") \in InTrb /\ Trb("data") \in InTrb
              /\ tb \in Task => DataTrb \in OutTrb /\ DataTrb \in InTrb
              /\ \A r \in OutTrb : r.what = "data" => r.buf \in Task
              /\ \A r \in InTrb : r.buf \in Task \cup {NoTask}
  BY DEF OutTrb, InTrb, Trb, DataTrb

LEMMA Jobs == /\ \A j \in Job : j # NoJob /\ j.sector \in Sector /\ j.op \in {"read", "write"}
              /\ \A j \in Job : j.op = "write" => j.value \in Value
              /\ NoJob.op = "none"
  BY DEF Job, NoJob

\* An event taken: the places stay in their ranges.
LEMMA AdvanceType == ASSUME RingTypes, NEW t \in Task, Due(t), Advance(t), UNCHANGED events
                     PROVE  RingTypes'
<1>0. Size \in Nat /\ Size > 1
  BY MassAssumption
<1> USE <1>0
<1>1. eri' \in 0..(Size - 1) /\ c' \in {0, 1}
  BY DEF RingTypes, Advance
<1>2. erdp[t] \in 0..Size /\ erdp[t] < Size
  BY DEF RingTypes, Due
<1>3. erdp' \in [Task -> 0..Size]
  <2>1. (IF eri + 1 >= Size THEN 0 ELSE erdp[t] + 1) \in 0..Size
    BY <1>2
  <2> QED
    BY <2>1 DEF RingTypes, Advance
<1>4. reg' \in 0..Size
  BY <1>3 DEF Advance
<1> QED
  BY <1>1, <1>3, <1>4 DEF RingTypes, events

LEMMA TypeInit == Init => TypeInv
<1> SUFFICES ASSUME Init PROVE TypeInv
  OBVIOUS
<1> USE MassAssumption DEF Init
<1>1. /\ <<>> \in Seq(OutTrb) /\ <<>> \in Seq(InTrb)
      /\ <<"reset">> \in Seq({"reset", "maxlun", "clear"})
      /\ 0 \in BlockNo
  BY DEF BlockNo
<1>2. DriverTypes
  BY <1>1 DEF DriverTypes, OpOf
<1>3. UserTypes
  BY DEF UserTypes, Contents
<1>4. RingTypes
  BY DEF RingTypes, Entry
<1>5. DeviceTypes
  BY <1>1 DEF DeviceTypes, OpOf
<1> QED
  BY <1>2, <1>3, <1>4, <1>5 DEF TypeInv, Asked

LEMMA HandlerTypes == ASSUME TypeInv, NEW t \in Task, HandlerStep(t)
                      PROVE  TypeInv'
<1> USE DEF TypeInv, Comp
<1>0. /\ outq \in Seq(OutTrb) /\ inq \in Seq(InTrb)
      /\ ctlq \in Seq({"reset", "maxlun", "clear"})
  BY DEF DriverTypes
<1>t. /\ Append(outq, Trb("cbw")) \in Seq(OutTrb)
      /\ Append(inq, Trb("data")) \in Seq(InTrb) /\ Append(inq, Trb("csw")) \in Seq(InTrb)
      /\ \A w \in {"reset", "maxlun", "clear"} :
           Append(ctlq, w) \in Seq({"reset", "maxlun", "clear"})
  BY <1>0, Trbs
<1>1. /\ DriverTypes' /\ Asked'
  <2>1. CASE CompStart(t)
    <3>1. [op |-> "capacity", lba |-> 0] \in [op : OpOf, lba : BlockNo]
      BY MassAssumption DEF BlockNo, OpOf
    <3>2. phase' \in 1..4 /\ cbw' \in [op : OpOf, lba : BlockNo]
      BY <2>1, <3>1 DEF CompStart, DriverTypes
    <3>3. outq' \in Seq(OutTrb) /\ inq' \in Seq(InTrb)
          /\ ctlq' \in Seq({"reset", "maxlun", "clear"})
      BY <1>0, <1>t, <2>1 DEF CompStart
    <3>4. UNCHANGED <<tb, csw, ready>>
      BY <2>1 DEF CompStart
    <3> QED
      BY <3>2, <3>3, <3>4 DEF DriverTypes, Asked
  <2>2. CASE CompAnnounce(t)
    BY <1>0, <1>t, <2>2 DEF CompAnnounce, DriverTypes, Asked
  <2>3. CASE CompCommand(t)
    <3>1. tb \in Task
      BY <2>3 DEF CompCommand, Asked
    <3>2. outq' \in Seq(OutTrb) /\ inq' \in Seq(InTrb)
      <4>1. Append(outq, DataTrb) \in Seq(OutTrb) /\ Append(inq, DataTrb) \in Seq(InTrb)
        BY <1>0, <3>1, Trbs
      <4> QED
        BY <1>0, <2>3, <4>1 DEF CompCommand
    <3> QED
      BY <1>0, <2>3, <3>1, <3>2 DEF CompCommand, DriverTypes, Asked
  <2>4. CASE CompData(t)
    BY <1>0, <1>t, <2>4 DEF CompData, DriverTypes, Asked
  <2>5. CASE CompStatus(t)
    <3>1. phase' \in {8, 9} /\ tb \in Task /\ UNCHANGED <<cbw, tb, outq, inq, csw, ready>>
      BY <2>5 DEF CompStatus, Asked
    <3>2. ctlq' \in Seq({"reset", "maxlun", "clear"})
      BY <1>0, <1>t, <2>5 DEF CompStatus
    <3> QED
      BY <3>1, <3>2 DEF DriverTypes, Asked
  <2>6. CASE CompReset(t)
    <3>1. PICK p \in 9..11 : phase = p /\ phase' = IF p = 11 THEN 5 ELSE p + 1
      BY <2>6 DEF CompReset
    <3>2. outq' \in Seq(OutTrb) /\ ctlq' \in Seq({"reset", "maxlun", "clear"})
      BY <1>0, <1>t, <2>6 DEF CompReset
    <3> QED
      BY <1>0, <2>6, <3>1, <3>2 DEF CompReset, DriverTypes, Asked
  <2> QED
    BY <2>1, <2>2, <2>3, <2>4, <2>5, <2>6 DEF HandlerStep
<1>2. Handled(t)
  BY DEF HandlerStep, CompStart, CompAnnounce, CompCommand, CompData, CompStatus, CompReset
<1>4. UserTypes'
  BY <1>2 DEF UserTypes, Handled, user
<1>5. RingTypes' /\ DeviceTypes'
  BY <1>2 DEF RingTypes, DeviceTypes, Handled, place, events, device
<1> QED
  BY <1>1, <1>4, <1>5

LEMMA EnterTypes == ASSUME TypeInv, NEW t \in Task, Enter(t), UNCHANGED <<user, events>>
                    PROVE  UserTypes' /\ RingTypes'
  BY DEF TypeInv, Enter, UserTypes, RingTypes, user, events

LEMMA PlaceTypes ==
  ASSUME TypeInv, NEW t \in Task, Take(t) \/ Leave(t) \/ Poll(t) \/ (t = Main /\ KernelPost)
  PROVE  TypeInv'
<1>1. UNCHANGED <<driver, user, events, device>>
  BY DEF Take, Leave, Poll, KernelPost
<1>2. DriverTypes' /\ DeviceTypes' /\ Asked'
  BY <1>1 DEF TypeInv, DriverTypes, DeviceTypes, Asked, driver, device
<1>3. UserTypes' /\ RingTypes'
  <2>1. CASE Take(t)
    <3>1. RingTypes'
      BY <2>1, <1>1, AdvanceType DEF Take, TypeInv, events
    <3>2. UserTypes'
      BY <2>1, <1>1 DEF Take, TypeInv, UserTypes, user
    <3> QED
      BY <3>1, <3>2
  <2>2. CASE Enter(t)
    BY <1>1, <2>2, EnterTypes
  <2>3. CASE /\ \E p \in {"out", "hlt"} : pc' = [pc EXCEPT ![t] = p]
             /\ cpu' = NoTask /\ UNCHANGED place
    BY <1>1, <2>3 DEF TypeInv, UserTypes, RingTypes, user, events, place
  <2> QED
    BY <2>1, <2>2, <2>3 DEF Leave, Poll, KernelPost
<1> QED
  BY <1>2, <1>3 DEF TypeInv

LEMMA CommandTypes ==
  ASSUME TypeInv, NEW t \in Task, NEW op \in {"read", "write"}, NEW s \in Sector,
         Command(t, op, s)
  PROVE  DriverTypes' /\ Asked'
<1>1. /\ Append(outq, Trb("cbw")) \in Seq(OutTrb)
      /\ [op |-> op, lba |-> BlockOf(s)] \in [op : OpOf, lba : BlockNo]
  BY Trbs, Sectors DEF TypeInv, DriverTypes, OpOf
<1> QED
  BY <1>1 DEF Command, TypeInv, DriverTypes, Asked

LEMMA CallTypes ==
  ASSUME TypeInv, NEW t \in Task,
         \/ \E j \in Job : Begin(t, j)
         \/ EndRead(t) \/ Modify(t) \/ EndWrite(t) \/ Register
  PROVE  TypeInv'
<1>1. UNCHANGED <<place, events, device>>
  BY DEF Begin, EndRead, Modify, EndWrite, Register
<1>2. RingTypes' /\ DeviceTypes'
  BY <1>1 DEF TypeInv, RingTypes, DeviceTypes, place, events, device
<1>3. CASE \E j \in Job : Begin(t, j)
  <2>1. PICK j \in Job : Begin(t, j)
    BY <1>3
  <2>2. DriverTypes' /\ Asked'
    BY <2>1, Jobs, CommandTypes DEF Begin
  <2>3. [i \in 0..(Per - 1) |-> Zero] \in Contents
    BY MassAssumption DEF Contents
  <2>4. UserTypes'
    BY <2>1, <2>3 DEF Begin, Command, TypeInv, UserTypes
  <2> QED
    BY <1>2, <2>2, <2>4 DEF TypeInv
<1>4. CASE EndRead(t)
  <2>1. job[t] \in Job /\ buf[t] \in Contents
    BY <1>4, Jobs DEF EndRead, TypeInv, UserTypes
  <2>2. buf[t][Offset(job[t].sector)] \in Value
    BY <2>1, Jobs, Sectors DEF Contents
  <2>3. UserTypes'
    BY <1>4, <2>2 DEF EndRead, TypeInv, UserTypes
  <2> QED
    BY <1>2, <1>4, <2>3 DEF EndRead, TypeInv, DriverTypes, Asked, driver
<1>5. CASE Modify(t)
  <2>1. job[t] \in Job /\ buf[t] \in Contents
    BY <1>5, Jobs DEF Modify, TypeInv, UserTypes
  <2>2. DriverTypes' /\ Asked'
    BY <1>5, <2>1, Jobs, CommandTypes DEF Modify
  <2>3. [buf[t] EXCEPT ![Offset(job[t].sector)] = job[t].value] \in Contents
    BY <1>5, <2>1, Jobs DEF Contents, Modify
  <2>4. buf' \in [Task -> Contents]
    BY <1>5, <2>3 DEF Modify, TypeInv, UserTypes
  <2>5. UserTypes'
    BY <1>5, <2>4 DEF Modify, Command, TypeInv, UserTypes
  <2> QED
    BY <1>2, <2>2, <2>5 DEF TypeInv
<1>6. CASE EndWrite(t)
  BY <1>2, <1>6 DEF EndWrite, TypeInv, DriverTypes, UserTypes, Asked, driver
<1>7. CASE Register
  BY <1>2, <1>7 DEF Register, TypeInv, DriverTypes, UserTypes, Asked, user, queues
<1> QED
  BY <1>3, <1>4, <1>5, <1>6, <1>7

LEMMA CompleteTypes == ASSUME TypeInv, NEW code \in {"ok", "stall"}, Complete(code)
                       PROVE  RingTypes'
<1>0. Size \in Nat /\ Size > 1 /\ enq \in 0..(Size - 1)
  BY MassAssumption DEF TypeInv, RingTypes
<1>1. (enq + 1) % Size \in 0..(Size - 1)
  BY <1>0, Z3
<1>2. [c |-> pcs, code |-> code] \in Entry
  BY DEF TypeInv, RingTypes, Entry
<1>3. ring' \in [0..(Size - 1) -> Entry]
  BY <1>0, <1>2 DEF Complete, TypeInv, RingTypes
<1>4. enq' \in 0..(Size - 1) /\ pcs' \in {0, 1}
  BY <1>1 DEF Complete, TypeInv, RingTypes
<1> QED
  BY <1>3, <1>4 DEF Complete, TypeInv, RingTypes, place

LEMMA DeviceTakes == ASSUME TypeInv, DeviceStep \/ DeviceStalls
                     PROVE  /\ outq' \in Seq(OutTrb) /\ inq' \in Seq(InTrb)
                            /\ ctlq' \in Seq({"reset", "maxlun", "clear"})
                            /\ csw' \in {"ok", "bad", "failed"}
                            /\ \E code \in {"ok", "stall"} : Complete(code)
<1>0. /\ outq \in Seq(OutTrb) /\ inq \in Seq(InTrb)
      /\ ctlq \in Seq({"reset", "maxlun", "clear"}) /\ csw \in {"ok", "bad", "failed"}
  BY DEF TypeInv, DriverTypes
<1>1. /\ outq # <<>> => Tail(outq) \in Seq(OutTrb)
      /\ inq # <<>> => Tail(inq) \in Seq(InTrb)
      /\ ctlq # <<>> => Tail(ctlq) \in Seq({"reset", "maxlun", "clear"})
  BY <1>0
<1>2. /\ outq' = outq \/ (outq # <<>> /\ outq' = Tail(outq))
      /\ inq' = inq \/ (inq # <<>> /\ inq' = Tail(inq))
      /\ ctlq' = ctlq \/ (ctlq # <<>> /\ ctlq' = Tail(ctlq))
  BY DEF DeviceStep, DeviceCommand, DeviceWrites, DeviceSends, DeviceStatus, DeviceControl,
         DeviceStalls
<1>3. csw' = csw \/ csw' \in {"ok", "failed", "bad"}
  BY DEF DeviceStep, DeviceCommand, DeviceWrites, DeviceSends, DeviceStatus, DeviceControl,
         DeviceStalls
<1>4. Complete("ok") \/ Complete("stall")
  BY DEF DeviceStep, DeviceCommand, DeviceWrites, DeviceSends, DeviceStatus, DeviceControl,
         DeviceStalls
<1> QED
  BY <1>0, <1>1, <1>2, <1>3, <1>4

LEMMA DeviceOnly == ASSUME TypeInv, DeviceStep \/ DeviceStalls
                    PROVE  DeviceTypes' /\ buf' \in [Task -> Contents]
<1>0. /\ cbw \in [op : OpOf, lba : BlockNo] /\ dcmd \in [op : OpOf, lba : BlockNo, ok : BOOLEAN]
      /\ disk \in [Sector -> Value] /\ stage \in {"idle", "data", "status"}
      /\ buf \in [Task -> Contents] /\ outq \in Seq(OutTrb) /\ inq \in Seq(InTrb)
  BY DEF TypeInv, DriverTypes, DeviceTypes, UserTypes
<1>1. CASE DeviceCommand
  <2>1. \A k \in BOOLEAN : [op |-> cbw.op, lba |-> cbw.lba, ok |-> k]
                             \in [op : OpOf, lba : BlockNo, ok : BOOLEAN]
    BY <1>0
  <2> QED
    BY <1>0, <1>1, <2>1 DEF DeviceCommand, DeviceTypes
<1>2. CASE DeviceWrites
  <2>1. Head(outq) \in OutTrb
    BY <1>0, <1>2 DEF DeviceWrites
  <2>2. Head(outq).buf \in Task
    BY <1>2, <2>1, Trbs DEF DeviceWrites
  <2>3. buf[Head(outq).buf] \in Contents
    BY <1>0, <2>2
  <2>4. \A s \in Sector : buf[Head(outq).buf][s % Per] \in Value
    BY <2>3, Exact DEF Contents
  <2>5. disk' \in [Sector -> Value]
    BY <1>0, <1>2, <2>4 DEF DeviceWrites
  <2> QED
    BY <1>0, <1>2, <2>5 DEF DeviceWrites, DeviceTypes
<1>3. CASE DeviceSends
  <2>1. Head(inq).buf \in Task \cup {NoTask}
    BY <1>0, <1>3, Trbs DEF DeviceSends
  <2>2. \A i \in 0..(Per - 1) : disk[dcmd.lba * Per + i] \in Value
    BY <1>0, Exact
  <2>3. [i \in 0..(Per - 1) |-> disk[dcmd.lba * Per + i]] \in Contents
    BY <2>2 DEF Contents
  <2>4. buf' \in [Task -> Contents]
    BY <1>0, <1>3, <2>1, <2>3 DEF DeviceSends
  <2> QED
    BY <1>0, <1>3, <2>4 DEF DeviceSends, DeviceTypes
<1>4. CASE DeviceStatus \/ DeviceControl \/ DeviceStalls
  BY <1>0, <1>4 DEF DeviceStatus, DeviceControl, DeviceStalls, DeviceTypes, device
<1> QED
  BY <1>1, <1>2, <1>3, <1>4 DEF DeviceStep

LEMMA TypeStep == TypeInv /\ [Next]_vars => TypeInv'
<1> SUFFICES ASSUME TypeInv, [Next]_vars PROVE TypeInv'
  OBVIOUS
<1>0. Main \in Task
  BY DEF Task
<1>1. CASE \E t \in Task : \/ Take(t) \/ Leave(t) \/ Poll(t) \/ (t = Main /\ KernelPost)
  BY <1>1, PlaceTypes
<1>2. CASE \E t \in Task : HandlerStep(t)
  BY <1>2, HandlerTypes
<1>3. CASE \E t \in Task : \/ \E j \in Job : Begin(t, j)
                           \/ EndRead(t) \/ Modify(t) \/ EndWrite(t) \/ Register
  BY <1>3, CallTypes
<1>4. CASE DeviceStep \/ DeviceStalls
  <2>1. PICK code \in {"ok", "stall"} : Complete(code)
    BY <1>4, DeviceTakes
  <2>2. RingTypes'
    BY <2>1, CompleteTypes
  <2>3. UNCHANGED <<phase, cbw, tb, ready, job, step, result, pc, cpu>>
    BY <2>1 DEF Complete
  <2>4. /\ outq' \in Seq(OutTrb) /\ inq' \in Seq(InTrb)
        /\ ctlq' \in Seq({"reset", "maxlun", "clear"})
        /\ csw' \in {"ok", "bad", "failed"}
    BY <1>4, DeviceTakes
  <2>5. DeviceTypes' /\ buf' \in [Task -> Contents]
    BY <1>4, DeviceOnly
  <2> QED
    BY <2>2, <2>3, <2>4, <2>5 DEF TypeInv, DriverTypes, UserTypes, Asked
<1>5. CASE UNCHANGED vars
  BY <1>5 DEF TypeInv, DriverTypes, UserTypes, RingTypes, DeviceTypes, Asked, vars, driver, user,
              place, events, device
<1> QED
  BY <1>0, <1>1, <1>2, <1>3, <1>4, <1>5 DEF Next, TaskStep

-------------------------------------------------------------------------------
(* The places *)

\* The only steps that move the places, and the only one that puts an event.
LEMMA Movers ==
  ASSUME TypeInv, [Next]_vars
  PROVE  \/ /\ UNCHANGED <<place, ring, enq, pcs>>
            /\ ~lost' => /\ ~lost
                         /\ \A t \in Task : InPosthandle(t)' => InPosthandle(t)
         \/ /\ \E t \in Task : Enter(t)
            /\ UNCHANGED events
         \/ /\ \E t \in Task : Take(t)
         \/ /\ \E code \in {"ok", "stall"} : Complete(code)
<1>0. Main \in Task /\ pc \in [Task -> {"out", "poll", "loop", "comp", "hlt"}]
  BY DEF Task, TypeInv, UserTypes
<1>1. CASE \E t \in Task : HandlerStep(t)
  <2>1. PICK t \in Task : HandlerStep(t)
    BY <1>1
  <2>2. Handled(t) /\ pc[t] = "comp" /\ ~lost
    BY <2>1 DEF HandlerStep, CompStart, CompAnnounce, CompCommand, CompData, CompStatus,
                CompReset, Comp, At, CanRun
  <2> QED
    BY <1>0, <2>2 DEF Handled, InPosthandle, events
<1>2. CASE \E t \in Task : Leave(t) \/ Poll(t)
  <2>1. PICK t \in Task : Leave(t) \/ Poll(t)
    BY <1>2
  <2>2. UNCHANGED events
    BY <2>1 DEF Leave, Poll
  <2>3. CASE Enter(t)
    BY <2>2, <2>3
  <2>4. CASE /\ \E p \in {"out", "hlt"} : pc' = [pc EXCEPT ![t] = p]
             /\ UNCHANGED <<place, lost>>
    BY <1>0, <2>2, <2>4 DEF InPosthandle, events
  <2> QED
    BY <2>1, <2>3, <2>4 DEF Leave, Poll
<1>3. CASE KernelPost
  BY <1>0, <1>3 DEF KernelPost
<1>4. CASE \E t \in Task : EndRead(t) \/ EndWrite(t) \/ Register
  BY <1>0, <1>4 DEF EndRead, EndWrite, Register, InPosthandle, events, history
<1>5. CASE \E t \in Task : Modify(t) \/ \E j \in Job : Begin(t, j)
  <2>1. PICK t \in Task : Modify(t) \/ \E j \in Job : Begin(t, j)
    BY <1>5
  <2>2. pc' = [pc EXCEPT ![t] = "poll"] /\ UNCHANGED <<place, events>> /\ (~lost' => ~lost)
    BY <2>1 DEF Modify, Begin, Command, At, CanRun
  <2> QED
    BY <1>0, <2>2 DEF InPosthandle, events
<1>6. CASE DeviceStep \/ DeviceStalls
  BY <1>6, DeviceTakes
<1>7. CASE UNCHANGED vars
  BY <1>7 DEF vars, events, history, InPosthandle
<1>8. \/ \E t \in Task : HandlerStep(t)
      \/ \E t \in Task : Leave(t) \/ Poll(t)
      \/ KernelPost
      \/ \E t \in Task : EndRead(t) \/ EndWrite(t) \/ Register
      \/ \E t \in Task : Modify(t) \/ \E j \in Job : Begin(t, j)
      \/ DeviceStep \/ DeviceStalls
      \/ UNCHANGED vars
      \/ \E t \in Task : Take(t)
  BY <1>0 DEF Next, TaskStep
<1> QED
  BY <1>1, <1>2, <1>3, <1>4, <1>5, <1>6, <1>7, <1>8

\* An event taken was pending.
LEMMA DuePending == ASSUME TypeInv, OnePlace, Cycles, NEW t \in Task, Due(t)
                    PROVE  erdp[t] = reg /\ reg = eri /\ Pending(reg) /\ reg # enq
<1>1. InPosthandle(t)
  BY DEF Due, At, InPosthandle
<1>2. erdp[t] = reg /\ reg = eri
  BY <1>1 DEF OnePlace
<1>3. reg \in 0..(Size - 1) /\ enq \in Int
  BY <1>2, MassAssumption DEF TypeInv, RingTypes
<1>4. ring[reg].c = c
  BY <1>2 DEF Due
<1>5. Pending(reg)
  BY <1>3, <1>4 DEF Cycles
<1> QED
  BY <1>2, <1>3, <1>5 DEF Pending

LEMMA TakeSteps == ASSUME TypeInv, OnePlace, Cycles, NEW t \in Task, Take(t)
                   PROVE  OnePlace' /\ Cycles'
<1>0. Size \in Nat /\ Size > 1 /\ enq \in 0..(Size - 1) /\ eri \in 0..(Size - 1)
      /\ pcs \in {0, 1} /\ c \in {0, 1} /\ erdp \in [Task -> 0..Size]
      /\ ring \in [0..(Size - 1) -> Entry]
  BY MassAssumption DEF TypeInv, RingTypes
<1>1. erdp[t] = reg /\ reg = eri /\ Pending(reg) /\ reg # enq
  BY DuePending DEF Take
<1>2. UNCHANGED <<ring, enq, pcs>>
  BY DEF Take, events
<1>3. IF reg + 1 >= Size THEN reg' = 0 /\ c' = 1 - c ELSE reg' = reg + 1 /\ c' = c
  BY <1>0, <1>1 DEF Take, Advance
<1>4. eri' = reg' /\ erdp'[t] = reg'
  BY <1>0, <1>1 DEF Take, Advance
<1>5. \A o \in Task : InPosthandle(o)' => o = t
  <2>1. InPosthandle(t)
    BY DEF Take, Due, At, InPosthandle
  <2> QED
    BY <2>1 DEF Take, OnePlace, InPosthandle, TypeInv, UserTypes
<1>6. OnePlace'
  BY <1>4, <1>5 DEF OnePlace
<1>7. pcs' = IF reg' <= enq' THEN c' ELSE 1 - c'
  BY <1>0, <1>1, <1>2, <1>3 DEF Cycles
<1>8. ASSUME NEW i \in 0..(Size - 1)
      PROVE  Pending(i)' <=> ring'[i].c = IF i >= reg' THEN c' ELSE 1 - c'
  <2>1. ring[i].c \in {0, 1}
    BY <1>0 DEF Entry
  <2>2. Pending(i) <=> ring[i].c = IF i >= reg THEN c ELSE 1 - c
    BY DEF Cycles
  <2> QED
    BY <1>0, <1>1, <1>2, <1>3, <2>1, <2>2 DEF Pending
<1> QED
  BY <1>6, <1>7, <1>8 DEF Cycles

LEMMA CompleteSteps ==
  ASSUME TypeInv, OnePlace, Cycles, NEW code \in {"ok", "stall"}, Complete(code)
  PROVE  OnePlace' /\ Cycles'
<1>0. Size \in Nat /\ Size > 1 /\ enq \in 0..(Size - 1) /\ reg \in 0..(Size - 1)
      /\ pcs \in {0, 1} /\ c \in {0, 1} /\ ring \in [0..(Size - 1) -> Entry]
  BY MassAssumption DEF TypeInv, RingTypes, OnePlace
<1>1. OnePlace'
  BY DEF Complete, OnePlace, place, InPosthandle
<1>2. UNCHANGED <<reg, c>> /\ ring' = [ring EXCEPT ![enq] = [c |-> pcs, code |-> code]]
  BY DEF Complete, place
<1>3. (enq + 1) % Size = IF enq + 1 = Size THEN 0 ELSE enq + 1
  BY <1>0, Z3
<1>4. enq' = (IF enq + 1 = Size THEN 0 ELSE enq + 1) /\ enq' # reg
      /\ pcs' = IF enq + 1 = Size THEN 1 - pcs ELSE pcs
  BY <1>3 DEF Complete
<1>5. pcs = IF reg <= enq THEN c ELSE 1 - c
  BY DEF Cycles
<1>6. pcs' = IF reg' <= enq' THEN c' ELSE 1 - c'
  BY <1>0, <1>2, <1>4, <1>5
<1>7. ASSUME NEW i \in 0..(Size - 1)
      PROVE  Pending(i)' <=> ring'[i].c = IF i >= reg' THEN c' ELSE 1 - c'
  <2>1. ring[i].c \in {0, 1}
    BY <1>0 DEF Entry
  <2>2. Pending(i) <=> ring[i].c = IF i >= reg THEN c ELSE 1 - c
    BY DEF Cycles
  <2>3. ring'[i].c = IF i = enq THEN pcs ELSE ring[i].c
    BY <1>0, <1>2
  <2> QED
    BY <1>0, <1>2, <1>4, <1>5, <2>1, <2>2, <2>3 DEF Pending
<1> QED
  BY <1>1, <1>6, <1>7 DEF Cycles

LEMMA IInvInit == Init => IInv
<1> SUFFICES ASSUME Init PROVE IInv
  OBVIOUS
<1>1. TypeInv
  BY TypeInit
<1>2. OnePlace /\ Cycles
  BY MassAssumption DEF Init, OnePlace, Cycles, Pending, InPosthandle
<1> QED
  BY <1>1, <1>2 DEF IInv

LEMMA IInvStep == IInv /\ [Next]_vars => IInv'
<1> SUFFICES ASSUME IInv, [Next]_vars PROVE IInv'
  OBVIOUS
<1>1. TypeInv /\ TypeInv'
  BY TypeStep DEF IInv
<1>2. ASSUME ~lost' PROVE OnePlace' /\ Cycles'
  <2>1. CASE UNCHANGED <<place, ring, enq, pcs>>
             /\ ~lost /\ \A t \in Task : InPosthandle(t)' => InPosthandle(t)
    BY <2>1 DEF IInv, OnePlace, Cycles, Pending, place
  <2>2. CASE (\E t \in Task : Enter(t)) /\ UNCHANGED events
    <3>1. PICK t \in Task : Enter(t)
      BY <2>2
    <3>2. ~lost /\ UNCHANGED <<reg, eri, c, ring, enq, pcs>>
      BY <1>2, <2>2, <3>1 DEF Enter, events
    <3>3. pc' = [pc EXCEPT ![t] = "loop"] /\ erdp' = [erdp EXCEPT ![t] = reg]
      BY <3>1 DEF Enter
    <3>4. \A o \in Task : InPosthandle(o)' => o = t
      BY <1>1, <1>2, <3>1, <3>3 DEF Enter, InPosthandle, TypeInv, UserTypes
    <3>5. erdp'[t] = reg'
      BY <1>1, <3>2, <3>3 DEF TypeInv, RingTypes
    <3> QED
      BY <3>2, <3>4, <3>5 DEF IInv, OnePlace, Cycles, Pending
  <2>3. CASE \E t \in Task : Take(t)
    <3>1. ~lost
      BY <2>3 DEF Take, Due, At, CanRun
    <3> QED
      BY <1>1, <2>3, <3>1, TakeSteps DEF IInv
  <2>4. CASE \E code \in {"ok", "stall"} : Complete(code)
    <3>1. ~lost
      BY <2>4 DEF Complete
    <3> QED
      BY <1>1, <2>4, <3>1, CompleteSteps DEF IInv
  <2> QED
    BY <1>1, <1>2, <2>1, <2>2, <2>3, <2>4, Movers
<1> QED
  BY <1>1, <1>2 DEF IInv

\* EventsOnce of every instance: mass.cpp's completions are taken once and in
\* order (xhci.cpp:439-531), on every lap and with any number of tasks.
THEOREM EventsTakenOnce == Spec => []EventsOnce
<1>1. IInv => EventsOnce
  BY DEF IInv, TypeInv, DriverTypes, UserTypes, RingTypes, DeviceTypes, OnePlace, Cycles,
         EventsOnce, TypeOK
<1> QED
  BY IInvInit, IInvStep, <1>1, PTL DEF Spec

-------------------------------------------------------------------------------
(* Mass implements SectorDisk: what a transfer under way promises           *)

Following(i) == IF i + 1 = Size THEN 0 ELSE i + 1
NoEvent == enq = reg
OneEvent == enq = Following(reg)
Handling == \E t \in Task : pc[t] = "comp"
NoneQueued == outq = <<>> /\ inq = <<>> /\ ctlq = <<>>

\* The transfer that each phase waits for
Wanted == \/ phase \in {0, 9} /\ ctlq = <<"reset">> /\ outq = <<>> /\ inq = <<>>
          \/ phase = 1 /\ ctlq = <<"maxlun">> /\ outq = <<>> /\ inq = <<>>
          \/ phase \in {10, 11} /\ ctlq = <<"clear">> /\ outq = <<>> /\ inq = <<>>
          \/ phase \in {2, 5} /\ outq = <<Trb("cbw")>> /\ inq = <<>> /\ ctlq = <<>>
          \/ phase = 3 /\ inq = <<Trb("data")>> /\ outq = <<>> /\ ctlq = <<>>
          \/ phase \in {4, 7} /\ inq = <<Trb("csw")>> /\ outq = <<>> /\ ctlq = <<>>
          \/ phase = 6 /\ cbw.op = "write" /\ outq = <<DataTrb>> /\ inq = <<>> /\ ctlq = <<>>
          \/ phase = 6 /\ cbw.op # "write" /\ inq = <<DataTrb>> /\ outq = <<>> /\ ctlq = <<>>

Accepted == stage = "data" /\ dcmd.op = cbw.op /\ dcmd.lba = cbw.lba

\* The command of task t has done what it is for.
DoneFor(t) == IF step[t] = "read" THEN buf[t] = BlockAt(disk, BlockOf(job[t].sector))
              ELSE disk[Reached(job[t].sector)] = job[t].value
Done == \A t \in Task : job[t] # NoJob => DoneFor(t)

\* Where the device is before it has carried out the transfer of a phase ...
Before == /\ phase \in {0, 1, 2, 5, 9, 10, 11} => stage = "idle"
          /\ phase \in {3, 6} => Accepted
          /\ phase \in {4, 7} => stage = "status"
          /\ phase = 7 => (dcmd.ok => Done)

\* ... and behind it.
After == /\ phase \in {0, 1, 4, 7, 9, 10, 11} => stage = "idle"
         /\ phase \in {2, 5} => Accepted
         /\ phase \in {3, 6} => stage = "status"
         /\ phase = 6 => (dcmd.ok => Done)
         /\ phase = 7 => (csw = "ok" => Done)

\* There is one transfer: asked for, or ended and not yet seen to, or none.
Asking == Wanted /\ NoEvent /\ ~Handling /\ Before
Answered == /\ NoneQueued /\ phase # 8
            /\ \/ OneEvent /\ ~Handling /\ (ring[reg].code = "stall" \/ After)
               \/ NoEvent /\ Handling /\ After
Over == /\ NoneQueued /\ NoEvent /\ ~Handling
        /\ phase = 8 => stage = "idle" /\ Done

\* One call at a time, and the command is the one it asked for.
Calls == /\ \A t, o \in Task : job[t] # NoJob /\ job[o] # NoJob => t = o
         /\ \A t \in Task : pc[t] = "out" => job[t] = NoJob
         /\ \A t \in Task : pc[t] \in {"poll", "hlt"} => job[t] # NoJob
         /\ \A t \in Task : pc[t] = "hlt" => phase = 8
         /\ \A t \in Task : job[t] # NoJob => phase \in 5..11
         /\ ready = "no" <=> phase \in 0..4
         /\ phase \in 2..4 => cbw.op = "capacity"
         /\ phase \in {5, 6, 7, 9, 10, 11} =>
              /\ job[tb] # NoJob
              /\ cbw = [op |-> step[tb], lba |-> BlockOf(job[tb].sector)]

\* The buffer of a write: the block, but for the sector that is written.
Merged == \A t \in Task : job[t] # NoJob /\ step[t] = "write" =>
            /\ job[t].op = "write"
            /\ buf[t] = [i \in 0..(Per - 1) |->
                           IF i = Offset(job[t].sector) THEN job[t].value
                           ELSE disk[BlockOf(job[t].sector) * Per + i]]

Transfer == Asking \/ Answered \/ Over

\* The sectors of the calls, as long as none was behind the reach of 32 bits.
Near == ~far => \A t \in Task : job[t] # NoJob => job[t].sector < Wrap

DInv == /\ IInv /\ Near
        /\ ~lost /\ ~failed => Transfer /\ Calls /\ Merged

\* What is known while nothing is lost and no command has failed.
Sound == TypeInv /\ OnePlace /\ Cycles /\ Transfer /\ Calls /\ Merged

LEMMA DataSteady ==
  ASSUME UNCHANGED <<job, step, buf, disk>>
  PROVE  /\ Done' <=> Done
         /\ Merged' <=> Merged
  BY DEF Done, DoneFor, Merged, BlockAt

\* A step that changes neither the driver nor the device nor the events.
LEMMA Steady ==
  ASSUME Transfer, UNCHANGED <<phase, cbw, tb, outq, inq, ctlq, csw, ring, enq, reg, stage, dcmd>>,
         Handling' <=> Handling, Done => Done'
  PROVE  Transfer'
<1>1. UNCHANGED <<Wanted, Accepted, NoneQueued, NoEvent, OneEvent>>
  BY DEF Wanted, Accepted, NoneQueued, NoEvent, OneEvent, Following, DataTrb
<1>2. (Before => Before') /\ (After => After')
  BY <1>1 DEF Before, After
<1> QED
  BY <1>1, <1>2 DEF Transfer, Asking, Answered, Over

LEMMA PlacesSound ==
  ASSUME Sound, NEW t \in Task, Leave(t) \/ Poll(t) \/ (t = Main /\ KernelPost), ~lost'
  PROVE  Transfer' /\ Calls' /\ Merged'
<1>1. UNCHANGED <<driver, user, events, device>> /\ reg' = reg
  BY DEF Leave, Poll, KernelPost, Enter, place
<1>2. Merged' /\ (Done => Done')
  BY <1>1, DataSteady DEF user, device, Sound
<1>3. /\ pc[t] # "comp"
      /\ \/ pc' = [pc EXCEPT ![t] = "loop"] /\ (job[t] # NoJob \/ t = Main)
         \/ pc' = [pc EXCEPT ![t] = "out"] /\ job[t] = NoJob
         \/ pc' = [pc EXCEPT ![t] = "hlt"] /\ job[t] # NoJob /\ phase = 8
  <2>1. CASE Leave(t)
    BY <2>1 DEF Leave, At, Enter
  <2>2. CASE Poll(t)
    BY <2>2 DEF Poll, At, Enter, Sound, Calls
  <2>3. CASE t = Main /\ KernelPost
    BY <2>3 DEF KernelPost, At, Enter
  <2> QED
    BY <2>1, <2>2, <2>3
<1>4. pc \in [Task -> {"out", "poll", "loop", "comp", "hlt"}]
  BY DEF Sound, TypeInv, UserTypes
<1>5. Handling' <=> Handling
  BY <1>3, <1>4 DEF Handling
<1>6. Transfer'
  BY <1>1, <1>2, <1>5, Steady DEF Sound, driver, user, events, device
<1>7. Calls'
  BY <1>1, <1>3, <1>4 DEF Sound, Calls, driver, user
<1> QED
  BY <1>2, <1>6, <1>7

LEMMA TakeSound == ASSUME Sound, NEW t \in Task, Take(t)
                   PROVE  Transfer' /\ Calls' /\ Merged'
<1>1. UNCHANGED <<driver, user, events, device>>
  BY DEF Take
<1>2. Merged' /\ (Done <=> Done')
  BY <1>1, DataSteady DEF user, device, Sound
<1>3. erdp[t] = reg /\ reg = eri /\ reg # enq /\ pc[t] = "loop"
  BY DuePending DEF Take, Due, At, Sound
<1>4. pc \in [Task -> {"out", "poll", "loop", "comp", "hlt"}] /\ reg \in 0..(Size - 1)
      /\ erdp \in [Task -> 0..Size] /\ Size \in Nat
  BY <1>3, MassAssumption DEF Sound, TypeInv, UserTypes, RingTypes
<1>5. reg' = Following(reg)
  BY <1>3, <1>4 DEF Take, Advance, Following
<1>6. NoneQueued /\ phase # 8 /\ OneEvent /\ ~Handling /\ (ring[reg].code = "stall" \/ After)
  BY <1>3 DEF Sound, Transfer, Asking, Answered, Over, NoEvent
<1>7. NoneQueued' /\ NoEvent' /\ phase' # 8
  BY <1>1, <1>5, <1>6 DEF NoneQueued, NoEvent, OneEvent, driver, events
<1>8. Transfer'
  <2>1. CASE ring[reg].code = "stall"
    <3>1. pc' = [pc EXCEPT ![t] = "loop"]
      BY <1>3, <2>1 DEF Take
    <3>2. ~Handling'
      BY <1>4, <1>6, <3>1 DEF Handling
    <3> QED
      BY <1>7, <3>2 DEF Transfer, Over
  <2>2. CASE ring[reg].code # "stall"
    <3>1. pc' = [pc EXCEPT ![t] = "comp"]
      BY <1>3, <2>2 DEF Take
    <3>2. Handling'
      BY <1>4, <3>1 DEF Handling
    <3>3. After'
      BY <1>1, <1>2, <1>6, <2>2 DEF After, Accepted, driver, device
    <3> QED
      BY <1>7, <3>2, <3>3 DEF Transfer, Answered
  <2> QED
    BY <2>1, <2>2
<1>9. Calls'
  BY <1>1, <1>3, <1>4 DEF Take, Sound, Calls, driver, user
<1> QED
  BY <1>2, <1>8, <1>9

\* comp() is called for the transfer that its phase waits for.
LEMMA Called == ASSUME Sound, NEW t \in Task, pc[t] = "comp"
                PROVE  /\ NoneQueued /\ NoEvent /\ Handling /\ phase # 8 /\ After
                       /\ \A o \in Task : pc[o] = "comp" => o = t
<1>1. Handling
  BY DEF Handling
<1>2. \A o \in Task : pc[o] = "comp" => o = t
  BY DEF Sound, OnePlace, InPosthandle
<1> QED
  BY <1>1, <1>2 DEF Sound, Transfer, Asking, Answered, Over

LEMMA HandlerSound == ASSUME Sound, NEW t \in Task, HandlerStep(t), ~lost', ~failed'
                      PROVE  Transfer' /\ Calls' /\ Merged'
<1>1. pc[t] = "comp" /\ Handled(t) /\ tb' = tb /\ csw' = csw
  BY DEF HandlerStep, CompStart, CompAnnounce, CompCommand, CompData, CompStatus, CompReset,
         Comp, At
<1>2. /\ NoneQueued /\ NoEvent /\ After /\ phase # 8
      /\ \A o \in Task : pc[o] = "comp" => o = t
  BY <1>1, Called
<1>3. UNCHANGED <<user, place, events, device>> /\ pc' = [pc EXCEPT ![t] = "loop"]
  BY <1>1 DEF Handled
<1>4. Merged' /\ (Done <=> Done')
  BY <1>3, DataSteady DEF user, device, Sound
<1>5. pc \in [Task -> {"out", "poll", "loop", "comp", "hlt"}]
  BY DEF Sound, TypeInv, UserTypes
<1>6. ~Handling' /\ NoEvent'
  BY <1>2, <1>3, <1>5 DEF Handling, NoEvent, place, events
<1>7. outq = <<>> /\ inq = <<>> /\ ctlq = <<>>
  BY <1>2 DEF NoneQueued
<1>8. \A r : Append(<<>>, r) = <<r>>
  OBVIOUS
<1>9. Calls
  BY DEF Sound
<1>b. phase \in 0..11
  BY DEF Sound, TypeInv, DriverTypes
<1>a. ASSUME phase' \in 0..11,
             phase \in 0..4 => \/ phase' \in 0..4 /\ ready' = ready
                               \/ phase' = 8 /\ ready' # "no",
             phase \notin 0..4 => phase' \in 5..11 /\ ready' = ready,
             cbw' = cbw \/ (phase' \in 0..4 /\ cbw'.op = "capacity"),
             phase' \in 2..4 => phase \in 2..4 \/ cbw'.op = "capacity"
      PROVE  Calls'
  BY <1>1, <1>2, <1>3, <1>5, <1>9, <1>a, <1>b DEF Calls, user
<1>c. CASE CompStart(t)
  <2>1. Calls'
    <3>1. phase \in 0..3 /\ phase' = phase + 1 /\ ready' = ready
      BY <1>c DEF CompStart, Comp
    <3>2. phase # 1 => cbw' = cbw
      BY <1>c DEF CompStart, Comp
    <3>3. phase = 1 => cbw'.op = "capacity"
      BY <1>c DEF CompStart, Comp
    <3> QED
      BY <3>1, <3>2, <3>3, <1>a
  <2>2. Wanted'
    BY <1>7, <1>8, <1>c DEF CompStart, Wanted, Comp
  <2>3. Before'
    <3>1. CASE phase \in {0, 1}
      BY <3>1, <1>2, <1>3, <1>c DEF CompStart, Comp, Before, After, device
    <3>2. CASE phase \in {2, 3}
      BY <3>2, <1>2, <1>3, <1>c DEF CompStart, Comp, Before, After, Accepted, device
    <3> QED
      BY <3>1, <3>2, <1>c DEF CompStart, Comp
  <2> QED
    BY <1>4, <1>6, <2>1, <2>2, <2>3 DEF Transfer, Asking
<1>d. CASE CompAnnounce(t)
  <2>1. phase = 4 /\ phase' = 8 /\ ready' = "told" /\ UNCHANGED <<cbw, inq, outq, ctlq>>
    BY <1>d DEF CompAnnounce, Comp
  <2>2. Calls'
    BY <2>1, <1>a
  <2>3. Done
    BY <1>9, <2>1 DEF Calls, Done
  <2>4. stage = "idle" /\ stage' = stage
    BY <1>2, <1>3, <2>1 DEF After, device
  <2> QED
    BY <1>4, <1>6, <1>7, <2>1, <2>2, <2>3, <2>4 DEF Transfer, Over, NoneQueued
<1>e. CASE CompCommand(t)
  <2>1. phase = 5 /\ phase' = 6 /\ ready' = ready /\ cbw' = cbw
    BY <1>e DEF CompCommand, Comp
  <2>2. Calls'
    BY <2>1, <1>a
  <2>3. Wanted'
    BY <1>1, <1>7, <1>8, <1>e DEF CompCommand, Comp, Wanted, DataTrb
  <2>4. Before'
    BY <1>2, <1>3, <2>1 DEF Before, After, Accepted, device
  <2> QED
    BY <1>4, <1>6, <2>2, <2>3, <2>4 DEF Transfer, Asking
<1>f. CASE CompData(t)
  <2>1. phase = 6 /\ phase' = 7 /\ ready' = ready /\ cbw' = cbw
    BY <1>f DEF CompData, Comp
  <2>2. Calls'
    BY <2>1, <1>a
  <2>3. Wanted'
    BY <1>7, <1>8, <1>f DEF CompData, Comp, Wanted
  <2>4. Before'
    BY <1>2, <1>3, <1>4, <2>1 DEF Before, After, device
  <2> QED
    BY <1>4, <1>6, <2>2, <2>3, <2>4 DEF Transfer, Asking
<1>g. CASE CompStatus(t)
  <2>1. phase = 7 /\ phase' \in {8, 9} /\ ready' = ready /\ cbw' = cbw
        /\ UNCHANGED <<outq, inq>>
    BY <1>g DEF CompStatus, Comp
  <2>2. Calls'
    BY <2>1, <1>a
  <2>3. stage' = "idle" /\ (csw = "ok" => Done')
    BY <1>2, <1>3, <1>4, <2>1 DEF After, device
  <2>4. CASE csw = "bad"
    <3>1. Wanted'
      BY <1>7, <1>8, <1>g, <2>1, <2>4 DEF CompStatus, Wanted
    <3>2. Before'
      BY <1>g, <2>3, <2>4 DEF CompStatus, Before
    <3> QED
      BY <1>4, <1>6, <2>2, <3>1, <3>2 DEF Transfer, Asking
  <2>5. CASE csw # "bad"
    <3>1. phase' = 8 /\ ctlq' = ctlq /\ csw # "failed"
      BY <1>g, <2>5 DEF CompStatus
    <3>2. csw = "ok"
      BY <2>5, <3>1 DEF Sound, TypeInv, DriverTypes
    <3> QED
      BY <1>4, <1>6, <1>7, <2>1, <2>2, <2>3, <3>1, <3>2 DEF Transfer, Over, NoneQueued
  <2> QED
    BY <2>4, <2>5
<1>h. CASE CompReset(t)
  <2>1. phase \in 9..11 /\ phase' = (IF phase = 11 THEN 5 ELSE phase + 1)
        /\ ready' = ready /\ cbw' = cbw /\ inq' = inq
    BY <1>h DEF CompReset, Comp
  <2>2. Calls'
    BY <2>1, <1>a
  <2>3. Wanted'
    BY <1>7, <1>8, <1>h, <2>1 DEF CompReset, Wanted
  <2>4. Before'
    BY <1>2, <1>3, <2>1 DEF Before, After, device
  <2> QED
    BY <1>4, <1>6, <2>2, <2>3, <2>4 DEF Transfer, Asking
<1> QED
  BY <1>c, <1>d, <1>e, <1>f, <1>g, <1>h DEF HandlerStep

\* A command begins when the one before is over.
LEMMA CommandSound ==
  ASSUME Sound, NEW t \in Task, NEW op \in {"read", "write"}, NEW s \in Sector,
         phase = 8, pc[t] \in {"out", "hlt"}, Command(t, op, s),
         UNCHANGED <<place, events, device>>
  PROVE  Transfer'
<1>1. NoneQueued /\ NoEvent /\ ~Handling /\ stage = "idle"
  BY DEF Sound, Transfer, Asking, Wanted, Answered, Over
<1>2. outq' = <<Trb("cbw")>> /\ inq' = <<>> /\ ctlq' = <<>> /\ phase' = 5
  BY <1>1 DEF Command, NoneQueued
<1>3. ~Handling'
  BY <1>1 DEF Handling, Command, Sound, TypeInv, UserTypes
<1>4. NoEvent' /\ stage' = "idle"
  BY <1>1 DEF NoEvent, place, events, device
<1>5. Wanted'
  BY <1>2 DEF Wanted
<1>6. Before'
  BY <1>2, <1>4 DEF Before
<1> QED
  BY <1>3, <1>4, <1>5, <1>6 DEF Transfer, Asking

LEMMA BeginSound == ASSUME Sound, NEW t \in Task, NEW j \in Job, Begin(t, j), ~lost'
                    PROVE  Transfer' /\ Calls' /\ Merged' /\ \A o \in Task : job[o] = NoJob
<1>1. /\ pc[t] = "out" /\ ready = "yes" /\ ready' = ready
      /\ job' = [job EXCEPT ![t] = j] /\ step' = [step EXCEPT ![t] = "read"]
      /\ \A o \in Task \ {t} : job[o] = NoJob
      /\ Command(t, "read", j.sector) /\ UNCHANGED <<place, events, device>>
  BY DEF Begin, At, Command
<1>2. \A o \in Task : job[o] = NoJob
  BY <1>1 DEF Sound, Calls
<1>3. phase = 8
  <2>1. phase \in 0..11 /\ phase \notin 0..4
    BY <1>1 DEF Sound, Calls, TypeInv, DriverTypes
  <2>2. phase \notin {5, 6, 7, 9, 10, 11}
    BY <1>2 DEF Sound, Calls, TypeInv, Asked
  <2> QED
    BY <2>1, <2>2
<1>4. j.sector \in Sector /\ j # NoJob
  BY Jobs
<1>5. Transfer'
  BY <1>1, <1>3, <1>4, CommandSound
<1>6. /\ job \in [Task -> Job \cup {NoJob}] /\ step \in [Task -> {"read", "write"}]
      /\ pc \in [Task -> {"out", "poll", "loop", "comp", "hlt"}]
  BY DEF Sound, TypeInv, UserTypes
<1>7. Merged'
  BY <1>1, <1>2, <1>6 DEF Merged
<1>8. /\ phase' = 5 /\ tb' = t /\ cbw' = [op |-> "read", lba |-> BlockOf(j.sector)]
      /\ pc' = [pc EXCEPT ![t] = "poll"]
  BY <1>1 DEF Command
<1>9. Calls'
  BY <1>1, <1>2, <1>3, <1>4, <1>6, <1>8 DEF Sound, Calls
<1> QED
  BY <1>2, <1>5, <1>7, <1>9

\* At hlt the command of the caller has been carried out.
LEMMA AtHlt == ASSUME Sound, NEW t \in Task, pc[t] = "hlt"
               PROVE  /\ phase = 8 /\ DoneFor(t) /\ job[t] \in Job
                      /\ Over
                      /\ \A o \in Task : job[o] # NoJob => o = t
<1>1. phase = 8 /\ job[t] # NoJob /\ \A o \in Task : job[o] # NoJob => o = t
  BY DEF Sound, Calls
<1>2. Over
  BY <1>1 DEF Sound, Transfer, Asking, Wanted, Answered
<1>3. job[t] \in Job
  BY <1>1 DEF Sound, TypeInv, UserTypes
<1> QED
  BY <1>1, <1>2, <1>3 DEF Over, Done

LEMMA ModifySound == ASSUME Sound, NEW t \in Task, Modify(t)
                     PROVE  Transfer' /\ Calls' /\ Merged'
<1>1. /\ pc[t] = "hlt" /\ job[t].op = "write" /\ step[t] = "read" /\ ready' = ready
      /\ buf' = [buf EXCEPT ![t][Offset(job[t].sector)] = job[t].value]
      /\ step' = [step EXCEPT ![t] = "write"]
      /\ Command(t, "write", job[t].sector) /\ UNCHANGED <<job, place, events, device>>
  BY DEF Modify, At, Command
<1>2. /\ phase = 8 /\ DoneFor(t) /\ job[t] \in Job
      /\ \A o \in Task : job[o] # NoJob => o = t
  BY <1>1, AtHlt
<1>3. job[t].sector \in Sector /\ job[t] # NoJob
  BY <1>2, Jobs
<1>4. Transfer'
  BY <1>1, <1>2, <1>3, CommandSound
<1>5. /\ buf \in [Task -> Contents] /\ step \in [Task -> {"read", "write"}]
      /\ pc \in [Task -> {"out", "poll", "loop", "comp", "hlt"}]
  BY DEF Sound, TypeInv, UserTypes
<1>6. buf[t] = BlockAt(disk, BlockOf(job[t].sector))
  BY <1>1, <1>2 DEF DoneFor
<1>7. buf'[t] = [i \in 0..(Per - 1) |->
                   IF i = Offset(job[t].sector) THEN job[t].value
                   ELSE disk[BlockOf(job[t].sector) * Per + i]]
  BY <1>1, <1>5, <1>6 DEF BlockAt
<1>8. Merged'
  <2> SUFFICES ASSUME NEW o \in Task, job'[o] # NoJob
               PROVE  /\ job'[o].op = "write"
                      /\ buf'[o] = [i \in 0..(Per - 1) |->
                                      IF i = Offset(job'[o].sector) THEN job'[o].value
                                      ELSE disk'[BlockOf(job'[o].sector) * Per + i]]
    BY DEF Merged
  <2>1. o = t /\ job' = job /\ disk' = disk
    BY <1>1, <1>2 DEF device
  <2> QED
    BY <1>1, <1>7, <2>1
<1>9. /\ phase' = 5 /\ tb' = t /\ cbw' = [op |-> "write", lba |-> BlockOf(job[t].sector)]
      /\ pc' = [pc EXCEPT ![t] = "poll"]
  BY <1>1 DEF Command
<1>a. Calls'
  BY <1>1, <1>2, <1>3, <1>5, <1>9 DEF Sound, Calls
<1> QED
  BY <1>4, <1>8, <1>a

LEMMA EndSound == ASSUME Sound, NEW t \in Task, EndRead(t) \/ EndWrite(t)
                  PROVE  Transfer' /\ Calls' /\ Merged'
<1>1. /\ pc[t] = "hlt" /\ job' = [job EXCEPT ![t] = NoJob] /\ pc' = [pc EXCEPT ![t] = "out"]
      /\ UNCHANGED <<driver, step, buf, place, events, device>>
  BY DEF EndRead, EndWrite, At
<1>2. Over /\ \A o \in Task : job[o] # NoJob => o = t
  BY <1>1, AtHlt
<1>3. /\ job \in [Task -> Job \cup {NoJob}]
      /\ pc \in [Task -> {"out", "poll", "loop", "comp", "hlt"}]
  BY DEF Sound, TypeInv, UserTypes
<1>4. \A o \in Task : job'[o] = NoJob
  BY <1>1, <1>2, <1>3
<1>5. Done' /\ Merged'
  BY <1>4 DEF Done, Merged
<1>6. ~Handling'
  BY <1>1, <1>2, <1>3 DEF Over, Handling
<1>7. Transfer'
  BY <1>1, <1>2, <1>5, <1>6 DEF Transfer, Over, NoneQueued, NoEvent, driver, place, events, device
<1>8. phase = 8 /\ UNCHANGED <<phase, ready>>
  BY <1>1, AtHlt DEF driver
<1>9. Calls'
  BY <1>1, <1>3, <1>4, <1>8 DEF Sound, Calls
<1> QED
  BY <1>5, <1>7, <1>9

\* A transfer is carried out only when it is asked for.
LEMMA AskedFor == ASSUME Sound, outq # <<>> \/ inq # <<>> \/ ctlq # <<>>
                  PROVE  Asking
  BY DEF Sound, Transfer, Answered, Over, NoneQueued

LEMMA CompleteSound ==
  ASSUME Sound, Asking, NEW code \in {"ok", "stall"}, Complete(code), NoneQueued',
         code = "stall" \/ After'
  PROVE  Transfer' /\ Calls'
<1>1. Size \in Nat /\ Size > 1 /\ enq \in 0..(Size - 1) /\ enq = reg
      /\ ring \in [0..(Size - 1) -> Entry]
  BY MassAssumption DEF Sound, TypeInv, RingTypes, Asking, NoEvent
<1>2. (enq + 1) % Size = Following(enq)
  <2>1. (enq + 1) % Size = IF enq + 1 = Size THEN 0 ELSE enq + 1
    BY <1>1, Z3
  <2> QED
    BY <2>1 DEF Following
<1>3. reg' = reg /\ OneEvent' /\ ring'[reg].code = code
  BY <1>1, <1>2 DEF Complete, OneEvent, Following, place
<1>4. ~Handling'
  BY DEF Complete, Handling, Asking
<1>5. phase' # 8
  BY DEF Complete, Asking, Wanted
<1>6. Transfer'
  BY <1>3, <1>4, <1>5 DEF Transfer, Answered
<1>7. Calls'
  BY DEF Sound, Calls, Complete
<1> QED
  BY <1>6, <1>7

\* A write changes the sector it is for and no other.
LEMMA WriteApplies ==
  ASSUME Sound, DeviceWrites
  PROVE  /\ Asking /\ phase = 6 /\ cbw.op = "write" /\ tb \in Task /\ job[tb] \in Job
         /\ step[tb] = "write" /\ job[tb].op = "write"
         /\ disk' = IF dcmd.ok THEN [disk EXCEPT ![Reached(job[tb].sector)] = job[tb].value] ELSE disk
<1>1. Asking
  BY AskedFor DEF DeviceWrites
<1>2. Head(outq).what = "data" /\ outq # <<>>
  BY DEF DeviceWrites
<1>3. Trb("cbw").what = "cbw" /\ \A r : Head(<<r>>) = r
  BY DEF Trb
<1>4. phase = 6 /\ cbw.op = "write" /\ outq = <<DataTrb>>
  BY <1>1, <1>2, <1>3 DEF Asking, Wanted
<1>5. tb \in Task /\ job[tb] # NoJob
      /\ cbw = [op |-> step[tb], lba |-> BlockOf(job[tb].sector)]
  BY <1>4 DEF Sound, TypeInv, Asked, Calls
<1>6. job[tb] \in Job /\ step[tb] = "write"
  BY <1>4, <1>5 DEF Sound, TypeInv, UserTypes
<1>7. job[tb].op = "write"
      /\ buf[tb] = [i \in 0..(Per - 1) |->
                      IF i = Offset(job[tb].sector) THEN job[tb].value
                      ELSE disk[BlockOf(job[tb].sector) * Per + i]]
  BY <1>5, <1>6 DEF Sound, Merged
<1>8. Head(outq).buf = tb
  BY <1>3, <1>4 DEF DataTrb
<1>9. dcmd.lba = BlockOf(job[tb].sector)
  BY <1>1, <1>4, <1>5 DEF Asking, Before, Accepted
<1>a. job[tb].sector \in Sector /\ disk \in [Sector -> Value]
  BY <1>6, Jobs DEF Sound, TypeInv, DeviceTypes
<1>b. disk' = [s \in Sector |-> IF dcmd.ok /\ s \div Per = BlockOf(job[tb].sector)
                                THEN buf[tb][s % Per] ELSE disk[s]]
  BY <1>8, <1>9 DEF DeviceWrites
<1>c. ASSUME NEW s \in Sector, s \div Per = BlockOf(job[tb].sector)
      PROVE  buf[tb][s % Per] = IF s = Reached(job[tb].sector) THEN job[tb].value ELSE disk[s]
  <2>1. /\ s % Per \in 0..(Per - 1) /\ s = (s \div Per) * Per + (s % Per)
        /\ Reached(job[tb].sector) = BlockOf(job[tb].sector) * Per + Offset(job[tb].sector)
        /\ BlockOf(job[tb].sector) \in BlockNo /\ Offset(job[tb].sector) \in 0..(Per - 1)
    BY <1>a, Sectors, Exact
  <2>2. s = Reached(job[tb].sector) <=> s % Per = Offset(job[tb].sector)
    BY <1>c, <2>1, Exact
  <2>3. disk[BlockOf(job[tb].sector) * Per + (s % Per)] = disk[s]
    BY <1>c, <2>1
  <2> QED
    BY <1>7, <2>1, <2>2, <2>3
<1>f. Reached(job[tb].sector) \in Sector
  BY <1>a, Sectors
<1>g. Reached(job[tb].sector) \div Per = BlockOf(job[tb].sector)
  BY DEF BlockOf
<1>d. ASSUME dcmd.ok PROVE disk' = [disk EXCEPT ![Reached(job[tb].sector)] = job[tb].value]
  <2>1. \A s \in Sector : (IF dcmd.ok /\ s \div Per = BlockOf(job[tb].sector)
                            THEN buf[tb][s % Per] ELSE disk[s])
                         = IF s = Reached(job[tb].sector) THEN job[tb].value ELSE disk[s]
    <3>1. ASSUME NEW s \in Sector, s \div Per = BlockOf(job[tb].sector)
          PROVE  buf[tb][s % Per] = IF s = Reached(job[tb].sector) THEN job[tb].value ELSE disk[s]
      BY <3>1, <1>c
    <3>2. ASSUME NEW s \in Sector, s \div Per # BlockOf(job[tb].sector)
          PROVE  s # Reached(job[tb].sector)
      BY <3>2, <1>g
    <3> QED
      BY <1>d, <3>1, <3>2, Zenon
  <2>2. disk' = [s \in Sector |-> IF s = Reached(job[tb].sector) THEN job[tb].value ELSE disk[s]]
    BY <1>b, <2>1
  <2> QED
    BY <1>a, <1>d, <1>f, <2>2
<1>e. ASSUME ~dcmd.ok PROVE disk' = disk
  <2>1. \A s \in Sector : (IF dcmd.ok /\ s \div Per = BlockOf(job[tb].sector)
                            THEN buf[tb][s % Per] ELSE disk[s]) = disk[s]
    BY <1>e
  <2>2. disk' = [s \in Sector |-> disk[s]]
    BY <1>b, <2>1
  <2> QED
    BY <1>a, <1>e, <2>2
<1> QED
  BY <1>1, <1>4, <1>5, <1>6, <1>7, <1>d, <1>e

LEMMA WritesSound == ASSUME Sound, DeviceWrites
                     PROVE  Transfer' /\ Calls' /\ Merged'
<1>1. /\ Asking /\ phase = 6 /\ tb \in Task /\ job[tb] \in Job
      /\ step[tb] = "write" /\ job[tb].op = "write"
      /\ disk' = IF dcmd.ok THEN [disk EXCEPT ![Reached(job[tb].sector)] = job[tb].value] ELSE disk
  BY WriteApplies
<1>2. Complete("ok") /\ stage' = "status" /\ UNCHANGED <<inq, ctlq, csw, buf, dcmd>>
      /\ outq' = Tail(outq) /\ outq # <<>>
  BY DEF DeviceWrites
<1>3. UNCHANGED <<phase, cbw, tb, job, step>>
  BY <1>2 DEF Complete
<1>4. \A r : Tail(<<r>>) = <<>>
  OBVIOUS
<1>5. NoneQueued'
  BY <1>1, <1>2, <1>4 DEF Asking, Wanted, NoneQueued
<1>6. \A o \in Task : job[o] # NoJob => o = tb
  BY <1>1, Jobs DEF Sound, Calls
<1>7. /\ job[tb].sector \in Sector /\ Reached(job[tb].sector) \in Sector
      /\ disk \in [Sector -> Value]
  BY <1>1, Jobs, Sectors DEF Sound, TypeInv, DeviceTypes
<1>8. dcmd.ok => Done'
  BY <1>1, <1>3, <1>6, <1>7 DEF Done, DoneFor
<1>9. After'
  BY <1>1, <1>2, <1>3, <1>8 DEF After
<1>a. Merged'
  <2>1. ASSUME NEW i \in 0..(Per - 1), i # Offset(job[tb].sector)
        PROVE  disk'[BlockOf(job[tb].sector) * Per + i] = disk[BlockOf(job[tb].sector) * Per + i]
    <3>1. /\ BlockOf(job[tb].sector) * Per + i \in Sector
          /\ Reached(job[tb].sector) = BlockOf(job[tb].sector) * Per + Offset(job[tb].sector)
          /\ Offset(job[tb].sector) \in 0..(Per - 1) /\ BlockOf(job[tb].sector) \in BlockNo
      BY <1>7, Sectors, Exact
    <3>2. BlockOf(job[tb].sector) * Per + i # Reached(job[tb].sector)
      BY <2>1, <3>1, Exact
    <3> QED
      BY <1>1, <1>7, <3>1, <3>2
  <2>2. buf[tb] = [i \in 0..(Per - 1) |->
                      IF i = Offset(job[tb].sector) THEN job[tb].value
                      ELSE disk[BlockOf(job[tb].sector) * Per + i]]
    BY <1>1, Jobs DEF Sound, Merged
  <2>3. buf[tb] = [i \in 0..(Per - 1) |->
                      IF i = Offset(job[tb].sector) THEN job[tb].value
                      ELSE disk'[BlockOf(job[tb].sector) * Per + i]]
    BY <2>1, <2>2
  <2> SUFFICES ASSUME NEW o \in Task, job'[o] # NoJob
               PROVE  /\ job'[o].op = "write"
                      /\ buf'[o] = [i \in 0..(Per - 1) |->
                                      IF i = Offset(job'[o].sector) THEN job'[o].value
                                      ELSE disk'[BlockOf(job'[o].sector) * Per + i]]
    BY DEF Merged
  <2>4. o = tb /\ job' = job /\ buf' = buf
    BY <1>2, <1>3, <1>6
  <2> QED
    BY <1>1, <2>3, <2>4
<1> QED
  BY <1>1, <1>2, <1>5, <1>9, <1>a, CompleteSound

LEMMA SendsSound == ASSUME Sound, DeviceSends
                    PROVE  Transfer' /\ Calls' /\ Merged'
<1>1. Asking
  BY AskedFor DEF DeviceSends
<1>2. Complete("ok") /\ stage = "data" /\ stage' = "status" /\ UNCHANGED <<outq, ctlq, csw, dcmd, disk>>
      /\ inq' = Tail(inq) /\ inq # <<>>
  BY DEF DeviceSends
<1>3. UNCHANGED <<phase, cbw, tb, job, step>>
  BY <1>2 DEF Complete
<1>4. phase \in {3, 6} /\ (phase = 6 => inq = <<DataTrb>>) /\ (phase = 3 => inq = <<Trb("data")>>)
      /\ outq = <<>> /\ ctlq = <<>>
  BY <1>1, <1>2 DEF Asking, Wanted, Before
<1>5. \A r : Tail(<<r>>) = <<>> /\ Head(<<r>>) = r
  OBVIOUS
<1>6. NoneQueued'
  BY <1>2, <1>4, <1>5 DEF NoneQueued
<1>7. dcmd.op = cbw.op /\ dcmd.lba = cbw.lba
  BY <1>1, <1>4 DEF Asking, Before, Accepted
<1>8. CASE phase = 3 \/ ~dcmd.ok
  <2>1. buf' = buf
    <3>1. CASE phase = 3
      <4>1. dcmd.op = "capacity"
        BY <1>7, <3>1 DEF Sound, Calls
      <4> QED
        BY <4>1 DEF DeviceSends
    <3>2. CASE ~dcmd.ok
      BY <3>2 DEF DeviceSends
    <3> QED
      BY <1>8, <3>1, <3>2
  <2>2. Merged'
    BY <1>2, <1>3, <2>1, DataSteady DEF Sound
  <2>3. After'
    BY <1>2, <1>3, <1>4, <1>8 DEF After
  <2> QED
    BY <1>1, <1>2, <1>6, <2>2, <2>3, CompleteSound
<1>9. CASE phase = 6 /\ dcmd.ok
  <2>1. tb \in Task /\ job[tb] # NoJob
        /\ cbw = [op |-> step[tb], lba |-> BlockOf(job[tb].sector)]
    BY <1>9 DEF Sound, TypeInv, Asked, Calls
  <2>2. step[tb] = "read" /\ dcmd.op = "read" /\ dcmd.lba = BlockOf(job[tb].sector)
    BY <1>7, <2>1 DEF DeviceSends, Sound, TypeInv, UserTypes
  <2>3. Head(inq).buf = tb /\ tb # NoTask
    BY <1>4, <1>5, <1>9, <2>1, MassAssumption DEF DataTrb
  <2>4. buf' = [buf EXCEPT ![tb] = [i \in 0..(Per - 1) |-> disk[dcmd.lba * Per + i]]]
    BY <1>9, <2>2, <2>3 DEF DeviceSends
  <2>5. \A o \in Task : job[o] # NoJob => o = tb
    BY <2>1 DEF Sound, Calls
  <2>6. buf'[tb] = BlockAt(disk', BlockOf(job'[tb].sector))
    BY <1>2, <1>3, <2>1, <2>2, <2>4 DEF BlockAt, Sound, TypeInv, UserTypes
  <2>7. Done'
    BY <1>3, <2>2, <2>5, <2>6 DEF Done, DoneFor
  <2>8. Merged'
    BY <1>3, <2>2, <2>5 DEF Merged
  <2>9. After'
    BY <1>2, <1>3, <1>4, <2>7 DEF After
  <2> QED
    BY <1>1, <1>2, <1>6, <2>8, <2>9, CompleteSound
<1> QED
  BY <1>4, <1>8, <1>9

LEMMA DeviceSound ==
  ASSUME Sound, DeviceCommand \/ DeviceStatus \/ DeviceControl \/ DeviceStalls
  PROVE  Transfer' /\ Calls' /\ Merged'
<1>1. Asking
  BY AskedFor DEF DeviceCommand, DeviceStatus, DeviceControl, DeviceStalls
<1>2. \E code \in {"ok", "stall"} : Complete(code)
  BY DEF DeviceCommand, DeviceStatus, DeviceControl, DeviceStalls
<1>3. UNCHANGED <<phase, cbw, tb, job, step>>
  BY <1>2 DEF Complete
<1>4. UNCHANGED <<buf, disk>>
  BY DEF DeviceCommand, DeviceStatus, DeviceControl, DeviceStalls, device
<1>5. Merged' /\ (Done <=> Done')
  BY <1>3, <1>4, DataSteady DEF Sound
<1>6. \A r : Tail(<<r>>) = <<>> /\ Head(<<r>>) = r
  OBVIOUS
<1>7. NoneQueued'
  <2>1. \/ outq # <<>> /\ outq' = Tail(outq) /\ UNCHANGED <<inq, ctlq>>
        \/ inq # <<>> /\ inq' = Tail(inq) /\ UNCHANGED <<outq, ctlq>>
        \/ ctlq # <<>> /\ ctlq' = Tail(ctlq) /\ UNCHANGED <<outq, inq>>
    BY DEF DeviceCommand, DeviceStatus, DeviceControl, DeviceStalls
  <2> QED
    BY <1>1, <1>6, <2>1 DEF Asking, Wanted, NoneQueued
<1>8. CASE DeviceStalls
  <2>1. Complete("stall")
    BY <1>8 DEF DeviceStalls
  <2> QED
    BY <1>1, <1>5, <1>7, <2>1, CompleteSound
<1>9. CASE DeviceCommand
  <2>1. Complete("ok") /\ outq # <<>> /\ Head(outq).what = "cbw" /\ stage' = "data"
        /\ dcmd'.op = cbw.op /\ dcmd'.lba = cbw.lba
    BY <1>9 DEF DeviceCommand
  <2>2. phase \in {2, 5}
    BY <1>1, <1>6, <2>1 DEF Asking, Wanted, DataTrb
  <2>3. After'
    BY <1>3, <2>1, <2>2 DEF After, Accepted
  <2> QED
    BY <1>1, <1>5, <1>7, <2>1, <2>3, CompleteSound
<1>a. CASE DeviceStatus
  <2>1. Complete("ok") /\ inq # <<>> /\ stage = "status" /\ stage' = "idle" /\ dcmd' = dcmd
        /\ (csw' = "ok" => dcmd.ok)
    BY <1>a DEF DeviceStatus
  <2>2. phase \in {4, 7}
    BY <1>1, <2>1 DEF Asking, Wanted, Before, Accepted
  <2>3. After'
    BY <1>1, <1>3, <1>5, <2>1, <2>2 DEF After, Asking, Before
  <2> QED
    BY <1>1, <1>5, <1>7, <2>1, <2>3, CompleteSound
<1>b. CASE DeviceControl
  <2>1. Complete("ok") /\ ctlq # <<>> /\ stage' \in {"idle", stage}
    BY <1>b DEF DeviceControl
  <2>2. phase \in {0, 1, 9, 10, 11}
    BY <1>1, <2>1 DEF Asking, Wanted
  <2>3. After'
    BY <1>1, <1>3, <2>1, <2>2 DEF After, Asking, Before
  <2> QED
    BY <1>1, <1>5, <1>7, <2>1, <2>3, CompleteSound
<1> QED
  BY <1>8, <1>9, <1>a, <1>b

LEMMA DInvInit == Init => DInv
<1> SUFFICES ASSUME Init PROVE DInv
  OBVIOUS
<1>1. Asking
  BY DEF Init, Asking, Wanted, NoEvent, Handling, Before
<1>2. Calls /\ Merged /\ Near
  BY DEF Init, Calls, Merged, Near
<1> QED
  BY <1>1, <1>2, IInvInit DEF DInv, Transfer

LEMMA Lasting == ASSUME [Next]_vars
                 PROVE  (lost => lost') /\ (failed => failed') /\ (far => far')
<1>1. CASE UNCHANGED vars
  BY <1>1 DEF vars, history, flags, begun
<1>2. CASE \E t \in Task : TaskStep(t)
  <2>1. PICK t \in Task : TaskStep(t)
    BY <1>2
  <2>2. CASE Take(t) \/ EndRead(t) \/ Modify(t) \/ EndWrite(t)
    BY <2>2 DEF Take, EndRead, Modify, EndWrite, history, flags, begun
  <2>3. CASE Leave(t) \/ Poll(t)
    <3>1. failed' = failed /\ far' = far /\ (lost' = lost \/ Enter(t))
      BY <2>3 DEF Leave, Poll, flags, begun
    <3>2. CASE Enter(t)
      BY <3>1, <3>2 DEF Enter
    <3>3. CASE lost' = lost
      BY <3>1, <3>3
    <3> QED
      BY <3>1, <3>2, <3>3
  <2>4. CASE HandlerStep(t)
    <3>0. far' = far
      <4>1. Handled(t)
        BY <2>4 DEF HandlerStep, CompStart, CompAnnounce, CompCommand, CompData, CompStatus,
                    CompReset
      <4> QED
        BY <4>1 DEF Handled, begun
    <3>1. CASE CompStart(t) \/ CompCommand(t) \/ CompData(t) \/ CompReset(t)
      <4>1. UNCHANGED <<failed, lost>>
        BY <3>1 DEF CompStart, CompCommand, CompData, CompReset, flags
      <4> QED
        BY <3>0, <4>1
    <3>2. CASE CompAnnounce(t)
      BY <3>0, <3>2 DEF CompAnnounce, flags
    <3>3. CASE CompStatus(t)
      <4>1. lost' = lost /\ (failed => failed')
        BY <3>3 DEF CompStatus
      <4> QED
        BY <3>0, <4>1
    <3> QED
      BY <2>4, <3>1, <3>2, <3>3 DEF HandlerStep
  <2> QED
    BY <2>1, <2>2, <2>3, <2>4 DEF TaskStep
<1>3. CASE KernelPost \/ Register \/ \E t \in Task, j \in Job : Begin(t, j)
  <2>1. CASE KernelPost
    BY <2>1 DEF KernelPost, Enter, flags, begun
  <2>2. CASE Register
    BY <2>2 DEF Register, history, flags, begun
  <2>3. CASE \E t \in Task, j \in Job : Begin(t, j)
    <3>1. PICK t \in Task, j \in Job : /\ lost' = (lost \/ \E o \in Task \ {t} : job[o] # NoJob)
                                       /\ far' = (far \/ j.sector >= Wrap)
                                       /\ failed' = failed
      BY <2>3 DEF Begin, flags
    <3> QED
      BY <3>1
  <2> QED
    BY <1>3, <2>1, <2>2, <2>3
<1>4. CASE DeviceStep \/ DeviceStalls
  BY <1>4 DEF DeviceStep, DeviceCommand, DeviceWrites, DeviceSends, DeviceStatus, DeviceControl,
              DeviceStalls, Complete, begun
<1> QED
  BY <1>1, <1>2, <1>3, <1>4 DEF Next

\* A step changes the sector of no call, and a new one is near or counts as far.
LEMMA NearStep == ASSUME TypeInv, Near, [Next]_vars PROVE Near'
<1>0. job \in [Task -> Job \cup {NoJob}]
  BY DEF TypeInv, UserTypes
<1>1. CASE \E t \in Task, j \in Job : Begin(t, j)
  <2>1. PICK t \in Task, j \in Job : Begin(t, j)
    BY <1>1
  <2>2. job' = [job EXCEPT ![t] = j] /\ far' = (far \/ j.sector >= Wrap)
    BY <2>1 DEF Begin
  <2>3. j.sector \in Int /\ Wrap \in Int
    BY Jobs, MassAssumption DEF Sector
  <2> SUFFICES ASSUME ~far', NEW o \in Task, job'[o] # NoJob PROVE job'[o].sector < Wrap
    BY DEF Near
  <2>4. ~far /\ ~(j.sector >= Wrap)
    BY <2>2, Zenon
  <2>7. j.sector < Wrap
    BY <2>3, <2>4
  <2>5. CASE o = t
    BY <1>0, <2>2, <2>5, <2>7
  <2>6. CASE o # t
    <3>1. job'[o] = job[o]
      BY <1>0, <2>2, <2>6
    <3> QED
      BY <2>4, <3>1 DEF Near
  <2> QED
    BY <2>5, <2>6
<1>2. CASE \E t \in Task : EndRead(t) \/ EndWrite(t)
  <2>1. PICK t \in Task : job' = [job EXCEPT ![t] = NoJob] /\ far' = far
    BY <1>2 DEF EndRead, EndWrite, history, begun
  <2>2. \A o \in Task : job'[o] # NoJob => job'[o] = job[o]
    BY <1>0, <2>1
  <2> QED
    BY <2>1, <2>2 DEF Near
<1>3. CASE job' = job /\ far' = far
  BY <1>3 DEF Near
<1>4. \/ \E t \in Task, j \in Job : Begin(t, j)
      \/ \E t \in Task : EndRead(t) \/ EndWrite(t)
      \/ job' = job /\ far' = far
  <2>1. CASE \E t \in Task : HandlerStep(t)
    <3>1. PICK t \in Task : Handled(t)
      BY <2>1 DEF HandlerStep, CompStart, CompAnnounce, CompCommand, CompData, CompStatus,
                  CompReset
    <3> QED
      BY <3>1 DEF Handled, user, begun
  <2>2. CASE \E t \in Task : Take(t) \/ Leave(t) \/ Poll(t) \/ Modify(t)
    BY <2>2 DEF Take, Leave, Poll, Modify, user, history, begun
  <2>3. CASE KernelPost \/ Register \/ UNCHANGED vars
    BY <2>3 DEF KernelPost, Register, vars, user, history, begun
  <2>4. CASE DeviceStep \/ DeviceStalls
    <3>1. \E code \in {"ok", "stall"} : Complete(code)
      BY <2>4 DEF DeviceStep, DeviceCommand, DeviceWrites, DeviceSends, DeviceStatus,
                  DeviceControl, DeviceStalls
    <3> QED
      BY <3>1 DEF Complete, begun
  <2> QED
    BY <2>1, <2>2, <2>3, <2>4 DEF Next, TaskStep
<1> QED
  BY <1>1, <1>2, <1>3, <1>4

LEMMA DInvStep == DInv /\ [Next]_vars => DInv'
<1> SUFFICES ASSUME DInv, [Next]_vars PROVE DInv'
  OBVIOUS
<1>1. IInv' /\ Near'
  BY IInvStep, NearStep DEF DInv, IInv
<1>2. ASSUME ~lost', ~failed' PROVE Transfer' /\ Calls' /\ Merged'
  <2>1. ~lost /\ ~failed
    BY <1>2, Lasting
  <2>2. Sound
    BY <2>1 DEF DInv, IInv, Sound
  <2>3. CASE UNCHANGED vars
    <3>1. UNCHANGED <<Handling, Done, Merged>>
      BY <2>3 DEF vars, user, device, Handling, Done, DoneFor, Merged, BlockAt
    <3>2. Transfer'
      BY <2>2, <2>3, <3>1, Steady DEF Sound, vars, driver, events, place, device
    <3>3. Calls'
      BY <2>2, <2>3 DEF Sound, Calls, vars, driver, user
    <3> QED
      BY <2>2, <3>1, <3>2, <3>3 DEF Sound
  <2>4. CASE \E t \in Task : TaskStep(t)
    BY <1>2, <2>2, <2>4, TakeSound, PlacesSound, HandlerSound, ModifySound, EndSound DEF TaskStep
  <2>5. CASE KernelPost
    <3>1. Main \in Task
      BY DEF Task
    <3> QED
      BY <1>2, <2>2, <2>5, <3>1, PlacesSound
  <2>6. CASE Register
    <3>1. UNCHANGED <<phase, cbw, tb, outq, inq, ctlq, csw, job, step, buf, pc, reg, ring, enq, stage, dcmd, disk>>
      BY <2>6 DEF Register, user, place, events, device, queues
    <3>2. UNCHANGED Handling /\ (Done <=> Done') /\ Merged'
      BY <2>2, <3>1, DataSteady DEF Handling, Sound
    <3>3. Transfer'
      BY <2>2, <3>1, <3>2, Steady DEF Sound
    <3>4. ready = "told" /\ ready' = "yes"
      BY <2>6 DEF Register
    <3>5. Calls'
      BY <2>2, <3>1, <3>4 DEF Sound, Calls
    <3> QED
      BY <3>2, <3>3, <3>5
  <2>7. CASE \E t \in Task, j \in Job : Begin(t, j)
    BY <1>2, <2>2, <2>7, BeginSound
  <2>8. CASE DeviceStep \/ DeviceStalls
    BY <2>2, <2>8, WritesSound, SendsSound, DeviceSound DEF DeviceStep
  <2> QED
    BY <2>3, <2>4, <2>5, <2>6, <2>7, <2>8 DEF Next
<1> QED
  BY <1>1, <1>2 DEF DInv

-------------------------------------------------------------------------------
(* The refinement, step by step *)

\* The mapping of the call and of what spoils.
Mapped == IF \E t \in Task : job[t] # NoJob
          THEN job[CHOOSE t \in Task : job[t] # NoJob] ELSE NoJob
Spoiled == failed \/ far \/ lost

LEMMA MappedIs == /\ (\A t \in Task : job[t] = NoJob) => Mapped = NoJob
                  /\ \A t \in Task : /\ job[t] # NoJob
                                     /\ \A o \in Task : job[o] # NoJob => o = t
                                     => Mapped = job[t]
<1> SUFFICES ASSUME NEW t \in Task, job[t] # NoJob, \A o \in Task : job[o] # NoJob => o = t
             PROVE  Mapped = job[t]
  BY DEF Mapped
<1>1. (CHOOSE o \in Task : job[o] # NoJob) = t
  OBVIOUS
<1> QED
  BY <1>1 DEF Mapped

DiskStep == [SectorDisk!Next]_<<disk, Mapped, result, Spoiled>>

LEMMA BeginMapped == ASSUME Sound, NEW t \in Task, NEW j \in Job, Begin(t, j), ~Spoiled', ~Spoiled
                     PROVE  SectorDisk!Begin(j)
<1>0. ~lost' /\ ~far'
  BY DEF Spoiled
<1>1. \A o \in Task : job[o] = NoJob
  BY <1>0, BeginSound
<1>2. job' = [job EXCEPT ![t] = j] /\ j # NoJob /\ job \in [Task -> Job \cup {NoJob}]
  BY Jobs DEF Begin, Sound, TypeInv, UserTypes
<1>3. job'[t] = j /\ \A o \in Task : job'[o] # NoJob => o = t
  BY <1>1, <1>2
<1>4. Mapped = NoJob
  BY <1>1, MappedIs
<1>5. Mapped' = j
  <2>1. (CHOOSE o \in Task : job'[o] # NoJob) = t
    BY <1>2, <1>3
  <2> QED
    BY <1>2, <1>3, <2>1 DEF Mapped
<1>6. UNCHANGED <<disk, result, failed>>
  BY DEF Begin, device, flags
<1> QED
  BY <1>0, <1>4, <1>5, <1>6 DEF SectorDisk!Begin, Mapped, Spoiled

LEMMA EndMapped == ASSUME Sound, Near, ~far, NEW t \in Task, EndRead(t) \/ EndWrite(t)
                   PROVE  SectorDisk!EndRead \/ SectorDisk!EndWrite
<1>1. /\ pc[t] = "hlt" /\ job' = [job EXCEPT ![t] = NoJob]
      /\ UNCHANGED <<disk, failed, far, lost>>
  BY DEF EndRead, EndWrite, At, device, history, flags, begun
<1>2. /\ DoneFor(t) /\ job[t] \in Job
      /\ \A o \in Task : job[o] # NoJob => o = t
  BY <1>1, AtHlt
<1>3. job[t] # NoJob /\ job[t].sector \in Sector /\ job \in [Task -> Job \cup {NoJob}]
  BY <1>2, Jobs DEF Sound, TypeInv, UserTypes
<1>4. Mapped = job[t] /\ Reached(job[t].sector) = job[t].sector
  BY <1>2, <1>3, MappedIs, Sectors DEF Near
<1>5. Mapped' = NoJob
  <2>1. \A o \in Task : job'[o] = NoJob
    BY <1>1, <1>2, <1>3
  <2> QED
    BY <2>1 DEF Mapped
<1>6. CASE EndRead(t)
  <2>1. job[t].op = "read" /\ result' = buf[t][Offset(job[t].sector)]
    BY <1>6 DEF EndRead
  <2>2. step[t] = "read"
    BY <1>3, <2>1 DEF Sound, Merged, TypeInv, UserTypes
  <2>3. buf[t] = [i \in 0..(Per - 1) |-> disk[BlockOf(job[t].sector) * Per + i]]
    BY <1>2, <2>2 DEF DoneFor, BlockAt
  <2>4. result' = disk[job[t].sector]
    BY <1>3, <1>4, <2>1, <2>3, Sectors
  <2>5. SectorDisk!EndRead
    BY <1>1, <1>3, <1>4, <1>5, <2>1, <2>4 DEF SectorDisk!EndRead, Mapped, Spoiled
  <2> QED
    BY <2>5
<1>7. CASE EndWrite(t)
  <2>1. job[t].op = "write" /\ step[t] = "write" /\ result' = result
    BY <1>7 DEF EndWrite
  <2>2. disk[job[t].sector] = job[t].value
    BY <1>2, <1>4, <2>1 DEF DoneFor
  <2>3. SectorDisk!EndWrite
    BY <1>1, <1>3, <1>4, <1>5, <2>1, <2>2 DEF SectorDisk!EndWrite, Mapped, Spoiled
  <2> QED
    BY <2>3
<1> QED
  BY <1>6, <1>7

LEMMA WritesMapped == ASSUME Sound, Near, ~far, DeviceWrites
                      PROVE  SectorDisk!Apply \/ UNCHANGED <<disk, Mapped, result, Spoiled>>
<1>1. /\ tb \in Task /\ job[tb] \in Job /\ job[tb].op = "write"
      /\ disk' = IF dcmd.ok THEN [disk EXCEPT ![Reached(job[tb].sector)] = job[tb].value] ELSE disk
  BY WriteApplies
<1>2. Complete("ok") /\ stalled' = stalled
  BY DEF DeviceWrites
<1>3. UNCHANGED <<job, result, failed, far, lost>>
  BY <1>2 DEF Complete, begun
<1>4. UNCHANGED <<Mapped, Spoiled, result>>
  BY <1>3 DEF Mapped, Spoiled
<1>5. job[tb] # NoJob /\ \A o \in Task : job[o] # NoJob => o = tb
  BY <1>1, Jobs DEF Sound, Calls
<1>6. Mapped = job[tb] /\ Reached(job[tb].sector) = job[tb].sector
  BY <1>1, <1>5, MappedIs, Jobs, Sectors DEF Near
<1>7. CASE dcmd.ok
  BY <1>1, <1>4, <1>5, <1>6, <1>7 DEF SectorDisk!Apply, Mapped, Spoiled
<1>8. CASE ~dcmd.ok
  BY <1>1, <1>4, <1>8
<1> QED
  BY <1>7, <1>8

LEMMA StepMapped == DInv /\ [Next]_vars => DiskStep
<1> SUFFICES ASSUME DInv, [Next]_vars PROVE DiskStep
  OBVIOUS
<1>1. CASE Spoiled
  <2>1. Spoiled'
    BY <1>1, Lasting DEF Spoiled
  <2> QED
    BY <1>1, <2>1 DEF DiskStep, SectorDisk!Next, Spoiled
<1>2. CASE ~Spoiled /\ Spoiled'
  BY <1>2 DEF DiskStep, SectorDisk!Next, SectorDisk!Spoil, Spoiled
<1>3. CASE ~Spoiled /\ ~Spoiled'
  <2>1. Sound /\ Near /\ ~lost /\ ~failed /\ ~far /\ ~lost' /\ ~failed'
    BY <1>3 DEF DInv, IInv, Sound, Spoiled
  <2>2. CASE UNCHANGED <<disk, job, result>>
    <3>1. UNCHANGED <<disk, Mapped, result, Spoiled>>
      BY <1>3, <2>2 DEF Mapped, Spoiled
    <3> QED
      BY <3>1 DEF DiskStep
  <2>3. CASE \E t \in Task, j \in Job : Begin(t, j)
    <3>1. PICK t \in Task, j \in Job : Begin(t, j)
      BY <2>3
    <3>2. SectorDisk!Begin(j)
      BY <1>3, <2>1, <3>1, BeginMapped
    <3>3. j \in SectorDisk!Call
      BY DEF Job, SectorDisk!Call
    <3> QED
      BY <3>2, <3>3 DEF DiskStep, SectorDisk!Next
  <2>4. CASE \E t \in Task : EndRead(t) \/ EndWrite(t)
    BY <2>1, <2>4, EndMapped DEF DiskStep, SectorDisk!Next
  <2>5. CASE DeviceWrites
    BY <2>1, <2>5, WritesMapped DEF DiskStep, SectorDisk!Next
  <2>6. \/ UNCHANGED <<disk, job, result>>
        \/ \E t \in Task, j \in Job : Begin(t, j)
        \/ \E t \in Task : EndRead(t) \/ EndWrite(t)
        \/ DeviceWrites
    <3>1. CASE \E t \in Task : HandlerStep(t)
      <4>1. PICK t \in Task : HandlerStep(t)
        BY <3>1
      <4>2. Handled(t)
        BY <4>1 DEF HandlerStep, CompStart, CompAnnounce, CompCommand, CompData, CompStatus,
                    CompReset
      <4> QED
        BY <4>2 DEF Handled, user, device
    <3>2. CASE \E t \in Task : Take(t) \/ Leave(t) \/ Poll(t) \/ Modify(t)
      BY <3>2 DEF Take, Leave, Poll, Modify, user, device
    <3>3. CASE KernelPost \/ Register
      BY <3>3 DEF KernelPost, Register, user, device
    <3>4. CASE DeviceCommand \/ DeviceSends \/ DeviceStatus \/ DeviceControl \/ DeviceStalls
      <4>1. disk' = disk /\ \E code \in {"ok", "stall"} : Complete(code)
        BY <3>4 DEF DeviceCommand, DeviceSends, DeviceStatus, DeviceControl, DeviceStalls, device
      <4> QED
        BY <4>1 DEF Complete
    <3>5. CASE UNCHANGED vars
      BY <3>5 DEF vars, user, device
    <3> QED
      BY <3>1, <3>2, <3>3, <3>4, <3>5 DEF Next, TaskStep, DeviceStep
  <2> QED
    BY <2>2, <2>3, <2>4, <2>5, <2>6
<1> QED
  BY <1>1, <1>2, <1>3

\* ImplementsDisk of every instance: for blocks of any size and any number of
\* tasks, mass.cpp and usbdrv's read and write are a disk of sectors, as long as
\* no command fails, one call is under way at a time, and none is for a sector
\* whose first byte 32 bits cannot number.  That bound, Wrap, is in the code's
\* arithmetic: a call behind it reaches another sector.
THEOREM DiskImplemented == Spec => ImplementsDisk
<1>1. Init => SectorDisk!Init
  <2> SUFFICES ASSUME Init PROVE SectorDisk!Init
    OBVIOUS
  <2>1. disk \in [Sector -> Value] /\ result \in Value
    BY MassAssumption DEF Init
  <2>2. Mapped = NoJob /\ ~failed /\ ~far /\ ~lost
    BY DEF Init, Mapped
  <2> QED
    BY <2>1, <2>2 DEF SectorDisk!Init, Mapped
<1>2. DInv /\ [Next]_vars => [SectorDisk!Next]_<<disk, Mapped, result, Spoiled>>
  BY StepMapped DEF DiskStep
<1> QED
  BY DInvInit, DInvStep, <1>1, <1>2, PTL DEF Spec, ImplementsDisk, SectorDisk!Spec, Mapped, Spoiled
===============================================================================
