------------------------------ MODULE XhciProofs ------------------------------
(***************************************************************************)
(* Proofs about Ports, for any number of ports, slots and plugged devices, *)
(* and about Ring, for every size of the ring, every set of requests and   *)
(* transfers of any length.                                                *)
(*                                                                         *)
(* Ports: what a handler may rely on is what the commands and events under *)
(* way say.  TurnInv: the port being addressed is known to one of them     *)
(* only, or to nobody yet while it is being reset.  SlotInv: what a        *)
(* command for a slot says of the slot, its context and its device.        *)
(* EventInv: what the completion of Disable Slot finds, behind the         *)
(* transfers before it.                                                    *)
(*                                                                         *)
(* Ring: where the driver is in its transfer (Calls), and what it leaves   *)
(* in the entries of this lap and of the lap before (Laps).                *)
(***************************************************************************)
EXTENDS Ports, Ring, FiniteSetTheorems, SequenceTheorems, TLAPS


Cmd(i, t) == i \in DOMAIN cmds /\ cmds[i].type = t
Ev(i, t) == i \in DOMAIN evq /\ evq[i].kind = "cmd" /\ evq[i].type = t

\* The command or the event that carries the port being addressed.
CmdTurn(i) == Cmd(i, "enable") \/ Cmd(i, "address")
EvTurn(i) == Ev(i, "enable") \/ Ev(i, "address")
AddressCmd(i, s, p) == Cmd(i, "address") /\ cmds[i].slot = s /\ cmds[i].port = p
AddressEv(i) == Ev(i, "address")
EnabledEv(i, s) == Ev(i, "enable") /\ evq[i].slot = s

\* What takes slot s down, before and after it is disabled.
DownCmd(i, s) == /\ Cmd(i, "deconfigure") \/ Cmd(i, "disable")
                 /\ cmds[i].slot = s
DownEv(i, s) == Ev(i, "deconfigure") /\ evq[i].slot = s
GoneEv(i, s) == Ev(i, "disable") /\ evq[i].slot = s

XferEv(i, s) == i \in DOMAIN evq /\ evq[i].kind = "transfer" /\ evq[i].slot = s

TurnInv ==
  /\ \A i, j : CmdTurn(i) /\ CmdTurn(j) => i = j
  /\ \A i, j : EvTurn(i) /\ EvTurn(j) => i = j
  /\ \A i, j : ~(CmdTurn(i) /\ EvTurn(j))
  /\ \A i : CmdTurn(i) \/ EvTurn(i) => /\ addrport # 0
                                       /\ \A p \in Port : phase[p] # "resetting"
  /\ \A p \in Port : phase[p] = "resetting" => addrport = p
  /\ \A i, s, p : AddressCmd(i, s, p) =>
       p = addrport /\ slotport[s] = p /\ slotphase[s] = "addressing"

\* Each slot is taken down by one thing at a time.
DownOnce ==
  /\ \A s, i, j : DownCmd(i, s) /\ DownCmd(j, s) => i = j
  /\ \A s, i, j : DownEv(i, s) /\ DownEv(j, s) => i = j
  /\ \A s, i, j : GoneEv(i, s) /\ GoneEv(j, s) => i = j
  /\ \A s, i, j : ~(DownCmd(i, s) /\ DownEv(j, s))
  /\ \A s, i, j : ~(DownCmd(i, s) /\ GoneEv(j, s))
  /\ \A s, i, j : ~(DownEv(i, s) /\ GoneEv(j, s))

DownInv ==
  /\ \A s, i : DownCmd(i, s) \/ DownEv(i, s) =>
                 s \in enabled /\ s \in context /\ bound[s] = 0
  /\ \A s, i : GoneEv(i, s) => s \in Slot /\ s \in context /\ bound[s] = 0

EnabledInv ==
  \A s, i : EnabledEv(i, s) =>
    /\ s \in enabled /\ bound[s] = 0
    /\ \A j : ~DownCmd(j, s) /\ ~DownEv(j, s)
    /\ \A j : GoneEv(j, s) => j < i

AddressInv ==
  \A s, p, i : AddressCmd(i, s, p) =>
    /\ s \in enabled /\ s \in context /\ bound[s] = 0
    /\ \A j : ~DownEv(j, s) /\ ~GoneEv(j, s)
    /\ \A j : DownCmd(j, s) => i < j /\ dev[addrport] # "default"

ContextInv ==
  /\ 0 \in context
  /\ \A s \in context \ {0} : Teardown(s) \/ (s \in enabled /\ \A i : ~EnabledEv(i, s))
  /\ \A s \in Slot : bound[s] # 0 =>
       /\ s \in enabled /\ s \in context
       /\ bound[s] = slotport[s] /\ conn[bound[s]]

DefaultInv ==
  \A p \in Port : dev[p] = "default" => /\ p = addrport /\ conn[p]
                                        /\ \A i : ~AddressEv(i)

SlotInv == Orderly => /\ DownOnce /\ DownInv /\ EnabledInv /\ AddressInv
                      /\ ContextInv /\ DefaultInv

EventInv ==
  /\ \A s \in Slot : \A i : GoneEv(i, s) =>
       /\ s \notin open
       /\ s \in enabled => \E j : EnabledEv(j, s) /\ i < j
       /\ \A j : XferEv(j, s) => j < i
  /\ \A s \in open : slotphase[s] \in {"setconf", "starting"} => s \in made

IInv == PortsTypeOK /\ TurnInv /\ SlotInv /\ EventInv /\ NoDangling

-------------------------------------------------------------------------------
(* The two queues *)

LEMMA CommandTypes ==
  /\ EnableSlot \in CmdSet
  /\ \A s \in SlotOrNone : /\ DisableSlot(s) \in CmdSet
                           /\ ConfigureEndpoint(s, TRUE) \in CmdSet
                           /\ ConfigureEndpoint(s, FALSE) \in CmdSet
                           /\ \A p \in 0..MaxPort : AddressDevice(s, p) \in CmdSet
BY SizesAssumption DEF CmdSet, CmdType, SlotOrNone, EnableSlot, AddressDevice,
                       ConfigureEndpoint, DisableSlot

LEMMA EventTypes ==
  ASSUME NEW p \in Port, NEW t \in CmdType, NEW s \in SlotOrNone,
         NEW u \in Slot, NEW ok \in BOOLEAN
  PROVE  {PortEvent(p), CmdEvent(t, s), TransferEvent(u, ok)} \subseteq EventSet
BY DEF EventSet, PortEvent, CmdEvent, TransferEvent

\* What appending and taking do, for any queue.
LEMMA AppendFacts ==
  ASSUME NEW S, NEW q \in Seq(S), NEW e \in S, NEW r, r = Append(q, e)
  PROVE  /\ r \in Seq(S) /\ Len(q) \in Nat
         /\ DOMAIN q = 1..Len(q) /\ DOMAIN r = 1..(Len(q) + 1)
         /\ \A i \in DOMAIN q : r[i] = q[i]
         /\ r[Len(q) + 1] = e
OBVIOUS

LEMMA TailFacts ==
  ASSUME NEW S, NEW q \in Seq(S), q # <<>>, NEW r, r = Tail(q)
  PROVE  /\ r \in Seq(S) /\ Len(q) \in Nat \ {0}
         /\ DOMAIN q = 1..Len(q) /\ DOMAIN r = 1..(Len(q) - 1)
         /\ Len(r) = Len(q) - 1
         /\ Head(q) = q[1] /\ Head(q) \in S
         /\ \A i \in DOMAIN r : r[i] = q[i + 1]
OBVIOUS

LEMMA SeqFacts ==
  ASSUME NEW S, NEW q \in Seq(S), NEW T, S \subseteq T
  PROVE  q \in Seq(T) /\ \A i \in DOMAIN q : q[i] \in S
OBVIOUS

LEMMA CmdsAppend ==
  ASSUME PortsTypeOK, NEW cmd \in CmdSet, cmds' = Append(cmds, cmd)
  PROVE  /\ cmds' \in Seq(CmdSet) /\ Len(cmds) \in Nat
         /\ DOMAIN cmds = 1..Len(cmds) /\ DOMAIN cmds' = 1..(Len(cmds) + 1)
         /\ \A i \in DOMAIN cmds : cmds'[i] = cmds[i]
         /\ cmds'[Len(cmds) + 1] = cmd
BY AppendFacts DEF PortsTypeOK

LEMMA CmdsTail ==
  ASSUME PortsTypeOK, cmds # <<>>, cmds' = Tail(cmds)
  PROVE  /\ cmds' \in Seq(CmdSet) /\ Len(cmds) \in Nat \ {0}
         /\ DOMAIN cmds = 1..Len(cmds) /\ DOMAIN cmds' = 1..(Len(cmds) - 1)
         /\ Head(cmds) = cmds[1] /\ Head(cmds) \in CmdSet
         /\ \A i \in DOMAIN cmds' : cmds'[i] = cmds[i + 1]
BY TailFacts DEF PortsTypeOK

LEMMA EvqAppend ==
  ASSUME PortsTypeOK, NEW e \in EventSet, evq' = Append(evq, e)
  PROVE  /\ evq' \in Seq(EventSet) /\ Len(evq) \in Nat
         /\ DOMAIN evq = 1..Len(evq) /\ DOMAIN evq' = 1..(Len(evq) + 1)
         /\ \A i \in DOMAIN evq : evq'[i] = evq[i]
         /\ evq'[Len(evq) + 1] = e
BY AppendFacts DEF PortsTypeOK

LEMMA EvqTail ==
  ASSUME PortsTypeOK, evq # <<>>, evq' = Tail(evq)
  PROVE  /\ evq' \in Seq(EventSet) /\ Len(evq) \in Nat \ {0}
         /\ DOMAIN evq = 1..Len(evq) /\ DOMAIN evq' = 1..(Len(evq) - 1)
         /\ Head(evq) = evq[1] /\ Head(evq) \in EventSet
         /\ \A i \in DOMAIN evq' : evq'[i] = evq[i + 1]
BY TailFacts DEF PortsTypeOK

LEMMA EvqReset ==
  ASSUME PortsTypeOK, evq # <<>>, NEW p \in Port,
         evq' = Append(Tail(evq), PortEvent(p))
  PROVE  /\ evq' \in Seq(EventSet) /\ Len(evq) \in Nat \ {0}
         /\ DOMAIN evq = 1..Len(evq) /\ DOMAIN evq' = 1..Len(evq)
         /\ Head(evq) = evq[1] /\ Head(evq) \in EventSet
         /\ \A i \in 1..(Len(evq) - 1) : evq'[i] = evq[i + 1]
         /\ evq'[Len(evq)] = PortEvent(p)
<1> DEFINE q == Tail(evq)
<1>1. PortEvent(p) \in EventSet
  BY DEF PortEvent, EventSet
<1>2. /\ q \in Seq(EventSet) /\ Len(evq) \in Nat \ {0}
      /\ DOMAIN evq = 1..Len(evq) /\ DOMAIN q = 1..(Len(evq) - 1)
      /\ Len(q) = Len(evq) - 1
      /\ Head(evq) = evq[1] /\ Head(evq) \in EventSet
      /\ \A i \in DOMAIN q : q[i] = evq[i + 1]
  BY TailFacts DEF PortsTypeOK
<1>3. /\ evq' \in Seq(EventSet) /\ DOMAIN evq' = 1..(Len(q) + 1)
      /\ \A i \in DOMAIN q : evq'[i] = q[i]
      /\ evq'[Len(q) + 1] = PortEvent(p)
  <2> HIDE DEF q
  <2> QED BY <1>1, <1>2, AppendFacts DEF q
<1> QED BY <1>2, <1>3

-------------------------------------------------------------------------------
(* Types *)

LEMMA TypeHandle == PortsTypeOK /\ Handle => PortsTypeOK'
<1> SUFFICES ASSUME PortsTypeOK, Handle PROVE PortsTypeOK'
  OBVIOUS
<1> USE SizesAssumption DEF turn, slots, change, device, history,
        Done, Send, Event, Changed, Completion, Arrived
<1>1. ASSUME NEW p \in Port, PortReset(p) PROVE PortsTypeOK'
  <2>1. evq' \in Seq(EventSet)
    BY <1>1, EvqReset DEF PortReset, Reset
  <2>2. addrport' \in 0..MaxPort
    BY <1>1 DEF PortReset, Reset, Port
  <2> QED BY <1>1, <2>1, <2>2 DEF PortsTypeOK, PortReset, Reset
<1>2. ASSUME NEW p \in Port, PortWaits(p) PROVE PortsTypeOK'
  BY <1>2, EvqTail DEF PortsTypeOK, PortWaits
<1>3. ASSUME NEW p \in Port, PortEnabled(p) PROVE PortsTypeOK'
  <2>1. cmds' \in Seq(CmdSet) /\ evq' \in Seq(EventSet)
    BY <1>3, CmdsAppend, EvqTail, CommandTypes DEF PortEnabled
  <2> QED BY <1>3, <2>1 DEF PortsTypeOK, PortEnabled
<1>4. ASSUME NEW p \in Port, PortIgnored(p) PROVE PortsTypeOK'
  BY <1>4, EvqTail DEF PortsTypeOK, PortIgnored
<1>5. ASSUME NEW p \in Port, PortGone(p) PROVE PortsTypeOK'
  <2>1. ConfigureEndpoint(portslot[p], TRUE) \in CmdSet
    BY CommandTypes DEF PortsTypeOK
  <2>2. cmds' \in Seq(CmdSet) /\ evq' \in Seq(EventSet)
    BY <1>5, <2>1, CmdsAppend, EvqTail DEF PortGone
  <2>3. Owned(p) \in BOOLEAN
    BY DEF Owned
  <2> QED BY <1>5, <2>2, <2>3 DEF PortsTypeOK, PortGone
<1>6. ASSUME NEW s \in SlotOrNone, SlotEnabled(s) PROVE PortsTypeOK'
  <2>1. cmds' \in Seq(CmdSet) /\ evq' \in Seq(EventSet)
    <3>1. AddressDevice(s, addrport) \in CmdSet
      BY CommandTypes DEF PortsTypeOK
    <3> QED BY <1>6, <3>1, CmdsAppend, EvqTail DEF SlotEnabled
  <2> QED BY <1>6, <2>1 DEF PortsTypeOK, SlotEnabled
<1>7. ASSUME NEW s \in SlotOrNone, SlotAddressed(s) PROVE PortsTypeOK'
  <2>1. evq' \in Seq(EventSet)
    BY <1>7, EvqTail DEF SlotAddressed
  <2>2. xfer' \subseteq open'
    BY <1>7 DEF PortsTypeOK, SlotAddressed, Control
  <2>3. csc' \in [Port -> BOOLEAN] /\ prc' \in [Port -> BOOLEAN]
    BY <1>7 DEF PortsTypeOK, SlotAddressed
  <2>4. slotphase' \in [SlotOrNone -> {"waitreset", "addressing", "getcdesc",
                                       "setconf", "starting"}]
    BY <1>7 DEF PortsTypeOK, SlotAddressed
  <2>5. addrport' \in 0..MaxPort
    BY <1>7 DEF SlotAddressed
  <2> QED BY <1>7, <2>1, <2>2, <2>3, <2>4, <2>5 DEF PortsTypeOK, SlotAddressed
<1>8. ASSUME NEW s \in SlotOrNone, SlotConfigured(s) PROVE PortsTypeOK'
  BY <1>8, EvqTail DEF PortsTypeOK, SlotConfigured, Control
<1>9. ASSUME NEW s \in SlotOrNone, SlotDeconfigured(s) PROVE PortsTypeOK'
  <2>1. cmds' \in Seq(CmdSet) /\ evq' \in Seq(EventSet)
    <3>1. DisableSlot(s) \in CmdSet
      BY CommandTypes
    <3> QED BY <1>9, <3>1, CmdsAppend, EvqTail DEF SlotDeconfigured
  <2> QED BY <1>9, <2>1 DEF PortsTypeOK, SlotDeconfigured
<1>10. ASSUME NEW s \in SlotOrNone, SlotDisabled(s) PROVE PortsTypeOK'
  BY <1>10, EvqTail DEF PortsTypeOK, SlotDisabled
<1>11. ASSUME NEW s \in Slot, Described(s) PROVE PortsTypeOK'
  <2>1. s \in SlotOrNone
    BY DEF Slot, SlotOrNone
  <2>2. cmds' \in Seq(CmdSet) /\ evq' \in Seq(EventSet)
    <3>1. ConfigureEndpoint(s, FALSE) \in CmdSet
      BY <2>1, CommandTypes
    <3> QED BY <1>11, <3>1, CmdsAppend, EvqTail DEF Described
  <2> QED BY <1>11, <2>2 DEF PortsTypeOK, Described
<1>12. ASSUME NEW s \in Slot, NotDescribed(s) PROVE PortsTypeOK'
  BY <1>12, EvqTail DEF PortsTypeOK, NotDescribed
<1>13. ASSUME NEW s \in Slot, DriverInit(s) PROVE PortsTypeOK'
  BY <1>13, EvqTail DEF PortsTypeOK, DriverInit, Control
<1>14. ASSUME NEW s \in Slot, DriverComp(s) PROVE PortsTypeOK'
  <2>1. xfer' \subseteq open'
    BY <1>14 DEF DriverComp, Control, PortsTypeOK
  <2>2. CASE addrport = 0 /\ Waiting # {}
    <3>1. PICK p \in Port : Reset(p)
      BY <1>14, <2>2 DEF DriverComp
    <3>2. evq' \in Seq(EventSet)
      BY <1>14, <3>1, EvqReset DEF Reset, DriverComp
    <3>3. addrport' \in 0..MaxPort
      BY <3>1 DEF Reset, Port
    <3> QED BY <1>14, <2>1, <3>1, <3>2, <3>3 DEF PortsTypeOK, DriverComp, Reset
  <2>3. CASE ~(addrport = 0 /\ Waiting # {})
    <3>1. Done /\ UNCHANGED <<phase, addrport, change, dev>>
      BY <1>14, <2>3 DEF DriverComp
    <3> QED BY <1>14, <2>1, <3>1, EvqTail DEF PortsTypeOK, DriverComp
  <2> QED BY <2>2, <2>3
<1> QED BY <1>1, <1>2, <1>3, <1>4, <1>5, <1>6, <1>7, <1>8, <1>9, <1>10, <1>11,
           <1>12, <1>13, <1>14 DEF Handle

LEMMA TypeExec == PortsTypeOK /\ Exec => PortsTypeOK'
<1> SUFFICES ASSUME PortsTypeOK, Exec PROVE PortsTypeOK'
  OBVIOUS
<1> USE SizesAssumption DEF turn, slots, change, device, history, Execute, Report
<1>0. ASSUME NEW t \in CmdType, Execute(t), NEW s \in SlotOrNone, Report(t, s)
      PROVE  cmds' \in Seq(CmdSet) /\ evq' \in Seq(EventSet)
  <2>1. CmdEvent(t, s) \in EventSet
    BY DEF CmdEvent, EventSet
  <2> QED BY <1>0, <2>1, CmdsTail, EvqAppend
<1>1. ASSUME ExecEnable PROVE PortsTypeOK'
  <2>1. PICK s \in Slot \ enabled : enabled' = enabled \cup {s} /\ Report("enable", s)
    BY <1>1 DEF ExecEnable
  <2>2. s \in SlotOrNone /\ "enable" \in CmdType
    BY DEF Slot, SlotOrNone, CmdType
  <2>3. cmds' \in Seq(CmdSet) /\ evq' \in Seq(EventSet)
    BY <1>1, <1>0, <2>1, <2>2 DEF ExecEnable
  <2> QED BY <1>1, <2>1, <2>3 DEF PortsTypeOK, ExecEnable
<1>2. ASSUME ExecNoSlot PROVE PortsTypeOK'
  <2>1. 0 \in SlotOrNone /\ "enable" \in CmdType
    BY DEF SlotOrNone, CmdType
  <2>2. cmds' \in Seq(CmdSet) /\ evq' \in Seq(EventSet)
    BY <1>2, <1>0, <2>1 DEF ExecNoSlot
  <2> QED BY <1>2, <2>2 DEF PortsTypeOK, ExecNoSlot
<1>3. ASSUME ExecAddress PROVE PortsTypeOK'
  <2> DEFINE s == Head(cmds).slot
             p == Head(cmds).port
  <2>1. s \in SlotOrNone /\ p \in 0..MaxPort /\ "address" \in CmdType
    BY <1>3, CmdsTail DEF ExecAddress, CmdSet, CmdType
  <2>2. cmds' \in Seq(CmdSet) /\ evq' \in Seq(EventSet)
    BY <1>3, <1>0, <2>1 DEF ExecAddress
  <2>3. /\ dev' \in [Port -> {"none", "attached", "default", "addressed"}]
        /\ bound' \in [Slot -> 0..MaxPort]
        /\ open' \subseteq enabled /\ open \subseteq open'
    <3>1. CASE s \in enabled /\ dev[p] = "default"
      <4>1. /\ bound' = [bound EXCEPT ![s] = p] /\ open' = open \cup {s}
            /\ dev' = [dev EXCEPT ![p] = "addressed"]
        BY <1>3, <3>1 DEF ExecAddress
      <4> QED BY <2>1, <3>1, <4>1 DEF PortsTypeOK
    <3>2. CASE ~(s \in enabled /\ dev[p] = "default")
      <4>1. UNCHANGED <<bound, open, dev>>
        BY <1>3, <3>2 DEF ExecAddress
      <4> QED BY <4>1 DEF PortsTypeOK
    <3> QED BY <3>1, <3>2
  <2> QED BY <1>3, <2>2, <2>3 DEF PortsTypeOK, ExecAddress
<1>4. ASSUME ExecConfigure PROVE PortsTypeOK'
  <2>1. PICK t \in {"configure", "deconfigure"} : Execute(t) /\ Report(t, Head(cmds).slot)
    BY <1>4 DEF ExecConfigure
  <2>2. Head(cmds).slot \in SlotOrNone /\ t \in CmdType
    BY <2>1, CmdsTail DEF CmdSet, CmdType
  <2>3. cmds' \in Seq(CmdSet) /\ evq' \in Seq(EventSet)
    BY <1>0, <2>1, <2>2
  <2> QED BY <1>4, <2>1, <2>3 DEF PortsTypeOK, ExecConfigure
<1>5. ASSUME ExecDisable PROVE PortsTypeOK'
  <2> DEFINE s == Head(cmds).slot
  <2>1. s \in SlotOrNone /\ "disable" \in CmdType
    BY <1>5, CmdsTail DEF ExecDisable, CmdSet, CmdType
  <2>2. cmds' \in Seq(CmdSet) /\ evq' \in Seq(EventSet)
    BY <1>5, <1>0, <2>1 DEF ExecDisable
  <2>3. bound' \in [Slot -> 0..MaxPort]
    BY <1>5, <2>1 DEF PortsTypeOK, ExecDisable
  <2> QED BY <1>5, <2>2, <2>3 DEF PortsTypeOK, ExecDisable
<1> QED BY <1>1, <1>2, <1>3, <1>4, <1>5 DEF Exec

LEMMA TypeTransferEnds ==
  ASSUME PortsTypeOK, NEW s \in Slot, NEW ok \in BOOLEAN, TransferEnds(s, ok)
  PROVE  PortsTypeOK'
<1> USE DEF turn, slots, change, device
<1>1. evq' \in Seq(EventSet)
  <2>1. TransferEvent(s, ok) \in EventSet
    BY DEF TransferEvent, EventSet
  <2> QED BY <2>1, EvqAppend DEF TransferEnds
<1> QED BY <1>1 DEF PortsTypeOK, TransferEnds

LEMMA TypeConnection ==
  ASSUME PortsTypeOK, NEW p \in Port, Plug(p) \/ Unplug(p)
  PROVE  PortsTypeOK'
<1> USE SizesAssumption DEF turn, slots
<1>1. PICK there \in BOOLEAN : Connection(p, there)
  BY DEF Plug, Unplug
<1>2. evq' \in Seq(EventSet)
  <2>1. PortEvent(p) \in EventSet
    BY DEF PortEvent, EventSet
  <2> QED BY <1>1, <2>1, EvqAppend DEF Connection, PortsTypeOK
<1>3. plugs' \in 0..MaxPlug /\ unplugs' \in 0..MaxUnplug
  <2>1. /\ plugs \in 0..MaxPlug /\ unplugs \in 0..MaxUnplug
        /\ MaxPlug \in Nat /\ MaxUnplug \in Nat
    BY DEF PortsTypeOK
  <2>2. CASE Plug(p)
    BY <2>1, <2>2 DEF Plug
  <2>3. CASE Unplug(p)
    BY <2>1, <2>3 DEF Unplug
  <2> QED BY <2>2, <2>3
<1>4. /\ conn' \in [Port -> BOOLEAN] /\ csc' \in [Port -> BOOLEAN]
      /\ dev' \in [Port -> {"none", "attached", "default", "addressed"}]
      /\ bound' \in [Slot -> 0..MaxPort]
  BY <1>1 DEF Connection, PortsTypeOK
<1> QED BY <1>1, <1>2, <1>3, <1>4 DEF PortsTypeOK, Connection

LEMMA TypeStep == PortsTypeOK /\ [PortsNext]_portvars => PortsTypeOK'
<1> SUFFICES ASSUME PortsTypeOK, [PortsNext]_portvars PROVE PortsTypeOK'
  OBVIOUS
<1>1. CASE UNCHANGED portvars
  BY <1>1 DEF portvars, turn, slots, change, device, history, PortsTypeOK
<1> QED BY <1>1, TypeHandle, TypeExec, TypeTransferEnds, TypeConnection DEF PortsNext

-------------------------------------------------------------------------------
(* What the queues say, before and after a step *)

LEMMA Places ==
  ASSUME PortsTypeOK
  PROVE  /\ \A i : CmdTurn(i) => i \in Nat \ {0}
         /\ \A i : EvTurn(i) => i \in Nat \ {0}
         /\ \A i, s, p : AddressCmd(i, s, p) => CmdTurn(i) /\ s \in SlotOrNone
         /\ \A i, s : EnabledEv(i, s) => EvTurn(i) /\ s \in SlotOrNone
         /\ \A i : AddressEv(i) => EvTurn(i)
         /\ \A i, s : DownCmd(i, s) \/ DownEv(i, s) \/ GoneEv(i, s) =>
              i \in Nat \ {0} /\ s \in SlotOrNone
         /\ \A i, s : XferEv(i, s) => i \in Nat \ {0} /\ s \in Slot
<1>1. /\ Len(cmds) \in Nat /\ DOMAIN cmds = 1..Len(cmds)
      /\ Len(evq) \in Nat /\ DOMAIN evq = 1..Len(evq)
      /\ \A i \in DOMAIN cmds : cmds[i] \in CmdSet
      /\ \A i \in DOMAIN evq : evq[i] \in EventSet
  BY DEF PortsTypeOK
<1>2. \A i \in DOMAIN cmds : cmds[i].slot \in SlotOrNone
  BY <1>1 DEF CmdSet
<1>3. \A i \in DOMAIN evq :
        /\ evq[i].kind = "cmd" => evq[i].slot \in SlotOrNone
        /\ evq[i].kind = "transfer" => evq[i].slot \in Slot
  BY <1>1 DEF EventSet
<1> QED BY <1>1, <1>2, <1>3 DEF CmdTurn, EvTurn, AddressCmd, EnabledEv, AddressEv, DownCmd,
          DownEv, GoneEv, XferEv, Cmd, Ev

LEMMA Tearing ==
  \A s : /\ Teardown(s) <=> \E i : DownCmd(i, s) \/ DownEv(i, s) \/ GoneEv(i, s)
         /\ (Teardown(s) <=> \E i : DownCmd(i, s) \/ DownEv(i, s) \/ GoneEv(i, s))'
BY DEF Teardown, TearsDown, DownCmd, DownEv, GoneEv, Cmd, Ev

LEMMA Dangling ==
  /\ NoDangling <=>
       \A i, s : XferEv(i, s) /\ slotphase[s] \in {"setconf", "starting"} => s \in made
  /\ (NoDangling <=>
       \A i, s : XferEv(i, s) /\ slotphase[s] \in {"setconf", "starting"} => s \in made)'
BY DEF NoDangling, XferEv

\* The events have moved up by k places, and none of those that count is lost.
\* An event of a port may have been added.
EvShift(k) ==
  /\ \A i : EvTurn(i)' <=> i \in Nat \ {0} /\ EvTurn(i + k)
  /\ \A i : AddressEv(i)' <=> i \in Nat \ {0} /\ AddressEv(i + k)
  /\ \A i, s : /\ EnabledEv(i, s)' <=> i \in Nat \ {0} /\ EnabledEv(i + k, s)
               /\ DownEv(i, s)' <=> i \in Nat \ {0} /\ DownEv(i + k, s)
               /\ GoneEv(i, s)' <=> i \in Nat \ {0} /\ GoneEv(i + k, s)
               /\ XferEv(i, s)' <=> i \in Nat \ {0} /\ XferEv(i + k, s)

CmdShift(k) ==
  /\ \A i : CmdTurn(i)' <=> i \in Nat \ {0} /\ CmdTurn(i + k)
  /\ \A i, s, p : AddressCmd(i, s, p)' <=> i \in Nat \ {0} /\ AddressCmd(i + k, s, p)
  /\ \A i, s : DownCmd(i, s)' <=> i \in Nat \ {0} /\ DownCmd(i + k, s)

LEMMA EvTaken ==
  ASSUME PortsTypeOK, evq # <<>>,
         \/ evq' = Tail(evq)
         \/ \E p \in Port : evq' = Append(Tail(evq), PortEvent(p))
  PROVE  EvShift(1)
<1>1. CASE evq' = Tail(evq)
  <2> DEFINE n == Len(evq)
  <2>1. /\ n \in Nat \ {0} /\ DOMAIN evq = 1..n /\ DOMAIN evq' = 1..(n - 1)
        /\ \A i \in DOMAIN evq' : evq'[i] = evq[i + 1]
    BY <1>1, EvqTail
  <2> HIDE DEF n
  <2>2. \A i : i \in DOMAIN evq' <=> i \in Nat \ {0} /\ i + 1 \in DOMAIN evq
    BY <2>1
  <2>3. \A i, t : Ev(i, t)' <=> i \in Nat \ {0} /\ Ev(i + 1, t)
    BY <2>1, <2>2 DEF Ev
  <2>4. \A i, t : Ev(i, t)' => evq'[i] = evq[i + 1]
    BY <2>1 DEF Ev
  <2>5. \A i, s : XferEv(i, s)' <=> i \in Nat \ {0} /\ XferEv(i + 1, s)
    BY <2>1, <2>2 DEF XferEv
  <2> QED BY <2>3, <2>4, <2>5 DEF EvShift, EvTurn, AddressEv, EnabledEv, DownEv, GoneEv
<1>2. ASSUME NEW p \in Port, evq' = Append(Tail(evq), PortEvent(p)) PROVE EvShift(1)
  <2> DEFINE n == Len(evq)
  <2>1. /\ n \in Nat \ {0} /\ DOMAIN evq = 1..n /\ DOMAIN evq' = 1..n
        /\ \A i \in 1..(n - 1) : evq'[i] = evq[i + 1]
        /\ evq'[n] = PortEvent(p)
    BY <1>2, EvqReset
  <2> HIDE DEF n
  <2>2. \A i : i \in 1..(n - 1) <=> i \in Nat \ {0} /\ i + 1 \in 1..n
    BY <2>1
  <2>3. \A i \in 1..n : i \in 1..(n - 1) \/ i = n
    BY <2>1
  <2>4. \A i \in DOMAIN evq' : \/ i \in 1..(n - 1) /\ evq'[i] = evq[i + 1]
                               \/ i \notin 1..(n - 1) /\ evq'[i].kind = "port"
    BY <2>1, <2>3 DEF PortEvent
  <2>5. 1..(n - 1) \subseteq DOMAIN evq'
    BY <2>1
  <2>6. \A i, t : Ev(i, t)' <=> i \in Nat \ {0} /\ Ev(i + 1, t)
    BY <2>1, <2>2, <2>4, <2>5 DEF Ev
  <2>7. \A i, t : Ev(i, t)' => evq'[i] = evq[i + 1]
    BY <2>4 DEF Ev
  <2>8. \A i, s : XferEv(i, s)' <=> i \in Nat \ {0} /\ XferEv(i + 1, s)
    BY <2>1, <2>2, <2>4, <2>5 DEF XferEv
  <2> QED BY <2>6, <2>7, <2>8 DEF EvShift, EvTurn, AddressEv, EnabledEv, DownEv, GoneEv
<1> QED BY <1>1, <1>2

\* A new event behind the others.
LEMMA EvAdded ==
  ASSUME PortsTypeOK, NEW e \in EventSet, evq' = Append(evq, e)
  PROVE  \E n \in Nat \ {0} :
           /\ \A i : EvTurn(i)' <=>
                EvTurn(i) \/ (i = n /\ e.kind = "cmd" /\ e.type \in {"enable", "address"})
           /\ \A i : AddressEv(i)' <=>
                AddressEv(i) \/ (i = n /\ e.kind = "cmd" /\ e.type = "address")
           /\ \A i, s : EnabledEv(i, s)' <=>
                EnabledEv(i, s) \/ (i = n /\ e.kind = "cmd" /\ e.type = "enable" /\ e.slot = s)
           /\ \A i, s : DownEv(i, s)' <=>
                DownEv(i, s) \/ (i = n /\ e.kind = "cmd" /\ e.type = "deconfigure" /\ e.slot = s)
           /\ \A i, s : GoneEv(i, s)' <=>
                GoneEv(i, s) \/ (i = n /\ e.kind = "cmd" /\ e.type = "disable" /\ e.slot = s)
           /\ \A i, s : XferEv(i, s)' <=>
                XferEv(i, s) \/ (i = n /\ e.kind = "transfer" /\ e.slot = s)
           /\ \A i : EvTurn(i) => i < n
           /\ \A i, s : DownEv(i, s) \/ GoneEv(i, s) \/ XferEv(i, s) => i < n
<1>1. /\ Len(evq) \in Nat
      /\ DOMAIN evq = 1..Len(evq) /\ DOMAIN evq' = 1..(Len(evq) + 1)
      /\ \A i \in DOMAIN evq : evq'[i] = evq[i]
      /\ evq'[Len(evq) + 1] = e
  BY EvqAppend
<1> DEFINE n == Len(evq) + 1
<1>2. n \in Nat \ {0} /\ \A i : i \in DOMAIN evq' <=> i \in DOMAIN evq \/ i = n
  BY <1>1
<1>3. \A i \in DOMAIN evq : i < n /\ i # n
  BY <1>1
<1> WITNESS n \in Nat \ {0}
<1> HIDE DEF n
<1>4. evq'[n] = e
  BY <1>1 DEF n
<1> QED BY <1>1, <1>2, <1>3, <1>4 DEF EvTurn, AddressEv, EnabledEv, DownEv, GoneEv, XferEv, Ev

LEMMA CmdAdded ==
  ASSUME PortsTypeOK, NEW cmd \in CmdSet, cmds' = Append(cmds, cmd)
  PROVE  \E n \in Nat \ {0} :
           /\ \A i : CmdTurn(i)' <=> CmdTurn(i) \/ (i = n /\ cmd.type \in {"enable", "address"})
           /\ \A i, s, p : AddressCmd(i, s, p)' <=>
                AddressCmd(i, s, p) \/ (i = n /\ cmd.type = "address" /\ cmd.slot = s /\ cmd.port = p)
           /\ \A i, s : DownCmd(i, s)' <=>
                DownCmd(i, s) \/ (i = n /\ cmd.type \in TearsDown /\ cmd.slot = s)
           /\ \A i : CmdTurn(i) => i < n
           /\ \A i, s : DownCmd(i, s) => i < n
<1>1. /\ Len(cmds) \in Nat
      /\ DOMAIN cmds = 1..Len(cmds) /\ DOMAIN cmds' = 1..(Len(cmds) + 1)
      /\ \A i \in DOMAIN cmds : cmds'[i] = cmds[i]
      /\ cmds'[Len(cmds) + 1] = cmd
  BY CmdsAppend
<1> DEFINE n == Len(cmds) + 1
<1>2. n \in Nat \ {0} /\ \A i : i \in DOMAIN cmds' <=> i \in DOMAIN cmds \/ i = n
  BY <1>1
<1>3. \A i \in DOMAIN cmds : i < n /\ i # n
  BY <1>1
<1> WITNESS n \in Nat \ {0}
<1> HIDE DEF n
<1>4. cmds'[n] = cmd
  BY <1>1 DEF n
<1> QED BY <1>1, <1>2, <1>3, <1>4 DEF CmdTurn, AddressCmd, DownCmd, Cmd, TearsDown

LEMMA CmdTaken ==
  ASSUME PortsTypeOK, cmds # <<>>, cmds' = Tail(cmds)
  PROVE  CmdShift(1)
<1>1. /\ Len(cmds) \in Nat \ {0}
      /\ DOMAIN cmds = 1..Len(cmds) /\ DOMAIN cmds' = 1..(Len(cmds) - 1)
      /\ \A i \in DOMAIN cmds' : cmds'[i] = cmds[i + 1]
  BY CmdsTail
<1>2. \A i : i \in DOMAIN cmds' <=> i \in Nat \ {0} /\ i + 1 \in DOMAIN cmds
  BY <1>1
<1> QED BY <1>1, <1>2 DEF CmdShift, CmdTurn, AddressCmd, DownCmd, Cmd

LEMMA Unmoved ==
  ASSUME PortsTypeOK
  PROVE  /\ evq' = evq => EvShift(0)
         /\ cmds' = cmds => CmdShift(0)
<1>1. \A i \in DOMAIN evq : i \in Nat \ {0} /\ i + 0 = i
  BY DEF PortsTypeOK
<1>2. \A i \in DOMAIN cmds : i \in Nat \ {0} /\ i + 0 = i
  BY DEF PortsTypeOK
<1>3. \A i \in Nat : i + 0 = i
  OBVIOUS
<1>4. ASSUME evq' = evq PROVE EvShift(0)
  BY <1>1, <1>3, <1>4 DEF EvShift, EvTurn, AddressEv, EnabledEv, DownEv, GoneEv, XferEv, Ev
<1>5. ASSUME cmds' = cmds PROVE CmdShift(0)
  BY <1>2, <1>3, <1>5 DEF CmdShift, CmdTurn, AddressCmd, DownCmd, Cmd
<1> QED BY <1>4, <1>5

\* What is first in a queue that is not empty.
LEMMA First1 ==
  ASSUME PortsTypeOK
  PROVE  /\ evq # <<>> =>
              /\ EvTurn(1) <=> Completion("enable") \/ Completion("address")
              /\ AddressEv(1) <=> Completion("address")
         /\ evq # <<>> => \A s :
              /\ EnabledEv(1, s) <=> Completion("enable") /\ Head(evq).slot = s
              /\ DownEv(1, s) <=> Completion("deconfigure") /\ Head(evq).slot = s
              /\ GoneEv(1, s) <=> Completion("disable") /\ Head(evq).slot = s
              /\ XferEv(1, s) <=> Arrived(s)
         /\ cmds # <<>> => (CmdTurn(1) <=> Execute("enable") \/ Execute("address"))
         /\ cmds # <<>> => \A s, p :
              AddressCmd(1, s, p) <=> /\ Execute("address")
                                      /\ Head(cmds).slot = s /\ Head(cmds).port = p
         /\ cmds # <<>> => \A s :
              DownCmd(1, s) <=> /\ Execute("deconfigure") \/ Execute("disable")
                                /\ Head(cmds).slot = s
<1>1. evq # <<>> => 1 \in DOMAIN evq /\ Head(evq) = evq[1]
  BY DEF PortsTypeOK
<1>2. cmds # <<>> => 1 \in DOMAIN cmds /\ Head(cmds) = cmds[1]
  BY DEF PortsTypeOK
<1> QED BY <1>1, <1>2 DEF EvTurn, AddressEv, EnabledEv, DownEv, GoneEv, XferEv, Ev, CmdTurn,
          AddressCmd, DownCmd, Cmd, Event, Completion, Arrived, Execute

\* The shifts seen by the parts of the invariant: commands have moved up by k
\* places and events by l, and none of those that count is lost.
TurnKept(k, l) ==
  /\ \A i : CmdTurn(i)' <=> i \in Nat \ {0} /\ CmdTurn(i + k)
  /\ \A i, s, p : AddressCmd(i, s, p)' <=> i \in Nat \ {0} /\ AddressCmd(i + k, s, p)
  /\ \A i : EvTurn(i)' <=> i \in Nat \ {0} /\ EvTurn(i + l)

DownKept(k, l) ==
  /\ \A i, s :
       /\ DownCmd(i, s)' <=> i \in Nat \ {0} /\ DownCmd(i + k, s)
       /\ EnabledEv(i, s)' <=> i \in Nat \ {0} /\ EnabledEv(i + l, s)
       /\ DownEv(i, s)' <=> i \in Nat \ {0} /\ DownEv(i + l, s)
       /\ GoneEv(i, s)' <=> i \in Nat \ {0} /\ GoneEv(i + l, s)
  /\ \A j, s : DownCmd(j, s) => j - k \in Nat \ {0} /\ DownCmd(j - k, s)'
  /\ \A j, s : DownEv(j, s) => j - l \in Nat \ {0} /\ DownEv(j - l, s)'
  /\ \A j, s : GoneEv(j, s) => j - l \in Nat \ {0} /\ GoneEv(j - l, s)'

LEMMA TurnStays ==
  ASSUME TurnInv, NEW k \in Nat, NEW l \in Nat, TurnKept(k, l),
         addrport' = addrport, slotport' = slotport,
         \A p \in Port : phase'[p] = "resetting" => phase[p] = "resetting",
         \A s \in SlotOrNone : slotphase[s] = "addressing" => slotphase'[s] = "addressing",
         PortsTypeOK
  PROVE  TurnInv'
<1> USE DEF TurnKept, TurnInv
<1>1. (\A i, j : CmdTurn(i) /\ CmdTurn(j) => i = j)'
  OBVIOUS
<1>2. (\A i, j : EvTurn(i) /\ EvTurn(j) => i = j)'
  <2> SUFFICES ASSUME NEW i, NEW j, EvTurn(i)', EvTurn(j)' PROVE i = j
    OBVIOUS
  <2>1. i \in Nat /\ j \in Nat /\ i + l = j + l
    OBVIOUS
  <2> QED BY <2>1
<1>3. (\A i, j : ~(CmdTurn(i) /\ EvTurn(j)))'
  OBVIOUS
<1>4. (\A i : CmdTurn(i) \/ EvTurn(i) =>
         addrport # 0 /\ \A p \in Port : phase[p] # "resetting")'
  OBVIOUS
<1>5. (\A p \in Port : phase[p] = "resetting" => addrport = p)'
  OBVIOUS
<1>6. (\A i, s, p : AddressCmd(i, s, p) =>
         p = addrport /\ slotport[s] = p /\ slotphase[s] = "addressing")'
  BY Places
<1> QED BY <1>1, <1>2, <1>3, <1>4, <1>5, <1>6

LEMMA SlotsStay ==
  ASSUME PortsTypeOK, DownOnce, DownInv, EnabledInv, ContextInv, PortsTypeOK',
         NEW k \in Nat, NEW l \in Nat, DownKept(k, l),
         enabled' = enabled, context \subseteq context',
         \A s \in context' \ context : s \in enabled /\ \A i : ~EnabledEv(i, s)',
         \A s \in Slot : bound'[s] # 0 =>
           bound'[s] = bound[s] /\ conn'[bound[s]] /\ slotport'[s] = slotport[s]
  PROVE  DownOnce' /\ DownInv' /\ EnabledInv' /\ ContextInv'
<1>0. enabled \subseteq Slot
  BY DEF PortsTypeOK
<1>1. DownOnce'
  <2> SUFFICES ASSUME NEW s, NEW i, NEW j
               PROVE  /\ DownCmd(i, s)' /\ DownCmd(j, s)' => i = j
                      /\ DownEv(i, s)' /\ DownEv(j, s)' => i = j
                      /\ GoneEv(i, s)' /\ GoneEv(j, s)' => i = j
                      /\ ~(DownCmd(i, s)' /\ DownEv(j, s)')
                      /\ ~(DownCmd(i, s)' /\ GoneEv(j, s)')
                      /\ ~(DownEv(i, s)' /\ GoneEv(j, s)')
    BY DEF DownOnce
  <2>1. /\ DownCmd(i, s)' => i \in Nat /\ DownCmd(i + k, s)
        /\ DownCmd(j, s)' => j \in Nat /\ DownCmd(j + k, s)
        /\ DownEv(i, s)' => i \in Nat /\ DownEv(i + l, s)
        /\ DownEv(j, s)' => j \in Nat /\ DownEv(j + l, s)
        /\ GoneEv(i, s)' => i \in Nat /\ GoneEv(i + l, s)
        /\ GoneEv(j, s)' => j \in Nat /\ GoneEv(j + l, s)
    BY DEF DownKept
  <2>2. i \in Nat /\ j \in Nat => (i + k = j + k => i = j) /\ (i + l = j + l => i = j)
    OBVIOUS
  <2> QED BY <2>1, <2>2 DEF DownOnce
<1>2. DownInv'
  BY <1>0 DEF DownInv, DownKept
<1>3. EnabledInv'
  <2> SUFFICES ASSUME NEW s, NEW i, EnabledEv(i, s)'
               PROVE  /\ s \in enabled' /\ bound'[s] = 0
                      /\ \A j : ~DownCmd(j, s)' /\ ~DownEv(j, s)'
                      /\ \A j : GoneEv(j, s)' => j < i
    BY DEF EnabledInv
  <2>1. i \in Nat /\ EnabledEv(i + l, s)
    BY DEF DownKept
  <2>2. /\ s \in enabled /\ bound[s] = 0
        /\ \A j : ~DownCmd(j, s) /\ ~DownEv(j, s)
        /\ \A j : GoneEv(j, s) => j < i + l
    BY <2>1 DEF EnabledInv
  <2>3. \A j : ~DownCmd(j, s)' /\ ~DownEv(j, s)'
    BY <2>2 DEF DownKept
  <2>4. ASSUME NEW j, GoneEv(j, s)' PROVE j < i
    <3>1. j \in Nat /\ GoneEv(j + l, s)
      BY <2>4 DEF DownKept
    <3>2. j + l < i + l
      BY <2>2, <3>1
    <3> QED BY <2>1, <3>1, <3>2
  <2> QED BY <1>0, <2>2, <2>3, <2>4
<1>4. ContextInv'
  <2>1. \A s : Teardown(s) => Teardown(s)'
    BY Tearing DEF DownKept
  <2>2. \A s, i : EnabledEv(i, s)' => \E j : EnabledEv(j, s)
    BY DEF DownKept
  <2>3. (0 \in context)'
    BY DEF ContextInv
  <2>4. (\A s \in context \ {0} : Teardown(s) \/ (s \in enabled /\ \A i : ~EnabledEv(i, s)))'
    BY <2>1, <2>2 DEF ContextInv
  <2>5. (\A s \in Slot : bound[s] # 0 => /\ s \in enabled /\ s \in context
                                         /\ bound[s] = slotport[s] /\ conn[bound[s]])'
    BY DEF ContextInv
  <2> QED BY <2>3, <2>4, <2>5 DEF ContextInv
<1> QED BY <1>1, <1>2, <1>3, <1>4

LEMMA AddressStays ==
  ASSUME PortsTypeOK, TurnInv, AddressInv,
         NEW k \in Nat, NEW l \in Nat, DownKept(k, l),
         \A i, s, p : AddressCmd(i, s, p)' <=> i \in Nat \ {0} /\ AddressCmd(i + k, s, p),
         addrport' = addrport, context' = context, enabled' = enabled,
         \A s \in Slot : bound[s] = 0 => bound'[s] = 0,
         \A p \in Port : dev'[p] = "default" => dev[p] = "default"
  PROVE  AddressInv'
<1>1. enabled \subseteq Slot
  BY DEF PortsTypeOK
<1> SUFFICES ASSUME NEW s, NEW p, NEW i, AddressCmd(i, s, p)'
             PROVE  /\ s \in enabled' /\ s \in context' /\ bound'[s] = 0
                    /\ \A j : ~DownEv(j, s)' /\ ~GoneEv(j, s)'
                    /\ \A j : DownCmd(j, s)' => i < j /\ dev'[addrport'] # "default"
  BY DEF AddressInv
<1>2. i \in Nat /\ AddressCmd(i + k, s, p)
  OBVIOUS
<1>3. /\ s \in enabled /\ s \in context /\ bound[s] = 0
      /\ \A j : ~DownEv(j, s) /\ ~GoneEv(j, s)
      /\ \A j : DownCmd(j, s) => i + k < j /\ dev[addrport] # "default"
  BY <1>2 DEF AddressInv
<1>4. \A j : ~DownEv(j, s)' /\ ~GoneEv(j, s)'
  BY <1>3 DEF DownKept
<1>5. ASSUME NEW j, DownCmd(j, s)' PROVE i < j /\ dev[addrport] # "default"
  <2>1. j \in Nat /\ DownCmd(j + k, s)
    BY <1>5 DEF DownKept
  <2>2. i + k < j + k /\ dev[addrport] # "default"
    BY <1>3, <2>1
  <2> QED BY <1>2, <2>1, <2>2
<1>6. addrport \in Port
  BY <1>2, Places DEF TurnInv, PortsTypeOK, Port
<1> QED BY <1>1, <1>3, <1>4, <1>5, <1>6

LEMMA DefaultStays ==
  ASSUME DefaultInv, addrport' = addrport,
         \A i : AddressEv(i)' => \E j : AddressEv(j),
         \A p \in Port : dev'[p] = "default" => dev[p] = "default" /\ conn'[p]
  PROVE  DefaultInv'
BY DEF DefaultInv

LEMMA EventStays ==
  ASSUME EventInv, NoDangling, PortsTypeOK, PortsTypeOK', NEW l \in {0, 1}, EvShift(l),
         open' = open, enabled' = enabled, made \subseteq made',
         \A s \in Slot : slotphase'[s] \in {"setconf", "starting"} =>
           slotphase[s] \in {"setconf", "starting"} \/ s \in made'
  PROVE  EventInv' /\ NoDangling'
<1>1. ASSUME NEW s \in Slot, NEW i, GoneEv(i, s)'
      PROVE  /\ s \notin open
             /\ s \in enabled => \E j : EnabledEv(j, s)' /\ i < j
             /\ \A j : XferEv(j, s)' => j < i
  <2>1. GoneEv(i + l, s) /\ i \in Nat \ {0}
    BY <1>1 DEF EvShift
  <2>2. s \notin open
    BY <2>1 DEF EventInv
  <2>3. ASSUME s \in enabled PROVE \E j : EnabledEv(j, s)' /\ i < j
    <3>1. PICK j : EnabledEv(j, s) /\ i + l < j
      BY <2>1, <2>3 DEF EventInv
    <3>2. j \in Nat
      BY <3>1, Places
    <3>3. j - l \in Nat \ {0} /\ i < j - l /\ (j - l) + l = j
      BY <2>1, <3>1, <3>2
    <3>4. EnabledEv(j - l, s)'
      BY <3>1, <3>3 DEF EvShift
    <3> QED BY <3>3, <3>4
  <2>4. ASSUME NEW j, XferEv(j, s)' PROVE j < i
    <3>1. j \in Nat /\ XferEv(j + l, s)
      BY <2>4 DEF EvShift
    <3>2. j + l < i + l
      BY <2>1, <3>1 DEF EventInv
    <3> QED BY <2>1, <3>1, <3>2
  <2> QED BY <2>2, <2>3, <2>4
<1>2. (\A s \in open : slotphase[s] \in {"setconf", "starting"} => s \in made)'
  <2>1. open \subseteq Slot
    BY DEF PortsTypeOK
  <2> QED BY <2>1 DEF EventInv
<1>3. EventInv'
  BY <1>1, <1>2 DEF EventInv
<1>4. NoDangling'
  <2>1. \A i, s : XferEv(i, s) /\ slotphase[s] \in {"setconf", "starting"} => s \in made
    BY Dangling
  <2>2. \A i, s : XferEv(i, s)' => s \in Slot /\ \E j : XferEv(j, s)
    BY Places DEF EvShift
  <2>3. (\A i, s : XferEv(i, s) /\ slotphase[s] \in {"setconf", "starting"} => s \in made)'
    BY <2>1, <2>2
  <2> QED BY <2>3, Dangling
<1> QED BY <1>3, <1>4

LEMMA KeptDown ==
  ASSUME PortsTypeOK, NEW k \in {0, 1}, NEW l \in {0, 1}, EvShift(l),
         \A i, s : DownCmd(i, s)' <=> i \in Nat \ {0} /\ DownCmd(i + k, s),
         k = 1 => \A s : ~DownCmd(1, s),
         l = 1 => \A s : ~DownEv(1, s) /\ ~GoneEv(1, s)
  PROVE  DownKept(k, l)
<1>2. ASSUME NEW j, NEW s, DownCmd(j, s) PROVE j - k \in Nat \ {0} /\ DownCmd(j - k, s)'
  <2>1. j \in Nat \ {0} /\ (k = 1 => j # 1)
    BY <1>2, Places
  <2>2. j - k \in Nat \ {0} /\ (j - k) + k = j
    BY <2>1
  <2> QED BY <1>2, <2>2
<1>3. ASSUME NEW j, NEW s, DownEv(j, s) PROVE j - l \in Nat \ {0} /\ DownEv(j - l, s)'
  <2>1. j \in Nat \ {0} /\ (l = 1 => j # 1)
    BY <1>3, Places
  <2>2. j - l \in Nat \ {0} /\ (j - l) + l = j
    BY <2>1
  <2> QED BY <1>3, <2>2 DEF EvShift
<1>4. ASSUME NEW j, NEW s, GoneEv(j, s) PROVE j - l \in Nat \ {0} /\ GoneEv(j - l, s)'
  <2>1. j \in Nat \ {0} /\ (l = 1 => j # 1)
    BY <1>4, Places
  <2>2. j - l \in Nat \ {0} /\ (j - l) + l = j
    BY <2>1
  <2> QED BY <1>4, <2>2 DEF EvShift
<1> QED BY <1>2, <1>3, <1>4 DEF DownKept, EvShift

LEMMA Kept ==
  ASSUME PortsTypeOK, NEW k \in {0, 1}, NEW l \in {0, 1}, CmdShift(k), EvShift(l),
         k = 1 => \A s : ~DownCmd(1, s),
         l = 1 => \A s : ~DownEv(1, s) /\ ~GoneEv(1, s)
  PROVE  TurnKept(k, l) /\ DownKept(k, l)
<1>1. TurnKept(k, l)
  BY DEF TurnKept, CmdShift, EvShift
<1>2. DownKept(k, l)
  BY KeptDown DEF CmdShift
<1> QED BY <1>1, <1>2

\* A step of which commands and events under way say nothing.
LEMMA QuietStep ==
  ASSUME IInv, PortsTypeOK', NEW k \in {0, 1}, NEW l \in {0, 1}, CmdShift(k), EvShift(l),
         k = 1 => \A s : ~DownCmd(1, s),
         l = 1 => \A s : ~DownEv(1, s) /\ ~GoneEv(1, s),
         addrport' = addrport, slotport' = slotport, context' = context,
         enabled' = enabled, open' = open, early' = early, short' = short,
         made \subseteq made',
         \A p \in Port : phase'[p] = "resetting" => phase[p] = "resetting",
         \A s \in SlotOrNone : slotphase[s] = "addressing" => slotphase'[s] = "addressing",
         \A s \in Slot : slotphase'[s] \in {"setconf", "starting"} =>
           slotphase[s] \in {"setconf", "starting"} \/ s \in made',
         \A s \in Slot : bound'[s] # 0 =>
           bound'[s] = bound[s] /\ (conn[bound[s]] => conn'[bound[s]]),
         \A p \in Port : dev'[p] = "default" => dev[p] = "default" /\ (conn[p] => conn'[p])
  PROVE  IInv'
<1>1. PortsTypeOK /\ TurnInv /\ SlotInv /\ EventInv /\ NoDangling /\ k \in Nat /\ l \in Nat
  BY DEF IInv
<1>2. TurnKept(k, l) /\ DownKept(k, l)
  BY <1>1, Kept
<1>3. TurnInv'
  BY <1>1, <1>2, TurnStays
<1>4. EventInv' /\ NoDangling'
  BY <1>1, EventStays
<1>5. SlotInv'
  <2> SUFFICES ASSUME Orderly'
               PROVE  (/\ DownOnce /\ DownInv /\ EnabledInv /\ AddressInv
                       /\ ContextInv /\ DefaultInv)'
    BY DEF SlotInv
  <2>1. DownOnce /\ DownInv /\ EnabledInv /\ AddressInv /\ ContextInv /\ DefaultInv
    BY <1>1 DEF SlotInv, Orderly
  <2>2. DownOnce' /\ DownInv' /\ EnabledInv' /\ ContextInv'
    <3>1. \A s \in Slot : bound'[s] # 0 =>
            bound'[s] = bound[s] /\ conn'[bound[s]] /\ slotport'[s] = slotport[s]
      BY <2>1 DEF ContextInv
    <3> QED BY <1>1, <1>2, <2>1, <3>1, SlotsStay
  <2>3. AddressInv'
    BY <1>1, <1>2, <2>1, AddressStays DEF CmdShift
  <2>4. \A i : AddressEv(i)' => \E j : AddressEv(j)
    BY DEF EvShift
  <2>5. \A p \in Port : dev'[p] = "default" => dev[p] = "default" /\ conn'[p]
    BY <2>1 DEF DefaultInv
  <2>6. DefaultInv'
    BY <2>1, <2>4, <2>5, DefaultStays
  <2> QED BY <2>2, <2>3, <2>6
<1> QED BY <1>3, <1>4, <1>5 DEF IInv

\* A new command or event of which the invariant says nothing.
LEMMA QuietAdded ==
  ASSUME PortsTypeOK
  PROVE  /\ \A s \in SlotOrNone : Send(ConfigureEndpoint(s, FALSE)) => CmdShift(0)
         /\ \A p \in Port : evq' = Append(evq, PortEvent(p)) => EvShift(0)
         /\ \A s \in SlotOrNone : evq' = Append(evq, CmdEvent("configure", s)) => EvShift(0)
<1>0. \A i \in Nat \ {0} : i + 0 = i
  OBVIOUS
<1>1. ASSUME NEW s \in SlotOrNone, Send(ConfigureEndpoint(s, FALSE)) PROVE CmdShift(0)
  <2> DEFINE cmd == ConfigureEndpoint(s, FALSE)
  <2>1. cmd \in CmdSet /\ cmd.type = "configure" /\ cmds' = Append(cmds, cmd)
    BY <1>1, CommandTypes DEF ConfigureEndpoint, Send
  <2> HIDE DEF cmd
  <2>2. /\ \A i : CmdTurn(i)' <=> CmdTurn(i)
        /\ \A i, t, p : AddressCmd(i, t, p)' <=> AddressCmd(i, t, p)
        /\ \A i, t : DownCmd(i, t)' <=> DownCmd(i, t)
    BY <2>1, CmdAdded DEF TearsDown
  <2> QED BY <1>0, <2>2, Places DEF CmdShift
<1>2. ASSUME NEW e \in EventSet, evq' = Append(evq, e),
             e.kind = "port" \/ (e.kind = "cmd" /\ e.type = "configure")
      PROVE  EvShift(0)
  <2>1. /\ \A i : EvTurn(i)' <=> EvTurn(i)
        /\ \A i : AddressEv(i)' <=> AddressEv(i)
        /\ \A i, t : /\ EnabledEv(i, t)' <=> EnabledEv(i, t)
                     /\ DownEv(i, t)' <=> DownEv(i, t)
                     /\ GoneEv(i, t)' <=> GoneEv(i, t)
                     /\ XferEv(i, t)' <=> XferEv(i, t)
    BY <1>2, EvAdded
  <2> QED BY <1>0, <2>1, Places DEF EvShift
<1>3. ASSUME NEW p \in Port, evq' = Append(evq, PortEvent(p)) PROVE EvShift(0)
  <2>1. PortEvent(p) \in EventSet /\ PortEvent(p).kind = "port"
    BY DEF PortEvent, EventSet
  <2> QED BY <1>2, <1>3, <2>1
<1>4. ASSUME NEW s \in SlotOrNone, evq' = Append(evq, CmdEvent("configure", s)) PROVE EvShift(0)
  <2>1. /\ CmdEvent("configure", s) \in EventSet /\ CmdEvent("configure", s).kind = "cmd"
        /\ CmdEvent("configure", s).type = "configure"
    BY DEF CmdEvent, EventSet, CmdType
  <2> QED BY <1>2, <1>4, <2>1
<1> QED BY <1>1, <1>3, <1>4

\* An event is taken that is none of the completions that count.
LEMMA QuietTaken ==
  ASSUME PortsTypeOK, evq # <<>>, Done \/ \E p \in Port : Reset(p),
         ~Completion("enable"), ~Completion("address"),
         ~Completion("deconfigure"), ~Completion("disable")
  PROVE  EvShift(1) /\ ~EvTurn(1) /\ \A s : ~DownEv(1, s) /\ ~GoneEv(1, s)
BY EvTaken, First1 DEF Done, Reset

LEMMA HandlePorts ==
  ASSUME IInv, PortsTypeOK', NEW p \in Port, PortWaits(p) \/ PortIgnored(p)
  PROVE  IInv'
<1> USE DEF slots, change, device, history
<1>1. PortsTypeOK /\ evq # <<>> /\ Head(evq).kind = "port" /\ Done /\ cmds' = cmds
  BY DEF IInv, PortWaits, PortIgnored, Changed, Event
<1>2. EvShift(1) /\ CmdShift(0) /\ \A s : ~DownEv(1, s) /\ ~GoneEv(1, s)
  BY <1>1, QuietTaken, Unmoved DEF Completion, Event
<1>3. \A q \in Port : phase'[q] = "resetting" => phase[q] = "resetting"
  BY <1>1 DEF PortWaits, PortIgnored, turn, PortsTypeOK
<1>4. /\ UNCHANGED <<addrport, slots, change, device, xfer, history>>
  BY DEF PortWaits, PortIgnored, turn
<1> QED BY <1>2, <1>3, <1>4, QuietStep

LEMMA HandleTransfers ==
  ASSUME IInv, PortsTypeOK', NEW s \in Slot,
         \/ NotDescribed(s) \/ Described(s) \/ DriverInit(s)
         \/ DriverComp(s) /\ ~(addrport = 0 /\ Waiting # {})
  PROVE  IInv'
<1> USE DEF turn, slots, change, device, history
<1>1. PortsTypeOK /\ evq # <<>> /\ Head(evq).kind = "transfer" /\ Head(evq).slot = s /\ Done
  BY DEF IInv, NotDescribed, Described, DriverInit, DriverComp, Arrived, Event
<1>2. EvShift(1) /\ \A t : ~DownEv(1, t) /\ ~GoneEv(1, t)
  BY <1>1, QuietTaken DEF Completion, Event
<1>3. CmdShift(0)
  <2>1. s \in SlotOrNone
    BY DEF Slot, SlotOrNone
  <2>2. cmds' = cmds \/ Send(ConfigureEndpoint(s, FALSE))
    BY DEF NotDescribed, Described, DriverInit, DriverComp
  <2> QED BY <1>1, <2>1, <2>2, QuietAdded, Unmoved
<1>4. UNCHANGED <<phase, addrport, slotport, context, enabled, open, bound, conn, dev, early, short>>
  BY DEF NotDescribed, Described, DriverInit, DriverComp
<1>5. /\ made \subseteq made'
      /\ \A t \in SlotOrNone : slotphase[t] = "addressing" => slotphase'[t] = "addressing"
      /\ \A t \in Slot : slotphase'[t] \in {"setconf", "starting"} =>
           slotphase[t] \in {"setconf", "starting"} \/ t \in made'
  <2>1. CASE UNCHANGED <<slotphase, made>>
    BY <2>1
  <2>2. CASE Described(s)
    BY <1>1, <2>2 DEF Described, PortsTypeOK
  <2>3. CASE DriverInit(s)
    BY <1>1, <2>3 DEF DriverInit, PortsTypeOK
  <2> QED BY <2>1, <2>2, <2>3 DEF NotDescribed, DriverComp
<1> QED BY <1>2, <1>3, <1>4, <1>5, QuietStep

LEMMA HandleConfigured ==
  ASSUME IInv, PortsTypeOK', NEW s \in SlotOrNone, SlotConfigured(s)
  PROVE  IInv'
<1> USE DEF turn, slots, change, device, history
<1>1. PortsTypeOK /\ evq # <<>> /\ Completion("configure") /\ Done /\ cmds' = cmds
  BY DEF IInv, SlotConfigured, Completion, Event
<1>2. EvShift(1) /\ CmdShift(0) /\ \A t : ~DownEv(1, t) /\ ~GoneEv(1, t)
  BY <1>1, QuietTaken, Unmoved DEF Completion
<1>3. UNCHANGED <<turn, slots, device, history>>
  BY DEF SlotConfigured
<1> QED BY <1>2, <1>3, QuietStep

LEMMA Connections ==
  ASSUME IInv, PortsTypeOK', NEW p \in Port, Plug(p) \/ Unplug(p)
  PROVE  IInv'
<1> USE DEF turn, slots
<1>1. PICK there \in BOOLEAN : Connection(p, there) /\ (conn[p] => ~there)
  BY DEF Plug, Unplug
<1>2. PortsTypeOK
  BY DEF IInv
<1>3. EvShift(0) /\ CmdShift(0)
  BY <1>1, <1>2, QuietAdded, Unmoved DEF Connection
<1>4. /\ \A q \in Port : q # p => conn'[q] = conn[q] /\ dev'[q] = dev[q]
      /\ dev'[p] # "default"
      /\ \A s \in Slot : bound'[s] # 0 => bound'[s] = bound[s] /\ bound[s] # p /\ bound[s] \in Port
  BY <1>1, <1>2 DEF Connection, PortsTypeOK, Port
<1>5. UNCHANGED <<turn, slots, enabled, open, early, short>>
  BY <1>1 DEF Connection
<1> QED BY <1>3, <1>4, <1>5, QuietStep

-------------------------------------------------------------------------------
(* The turn begins: a reset, its end, and a slot *)

LEMMA HandleReset ==
  ASSUME IInv, PortsTypeOK', NEW p \in Port, Reset(p), addrport = 0, conn[p], evq # <<>>,
         ~Completion("enable"), ~Completion("address"),
         ~Completion("deconfigure"), ~Completion("disable"),
         UNCHANGED <<cmds, slots, conn, bound, enabled, open, early, short>>
  PROVE  IInv'
<1> USE DEF slots
<1>1. PortsTypeOK /\ TurnInv /\ SlotInv
  BY DEF IInv
<1>2. /\ EvShift(1) /\ CmdShift(0)
      /\ \A s : ~DownEv(1, s) /\ ~GoneEv(1, s)
  BY <1>1, QuietTaken, Unmoved
<1>3. DownKept(0, 1)
  BY <1>1, <1>2, Kept
<1>4. (\A i : ~CmdTurn(i) /\ ~EvTurn(i)) /\ (\A i : ~CmdTurn(i) /\ ~EvTurn(i))'
  <2>1. \A i : ~CmdTurn(i) /\ ~EvTurn(i)
    BY <1>1 DEF TurnInv
  <2>2. (\A i : ~CmdTurn(i))'
    BY <1>2, <2>1 DEF CmdShift
  <2>3. (\A i : ~EvTurn(i))'
    BY <1>2, <2>1 DEF EvShift
  <2> QED BY <2>1, <2>2, <2>3
<1>5. /\ addrport' = p /\ phase'[p] = "resetting"
      /\ \A q \in Port : q # p => phase'[q] = phase[q] /\ dev'[q] = dev[q]
      /\ \A q \in Port : phase[q] # "resetting"
  BY <1>1 DEF Reset, PortsTypeOK, TurnInv, Port
<1>6. \A i, s, q : ~AddressCmd(i, s, q)'
  BY <1>4 DEF AddressCmd, CmdTurn
<1>7. TurnInv'
  BY <1>4, <1>5, <1>6 DEF TurnInv
<1>8. EventInv' /\ NoDangling'
  BY <1>1, <1>2, EventStays DEF IInv
<1>9. SlotInv'
  <2> SUFFICES ASSUME Orderly'
               PROVE  (/\ DownOnce /\ DownInv /\ EnabledInv /\ AddressInv
                       /\ ContextInv /\ DefaultInv)'
    BY DEF SlotInv
  <2>1. DownOnce /\ DownInv /\ EnabledInv /\ AddressInv /\ ContextInv /\ DefaultInv
    BY <1>1 DEF SlotInv, Orderly
  <2>2. DownOnce' /\ DownInv' /\ EnabledInv' /\ ContextInv'
    <3>1. \A s \in Slot : bound'[s] # 0 =>
            bound'[s] = bound[s] /\ conn'[bound[s]] /\ slotport'[s] = slotport[s]
      BY <2>1 DEF ContextInv
    <3> QED BY <1>1, <1>3, <2>1, <3>1, SlotsStay
  <2>3. AddressInv'
    BY <1>6 DEF AddressInv
  <2>4. DefaultInv'
    <3>1. \A q \in Port : dev[q] # "default"
      BY <2>1 DEF DefaultInv, Port
    <3>2. \A i : ~AddressEv(i)'
      BY <1>4, Places DEF EvTurn, AddressEv
    <3> QED BY <1>5, <3>1, <3>2 DEF DefaultInv
  <2> QED BY <2>2, <2>3, <2>4
<1> QED BY <1>7, <1>8, <1>9 DEF IInv

LEMMA HandlePortReset ==
  ASSUME IInv, PortsTypeOK', NEW p \in Port, PortReset(p)
  PROVE  IInv'
<1>1. /\ Reset(p) /\ addrport = 0 /\ conn[p] /\ evq # <<>>
      /\ UNCHANGED <<cmds, slots, conn, bound, enabled, open, early, short>>
  BY DEF PortReset, Changed, Event, history
<1>2. ~Completion("enable") /\ ~Completion("address")
      /\ ~Completion("deconfigure") /\ ~Completion("disable")
  BY DEF PortReset, Changed, Event, Completion
<1> QED BY <1>1, <1>2, HandleReset

LEMMA HandleDriverReset ==
  ASSUME IInv, PortsTypeOK', NEW s \in Slot, DriverComp(s), addrport = 0, Waiting # {}
  PROVE  IInv'
<1>1. PICK p \in Port : First(p, Waiting) /\ Reset(p)
  BY DEF DriverComp
<1>2. /\ conn[p] /\ evq # <<>>
      /\ UNCHANGED <<cmds, slots, conn, bound, enabled, open, early, short>>
  BY <1>1 DEF DriverComp, Arrived, Event, history, First, Waiting
<1>3. ~Completion("enable") /\ ~Completion("address")
      /\ ~Completion("deconfigure") /\ ~Completion("disable")
  BY DEF DriverComp, Arrived, Event, Completion
<1> QED BY <1>1, <1>2, <1>3, HandleReset

LEMMA HandleEnabled ==
  ASSUME IInv, PortsTypeOK', NEW p \in Port, PortEnabled(p)
  PROVE  IInv'
<1> USE DEF slots, device, history
<1>1. /\ PortsTypeOK /\ TurnInv /\ SlotInv /\ evq # <<>> /\ Done
      /\ Send(EnableSlot) /\ phase[p] = "resetting"
      /\ phase' = [phase EXCEPT ![addrport] = "enablingslot"]
      /\ UNCHANGED <<addrport, slots, device, early, short>>
  BY DEF IInv, PortEnabled, Changed, Event
<1>2. /\ EvShift(1)
      /\ \A s : ~DownEv(1, s) /\ ~GoneEv(1, s)
  BY <1>1, QuietTaken DEF PortEnabled, Changed, Event, Completion
<1>3. addrport = p /\ p # 0 /\ \A i : ~CmdTurn(i) /\ ~EvTurn(i)
  BY <1>1 DEF TurnInv, Port
<1>4. PICK n \in Nat \ {0} :
        /\ \A i : CmdTurn(i)' <=> CmdTurn(i) \/ i = n
        /\ \A i, s, q : AddressCmd(i, s, q)' <=> AddressCmd(i, s, q)
        /\ \A i, s : DownCmd(i, s)' <=> DownCmd(i, s)
  <2> DEFINE cmd == EnableSlot
  <2>1. cmd \in CmdSet /\ cmd.type = "enable" /\ cmds' = Append(cmds, cmd)
    BY <1>1, CommandTypes DEF EnableSlot, Send
  <2> HIDE DEF cmd
  <2> QED BY <1>1, <2>1, CmdAdded DEF TearsDown
<1>5. /\ \A i, s, q : ~AddressCmd(i, s, q) /\ ~AddressCmd(i, s, q)'
      /\ \A i : ~EvTurn(i)' /\ ~AddressEv(i)'
  BY <1>1, <1>2, <1>3, <1>4, Places DEF EvShift
<1>6. DownKept(0, 1)
  <2>1. \A i \in Nat : i + 0 = i
    OBVIOUS
  <2>3. \A i, s : DownCmd(i, s)' <=> i \in Nat \ {0} /\ DownCmd(i + 0, s)
    BY <1>1, <1>4, <2>1, Places
  <2> QED BY <1>1, <1>2, <2>3, KeptDown
<1>7. TurnInv'
  <2>1. \A q \in Port : phase'[q] # "resetting"
    BY <1>1, <1>3 DEF TurnInv, PortsTypeOK
  <2> QED BY <1>1, <1>3, <1>4, <1>5, <2>1 DEF TurnInv
<1>8. EventInv' /\ NoDangling'
  BY <1>1, <1>2, EventStays DEF IInv
<1>9. SlotInv'
  <2> SUFFICES ASSUME Orderly'
               PROVE  (/\ DownOnce /\ DownInv /\ EnabledInv /\ AddressInv
                       /\ ContextInv /\ DefaultInv)'
    BY DEF SlotInv
  <2>1. DownOnce /\ DownInv /\ EnabledInv /\ AddressInv /\ ContextInv /\ DefaultInv
    BY <1>1 DEF SlotInv, Orderly
  <2>2. DownOnce' /\ DownInv' /\ EnabledInv' /\ ContextInv'
    <3>1. \A s \in Slot : bound'[s] # 0 =>
            bound'[s] = bound[s] /\ conn'[bound[s]] /\ slotport'[s] = slotport[s]
      BY <1>1, <2>1 DEF ContextInv
    <3> QED BY <1>1, <1>6, <2>1, <3>1, SlotsStay
  <2>3. AddressInv'
    BY <1>5 DEF AddressInv
  <2>4. DefaultInv'
    BY <1>1, <1>5, <2>1 DEF DefaultInv
  <2> QED BY <2>2, <2>3, <2>4
<1> QED BY <1>7, <1>8, <1>9 DEF IInv

-------------------------------------------------------------------------------
(* The port is empty: the slot it owns is taken down *)

LEMMA HandleGone ==
  ASSUME IInv, PortsTypeOK', NEW p \in Port, PortGone(p)
  PROVE  IInv'
<1> USE DEF slots, device
<1> DEFINE u == portslot[p]
<1>1. /\ PortsTypeOK /\ TurnInv /\ SlotInv /\ evq # <<>> /\ Done
      /\ Send(ConfigureEndpoint(u, TRUE)) /\ ~conn[p]
      /\ phase' = [phase EXCEPT ![p] = "waitreset"]
      /\ UNCHANGED <<addrport, slots, device, short>>
      /\ early' = (early \/ ~Owned(p))
      /\ u \in SlotOrNone
  BY DEF IInv, PortGone, Changed, Event, PortsTypeOK
<1>2. /\ EvShift(1)
      /\ \A s : ~DownEv(1, s) /\ ~GoneEv(1, s)
  BY <1>1, QuietTaken DEF PortGone, Changed, Event, Completion
<1>3. PICK n \in Nat \ {0} :
        /\ \A i : CmdTurn(i)' <=> CmdTurn(i)
        /\ \A i, s, q : AddressCmd(i, s, q)' <=> AddressCmd(i, s, q)
        /\ \A i, s : DownCmd(i, s)' <=> DownCmd(i, s) \/ (i = n /\ s = u)
        /\ \A i : CmdTurn(i) => i < n
        /\ \A i, s : DownCmd(i, s) => i < n
  <2> DEFINE cmd == ConfigureEndpoint(u, TRUE)
  <2>1. cmd \in CmdSet /\ cmd.type = "deconfigure" /\ cmd.slot = u /\ cmds' = Append(cmds, cmd)
    BY <1>1, CommandTypes DEF ConfigureEndpoint, Send
  <2> HIDE DEF cmd, u
  <2> QED BY <1>1, <2>1, CmdAdded DEF TearsDown
<1> HIDE DEF u
<1>4. \A i \in Nat : i + 0 = i
  OBVIOUS
<1>5. TurnInv'
  <2>1. TurnKept(0, 1)
    BY <1>1, <1>2, <1>3, <1>4, Places DEF TurnKept, EvShift
  <2>2. \A q \in Port : phase'[q] = "resetting" => phase[q] = "resetting"
    BY <1>1 DEF PortsTypeOK
  <2> QED BY <1>1, <2>1, <2>2, TurnStays
<1>6. EventInv' /\ NoDangling'
  BY <1>1, <1>2, EventStays DEF IInv
<1>7. ASSUME Orderly'
      PROVE  /\ DownOnce /\ DownInv /\ EnabledInv /\ AddressInv /\ ContextInv /\ DefaultInv
             /\ Orderly /\ Owned(p)
  BY <1>1, <1>7 DEF SlotInv, Orderly, Owned
\* The slot that portslot names is the port's, and no device is behind it.
<1>8. ASSUME Orderly'
      PROVE  /\ u \in Slot /\ u \in context /\ u \in enabled /\ bound[u] = 0
             /\ slotport[u] = p
             /\ \A i : ~DownCmd(i, u) /\ ~DownEv(i, u) /\ ~GoneEv(i, u) /\ ~EnabledEv(i, u)
  <2>1. u \in context \ {0} /\ slotport[u] = p /\ ~Teardown(u)
    BY <1>7, <1>8 DEF Owned, u
  <2>2. u \in enabled /\ u \in Slot
    BY <1>1, <1>7, <1>8, <2>1 DEF ContextInv, PortsTypeOK
  <2>3. bound[u] = 0
    BY <1>1, <1>7, <1>8, <2>1, <2>2 DEF ContextInv
  <2>4. \A i : ~DownCmd(i, u) /\ ~DownEv(i, u) /\ ~GoneEv(i, u)
    BY <2>1, Tearing
  <2>5. \A i : ~EnabledEv(i, u)
    BY <1>7, <1>8, <2>1 DEF ContextInv
  <2> QED BY <2>1, <2>2, <2>3, <2>4, <2>5
<1>9. SlotInv'
  <2> SUFFICES ASSUME Orderly'
               PROVE  (/\ DownOnce /\ DownInv /\ EnabledInv /\ AddressInv
                       /\ ContextInv /\ DefaultInv)'
    BY DEF SlotInv
  <2>1. /\ \A i, s : EnabledEv(i, s)' => i \in Nat \ {0} /\ EnabledEv(i + 1, s)
        /\ \A i, s : DownEv(i, s)' => i \in Nat \ {0} /\ DownEv(i + 1, s)
        /\ \A i, s : GoneEv(i, s)' => i \in Nat \ {0} /\ GoneEv(i + 1, s)
        /\ \A i, s : DownEv(i, s) => DownEv(i - 1, s)'
        /\ \A i, s : GoneEv(i, s) => GoneEv(i - 1, s)'
    <3>1. \A i, s : DownEv(i, s) \/ GoneEv(i, s) => i - 1 \in Nat \ {0} /\ (i - 1) + 1 = i
      BY <1>1, <1>2, Places
    <3> QED BY <1>2, <3>1 DEF EvShift
  <2>2. DownOnce'
    <3>1. \A i, j \in Nat : i + 1 = j + 1 => i = j
      OBVIOUS
    <3>2. \A s, i, j : DownCmd(i, s)' /\ DownCmd(j, s)' => i = j
      <4> SUFFICES ASSUME NEW s, NEW i, NEW j, DownCmd(i, s)', DownCmd(j, s)' PROVE i = j
        OBVIOUS
      <4>1. CASE s = u
        BY <1>3, <1>8, <4>1
      <4>2. CASE s # u
        BY <1>3, <1>7, <4>2 DEF DownOnce
      <4> QED BY <4>1, <4>2
    <3>3. \A s, i, j : ~(DownCmd(i, s)' /\ DownEv(j, s)') /\ ~(DownCmd(i, s)' /\ GoneEv(j, s)')
      <4> SUFFICES ASSUME NEW s, NEW i, NEW j, DownCmd(i, s)'
                   PROVE  ~DownEv(j, s)' /\ ~GoneEv(j, s)'
        OBVIOUS
      <4>1. CASE s = u
        BY <1>8, <2>1, <4>1
      <4>2. CASE s # u
        BY <1>3, <1>7, <2>1, <4>2 DEF DownOnce
      <4> QED BY <4>1, <4>2
    <3>4. \A s, i, j : /\ DownEv(i, s)' /\ DownEv(j, s)' => i = j
                       /\ GoneEv(i, s)' /\ GoneEv(j, s)' => i = j
      <4> SUFFICES ASSUME NEW s, NEW i, NEW j
                   PROVE  /\ DownEv(i, s)' /\ DownEv(j, s)' => i = j
                          /\ GoneEv(i, s)' /\ GoneEv(j, s)' => i = j
        OBVIOUS
      <4>1. DownEv(i, s)' /\ DownEv(j, s)' => i \in Nat /\ j \in Nat /\ i + 1 = j + 1
        BY <1>7, <2>1 DEF DownOnce
      <4>2. GoneEv(i, s)' /\ GoneEv(j, s)' => i \in Nat /\ j \in Nat /\ i + 1 = j + 1
        BY <1>7, <2>1 DEF DownOnce
      <4> QED BY <3>1, <4>1, <4>2
    <3>5. \A s, i, j : ~(DownEv(i, s)' /\ GoneEv(j, s)')
      BY <1>7, <2>1 DEF DownOnce
    <3> QED BY <3>2, <3>3, <3>4, <3>5 DEF DownOnce
  <2>3. DownInv'
    BY <1>1, <1>3, <1>7, <1>8, <2>1 DEF DownInv
  <2>4. EnabledInv'
    <3> SUFFICES ASSUME NEW s, NEW i, EnabledEv(i, s)'
                 PROVE  /\ s \in enabled /\ bound[s] = 0
                        /\ \A j : ~DownCmd(j, s)' /\ ~DownEv(j, s)'
                        /\ \A j : GoneEv(j, s)' => j < i
      BY <1>1 DEF EnabledInv
    <3>1. i \in Nat /\ EnabledEv(i + 1, s) /\ s # u
      BY <1>8, <2>1
    <3>2. /\ s \in enabled /\ bound[s] = 0
          /\ \A j : ~DownCmd(j, s) /\ ~DownEv(j, s)
          /\ \A j : GoneEv(j, s) => j < i + 1
      BY <1>7, <3>1 DEF EnabledInv
    <3>3. \A j : ~DownCmd(j, s)' /\ ~DownEv(j, s)'
      BY <1>3, <2>1, <3>1, <3>2
    <3>4. ASSUME NEW j, GoneEv(j, s)' PROVE j < i
      <4>1. j \in Nat /\ j + 1 < i + 1
        BY <2>1, <3>2, <3>4
      <4> QED BY <3>1, <4>1
    <3> QED BY <3>2, <3>3, <3>4
  <2>5. AddressInv'
    <3> SUFFICES ASSUME NEW s, NEW q, NEW i, AddressCmd(i, s, q)'
                 PROVE  /\ s \in enabled /\ s \in context /\ bound[s] = 0
                        /\ \A j : ~DownEv(j, s)' /\ ~GoneEv(j, s)'
                        /\ \A j : DownCmd(j, s)' => i < j /\ dev[addrport] # "default"
      BY <1>1 DEF AddressInv
    <3>1. AddressCmd(i, s, q) /\ i < n
      BY <1>1, <1>3, Places
    <3>2. /\ s \in enabled /\ s \in context /\ bound[s] = 0
          /\ \A j : ~DownEv(j, s) /\ ~GoneEv(j, s)
          /\ \A j : DownCmd(j, s) => i < j /\ dev[addrport] # "default"
      BY <1>7, <3>1 DEF AddressInv
    <3>3. s = u => dev[addrport] # "default"
      <4>1. s = u => addrport = p
        BY <1>1, <1>8, <3>1 DEF TurnInv
      <4> QED BY <1>1, <1>7, <4>1 DEF DefaultInv
    <3> QED BY <1>3, <2>1, <3>1, <3>2, <3>3
  <2>6. ContextInv'
    <3>1. \A s : Teardown(s) => Teardown(s)'
      BY <1>3, <2>1, Tearing
    <3> QED BY <1>1, <1>7, <2>1, <3>1 DEF ContextInv
  <2>7. DefaultInv'
    BY <1>1, <1>2, <1>7 DEF DefaultInv, EvShift
  <2> QED BY <2>2, <2>3, <2>4, <2>5, <2>6, <2>7
<1> QED BY <1>5, <1>6, <1>9 DEF IInv

-------------------------------------------------------------------------------
(* The completions of Enable Slot and Address Device *)

LEMMA HandleSlotEnabled ==
  ASSUME IInv, PortsTypeOK', NEW s \in SlotOrNone, SlotEnabled(s)
  PROVE  IInv'
<1> USE DEF change, device, history
<1>1. /\ PortsTypeOK /\ TurnInv /\ SlotInv /\ EventInv /\ NoDangling
      /\ evq # <<>> /\ Completion("enable") /\ Head(evq).slot = s /\ Done
      /\ slotport' = [slotport EXCEPT ![s] = addrport]
      /\ slotphase' = [slotphase EXCEPT ![s] = "addressing"]
      /\ context' = context \cup {s}
      /\ Send(AddressDevice(s, addrport))
      /\ UNCHANGED <<phase, addrport, made, conn, dev, bound, enabled, open, early, short>>
  BY DEF IInv, SlotEnabled, Completion, Event
<1>2. EvShift(1) /\ EnabledEv(1, s) /\ \A t : ~DownEv(1, t) /\ ~GoneEv(1, t)
  BY <1>1, EvTaken, First1 DEF Done, Completion
<1>3. /\ EvTurn(1) /\ addrport # 0
      /\ \A i : ~CmdTurn(i)
      /\ \A i : EvTurn(i) => i = 1
      /\ \A q \in Port : phase[q] # "resetting"
  <2>1. EvTurn(1)
    BY <1>1, <1>2, Places
  <2> QED BY <1>1, <2>1 DEF TurnInv
<1>4. PICK n \in Nat \ {0} :
        /\ \A i : CmdTurn(i)' <=> CmdTurn(i) \/ i = n
        /\ \A i, t, q : AddressCmd(i, t, q)' <=>
             AddressCmd(i, t, q) \/ (i = n /\ t = s /\ q = addrport)
        /\ \A i, t : DownCmd(i, t)' <=> DownCmd(i, t)
  <2> DEFINE cmd == AddressDevice(s, addrport)
  <2>1. /\ cmd \in CmdSet /\ cmd.type = "address" /\ cmd.slot = s /\ cmd.port = addrport
        /\ cmds' = Append(cmds, cmd)
    BY <1>1, CommandTypes DEF AddressDevice, Send, PortsTypeOK
  <2> HIDE DEF cmd
  <2> QED BY <1>1, <2>1, CmdAdded DEF TearsDown
<1>5. /\ \A i : ~EvTurn(i)' /\ ~AddressEv(i)'
      /\ \A i, t : ~EnabledEv(i, t)'
  <2>1. \A i : ~EvTurn(i)'
    BY <1>2, <1>3 DEF EvShift
  <2> QED BY <2>1 DEF EvTurn, AddressEv, EnabledEv
<1>6. \A i, t, q : AddressCmd(i, t, q)' <=> (i = n /\ t = s /\ q = addrport)
  BY <1>1, <1>3, <1>4, Places
<1>7. DownKept(0, 1)
  <2>1. \A i \in Nat : i + 0 = i
    OBVIOUS
  <2>2. \A i, t : DownCmd(i, t)' <=> i \in Nat \ {0} /\ DownCmd(i + 0, t)
    BY <1>1, <1>4, <2>1, Places
  <2> QED BY <1>1, <1>2, <2>2, KeptDown
<1>8. TurnInv'
  <2>1. slotport'[s] = addrport /\ slotphase'[s] = "addressing"
    BY <1>1 DEF PortsTypeOK
  <2> QED BY <1>1, <1>3, <1>4, <1>5, <1>6, <2>1 DEF TurnInv
<1>9. EventInv' /\ NoDangling'
  <2>1. \A t \in Slot : slotphase'[t] \in {"setconf", "starting"} =>
           slotphase[t] \in {"setconf", "starting"}
    BY <1>1 DEF PortsTypeOK
  <2> QED BY <1>1, <1>2, <2>1, EventStays
<1>10. SlotInv'
  <2> SUFFICES ASSUME Orderly'
               PROVE  (/\ DownOnce /\ DownInv /\ EnabledInv /\ AddressInv
                       /\ ContextInv /\ DefaultInv)'
    BY DEF SlotInv
  <2>1. DownOnce /\ DownInv /\ EnabledInv /\ AddressInv /\ ContextInv /\ DefaultInv
    BY <1>1 DEF SlotInv, Orderly
  <2>2. /\ s \in enabled /\ s \in Slot /\ bound[s] = 0
        /\ \A j : ~DownCmd(j, s) /\ ~DownEv(j, s) /\ ~GoneEv(j, s)
    <3>1. /\ s \in enabled /\ bound[s] = 0
          /\ \A j : ~DownCmd(j, s) /\ ~DownEv(j, s)
          /\ \A j : GoneEv(j, s) => j < 1
      BY <1>2, <2>1 DEF EnabledInv
    <3>2. \A j : ~GoneEv(j, s)
      BY <1>1, <3>1, Places
    <3> QED BY <1>1, <3>1, <3>2 DEF PortsTypeOK
  <2>3. DownOnce' /\ DownInv' /\ EnabledInv' /\ ContextInv'
    <3>1. \A t \in Slot : bound'[t] # 0 =>
            bound'[t] = bound[t] /\ conn'[bound[t]] /\ slotport'[t] = slotport[t]
      BY <1>1, <2>1, <2>2 DEF ContextInv, PortsTypeOK
    <3> QED BY <1>1, <1>5, <1>7, <2>1, <2>2, <3>1, SlotsStay
  <2>4. AddressInv'
    <3>1. \A j : ~DownCmd(j, s)' /\ ~DownEv(j, s)' /\ ~GoneEv(j, s)'
      BY <2>2, <1>7 DEF DownKept
    <3> QED BY <1>1, <1>6, <2>2, <3>1 DEF AddressInv
  <2>5. DefaultInv'
    BY <1>1, <1>5, <2>1 DEF DefaultInv
  <2> QED BY <2>3, <2>4, <2>5
<1> QED BY <1>8, <1>9, <1>10 DEF IInv

LEMMA HandleSlotAddressed ==
  ASSUME IInv, PortsTypeOK', NEW s \in SlotOrNone, SlotAddressed(s)
  PROVE  IInv'
<1> USE DEF device, history
<1>1. /\ PortsTypeOK /\ TurnInv /\ SlotInv /\ EventInv /\ NoDangling
      /\ evq # <<>> /\ Completion("address") /\ Head(evq).slot = s /\ Done
      /\ addrport' = 0
      /\ slotphase' = [slotphase EXCEPT ![s] = "getcdesc"]
      /\ UNCHANGED <<phase, slotport, made, context, cmds, conn, dev, bound, enabled, open,
                     early, short>>
  BY DEF IInv, SlotAddressed, Completion, Event
<1>2. /\ EvShift(1) /\ CmdShift(0) /\ AddressEv(1)
      /\ \A t : ~DownEv(1, t) /\ ~GoneEv(1, t)
  BY <1>1, EvTaken, First1, Unmoved DEF Done, Completion
<1>3. /\ EvTurn(1) /\ addrport # 0
      /\ \A i : ~CmdTurn(i)
      /\ \A i : EvTurn(i) => i = 1
      /\ \A q \in Port : phase[q] # "resetting"
  <2>1. EvTurn(1)
    BY <1>1, <1>2, Places
  <2> QED BY <1>1, <2>1 DEF TurnInv
<1>4. /\ \A i : ~EvTurn(i)' /\ ~AddressEv(i)' /\ ~CmdTurn(i)'
      /\ \A i, t, q : ~AddressCmd(i, t, q)'
  <2>1. \A i : ~EvTurn(i)'
    BY <1>2, <1>3 DEF EvShift
  <2>2. \A i : ~CmdTurn(i)'
    BY <1>2, <1>3 DEF CmdShift
  <2> QED BY <2>1, <2>2 DEF EvTurn, CmdTurn, AddressEv, AddressCmd
<1>5. DownKept(0, 1)
  BY <1>1, <1>2, Kept
<1>6. TurnInv'
  BY <1>1, <1>3, <1>4 DEF TurnInv
<1>7. EventInv' /\ NoDangling'
  <2>1. \A t \in Slot : slotphase'[t] \in {"setconf", "starting"} =>
           slotphase[t] \in {"setconf", "starting"}
    BY <1>1 DEF PortsTypeOK
  <2> QED BY <1>1, <1>2, <2>1, EventStays
<1>8. SlotInv'
  <2> SUFFICES ASSUME Orderly'
               PROVE  (/\ DownOnce /\ DownInv /\ EnabledInv /\ AddressInv
                       /\ ContextInv /\ DefaultInv)'
    BY DEF SlotInv
  <2>1. DownOnce /\ DownInv /\ EnabledInv /\ AddressInv /\ ContextInv /\ DefaultInv
    BY <1>1 DEF SlotInv, Orderly
  <2>2. DownOnce' /\ DownInv' /\ EnabledInv' /\ ContextInv'
    <3>1. \A t \in Slot : bound'[t] # 0 =>
            bound'[t] = bound[t] /\ conn'[bound[t]] /\ slotport'[t] = slotport[t]
      BY <1>1, <2>1 DEF ContextInv
    <3> QED BY <1>1, <1>5, <2>1, <3>1, SlotsStay
  <2>3. AddressInv'
    BY <1>4 DEF AddressInv
  <2>4. DefaultInv'
    BY <1>1, <1>2, <2>1 DEF DefaultInv
  <2> QED BY <2>2, <2>3, <2>4
<1> QED BY <1>6, <1>7, <1>8 DEF IInv

-------------------------------------------------------------------------------
(* A slot on its way out *)

\* What the shift of the events leaves of DownOnce and of EnabledInv.
LEMMA EvOnce ==
  ASSUME PortsTypeOK, DownOnce, EnabledInv, NEW l \in {0, 1}, EvShift(l)
  PROVE  /\ \A s, i, j : DownEv(i, s)' /\ DownEv(j, s)' => i = j
         /\ \A s, i, j : GoneEv(i, s)' /\ GoneEv(j, s)' => i = j
         /\ \A s, i, j : ~(DownEv(i, s)' /\ GoneEv(j, s)')
         /\ \A s, i, j : EnabledEv(i, s)' => ~DownEv(j, s)' /\ (GoneEv(j, s)' => j < i)
<1>1. \A i, j \in Nat : /\ i + l = j + l => i = j
                        /\ j + l < i + l => j < i
  OBVIOUS
<1>2. ASSUME NEW s, NEW i, NEW j, DownEv(i, s)', DownEv(j, s)' PROVE i = j
  <2>1. i \in Nat /\ j \in Nat /\ i + l = j + l
    BY <1>2 DEF DownOnce, EvShift
  <2> QED BY <1>1, <2>1
<1>3. ASSUME NEW s, NEW i, NEW j, GoneEv(i, s)', GoneEv(j, s)' PROVE i = j
  <2>1. i \in Nat /\ j \in Nat /\ i + l = j + l
    BY <1>3 DEF DownOnce, EvShift
  <2> QED BY <1>1, <2>1
<1>4. \A s, i, j : ~(DownEv(i, s)' /\ GoneEv(j, s)')
  BY DEF DownOnce, EvShift
<1>5. ASSUME NEW s, NEW i, NEW j, EnabledEv(i, s)'
      PROVE  ~DownEv(j, s)' /\ (GoneEv(j, s)' => j < i)
  <2>1. i \in Nat /\ EnabledEv(i + l, s)
    BY <1>5 DEF EvShift
  <2>2. ~DownEv(j, s)'
    BY <2>1 DEF EnabledInv, EvShift
  <2>3. GoneEv(j, s)' => j \in Nat /\ j + l < i + l
    BY <2>1 DEF EnabledInv, EvShift
  <2> QED BY <1>1, <2>1, <2>2, <2>3
<1> QED BY <1>2, <1>3, <1>4, <1>5

LEMMA HandleSlotDeconfigured ==
  ASSUME IInv, PortsTypeOK', NEW u \in SlotOrNone, SlotDeconfigured(u)
  PROVE  IInv'
<1> USE DEF turn, slots, device, history
<1>1. /\ PortsTypeOK /\ TurnInv /\ SlotInv /\ EventInv /\ NoDangling
      /\ evq # <<>> /\ Completion("deconfigure") /\ Head(evq).slot = u /\ Done
      /\ Send(DisableSlot(u))
      /\ UNCHANGED <<turn, slots, device, early, short>>
  BY DEF IInv, SlotDeconfigured, Completion, Event
<1>2. EvShift(1) /\ DownEv(1, u) /\ \A t : ~GoneEv(1, t) /\ (DownEv(1, t) => t = u)
  BY <1>1, EvTaken, First1 DEF Done, Completion
<1>3. PICK n \in Nat \ {0} :
        /\ \A i : CmdTurn(i)' <=> CmdTurn(i)
        /\ \A i, t, q : AddressCmd(i, t, q)' <=> AddressCmd(i, t, q)
        /\ \A i, t : DownCmd(i, t)' <=> DownCmd(i, t) \/ (i = n /\ t = u)
  <2> DEFINE cmd == DisableSlot(u)
  <2>1. cmd \in CmdSet /\ cmd.type = "disable" /\ cmd.slot = u /\ cmds' = Append(cmds, cmd)
    BY <1>1, CommandTypes DEF DisableSlot, Send
  <2> HIDE DEF cmd
  <2> QED BY <1>1, <2>1, CmdAdded DEF TearsDown
<1>4. TurnInv'
  <2>1. \A i \in Nat : i + 0 = i
    OBVIOUS
  <2>2. TurnKept(0, 1)
    BY <1>1, <1>2, <1>3, <2>1, Places DEF TurnKept, EvShift
  <2> QED BY <1>1, <2>2, TurnStays
<1>5. EventInv' /\ NoDangling'
  BY <1>1, <1>2, EventStays
<1>6. SlotInv'
  <2> SUFFICES ASSUME Orderly'
               PROVE  (/\ DownOnce /\ DownInv /\ EnabledInv /\ AddressInv
                       /\ ContextInv /\ DefaultInv)'
    BY DEF SlotInv
  <2>1. DownOnce /\ DownInv /\ EnabledInv /\ AddressInv /\ ContextInv /\ DefaultInv
    BY <1>1 DEF SlotInv, Orderly
  <2>2. /\ u \in enabled /\ u \in context /\ bound[u] = 0
        /\ \A i : ~DownCmd(i, u) /\ ~GoneEv(i, u) /\ ~EnabledEv(i, u)
        /\ \A i : DownEv(i, u) => i = 1
        /\ \A i, q : ~AddressCmd(i, u, q)
    BY <1>2, <2>1 DEF DownInv, DownOnce, EnabledInv, AddressInv
  <2>3. \A i : ~DownEv(i, u)' /\ ~GoneEv(i, u)' /\ ~EnabledEv(i, u)'
    BY <1>2, <2>2 DEF EvShift
  <2>4. \A t : t # u => \A i : DownCmd(i, t)' <=> DownCmd(i, t)
    BY <1>3
  <2>5. \A i : DownCmd(i, u)' <=> i = n
    BY <1>3, <2>2
  <2>6. /\ \A s, i, j : DownEv(i, s)' /\ DownEv(j, s)' => i = j
        /\ \A s, i, j : GoneEv(i, s)' /\ GoneEv(j, s)' => i = j
        /\ \A s, i, j : ~(DownEv(i, s)' /\ GoneEv(j, s)')
        /\ \A s, i, j : EnabledEv(i, s)' => ~DownEv(j, s)' /\ (GoneEv(j, s)' => j < i)
    BY <1>1, <1>2, <2>1, EvOnce
  <2>7. DownOnce'
    <3>1. \A s, i, j : DownCmd(i, s)' /\ DownCmd(j, s)' => i = j
      BY <2>1, <2>4, <2>5 DEF DownOnce
    <3>2. \A s, i, j : ~(DownCmd(i, s)' /\ DownEv(j, s)')
      BY <1>2, <2>1, <2>3, <2>4 DEF DownOnce, EvShift
    <3>3. \A s, i, j : ~(DownCmd(i, s)' /\ GoneEv(j, s)')
      BY <1>2, <2>1, <2>3, <2>4 DEF DownOnce, EvShift
    <3> QED BY <2>6, <3>1, <3>2, <3>3 DEF DownOnce
  <2>8. DownInv'
    BY <1>1, <1>2, <1>3, <2>1, <2>2 DEF DownInv, EvShift
  <2>9. EnabledInv'
    <3>1. \A s, i : EnabledEv(i, s)' => \A j : ~DownCmd(j, s)'
      BY <1>2, <2>1, <2>3, <2>4 DEF EnabledInv, EvShift
    <3> QED BY <1>1, <1>2, <2>1, <2>6, <3>1 DEF EnabledInv, EvShift
  <2>10. AddressInv'
    <3> SUFFICES ASSUME NEW s, NEW q, NEW i, AddressCmd(i, s, q)'
                 PROVE  /\ s \in enabled /\ s \in context /\ bound[s] = 0
                        /\ \A j : ~DownEv(j, s)' /\ ~GoneEv(j, s)'
                        /\ \A j : DownCmd(j, s)' => i < j /\ dev[addrport] # "default"
      BY <1>1 DEF AddressInv
    <3>1. AddressCmd(i, s, q) /\ s # u
      BY <1>3, <2>2
    <3> QED BY <1>2, <2>1, <2>4, <3>1 DEF AddressInv, EvShift
  <2>11. ContextInv'
    <3>1. ASSUME NEW t, Teardown(t) PROVE Teardown(t)'
      <4>1. CASE t = u
        BY <2>5, <4>1, Tearing
      <4>2. CASE t # u
        <5>1. \A i : DownEv(i, t) \/ GoneEv(i, t) => i - 1 \in Nat \ {0} /\ (i - 1) + 1 = i
          BY <1>1, <1>2, <4>2, Places
        <5>2. \A i : (DownEv(i, t) => DownEv(i - 1, t)') /\ (GoneEv(i, t) => GoneEv(i - 1, t)')
          BY <1>2, <5>1 DEF EvShift
        <5> QED BY <2>4, <3>1, <4>2, <5>2, Tearing
      <4> QED BY <4>1, <4>2
    <3> QED BY <1>1, <1>2, <2>1, <3>1 DEF ContextInv, EvShift
  <2>12. DefaultInv'
    BY <1>1, <1>2, <2>1 DEF DefaultInv, EvShift
  <2> QED BY <2>7, <2>8, <2>9, <2>10, <2>11, <2>12
<1> QED BY <1>4, <1>5, <1>6 DEF IInv

LEMMA HandleSlotDisabled ==
  ASSUME IInv, PortsTypeOK', NEW u \in SlotOrNone, SlotDisabled(u)
  PROVE  IInv'
<1> USE DEF turn, device, history
<1>1. /\ PortsTypeOK /\ TurnInv /\ SlotInv /\ EventInv /\ NoDangling
      /\ evq # <<>> /\ Completion("disable") /\ Head(evq).slot = u /\ Done
      /\ made' = made \ {u} /\ context' = context \ {u}
      /\ UNCHANGED <<turn, slotphase, slotport, cmds, device, early, short>>
  BY DEF IInv, SlotDisabled, Completion, Event
<1>2. /\ EvShift(1) /\ CmdShift(0)
      /\ GoneEv(1, u) /\ \A t : ~DownEv(1, t) /\ (GoneEv(1, t) => t = u)
  BY <1>1, EvTaken, First1, Unmoved DEF Done, Completion
<1>3. \A i \in Nat : i + 0 = i
  OBVIOUS
<1>4. /\ \A i, t : DownCmd(i, t)' <=> DownCmd(i, t)
      /\ \A i, t, q : AddressCmd(i, t, q)' <=> AddressCmd(i, t, q)
  BY <1>1, <1>2, <1>3, Places DEF CmdShift
<1>5. TurnInv'
  <2>1. TurnKept(0, 1)
    BY <1>2 DEF TurnKept, EvShift, CmdShift
  <2> QED BY <1>1, <2>1, TurnStays
\* The transfers of the slot lie before the completion of its Disable Slot.
<1>6. EventInv' /\ NoDangling'
  <2>1. u \in Slot => u \notin open /\ \A j : XferEv(j, u) => j < 1
    BY <1>1, <1>2 DEF EventInv
  <2>2. \A j : ~XferEv(j, u)
    BY <1>1, <2>1, Places
  <2>3. \A i, s : XferEv(i, s)' => s # u /\ \E j : XferEv(j, s)
    BY <1>2, <2>2 DEF EvShift
  <2>4. NoDangling'
    BY <1>1, <2>3, Dangling
  <2>5. \A s \in open : s # u
    BY <1>1, <2>1 DEF PortsTypeOK
  <2>6. (\A s \in open : slotphase[s] \in {"setconf", "starting"} => s \in made)'
    BY <1>1, <2>5 DEF EventInv
  <2>7. ASSUME NEW s \in Slot, NEW i, GoneEv(i, s)'
        PROVE  /\ s \notin open
               /\ s \in enabled => \E j : EnabledEv(j, s)' /\ i < j
               /\ \A j : XferEv(j, s)' => j < i
    <3>1. i \in Nat \ {0} /\ GoneEv(i + 1, s)
      BY <1>2, <2>7 DEF EvShift
    <3>2. s \notin open
      BY <1>1, <3>1 DEF EventInv
    <3>3. ASSUME s \in enabled PROVE \E j : EnabledEv(j, s)' /\ i < j
      <4>1. PICK j : EnabledEv(j, s) /\ i + 1 < j
        BY <1>1, <3>1, <3>3 DEF EventInv
      <4>2. j \in Nat
        BY <1>1, <4>1, Places
      <4>3. j - 1 \in Nat \ {0} /\ i < j - 1 /\ (j - 1) + 1 = j
        BY <3>1, <4>1, <4>2
      <4>4. EnabledEv(j - 1, s)'
        BY <1>2, <4>1, <4>3 DEF EvShift
      <4> QED BY <4>3, <4>4
    <3>4. ASSUME NEW j, XferEv(j, s)' PROVE j < i
      <4>1. j \in Nat /\ XferEv(j + 1, s)
        BY <1>2, <3>4 DEF EvShift
      <4>2. j + 1 < i + 1
        BY <1>1, <3>1, <4>1 DEF EventInv
      <4> QED BY <3>1, <4>1, <4>2
    <3> QED BY <3>2, <3>3, <3>4
  <2>8. EventInv'
    BY <1>1, <2>6, <2>7 DEF EventInv
  <2> QED BY <2>4, <2>8
<1>7. SlotInv'
  <2> SUFFICES ASSUME Orderly'
               PROVE  (/\ DownOnce /\ DownInv /\ EnabledInv /\ AddressInv
                       /\ ContextInv /\ DefaultInv)'
    BY DEF SlotInv
  <2>1. DownOnce /\ DownInv /\ EnabledInv /\ AddressInv /\ ContextInv /\ DefaultInv
    BY <1>1 DEF SlotInv, Orderly
  <2>2. /\ u \in Slot /\ u # 0 /\ bound[u] = 0
        /\ \A i : ~DownCmd(i, u) /\ ~DownEv(i, u) /\ (GoneEv(i, u) => i = 1)
        /\ \A i, q : ~AddressCmd(i, u, q)
    BY <1>2, <2>1 DEF DownInv, DownOnce, AddressInv, Slot
  <2>3. \A i : ~DownCmd(i, u)' /\ ~DownEv(i, u)' /\ ~GoneEv(i, u)'
    BY <1>2, <1>4, <2>2 DEF EvShift
  <2>4. /\ \A s, i, j : DownEv(i, s)' /\ DownEv(j, s)' => i = j
        /\ \A s, i, j : GoneEv(i, s)' /\ GoneEv(j, s)' => i = j
        /\ \A s, i, j : ~(DownEv(i, s)' /\ GoneEv(j, s)')
        /\ \A s, i, j : EnabledEv(i, s)' => ~DownEv(j, s)' /\ (GoneEv(j, s)' => j < i)
    BY <1>1, <1>2, <2>1, EvOnce
  <2>5. DownOnce'
    <3>1. \A s, i, j : DownCmd(i, s)' /\ DownCmd(j, s)' => i = j
      BY <1>4, <2>1 DEF DownOnce
    <3>2. \A s, i, j : ~(DownCmd(i, s)' /\ DownEv(j, s)') /\ ~(DownCmd(i, s)' /\ GoneEv(j, s)')
      BY <1>2, <1>4, <2>1 DEF DownOnce, EvShift
    <3> QED BY <2>4, <3>1, <3>2 DEF DownOnce
  <2>6. DownInv'
    BY <1>1, <1>2, <1>4, <2>1, <2>3 DEF DownInv, EvShift
  <2>7. EnabledInv'
    <3>1. \A s, i : EnabledEv(i, s)' => \A j : ~DownCmd(j, s)'
      BY <1>2, <1>4, <2>1 DEF EnabledInv, EvShift
    <3> QED BY <1>1, <1>2, <2>1, <2>4, <3>1 DEF EnabledInv, EvShift
  <2>8. AddressInv'
    <3> SUFFICES ASSUME NEW s, NEW q, NEW i, AddressCmd(i, s, q)'
                 PROVE  /\ s \in enabled /\ s \in context' /\ bound[s] = 0
                        /\ \A j : ~DownEv(j, s)' /\ ~GoneEv(j, s)'
                        /\ \A j : DownCmd(j, s)' => i < j /\ dev[addrport] # "default"
      BY <1>1 DEF AddressInv
    <3>1. AddressCmd(i, s, q) /\ s # u
      BY <1>4, <2>2
    <3> QED BY <1>1, <1>2, <1>4, <2>1, <3>1 DEF AddressInv, EvShift
  <2>9. ContextInv'
    <3>1. ASSUME NEW t, t # u, Teardown(t) PROVE Teardown(t)'
      <4>1. \A i : DownEv(i, t) \/ GoneEv(i, t) => i - 1 \in Nat \ {0} /\ (i - 1) + 1 = i
        BY <1>1, <1>2, <3>1, Places
      <4>2. \A i : (DownEv(i, t) => DownEv(i - 1, t)') /\ (GoneEv(i, t) => GoneEv(i - 1, t)')
        BY <1>2, <4>1 DEF EvShift
      <4> QED BY <1>4, <3>1, <4>2, Tearing
    <3> QED BY <1>1, <1>2, <2>1, <2>2, <3>1 DEF ContextInv, EvShift
  <2>10. DefaultInv'
    BY <1>1, <1>2, <2>1 DEF DefaultInv, EvShift
  <2> QED BY <2>5, <2>6, <2>7, <2>8, <2>9, <2>10
<1> QED BY <1>5, <1>6, <1>7 DEF IInv

-------------------------------------------------------------------------------
(* The controller *)

LEMMA CmdOnce ==
  ASSUME PortsTypeOK, DownOnce, CmdShift(1)
  PROVE  \A s, i, j : DownCmd(i, s)' /\ DownCmd(j, s)' => i = j
<1>1. \A i, j \in Nat : i + 1 = j + 1 => i = j
  OBVIOUS
<1> SUFFICES ASSUME NEW s, NEW i, NEW j, DownCmd(i, s)', DownCmd(j, s)' PROVE i = j
  OBVIOUS
<1>2. i \in Nat /\ j \in Nat /\ i + 1 = j + 1
  BY DEF DownOnce, CmdShift
<1> QED BY <1>1, <1>2

LEMMA Executed ==
  ASSUME PortsTypeOK, NEW t \in CmdType, NEW s \in SlotOrNone, Execute(t), Report(t, s)
  PROVE  /\ CmdShift(1)
         /\ \E m \in Nat \ {0} :
              /\ \A i : EvTurn(i)' <=> EvTurn(i) \/ (i = m /\ t \in {"enable", "address"})
              /\ \A i : AddressEv(i)' <=> AddressEv(i) \/ (i = m /\ t = "address")
              /\ \A i, u : EnabledEv(i, u)' <=> EnabledEv(i, u) \/ (i = m /\ t = "enable" /\ u = s)
              /\ \A i, u : DownEv(i, u)' <=> DownEv(i, u) \/ (i = m /\ t = "deconfigure" /\ u = s)
              /\ \A i, u : GoneEv(i, u)' <=> GoneEv(i, u) \/ (i = m /\ t = "disable" /\ u = s)
              /\ \A i, u : XferEv(i, u)' <=> XferEv(i, u)
              /\ \A i : EvTurn(i) => i < m
              /\ \A i, u : DownEv(i, u) \/ GoneEv(i, u) \/ XferEv(i, u) => i < m
<1>1. CmdShift(1)
  BY CmdTaken DEF Execute, Report
<1> DEFINE e == CmdEvent(t, s)
<1>2. /\ e \in EventSet /\ e.kind = "cmd" /\ e.type = t /\ e.slot = s
      /\ evq' = Append(evq, e)
  BY DEF CmdEvent, EventSet, Report
<1> HIDE DEF e
<1> QED BY <1>1, <1>2, EvAdded

\* Enable Slot finds a slot that is not in use, or none.
LEMMA HandleExecEnable ==
  ASSUME IInv, PortsTypeOK', ExecEnable
  PROVE  IInv'
<1> USE DEF turn, slots, change, history
<1>0. PICK u \in Slot \ enabled : enabled' = enabled \cup {u} /\ Report("enable", u)
  BY DEF ExecEnable
<1>1. /\ PortsTypeOK /\ TurnInv /\ SlotInv /\ EventInv /\ NoDangling
      /\ cmds # <<>> /\ Execute("enable")
      /\ UNCHANGED <<turn, slots, conn, dev, bound, open, early, short>>
  BY <1>0 DEF IInv, ExecEnable, Execute, Report
<1>2. CmdShift(1) /\ CmdTurn(1) /\ \A t : ~DownCmd(1, t)
  <2>1. u \in SlotOrNone /\ "enable" \in CmdType
    BY DEF Slot, SlotOrNone, CmdType
  <2> QED BY <1>0, <1>1, <2>1, Executed, First1 DEF Execute
<1>3. PICK m \in Nat \ {0} :
        /\ \A i : EvTurn(i)' <=> EvTurn(i) \/ i = m
        /\ \A i : AddressEv(i)' <=> AddressEv(i)
        /\ \A i, t : EnabledEv(i, t)' <=> EnabledEv(i, t) \/ (i = m /\ t = u)
        /\ \A i, t : DownEv(i, t)' <=> DownEv(i, t)
        /\ \A i, t : GoneEv(i, t)' <=> GoneEv(i, t)
        /\ \A i, t : XferEv(i, t)' <=> XferEv(i, t)
        /\ \A i, t : GoneEv(i, t) => i < m
  <2>1. u \in SlotOrNone /\ "enable" \in CmdType
    BY DEF Slot, SlotOrNone, CmdType
  <2> QED BY <1>0, <1>1, <2>1, Executed
<1>4. /\ addrport # 0 /\ \A q \in Port : phase[q] # "resetting"
      /\ \A i : CmdTurn(i) => i = 1
      /\ \A i : ~EvTurn(i)
  BY <1>1, <1>2 DEF TurnInv
<1>5. \A i : ~CmdTurn(i)'
  BY <1>2, <1>4 DEF CmdShift
<1>6. /\ \A i, t, q : ~AddressCmd(i, t, q)'
      /\ \A i, t : ~EnabledEv(i, t)
      /\ \A i : ~AddressEv(i)
  BY <1>4, <1>5 DEF AddressCmd, CmdTurn, EnabledEv, AddressEv, EvTurn
<1>7. TurnInv'
  BY <1>1, <1>3, <1>4, <1>5, <1>6 DEF TurnInv
<1>8. EventInv' /\ NoDangling'
  <2>1. NoDangling'
    BY <1>1, <1>3, Dangling
  <2>2. EventInv'
    BY <1>0, <1>1, <1>3 DEF EventInv
  <2> QED BY <2>1, <2>2
<1>9. SlotInv'
  <2> SUFFICES ASSUME Orderly'
               PROVE  (/\ DownOnce /\ DownInv /\ EnabledInv /\ AddressInv
                       /\ ContextInv /\ DefaultInv)'
    BY DEF SlotInv
  <2>1. DownOnce /\ DownInv /\ EnabledInv /\ AddressInv /\ ContextInv /\ DefaultInv
    BY <1>1 DEF SlotInv, Orderly
  <2>2. \A i : ~DownCmd(i, u) /\ ~DownEv(i, u)
    BY <1>0, <2>1 DEF DownInv
  <2>3. DownOnce'
    <3>1. \A s, i, j : DownCmd(i, s)' /\ DownCmd(j, s)' => i = j
      BY <1>1, <1>2, <2>1, CmdOnce
    <3> QED BY <1>2, <1>3, <2>1, <3>1 DEF DownOnce, CmdShift
  <2>4. DownInv'
    BY <1>0, <1>1, <1>2, <1>3, <2>1 DEF DownInv, CmdShift
  <2>5. EnabledInv'
    <3>1. bound[u] = 0
      BY <1>0, <2>1 DEF ContextInv
    <3>2. \A i : ~DownCmd(i, u)' /\ ~DownEv(i, u)' /\ (GoneEv(i, u)' => i < m)
      BY <1>2, <1>3, <2>2 DEF CmdShift
    <3> QED BY <1>0, <1>1, <1>3, <1>6, <3>1, <3>2 DEF EnabledInv
  <2>6. AddressInv'
    BY <1>6 DEF AddressInv
  <2>7. ContextInv'
    <3>1. ASSUME NEW t, Teardown(t) PROVE Teardown(t)'
      <4>1. \A i : DownCmd(i, t) => i - 1 \in Nat \ {0} /\ (i - 1) + 1 = i
        BY <1>1, <1>2, Places
      <4>2. \A i : DownCmd(i, t) => DownCmd(i - 1, t)'
        BY <1>2, <4>1 DEF CmdShift
      <4> QED BY <1>3, <3>1, <4>2, Tearing
    <3> QED BY <1>0, <1>1, <1>3, <1>6, <2>1, <3>1 DEF ContextInv
  <2>8. DefaultInv'
    BY <1>1, <1>3, <2>1 DEF DefaultInv
  <2> QED BY <2>3, <2>4, <2>5, <2>6, <2>7, <2>8
<1> QED BY <1>7, <1>8, <1>9 DEF IInv

LEMMA HandleExecNoSlot ==
  ASSUME IInv, PortsTypeOK', ExecNoSlot
  PROVE  IInv'
<1> USE DEF turn, slots, change, history
<1>1. /\ PortsTypeOK /\ TurnInv /\ EventInv /\ NoDangling
      /\ cmds # <<>> /\ Execute("enable") /\ Report("enable", 0) /\ short'
      /\ UNCHANGED <<turn, slots, conn, dev, bound, enabled, open>>
  BY DEF IInv, ExecNoSlot, Execute, Report
<1>2. 0 \in SlotOrNone /\ "enable" \in CmdType
  BY SizesAssumption DEF SlotOrNone, CmdType
<1>3. CmdShift(1) /\ CmdTurn(1)
  BY <1>1, <1>2, Executed, First1 DEF Execute
<1>4. PICK m \in Nat \ {0} :
        /\ \A i : EvTurn(i)' <=> EvTurn(i) \/ i = m
        /\ \A i, t : EnabledEv(i, t)' <=> EnabledEv(i, t) \/ (i = m /\ t = 0)
        /\ \A i, t : GoneEv(i, t)' <=> GoneEv(i, t)
        /\ \A i, t : XferEv(i, t)' <=> XferEv(i, t)
  BY <1>1, <1>2, Executed
<1>5. /\ addrport # 0 /\ \A q \in Port : phase[q] # "resetting"
      /\ \A i : CmdTurn(i) => i = 1
      /\ \A i : ~EvTurn(i)
  BY <1>1, <1>3 DEF TurnInv
<1>6. \A i : ~CmdTurn(i)'
  BY <1>3, <1>5 DEF CmdShift
<1>7. \A i, t, q : ~AddressCmd(i, t, q)'
  BY <1>6 DEF AddressCmd, CmdTurn
<1>8. TurnInv'
  BY <1>1, <1>4, <1>5, <1>6, <1>7 DEF TurnInv
<1>9. NoDangling'
  BY <1>1, <1>4, Dangling
<1>10. EventInv'
  BY <1>1, <1>4 DEF EventInv
<1>11. SlotInv'
  BY <1>1 DEF SlotInv, Orderly
<1> QED BY <1>8, <1>9, <1>10, <1>11 DEF IInv

\* A device is addressed through the slot that its port was given.
LEMMA HandleExecAddress ==
  ASSUME IInv, PortsTypeOK', ExecAddress
  PROVE  IInv'
<1> USE DEF turn, slots, change, history
<1> DEFINE u == Head(cmds).slot
           p == Head(cmds).port
<1>1. /\ PortsTypeOK /\ TurnInv /\ SlotInv /\ EventInv /\ NoDangling
      /\ cmds # <<>> /\ Execute("address") /\ Report("address", u)
      /\ UNCHANGED <<turn, slots, conn, enabled, early, short>>
  BY DEF IInv, ExecAddress, Execute, Report
<1>2. u \in SlotOrNone /\ "address" \in CmdType
  BY <1>1, CmdsTail DEF CmdSet, CmdType, Report
<1>3. CmdShift(1) /\ CmdTurn(1) /\ AddressCmd(1, u, p) /\ \A t : ~DownCmd(1, t)
  BY <1>1, <1>2, Executed, First1 DEF Execute
<1>4. \/ /\ u \in enabled /\ dev[p] = "default"
         /\ bound' = [bound EXCEPT ![u] = p]
         /\ open' = open \cup {u}
         /\ dev' = [dev EXCEPT ![p] = "addressed"]
      \/ /\ ~(u \in enabled /\ dev[p] = "default")
         /\ UNCHANGED <<bound, open, dev>>
  BY DEF ExecAddress
<1>5. PICK m \in Nat \ {0} :
        /\ \A i : EvTurn(i)' <=> EvTurn(i) \/ i = m
        /\ \A i : AddressEv(i)' <=> AddressEv(i) \/ i = m
        /\ \A i, t : EnabledEv(i, t)' <=> EnabledEv(i, t)
        /\ \A i, t : DownEv(i, t)' <=> DownEv(i, t)
        /\ \A i, t : GoneEv(i, t)' <=> GoneEv(i, t)
        /\ \A i, t : XferEv(i, t)' <=> XferEv(i, t)
  BY <1>1, <1>2, Executed
<1> HIDE DEF u, p
<1>6. /\ addrport # 0 /\ \A q \in Port : phase[q] # "resetting"
      /\ \A i : CmdTurn(i) => i = 1
      /\ \A i : ~EvTurn(i)
      /\ p = addrport /\ slotport[u] = p /\ slotphase[u] = "addressing"
  BY <1>1, <1>3 DEF TurnInv
<1>7. \A i : ~CmdTurn(i)'
  BY <1>3, <1>6 DEF CmdShift
<1>8. /\ \A i, t, q : ~AddressCmd(i, t, q)'
      /\ \A i, t : ~EnabledEv(i, t)
      /\ \A i : ~AddressEv(i)
  BY <1>6, <1>7 DEF AddressCmd, CmdTurn, EnabledEv, AddressEv, EvTurn
<1>9. p \in Port
  BY <1>1, <1>6 DEF PortsTypeOK, Port
<1>10. TurnInv'
  BY <1>1, <1>5, <1>6, <1>7, <1>8 DEF TurnInv
<1>11. EventInv' /\ NoDangling'
  <2>1. NoDangling'
    BY <1>1, <1>5, Dangling
  <2>2. u \in enabled => \A i : ~GoneEv(i, u)
    BY <1>1, <1>8 DEF EventInv, PortsTypeOK
  <2>3. \A s \in open' : s \in open \/ (s = u /\ u \in enabled)
    BY <1>4
  <2>4. EventInv'
    BY <1>1, <1>5, <1>6, <2>2, <2>3 DEF EventInv
  <2> QED BY <2>1, <2>4
<1>12. SlotInv'
  <2> SUFFICES ASSUME Orderly'
               PROVE  (/\ DownOnce /\ DownInv /\ EnabledInv /\ AddressInv
                       /\ ContextInv /\ DefaultInv)'
    BY DEF SlotInv
  <2>1. DownOnce /\ DownInv /\ EnabledInv /\ AddressInv /\ ContextInv /\ DefaultInv
    BY <1>1 DEF SlotInv, Orderly
  <2>2. /\ u \in enabled /\ u \in Slot /\ u \in context
        /\ \A j : ~DownEv(j, u) /\ ~GoneEv(j, u)
        /\ dev[p] = "default" => \A j : ~DownCmd(j, u)
    BY <1>1, <1>3, <1>6, <2>1 DEF AddressInv, PortsTypeOK
  <2>3. \A t \in Slot : t # u \/ dev[p] # "default" => bound'[t] = bound[t]
    BY <1>1, <1>4, <2>2 DEF PortsTypeOK
  <2>4. DownOnce'
    <3>1. \A s, i, j : DownCmd(i, s)' /\ DownCmd(j, s)' => i = j
      BY <1>1, <1>3, <2>1, CmdOnce
    <3> QED BY <1>3, <1>5, <2>1, <3>1 DEF DownOnce, CmdShift
  <2>5. DownInv'
    <3>1. \A s, i : DownCmd(i, s)' \/ DownEv(i, s)' \/ GoneEv(i, s)' =>
            s \in Slot /\ (s # u \/ dev[p] # "default")
      BY <1>1, <1>3, <1>5, <2>1, <2>2 DEF DownInv, CmdShift, PortsTypeOK
    <3> QED BY <1>1, <1>3, <1>5, <2>1, <2>3, <3>1 DEF DownInv, CmdShift
  <2>6. EnabledInv'
    BY <1>5, <1>8 DEF EnabledInv
  <2>7. AddressInv'
    BY <1>8 DEF AddressInv
  <2>8. ContextInv'
    <3>1. ASSUME NEW t, Teardown(t) PROVE Teardown(t)'
      <4>1. \A i : DownCmd(i, t) => i - 1 \in Nat \ {0} /\ (i - 1) + 1 = i
        BY <1>1, <1>3, Places
      <4>2. \A i : DownCmd(i, t) => DownCmd(i - 1, t)'
        BY <1>3, <4>1 DEF CmdShift
      <4> QED BY <1>5, <3>1, <4>2, Tearing
    <3>2. dev[p] = "default" => bound'[u] = p /\ conn[p]
      BY <1>1, <1>4, <1>9, <2>1, <2>2 DEF DefaultInv, PortsTypeOK
    <3>3. (\A s \in Slot : bound[s] # 0 => /\ s \in enabled /\ s \in context
                                           /\ bound[s] = slotport[s] /\ conn[bound[s]])'
      BY <1>1, <1>6, <2>1, <2>2, <2>3, <3>2 DEF ContextInv
    <3> QED BY <1>1, <1>5, <2>1, <3>1, <3>3 DEF ContextInv
  <2>9. DefaultInv'
    <3>1. \A q \in Port : dev[q] = "default" => q = p
      BY <1>6, <2>1 DEF DefaultInv
    <3>2. /\ u \in enabled /\ dev[p] = "default" => dev' = [dev EXCEPT ![p] = "addressed"]
          /\ dev[p] # "default" => dev' = dev
      BY <1>4
    <3>3. dev \in [Port -> {"none", "attached", "default", "addressed"}]
      BY <1>1 DEF PortsTypeOK
    <3>4. \A q \in Port : dev'[q] # "default"
      BY <1>9, <2>2, <3>1, <3>2, <3>3
    <3> QED BY <3>4 DEF DefaultInv
  <2> QED BY <2>4, <2>5, <2>6, <2>7, <2>8, <2>9
<1> QED BY <1>10, <1>11, <1>12 DEF IInv

LEMMA HandleExecConfigure ==
  ASSUME IInv, PortsTypeOK', ExecConfigure
  PROVE  IInv'
<1> USE DEF turn, slots, change, history
<1>0. PICK u : u = Head(cmds).slot
  OBVIOUS
<1>1. /\ PortsTypeOK /\ TurnInv /\ SlotInv /\ EventInv /\ NoDangling
      /\ cmds # <<>>
      /\ UNCHANGED <<turn, slots, conn, dev, bound, enabled, open, early, short>>
  BY DEF IInv, ExecConfigure, Execute, Report
<1>2. PICK t \in {"configure", "deconfigure"} : Execute(t) /\ Report(t, u)
  BY <1>0 DEF ExecConfigure
<1>3. u \in SlotOrNone /\ t \in CmdType
  BY <1>0, <1>1, CmdsTail, <1>2 DEF CmdSet, CmdType, Report
<1>4. CmdShift(1) /\ \A s : DownCmd(1, s) <=> t = "deconfigure" /\ s = u
  BY <1>0, <1>1, <1>2, <1>3, Executed, First1 DEF Execute
<1>5. PICK m \in Nat \ {0} :
        /\ \A i : EvTurn(i)' <=> EvTurn(i)
        /\ \A i : AddressEv(i)' <=> AddressEv(i)
        /\ \A i, s : EnabledEv(i, s)' <=> EnabledEv(i, s)
        /\ \A i, s : DownEv(i, s)' <=> DownEv(i, s) \/ (i = m /\ t = "deconfigure" /\ s = u)
        /\ \A i, s : GoneEv(i, s)' <=> GoneEv(i, s)
        /\ \A i, s : XferEv(i, s)' <=> XferEv(i, s)
  BY <1>1, <1>2, <1>3, Executed
<1>6. \A i \in Nat : i + 0 = i
  OBVIOUS
<1>7. TurnInv'
  <2>1. TurnKept(1, 0)
    BY <1>1, <1>4, <1>5, <1>6, Places DEF TurnKept, CmdShift
  <2> QED BY <1>1, <2>1, TurnStays
<1>8. EventInv' /\ NoDangling'
  <2>1. NoDangling'
    BY <1>1, <1>5, Dangling
  <2>2. EventInv'
    BY <1>1, <1>5 DEF EventInv
  <2> QED BY <2>1, <2>2
<1>9. SlotInv'
  <2> SUFFICES ASSUME Orderly'
               PROVE  (/\ DownOnce /\ DownInv /\ EnabledInv /\ AddressInv
                       /\ ContextInv /\ DefaultInv)'
    BY DEF SlotInv
  <2>1. DownOnce /\ DownInv /\ EnabledInv /\ AddressInv /\ ContextInv /\ DefaultInv
    BY <1>1 DEF SlotInv, Orderly
  <2>2. t = "deconfigure" =>
          /\ \A i : DownCmd(i, u) => i = 1
          /\ \A i : ~DownCmd(i, u)' /\ ~DownEv(i, u) /\ ~GoneEv(i, u) /\ ~EnabledEv(i, u)
          /\ \A i, q : ~AddressCmd(i, u, q)
          /\ u \in enabled /\ u \in context /\ bound[u] = 0
    <3> SUFFICES ASSUME t = "deconfigure"
                 PROVE  /\ \A i : DownCmd(i, u) => i = 1
                        /\ \A i : /\ ~DownCmd(i, u)' /\ ~DownEv(i, u)
                                  /\ ~GoneEv(i, u) /\ ~EnabledEv(i, u)
                        /\ \A i, q : ~AddressCmd(i, u, q)
                        /\ u \in enabled /\ u \in context /\ bound[u] = 0
      OBVIOUS
    <3>1. DownCmd(1, u)
      BY <1>4
    <3>2. /\ \A i : DownCmd(i, u) => i = 1
          /\ \A i : ~DownEv(i, u) /\ ~GoneEv(i, u)
          /\ u \in enabled /\ u \in context /\ bound[u] = 0
      BY <2>1, <3>1 DEF DownOnce, DownInv
    <3>3. \A i : ~EnabledEv(i, u)
      BY <2>1, <3>1 DEF EnabledInv
    <3>4. \A i, q : ~AddressCmd(i, u, q)
      <4>1. \A i, q : AddressCmd(i, u, q) => i < 1 /\ i \in Nat \ {0}
        BY <1>1, <2>1, <3>1, Places DEF AddressInv
      <4> QED BY <4>1
    <3>5. \A i : ~DownCmd(i, u)'
      <4> SUFFICES ASSUME NEW i, DownCmd(i, u)' PROVE FALSE
        OBVIOUS
      <4>1. i \in Nat \ {0} /\ DownCmd(i + 1, u)
        BY <1>4 DEF CmdShift
      <4>2. i + 1 = 1
        BY <3>2, <4>1
      <4> QED BY <4>1, <4>2
    <3> QED BY <3>2, <3>3, <3>4, <3>5
  <2>3. DownOnce'
    <3>1. \A s, i, j : DownCmd(i, s)' /\ DownCmd(j, s)' => i = j
      BY <1>1, <1>4, <2>1, CmdOnce
    <3>2. \A s, i, j : DownEv(i, s)' /\ DownEv(j, s)' => i = j
      BY <1>5, <2>1, <2>2 DEF DownOnce
    <3>3. \A s, i, j : ~(DownEv(i, s)' /\ GoneEv(j, s)')
      BY <1>5, <2>1, <2>2 DEF DownOnce
    <3>4. \A s, i, j : ~(DownCmd(i, s)' /\ DownEv(j, s)') /\ ~(DownCmd(i, s)' /\ GoneEv(j, s)')
      BY <1>4, <1>5, <2>1, <2>2 DEF DownOnce, CmdShift
    <3> QED BY <1>5, <2>1, <3>1, <3>2, <3>3, <3>4 DEF DownOnce
  <2>4. DownInv'
    BY <1>1, <1>4, <1>5, <2>1, <2>2 DEF DownInv, CmdShift
  <2>5. EnabledInv'
    <3>1. \A s, i : EnabledEv(i, s)' => \A j : ~DownCmd(j, s)' /\ ~DownEv(j, s)'
      BY <1>4, <1>5, <2>1, <2>2 DEF EnabledInv, CmdShift
    <3> QED BY <1>1, <1>5, <2>1, <3>1 DEF EnabledInv
  <2>6. AddressInv'
    <3> SUFFICES ASSUME NEW s, NEW q, NEW i, AddressCmd(i, s, q)'
                 PROVE  /\ s \in enabled /\ s \in context /\ bound[s] = 0
                        /\ \A j : ~DownEv(j, s)' /\ ~GoneEv(j, s)'
                        /\ \A j : DownCmd(j, s)' => i < j /\ dev[addrport] # "default"
      BY <1>1 DEF AddressInv
    <3>1. i \in Nat /\ AddressCmd(i + 1, s, q)
      BY <1>4 DEF CmdShift
    <3>2. /\ s \in enabled /\ s \in context /\ bound[s] = 0
          /\ \A j : ~DownEv(j, s) /\ ~GoneEv(j, s)
          /\ \A j : DownCmd(j, s) => i + 1 < j /\ dev[addrport] # "default"
      BY <2>1, <3>1 DEF AddressInv
    <3>3. \A j : ~DownEv(j, s)' /\ ~GoneEv(j, s)'
      BY <1>5, <2>2, <3>1, <3>2
    <3>4. ASSUME NEW j, DownCmd(j, s)' PROVE i < j /\ dev[addrport] # "default"
      <4>1. j \in Nat /\ i + 1 < j + 1 /\ dev[addrport] # "default"
        BY <1>4, <3>2, <3>4 DEF CmdShift
      <4> QED BY <3>1, <4>1
    <3> QED BY <3>2, <3>3, <3>4
  <2>7. ContextInv'
    <3>1. ASSUME NEW s, Teardown(s) PROVE Teardown(s)'
      <4>1. CASE DownCmd(1, s)
        BY <1>4, <1>5, <4>1, Tearing
      <4>2. CASE ~DownCmd(1, s)
        <5>1. \A i : DownCmd(i, s) => i - 1 \in Nat \ {0} /\ (i - 1) + 1 = i
          BY <1>1, <4>2, Places
        <5>2. \A i : DownCmd(i, s) => DownCmd(i - 1, s)'
          BY <1>4, <5>1 DEF CmdShift
        <5> QED BY <1>5, <3>1, <5>2, Tearing
      <4> QED BY <4>1, <4>2
    <3> QED BY <1>1, <1>5, <2>1, <3>1 DEF ContextInv
  <2>8. DefaultInv'
    BY <1>1, <1>5, <2>1 DEF DefaultInv
  <2> QED BY <2>3, <2>4, <2>5, <2>6, <2>7, <2>8
<1> QED BY <1>7, <1>8, <1>9 DEF IInv

LEMMA HandleExecDisable ==
  ASSUME IInv, PortsTypeOK', ExecDisable
  PROVE  IInv'
<1> USE DEF turn, slots, change, history
<1>0. PICK u : u = Head(cmds).slot
  OBVIOUS
<1>1. /\ PortsTypeOK /\ TurnInv /\ SlotInv /\ EventInv /\ NoDangling
      /\ cmds # <<>> /\ Execute("disable") /\ Report("disable", u)
      /\ enabled' = enabled \ {u} /\ open' = open \ {u}
      /\ bound' = [s \in Slot |-> IF s = u THEN 0 ELSE bound[s]]
      /\ UNCHANGED <<turn, slots, conn, dev, early, short>>
  BY <1>0 DEF IInv, ExecDisable, Execute, Report
<1>2. u \in SlotOrNone /\ "disable" \in CmdType
  BY <1>0, <1>1, CmdsTail DEF CmdSet, CmdType, Report
<1>3. CmdShift(1) /\ \A s : DownCmd(1, s) <=> s = u
  BY <1>0, <1>1, <1>2, Executed, First1 DEF Execute
<1>4. PICK m \in Nat \ {0} :
        /\ \A i : EvTurn(i)' <=> EvTurn(i)
        /\ \A i : AddressEv(i)' <=> AddressEv(i)
        /\ \A i, s : EnabledEv(i, s)' <=> EnabledEv(i, s)
        /\ \A i, s : DownEv(i, s)' <=> DownEv(i, s)
        /\ \A i, s : GoneEv(i, s)' <=> GoneEv(i, s) \/ (i = m /\ s = u)
        /\ \A i, s : XferEv(i, s)' <=> XferEv(i, s)
        /\ \A i, s : XferEv(i, s) => i < m
  BY <1>1, <1>2, Executed
<1>5. \A i \in Nat : i + 0 = i
  OBVIOUS
<1>6. TurnInv'
  <2>1. TurnKept(1, 0)
    BY <1>1, <1>3, <1>4, <1>5, Places DEF TurnKept, CmdShift
  <2> QED BY <1>1, <2>1, TurnStays
<1>7. EventInv' /\ NoDangling'
  <2>1. NoDangling'
    BY <1>1, <1>4, Dangling
  <2>2. ASSUME NEW s \in Slot, NEW i, GoneEv(i, s)'
        PROVE  /\ s \notin open'
               /\ s \in enabled' => \E j : EnabledEv(j, s)' /\ i < j
               /\ \A j : XferEv(j, s)' => j < i
    <3>1. CASE GoneEv(i, s)
      BY <1>1, <1>4, <3>1 DEF EventInv
    <3>2. CASE i = m /\ s = u
      BY <1>1, <1>4, <3>2
    <3> QED BY <1>4, <2>2, <3>1, <3>2
  <2>3. EventInv'
    BY <1>1, <2>2 DEF EventInv
  <2> QED BY <2>1, <2>3
<1>8. SlotInv'
  <2> SUFFICES ASSUME Orderly'
               PROVE  (/\ DownOnce /\ DownInv /\ EnabledInv /\ AddressInv
                       /\ ContextInv /\ DefaultInv)'
    BY DEF SlotInv
  <2>1. DownOnce /\ DownInv /\ EnabledInv /\ AddressInv /\ ContextInv /\ DefaultInv
    BY <1>1 DEF SlotInv, Orderly
  <2>2. DownCmd(1, u)
    BY <1>3
  <2>3. /\ \A i : DownCmd(i, u) => i = 1
        /\ \A i : ~DownEv(i, u) /\ ~GoneEv(i, u) /\ ~EnabledEv(i, u)
        /\ u \in enabled /\ u \in Slot /\ u \in context
    BY <1>1, <2>1, <2>2 DEF DownOnce, DownInv, EnabledInv, PortsTypeOK
  <2>4. \A i : ~DownCmd(i, u)'
    <3> SUFFICES ASSUME NEW i, DownCmd(i, u)' PROVE FALSE
      OBVIOUS
    <3>1. i \in Nat \ {0} /\ DownCmd(i + 1, u)
      BY <1>3 DEF CmdShift
    <3>2. i + 1 = 1
      BY <2>3, <3>1
    <3> QED BY <3>1, <3>2
  <2>5. \A i, q : ~AddressCmd(i, u, q)
    <3>1. \A i, q : AddressCmd(i, u, q) => i < 1 /\ i \in Nat \ {0}
      BY <1>1, <2>1, <2>2, Places DEF AddressInv
    <3> QED BY <3>1
  <2>6. DownOnce'
    <3>1. \A s, i, j : DownCmd(i, s)' /\ DownCmd(j, s)' => i = j
      BY <1>1, <1>3, <2>1, CmdOnce
    <3>2. \A s, i, j : GoneEv(i, s)' /\ GoneEv(j, s)' => i = j
      BY <1>4, <2>1, <2>3 DEF DownOnce
    <3>3. \A s, i, j : ~(DownEv(i, s)' /\ GoneEv(j, s)')
      BY <1>4, <2>1, <2>3 DEF DownOnce
    <3>4. \A s, i, j : ~(DownCmd(i, s)' /\ DownEv(j, s)')
      BY <1>3, <1>4, <2>1 DEF DownOnce, CmdShift
    <3>5. \A s, i, j : ~(DownCmd(i, s)' /\ GoneEv(j, s)')
      <4> SUFFICES ASSUME NEW s, NEW i, NEW j, DownCmd(i, s)', GoneEv(j, s)' PROVE FALSE
        OBVIOUS
      <4>1. DownCmd(i + 1, s) /\ s # u
        BY <1>3, <2>4 DEF CmdShift
      <4>2. GoneEv(j, s)
        BY <1>4, <4>1
      <4> QED BY <2>1, <4>1, <4>2 DEF DownOnce
    <3> QED BY <1>4, <2>1, <3>1, <3>2, <3>3, <3>4, <3>5 DEF DownOnce
  <2>7. \A s \in Slot : bound'[s] = IF s = u THEN 0 ELSE bound[s]
    BY <1>1
  <2>8. DownInv'
    <3>1. ASSUME NEW s, NEW i, DownCmd(i, s)' \/ DownEv(i, s)'
          PROVE  s \in enabled' /\ s \in context /\ bound'[s] = 0
      <4>1. s # u /\ (DownCmd(i + 1, s) \/ DownEv(i, s))
        BY <1>3, <1>4, <2>3, <2>4, <3>1 DEF CmdShift
      <4> QED BY <1>1, <2>1, <2>7, <4>1 DEF DownInv, PortsTypeOK
    <3>2. ASSUME NEW s, NEW i, GoneEv(i, s)'
          PROVE  s \in Slot /\ s \in context /\ bound'[s] = 0
      BY <1>4, <2>1, <2>3, <2>7, <3>2 DEF DownInv
    <3> QED BY <1>1, <3>1, <3>2 DEF DownInv
  <2>9. EnabledInv'
    <3> SUFFICES ASSUME NEW s, NEW i, EnabledEv(i, s)'
                 PROVE  /\ s \in enabled' /\ bound'[s] = 0
                        /\ \A j : ~DownCmd(j, s)' /\ ~DownEv(j, s)'
                        /\ \A j : GoneEv(j, s)' => j < i
      BY DEF EnabledInv
    <3>1. EnabledEv(i, s) /\ s # u
      BY <1>4, <2>3
    <3>2. /\ s \in enabled /\ s \in Slot /\ bound[s] = 0
          /\ \A j : ~DownCmd(j, s) /\ ~DownEv(j, s)
          /\ \A j : GoneEv(j, s) => j < i
      BY <1>1, <2>1, <3>1 DEF EnabledInv, PortsTypeOK
    <3> QED BY <1>1, <1>3, <1>4, <2>7, <3>1, <3>2 DEF CmdShift
  <2>10. AddressInv'
    <3> SUFFICES ASSUME NEW s, NEW q, NEW i, AddressCmd(i, s, q)'
                 PROVE  /\ s \in enabled' /\ s \in context /\ bound'[s] = 0
                        /\ \A j : ~DownEv(j, s)' /\ ~GoneEv(j, s)'
                        /\ \A j : DownCmd(j, s)' => i < j /\ dev[addrport] # "default"
      BY <1>1 DEF AddressInv
    <3>1. i \in Nat /\ AddressCmd(i + 1, s, q) /\ s # u
      BY <1>3, <2>5 DEF CmdShift
    <3>2. /\ s \in enabled /\ s \in Slot /\ s \in context /\ bound[s] = 0
          /\ \A j : ~DownEv(j, s) /\ ~GoneEv(j, s)
          /\ \A j : DownCmd(j, s) => i + 1 < j /\ dev[addrport] # "default"
      BY <1>1, <2>1, <3>1 DEF AddressInv, PortsTypeOK
    <3>3. ASSUME NEW j, DownCmd(j, s)' PROVE i < j /\ dev[addrport] # "default"
      <4>1. j \in Nat /\ i + 1 < j + 1 /\ dev[addrport] # "default"
        BY <1>3, <3>2, <3>3 DEF CmdShift
      <4> QED BY <3>1, <4>1
    <3> QED BY <1>1, <1>4, <2>7, <3>1, <3>2, <3>3
  <2>11. ContextInv'
    <3>1. ASSUME NEW s, Teardown(s) \/ s = u PROVE Teardown(s)'
      <4>1. CASE s = u
        BY <1>4, <4>1, Tearing
      <4>2. CASE s # u
        <5>1. \A i : DownCmd(i, s) => i - 1 \in Nat \ {0} /\ (i - 1) + 1 = i
          BY <1>1, <1>3, <4>2, Places
        <5>2. \A i : DownCmd(i, s) => DownCmd(i - 1, s)'
          BY <1>3, <5>1 DEF CmdShift
        <5> QED BY <1>4, <3>1, <4>2, <5>2, Tearing
      <4> QED BY <4>1, <4>2
    <3>2. (\A s \in context \ {0} : Teardown(s) \/ (s \in enabled /\ \A i : ~EnabledEv(i, s)))'
      BY <1>1, <1>4, <2>1, <3>1 DEF ContextInv
    <3>3. (\A s \in Slot : bound[s] # 0 => /\ s \in enabled /\ s \in context
                                           /\ bound[s] = slotport[s] /\ conn[bound[s]])'
      BY <1>1, <2>1, <2>7 DEF ContextInv
    <3> QED BY <1>1, <2>1, <3>2, <3>3 DEF ContextInv
  <2>12. DefaultInv'
    BY <1>1, <1>4, <2>1 DEF DefaultInv
  <2> QED BY <2>6, <2>8, <2>9, <2>10, <2>11, <2>12
<1> QED BY <1>6, <1>7, <1>8 DEF IInv

\* Only a slot that is open has transfers, and none of them comes later than the
\* completion of its Disable Slot.
LEMMA HandleTransferEnds ==
  ASSUME IInv, PortsTypeOK', NEW u \in Slot, NEW ok \in BOOLEAN, TransferEnds(u, ok)
  PROVE  IInv'
<1> USE DEF turn, slots, change, device
<1>1. /\ PortsTypeOK /\ TurnInv /\ SlotInv /\ EventInv /\ NoDangling
      /\ u \in open
      /\ UNCHANGED <<turn, slots, cmds, conn, dev, bound, enabled, open, early, short>>
  BY DEF IInv, TransferEnds, PortsTypeOK
<1>2. PICK m \in Nat \ {0} :
        /\ \A i : EvTurn(i)' <=> EvTurn(i)
        /\ \A i : AddressEv(i)' <=> AddressEv(i)
        /\ \A i, s : EnabledEv(i, s)' <=> EnabledEv(i, s)
        /\ \A i, s : DownEv(i, s)' <=> DownEv(i, s)
        /\ \A i, s : GoneEv(i, s)' <=> GoneEv(i, s)
        /\ \A i, s : XferEv(i, s)' <=> XferEv(i, s) \/ (i = m /\ s = u)
  <2> DEFINE e == TransferEvent(u, ok)
  <2>1. e \in EventSet /\ e.kind = "transfer" /\ e.slot = u /\ evq' = Append(evq, e)
    BY DEF TransferEvent, EventSet, TransferEnds
  <2> HIDE DEF e
  <2> QED BY <1>1, <2>1, EvAdded
<1>3. CmdShift(0) /\ \A i \in Nat : i + 0 = i
  BY <1>1, Unmoved
<1>4. TurnKept(0, 0)
  BY <1>1, <1>2, <1>3, Places DEF TurnKept, CmdShift
<1>5. TurnInv'
  BY <1>1, <1>4, TurnStays
<1>6. EventInv' /\ NoDangling'
  <2>1. \A i : ~GoneEv(i, u)
    BY <1>1 DEF EventInv
  <2>2. EventInv'
    BY <1>1, <1>2, <2>1 DEF EventInv
  <2>3. slotphase[u] \in {"setconf", "starting"} => u \in made
    BY <1>1 DEF EventInv
  <2>4. NoDangling'
    BY <1>1, <1>2, <2>3, Dangling
  <2> QED BY <2>2, <2>4
<1>7. SlotInv'
  <2> SUFFICES ASSUME Orderly'
               PROVE  (/\ DownOnce /\ DownInv /\ EnabledInv /\ AddressInv
                       /\ ContextInv /\ DefaultInv)'
    BY DEF SlotInv
  <2>1. DownOnce /\ DownInv /\ EnabledInv /\ AddressInv /\ ContextInv /\ DefaultInv
    BY <1>1 DEF SlotInv, Orderly
  <2>2. /\ \A i, s : DownCmd(i, s)' <=> DownCmd(i, s)
        /\ \A i, s, q : AddressCmd(i, s, q)' <=> AddressCmd(i, s, q)
        /\ \A s : Teardown(s)' <=> Teardown(s)
    <3>1. \A i, s : DownCmd(i, s)' <=> DownCmd(i, s)
      BY <1>1 DEF DownCmd, Cmd
    <3>2. \A i, s, q : AddressCmd(i, s, q)' <=> AddressCmd(i, s, q)
      BY <1>1 DEF AddressCmd, Cmd
    <3> QED BY <1>2, <3>1, <3>2, Tearing
  <2>3. DownOnce'
    BY <1>2, <2>1, <2>2 DEF DownOnce
  <2>4. DownInv'
    BY <1>1, <1>2, <2>1, <2>2 DEF DownInv
  <2>5. EnabledInv'
    BY <1>1, <1>2, <2>1, <2>2 DEF EnabledInv
  <2>6. AddressInv'
    BY <1>1, <1>2, <2>1, <2>2 DEF AddressInv
  <2>7. ContextInv'
    BY <1>1, <1>2, <2>1, <2>2 DEF ContextInv
  <2>8. DefaultInv'
    BY <1>1, <1>2, <2>1 DEF DefaultInv
  <2> QED BY <2>3, <2>4, <2>5, <2>6, <2>7, <2>8
<1> QED BY <1>5, <1>6, <1>7 DEF IInv

-------------------------------------------------------------------------------
(* The invariant *)

LEMMA PortsInitInv == PortsInit => IInv
<1> SUFFICES ASSUME PortsInit PROVE IInv
  OBVIOUS
<1> USE SizesAssumption
<1>1. PICK there \in SUBSET Port, first \in 0..MaxPort :
        /\ first \in there \/ (there = {} /\ first = 0)
        /\ phase = [p \in Port |-> IF p = first THEN "resetting"
                                   ELSE IF p \in there THEN "waitfree" ELSE "waitreset"]
        /\ addrport = first
        /\ \E order \in [1..Cardinality(there) -> {PortEvent(p) : p \in there}] :
             evq = IF first = 0 THEN <<>> ELSE Append(order, PortEvent(first))
        /\ conn = [p \in Port |-> p \in there]
        /\ csc = [p \in Port |-> p \in there /\ p # first]
        /\ prc = [p \in Port |-> p = first /\ p \in there]
        /\ dev = [p \in Port |-> IF p \notin there THEN "none"
                                 ELSE IF p = first THEN "default" ELSE "attached"]
  BY DEF PortsInit, First
<1>2. /\ portslot = [p \in Port |-> 0]
      /\ slotphase = [s \in SlotOrNone |-> "waitreset"]
      /\ slotport = [s \in SlotOrNone |-> 0]
      /\ made = {} /\ context = {0} /\ cmds = <<>>
      /\ bound = [s \in Slot |-> 0] /\ enabled = {} /\ open = {} /\ xfer = {}
      /\ early = FALSE /\ short = FALSE /\ flawed = FALSE /\ plugs = 0 /\ unplugs = 0
  BY DEF PortsInit
<1>3. evq \in Seq(EventSet) /\ \A i \in DOMAIN evq : evq[i].kind = "port"
  <2> DEFINE P == [kind : {"port"}, port : Port]
  <2>1. Cardinality(there) \in Nat
    <3>1. IsFiniteSet(Port)
      BY FS_Interval DEF Port
    <3> QED BY <3>1, FS_Subset, FS_CardinalityType
  <2>2. \A p \in Port : PortEvent(p) \in P
    BY DEF PortEvent
  <2> PICK order \in [1..Cardinality(there) -> {PortEvent(p) : p \in there}] :
        evq = IF first = 0 THEN <<>> ELSE Append(order, PortEvent(first))
    BY <1>1
  <2>3. order \in Seq(P)
    <3>1. order \in [1..Cardinality(there) -> P]
      BY <2>2
    <3> HIDE DEF P
    <3> QED BY <2>1, <3>1, SeqDef
  <2>4. first # 0 => PortEvent(first) \in P
    BY <1>1, <2>2
  <2>5. evq \in Seq(P)
    <3> HIDE DEF P
    <3>1. CASE first = 0
      BY <1>1, <3>1
    <3>2. CASE first # 0
      BY <1>1, <2>3, <2>4, <3>2
    <3> QED BY <3>1, <3>2
  <2>6. P \subseteq EventSet /\ \A e \in P : e.kind = "port"
    BY DEF EventSet
  <2> HIDE DEF P
  <2>7. evq \in Seq(EventSet) /\ \A i \in DOMAIN evq : evq[i] \in P
    BY <2>5, <2>6, SeqFacts
  <2> QED BY <2>6, <2>7
<1>4. PortsTypeOK
  <2>1. phase \in [Port -> {"waitreset", "waitfree", "resetting", "enablingslot"}]
    BY <1>1
  <2>2. addrport \in 0..MaxPort
    BY <1>1
  <2>3. /\ conn \in [Port -> BOOLEAN] /\ csc \in [Port -> BOOLEAN] /\ prc \in [Port -> BOOLEAN]
        /\ dev \in [Port -> {"none", "attached", "default", "addressed"}]
    BY <1>1
  <2>4. /\ portslot \in [Port -> SlotOrNone]
        /\ slotphase \in [SlotOrNone -> {"waitreset", "addressing", "getcdesc",
                                         "setconf", "starting"}]
        /\ slotport \in [SlotOrNone -> 0..MaxPort]
        /\ made \subseteq Slot /\ context \subseteq SlotOrNone
        /\ cmds \in Seq(CmdSet)
        /\ bound \in [Slot -> 0..MaxPort]
    BY <1>2 DEF SlotOrNone
  <2>5. /\ enabled \subseteq Slot /\ open \subseteq enabled /\ xfer \subseteq open
        /\ early \in BOOLEAN /\ short \in BOOLEAN /\ flawed \in BOOLEAN
        /\ plugs \in 0..MaxPlug /\ unplugs \in 0..MaxUnplug
    <3>1. 0 \in 0..MaxPlug /\ 0 \in 0..MaxUnplug
      OBVIOUS
    <3> QED BY <1>2, <3>1
  <2> QED BY <1>3, <2>1, <2>2, <2>3, <2>4, <2>5 DEF PortsTypeOK
<1>5. /\ \A i, s : ~DownCmd(i, s) /\ ~DownEv(i, s) /\ ~GoneEv(i, s) /\ ~EnabledEv(i, s)
      /\ \A i, s : ~XferEv(i, s)
      /\ \A i, s, p : ~AddressCmd(i, s, p)
      /\ \A i : ~CmdTurn(i) /\ ~EvTurn(i) /\ ~AddressEv(i)
  <2>1. \A i, t : ~Cmd(i, t) /\ ~Ev(i, t)
    BY <1>2, <1>3 DEF Cmd, Ev
  <2>2. \A i, s : ~XferEv(i, s)
    BY <1>3 DEF XferEv
  <2> QED BY <2>1, <2>2 DEF DownCmd, DownEv, GoneEv, EnabledEv, AddressCmd, CmdTurn,
             EvTurn, AddressEv
<1>6. TurnInv
  <2>1. \A p \in Port : phase[p] = "resetting" => addrport = p
    BY <1>1
  <2> QED BY <1>5, <2>1 DEF TurnInv
<1>7. SlotInv
  <2>1. DownOnce /\ DownInv /\ EnabledInv /\ AddressInv
    BY <1>5 DEF DownOnce, DownInv, EnabledInv, AddressInv
  <2>2. ContextInv
    BY <1>2 DEF ContextInv
  <2>3. DefaultInv
    BY <1>1, <1>5 DEF DefaultInv
  <2> QED BY <2>1, <2>2, <2>3 DEF SlotInv
<1>8. EventInv
  BY <1>2, <1>5 DEF EventInv
<1>9. NoDangling
  BY <1>5, Dangling
<1> QED BY <1>4, <1>6, <1>7, <1>8, <1>9 DEF IInv

LEMMA PortsStepInv == IInv /\ [PortsNext]_portvars => IInv'
<1> SUFFICES ASSUME IInv, [PortsNext]_portvars PROVE IInv'
  OBVIOUS
<1>1. PortsTypeOK /\ PortsTypeOK'
  BY TypeStep DEF IInv
<1>2. CASE UNCHANGED portvars
  <2>1. CmdShift(0) /\ EvShift(0)
    BY <1>1, <1>2, Unmoved DEF portvars
  <2> QED BY <1>1, <1>2, <2>1, QuietStep DEF portvars, turn, slots, device, change, history
<1>3. CASE Handle
  <2>1. ASSUME NEW p \in Port, \/ PortReset(p) \/ PortWaits(p) \/ PortEnabled(p)
                               \/ PortIgnored(p) \/ PortGone(p)
        PROVE  IInv'
    BY <1>1, <2>1, HandlePortReset, HandlePorts, HandleEnabled, HandleGone
  <2>2. ASSUME NEW s \in SlotOrNone, \/ SlotEnabled(s) \/ SlotAddressed(s)
                                     \/ SlotConfigured(s) \/ SlotDeconfigured(s)
                                     \/ SlotDisabled(s)
        PROVE  IInv'
    BY <1>1, <2>2, HandleSlotEnabled, HandleSlotAddressed, HandleConfigured,
       HandleSlotDeconfigured, HandleSlotDisabled
  <2>3. ASSUME NEW s \in Slot, \/ Described(s) \/ NotDescribed(s)
                               \/ DriverInit(s) \/ DriverComp(s)
        PROVE  IInv'
    BY <1>1, <2>3, HandleTransfers, HandleDriverReset
  <2> QED BY <1>3, <2>1, <2>2, <2>3 DEF Handle
<1>4. CASE Exec
  BY <1>1, <1>4, HandleExecEnable, HandleExecNoSlot, HandleExecAddress, HandleExecConfigure,
     HandleExecDisable DEF Exec
<1>5. CASE \E s \in Slot, ok \in BOOLEAN : TransferEnds(s, ok)
  BY <1>1, <1>5, HandleTransferEnds
<1>6. CASE \E p \in Port : Plug(p) \/ Unplug(p)
  BY <1>1, <1>6, Connections
<1> QED BY <1>2, <1>3, <1>4, <1>5, <1>6 DEF PortsNext

LEMMA Invariant == PortsSpec => []IInv
BY PortsInitInv, PortsStepInv, PTL DEF PortsSpec

\* At most one device at a time answers to address 0 (xhci.cpp:47-50): the one at
\* the port whose turn it is.
THEOREM DefaultOnce == PortsSpec => []OneDefault
<1>1. IInv => OneDefault
  <2> SUFFICES ASSUME IInv, Orderly
               PROVE  PortsTypeOK /\ Cardinality({p \in Port : dev[p] = "default"}) <= 1
    BY DEF OneDefault, IInv
  <2> DEFINE D == {p \in Port : dev[p] = "default"}
  <2>1. D \subseteq {addrport}
    BY DEF IInv, SlotInv, DefaultInv
  <2>2. IsFiniteSet({addrport}) /\ Cardinality({addrport}) = 1
    BY FS_Singleton
  <2>3. Cardinality(D) <= 1
    <3> HIDE DEF D
    <3> QED BY <2>1, <2>2, FS_Subset
  <2> QED BY <2>3 DEF IInv
<1> QED BY <1>1, Invariant, PTL

\* Unplugging a device takes down no slot of another, and frees each context once
\* and the scratchpad never (xhci.cpp:85-91, 213-233).
THEOREM PresentKept == PortsSpec => []KeepsPresent
<1>1. IInv => KeepsPresent
  <2> SUFFICES ASSUME IInv, Orderly
               PROVE  /\ 0 \in context
                      /\ \A s \in Slot : Teardown(s) => bound[s] = 0 /\ s \in context
    BY DEF KeepsPresent
  <2>1. ContextInv /\ DownInv
    BY DEF IInv, SlotInv
  <2> QED BY <2>1, Tearing DEF ContextInv, DownInv
<1> QED BY <1>1, Invariant, PTL

\* No transfer event reaches a deleted class driver (xhci.cpp:417-429), whatever
\* else goes wrong.
THEOREM NeverDangling == PortsSpec => []NoDangling
<1>1. IInv => NoDangling
  BY DEF IInv
<1> QED BY <1>1, Invariant, PTL

-------------------------------------------------------------------------------
(* Rings *)

\* Where the driver is tells how much it has left to push and whether wp is at
\* the link; a transfer that was begun has room for the TRBs it has left.
Calls == /\ pc = "push" => left > 0
         /\ pc \in {"idle", "bell"} => left = 0
         /\ wp = Last <=> pc = "link"
         /\ Pending \in 0..(Last - 1 - left)

\* What push() leaves behind, without a word of the controller: the entries of
\* this lap carry c, the others, the link among them, what is not c.
Laps == \A i \in Entry : ring[i].c = IF i < wp THEN c ELSE 1 - c

RingInv == TypeOK /\ Calls /\ Laps

USE TrbAssumption, SizeAssumption

\* The initial state satisfies the invariant.
LEMMA RingInitInv == Init => RingInv
<1> SUFFICES ASSUME Init PROVE RingInv
  OBVIOUS
<1> USE DEF Init, Entry, Bit
<1>1. TypeOK
  <2>1. ring \in [Entry -> [c : Bit, trb : Trb]]
    BY [c |-> 0, trb |-> Zero] \in [c : Bit, trb : Trb], Zenon
  <2>2. wp \in Entry /\ deq \in Entry /\ left \in 0..Burst /\ wp # Last
    OBVIOUS
  <2> QED BY <2>1, <2>2 DEF TypeOK
<1>2. Calls
  BY DEF Calls, Pending
<1>3. Laps
  BY DEF Laps
<1> QED BY <1>1, <1>2, <1>3 DEF RingInv

\* Every step keeps the invariant.
LEMMA RingStepInv == ASSUME RingInv, [Next]_vars PROVE RingInv'
<1> USE DEF RingInv, TypeOK, Calls, Laps, Pending, Entry, Bit, driver, controller
<1>1. ASSUME NEW n \in 1..Burst, Start(n) PROVE RingInv'
  BY <1>1 DEF Start, Room
<1>2. ASSUME NEW t \in Trb, Push(t) PROVE RingInv'
  <2>1. /\ pc = "push" /\ left > 0 /\ wp \in 0..(Last - 1)
        /\ wp' = wp + 1 /\ left' = left - 1
        /\ ring' = [ring EXCEPT ![wp] = [c |-> c, trb |-> t]]
        /\ pc' = IF wp' = Last THEN "link" ELSE AfterPush(left')
        /\ UNCHANGED <<c, deq, ccs, running, got>>
    BY <1>2 DEF Push
  <2>2. TypeOK'
    BY <2>1 DEF AfterPush
  <2>3. Calls'
    BY <2>1 DEF AfterPush
  <2>4. Laps'
    BY <2>1
  <2> QED BY <2>2, <2>3, <2>4
<1>3. CASE PushLink
  <2>1. /\ pc = "link" /\ wp = Last
        /\ wp' = 0 /\ c' = 1 - c
        /\ ring' = [ring EXCEPT ![Last] = [c |-> c, trb |-> Zero]]
        /\ pc' = AfterPush(left)
        /\ UNCHANGED <<left, deq, ccs, running, got>>
    BY <1>3 DEF PushLink
  <2>2. TypeOK'
    BY <2>1 DEF AfterPush
  <2>3. Calls'
    BY <2>1 DEF AfterPush
  <2>4. Laps'
    BY <2>1
  <2> QED BY <2>2, <2>3, <2>4
<1>4. CASE Doorbell
  BY <1>4 DEF Doorbell
<1>5. CASE Fetch
  BY <1>5 DEF Fetch, Mine
<1>6. CASE FollowLink
  BY <1>6 DEF FollowLink, Mine
<1>7. CASE Stop
  BY <1>7 DEF Stop
<1>8. CASE UNCHANGED vars
  BY <1>8 DEF vars
<1> QED BY <1>1, <1>2, <1>3, <1>4, <1>5, <1>6, <1>7, <1>8
        DEF Next, Transfer, Controller

\* The entries counted from deq are entries of the ring, and different ones.
LEMMA IndexFacts ==
  ASSUME RingInv
  PROVE  /\ \A k \in 1..Pending : Index(k) \in 0..(Last - 1)
         /\ \A k \in 1..Pending : Index(k) # wp \/ wp = Last
  BY DEF RingInv, TypeOK, Calls, Pending, Index, Entry, Bit

\* The invariant gives the controller's view.
LEMMA OwnershipFollows == RingInv => Ownership
<1> SUFFICES ASSUME RingInv PROVE Ownership
  OBVIOUS
<1> USE DEF RingInv, TypeOK, Calls, Entry, Bit
<1>1. Pending \in 0..(Last - 1)
  OBVIOUS
<1>2. Mine(Last) <=> c # ccs
  BY DEF Mine, Laps
<1>3. ASSUME NEW i \in 0..(Last - 1)
      PROVE  LET pending == \E k \in 1..Pending : Index(k) = i
             IN  IF i >= deq THEN Mine(i) <=> pending ELSE Mine(i) <=> ~pending
  <2> DEFINE pending == \E k \in 1..Pending : Index(k) = i
  <2>1. ring[i].c = IF i < wp THEN c ELSE 1 - c
    BY DEF Laps
  <2>2. CASE i >= deq
    <3>1. pending <=> i - deq + 1 \in 1..Pending
      <4>1. Index(i - deq + 1) = i
        BY <2>2 DEF Index
      <4>2. \A k \in 1..Pending : Index(k) = i => k = i - deq + 1
        BY <1>1, <2>2 DEF Index
      <4> QED BY <4>1, <4>2
    <3>2. Mine(i) <=> i - deq + 1 \in 1..Pending
      BY <2>1, <2>2 DEF Mine, Pending
    <3> QED BY <2>2, <3>1, <3>2
  <2>3. CASE i < deq
    <3>1. pending <=> i - deq + 1 + Last \in 1..Pending
      <4>1. Index(i - deq + 1 + Last) = i
        BY <2>3 DEF Index
      <4>2. \A k \in 1..Pending : Index(k) = i => k = i - deq + 1 + Last
        BY <1>1, <2>3 DEF Index
      <4> QED BY <4>1, <4>2
    <3>2. Mine(i) <=> ~(i - deq + 1 + Last \in 1..Pending)
      BY <2>1, <2>3 DEF Mine, Pending
    <3> QED BY <2>3, <3>1, <3>2
  <2> QED BY <2>2, <2>3
<1> QED BY <1>1, <1>2, <1>3 DEF Ownership

-------------------------------------------------------------------------------
(* The refinement *)

LEMMA InitQueue == Init => Queue!Init
  BY DEF Init, Queue!Init, Pending

\* Every step of the driver and of the controller is a step of the queue or
\* invisible to its users.
LEMMA StepQueue == ASSUME RingInv, [Next]_vars PROVE [Queue!Next]_(Queue!vars)
<1> USE DEF RingInv, TypeOK, Calls, Entry, Bit, driver, controller
<1>0. ASSUME UNCHANGED <<ring, deq, Pending, got>> PROVE UNCHANGED Queue!vars
  BY <1>0 DEF Queue!vars, Index
<1>1. ASSUME NEW n \in 1..Burst, Start(n) PROVE UNCHANGED Queue!vars
  BY <1>0, <1>1 DEF Start, Pending
<1>2. ASSUME NEW t \in Trb, Push(t) PROVE Queue!Next
  <2> DEFINE n == Pending
  <2>1. /\ pc = "push" /\ left > 0 /\ wp \in 0..(Last - 1)
        /\ ring' = [ring EXCEPT ![wp] = [c |-> c, trb |-> t]]
        /\ n \in 0..(Last - 2) /\ Pending' = n + 1
        /\ UNCHANGED <<deq, got>>
    BY <1>2 DEF Push, Pending
  <2>2. Index(n + 1) = wp
    BY <2>1 DEF Index, Pending
  <2>3. ASSUME NEW k \in 1..(n + 1)
        PROVE  ring'[Index(k)].trb = IF k = n + 1 THEN t ELSE ring[Index(k)].trb
    <3>1. CASE k = n + 1
      BY <2>1, <2>2, <3>1
    <3>2. CASE k \in 1..n
      BY <2>1, <3>2, IndexFacts
    <3> QED BY <2>1, <3>1, <3>2
  <2>4. [k \in 1..Pending' |-> ring'[Index(k)'].trb]
          = [k \in 1..(n + 1) |->
               IF k = n + 1 THEN t ELSE [j \in 1..n |-> ring[Index(j)].trb][k]]
    <3>1. ASSUME NEW k \in 1..(n + 1)
          PROVE  ring'[Index(k)'].trb
                   = IF k = n + 1 THEN t ELSE [j \in 1..n |-> ring[Index(j)].trb][k]
      <4>1. Index(k)' = Index(k)
        BY <2>1 DEF Index
      <4> QED BY <2>1, <2>3, <4>1
    <3>2. Pending' = n + 1
      BY <2>1
    <3> QED BY <3>1, <3>2, Zenon
  <2>5. n < Last - 1 /\ Pending' = n + 1 /\ got' = got
    BY <2>1
  <2>6. Queue!Write(t)
    BY <2>4, <2>5, Zenon DEF Queue!Write
  <2> QED BY <2>6 DEF Queue!Next
<1>3. CASE PushLink
  <2>1. /\ wp = Last
        /\ ring' = [ring EXCEPT ![Last] = [c |-> c, trb |-> Zero]]
        /\ Pending' = Pending
        /\ UNCHANGED <<deq, got>>
    BY <1>3 DEF PushLink, Pending
  <2>2. ASSUME NEW k \in 1..Pending
        PROVE  ring'[Index(k)'].trb = ring[Index(k)].trb
    <3>1. Index(k)' = Index(k)
      BY <2>1 DEF Index
    <3>2. Index(k) \in 0..(Last - 1)
      BY IndexFacts
    <3> QED BY <2>1, <3>1, <3>2
  <2>3. [k \in 1..Pending' |-> ring'[Index(k)'].trb]
          = [k \in 1..Pending |-> ring[Index(k)].trb]
    BY <2>1, <2>2
  <2> QED BY <2>1, <2>3 DEF Queue!vars
<1>4. CASE Doorbell
  BY <1>0, <1>4 DEF Doorbell, Pending
<1>5. CASE Fetch
  <2> DEFINE n == Pending
  <2>1. /\ deq \in 0..(Last - 1) /\ deq' = deq + 1
        /\ got' = ring[deq].trb
        /\ UNCHANGED <<ring, wp, c, ccs>>
    BY <1>5 DEF Fetch
  <2>2. n \in 1..(Last - 1) /\ Pending' = n - 1
    BY <1>5, <2>1 DEF Fetch, Mine, Laps, Pending
  <2>3. got' = [j \in 1..n |-> ring[Index(j)].trb][1]
    <3>1. Index(1) = deq
      BY <2>1 DEF Index
    <3> QED BY <2>1, <2>2, <3>1
  <2>4. ASSUME NEW k \in 1..(n - 1)
        PROVE  Index(k)' = Index(k + 1)
    BY <2>1, <2>2 DEF Index
  <2>5. [k \in 1..Pending' |-> ring'[Index(k)'].trb]
          = [k \in 1..(n - 1) |-> [j \in 1..n |-> ring[Index(j)].trb][k + 1]]
    BY <2>1, <2>2, <2>4
  <2> QED BY <2>2, <2>3, <2>5 DEF Queue!Next, Queue!Read
<1>6. CASE FollowLink
  <2>1. /\ deq = Last /\ deq' = 0
        /\ UNCHANGED <<ring, got>>
        /\ Pending' = Pending
    BY <1>6 DEF FollowLink, Mine, Laps, Pending
  <2>2. ASSUME NEW k \in 1..Pending PROVE Index(k)' = Index(k)
    BY <2>1 DEF Index
  <2>3. [k \in 1..Pending' |-> ring'[Index(k)'].trb]
          = [k \in 1..Pending |-> ring[Index(k)].trb]
    BY <2>1, <2>2
  <2> QED BY <2>1, <2>3 DEF Queue!vars
<1>7. CASE Stop
  BY <1>0, <1>7 DEF Stop, Pending
<1>8. CASE UNCHANGED vars
  BY <1>0, <1>8 DEF vars, Pending
<1> QED BY <1>1, <1>2, <1>3, <1>4, <1>5, <1>6, <1>7, <1>8
        DEF Next, Transfer, Controller

-------------------------------------------------------------------------------
(* The results *)

\* At every moment of push() (xhci.cpp:6-19), on whatever lap, the cycle bits
\* tell the controller exactly the TRBs that were pushed and not fetched.
THEOREM RingSafety == Spec => [](TypeOK /\ Ownership)
<1>1. Spec => []RingInv
  BY RingInitInv, RingStepInv, PTL DEF Spec
<1>2. RingInv => TypeOK /\ Ownership
  BY OwnershipFollows DEF RingInv
<1> QED BY <1>1, <1>2, PTL

\* The ring carries the driver's requests to the controller first in, first
\* out, without loss or repetition.
THEOREM RingRefinement == Spec => ImplementsQueue
<1>1. Spec => []RingInv
  BY RingInitInv, RingStepInv, PTL DEF Spec
<1> QED BY InitQueue, StepQueue, <1>1, PTL DEF Spec, ImplementsQueue, Queue!Spec
===============================================================================
