-------------------------------- MODULE Ports ---------------------------------
(***************************************************************************)
(* The enumeration of USB devices by xhci.cpp: root ports, slots, commands *)
(* and the events that carry it on from handler to handler.                *)
(*                                                                         *)
(* A device answers to address 0 between the reset of its port and its     *)
(* Address Device command, so ports are taken one at a time: addrport is   *)
(* the one whose turn it is, and the others wait in phase waitfree.  Every *)
(* handler that posthandle() calls is an action here and ends with the     *)
(* command or the transfer that leads to the next.                         *)
(*                                                                         *)
(* The controller and the devices are external: they execute commands in   *)
(* order, complete transfers at any time, queue events in order, and send  *)
(* a port event when the first of a port's change bits is set.  A write of *)
(* portsc has no effect here but on the change bits and the reset: where   *)
(* SlotAddressed writes back port enabled and clears port power, that is   *)
(* what controllers without port power switches make of it.                *)
(***************************************************************************)
EXTENDS Integers, Sequences, FiniteSets

CONSTANTS MaxPort,      \* maxports
          MaxSlot,      \* the slots of the controller (8)
          MayFail,      \* transfers to a device that is there can fail, and a
                        \* device can be mute: there is no driver for its class
          MaxPlug,      \* bound: devices plugged in after the boot
          MaxUnplug     \* bound: devices unplugged

ASSUME SizesAssumption == {MaxPort, MaxSlot, MaxPlug, MaxUnplug} \subseteq Nat
ASSUME DevicesAssumption == MayFail \in BOOLEAN

Port == 1..MaxPort
Slot == 1..MaxSlot
SlotOrNone == 0..MaxSlot    \* 0: the controller had none left

VARIABLES
  \* the driver
  phase,        \* ports[p].phase
  portslot,     \* ports[p].slot
  addrport,     \* the port that is being addressed, or 0
  slotphase,    \* slots[s].phase
  slotport,     \* slots[s].port
  made,         \* the slots with class drivers
  context,      \* the s for which dcbaa[s] is allocated; 0: the scratchpad
  cmds,         \* commands the controller has not executed
  evq,          \* events that posthandle() has not taken
  \* the controller and the devices
  conn, csc, prc,    \* bits of portsc: connected, and the changes
  dev,          \* the device at a port
  bound,        \* bound[s]: the port whose device is addressed through s
  enabled,      \* the slots in use
  open,         \* those of them that have been addressed
  xfer,         \* the slots with a transfer under way
  \* history
  early,        \* a port was found empty that owned no slot
  short,        \* the controller had no slot left
  flawed,       \* a transfer failed, or a mute device was started
  plugs, unplugs

turn == <<phase, portslot, addrport>>
slots == <<slotphase, slotport, made, context>>
change == <<csc, prc>>
device == <<conn, dev, bound, enabled, open>>
history == <<early, short, flawed, plugs, unplugs>>
portvars == <<turn, slots, cmds, evq, change, device, xfer, history>>

PortEvent(p) == [kind |-> "port", port |-> p]
CmdEvent(t, s) == [kind |-> "cmd", type |-> t, slot |-> s]
TransferEvent(s, ok) == [kind |-> "transfer", slot |-> s, ok |-> ok]

\* The command TRBs of xhci.h.  ConfigureEndpoint has dc, which takes the
\* device's configuration back.
EnableSlot == [type |-> "enable", slot |-> 0, port |-> 0]
AddressDevice(s, p) == [type |-> "address", slot |-> s, port |-> p]
ConfigureEndpoint(s, dc) == [type |-> IF dc THEN "deconfigure" ELSE "configure",
                             slot |-> s, port |-> 0]
DisableSlot(s) == [type |-> "disable", slot |-> s, port |-> 0]

Event(k) == evq # <<>> /\ Head(evq).kind = k
Completion(t) == Event("cmd") /\ Head(evq).type = t
Done == evq' = Tail(evq)
Send(cmd) == cmds' = Append(cmds, cmd)

\* controltrans() and push with db[s].  A doorbell of a slot whose Address
\* Device has not succeeded has no effect.
Control(s) == xfer' = xfer \cup ({s} \cap open)

First(p, S) == p \in S /\ \A q \in S : p <= q

\* The loop at the end of init() has reset the first port with a device, and
\* left the others waiting; nobody has handled an event yet.
PortsInit ==
  \E there \in SUBSET Port, first \in 0..MaxPort :
    \E order \in [1..Cardinality(there) -> {PortEvent(p) : p \in there}] :
        /\ First(first, there) \/ (there = {} /\ first = 0)
        /\ \A i, j \in 1..Cardinality(there) : i < j => order[i].port < order[j].port
        /\ phase = [p \in Port |-> IF p = first THEN "resetting"
                                   ELSE IF p \in there THEN "waitfree" ELSE "waitreset"]
        /\ portslot = [p \in Port |-> 0]
        /\ addrport = first
        /\ slotphase = [s \in SlotOrNone |-> "waitreset"]
        /\ slotport = [s \in SlotOrNone |-> 0]
        /\ made = {} /\ context = {0}
        /\ cmds = <<>>
        /\ evq = IF first = 0 THEN <<>> ELSE Append(order, PortEvent(first))
        /\ conn = [p \in Port |-> p \in there]
        /\ csc = [p \in Port |-> p \in there /\ p # first]
        /\ prc = [p \in Port |-> p = first /\ p \in there]
        /\ dev = [p \in Port |-> IF p \notin there THEN "none"
                                 ELSE IF p = first THEN "default" ELSE "attached"]
        /\ bound = [s \in Slot |-> 0]
        /\ enabled = {} /\ open = {} /\ xfer = {}
        /\ early = FALSE /\ short = FALSE /\ flawed = FALSE /\ plugs = 0 /\ unplugs = 0

-------------------------------------------------------------------------------
(* resetport(p) of a port with a device, with addrport 0, and its event     *)

Reset(p) == /\ addrport' = p
            /\ phase' = [phase EXCEPT ![p] = "resetting"]
            /\ csc' = [csc EXCEPT ![p] = FALSE]
            /\ prc' = [prc EXCEPT ![p] = TRUE]
            /\ dev' = [dev EXCEPT ![p] = "default"]
            /\ evq' = Append(Tail(evq), PortEvent(p))

-------------------------------------------------------------------------------
(* recievetrb(): something about a port has changed                         *)

Changed(p) == Event("port") /\ Head(evq).port = p

\* Mutant of PortReset: whoever's turn it is.
PortResetNow(p) == /\ Changed(p) /\ conn[p]
                   /\ phase[p] = "waitreset" /\ ~prc[p]
                   /\ Reset(p)
                   /\ UNCHANGED <<portslot, slots, cmds, conn, bound, enabled, open, xfer, history>>

PortReset(p) == /\ Changed(p) /\ conn[p]
                /\ phase[p] = "waitreset" /\ ~prc[p]
                /\ addrport = 0
                /\ Reset(p)
                /\ UNCHANGED <<portslot, slots, cmds, conn, bound, enabled, open, xfer, history>>

PortWaits(p) == /\ Changed(p) /\ conn[p]
                /\ phase[p] = "waitreset" /\ ~prc[p]
                /\ addrport # 0
                /\ phase' = [phase EXCEPT ![p] = "waitfree"]
                /\ Done
                /\ UNCHANGED <<portslot, addrport, slots, cmds, change, device, xfer, history>>

\* The port has been reset.  Of the two bits only prc is cleared.
PortEnabled(p) == /\ Changed(p) /\ conn[p]
                  /\ phase[p] = "resetting"
                  /\ prc' = [prc EXCEPT ![p] = FALSE]
                  /\ Send(EnableSlot)
                  /\ phase' = [phase EXCEPT ![addrport] = "enablingslot"]
                  /\ Done
                  /\ UNCHANGED <<portslot, addrport, slots, csc, device, xfer, history>>

PortIgnored(p) == /\ Changed(p) /\ conn[p]
                  /\ \/ phase[p] \in {"waitfree", "enablingslot"}
                     \/ phase[p] = "waitreset" /\ prc[p]
                  /\ Done
                  /\ UNCHANGED <<turn, slots, cmds, change, device, xfer, history>>

TearsDown == {"deconfigure", "disable"}

\* Slot s is on its way out.
Teardown(s) ==
  \/ \E i \in DOMAIN cmds : cmds[i].type \in TearsDown /\ cmds[i].slot = s
  \/ \E i \in DOMAIN evq : /\ evq[i].kind = "cmd"
                           /\ evq[i].type \in TearsDown /\ evq[i].slot = s

Owned(p) == \E s \in context \ {0} : /\ portslot[p] = s /\ slotport[s] = p
                                     /\ ~Teardown(s)

\* Mutant of PortGone: the port's number is taken for its slot's.
PortGoneByPort(p) == /\ Changed(p) /\ ~conn[p]
                     /\ phase' = [phase EXCEPT ![p] = "waitreset"]
                     /\ Send(ConfigureEndpoint(p, TRUE))
                     /\ Done
                     /\ early' = (early \/ ~Owned(p))
                     /\ UNCHANGED <<portslot, addrport, slots, change, device, xfer, short, flawed, plugs, unplugs>>

\* The device is gone.  The change bits stay set.
PortGone(p) == /\ Changed(p) /\ ~conn[p]
               /\ phase' = [phase EXCEPT ![p] = "waitreset"]
               /\ Send(ConfigureEndpoint(portslot[p], TRUE))
               /\ Done
               /\ early' = (early \/ ~Owned(p))
               /\ UNCHANGED <<portslot, addrport, slots, change, device, xfer, short, flawed, plugs, unplugs>>

-------------------------------------------------------------------------------
(* recievetrb(): a command is completed.  Its code is not looked at         *)

\* 9, Enable Slot
SlotEnabled(s) == /\ Completion("enable") /\ Head(evq).slot = s
                  /\ slotport' = [slotport EXCEPT ![s] = addrport]
                  /\ portslot' = [portslot EXCEPT ![addrport] = s]
                  /\ slotphase' = [slotphase EXCEPT ![s] = "addressing"]
                  /\ context' = context \cup {s}
                  /\ Send(AddressDevice(s, addrport))
                  /\ Done
                  /\ UNCHANGED <<phase, addrport, made, change, device, xfer, history>>

\* Mutant of SlotAddressed: the turn is not passed on.
SlotAddressedKeeps(s) ==
  /\ Completion("address") /\ Head(evq).slot = s
  /\ slotphase' = [slotphase EXCEPT ![s] = "getcdesc"]
  /\ csc' = [csc EXCEPT ![slotport[s]] = FALSE]
  /\ prc' = [prc EXCEPT ![slotport[s]] = FALSE]
  /\ Control(s)
  /\ Done
  /\ UNCHANGED <<turn, slotport, made, context, cmds, device, history>>

\* 11, Address Device: the next port may be reset.  The write of portsc, which
\* is to clear another bit, writes the change bits back and so clears them.
SlotAddressed(s) ==
  /\ Completion("address") /\ Head(evq).slot = s
  /\ addrport' = 0
  /\ slotphase' = [slotphase EXCEPT ![s] = "getcdesc"]
  /\ csc' = [csc EXCEPT ![slotport[s]] = FALSE]
  /\ prc' = [prc EXCEPT ![slotport[s]] = FALSE]
  /\ Control(s)
  /\ Done
  /\ UNCHANGED <<phase, portslot, slotport, made, context, cmds, device, history>>

\* 12, Configure Endpoint, with dc 0 and 1
SlotConfigured(s) == /\ Completion("configure") /\ Head(evq).slot = s
                     /\ Control(s)
                     /\ Done
                     /\ UNCHANGED <<turn, slots, cmds, change, device, history>>

\* Mutant of SlotDeconfigured: all is deleted before the slot is disabled.
SlotDeconfiguredDeletes(s) == /\ Completion("deconfigure") /\ Head(evq).slot = s
                              /\ Send(DisableSlot(s))
                              /\ made' = made \ {s}
                              /\ context' = context \ {s}
                              /\ Done
                              /\ UNCHANGED <<turn, slotphase, slotport, change, device, xfer, history>>

SlotDeconfigured(s) == /\ Completion("deconfigure") /\ Head(evq).slot = s
                       /\ Send(DisableSlot(s))
                       /\ Done
                       /\ UNCHANGED <<turn, slots, change, device, xfer, history>>

\* 10, Disable Slot: the class drivers and dcbaa[s] are deleted.
SlotDisabled(s) == /\ Completion("disable") /\ Head(evq).slot = s
                   /\ made' = made \ {s}
                   /\ context' = context \ {s}
                   /\ Done
                   /\ UNCHANGED <<turn, slotphase, slotport, cmds, change, device, xfer, history>>

-------------------------------------------------------------------------------
(* recievetrb(): a transfer is completed                                    *)

Arrived(s) == Event("transfer") /\ Head(evq).slot = s

Described(s) == /\ Arrived(s) /\ slotphase[s] = "getcdesc"
                /\ Head(evq).ok
                /\ made' = made \cup {s}
                /\ slotphase' = [slotphase EXCEPT ![s] = "setconf"]
                /\ Send(ConfigureEndpoint(s, FALSE))
                /\ Done
                /\ UNCHANGED <<turn, slotport, context, change, device, xfer, history>>

\* Nothing follows: the device stays as it is.
NotDescribed(s) == /\ Arrived(s) /\ slotphase[s] = "getcdesc"
                   /\ ~Head(evq).ok
                   /\ Done
                   /\ UNCHANGED <<turn, slots, cmds, change, device, xfer, history>>

\* SET_CONFIGURATION is over, however it ended: init() of the first class
\* driver.  hid::init and mass::init begin a transfer, classd::init does not.
DriverInit(s) == /\ Arrived(s) /\ slotphase[s] = "setconf"
                 /\ slotphase' = [slotphase EXCEPT ![s] = "starting"]
                 /\ \/ Control(s) /\ UNCHANGED flawed
                    \/ MayFail /\ flawed' = TRUE /\ UNCHANGED xfer
                 /\ Done
                 /\ UNCHANGED <<turn, slotport, made, context, cmds, change, device, early, short, plugs, unplugs>>

\* The class driver's comp(), which may begin another transfer, and then a
\* waiting port that has a device is reset if it can be.
Waiting == {p \in Port : phase[p] = "waitfree" /\ conn[p]}

\* Mutant of DriverComp: the waiting ports are not looked at.
DriverCompOnly(s) ==
  /\ Arrived(s) /\ slotphase[s] \notin {"getcdesc", "setconf"}
  /\ UNCHANGED xfer \/ Control(s)
  /\ Done
  /\ UNCHANGED <<turn, slots, cmds, change, device, history>>

DriverComp(s) ==
  /\ Arrived(s) /\ slotphase[s] \notin {"getcdesc", "setconf"}
  /\ UNCHANGED xfer \/ Control(s)
  /\ IF addrport = 0 /\ Waiting # {} THEN \E p \in Port : First(p, Waiting) /\ Reset(p)
     ELSE Done /\ UNCHANGED <<phase, addrport, change, dev>>
  /\ UNCHANGED <<portslot, slots, cmds, conn, bound, enabled, open, history>>

-------------------------------------------------------------------------------
(* The controller executes a command                                        *)

Execute(t) == cmds # <<>> /\ Head(cmds).type = t

Report(t, s) == /\ cmds' = Tail(cmds)
                /\ evq' = Append(evq, CmdEvent(t, s))
                /\ UNCHANGED <<turn, slots, change, conn, early, flawed, plugs, unplugs>>

ExecEnable == /\ Execute("enable")
              /\ \E s \in Slot \ enabled : /\ enabled' = enabled \cup {s}
                                           /\ Report("enable", s)
              /\ UNCHANGED <<dev, bound, open, xfer, short>>

ExecNoSlot == /\ Execute("enable")
              /\ enabled = Slot
              /\ Report("enable", 0)
              /\ short' = TRUE
              /\ UNCHANGED <<dev, bound, enabled, open, xfer>>

\* It fails if no device answers to address 0 at the port.
ExecAddress == /\ Execute("address")
               /\ LET s == Head(cmds).slot
                      p == Head(cmds).port
                  IN  /\ IF s \in enabled /\ dev[p] = "default"
                         THEN /\ bound' = [bound EXCEPT ![s] = p]
                              /\ open' = open \cup {s}
                              /\ dev' = [dev EXCEPT ![p] = "addressed"]
                         ELSE UNCHANGED <<bound, open, dev>>
                      /\ Report("address", s)
               /\ UNCHANGED <<enabled, xfer, short>>

ExecConfigure == /\ \E t \in {"configure", "deconfigure"} :
                      Execute(t) /\ Report(t, Head(cmds).slot)
                 /\ UNCHANGED <<dev, bound, enabled, open, xfer, short>>

ExecDisable == /\ Execute("disable")
               /\ LET s == Head(cmds).slot
                  IN  /\ enabled' = enabled \ {s}
                      /\ open' = open \ {s}
                      /\ bound' = [t \in Slot |-> IF t = s THEN 0 ELSE bound[t]]
                      /\ xfer' = xfer \ {s}
                      /\ Report("disable", s)
               /\ UNCHANGED <<dev, short>>

TransferEnds(s, ok) == /\ s \in xfer
                       /\ ok => bound[s] # 0
                       /\ ~ok => bound[s] = 0 \/ MayFail
                       /\ xfer' = xfer \ {s}
                       /\ evq' = Append(evq, TransferEvent(s, ok))
                       /\ flawed' = (flawed \/ ~ok)
                       /\ UNCHANGED <<turn, slots, cmds, change, device, early, short, plugs, unplugs>>

-------------------------------------------------------------------------------
(* Devices come and go *)

Connection(p, there) ==
  /\ conn' = [conn EXCEPT ![p] = there]
  /\ csc' = [csc EXCEPT ![p] = TRUE]
  /\ dev' = [dev EXCEPT ![p] = IF there THEN "attached" ELSE "none"]
  /\ bound' = [s \in Slot |-> IF bound[s] = p THEN 0 ELSE bound[s]]
  /\ evq' = IF csc[p] \/ prc[p] THEN evq ELSE Append(evq, PortEvent(p))
  /\ UNCHANGED <<turn, slots, cmds, prc, enabled, open, xfer, early, short, flawed>>

Plug(p) == /\ ~conn[p]
           /\ plugs < MaxPlug
           /\ plugs' = plugs + 1
           /\ Connection(p, TRUE)
           /\ UNCHANGED unplugs

Unplug(p) == /\ conn[p]
             /\ unplugs < MaxUnplug
             /\ unplugs' = unplugs + 1
             /\ Connection(p, FALSE)
             /\ UNCHANGED plugs

-------------------------------------------------------------------------------
Handle == \/ \E p \in Port : \/ PortReset(p) \/ PortWaits(p) \/ PortEnabled(p)
                             \/ PortIgnored(p) \/ PortGone(p)
          \/ \E s \in SlotOrNone : \/ SlotEnabled(s) \/ SlotAddressed(s)
                                   \/ SlotConfigured(s) \/ SlotDeconfigured(s)
                                   \/ SlotDisabled(s)
          \/ \E s \in Slot : \/ Described(s) \/ NotDescribed(s)
                             \/ DriverInit(s) \/ DriverComp(s)

Exec == ExecEnable \/ ExecNoSlot \/ ExecAddress \/ ExecConfigure \/ ExecDisable

PortsNext == \/ Handle
             \/ Exec
             \/ \E s \in Slot, ok \in BOOLEAN : TransferEnds(s, ok)
             \/ \E p \in Port : Plug(p) \/ Unplug(p)

PortsSpec == PortsInit /\ [][PortsNext]_portvars

\* Interrupts lead to posthandle(), which goes on until it has taken every
\* event; the controller executes commands, and transfers end.
PortsFairSpec == /\ PortsSpec
                 /\ WF_portvars(Handle) /\ WF_portvars(Exec)
                 /\ \A s \in Slot : WF_portvars(\E ok \in BOOLEAN : TransferEnds(s, ok))

-------------------------------------------------------------------------------
(* Properties *)

CmdType == {"enable", "address", "configure", "deconfigure", "disable"}
CmdSet == [type : CmdType, slot : SlotOrNone, port : 0..MaxPort]
EventSet == [kind : {"port"}, port : Port]
            \cup [kind : {"cmd"}, type : CmdType, slot : SlotOrNone]
            \cup [kind : {"transfer"}, slot : Slot, ok : BOOLEAN]

PortsTypeOK == /\ phase \in [Port -> {"waitreset", "waitfree", "resetting", "enablingslot"}]
               /\ portslot \in [Port -> SlotOrNone]
               /\ addrport \in 0..MaxPort
               /\ slotphase \in [SlotOrNone -> {"waitreset", "addressing", "getcdesc",
                                                "setconf", "starting"}]
               /\ slotport \in [SlotOrNone -> 0..MaxPort]
               /\ made \subseteq Slot /\ context \subseteq SlotOrNone
               /\ cmds \in Seq(CmdSet) /\ evq \in Seq(EventSet)
               /\ conn \in [Port -> BOOLEAN]
               /\ csc \in [Port -> BOOLEAN] /\ prc \in [Port -> BOOLEAN]
               /\ dev \in [Port -> {"none", "attached", "default", "addressed"}]
               /\ bound \in [Slot -> 0..MaxPort]
               /\ enabled \subseteq Slot /\ open \subseteq enabled /\ xfer \subseteq open
               /\ early \in BOOLEAN /\ short \in BOOLEAN /\ flawed \in BOOLEAN
               /\ plugs \in 0..MaxPlug /\ unplugs \in 0..MaxUnplug

\* The slots have sufficed, and every port that was found empty had one to take
\* down.  Else, with the completion codes ignored (xhci.cpp:149), a device is
\* "addressed" through slot 0 or through one that xhci.cpp:85-91 has just
\* disabled for the port that had it before: it goes on answering to address 0,
\* and the next port is reset.
Orderly == ~early /\ ~short

\* At most one device at a time answers to address 0, whatever is plugged in
\* and out meanwhile: what addrport and waitfree are for (xhci.cpp:47-50).
OneDefault ==
  /\ PortsTypeOK
  /\ Orderly => Cardinality({p \in Port : dev[p] = "default"}) <= 1

\* Unplugging one device never takes down the slot of a device that is there,
\* the contexts are freed once each, and the controller's scratchpad, which is
\* dcbaa[0], never (xhci.cpp:85-91, 213-233).
KeepsPresent ==
  Orderly => /\ 0 \in context
             /\ \A s \in Slot : Teardown(s) => bound[s] = 0 /\ s \in context

\* No transfer event reaches a class driver that Disable Slot has deleted or
\* that was never made (xhci.cpp:417-429).
NoDangling ==
  \A i \in DOMAIN evq :
    evq[i].kind = "transfer" /\ slotphase[evq[i].slot] \in {"setconf", "starting"}
      => evq[i].slot \in made

\* A port's turn ends: only unplugging its device before it has a slot can make
\* it last.
TurnEnds == \A p \in Port : addrport = p ~> addrport # p \/ phase[p] = "waitreset"

Started(p) == \E s \in Slot : /\ portslot[p] = s /\ slotport[s] = p
                              /\ bound[s] = p /\ slotphase[s] = "starting"

\* As long as no device is unplugged, no transfer fails and none is mute, every
\* device that is there gets its class driver, although waiting ports are looked
\* at only behind the transfers of others (xhci.cpp:431-433).
AllStarted == \A p \in Port : conn[p] ~> Started(p) \/ flawed \/ unplugs > 0
===============================================================================
