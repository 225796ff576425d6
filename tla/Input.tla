-------------------------------- MODULE Input ---------------------------------
(***************************************************************************)
(* From the devices to the event loop: the key, mouse and clock interrupts *)
(* (ps2.cpp, rtc.cpp), the driver of USB keyboards and mice (hid.cpp), and *)
(* the messages in kernelbuf (kernel.cpp:337-543).                         *)
(*                                                                         *)
(* kernelbuf carries words, not messages: a word says here which message   *)
(* it was written for and which of its words it is.  Interrupt handlers    *)
(* write a message as a whole; hid::comp and the q==5 branch write theirs  *)
(* word by word with interrupts on, and comp() may run in another task,    *)
(* one that polls posthandle() for its USB disk.                           *)
(*                                                                         *)
(* The devices are external.  A machine has a PS/2 mouse or a USB device;  *)
(* both at once are left out, the keyboard's interrupts are always there.  *)
(***************************************************************************)
EXTENDS HidReport, FiniteSets

CONSTANTS Main,         \* the task of the event loop
          Other,        \* one that polls posthandle()
          NoTask,
          Descriptors,  \* the report descriptors of the devices
          Live,         \* the devices that also send reports
          NoDevice,
          Keys,         \* usages of keys
          MaxInputs,    \* bound: keys and reports of the USB device, and others
          MaxOdd,       \* bound: PS/2 keys, ticks, refreshes, failures, drives
          MaxBytes,     \* bound: bytes of the PS/2 mouse
          MaxLost       \* bound: those of them that are lost

Task == {Main, Other}
None == 0         \* the usage in an empty slot of the key array
RollOver == 1     \* in all slots, if more keys are down than there are slots

ASSUME InputAssumption == /\ Live \subseteq DOMAIN Descriptors
                          /\ NoDevice \notin DOMAIN Descriptors
                          /\ Keys \subseteq 4..127
                          /\ {MaxInputs, MaxOdd, MaxBytes, MaxLost} \subseteq Nat
                          /\ \A d \in DOMAIN Descriptors : decoderd(Descriptors[d]).keys.size \in Nat
                          /\ NoTask \notin Task /\ Main # Other

VARIABLES
  \* the event loop
  kernelbuf,
  main,       \* "loop", "post" in posthandle(), "keys" reading them
  left, pk,   \* how many keys are left to read, and those read
  bk,         \* the keys of the report before
  down,       \* keys that whoever has the focus holds to be down
  todo,       \* todo[t]: the words that t is about to write
  comp,       \* the task in hid::comp or mass::comp
  \* hid
  device,
  fields,     \* xoff, xsize, ...
  phase,      \* initphase: 1234, 0, 1
  xfer,       \* the transfer: "none", "control" or "report" under way, "ended",
              \* "failed", "taken" by comp()
  firstt,
  buf,        \* the key array of the report in buf
  pressed,    \* the keys that are down on the device
  \* ps2
  mp, initphase,
  acks, pos,  \* the mouse: replies to send, then the next byte of its packet
  \* history
  inputs, odd, bytes, losses,
  slip,       \* how the decoder stands to the packets: "no", "skips", "yes"
  cut         \* a message was written, or taken, within another one

loop == <<main, left, pk, bk, down>>
hid == <<device, fields, phase, firstt, buf>>
usb == <<hid, xfer, pressed>>
budget == <<inputs, odd>>
mouse == <<mp, initphase, acks, pos, bytes, losses, slip>>
vars == <<kernelbuf, loop, todo, comp, usb, mouse, budget, cut>>

Word(m, i, v) == [m |-> m, i |-> i, v |-> v]
\* The words of the messages without content here: mouse, event ring,
\* refresh, clock.
Length == [m \in {0, 1, 6, 7, 9} |-> IF m = 0 THEN 4 ELSE IF m \in {6, 7} THEN 5 ELSE 1]
Message(m) == [k \in 1..Length[m] |-> Word(m, k - 1, 0)]
\* The key v, v+128 for its release, or -1 for those of the PS/2 keyboard.
KeyMessage(v) == <<Word(2, 0, 0), Word(2, 1, v)>>
\* One after the other, for the keys vs.
KeyMessages(vs) == [k \in 1..(2 * Len(vs)) |-> KeyMessage(vs[(k + 1) \div 2])[2 - (k % 2)]]
KeysMessage(us) == <<Word(5, 0, 0), Word(5, 1, Len(us))>> \o
                   [k \in DOMAIN us |-> Word(5, k + 1, us[k])]

Slots == fields.keys.size \div 8

Init == /\ kernelbuf = <<>>
        /\ main = "loop" /\ left = 0 /\ pk = {} /\ bk = {} /\ down = {}
        /\ todo = [t \in Task |-> <<>>]
        /\ comp = NoTask
        /\ fields = Fields /\ firstt = TRUE /\ buf = <<>> /\ pressed = {}
        /\ \/ device = NoDevice /\ phase = 1 /\ xfer = "none" /\ acks = 1
           \/ /\ device \in DOMAIN Descriptors /\ acks = 0
              /\ xfer = "control" /\ phase \in {1234, 0}
        /\ mp = 0 /\ initphase = 0 /\ pos = 0
        /\ inputs = 0 /\ odd = 0 /\ bytes = 0 /\ losses = 0
        /\ slip = "no" /\ cut = FALSE

\* A task stands between two words of a message.
Within(t) == todo[t] # <<>> /\ Head(todo[t]).i > 0

\* Words are appended, by a task or in an interrupt.
Append_(t, ws) ==
  /\ kernelbuf' = kernelbuf \o ws
  /\ cut' = (cut \/ \E o \in Task \ {t} : Within(o))

\* Once a message is cut the event loop takes words for messages; the model
\* ends there.
Going == ~cut
\* Bound: a device that sends no reports is only set up.
Another == /\ Going /\ device \in Live \cup {NoDevice}
           /\ inputs < MaxInputs /\ inputs' = inputs + 1
           /\ odd < MaxOdd /\ odd' = odd + 1
Move == /\ Going /\ device \in Live
        /\ inputs < MaxInputs /\ inputs' = inputs + 1
        /\ UNCHANGED odd

-------------------------------------------------------------------------------
(* Interrupts *)

KeyHandle == /\ Another
             /\ Append_(NoTask, KeyMessage(-1))
             /\ UNCHANGED <<loop, todo, comp, usb, mouse>>

RtcHandle == /\ Another
             /\ Append_(NoTask, Message(9))
             /\ UNCHANGED <<loop, todo, comp, usb, mouse>>

\* refreshsub() of another task, behind its cli.
Refresh == /\ Another
           /\ todo[Other] = <<>> /\ comp # Other
           /\ Append_(Other, Message(7))
           /\ UNCHANGED <<loop, todo, comp, usb, mouse>>

\* Mutant of MouseByte: any byte begins a packet.
MouseByteAny(d, header) ==
  \/ /\ mp = 0
     /\ mp' = IF d = "ack" /\ initphase = -1 THEN 1 ELSE 0
     /\ initphase' = IF d = "ack" THEN -1 ELSE initphase
     /\ UNCHANGED <<kernelbuf, cut>>
  \/ mp \in {1, 2} /\ mp' = mp + 1 /\ UNCHANGED <<initphase, kernelbuf, cut>>
  \/ mp = 3 /\ mp' = 1 /\ UNCHANGED initphase /\ Append_(NoTask, Message(0))

\* mousehandle(): d is the byte, header says that (d&0xc8)==8.
MouseByte(d, header) ==
  \/ /\ mp = 0
     /\ mp' = IF d = "ack" /\ initphase = -1 THEN 1 ELSE 0
     /\ initphase' = IF d = "ack" THEN -1 ELSE initphase
     /\ UNCHANGED <<kernelbuf, cut>>
  \/ mp = 1 /\ mp' = (IF header THEN 2 ELSE 1) /\ UNCHANGED <<initphase, kernelbuf, cut>>
  \/ mp = 2 /\ mp' = 3 /\ UNCHANGED <<initphase, kernelbuf, cut>>
  \/ mp = 3 /\ mp' = 1 /\ UNCHANGED initphase /\ Append_(NoTask, Message(0))

MouseMoves == /\ Going /\ device = NoDevice
              /\ bytes < MaxBytes /\ bytes' = bytes + 1
              /\ UNCHANGED <<loop, todo, comp, usb, budget>>

\* A reply: the first one makes the driver set the rate, which has two.
MouseAck == /\ MouseMoves
            /\ acks > 0
            /\ MouseByte("ack", FALSE)
            /\ acks' = IF mp = 0 /\ initphase = 0 THEN 2 ELSE acks - 1
            /\ UNCHANGED <<pos, losses, slip>>

\* The three bytes of a packet: a first byte with an overflow bit is no header,
\* a later one may look like one.
MousePacket == /\ MouseMoves
               /\ acks = 0
               /\ \E header \in BOOLEAN :
                    /\ MouseByte("data", header)
                    /\ slip' = IF slip = "yes" \/ (slip = "skips" /\ header /\ pos > 0) THEN "yes"
                               ELSE IF pos = 0 /\ ~header THEN "skips"
                               ELSE IF pos = 2 THEN "no" ELSE slip
               /\ pos' = (pos + 1) % 3
               /\ UNCHANGED <<acks, losses>>

\* The keyboard controller loses a byte of a packet.
MouseLoses == /\ MouseMoves
              /\ acks = 0 /\ losses < MaxLost
              /\ losses' = losses + 1
              /\ pos' = (pos + 1) % 3
              /\ slip' = "yes"
              /\ UNCHANGED <<kernelbuf, cut, mp, initphase, acks>>

-------------------------------------------------------------------------------
(* USB: a transfer ends and message 1 is posted *)

Report == IF Cardinality(pressed) > Slots THEN [k \in 1..Slots |-> RollOver]
          ELSE SetToSeq(pressed) \o [k \in 1..(Slots - Cardinality(pressed)) |-> None]

Ends(x) == /\ xfer' = x
           /\ Append_(NoTask, Message(1))
           /\ UNCHANGED <<loop, todo, comp, pressed, mouse>>

ControlEnds == /\ Going /\ xfer = "control"
               /\ Ends("ended")
               /\ UNCHANGED <<hid, budget>>

\* The device sends a report when its keys have changed; a mouse when it likes.
ReportEnds == /\ xfer = "report" /\ device \in Live
              /\ IF Slots = 0 THEN Move ELSE Going /\ buf # Report /\ UNCHANGED budget
              /\ buf' = Report
              /\ Ends("ended")
              /\ UNCHANGED <<device, fields, phase, firstt>>

TransferFails == /\ Another /\ xfer \in {"control", "report"}
                 /\ Ends("failed")
                 /\ UNCHANGED hid

KeyMoves(k) == /\ Move /\ xfer = "report" /\ Slots > 0
               /\ pressed' = IF k \in pressed THEN pressed \ {k} ELSE pressed \cup {k}
               /\ UNCHANGED <<kernelbuf, loop, todo, comp, hid, xfer, mouse, cut>>

-------------------------------------------------------------------------------
(* Class drivers: by Main, behind message 1, or by a task that polls *)

Handles(t) == /\ Going /\ comp = NoTask /\ todo[t] = <<>>
              /\ t = Main => main = "post"

\* hid::comp up to its first message.  A descriptor is asked for and decoded;
\* code 4 stops the device.
HidInit(t) == /\ Handles(t) /\ xfer = "ended" /\ phase # 1
              /\ IF phase = 1234
                 THEN phase' = 0 /\ xfer' = "control" /\ UNCHANGED fields
                 ELSE phase' = 1 /\ xfer' = "report" /\ fields' = decoderd(Descriptors[device])
              /\ UNCHANGED <<kernelbuf, loop, todo, comp, device, firstt, buf, pressed, mouse,
                             budget, cut>>

HidFails(t) == /\ Handles(t) /\ xfer = "failed"
               /\ xfer' = "none"
               /\ UNCHANGED <<kernelbuf, loop, todo, comp, hid, pressed, mouse, budget,
                              cut>>

AllZero == \A k \in DOMAIN buf : buf[k] = None

\* Mutant of KeyWords: the count is the one of bits.
KeyWordsBits == IF Slots = 0 THEN <<>>
                ELSE [KeysMessage(buf) EXCEPT ![2].v = Slots + 1]

KeyWords == IF Slots = 0 THEN <<>> ELSE KeysMessage(buf)

HidReport(t) == /\ Handles(t) /\ xfer = "ended" /\ phase = 1
                /\ comp' = t
                /\ todo' = [todo EXCEPT ![t] =
                     (IF fields.x # Absent /\ fields.y # Absent THEN Message(0) ELSE <<>>)
                     \o IF firstt /\ AllZero THEN <<>> ELSE KeyWords]
                /\ firstt' = (firstt /\ AllZero)
                /\ xfer' = "taken"
                /\ UNCHANGED <<kernelbuf, loop, device, fields, phase, buf, pressed, mouse,
                               budget, cut>>

\* mass::comp has found a disk.
MassReady(t) == /\ Handles(t) /\ Another
                /\ comp' = t
                /\ todo' = [todo EXCEPT ![t] = Message(6)]
                /\ UNCHANGED <<kernelbuf, loop, usb, mouse, cut>>

Write(t) == /\ Going /\ todo[t] # <<>>
            /\ Append_(t, <<Head(todo[t])>>)
            /\ todo' = [todo EXCEPT ![t] = Tail(@)]
            /\ UNCHANGED <<loop, comp, usb, mouse, budget>>

\* The transfer of the next report is pushed.
CompEnd(t) == /\ Going /\ comp = t /\ todo[t] = <<>>
              /\ comp' = NoTask
              /\ xfer' = IF xfer = "taken" THEN "report" ELSE xfer
              /\ UNCHANGED <<kernelbuf, loop, todo, hid, pressed, mouse, budget, cut>>

-------------------------------------------------------------------------------
(* The event loop *)

AtLoop == Going /\ main = "loop" /\ todo[Main] = <<>> /\ kernelbuf # <<>>
Starts(ms) == IsPrefix(ms, kernelbuf)

Taken(n) == /\ kernelbuf' = SubSeq(kernelbuf, n + 1, Len(kernelbuf))
            /\ cut' = (cut \/ Within(Other))
            /\ UNCHANGED <<todo, comp, usb, mouse, budget>>

\* q of 0, 6, 7 and 9: all words are read with interrupts off.
KernelMessage == /\ AtLoop
                 /\ \E m \in {0, 6, 7, 9} : Starts(Message(m)) /\ Taken(Length[m])
                 /\ UNCHANGED loop

KernelPost == /\ AtLoop
              /\ Starts(Message(1))
              /\ Taken(1)
              /\ main' = "post"
              /\ UNCHANGED <<left, pk, bk, down>>

PostEnd == /\ Going /\ main = "post" /\ comp # Main /\ todo[Main] = <<>>
           /\ xfer \notin {"ended", "failed"} \/ comp # NoTask
           /\ main' = "loop"
           /\ UNCHANGED <<kernelbuf, left, pk, bk, down, todo, comp, usb, mouse, budget, cut>>

\* q==2: the key goes to whoever has the focus; one of the PS/2 keyboard (-1)
\* is none of the device.
KernelKey == /\ AtLoop
             /\ Len(kernelbuf) > 1 /\ Starts(KeyMessage(kernelbuf[2].v))
             /\ LET v == kernelbuf[2].v
                IN  down' = IF v \in Keys THEN down \cup {v} ELSE down \ {v - 128}
             /\ Taken(2)
             /\ UNCHANGED <<main, left, pk, bk>>

\* q==5: the count with interrupts off, the keys with interrupts on.
KernelKeys == /\ AtLoop
              /\ Len(kernelbuf) > 1
              /\ kernelbuf[1] = Word(5, 0, 0) /\ kernelbuf[2].m = 5 /\ kernelbuf[2].i = 1
              /\ left' = kernelbuf[2].v
              /\ Taken(2)
              /\ main' = "keys"
              /\ pk' = {}
              /\ UNCHANGED <<bk, down>>

KernelUsage == /\ Going /\ main = "keys" /\ left > 0
               /\ kernelbuf # <<>> /\ Head(kernelbuf).m = 5 /\ Head(kernelbuf).i > 1
               /\ pk' = pk \cup {Head(kernelbuf).v}
               /\ left' = left - 1
               /\ Taken(1)
               /\ UNCHANGED <<main, bk, down>>

\* Mutant of KeysDone: a key that is still down keeps its place only once.
KeysDoneKeeps(old, new) == old \cup new
KeysDone(old, new) == new

\* The keys that are new, and those that are not there any more; a release has
\* bit 7 set.  None and RollOver have code 0, which no key has.
KernelCodes ==
  /\ Going /\ main = "keys" /\ left = 0
  /\ LET press == SetToSeq((pk \ bk) \cap Keys)
         free == SetToSeq((bk \ pk) \cap Keys)
     IN  todo' = [todo EXCEPT ![Main] =
           KeyMessages(press \o [k \in DOMAIN free |-> free[k] + 128])]
  /\ bk' = KeysDone(bk, pk)
  /\ main' = "loop"
  /\ UNCHANGED <<kernelbuf, left, pk, down, comp, usb, mouse, budget, cut>>

-------------------------------------------------------------------------------
Next == \/ KeyHandle \/ RtcHandle \/ Refresh
        \/ MouseAck \/ MousePacket \/ MouseLoses
        \/ ControlEnds \/ ReportEnds \/ TransferFails
        \/ \E k \in Keys : KeyMoves(k)
        \/ \E t \in Task : \/ HidInit(t) \/ HidFails(t) \/ HidReport(t) \/ MassReady(t)
                           \/ Write(t) \/ CompEnd(t)
        \/ KernelMessage \/ KernelPost \/ PostEnd \/ KernelKey
        \/ KernelKeys \/ KernelUsage \/ KernelCodes

Spec == Init /\ [][Next]_vars

-------------------------------------------------------------------------------
(* Properties *)

TypeOK == /\ \A k \in DOMAIN kernelbuf : kernelbuf[k].m \in {0, 1, 2, 5, 6, 7, 9}
          /\ main \in {"loop", "post", "keys"} /\ left \in Nat
          /\ bk \subseteq Keys \cup {None, RollOver} /\ down \subseteq Keys
          /\ comp \in Task \cup {NoTask}
          /\ phase \in {1234, 0, 1} /\ xfer \in {"none", "control", "report", "ended", "failed", "taken"}
          /\ mp \in 0..3 /\ initphase \in {-1, 0} /\ acks \in 0..2 /\ pos \in 0..2
          /\ cut \in BOOLEAN

\* The event loop never takes a word for what it is not, nor reads words that
\* are not there yet, unless a message was written or taken within another one,
\* which hid::comp, mass::comp and the q==5 branch let happen (hid.cpp:286):
\* all writers and the reader agree on the length of each message, those whose
\* length is a word of it included.
NeverAstray ==
  /\ TypeOK
  /\ Going /\ ~Within(Other) =>
       /\ AtLoop => \/ \E m \in {0, 1, 6, 7, 9} : Starts(Message(m))
                    \/ /\ Len(kernelbuf) > 1
                       /\ kernelbuf[1] \in {Word(2, 0, 0), Word(5, 0, 0)}
                       /\ kernelbuf[2].m = kernelbuf[1].m /\ kernelbuf[2].i = 1
       /\ main = "keys" /\ left > 0 => /\ kernelbuf # <<>>
                                       /\ Head(kernelbuf).m = 5 /\ Head(kernelbuf).i > 1

\* What the focus holds to be down is what is down on the keyboard, once its
\* report has gone through comp(), the q==5 branch and back through kernelbuf,
\* whatever came in between: no key sticks and none is lost.
KeysFollow ==
  kernelbuf = <<>> /\ main = "loop" /\ comp = NoTask /\ xfer = "report" /\ ~cut
    /\ todo[Main] = <<>>
  => down = ToSet(buf) \cap Keys

\* The mouse decoder stands where the packet stands: through the replies to
\* the initialisation, of which it counts one less than come, and past packets
\* with an overflow bit; unless a byte was lost or a later byte of a packet
\* without a header looks like one.
Aligned == mp > 0 /\ slip # "yes" => mp = 1 + IF slip = "skips" THEN 0 ELSE pos

\* The fields are where the rule of the class has them, in every report whose
\* number, if any, is in front and whose inputs have a usage for each field;
\* and getd() reads all their bits, but for one: where a field ends one bit
\* behind a whole byte it reads a byte too few (hid.cpp:20).
Rules == [d \in DOMAIN Descriptors |-> Rule(Descriptors[d])]

ReportRead ==
  phase = 1 /\ device # NoDevice /\ inputs = 0 /\ Rules[device].plain =>
    \A f \in {"x", "y", "buttons", "keys"} :
      /\ fields[f] = Rules[device].fields[f]
      /\ LET all == fields[f].off..(fields[f].off + fields[f].size - 1)
         IN  getd(fields[f]) = IF (fields[f].off + fields[f].size) % 8 = 1
                               THEN all \ {fields[f].off + fields[f].size - 1} ELSE all
===============================================================================
