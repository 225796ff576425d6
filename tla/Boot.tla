--------------------------------- MODULE Boot ---------------------------------
(***************************************************************************)
(* From nKernelmain to its event loop (kernel.cpp:225-327): the order in   *)
(* which the machine comes up, with interrupts on or off in between.       *)
(*                                                                         *)
(* IF is nobody's plan here.  Whatever allocates or prints ends with cli   *)
(* (searchmem, trefreshsub), the detection of an IDE disk and the reading  *)
(* of a CD end with sti, and everything else leaves it as it is: the       *)
(* drivers behind are set up with interrupts on or off, depending on the   *)
(* hardware.  Each step is what runs between two places where an interrupt *)
(* could come.  What the steps find is chosen in Init and external.        *)
(***************************************************************************)
EXTENDS Integers, Sequences

CONSTANTS Hardware  \* the machines; the fields of one are described at hw

ASSUME HardwareAssumption ==
         \A h \in Hardware : h.msi \in BOOLEAN /\ h.ports \in BOOLEAN /\ h.usb \in BOOLEAN

VARIABLES hw,       \* ide[a]: what answers at address a; pci: its functions; msi,
                    \* ports: of the xHC; usb: there is a USB drive; boot: the
                    \* drive of the firmware's boot path, or "other"
          place,    \* what comes next
          on,       \* interrupts are on
          gates,    \* the IRQs whose gate is set
          mpb, spb, \* the masked IRQs of each controller, as pic.cpp has them
          mask,     \* those the controllers mask
          msip,     \* the xHC sends its interrupt as a message
          made,     \* what has been made, of what handlers use
          pcis,     \* the functions pci::init found
          drvs, bdl,    \* the drives by letter; the boot drive's, or 0
          low       \* history: null pointers that were followed, into page 0

pic == <<gates, mpb, spb, mask, msip>>
drives == <<drvs, bdl>>
bootvars == <<hw, place, on, pic, made, pcis, drives, low>>

IRQ == {0, 1, 8, 11, 12}
Master == 0..7
Slave == 8..15

Addr == {0, 1}     \* of IDE devices

\* What the handler of n uses.
Needs(n) == CASE n = 0 -> IF "mt" \in made THEN {"tasks", "current"} ELSE {}
              [] n = 11 -> {"kernelbuf", "xhc"}
              [] OTHER -> {"kernelbuf"}

BootInit == /\ hw \in Hardware
            /\ place = "tables" /\ on = FALSE
            /\ gates = {} /\ mpb = {} /\ spb = {} /\ mask = Master \cup Slave
            /\ msip = FALSE
            /\ made = {} /\ pcis = {}
            /\ drvs = <<>> /\ bdl = 0
            /\ low = {}

Step(from, to) == place = from /\ place' = to

\* searchmem, new and puts leave interrupts off.
Off == on' = FALSE
Same == UNCHANGED on

SetIdt(n) == gates' = gates \cup {n} /\ UNCHANGED <<mpb, spb, mask, msip>>

\* Mutant of OpenIrq: the cascade is left to pic_init, which opened it in the
\* controller but not in mpb.
OpenIrqAlone(n) ==
  /\ IF n < 8 THEN mpb' = mpb \ {n} /\ UNCHANGED spb
     ELSE spb' = spb \ {n} /\ UNCHANGED mpb
  /\ mask' = IF n < 8 THEN mpb' \cup (mask \cap Slave) ELSE (mask \cap Master) \cup spb'
  /\ UNCHANGED <<gates, msip>>

\* open_irq(): from 8 on with the cascade, IRQ 2.
OpenIrq(n) ==
  /\ IF n < 8 THEN mpb' = mpb \ {n} /\ UNCHANGED spb
     ELSE mpb' = mpb \ {2} /\ spb' = spb \ {n}
  /\ mask' = mpb' \cup IF n < 8 THEN mask \cap Slave ELSE spb'
  /\ UNCHANGED <<gates, msip>>

Has(class) == \E f \in pcis : f.class = class

-------------------------------------------------------------------------------
(* Up to the drives                                                         *)

\* memory_init, x64_init, api_init, the event loop's fifo
Tables == /\ Step("tables", "pci")
          /\ made' = made \cup {"kernelbuf"}
          /\ Off
          /\ UNCHANGED <<hw, pic, pcis, drives, low>>

\* pci::init: the first eight buses; without a function 0 there is no device.
Scanned(f) == f.bus < 8 /\ f.first /\ f.class # "bridge"

Pci == /\ Step("pci", "pic")
       /\ pcis' = {f \in hw.pci : Scanned(f)}
       /\ Off
       /\ UNCHANGED <<hw, pic, made, drives, low>>

\* layerd::init and the console, and pic_init
PicInit == /\ Step("pic", "rtcgate")
           /\ mpb' = Master /\ spb' = Slave
           /\ mask' = (Master \ {2}) \cup Slave
           /\ Off
           /\ UNCHANGED <<hw, gates, msip, made, pcis, drives, low>>

\* The set_idt and open_irq of rtcd, ps2, timerd and xhci
Gate(from, to, n) == /\ Step(from, to)
                     /\ SetIdt(n)
                     /\ Same
                     /\ UNCHANGED <<hw, made, pcis, drives, low>>

Open(from, to, n) == /\ Step(from, to)
                     /\ OpenIrq(n)
                     /\ Same
                     /\ UNCHANGED <<hw, made, pcis, drives, low>>

Rtc == Gate("rtcgate", "rtc", 8) \/ Open("rtc", "drvd", 8)

DrvInit == /\ Step("drvd", "ide0")
           /\ drvs' = <<>>
           /\ Off
           /\ UNCHANGED <<hw, pic, made, pcis, bdl, low>>

-------------------------------------------------------------------------------
(* Drives                                                                   *)

\* Mutant of Letter: it is looked for when the drive has its letter.
LetterBehind(s) == Len(s) + 2

\* The first free letter, 1 for 'A'.
Letter(s) == Len(s) + 1

\* recognizefs sets the directory of the current task.
Recognize == low' = IF "current" \in made THEN low ELSE low \cup {"current"}

Register(d) == /\ bdl' = IF d = hw.boot THEN Letter(drvs) ELSE bdl
               /\ drvs' = Append(drvs, d)
               /\ Recognize

Drive(a) == <<"ide0", "ide1">>[a + 1]
Behind(a) == <<"ide1", "sata">>[a + 1]
CdAt(a) == <<"cd0", "cd1">>[a + 1]

\* detectdevice(a).  Without a controller the status reads 0xff, an error; a CD
\* drive without a medium is not registered either.
DetectNone(a) == /\ Step(Drive(a), Behind(a))
                 /\ hw.ide[a] = "none"
                 /\ Off
                 /\ UNCHANGED <<hw, pic, made, pcis, drives, low>>

\* A disk: with interrupts off again behind the first print, the read that is
\* thrown away and those of recognizefs are polled.  One of 2^28-1 sectors, as
\* every larger one says it has, is not registered.
DetectDisk(a) == /\ Step(Drive(a), Behind(a))
                 /\ \/ hw.ide[a] = "disk" /\ Register(Drive(a))
                    \/ hw.ide[a] = "large" /\ UNCHANGED <<drives, low>>
                 /\ on' = TRUE
                 /\ UNCHANGED <<hw, pic, made, pcis>>

\* A CD: the first read of recognizefs ends with sti.
ReadCd(a) == /\ Step(Drive(a), CdAt(a))
             /\ hw.ide[a] = "cd"
             /\ on' = TRUE
             /\ UNCHANGED <<hw, pic, made, pcis, drives, low>>

\* It prints what it has read, and if that is a FAT, init reads on.
DetectCd(a) == /\ Step(CdAt(a), Behind(a))
               /\ Register(Drive(a))
               /\ on' \in BOOLEAN
               /\ UNCHANGED <<hw, pic, made, pcis>>

\* satad::init prints if there is a controller; no SATA drive is registered.
Sata == /\ Step("sata", "keygate")
        /\ IF Has("ahci") THEN Off ELSE Same
        /\ UNCHANGED <<hw, pic, made, pcis, drives, low>>

-------------------------------------------------------------------------------
(* Interrupts, tasks, USB                                                   *)

\* ps2::init
Ps2 == \/ Gate("keygate", "mousegate", 1) \/ Gate("mousegate", "key", 12)
       \/ Open("key", "mouse", 1) \/ Open("mouse", "taskb", 12)

\* The stack of taskb is allocated, then timerd::init.
Taskb == /\ Step("taskb", "timergate")
         /\ Off
         /\ UNCHANGED <<hw, pic, made, pcis, drives, low>>

Timer == Gate("timergate", "timer", 0) \/ Open("timer", "mtask", 0)

\* task::task() reads the boot drive's root through drvs[bdl].
Construct == low' = IF bdl = 0 THEN low \cup {"drive"} ELSE low

\* mtaskd::init, object by object: each new leaves interrupts off.
Mtask == \/ /\ Step("mtask", "task0")
            /\ made' = made \cup {"mt", "tasks"}
            /\ Off
            /\ UNCHANGED <<hw, pic, pcis, drives, low>>
         \/ /\ Step("task0", "screen")
            /\ made' = made \cup {"current"}
            /\ Construct
            /\ Off
            /\ UNCHANGED <<hw, pic, pcis, drives>>

\* The console of the clock and the cursor
Screen == /\ Step("screen", "xhcigate")
          /\ Off
          /\ UNCHANGED <<hw, pic, made, pcis, drives, low>>

\* xhci::init; every print ends with cli.  Without a controller it returns, and
\* without ports before the sti.
XhciFind == /\ Step("xhci", IF Has("xhc") THEN "xhciirq" ELSE "form")
            /\ Same
            /\ UNCHANGED <<hw, pic, made, pcis, drives, low>>

XhciMsi == /\ Step("xhcimsi", "xhciregs")
           /\ msip' = hw.msi
           /\ Off
           /\ UNCHANGED <<hw, gates, mpb, spb, mask, made, pcis, drives, low>>

XhciRegs == /\ Step("xhciregs", IF hw.ports THEN "xhcirun" ELSE "form")
            /\ made' = made \cup {"xhc"}
            /\ Off
            /\ UNCHANGED <<hw, pic, pcis, drives, low>>

XhciRun == /\ Step("xhcirun", "form")
           /\ on' = TRUE
           /\ UNCHANGED <<hw, pic, made, pcis, drives, low>>

Xhci == \/ Gate("xhcigate", "xhci", 11) \/ XhciFind
        \/ Open("xhciirq", "xhcimsi", 11) \/ XhciMsi \/ XhciRegs \/ XhciRun

-------------------------------------------------------------------------------
(* The event loop                                                           *)

\* cli; the button and the login form
Form == /\ Step("form", "loop")
        /\ Off
        /\ UNCHANGED <<hw, pic, made, pcis, drives, low>>

\* sti; hlt, and the cli behind it
Idle == /\ place = "loop"
        /\ on' = ~on
        /\ UNCHANGED <<hw, place, pic, made, pcis, drives, low>>

\* Message 6: a USB drive is ready.
RegisterUsb == /\ place = "loop" /\ ~on
               /\ hw.usb /\ \A i \in DOMAIN drvs : drvs[i] # "usb"
               /\ Has("xhc") /\ hw.ports
               /\ Register("usb")
               /\ on' = TRUE
               /\ UNCHANGED <<hw, place, pic, made, pcis>>

\* login() and the task of a terminal go through drvs[bdl]; with a null pointer
\* login's call ends anywhere.
Login == /\ place = "loop" /\ ~on
         /\ Construct
         /\ place' = IF bdl = 0 THEN "lost" ELSE "loop"
         /\ UNCHANGED <<hw, on, pic, made, pcis, drives>>

BootNext == \/ Tables \/ Pci \/ PicInit \/ Rtc \/ DrvInit
            \/ \E a \in Addr : \/ DetectNone(a) \/ DetectDisk(a)
                              \/ ReadCd(a) \/ DetectCd(a)
            \/ Sata \/ Ps2 \/ Taskb \/ Timer \/ Mtask \/ Screen \/ Xhci
            \/ Form \/ Idle \/ RegisterUsb \/ Login

BootSpec == BootInit /\ [][BootNext]_bootvars

-------------------------------------------------------------------------------
(* Properties *)

BootTypeOK == /\ hw \in Hardware
              /\ on \in BOOLEAN /\ msip \in BOOLEAN
              /\ gates \subseteq IRQ
              /\ mpb \subseteq Master /\ spb \subseteq Slave /\ mask \subseteq Master \cup Slave
              /\ made \subseteq {"kernelbuf", "mt", "tasks", "current", "xhc"}
              /\ pcis \subseteq hw.pci
              /\ drvs \in Seq({"ide0", "ide1", "usb"})
              /\ bdl \in Nat
              /\ low \subseteq {"current", "drive"}

\* The IRQs that reach the processor when interrupts are on.
Passes == {n \in IRQ : \/ n \notin mask /\ (n < 8 \/ 2 \notin mask)
                       \/ n = 11 /\ msip}

\* On every machine, at every moment at which interrupts happen to be on, each
\* interrupt that can come finds its gate and what its handler follows; and at
\* the event loop those of all devices that were set up do come: opening one
\* later never closes another (pic.cpp:25-34).
Interrupts == /\ BootTypeOK
              /\ on => \A n \in Passes : n \in gates /\ Needs(n) \subseteq made
              /\ place = "loop" => {0, 1, 8, 12} \cup (IF Has("xhc") THEN {11} ELSE {}) \subseteq Passes

\* bdl names the firmware's boot drive as soon as it names one.  A task or a
\* login that goes through it finds the drive, where that is an IDE one: a USB
\* drive comes later, one of another kind never (drive.cpp:31-50, mtask.cpp:71,
\* kernel.cpp:97, 319).
DriveKnown == /\ bdl # 0 => bdl \in DOMAIN drvs /\ drvs[bdl] = hw.boot
              /\ "drive" \in low => \A a \in Addr : hw.ide[a] \in {"disk", "cd"} =>
                                                   hw.boot # Drive(a)
===============================================================================
