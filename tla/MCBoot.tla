-------------------------------- MODULE MCBoot --------------------------------
(***************************************************************************)
(* Instances of Boot, Ide and Context for TLC.                             *)
(*                                                                         *)
(* Boot: every machine with what can answer at the two IDE addresses, with *)
(* and without AHCI and xHC controllers, some of them where pci::init does *)
(* not look, message-signalled interrupts or not, ports or none, and every *)
(* boot path.  Ide: two tasks, a disk of four sectors and a boundary of    *)
(* the high bits, a CD of two blocks whose last sector is beyond 32 bits.  *)
(* Context: three tasks, of which two run applications.                    *)
(*                                                                         *)
(* A behaviour is of one kind: the machine comes up, tasks call the IDE    *)
(* drives, or tasks and an application take turns.                         *)
(***************************************************************************)
EXTENDS Boot, Ide, Context

CONSTANTS t1, t2, t3

MCTasks == {t1, t2, t3}
MCShells == {t2, t3}
MCUsers == {t1, t2}

Functions == { [bus |-> 0, first |-> TRUE, class |-> "ahci"],
               [bus |-> 0, first |-> TRUE, class |-> "xhc"],
               [bus |-> 8, first |-> TRUE, class |-> "xhc"],
               [bus |-> 1, first |-> FALSE, class |-> "ahci"] }

MCHardware == [ide : [{0, 1} -> {"none", "disk", "large", "cd"}],
               pci : SUBSET Functions,
               msi : BOOLEAN, ports : BOOLEAN, usb : BOOLEAN,
               boot : {"ide0", "ide1", "usb", "other"}]

all == <<bootvars, idevars, contextvars>>

MCInit == BootInit /\ IdeInit /\ ContextInit

\* Nothing has happened; behaviours of the other kinds are on one machine.
BootFirst == /\ place = "tables" /\ hw.pci = {} /\ hw.boot = "other"
             /\ ~hw.msi /\ ~hw.ports /\ ~hw.usb
             /\ \A a \in Addr : hw.ide[a] = "none"
IdeFirst == calls = 0
ContextFirst == ct = [t \in Tasks |-> NewTask(t)] /\ at[Main] = "kernel"

MCNext == \/ IdeFirst /\ ContextFirst /\ BootNext /\ UNCHANGED <<idevars, contextvars>>
          \/ BootFirst /\ ContextFirst /\ IdeNext /\ UNCHANGED <<bootvars, contextvars>>
          \/ BootFirst /\ IdeFirst /\ ContextNext /\ UNCHANGED <<bootvars, idevars>>

MCSpec == MCInit /\ [][MCNext]_all
===============================================================================
