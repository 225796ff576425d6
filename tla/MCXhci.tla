-------------------------------- MODULE MCXhci --------------------------------
(***************************************************************************)
(* Instances of Ring and of Ports for TLC.  A ring of five entries and its *)
(* link, transfers of up to three TRBs, two kinds of requests; laps are    *)
(* not counted, so that any number is covered.  Two ports, which suffice   *)
(* for one to wait for the other.                                          *)
(*                                                                         *)
(* A behaviour is of one kind: the driver and the controller on a ring, or *)
(* devices that come and go.                                               *)
(***************************************************************************)
EXTENDS Ring, Ports

MCTrb == {0, 1}
MCZero == 0

both == <<vars, portvars>>

\* No device has been there, nothing has been pushed.
NoDevice == plugs = 0 /\ unplugs = 0 /\ \A p \in Port : ~conn[p]
NoTransfer == Init

OnRing(A) == NoDevice /\ A /\ UNCHANGED portvars
OnPorts(A) == NoTransfer /\ A /\ UNCHANGED vars

MCInit == Init /\ PortsInit

MCNext == \/ NoDevice /\ Next /\ UNCHANGED portvars
          \/ NoTransfer /\ PortsNext /\ UNCHANGED vars

\* The fairness of Ring's FairSpec and of Ports' PortsFairSpec.
MCSpec == /\ MCInit /\ [][MCNext]_both
          /\ WF_both(OnRing(Transfer)) /\ WF_both(OnRing(Controller))
          /\ WF_both(OnPorts(Handle)) /\ WF_both(OnPorts(Exec))
          /\ \A s \in Slot :
               WF_both(OnPorts(\E ok \in BOOLEAN : TransferEnds(s, ok)))
===============================================================================
