---------------------------- MODULE MCMessageQueue ----------------------------
(* Instances of MessageQueue for TLC. *)
EXTENDS MessageQueue, TLC

MCAllFaults == FaultNames

\* Opening the queue may fail.
MCOpenFault == {"open"}

\* Clients differ in nothing; servers and testers name queues and stay apart.
MCClientSymmetry == Permutations(Clients)
=============================================================================
