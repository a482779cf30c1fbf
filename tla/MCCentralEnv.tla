---------------------------- MODULE MCCentralEnv ----------------------------
(* CentralEnv with two replicas on the origin and one on the peer.          *)
EXTENDS CentralEnv

MCReps == [h \in Host |-> IF h = "o" THEN {1, 2} ELSE {1}]
=============================================================================
