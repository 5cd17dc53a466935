-------------------------- MODULE MCMFBrokerClient --------------------------
(* Small instances of the client broker for TLC.  The threads are          *)
(* interchangeable: no property names one.                                 *)
EXTENDS MFBrokerClient, TLC

AppSymmetry == Permutations(Apps)
=============================================================================
