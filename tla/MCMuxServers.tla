---------------------------- MODULE MCMuxServers ----------------------------
(***************************************************************************)
(* An instance of MuxServers for TLC.                                      *)
(***************************************************************************)
EXTENDS MuxServers, TLC

CONSTANTS ca, cb, cc

MCSends == (ca :> 1) @@ (cb :> 2) @@ (cc :> 0)
=============================================================================
