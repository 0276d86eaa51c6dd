--------------------------- MODULE MCEpollServer ---------------------------
(***************************************************************************)
(* Instances of EpollServer for TLC: what each client may send.            *)
(***************************************************************************)
EXTENDS EpollServer, TLC

CONSTANTS ca, cb

\* ca sends two requests and half of a third, cb one request.
Mixed == (ca :> 5) @@ (cb :> 2)

Two == [x \in Clients |-> 4]     \* two requests each
=============================================================================
