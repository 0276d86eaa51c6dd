--------------------------- MODULE EpollLTServer ---------------------------
(***************************************************************************)
(* 8.7/epollServer.1: level-triggered epoll.  The server keeps no table of *)
(* its own: epoll does, and reports the ready descriptors in no particular *)
(* order.  At most gnum = 64 are reported at once; here all of them fit.   *)
(***************************************************************************)
EXTENDS StreamSockets

VARIABLES
    pc,         \* the call the server makes next
    watched,    \* the descriptors added to epoll
    reported,   \* the events of _recv not handled yet
    fd,         \* the descriptor of the event being handled
    units       \* what the last recv returned

server == <<pc, watched, reported, fd, units>>
vars == <<sockets, server>>

ServerInit ==
    /\ pc = "wait" /\ watched = {Listen} /\ reported = {} /\ fd = Listen /\ units = 0

-----------------------------------------------------------------------------
Wait ==
    /\ pc = "wait"
    /\ reported' = {x \in watched : Readable(x)}
    /\ reported' # {}
    /\ pc' = "scan"
    /\ UNCHANGED <<sockets, watched, fd, units>>

HandlerEvents ==
    /\ pc = "scan"
    /\ \E x \in reported :
          /\ reported' = reported \ {x} /\ fd' = x
          /\ pc' = IF x = Listen THEN "accept" ELSE "recv"
    /\ UNCHANGED <<sockets, watched, units>>

HandledAll ==
    /\ pc = "scan" /\ reported = {}
    /\ pc' = "wait" /\ fd' = Listen
    /\ UNCHANGED <<sockets, watched, reported, units>>

\* Mutant: the new connection is not added to epoll.
AccepterForgets ==
    /\ pc = "accept"
    /\ \E x \in Fds : AcceptAs(x) /\ watched' = watched
    /\ pc' = "scan"
    /\ UNCHANGED <<reported, fd, units>>

Accepter ==
    /\ pc = "accept"
    /\ \E x \in Fds : AcceptAs(x) /\ watched' = watched \cup {x}
    /\ pc' = "scan"
    /\ UNCHANGED <<reported, fd, units>>

AccepterError ==
    /\ pc = "accept" /\ AcceptError
    /\ pc' = "scan"
    /\ UNCHANGED <<watched, reported, fd, units>>

-----------------------------------------------------------------------------
(* IOService *)

Recv ==
    /\ pc = "recv"
    /\ \E k \in 1 .. rcv[peer[fd]] : RecvUnits(fd, k) /\ units' = k
    /\ pc' = "send"
    /\ UNCHANGED <<watched, reported, fd>>

\* The descriptor is taken out of epoll and closed.
RecvEnd ==
    /\ pc = "recv"
    /\ RecvEndClose(fd)
    /\ watched' = watched \ {fd}
    /\ pc' = "scan"
    /\ UNCHANGED <<reported, fd, units>>

Send ==
    /\ pc = "send"
    /\ Sent(fd, units) \/ SentToNobody(fd)
    /\ pc' = "scan" /\ units' = 0
    /\ UNCHANGED <<watched, reported, fd>>

SendPipe ==
    /\ pc = "send" /\ BrokenPipe(fd)
    /\ pc' = "killed"
    /\ UNCHANGED <<watched, reported, fd, units>>

ServerStep == \/ Wait \/ HandlerEvents \/ HandledAll \/ Accepter \/ AccepterError
              \/ Recv \/ RecvEnd \/ Send \/ SendPipe

-----------------------------------------------------------------------------
Watches(x) == x \in watched

Serving == fd
=============================================================================
