----------------------------- MODULE PollServer -----------------------------
(***************************************************************************)
(* 8.7/pollServer: like SelectServer, but what is ready is reported slot   *)
(* by slot, in the revents of _fd_array itself.  poll overwrites them all. *)
(***************************************************************************)
EXTENDS StreamSockets

CONSTANT N              \* the slots of _fd_array

Slots == 0 .. N - 1
NoFd == -1

VARIABLES
    pc,         \* the call the server makes next
    fd_array,   \* _fd_array[].fd
    pos,        \* the slot HandlerEvent looks at
    reported,   \* the slots whose revents has POLLIN
    units       \* what the last recv returned

server == <<pc, fd_array, pos, reported, units>>
vars == <<sockets, server>>

ServerInit ==
    /\ pc = "wait" /\ pos = 0 /\ reported = {} /\ units = 0
    /\ fd_array = [i \in Slots |-> IF i = 0 THEN Listen ELSE NoFd]

-----------------------------------------------------------------------------
Poll ==
    /\ pc = "wait"
    /\ reported' = {i \in Slots : fd_array[i] # NoFd /\ Readable(fd_array[i])}
    /\ reported' # {}
    /\ pos' = 0 /\ pc' = "scan"
    /\ UNCHANGED <<sockets, fd_array, units>>

NextSlot(i) == i \in reported /\ i >= pos /\ \A j \in reported : j >= pos => i <= j

HandlerEvent ==
    /\ pc = "scan"
    /\ \E i \in Slots :
          /\ NextSlot(i)
          /\ pos' = i
          /\ pc' = IF fd_array[i] = Listen THEN "accept" ELSE "recv"
    /\ UNCHANGED <<sockets, fd_array, reported, units>>

ScanDone ==
    /\ pc = "scan" /\ ~ \E i \in Slots : NextSlot(i)
    /\ pc' = "wait" /\ reported' = {} /\ pos' = 0
    /\ UNCHANGED <<sockets, fd_array, units>>

NextRound == pos' = pos + 1 /\ pc' = "scan"

\* Mutant: a new slot is given POLLIN as its revents instead of its events.
AccepterRevents ==
    /\ pc = "accept"
    /\ \E fd \in Fds, i \in Slots :
          /\ fd_array[i] = NoFd /\ \A j \in 0 .. i - 1 : fd_array[j] # NoFd
          /\ AcceptAs(fd)
          /\ fd_array' = [fd_array EXCEPT ![i] = fd]
          /\ reported' = reported \cup {i}
    /\ NextRound /\ UNCHANGED units

Accepter ==
    /\ pc = "accept"
    /\ \E fd \in Fds, i \in Slots :
          /\ fd_array[i] = NoFd /\ \A j \in 0 .. i - 1 : fd_array[j] # NoFd
          /\ AcceptAs(fd)
          /\ fd_array' = [fd_array EXCEPT ![i] = fd]
          /\ reported' = reported \ {i}
    /\ NextRound /\ UNCHANGED units

AccepterFull ==
    /\ pc = "accept" /\ (\A i \in Slots : fd_array[i] # NoFd) /\ Open # Fds
    /\ Refuse
    /\ NextRound /\ UNCHANGED <<fd_array, reported, units>>

AccepterError ==
    /\ pc = "accept" /\ AcceptError
    /\ NextRound /\ UNCHANGED <<fd_array, reported, units>>

-----------------------------------------------------------------------------
(* IOService *)

Recv ==
    /\ pc = "recv"
    /\ \E k \in 1 .. rcv[peer[fd_array[pos]]] : RecvUnits(fd_array[pos], k) /\ units' = k
    /\ pc' = "send"
    /\ UNCHANGED <<fd_array, pos, reported>>

RecvEnd ==
    /\ pc = "recv"
    /\ RecvEndClose(fd_array[pos])
    /\ fd_array' = [fd_array EXCEPT ![pos] = NoFd]
    /\ reported' = reported \ {pos}
    /\ NextRound /\ UNCHANGED units

Send ==
    /\ pc = "send"
    /\ Sent(fd_array[pos], units) \/ SentToNobody(fd_array[pos])
    /\ NextRound /\ units' = 0 /\ UNCHANGED <<fd_array, reported>>

SendPipe ==
    /\ pc = "send" /\ BrokenPipe(fd_array[pos])
    /\ pc' = "killed"
    /\ UNCHANGED <<fd_array, pos, reported, units>>

ServerStep == \/ Poll \/ HandlerEvent \/ ScanDone
              \/ Accepter \/ AccepterFull \/ AccepterError
              \/ Recv \/ RecvEnd \/ Send \/ SendPipe

-----------------------------------------------------------------------------
Watches(fd) == \E i \in Slots : fd_array[i] = fd

Serving == fd_array[pos]

NoTwice == \A i, j \in Slots : fd_array[i] = fd_array[j] /\ fd_array[i] # NoFd => i = j
=============================================================================
