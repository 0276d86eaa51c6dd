---------------------------- MODULE SelectServer ----------------------------
(***************************************************************************)
(* 8.6/selectServer.1 and .2, which differ in what they store of events    *)
(* (always EVENT_READ) but not in what they do: an array of descriptors is *)
(* given to select, then scanned once; slot 0 is the listening socket.  A  *)
(* round that select ends with a timeout changes nothing.                  *)
(***************************************************************************)
EXTENDS StreamSockets

CONSTANT fd_size        \* the slots of _fd_array, also what an fd_set can hold

Slots == 0 .. fd_size - 1
NoFd == -1

VARIABLES
    pc,         \* the call the server makes next
    fd_array,   \* _fd_array[].fd
    pos,        \* the slot HandlerEvent looks at
    reported,   \* rdfds after select
    units       \* what the last recv returned

server == <<pc, fd_array, pos, reported, units>>
vars == <<sockets, server>>

\* init_server, and the listening socket put into the array.
ServerInit ==
    /\ pc = "wait" /\ pos = 0 /\ reported = {} /\ units = 0
    /\ fd_array = [i \in Slots |-> IF i = 0 THEN Listen ELSE NoFd]

-----------------------------------------------------------------------------
Select ==
    /\ pc = "wait"
    /\ reported' = {fd \in {fd_array[i] : i \in Slots} \ {NoFd} : Readable(fd)}
    /\ reported' # {}
    /\ pos' = 0 /\ pc' = "scan"
    /\ UNCHANGED <<sockets, fd_array, units>>

\* The next slot whose descriptor is set in rdfds.
NextSlot(i) == /\ i \in pos .. fd_size - 1 /\ fd_array[i] \in reported
               /\ \A j \in pos .. i - 1 : fd_array[j] \notin reported

HandlerEvent ==
    /\ pc = "scan"
    /\ \E i \in Slots :
          /\ NextSlot(i)
          /\ pos' = i
          /\ pc' = IF fd_array[i] = Listen THEN "accept" ELSE "recv"
    /\ UNCHANGED <<sockets, fd_array, reported, units>>

ScanDone ==
    /\ pc = "scan" /\ ~ \E i \in Slots : NextSlot(i)
    /\ pc' = "wait" /\ reported' = {} /\ pos' = 0
    /\ UNCHANGED <<sockets, fd_array, units>>

NextRound == pos' = pos + 1 /\ pc' = "scan"

\* The new descriptor goes into the first free slot.
Accepter ==
    /\ pc = "accept"
    /\ \E fd \in Fds, i \in Slots :
          /\ fd_array[i] = NoFd /\ \A j \in 0 .. i - 1 : fd_array[j] # NoFd
          /\ AcceptAs(fd)
          /\ fd_array' = [fd_array EXCEPT ![i] = fd]
    /\ NextRound /\ UNCHANGED <<reported, units>>

\* The array is full: the connection is closed again.
AccepterFull ==
    /\ pc = "accept" /\ (\A i \in Slots : fd_array[i] # NoFd) /\ Open # Fds
    /\ Refuse
    /\ NextRound /\ UNCHANGED <<fd_array, reported, units>>

AccepterError ==
    /\ pc = "accept" /\ AcceptError
    /\ NextRound /\ UNCHANGED <<fd_array, reported, units>>

-----------------------------------------------------------------------------
(* IOService *)

Recv ==
    /\ pc = "recv"
    /\ \E k \in 1 .. rcv[peer[fd_array[pos]]] : RecvUnits(fd_array[pos], k) /\ units' = k
    /\ pc' = "send"
    /\ UNCHANGED <<fd_array, pos, reported>>

\* Mutant: the slot keeps the closed descriptor.
RecvEndKeepSlot ==
    /\ pc = "recv"
    /\ RecvEndClose(fd_array[pos])
    /\ fd_array' = fd_array
    /\ NextRound /\ UNCHANGED <<reported, units>>

RecvEnd ==
    /\ pc = "recv"
    /\ RecvEndClose(fd_array[pos])
    /\ fd_array' = [fd_array EXCEPT ![pos] = NoFd]
    /\ NextRound /\ UNCHANGED <<reported, units>>

\* The reply; its result is not looked at.
Send ==
    /\ pc = "send"
    /\ Sent(fd_array[pos], units) \/ SentToNobody(fd_array[pos])
    /\ NextRound /\ units' = 0 /\ UNCHANGED <<fd_array, reported>>

SendPipe ==
    /\ pc = "send" /\ BrokenPipe(fd_array[pos])
    /\ pc' = "killed"
    /\ UNCHANGED <<fd_array, pos, reported, units>>

\* The functions of the two programs, of which .1 is mapped here.
ScanSlots == HandlerEvent \/ ScanDone
AcceptConnection == Accepter \/ AccepterFull \/ AccepterError
IOService == Recv \/ RecvEnd \/ Send \/ SendPipe

ServerStep == Select \/ ScanSlots \/ AcceptConnection \/ IOService

-----------------------------------------------------------------------------
(* What the server watches, and whose call it is about to make *)
Watches(fd) == \E i \in Slots : fd_array[i] = fd

Serving == fd_array[pos]

\* No descriptor is in two slots.
NoTwice == \A i, j \in Slots : fd_array[i] = fd_array[j] /\ fd_array[i] # NoFd => i = j
=============================================================================
