-------------------------- MODULE MuxServersProofs --------------------------
(***************************************************************************)
(* MuxServers for any clients, descriptors, slots and send buffers: none   *)
(* of the three servers makes a call that blocks on a descriptor with      *)
(* nothing to report, and each watches exactly what is open.  select and   *)
(* poll are seen as one server that scans an array (ArrayStep); what is    *)
(* still due in the scan stays readable (Ripe), because each connection    *)
(* has a client of its own (OnePeer) and accept comes first in a round.    *)
(***************************************************************************)
EXTENDS MuxServers, SequenceTheorems, TLAPS

Links == {"up", "fin", "reset", "pipe", "dead"}

SocketTypes ==
    /\ backlog \in Seq(Clients) /\ peer \in [Fds -> Clients \cup {NoClient}]
    /\ rcv \in [Clients -> Nat] /\ snd \in [Clients -> Seq(Nat)]
    /\ link \in [Clients -> Links] /\ gone \in [Clients -> {"new", "open", "left", "refused"}]
    /\ sent \in [Clients -> Nat] /\ got \in [Clients -> Nat]

\* A client is in one place: not connected, in the backlog once, or at the
\* other end of one descriptor.
OnePeer ==
    /\ \A c \in Clients : gone[c] = "new" =>
           /\ \A x \in Fds : peer[x] # c
           /\ \A i \in 1 .. Len(backlog) : backlog[i] # c
    /\ \A i \in 1 .. Len(backlog) : \A x \in Fds : peer[x] # backlog[i]
    /\ \A i, j \in 1 .. Len(backlog) : backlog[i] = backlog[j] => i = j
    /\ \A x, y \in Open : peer[x] = peer[y] => x = y

SocketsOK == SocketTypes /\ OnePeer

(* The servers that scan an array: select and poll.  They differ in what is *)
(* reported, descriptors or slots.                                          *)

Size == IF kind = "select" THEN fd_size ELSE N
Slots == 0 .. Size - 1
NoFd == -1

Due(i) == IF kind = "select" THEN fd_array[i] \in reported ELSE i \in reported

\* The listening socket and the open connections are in the array, each once.
ArrayOK ==
    /\ fd_array \in [Slots -> Fds \cup {Listen, NoFd}]
    /\ \A i \in Slots : fd_array[i] = Listen <=> i = 0
    /\ \A x \in Fds : (\E i \in Slots : fd_array[i] = x) <=> x \in Open
    /\ \A i, j \in Slots : fd_array[i] = fd_array[j] /\ fd_array[i] # NoFd => i = j

\* Which slot the scan is at.
PlaceOK ==
    /\ pc \in {"wait", "scan", "accept", "recv", "send", "killed"}
    /\ pos \in Nat /\ units \in Nat
    /\ pc \in {"accept", "recv", "send"} => pos \in Slots
    /\ pc = "accept" => pos = 0
    /\ pc \in {"recv", "send"} => fd_array[pos] \in Open

\* The slots still to be handled in this scan.
Ahead == {i \in Slots : /\ pc \in {"scan", "accept", "recv", "send"} /\ Due(i)
                        /\ i > pos \/ (i = pos /\ pc = "scan")}

\* What is still to be handled is open and would not block, nor does what is
\* being handled.
Ripe ==
    /\ \A i \in Ahead : fd_array[i] # NoFd /\ Readable(fd_array[i])
    /\ pc = "accept" => Readable(Listen)
    /\ pc = "recv" => Readable(fd_array[pos])

\* Before accept, no descriptor that select has reported can be given away.
Early ==
    kind = "select" /\ pc \in {"scan", "accept"} /\ pos = 0 => reported \subseteq Open \cup {Listen}

\* The level-triggered epoll server.
EpollOK ==
    /\ pc \in {"wait", "scan", "accept", "recv", "send", "killed"} /\ units \in Nat
    /\ watched = Open \cup {Listen} /\ reported \subseteq watched /\ fd \in Fds \cup {Listen}
    /\ \A x \in reported : Readable(x)
    /\ pc \in {"accept", "recv", "send"} => fd \notin reported
    /\ pc = "accept" => fd = Listen /\ Readable(Listen)
    /\ pc \in {"recv", "send"} => fd \in Open
    /\ pc = "recv" => Readable(fd)

ServerOK ==
    /\ kind \in {"select", "poll", "epoll"}
    /\ kind \in {"select", "poll"} => ArrayOK /\ PlaceOK /\ Ripe /\ Early
    /\ kind = "epoll" => EpollOK

-----------------------------------------------------------------------------
(* The sockets: what each call, and each step of a client, keeps *)

\* The calls on connection x.
OnConnection(x) == \/ \E k \in Nat : RecvUnits(x, k) \/ Sent(x, k)
                   \/ RecvEndClose(x) \/ SentToNobody(x)

LEMMA Descriptors ==
    ASSUME SocketTypes
    PROVE  /\ \A x \in Open : x \in Fds /\ peer[x] \in Clients /\ peer[x] # NoClient
           /\ \A x \in Fds : x # Listen /\ x \in Int
<1>1. \A x \in Fds : x # Listen /\ x \in Int
  BY DEF Fds, Listen
<1>2. \A x \in Open : x \in Fds /\ peer[x] \in Clients /\ peer[x] # NoClient
  BY DEF SocketTypes, Open
<1> QED
  BY <1>1, <1>2

LEMMA ClientSockets ==
    ASSUME SocketsOK, NEW c \in Clients, ClientStep(c)
    PROVE  /\ SocketsOK' /\ peer' = peer
           /\ \A x \in Open \cup {Listen} : Readable(x) => Readable(x)'
<1> USE DEF SocketsOK, SocketTypes, Links
<1>1. CASE Connect(c)
  <2>1. /\ gone[c] = "new" /\ gone' = [gone EXCEPT ![c] = "open"]
        /\ backlog' = Append(backlog, c) /\ UNCHANGED <<peer, rcv, snd, link, sent, got>>
    BY <1>1 DEF Connect
  <2>2. SocketTypes'
    BY <2>1
  <2>3. ASSUME NEW i \in 1 .. Len(backlog')
        PROVE  (i \in 1 .. Len(backlog) /\ backlog'[i] = backlog[i])
               \/ (i = Len(backlog) + 1 /\ backlog'[i] = c)
    <3> DEFINE n == Len(backlog)
               m == Len(backlog')
    <3>1. /\ n \in Nat /\ m = n + 1 /\ i \in 1 .. m
          /\ \A j \in 1 .. n : backlog'[j] = backlog[j]
          /\ backlog'[n + 1] = c
      BY <2>1
    <3> HIDE DEF n, m
    <3>2. i \in 1 .. n \/ i = n + 1
      BY <3>1
    <3> QED
      BY <3>1, <3>2 DEF n
  <2>4. /\ \A i \in 1 .. Len(backlog) : backlog[i] # c
        /\ \A x \in Fds : peer[x] # c
        /\ \A d \in Clients : gone'[d] = "new" => gone[d] = "new" /\ d # c
    BY <2>1 DEF OnePeer
  <2>5. \A i, j \in 1 .. Len(backlog') : backlog'[i] = backlog'[j] => i = j
    <3> SUFFICES ASSUME NEW i \in 1 .. Len(backlog'), NEW j \in 1 .. Len(backlog'),
                        backlog'[i] = backlog'[j]
                 PROVE  i = j
      OBVIOUS
    <3>1. \A k, l \in 1 .. Len(backlog) : backlog[k] = backlog[l] => k = l
      BY DEF OnePeer
    <3>2. (i \in 1 .. Len(backlog) /\ backlog'[i] = backlog[i]) \/ (i = Len(backlog) + 1 /\ backlog'[i] = c)
      BY <2>3
    <3>3. (j \in 1 .. Len(backlog) /\ backlog'[j] = backlog[j]) \/ (j = Len(backlog) + 1 /\ backlog'[j] = c)
      BY <2>3
    <3>4. backlog'[i] = backlog'[j]
      OBVIOUS
    <3> QED
      BY ONLY <2>4, <3>1, <3>2, <3>3, <3>4
  <2>6. \A i \in 1 .. Len(backlog') : \A x \in Fds : peer'[x] # backlog'[i]
    <3>1. \A i \in 1 .. Len(backlog) : \A x \in Fds : peer[x] # backlog[i]
      BY DEF OnePeer
    <3> QED
      BY <2>1, <2>3, <2>4, <3>1
  <2>7. \A d \in Clients : gone'[d] = "new" =>
           /\ \A x \in Fds : peer'[x] # d
           /\ \A i \in 1 .. Len(backlog') : backlog'[i] # d
    BY <2>1, <2>3, <2>4 DEF OnePeer
  <2>8. OnePeer'
    BY <2>1, <2>5, <2>6, <2>7 DEF OnePeer, Open
  <2>9. backlog' # <<>>
    BY <2>1, SMTT(40)
  <2> QED
    BY <2>1, <2>2, <2>8, <2>9 DEF Readable
<1>2. CASE SendUnit(c) \/ ReadReply(c) \/ Leave(c)
  <2>1. /\ UNCHANGED <<backlog, peer>> /\ \A d \in Clients : gone'[d] = "new" => gone[d] = "new"
    BY <1>2 DEF SendUnit, ReadReply, Leave
  <2>2. SocketTypes'
    <3>1. CASE SendUnit(c)
      BY <3>1, SMTT(40) DEF SendUnit
    <3>2. CASE ReadReply(c)
      <4>1. snd[c] \in Seq(Nat) /\ snd[c] # <<>> /\ got[c] \in Nat
        BY <3>2 DEF ReadReply
      <4>2. Tail(snd[c]) \in Seq(Nat) /\ got[c] + Head(snd[c]) \in Nat
        BY <4>1
      <4> QED
        BY <3>2, <4>2 DEF ReadReply
    <3>3. CASE Leave(c)
      BY <3>3 DEF Leave
    <3> QED
      BY <1>2, <3>1, <3>2, <3>3
  <2>3. OnePeer'
    BY <2>1 DEF OnePeer, Open
  <2>4. ASSUME NEW d \in Clients
        PROVE  (rcv[d] > 0 => rcv'[d] > 0) /\ (link[d] # "up" => link'[d] # "up")
    <3>1. CASE SendUnit(c)
      BY <3>1 DEF SendUnit
    <3>2. CASE ReadReply(c)
      BY <3>2 DEF ReadReply
    <3>3. CASE Leave(c)
      BY <3>3 DEF Leave
    <3> QED
      BY <1>2, <3>1, <3>2, <3>3
  <2> QED
    BY <2>1, <2>2, <2>3, <2>4, Descriptors DEF Readable
<1> QED
  BY <1>1, <1>2 DEF ClientStep

LEMMA AcceptSockets ==
    ASSUME SocketsOK, NEW x \in Fds, AcceptAs(x)
    PROVE  /\ SocketsOK' /\ Open' = Open \cup {x} /\ x \notin Open
           /\ \A y \in Open : Readable(y) => Readable(y)'
<1> USE DEF SocketsOK, SocketTypes
<1>1. /\ backlog' = Tail(backlog) /\ backlog # <<>> /\ x \notin Open
      /\ peer' = [peer EXCEPT ![x] = Head(backlog)]
      /\ UNCHANGED <<rcv, snd, link, gone, sent, got>>
  BY DEF AcceptAs
<1>2. /\ Head(backlog) = backlog[1] /\ Len(backlog) \in Nat \ {0}
      /\ Len(backlog') = Len(backlog) - 1 /\ Tail(backlog) \in Seq(Clients)
      /\ \A i \in 1 .. Len(backlog') : i + 1 \in 1 .. Len(backlog) /\ backlog'[i] = backlog[i + 1]
  BY <1>1
<1>3. backlog[1] \in Clients /\ backlog[1] # NoClient /\ 1 \in 1 .. Len(backlog)
  <2>1. backlog \in Seq(Clients)
    OBVIOUS
  <2>2. 1 \in 1 .. Len(backlog)
    BY ONLY <1>2
  <2>3. backlog[1] \in Clients
    BY ONLY <2>1, <2>2
  <2> QED
    BY ONLY <2>2, <2>3, StreamSocketsAssumption
<1>4. \A y \in Fds : peer'[y] = IF y = x THEN backlog[1] ELSE peer[y]
  <2>1. peer \in [Fds -> Clients \cup {NoClient}] /\ peer' = [peer EXCEPT ![x] = backlog[1]]
    BY <1>1, <1>2
  <2> QED
    BY ONLY <2>1
<1>5. Open' = Open \cup {x}
  BY <1>3, <1>4 DEF Open
<1>6. /\ \A y \in Fds : peer[y] # backlog[1]
      /\ \A y, z \in Open : peer[y] = peer[z] => y = z
  BY <1>3 DEF OnePeer
<1>7. ASSUME NEW y \in Open', NEW z \in Open', peer'[y] = peer'[z] PROVE y = z
  BY <1>4, <1>5, <1>6, <1>7 DEF Open
<1>8. ASSUME NEW i \in 1 .. Len(backlog'), NEW j \in 1 .. Len(backlog'), backlog'[i] = backlog'[j]
      PROVE  i = j
  <2>2. \A k, l \in 1 .. Len(backlog) : backlog[k] = backlog[l] => k = l
    BY DEF OnePeer
  <2>1. i + 1 = j + 1
    <3>1. /\ i + 1 \in 1 .. Len(backlog) /\ backlog'[i] = backlog[i + 1]
          /\ j + 1 \in 1 .. Len(backlog) /\ backlog'[j] = backlog[j + 1]
      BY <1>2
    <3> QED
      BY ONLY <1>8, <2>2, <3>1
  <2> QED
    BY <2>1
<1>9. ASSUME NEW i \in 1 .. Len(backlog'), NEW y \in Fds PROVE peer'[y] # backlog'[i]
  <2>0. i \in Nat \ {0} /\ i + 1 # 1
    OBVIOUS
  <2>1. i + 1 \in 1 .. Len(backlog) /\ i + 1 # 1 /\ backlog'[i] = backlog[i + 1]
    BY <1>2, <2>0
  <2>2. backlog[i + 1] # backlog[1] /\ peer[y] # backlog[i + 1]
    BY <1>3, <2>1 DEF OnePeer
  <2> QED
    BY <1>4, <2>1, <2>2
<1>10. ASSUME NEW d \in Clients, gone[d] = "new"
       PROVE  /\ \A y \in Fds : peer'[y] # d
              /\ \A i \in 1 .. Len(backlog') : backlog'[i] # d
  <2>1. /\ \A y \in Fds : peer[y] # d
        /\ \A i \in 1 .. Len(backlog) : backlog[i] # d
    BY <1>10 DEF OnePeer
  <2> QED
    BY <1>2, <1>3, <1>4, <2>1
<1>11. SocketTypes'
  BY <1>1, <1>2, <1>3
<1>12. OnePeer'
  BY <1>1, <1>7, <1>8, <1>9, <1>10 DEF OnePeer
<1>13. ASSUME NEW y \in Open PROVE Readable(y) => Readable(y)'
  BY <1>1, <1>4, Descriptors DEF Readable, Open
<1> QED
  BY <1>1, <1>5, <1>11, <1>12, <1>13

LEMMA RefuseSockets ==
    ASSUME SocketsOK, Refuse
    PROVE  SocketsOK' /\ peer' = peer /\ \A y \in Open : Readable(y) => Readable(y)'
<1> USE DEF SocketsOK, SocketTypes
<1>1. /\ backlog' = Tail(backlog) /\ backlog # <<>>
      /\ gone' = [gone EXCEPT ![Head(backlog)] = IF gone[Head(backlog)] = "open" THEN "refused"
                                                 ELSE gone[Head(backlog)]]
      /\ UNCHANGED <<peer, rcv, snd, link, sent, got>>
  BY DEF Refuse
<1>2. /\ Head(backlog) \in Clients /\ Tail(backlog) \in Seq(Clients)
      /\ \A i \in 1 .. Len(backlog') : i + 1 \in 1 .. Len(backlog) /\ backlog'[i] = backlog[i + 1]
  BY <1>1
<1>3. /\ gone' \in [Clients -> {"new", "open", "left", "refused"}]
      /\ \A d \in Clients : gone'[d] = "new" => gone[d] = "new"
  BY <1>1, <1>2
<1>4. SocketTypes'
  BY <1>1, <1>2, <1>3
<1>5. ASSUME NEW i \in 1 .. Len(backlog'), NEW j \in 1 .. Len(backlog'), backlog'[i] = backlog'[j]
      PROVE  i = j
  <2>2. \A k, l \in 1 .. Len(backlog) : backlog[k] = backlog[l] => k = l
    BY DEF OnePeer
  <2>1. i + 1 = j + 1
    BY <1>2, <1>5, <2>2
  <2> QED
    BY <2>1
<1>6. OnePeer'
  <2>1. \A i \in 1 .. Len(backlog') : \A x \in Fds : peer'[x] # backlog'[i]
    BY <1>1, <1>2 DEF OnePeer
  <2>2. \A c \in Clients : gone'[c] = "new" =>
           /\ \A x \in Fds : peer'[x] # c
           /\ \A i \in 1 .. Len(backlog') : backlog'[i] # c
    BY <1>1, <1>2, <1>3, SMTT(40) DEF OnePeer
  <2>3. \A x, y \in Open' : peer'[x] = peer'[y] => x = y
    BY <1>1 DEF OnePeer, Open
  <2> QED
    BY <1>5, <2>1, <2>2, <2>3 DEF OnePeer
<1> QED
  BY <1>1, <1>4, <1>6, Descriptors DEF Readable

LEMMA ConnectionSockets ==
    ASSUME SocketsOK, NEW x \in Open, OnConnection(x)
    PROVE  /\ SocketsOK' /\ UNCHANGED backlog
           /\ Open' = (IF RecvEndClose(x) THEN Open \ {x} ELSE Open)
           /\ \A y \in Open \ {x} : Readable(y) => Readable(y)'
<1> USE DEF SocketsOK, SocketTypes, Links
<1>0. /\ x \in Fds /\ peer[x] \in Clients /\ peer[x] # NoClient /\ NoClient \notin Clients
      /\ \A y \in Open : y \in Fds /\ peer[y] \in Clients /\ y # Listen
      /\ \A y \in Open \ {x} : peer[y] # peer[x]
  BY Descriptors, StreamSocketsAssumption DEF OnePeer
<1>1. CASE RecvEndClose(x)
  <2>1. /\ peer' = [peer EXCEPT ![x] = NoClient]
        /\ link' = [link EXCEPT ![peer[x]] = "dead"]
        /\ UNCHANGED <<backlog, rcv, snd, gone, sent, got>>
    BY <1>1 DEF RecvEndClose
  <2>2. \A y \in Fds : peer'[y] = IF y = x THEN NoClient ELSE peer[y]
    BY <1>0, <2>1
  <2>3. Open' = Open \ {x}
    BY <2>2 DEF Open
  <2>4. SocketTypes'
    BY <1>0, <2>1
  <2>5. \A i \in 1 .. Len(backlog) : backlog[i] \in Clients
    OBVIOUS
  <2>6. /\ \A c \in Clients : gone'[c] = "new" =>
               /\ \A y \in Fds : peer'[y] # c
               /\ \A i \in 1 .. Len(backlog') : backlog'[i] # c
        /\ \A i, j \in 1 .. Len(backlog') : backlog'[i] = backlog'[j] => i = j
    BY <1>0, <2>1, <2>2 DEF OnePeer
  <2>9. \A i \in 1 .. Len(backlog') : \A y \in Fds : peer'[y] # backlog'[i]
    <3>1. \A i \in 1 .. Len(backlog) : \A y \in Fds : peer[y] # backlog[i]
      BY DEF OnePeer
    <3>2. backlog' = backlog /\ NoClient \notin Clients
      BY <1>0, <2>1
    <3> QED
      BY ONLY <2>2, <2>5, <3>1, <3>2
  <2>7. \A y, z \in Open' : peer'[y] = peer'[z] => y = z
    BY <2>2, <2>3 DEF OnePeer, Open
  <2>8. OnePeer'
    BY <2>6, <2>7, <2>9 DEF OnePeer
  <2> QED
    BY <1>0, <1>1, <2>1, <2>2, <2>3, <2>4, <2>8 DEF Readable
<1>2. CASE ~ RecvEndClose(x)
  <2>1. UNCHANGED <<backlog, peer, gone>>
    BY <1>2 DEF OnConnection, RecvUnits, Sent, SentToNobody
  <2>2. SocketTypes'
    <3>1. ASSUME NEW k \in Nat, RecvUnits(x, k) PROVE SocketTypes'
      <4>1. rcv[peer[x]] - k \in Nat
        BY <1>0, <3>1 DEF RecvUnits
      <4> QED
        BY <1>0, <3>1, <4>1 DEF RecvUnits
    <3>2. ASSUME NEW k \in Nat, Sent(x, k) PROVE SocketTypes'
      <4>1. Append(snd[peer[x]], k) \in Seq(Nat)
        BY <1>0
      <4> QED
        BY <1>0, <3>2, <4>1 DEF Sent
    <3>3. CASE SentToNobody(x)
      <4>1. /\ \E l \in {"fin", "pipe", "dead"} : link' = [link EXCEPT ![peer[x]] = l]
            /\ UNCHANGED <<backlog, peer, rcv, snd, gone, sent, got>>
        BY <3>3 DEF SentToNobody
      <4>2. link' \in [Clients -> Links]
        BY <1>0, <4>1
      <4> QED
        BY <4>1, <4>2
    <3>4. OnConnection(x)
      OBVIOUS
    <3> QED
      BY ONLY <1>2, <3>1, <3>2, <3>3, <3>4 DEF OnConnection
  <2>3. OnePeer'
    BY <2>1 DEF OnePeer, Open
  <2>4. \A c \in Clients \ {peer[x]} : rcv'[c] = rcv[c] /\ link'[c] = link[c]
    BY <1>2 DEF OnConnection, RecvUnits, Sent, SentToNobody
  <2> QED
    BY <1>0, <1>2, <2>1, <2>2, <2>3, <2>4 DEF Readable, Open
<1> QED
  BY <1>1, <1>2

-----------------------------------------------------------------------------
(* select and poll as one server that scans an array *)

Scanned ==
    /\ pc = "wait" /\ pc' = "scan" /\ pos' = 0 /\ UNCHANGED <<sockets, fd_array, units>>
    /\ \A i \in Slots : Due(i)' => fd_array[i] # NoFd /\ Readable(fd_array[i])

Picked ==
    /\ pc = "scan"
    /\ \E i \in Slots : /\ i >= pos /\ Due(i) /\ pos' = i
                        /\ pc' = IF fd_array[i] = Listen THEN "accept" ELSE "recv"
    /\ UNCHANGED <<sockets, fd_array, reported, units>>

ScanOver ==
    pc = "scan" /\ pc' = "wait" /\ pos' = 0 /\ UNCHANGED <<sockets, fd_array, units>>

Onward == pos' = pos + 1 /\ pc' = "scan"

\* What is due after the slot at hand was so before, in the same place.
DueStays == \A j \in Slots : j > pos /\ Due(j)' => Due(j) /\ fd_array'[j] = fd_array[j]

Added ==
    /\ pc = "accept" /\ Onward /\ DueStays /\ UNCHANGED units
    /\ \E x \in Fds, i \in Slots : /\ fd_array[i] = NoFd /\ AcceptAs(x)
                                   /\ fd_array' = [fd_array EXCEPT ![i] = x]

Rejected ==
    /\ pc = "accept" /\ Onward /\ UNCHANGED <<fd_array, reported, units>>
    /\ Refuse \/ UNCHANGED sockets

Received ==
    /\ pc = "recv" /\ pc' = "send" /\ UNCHANGED <<fd_array, pos, reported>>
    /\ \E k \in Nat : RecvUnits(fd_array[pos], k) /\ units' = k

Ended ==
    /\ pc = "recv" /\ Onward /\ DueStays /\ UNCHANGED units
    /\ RecvEndClose(fd_array[pos])
    /\ fd_array' = [fd_array EXCEPT ![pos] = NoFd]

Replied ==
    /\ pc = "send" /\ Onward /\ units' = 0 /\ UNCHANGED <<fd_array, reported>>
    /\ Sent(fd_array[pos], units) \/ SentToNobody(fd_array[pos])

Broken == pc = "send" /\ pc' = "killed" /\ UNCHANGED <<sockets, fd_array, pos, reported, units>>

ArrayStep == \/ Scanned \/ Picked \/ ScanOver \/ Added \/ Rejected
             \/ Received \/ Ended \/ Replied \/ Broken

LEMMA Sizes == Size \in Nat /\ Size > 1 /\ (kind' = kind => Size' = Size /\ Slots' = Slots)
BY MuxServersAssumption DEF Size, Slots

\* The slots of a scan beyond the one at hand.
LEMMA Beyond ==
    ASSUME SocketTypes, ArrayOK, NEW i \in Slots, fd_array[i] # NoFd, i # 0
    PROVE  fd_array[i] \in Open /\ \A j \in Slots : j # i => fd_array[j] # fd_array[i]
<1>1. fd_array[i] \in Fds
  BY DEF ArrayOK
<1> QED
  BY <1>1 DEF ArrayOK

\* A step to the next slot leaves ripe what is due.
LEMMA OnwardRipe ==
    ASSUME SocketTypes, ArrayOK, PlaceOK, Ripe, kind' = kind,
           pc \in {"accept", "recv", "send"}, Onward, DueStays,
           \A y \in Open \ {fd_array[pos]} : Readable(y) => Readable(y)'
    PROVE  Ripe'
<1>1. Slots' = Slots /\ \A i \in Slots : i \in Int
  BY Sizes DEF Slots
<1>2. pos \in Nat /\ pos \in Slots /\ pos' = pos + 1 /\ pc' = "scan"
  BY DEF PlaceOK, Onward
<1>3. ASSUME NEW i \in Slots, i \in Ahead'
      PROVE  (fd_array[i] # NoFd /\ Readable(fd_array[i]))'
  <2>1. Due(i)' /\ i > pos /\ i # 0 /\ i # pos
    BY <1>1, <1>2, <1>3 DEF Ahead
  <2>2. Due(i) /\ fd_array'[i] = fd_array[i]
    BY <2>1 DEF DueStays
  <2>3. i \in Ahead
    BY <2>1, <2>2 DEF Ahead
  <2>4. PICK y : y = fd_array[i]
    OBVIOUS
  <2>5. y # NoFd /\ Readable(y)
    BY <2>3, <2>4 DEF Ripe
  <2>6. y \in Open \ {fd_array[pos]}
    BY <1>2, <2>1, <2>4, <2>5, Beyond
  <2>7. Readable(y)'
    BY <2>5, <2>6
  <2>8. fd_array'[i] = y
    BY <2>2, <2>4
  <2> QED
    BY <2>5, <2>7, <2>8 DEF Readable, NoFd
<1>4. \A i \in Ahead' : i \in Slots
  BY <1>1 DEF Ahead
<1>5. \A i \in Ahead' : (fd_array[i] # NoFd /\ Readable(fd_array[i]))'
  BY <1>3, <1>4
<1> QED
  BY <1>2, <1>5 DEF Ripe

\* Steps that leave the sockets alone.
LEMMA SameSockets ==
    ASSUME SocketsOK, UNCHANGED sockets
    PROVE  SocketsOK' /\ Open' = Open /\ \A y \in Open \cup {Listen} : Readable(y) => Readable(y)'
<1>1. SocketsOK'
  BY DEF SocketsOK, SocketTypes, OnePeer, Open, sockets
<1> QED
  BY <1>1 DEF Open, Readable, sockets

\* Steps that leave the array alone.
LEMMA SameArray ==
    ASSUME ArrayOK, UNCHANGED <<kind, fd_array>>, Open' = Open
    PROVE  ArrayOK'
<1>1. Slots' = Slots
  BY Sizes
<1> QED
  BY <1>1 DEF ArrayOK, Fds

\* The slot filled by accept: the array still holds what is open, each once.
LEMMA SlotFilled ==
    ASSUME SocketTypes, ArrayOK, kind' = kind, NEW x \in Fds \ Open, NEW i \in Slots, fd_array[i] = NoFd,
           fd_array' = [fd_array EXCEPT ![i] = x], Open' = Open \cup {x}
    PROVE  ArrayOK'
<1>1. Slots' = Slots /\ 0 \in Slots
  BY Sizes DEF Slots
<1>2. i # 0 /\ x # Listen /\ x # NoFd
  BY <1>1, Descriptors DEF ArrayOK, Listen, NoFd, Fds
<1>3. \A j \in Slots : fd_array'[j] = IF j = i THEN x ELSE fd_array[j]
  BY DEF ArrayOK
<1>4. \A j \in Slots : fd_array[j] # x
  BY DEF ArrayOK
<1>5. fd_array' \in [Slots -> Fds \cup {Listen, NoFd}]
  BY DEF ArrayOK
<1>6. \A j \in Slots : fd_array'[j] = Listen <=> j = 0
  BY <1>2, <1>3 DEF ArrayOK
<1>7. \A y \in Fds : (\E j \in Slots : fd_array'[j] = y) <=> y \in Open'
  <2>1. NoFd \notin Fds
    BY DEF NoFd, Fds
  <2>2. \A y \in Fds : (\E j \in Slots : fd_array[j] = y) <=> y \in Open
    BY DEF ArrayOK
  <2> QED
    BY <1>3, <2>1, <2>2
<1>8. \A j, k \in Slots : fd_array'[j] = fd_array'[k] /\ fd_array'[j] # NoFd => j = k
  BY <1>3, <1>4 DEF ArrayOK
<1> QED
  BY <1>1, <1>5, <1>6, <1>7, <1>8 DEF ArrayOK

\* The slot emptied by close.
LEMMA SlotEmptied ==
    ASSUME SocketTypes, ArrayOK, kind' = kind, NEW i \in Slots, fd_array[i] \in Open,
           fd_array' = [fd_array EXCEPT ![i] = NoFd], Open' = Open \ {fd_array[i]}
    PROVE  ArrayOK'
<1>1. Slots' = Slots
  BY Sizes
<1>2. /\ i # 0 /\ fd_array[i] # NoFd /\ fd_array[i] \in Fds
      /\ NoFd \notin Fds /\ NoFd # Listen
  BY Descriptors DEF ArrayOK, Listen, NoFd, Fds
<1>3. \A j \in Slots : fd_array'[j] = IF j = i THEN NoFd ELSE fd_array[j]
  BY DEF ArrayOK
<1>4. \A j \in Slots : j # i => fd_array[j] # fd_array[i]
  BY <1>2 DEF ArrayOK
<1>5. fd_array' \in [Slots -> Fds \cup {Listen, NoFd}]
  BY DEF ArrayOK
<1>6. \A j \in Slots : fd_array'[j] = Listen <=> j = 0
  BY <1>2, <1>3 DEF ArrayOK
<1>7. \A y \in Fds : (\E j \in Slots : fd_array'[j] = y) <=> y \in Open'
  <2>1. \A y \in Fds : (\E j \in Slots : fd_array[j] = y) <=> y \in Open
    BY DEF ArrayOK
  <2> QED
    BY <1>2, <1>3, <1>4, <2>1
<1>8. \A j, k \in Slots : fd_array'[j] = fd_array'[k] /\ fd_array'[j] # NoFd => j = k
  BY <1>3 DEF ArrayOK
<1> QED
  BY <1>1, <1>5, <1>6, <1>7, <1>8 DEF ArrayOK

ArrayInv == SocketsOK /\ ArrayOK /\ PlaceOK /\ Ripe

\* Each step of the scan keeps the array, the place and what is ripe.
LEMMA ArrayKeeps ==
    ASSUME ArrayInv, kind' = kind, ArrayStep
    PROVE  ArrayInv'
<1> USE DEF ArrayInv
<1>0. /\ Slots' = Slots /\ Size' = Size /\ Size \in Nat /\ Size > 1
      /\ \A i \in Slots : i \in Nat
  BY Sizes DEF Slots
<1>s. SocketTypes
  BY DEF SocketsOK
<1>p. pc \in {"recv", "send"} => pos \in Slots /\ fd_array[pos] \in Open
  BY DEF PlaceOK
<1>n. Onward => PlaceOK' <=> units' \in Nat
  BY DEF Onward, PlaceOK
<1>1. CASE Scanned
  <2>1. SocketsOK' /\ Open' = Open /\ \A y \in Open \cup {Listen} : Readable(y) => Readable(y)'
    BY <1>1, SameSockets DEF Scanned
  <2>2. ArrayOK'
    BY <1>1, <2>1, SameArray DEF Scanned
  <2>3. PlaceOK'
    BY <1>1 DEF Scanned, PlaceOK
  <2>4. ASSUME NEW i \in Ahead'
        PROVE  (fd_array[i] # NoFd /\ Readable(fd_array[i]))'
    <3>1. i \in Slots /\ Due(i)'
      BY <1>0 DEF Ahead
    <3> QED
      BY <1>1, <3>1 DEF Scanned, Readable, sockets
  <2> QED
    BY <1>1, <2>1, <2>2, <2>3, <2>4 DEF Ripe, Scanned
<1>2. CASE Picked
  <2>1. SocketsOK' /\ Open' = Open
    BY <1>2, SameSockets DEF Picked
  <2>2. ArrayOK'
    BY <1>2, <2>1, SameArray DEF Picked
  <2>3. PICK i \in Slots : /\ i >= pos /\ Due(i) /\ pos' = i
                           /\ pc' = IF fd_array[i] = Listen THEN "accept" ELSE "recv"
    BY <1>2 DEF Picked
  <2>4. i \in Ahead /\ i \in Nat /\ pos \in Nat
    BY <1>0, <1>2, <2>3 DEF Ahead, Picked, PlaceOK
  <2>5. fd_array[i] # NoFd /\ Readable(fd_array[i]) /\ (fd_array[i] = Listen <=> i = 0)
    BY <2>4 DEF Ripe, ArrayOK
  <2>6. i # 0 => fd_array[i] \in Open
    BY <1>s, <2>5, Beyond
  <2>7. PlaceOK'
    BY <1>0, <1>2, <2>1, <2>3, <2>4, <2>5, <2>6 DEF PlaceOK, Picked
  <2>8. ASSUME NEW j \in Ahead' PROVE (fd_array[j] # NoFd /\ Readable(fd_array[j]))'
    <3>1. j \in Slots /\ j \in Nat /\ j > i /\ Due(j)'
      BY <1>0, <2>3, <2>4 DEF Ahead
    <3>2. Due(j)
      BY <1>2, <3>1 DEF Due, Picked
    <3>3. j \in Ahead
      BY <1>2, <2>3, <2>4, <3>1, <3>2 DEF Ahead, Picked
    <3> QED
      BY <1>2, <3>3 DEF Ripe, Readable, Picked, sockets
  <2>9. Ripe'
    BY <1>2, <2>3, <2>5, <2>8 DEF Ripe, Readable, Picked, sockets
  <2> QED
    BY <2>1, <2>2, <2>7, <2>9
<1>3. CASE ScanOver
  <2>1. SocketsOK' /\ Open' = Open
    BY <1>3, SameSockets DEF ScanOver
  <2>2. ArrayOK'
    BY <1>3, <2>1, SameArray DEF ScanOver
  <2>3. PlaceOK' /\ Ripe'
    BY <1>3 DEF ScanOver, PlaceOK, Ripe, Ahead
  <2> QED
    BY <2>1, <2>2, <2>3
<1>4. CASE Added
  <2>1. PICK x \in Fds, i \in Slots : /\ fd_array[i] = NoFd /\ AcceptAs(x)
                                      /\ fd_array' = [fd_array EXCEPT ![i] = x]
    BY <1>4 DEF Added
  <2>2. /\ SocketsOK' /\ Open' = Open \cup {x} /\ x \notin Open
        /\ \A y \in Open : Readable(y) => Readable(y)'
    BY <2>1, AcceptSockets
  <2>3. ArrayOK'
    BY <1>s, <2>1, <2>2, SlotFilled
  <2>4. Ripe'
    BY <1>s, <1>4, <2>2, OnwardRipe DEF Added
  <2> QED
    BY <1>4, <1>n, <2>2, <2>3, <2>4 DEF Added, PlaceOK
<1>5. CASE Rejected
  <2>1. SocketsOK' /\ Open' = Open /\ \A y \in Open : Readable(y) => Readable(y)'
    BY <1>5, SameSockets, RefuseSockets DEF Rejected, Open
  <2>2. ArrayOK' /\ DueStays
    BY <1>5, <2>1, SameArray DEF Rejected, DueStays, Due
  <2>3. Ripe'
    BY <1>s, <1>5, <2>1, <2>2, OnwardRipe DEF Rejected
  <2> QED
    BY <1>5, <1>n, <2>1, <2>2, <2>3 DEF Rejected, PlaceOK
<1>6. CASE Received
  <2>1. PICK k \in Nat : RecvUnits(fd_array[pos], k) /\ units' = k
    BY <1>6 DEF Received
  <2>2. OnConnection(fd_array[pos]) /\ ~ RecvEndClose(fd_array[pos])
    <3>1. \E y \in Fds : y = fd_array[pos] /\ peer[y] # NoClient
      BY <1>6, <1>p DEF Received, Open
    <3> QED
      BY <2>1, <3>1, <1>s DEF OnConnection, RecvUnits, RecvEndClose, SocketTypes
  <2>3. /\ SocketsOK' /\ Open' = Open
        /\ \A y \in Open \ {fd_array[pos]} : Readable(y) => Readable(y)'
    BY <1>6, <1>p, <2>2, ConnectionSockets DEF Received
  <2>4. ArrayOK'
    BY <1>6, <2>3, SameArray DEF Received
  <2>5. PlaceOK'
    BY <1>0, <1>6, <1>p, <2>1, <2>3 DEF PlaceOK, Received
  <2>6. ASSUME NEW j \in Ahead' PROVE (fd_array[j] # NoFd /\ Readable(fd_array[j]))'
    <3>1. j \in Slots /\ Due(j) /\ j > pos /\ j # pos /\ j # 0
      BY <1>0, <1>6, <1>p DEF Ahead, Received, Due
    <3>2. j \in Ahead
      BY <1>6, <3>1 DEF Ahead, Received
    <3>3. PICK y : y = fd_array[j]
      OBVIOUS
    <3>4. y # NoFd /\ Readable(y)
      BY <3>2, <3>3 DEF Ripe
    <3>5. y \in Open \ {fd_array[pos]}
      BY <1>s, <1>6, <1>p, <3>1, <3>3, <3>4, Beyond DEF Received
    <3>6. Readable(y)' /\ fd_array'[j] = y
      BY <1>6, <2>3, <3>3, <3>4, <3>5 DEF Received
    <3> QED
      BY <3>4, <3>6 DEF Readable, NoFd
  <2> QED
    BY <1>6, <2>3, <2>4, <2>5, <2>6 DEF Ripe, Received
<1>7. CASE Ended
  <2>1. /\ SocketsOK' /\ Open' = Open \ {fd_array[pos]}
        /\ \A y \in Open \ {fd_array[pos]} : Readable(y) => Readable(y)'
    BY <1>7, <1>p, ConnectionSockets DEF Ended, OnConnection
  <2>2. ArrayOK'
    BY <1>s, <1>7, <1>p, <2>1, SlotEmptied DEF Ended
  <2>3. Ripe'
    BY <1>s, <1>7, <2>1, OnwardRipe DEF Ended
  <2> QED
    BY <1>7, <1>n, <2>1, <2>2, <2>3 DEF Ended, PlaceOK
<1>8. CASE Replied
  <2>1. OnConnection(fd_array[pos]) /\ ~ RecvEndClose(fd_array[pos])
    <3>1. PICK y \in Fds : y = fd_array[pos] /\ peer[y] # NoClient
      BY <1>8, <1>p DEF Replied, Open
    <3>2. peer' = peer /\ peer[y] \in Clients \cup {NoClient} /\ units \in Nat
      BY <1>8, <1>s DEF Replied, Sent, SentToNobody, SocketTypes, PlaceOK
    <3> QED
      BY <1>8, <1>s, <3>1, <3>2 DEF OnConnection, Replied, RecvEndClose, SocketTypes
  <2>2. /\ SocketsOK' /\ Open' = Open
        /\ \A y \in Open \ {fd_array[pos]} : Readable(y) => Readable(y)'
    BY <1>8, <1>p, <2>1, ConnectionSockets DEF Replied
  <2>3. ArrayOK' /\ DueStays
    BY <1>8, <2>2, SameArray DEF Replied, DueStays, Due
  <2>4. Ripe'
    BY <1>s, <1>8, <2>2, <2>3, OnwardRipe DEF Replied
  <2> QED
    BY <1>8, <1>n, <2>2, <2>3, <2>4 DEF Replied
<1>9. CASE Broken
  <2>1. SocketsOK' /\ Open' = Open
    BY <1>9, SameSockets DEF Broken
  <2>2. ArrayOK'
    BY <1>9, <2>1, SameArray DEF Broken
  <2>3. PlaceOK' /\ Ripe'
    BY <1>9 DEF Broken, PlaceOK, Ripe, Ahead
  <2> QED
    BY <2>1, <2>2, <2>3
<1> QED
  BY <1>1, <1>2, <1>3, <1>4, <1>5, <1>6, <1>7, <1>8, <1>9 DEF ArrayStep

-----------------------------------------------------------------------------
(* The steps of select and poll are steps of the scan *)

LEMMA SelectIsScan ==
    ASSUME kind = "select", kind' = kind, ArrayInv, Early, Sel!ServerStep
    PROVE  ArrayStep /\ Early'
<1> USE DEF ArrayInv
<1>0. /\ Sel!Slots = Slots /\ Sel!NoFd = NoFd /\ Slots = 0 .. fd_size - 1 /\ fd_size \in Nat
      /\ \A i : Due(i) <=> fd_array[i] \in reported
      /\ \A i : Due(i)' <=> fd_array'[i] \in reported'
  BY MuxServersAssumption DEF Sel!Slots, Slots, Size, Sel!NoFd, NoFd, Due
<1>1. CASE Sel!Select
  <2>1. ASSUME NEW i \in Slots, Due(i)' PROVE fd_array[i] # NoFd /\ Readable(fd_array[i])
    BY <1>0, <1>1, <2>1 DEF Sel!Select, Sel!Readable, Readable, Sel!Listen, Listen
  <2>2. Scanned
    BY <1>1, <2>1 DEF Scanned, Sel!Select, sockets, Sel!sockets
  <2>3. ASSUME NEW x \in reported' PROVE x \in Open' \cup {Listen}
    <3>1. PICK i \in Slots : x = fd_array[i] /\ x # NoFd
      BY <1>0, <1>1, <2>3 DEF Sel!Select
    <3>2. x = Listen \/ x \in Open
      BY <3>1 DEF ArrayOK
    <3> QED
      BY <2>2, <3>2 DEF Scanned, Open, sockets
  <2> QED
    BY <2>2, <2>3 DEF ArrayStep, Early
<1>2. CASE Sel!HandlerEvent
  <2>1. PICK i \in Slots : Sel!NextSlot(i) /\ pos' = i /\ pc' = IF fd_array[i] = Sel!Listen THEN "accept" ELSE "recv"
    BY <1>0, <1>2 DEF Sel!HandlerEvent
  <2>2. i >= pos /\ Due(i) /\ pos \in Nat
    BY <1>0, <2>1 DEF Sel!NextSlot, PlaceOK
  <2>3. Picked
    BY <1>2, <2>1, <2>2 DEF Picked, Sel!HandlerEvent, Sel!sockets, sockets, Sel!Listen, Listen
  <2>4. pos' = 0 => pos = 0
    BY <1>0, <2>1, <2>2
  <2> QED
    BY <2>3, <2>4 DEF Early, ArrayStep, Picked, Open, sockets
<1>3. CASE Sel!ScanDone
  BY <1>3 DEF Sel!ScanDone, ScanOver, ArrayStep, Early, sockets, Sel!sockets
<1>4. Sel!NextRound => Onward /\ Early'
  BY <1>0 DEF Sel!NextRound, Onward, Early, PlaceOK
<1>5. CASE Sel!Accepter
  <2>1. PICK x \in Fds, i \in Slots : /\ fd_array[i] = NoFd /\ AcceptAs(x)
                                      /\ fd_array' = [fd_array EXCEPT ![i] = x]
    BY <1>0, <1>5 DEF Sel!Accepter, Sel!AcceptAs, AcceptAs, Sel!Fds, Fds, Sel!Open, Open
  <2>2. /\ pc = "accept" /\ reported' = reported /\ units' = units
    BY <1>5 DEF Sel!Accepter
  <2>3. pos = 0 /\ x \notin reported
    BY <2>1, <2>2 DEF PlaceOK, Early, AcceptAs, Listen, Fds
  <2>4. \A j \in Slots : fd_array'[j] = IF j = i THEN x ELSE fd_array[j]
    BY <2>1 DEF ArrayOK
  <2>5. DueStays
    BY <1>0, <2>2, <2>3, <2>4 DEF DueStays
  <2>6. Added
    BY <1>4, <1>5, <2>1, <2>2, <2>5 DEF Added, Sel!Accepter
  <2> QED
    BY <1>4, <1>5, <2>6 DEF ArrayStep, Sel!Accepter
<1>6. CASE Sel!AccepterFull \/ Sel!AccepterError
  BY <1>4, <1>6 DEF Sel!AccepterFull, Sel!AccepterError, Sel!AcceptError, Sel!Refuse, Refuse,
     Rejected, ArrayStep, sockets, Sel!sockets
<1>7. CASE Sel!Recv
  <2>1. PICK k : RecvUnits(fd_array[pos], k) /\ units' = k /\ k \in 1 .. rcv[peer[fd_array[pos]]]
    BY <1>7 DEF Sel!Recv, Sel!RecvUnits, RecvUnits
  <2>2. k \in Nat
    BY <2>1
  <2> QED
    BY <1>7, <2>1, <2>2 DEF Sel!Recv, Received, ArrayStep, Early
<1>8. CASE Sel!RecvEnd
  <2>1. /\ pc = "recv" /\ RecvEndClose(fd_array[pos]) /\ UNCHANGED <<reported, units>>
        /\ fd_array' = [fd_array EXCEPT ![pos] = NoFd]
    BY <1>0, <1>8 DEF Sel!RecvEnd, Sel!RecvEndClose, RecvEndClose
  <2>2. \A j \in Slots : j > pos => fd_array'[j] = fd_array[j]
    BY <1>0, <2>1 DEF ArrayOK, PlaceOK
  <2>3. DueStays
    BY <1>0, <2>1, <2>2 DEF DueStays
  <2> QED
    BY <1>4, <1>8, <2>1, <2>3 DEF Ended, ArrayStep, Sel!RecvEnd
<1>9. CASE Sel!Send
  BY <1>4, <1>9 DEF Sel!Send, Sel!Sent, Sent, Sel!SentToNobody, SentToNobody, Replied, ArrayStep
<1>10. CASE Sel!SendPipe
  BY <1>10 DEF Sel!SendPipe, Sel!BrokenPipe, Broken, ArrayStep, Early, sockets, Sel!sockets
<1> QED
  BY <1>1, <1>2, <1>3, <1>5, <1>6, <1>7, <1>8, <1>9, <1>10
     DEF Sel!ServerStep, Sel!ScanSlots, Sel!AcceptConnection, Sel!IOService

LEMMA PollIsScan ==
    ASSUME kind = "poll", kind' = kind, ArrayInv, Pol!ServerStep
    PROVE  ArrayStep /\ Early'
<1> USE DEF ArrayInv
<1>0. /\ Pol!Slots = Slots /\ Pol!NoFd = NoFd /\ Slots = 0 .. N - 1 /\ N \in Nat
      /\ \A i : Due(i) <=> i \in reported
      /\ \A i : Due(i)' <=> i \in reported'
  BY MuxServersAssumption DEF Pol!Slots, Slots, Size, Pol!NoFd, NoFd, Due
<1>e. Early'
  BY DEF Early
<1>1. CASE Pol!Poll
  <2>1. ASSUME NEW i \in Slots, Due(i)' PROVE fd_array[i] # NoFd /\ Readable(fd_array[i])
    BY <1>0, <1>1, <2>1 DEF Pol!Poll, Pol!Readable, Readable, Pol!Listen, Listen
  <2>2. Scanned
    BY <1>1, <2>1 DEF Scanned, Pol!Poll, sockets, Pol!sockets
  <2> QED
    BY <1>e, <2>2 DEF ArrayStep
<1>2. CASE Pol!HandlerEvent
  <2>1. PICK i \in Slots : Pol!NextSlot(i) /\ pos' = i /\ pc' = IF fd_array[i] = Pol!Listen THEN "accept" ELSE "recv"
    BY <1>0, <1>2 DEF Pol!HandlerEvent
  <2>2. i >= pos /\ Due(i)
    BY <1>0, <2>1 DEF Pol!NextSlot
  <2>3. Picked
    BY <1>2, <2>1, <2>2 DEF Picked, Pol!HandlerEvent, Pol!sockets, sockets, Pol!Listen, Listen
  <2> QED
    BY <1>e, <2>3 DEF ArrayStep
<1>3. CASE Pol!ScanDone
  BY <1>3, <1>e DEF Pol!ScanDone, ScanOver, ArrayStep, sockets, Pol!sockets
<1>4. Pol!NextRound => Onward
  BY DEF Pol!NextRound, Onward
<1>5. CASE Pol!Accepter
  <2>1. PICK x \in Fds, i \in Slots : /\ fd_array[i] = NoFd /\ AcceptAs(x)
                                      /\ fd_array' = [fd_array EXCEPT ![i] = x]
                                      /\ reported' = reported \ {i}
    BY <1>0, <1>5 DEF Pol!Accepter, Pol!AcceptAs, AcceptAs, Pol!Fds, Fds, Pol!Open, Open
  <2>2. \A j \in Slots : fd_array'[j] = IF j = i THEN x ELSE fd_array[j]
    BY <2>1 DEF ArrayOK
  <2>3. DueStays
    BY <1>0, <2>1, <2>2 DEF DueStays
  <2> QED
    BY <1>4, <1>e, <1>5, <2>1, <2>3 DEF Added, Pol!Accepter, ArrayStep
<1>6. CASE Pol!AccepterFull \/ Pol!AccepterError
  BY <1>4, <1>e, <1>6 DEF Pol!AccepterFull, Pol!AccepterError, Pol!AcceptError, Pol!Refuse, Refuse,
     Rejected, ArrayStep, sockets, Pol!sockets
<1>7. CASE Pol!Recv
  <2>1. PICK k : RecvUnits(fd_array[pos], k) /\ units' = k /\ k \in 1 .. rcv[peer[fd_array[pos]]]
    BY <1>7 DEF Pol!Recv, Pol!RecvUnits, RecvUnits
  <2>2. k \in Nat
    BY <2>1
  <2> QED
    BY <1>7, <1>e, <2>1, <2>2 DEF Pol!Recv, Received, ArrayStep
<1>8. CASE Pol!RecvEnd
  <2>1. /\ pc = "recv" /\ RecvEndClose(fd_array[pos]) /\ UNCHANGED units
        /\ fd_array' = [fd_array EXCEPT ![pos] = NoFd] /\ reported' = reported \ {pos}
    BY <1>0, <1>8 DEF Pol!RecvEnd, Pol!RecvEndClose, RecvEndClose
  <2>2. \A j \in Slots : j > pos => fd_array'[j] = fd_array[j]
    BY <1>0, <2>1 DEF ArrayOK, PlaceOK
  <2>3. DueStays
    BY <1>0, <2>1, <2>2 DEF DueStays
  <2> QED
    BY <1>4, <1>e, <1>8, <2>1, <2>3 DEF Ended, ArrayStep, Pol!RecvEnd
<1>9. CASE Pol!Send
  BY <1>4, <1>e, <1>9 DEF Pol!Send, Pol!Sent, Sent, Pol!SentToNobody, SentToNobody, Replied, ArrayStep
<1>10. CASE Pol!SendPipe
  BY <1>10, <1>e DEF Pol!SendPipe, Pol!BrokenPipe, Broken, ArrayStep, sockets, Pol!sockets
<1> QED
  BY <1>1, <1>2, <1>3, <1>5, <1>6, <1>7, <1>8, <1>9, <1>10 DEF Pol!ServerStep

-----------------------------------------------------------------------------
(* The level-triggered epoll server *)

LEMMA EpollKeeps ==
    ASSUME SocketsOK, EpollOK, kind' = kind, Epl!ServerStep
    PROVE  SocketsOK' /\ EpollOK'
<1>0. /\ Listen \notin Fds /\ Open \subseteq Fds /\ Epl!Listen = Listen
      /\ \A x : Epl!Readable(x) <=> Readable(x)
  BY Descriptors DEF SocketsOK, Open, Epl!Listen, Listen, Epl!Readable, Readable
<1>1. UNCHANGED sockets =>
         SocketsOK' /\ Open' = Open /\ \A x \in Open \cup {Listen} : Readable(x) => Readable(x)'
  BY SameSockets
<1>2. CASE Epl!Wait
  BY <1>0, <1>1, <1>2 DEF Epl!Wait, EpollOK, Epl!sockets, sockets
<1>3. CASE Epl!HandlerEvents
  <2>1. PICK x \in reported : /\ reported' = reported \ {x} /\ fd' = x
                              /\ pc' = IF x = Listen THEN "accept" ELSE "recv"
    BY <1>0, <1>3 DEF Epl!HandlerEvents
  <2>2. SocketsOK' /\ Open' = Open /\ \A y \in Open \cup {Listen} : Readable(y) => Readable(y)'
    BY <1>1, <1>3 DEF Epl!HandlerEvents, Epl!sockets, sockets
  <2>3. x \in Open \cup {Listen} /\ Readable(x)' /\ \A y \in reported' : Readable(y)'
    BY <2>1, <2>2 DEF EpollOK
  <2>4. Readable(fd)' /\ (x = Listen => Readable(Listen)')
    BY <2>1, <2>3 DEF Readable
  <2> QED
    BY <1>0, <1>3, <2>1, <2>2, <2>3, <2>4 DEF Epl!HandlerEvents, EpollOK
<1>4. CASE Epl!HandledAll
  BY <1>0, <1>1, <1>4 DEF Epl!HandledAll, EpollOK, Epl!sockets, sockets
<1>5. CASE Epl!Accepter
  <2>1. PICK x \in Fds : AcceptAs(x) /\ watched' = watched \cup {x}
    BY <1>5 DEF Epl!Accepter, Epl!AcceptAs, AcceptAs, Epl!Fds, Fds, Epl!Open, Open
  <2>2. /\ SocketsOK' /\ Open' = Open \cup {x}
        /\ \A y \in Open : Readable(y) => Readable(y)'
    BY <2>1, AcceptSockets
  <2>3. reported \subseteq Open
    BY <1>5 DEF Epl!Accepter, EpollOK
  <2> QED
    BY <1>5, <2>1, <2>2, <2>3 DEF Epl!Accepter, EpollOK
<1>6. CASE Epl!AccepterError
  <2>1. UNCHANGED sockets \/ Refuse
    BY <1>6 DEF Epl!AccepterError, Epl!AcceptError, Epl!Refuse, Refuse, Epl!sockets, sockets
  <2>2. SocketsOK' /\ Open' = Open /\ \A y \in Open : Readable(y) => Readable(y)'
    BY <1>1, <2>1, RefuseSockets DEF Open
  <2>3. reported \subseteq Open
    BY <1>6 DEF Epl!AccepterError, EpollOK
  <2> QED
    BY <1>6, <2>2, <2>3 DEF Epl!AccepterError, EpollOK
<1>7. ASSUME pc \in {"recv", "send"}, OnConnection(fd)
      PROVE  /\ SocketsOK' /\ Open' = (IF RecvEndClose(fd) THEN Open \ {fd} ELSE Open)
             /\ \A y \in reported : Readable(y)'
  <2>1. fd \in Open /\ fd \notin reported /\ reported \subseteq Open \cup {Listen}
    BY <1>7 DEF EpollOK
  <2>2. /\ SocketsOK' /\ Open' = (IF RecvEndClose(fd) THEN Open \ {fd} ELSE Open)
        /\ UNCHANGED backlog /\ \A y \in Open \ {fd} : Readable(y) => Readable(y)'
    BY <1>7, <2>1, ConnectionSockets
  <2> QED
    BY <2>1, <2>2 DEF EpollOK, Readable
<1>8. CASE Epl!Recv
  <2>1. PICK k : RecvUnits(fd, k) /\ units' = k /\ k \in 1 .. rcv[peer[fd]]
    BY <1>8 DEF Epl!Recv, Epl!RecvUnits, RecvUnits
  <2>2. fd \in Fds /\ peer[fd] \in Clients /\ rcv[peer[fd]] \in Nat /\ rcv[peer[fd]] # 0
    BY <1>8, <2>1, Descriptors DEF Epl!Recv, EpollOK, SocketsOK, SocketTypes
  <2>3. k \in Nat /\ OnConnection(fd) /\ ~ RecvEndClose(fd)
    BY <2>1, <2>2 DEF OnConnection, RecvEndClose
  <2> QED
    BY <1>7, <1>8, <2>1, <2>3 DEF Epl!Recv, EpollOK
<1>9. CASE Epl!RecvEnd
  <2>1. RecvEndClose(fd) /\ OnConnection(fd)
    BY <1>9 DEF Epl!RecvEnd, Epl!RecvEndClose, RecvEndClose, OnConnection
  <2> QED
    BY <1>0, <1>7, <1>9, <2>1 DEF Epl!RecvEnd, EpollOK
<1>10. CASE Epl!Send
  <2>1. (Sent(fd, units) \/ SentToNobody(fd)) /\ units \in Nat
    BY <1>10 DEF Epl!Send, Epl!Sent, Sent, Epl!SentToNobody, SentToNobody, EpollOK
  <2>2. OnConnection(fd) /\ peer' = peer
    BY <2>1 DEF OnConnection, Sent, SentToNobody
  <2>3. fd \in Fds /\ peer[fd] # NoClient /\ peer \in [Fds -> Clients \cup {NoClient}]
    BY <1>10 DEF Epl!Send, EpollOK, Open, SocketsOK, SocketTypes
  <2>4. ~ RecvEndClose(fd)
    BY <2>2, <2>3 DEF RecvEndClose
  <2> QED
    BY <1>7, <1>10, <2>2, <2>4 DEF Epl!Send, EpollOK
<1>11. CASE Epl!SendPipe
  BY <1>0, <1>1, <1>11 DEF Epl!SendPipe, EpollOK, Epl!BrokenPipe, Epl!sockets, sockets
<1> QED
  BY <1>2, <1>3, <1>4, <1>5, <1>6, <1>8, <1>9, <1>10, <1>11 DEF Epl!ServerStep

-----------------------------------------------------------------------------
(* The three servers among their clients *)

MuxInv == SocketsOK /\ ServerOK

LEMMA InitMux == ASSUME Init PROVE MuxInv
<1>1. /\ peer = [x \in Fds |-> NoClient] /\ backlog = <<>> /\ Open = {}
      /\ NoClient \notin Clients
  BY StreamSocketsAssumption DEF Init, SocketsInit, Open
<1>2. SocketTypes
  BY <1>1 DEF Init, SocketsInit, SocketTypes, Links
<1>3. OnePeer
  BY <1>1 DEF OnePeer
<1>4. /\ 0 \in Slots /\ Sel!Listen = Listen /\ Pol!Listen = Listen /\ Epl!Listen = Listen
      /\ Listen # NoFd /\ Listen \notin Fds /\ NoFd \notin Fds
  BY Sizes DEF Slots, Sel!Listen, Pol!Listen, Epl!Listen, Listen, NoFd, Fds
<1>5. kind \in {"select", "poll"} =>
         /\ pc = "wait" /\ pos = 0 /\ reported = {} /\ units = 0
         /\ fd_array = [i \in Slots |-> IF i = 0 THEN Listen ELSE NoFd]
  BY <1>4 DEF Init, Slots, Size, Sel!ServerInit, Sel!Slots, Sel!NoFd, Pol!ServerInit, Pol!Slots, Pol!NoFd, NoFd
<1>6. kind \in {"select", "poll"} => ArrayOK
  BY <1>1, <1>4, <1>5 DEF ArrayOK
<1>7. kind \in {"select", "poll"} => PlaceOK /\ Ripe /\ Early
  BY <1>5 DEF PlaceOK, Ripe, Ahead, Early
<1>8. kind = "epoll" => EpollOK
  BY <1>1, <1>4 DEF Init, EpollOK, Epl!ServerInit
<1>9. kind \in {"select", "poll", "epoll"}
  BY DEF Init
<1> QED
  BY <1>2, <1>3, <1>6, <1>7, <1>8, <1>9 DEF MuxInv, SocketsOK, ServerOK

LEMMA ServerKeeps == ASSUME MuxInv, ServerStep PROVE MuxInv'
<1> USE DEF MuxInv
<1>1. kind' = kind /\ kind \in {"select", "poll", "epoll"}
  BY DEF ServerStep, ServerOK
<1>2. CASE kind = "select"
  <2>1. ArrayInv /\ Early /\ Sel!ServerStep
    BY <1>2 DEF ServerOK, ArrayInv, ServerStep
  <2>2. ArrayInv' /\ Early'
    BY <1>1, <1>2, <2>1, SelectIsScan, ArrayKeeps
  <2> QED
    BY <1>1, <1>2, <2>2 DEF ServerOK, ArrayInv
<1>3. CASE kind = "poll"
  <2>1. ArrayInv /\ Pol!ServerStep
    BY <1>3 DEF ServerOK, ArrayInv, ServerStep
  <2>2. ArrayInv' /\ Early'
    BY <1>1, <1>3, <2>1, PollIsScan, ArrayKeeps
  <2> QED
    BY <1>1, <1>3, <2>2 DEF ServerOK, ArrayInv
<1>4. CASE kind = "epoll"
  BY <1>1, <1>4, EpollKeeps DEF ServerOK, ServerStep
<1> QED
  BY <1>1, <1>2, <1>3, <1>4

LEMMA ClientsKeep ==
    ASSUME MuxInv, NEW c \in Clients, ClientStep(c),
           UNCHANGED <<kind, pc, arrays, reported, units, sets>>
    PROVE  MuxInv'
<1> USE DEF MuxInv, arrays, sets
<1>1. /\ SocketsOK' /\ peer' = peer /\ Open' = Open
      /\ \A x \in Open \cup {Listen} : Readable(x) => Readable(x)'
  BY ClientSockets DEF Open
<1>2. CASE kind \in {"select", "poll"}
  <2>1. ArrayOK /\ PlaceOK /\ Ripe /\ Early /\ SocketTypes
    BY <1>2 DEF ServerOK, SocketsOK
  <2>2. ArrayOK' /\ PlaceOK' /\ Early'
    BY <1>1, <2>1, SameArray, Sizes DEF PlaceOK, Early
  <2>3. ASSUME NEW i \in Slots, fd_array[i] # NoFd, Readable(fd_array[i])
        PROVE  Readable(fd_array[i])'
    <3>1. PICK y : y = fd_array[i]
      OBVIOUS
    <3>2. y \in Open \cup {Listen} /\ Readable(y)
      BY <2>1, <2>3, <3>1 DEF ArrayOK
    <3>3. Readable(y)'
      BY <1>1, <3>2
    <3> QED
      BY <3>1, <3>3 DEF Readable
  <2>4. Ahead' = Ahead /\ Ahead \subseteq Slots
    BY Sizes DEF Ahead, Due
  <2>5. pc \in {"recv", "send"} => pos \in Slots /\ fd_array[pos] # NoFd
    BY <2>1, Descriptors DEF PlaceOK, NoFd, Open, Fds
  <2>6. Ripe'
    BY <1>1, <2>1, <2>3, <2>4, <2>5 DEF Ripe
  <2> QED
    BY <1>1, <1>2, <2>2, <2>6 DEF ServerOK
<1>3. CASE kind = "epoll"
  <2>1. EpollOK
    BY <1>3 DEF ServerOK
  <2>2. \A x \in reported : Readable(x)'
    BY <1>1, <2>1 DEF EpollOK
  <2>3. pc = "recv" => Readable(fd)'
    BY <1>1, <2>1, Descriptors DEF EpollOK, SocketsOK, Readable
  <2> QED
    BY <1>1, <1>3, <2>1, <2>2, <2>3 DEF ServerOK, EpollOK
<1> QED
  BY <1>2, <1>3 DEF ServerOK

LEMMA MuxInvariant == Spec => []MuxInv
<1>1. Init => MuxInv
  BY InitMux
<1>2. MuxInv /\ [Next]_vars => MuxInv'
  <2> SUFFICES ASSUME MuxInv, [Next]_vars PROVE MuxInv'
    OBVIOUS
  <2>1. CASE ServerStep
    BY <2>1, ServerKeeps
  <2>2. CASE SomeClient /\ UNCHANGED <<kind, pc, arrays, reported, units, sets>>
    BY <2>2, ClientsKeep DEF SomeClient
  <2>3. CASE UNCHANGED vars
    <3>1. UNCHANGED <<sockets, kind, pc, fd_array, pos, reported, units, watched, fd>>
      BY <2>3 DEF vars, arrays, sets
    <3>2. SocketsOK' /\ Open' = Open
      BY <3>1, SameSockets DEF MuxInv
    <3>3. ServerOK'
      BY <3>1, <3>2, Sizes DEF MuxInv, ServerOK, ArrayOK, PlaceOK, Ripe, Ahead, Due, Early, EpollOK,
         Readable, sockets
    <3> QED
      BY <3>2, <3>3 DEF MuxInv
  <2> QED
    BY <2>1, <2>2, <2>3 DEF Next
<1> QED
  BY <1>1, <1>2, PTL DEF Spec

(***************************************************************************)
(* NeverBlocks: whichever of select, poll and level-triggered epoll is     *)
(* used, the server calls accept and recv only when they return at once.   *)
(***************************************************************************)
THEOREM ServesWithoutBlocking == Spec => []NeverBlocks
<1>1. MuxInv => NeverBlocks
  <2> SUFFICES ASSUME MuxInv PROVE NeverBlocks
    OBVIOUS
  <2>1. CASE kind \in {"select", "poll"}
    <3>1. PlaceOK /\ Ripe /\ Serving = fd_array[pos]
      BY <2>1 DEF MuxInv, ServerOK, Serving, Sel!Serving, Pol!Serving
    <3> QED
      BY <3>1 DEF PlaceOK, Ripe, NeverBlocks
  <2>2. CASE kind = "epoll"
    BY <2>2 DEF MuxInv, ServerOK, Serving, Epl!Serving, EpollOK, NeverBlocks
  <2> QED
    BY <2>1, <2>2 DEF MuxInv, ServerOK
<1> QED
  BY <1>1, MuxInvariant, PTL

(***************************************************************************)
(* WatchesOpen: each of the servers watches the listening socket and every *)
(* open connection, no other descriptor, and none twice.                   *)
(***************************************************************************)
THEOREM WatchesWhatIsOpen == Spec => []WatchesOpen
<1>1. MuxInv => WatchesOpen
  <2> SUFFICES ASSUME MuxInv PROVE WatchesOpen
    OBVIOUS
  <2>1. CASE kind \in {"select", "poll"}
    <3>1. ArrayOK /\ \A x : Watches(x) <=> \E i \in Slots : fd_array[i] = x
      BY <2>1 DEF MuxInv, ServerOK, Watches, Sel!Watches, Pol!Watches, Sel!Slots, Pol!Slots, Slots, Size
    <3>2. 0 \in Slots
      BY Sizes DEF Slots
    <3>3. kind = "select" => Sel!NoTwice
      BY <3>1 DEF ArrayOK, Sel!NoTwice, Sel!Slots, Slots, Size, Sel!NoFd, NoFd
    <3>4. kind = "poll" => Pol!NoTwice
      BY <3>1 DEF ArrayOK, Pol!NoTwice, Pol!Slots, Slots, Size, Pol!NoFd, NoFd
    <3> QED
      BY <3>1, <3>2, <3>3, <3>4 DEF ArrayOK, WatchesOpen
  <2>2. CASE kind = "epoll"
    BY <2>2, Descriptors DEF MuxInv, ServerOK, SocketsOK, EpollOK, Watches, Epl!Watches, WatchesOpen
  <2> QED
    BY <2>1, <2>2 DEF MuxInv, ServerOK
<1> QED
  BY <1>1, MuxInvariant, PTL
=============================================================================
