------------------------- MODULE EpollServerProofs -------------------------
(***************************************************************************)
(* EpollServer for any number of clients, descriptors and requests, any    *)
(* size of the send buffer and of the batch, with or without a stale tail  *)
(* in the receive buffer: no callback works on a connection that is gone,  *)
(* connections are only given up when their clients are, edge-triggered    *)
(* events never leave anything stranded, replies come in order, and only a *)
(* client that leaves responses unread ends the server.                    *)
(***************************************************************************)
EXTENDS EpollServer, SequenceTheorems, TLAPS

Places == {"wait", "next", "accept", "add", "recv", "handle", "reply", "send",
           "reply_mod", "mod", "killed"}

Errors == {"none", "EAGAIN", "EMFILE", "ENFILE", "ECONNRESET"}

\* Where the server works on connection cur, and where it is in the sender.
Callback == {"recv", "handle", "reply", "send", "reply_mod", "mod", "killed"}

InSender == {"reply", "send", "reply_mod", "mod", "killed"}

Events == {"IN", "OUT", "ERR"}

-----------------------------------------------------------------------------
(* The inductive invariant, in five parts *)

KernelOK ==
    /\ backlog \in Seq(Clients) /\ peer \in [Fds -> Clients \cup {None}]
    /\ rcv \in [Clients -> Seq(Nat)] /\ snd \in [Clients -> Seq(Nat)]
    /\ fin \in [Clients -> BOOLEAN] /\ rst \in [Clients -> BOOLEAN]
    /\ nospace \in [Clients -> BOOLEAN]
    /\ interest \in [conns -> SUBSET Events] /\ ready \subseteq conns

ClientsOK ==
    /\ sent \in [Clients -> Nat] /\ got \in [Clients -> Seq(Nat)]
    /\ gone \in [Clients -> {"new", "open", "left"}]

ServerOK ==
    /\ pc \in Places /\ batch \subseteq [fd : conns, ev : SUBSET Events]
    /\ cur \in Fds \cup {Listen} /\ out \in BOOLEAN
    /\ conns \subseteq Fds \cup {Listen} /\ Listen \in conns
    /\ inbuf \in [Fds -> Seq(Nat)] /\ outbuf \in [Fds -> Seq(Nat)]
    /\ handled \in [Clients -> Nat] /\ errno \in Errors /\ stack \in Seq(Nat)

Types == KernelOK /\ ClientsOK /\ ServerOK

\* The connections of the reactor are the open descriptors, but for the one
\* that was just accepted; a batch holds one event per descriptor, and none for
\* the connection whose callback runs.
Agree ==
    /\ conns = (IF pc = "add" THEN Open \ {cur} ELSE Open) \cup {Listen}
    /\ pc \in Callback \cup {"add"} => cur \in Open
    /\ \A e, f \in batch : e.fd = f.fd => e = f
    /\ pc \in Callback => \A e \in batch : e.fd # cur
    /\ pc = "wait" => batch = {}

\* A client is in one place: not connected, in the backlog once, or at the
\* other end of one descriptor.
OnePeer ==
    /\ \A c \in Clients : gone[c] = "new" =>
           /\ \A fd \in Fds : peer[fd] # c
           /\ \A i \in 1 .. Len(backlog) : backlog[i] # c
    /\ \A i \in 1 .. Len(backlog) :
           /\ \A fd \in Fds : peer[fd] # backlog[i]
           /\ \A j \in 1 .. Len(backlog) : backlog[i] = backlog[j] => i = j
    /\ \A fd, other \in Open : peer[fd] = peer[other] => fd = other

\* Outside the sender, EPOLLOUT is registered exactly while something is to be
\* sent, so that an event asks for the sender only then; and wherever the
\* sender is called with nothing to send, errno is what recv has left.
Interests ==
    /\ interest[Listen] = {"IN"}
    /\ \A fd \in conns \ {Listen} :
          /\ "IN" \in interest[fd] /\ "ERR" \notin interest[fd]
          /\ \/ pc \in InSender /\ cur = fd
             \/ "OUT" \in interest[fd] <=> outbuf[fd] # <<>>

Asked ==
    \A e \in batch : e.fd # Listen =>
        /\ e.ev # {}
        /\ "ERR" \in e.ev => rst[peer[e.fd]]
        /\ "OUT" \in e.ev => outbuf[e.fd] # <<>>

LeftErrno ==
    /\ pc \in {"handle", "reply", "reply_mod"} => errno = "EAGAIN"
    /\ pc = "reply" => outbuf[cur] # <<>>
    /\ pc = "send" => outbuf[cur] # <<>> \/ errno = "EAGAIN" \/ rst[peer[cur]]

Registered == Interests /\ Asked /\ LeftErrno

\* An event for dir on fd is still to be dispatched.
Pending(fd, dir) == \E e \in batch : e.fd = fd /\ Wants(e.ev, dir)

\* What fd is ready for: the two parts of Poll.
Readable(fd) == rcv[peer[fd]] # <<>> \/ fin[peer[fd]] \/ rst[peer[fd]]

Writable(fd) == Len(snd[peer[fd]]) < SndCap \/ rst[peer[fd]]

\* What a descriptor is ready for is in the ready list, in the batch, or in the
\* hands of the callback that runs.
ListenSeen ==
    backlog # <<>> => \/ Listen \in ready \/ pc \in {"accept", "add"}
                      \/ \E e \in batch : e.fd = Listen

InputSeen(fd) ==
    Readable(fd) => fd \in ready \/ Pending(fd, "IN") \/ (cur = fd /\ pc = "recv")

SpaceSeen(fd) ==
    outbuf[fd] # <<>> /\ Writable(fd) =>
        \/ fd \in ready \/ Pending(fd, "OUT")
        \/ cur = fd /\ (pc \in InSender \/ (pc \in {"recv", "handle"} /\ out))

\* Who waits for space has told the kernel so.
SpaceAsked(fd) ==
    outbuf[fd] # <<>> /\ ~ Writable(fd) =>
        nospace[peer[fd]] \/ (cur = fd /\ pc \in {"reply", "send"})

\* Only a package that is not complete is left in _inbuffer.
Parsed(fd) == Len(inbuf[fd]) < 2 \/ (cur = fd /\ pc \in {"recv", "handle"})

Seen(fd) == InputSeen(fd) /\ SpaceSeen(fd) /\ SpaceAsked(fd) /\ Parsed(fd)

Fits == \A c \in Clients : Len(snd[c]) <= SndCap

Fresh == ListenSeen /\ Fits /\ \A fd \in conns \ {Listen} : Seen(fd)

\* Nothing was handled for a client that has no connection in conns yet.
Untouched(c) == got[c] = <<>> /\ snd[c] = <<>> /\ handled[c] = 0

NotServedYet ==
    /\ \A c \in Clients : gone[c] = "new" => Untouched(c)
    /\ \A i \in 1 .. Len(backlog) : Untouched(backlog[i])
    /\ pc = "add" => Untouched(peer[cur])

\* The responses to the requests of a connection, each once and in order.
Ordered(fd) ==
    ~ rst[peer[fd]] =>
        got[peer[fd]] \o snd[peer[fd]] \o outbuf[fd] = [i \in 1 .. handled[peer[fd]] |-> i]

InOrder == \A fd \in conns \ {Listen} : Ordered(fd)

-----------------------------------------------------------------------------
(* Sequences *)

\* Cutting a sequence of numbers in two, and putting two together.
LEMMA Cut ==
    ASSUME NEW s \in Seq(Nat), NEW n \in Nat
    PROVE  /\ SubSeq(s, n + 1, Len(s)) \in Seq(Nat)
           /\ n <= Len(s) => /\ SubSeq(s, 1, n) \in Seq(Nat)
                             /\ Len(SubSeq(s, 1, n)) = n
                             /\ Len(SubSeq(s, n + 1, Len(s))) = Len(s) - n
                             /\ SubSeq(s, 1, n) \o SubSeq(s, n + 1, Len(s)) = s
<1>1. Len(s) \in Nat /\ \A i \in 1 .. Len(s) : s[i] \in Nat
  BY ElementOfSeq, LenProperties
<1>2. /\ SubSeq(s, n + 1, Len(s)) \in Seq(Nat)
      /\ n <= Len(s) => Len(SubSeq(s, n + 1, Len(s))) = Len(s) - n
  <2>1. n + 1 \in Int /\ Len(s) \in Int /\ \A i \in n + 1 .. Len(s) : s[i] \in Nat
    BY <1>1
  <2>2. /\ SubSeq(s, n + 1, Len(s)) \in Seq(Nat)
        /\ Len(SubSeq(s, n + 1, Len(s))) = IF n + 1 <= Len(s) THEN Len(s) - (n + 1) + 1 ELSE 0
    BY <2>1, SubSeqProperties
  <2> QED
    BY <1>1, <2>2
<1>3. CASE n <= Len(s)
  <2>1. \A i \in 1 .. n : s[i] \in Nat
    BY <1>1, <1>3
  <2>2. /\ SubSeq(s, 1, n) \in Seq(Nat)
        /\ Len(SubSeq(s, 1, n)) = n
    <3>1. /\ SubSeq(s, 1, n) \in Seq(Nat)
          /\ Len(SubSeq(s, 1, n)) = IF 1 <= n THEN n - 1 + 1 ELSE 0
      BY <2>1, SubSeqProperties
    <3> QED
      BY <3>1
  <2>3. SubSeq(s, 1, n) \o SubSeq(s, n + 1, Len(s)) = SubSeq(s, 1, Len(s))
    <3>1. 1 \in 1 .. Len(s) + 1 /\ n \in 1 - 1 .. Len(s) /\ Len(s) \in n .. Len(s)
      BY <1>1, <1>3
    <3> QED
      BY <3>1, ConcatAdjacentSubSeq
  <2>4. SubSeq(s, 1, Len(s)) = s
    BY SubSeqFull
  <2> QED
    BY <1>1, <1>2, <1>3, <2>2, <2>3, <2>4
<1> QED
  BY <1>2, <1>3

LEMMA Join ==
    ASSUME NEW s \in Seq(Nat), NEW t \in Seq(Nat)
    PROVE  s \o t \in Seq(Nat) /\ Len(s \o t) = Len(s) + Len(t)
BY ConcatProperties

LEMMA Regroup ==
    ASSUME NEW s \in Seq(Nat), NEW t \in Seq(Nat), NEW u \in Seq(Nat)
    PROVE  (s \o t) \o u = s \o (t \o u)
BY ConcatAssociative, SMTT(30)

LEMMA Half ==
    \A x \in Nat : x \div 2 \in Nat /\ 2 * (x \div 2) <= x /\ x - 2 * (x \div 2) < 2
OBVIOUS

LEMMA Watched ==
    ASSUME Types, NEW c, NEW E
    PROVE  Watching(c, E) \subseteq conns \ {Listen}
BY DEF Types, KernelOK, Watching

-----------------------------------------------------------------------------
(* Types *)

LEMMA InitTypes == Init => Types
<1> SUFFICES ASSUME Init PROVE Types
  OBVIOUS
<1>1. KernelOK
  BY DEF Init, KernelOK, Events, Listen
<1>2. ClientsOK
  BY DEF Init, ClientsOK
<1>3. ServerOK
  <2>1. out \in BOOLEAN /\ batch \subseteq [fd : conns, ev : SUBSET Events]
    BY DEF Init
  <2>2. pc \in Places /\ errno \in Errors
    BY DEF Init, Places, Errors
  <2>3. inbuf \in [Fds -> Seq(Nat)] /\ outbuf \in [Fds -> Seq(Nat)] /\ stack \in Seq(Nat)
        /\ handled \in [Clients -> Nat]
    BY DEF Init
  <2>4. cur \in Fds \cup {Listen} /\ conns \subseteq Fds \cup {Listen} /\ Listen \in conns
    BY DEF Init
  <2> QED
    BY <2>1, <2>2, <2>3, <2>4 DEF ServerOK
<1> QED
  BY <1>1, <1>2, <1>3 DEF Types

\* What the clients do.
LEMMA ClientTypes == ASSUME Types, NEW c \in Clients, ClientStep(c) PROVE Types'
<1> USE DEF Types, KernelOK, ClientsOK, ServerOK, server
<1>0. /\ Watching(c, {"IN"}) \subseteq conns /\ Watching(c, {"OUT"}) \subseteq conns
      /\ Watching(c, {"IN", "OUT", "ERR"}) \subseteq conns
  BY Watched
<1>1. CASE Connect(c)
  <2>1. backlog' \in Seq(Clients) /\ gone' \in [Clients -> {"new", "open", "left"}]
    BY <1>1 DEF Connect
  <2>2. ready' \subseteq conns
    BY <1>1 DEF Connect
  <2> QED
    BY <1>1, <2>1, <2>2 DEF Connect
<1>2. CASE SendFragment(c)
  <2>1. Append(rcv[c], sent[c] + 1) \in Seq(Nat) /\ sent[c] + 1 \in Nat
    OBVIOUS
  <2>2. rcv' \in [Clients -> Seq(Nat)] /\ sent' \in [Clients -> Nat] /\ ready' \subseteq conns
    BY <1>0, <1>2, <2>1 DEF SendFragment
  <2> QED
    BY <1>2, <2>2 DEF SendFragment
<1>3. CASE ReadResponse(c)
  <2>1. snd[c] \in Seq(Nat) /\ got[c] \in Seq(Nat) /\ snd[c] # <<>>
    BY <1>3 DEF ReadResponse
  <2>2. Append(got[c], Head(snd[c])) \in Seq(Nat) /\ Tail(snd[c]) \in Seq(Nat)
    BY <2>1, SMTT(40)
  <2> QED
    BY <1>0, <1>3, <2>2 DEF ReadResponse
<1>4. CASE Close(c)
  BY <1>0, <1>4 DEF Close
<1>5. CASE Reset(c)
  BY <1>0, <1>5, SMTT(40) DEF Reset
<1> QED
  BY <1>1, <1>2, <1>3, <1>4, <1>5 DEF ClientStep

\* Where the reciver and the sender go on, and what Excepter does to the types.
LEMMA AfterTypes ==
    ASSUME NEW existing
    PROVE  AfterReciver(existing) \in {"send", "next"} /\ AfterSender(existing) \in {"send", "next"}
BY DEF AfterReciver, AfterSender

LEMMA ExcepterTypes ==
    ASSUME Types, cur # Listen, Excepter
    PROVE  /\ conns' \subseteq Fds \cup {Listen} /\ Listen \in conns'
           /\ peer' \in [Fds -> Clients \cup {None}]
           /\ interest' \in [conns' -> SUBSET Events] /\ ready' \subseteq conns'
           /\ inbuf' \in [Fds -> Seq(Nat)] /\ outbuf' \in [Fds -> Seq(Nat)]
           /\ (\A e \in batch : e.fd # cur) => batch \subseteq [fd : conns', ev : SUBSET Events]
BY DEF Types, KernelOK, ServerOK, Excepter

\* What the server does.
LEMMA ServerTypes == ASSUME Types, Agree, ServerStep PROVE Types'
<1> USE AfterTypes, EpollServerAssumption
    DEF Types, KernelOK, ClientsOK, ServerOK, kernel, clients, Places, Errors
<1>0. pc \in Callback \cup {"add"} => /\ cur \in Fds /\ cur \in Open /\ cur # Listen
                                      /\ peer[cur] \in Clients
  BY DEF Agree, Open, Fds, Listen
<1>00. pc \in Callback /\ Excepter =>
          /\ conns' \subseteq Fds \cup {Listen} /\ Listen \in conns'
          /\ peer' \in [Fds -> Clients \cup {None}]
          /\ interest' \in [conns' -> SUBSET Events] /\ ready' \subseteq conns'
          /\ inbuf' \in [Fds -> Seq(Nat)] /\ outbuf' \in [Fds -> Seq(Nat)]
          /\ batch \subseteq [fd : conns', ev : SUBSET Events]
  BY <1>0, ExcepterTypes DEF Agree
<1>1. CASE Wait
  <2>1. \A fd \in ready : Reported(fd) \subseteq Events
    BY DEF Reported, Events
  <2>2. PICK S \in SUBSET ready :
           /\ ready' = ready \ S
           /\ batch' = {[fd |-> fd, ev |-> Reported(fd)] : fd \in {x \in S : Reported(x) # {}}}
    BY <1>1 DEF Wait
  <2>3. batch' \subseteq [fd : conns, ev : SUBSET Events]
    BY <2>1, <2>2
  <2>4. ready' \subseteq conns
    BY <2>2
  <2> QED
    BY <1>1, <2>3, <2>4 DEF Wait
<1>2. CASE \E e \in batch : Dispatch(e)
  <2>1. PICK e \in batch : Dispatch(e)
    BY <1>2
  <2>2. pc' \in Places
    BY <2>1 DEF Dispatch
  <2>3. cur' \in Fds \cup {Listen} /\ out' \in BOOLEAN
    BY <2>1 DEF Dispatch, Wants
  <2> QED
    BY <2>1, <2>2, <2>3 DEF Dispatch
<1>3. CASE LoopDone \/ AcceptDrained \/ AcceptFails
  BY <1>3 DEF LoopDone, AcceptDrained, AcceptFails
<1>4. CASE AcceptOne
  <2>1. Head(backlog) \in Clients /\ Tail(backlog) \in Seq(Clients)
    BY <1>4 DEF AcceptOne
  <2>2. backlog' = Tail(backlog) /\ pc' = "add" /\ \E fd \in Fds : cur' = fd /\ peer' = [peer EXCEPT ![fd] = Head(backlog)]
    BY <1>4 DEF AcceptOne, FreeFds
  <2>3. cur' \in Fds /\ peer' \in [Fds -> Clients \cup {None}] /\ pc' \in Places
    BY <2>1, <2>2
  <2> QED
    BY <1>4, <2>1, <2>2, <2>3 DEF AcceptOne
<1>5. CASE AddConnection
  <2>1. /\ conns' = conns \cup {cur} /\ cur \in Fds /\ {"IN"} \in SUBSET Events
        /\ interest' = [fd \in DOMAIN interest \cup {cur} |->
                            IF fd = cur THEN {"IN"} ELSE interest[fd]]
    BY <1>0, <1>5 DEF AddConnection, Events
  <2>2. interest' \in [conns' -> SUBSET Events]
    BY <2>1
  <2>3. ready' \subseteq conns'
    BY <1>5, <2>1 DEF AddConnection
  <2>4. batch' \subseteq [fd : conns', ev : SUBSET Events]
    BY <1>5, <2>1 DEF AddConnection
  <2>5. inbuf' \in [Fds -> Seq(Nat)] /\ outbuf' \in [Fds -> Seq(Nat)]
    BY <1>5, <2>1 DEF AddConnection
  <2> QED
    BY <1>5, <2>1, <2>2, <2>3, <2>4, <2>5 DEF AddConnection
<1>6. CASE RecvSome
  <2> DEFINE c == peer[cur]
             chunk(n) == SubSeq(rcv[c], 1, n)
             whole(n) == chunk(n) \o SubSeq(stack, n + 1, Len(stack))
  <2>0. /\ cur \in Fds /\ c \in Clients
        /\ UNCHANGED <<backlog, peer, snd, fin, rst, nospace, interest, ready, clients, pc,
                       batch, cur, out, conns, outbuf, handled, errno>>
    BY <1>0, <1>6 DEF RecvSome, Callback
  <2>1. PICK n \in 1 .. Len(rcv[c]) :
           /\ rcv' = [rcv EXCEPT ![c] = SubSeq(rcv[c], n + 1, Len(rcv[c]))]
           /\ stack' = IF StaleTail THEN whole(n) ELSE <<>>
           /\ \E text \in {chunk(n)} \cup (IF StaleTail THEN {whole(n)} ELSE {}) :
                  inbuf' = [inbuf EXCEPT ![cur] = inbuf[cur] \o text]
    BY <1>6 DEF RecvSome
  <2>2. rcv[c] \in Seq(Nat) /\ n \in Nat /\ n <= Len(rcv[c])
    BY <2>0
  <2>3. chunk(n) \in Seq(Nat) /\ SubSeq(rcv[c], n + 1, Len(rcv[c])) \in Seq(Nat)
    BY <2>2, Cut
  <2>4. SubSeq(stack, n + 1, Len(stack)) \in Seq(Nat)
    BY <2>2, Cut
  <2>5. whole(n) \in Seq(Nat)
    BY <2>3, <2>4, Join
  <2> HIDE DEF chunk, whole
  <2>6. rcv' \in [Clients -> Seq(Nat)] /\ stack' \in Seq(Nat)
    <3>1. rcv' \in [Clients -> Seq(Nat)]
      BY <2>0, <2>1, <2>3
    <3>2. <<>> \in Seq(Nat)
      OBVIOUS
    <3> QED
      BY <2>1, <2>5, <3>1, <3>2
  <2>7. inbuf' \in [Fds -> Seq(Nat)]
    <3>1. PICK text \in Seq(Nat) : inbuf' = [inbuf EXCEPT ![cur] = inbuf[cur] \o text]
      BY <2>1, <2>3, <2>5
    <3>2. inbuf[cur] \o text \in Seq(Nat)
      BY <2>0, <3>1, Join
    <3> QED
      BY <2>0, <3>1, <3>2
  <2> QED
    BY <2>0, <2>6, <2>7
<1>7. CASE RecvClosed
  <2>1. /\ pc \in Callback /\ Excepter
        /\ errno' \in {errno, "ECONNRESET"} /\ pc' \in {"send", "next"}
        /\ UNCHANGED <<backlog, rcv, snd, fin, rst, nospace, clients, batch, cur, out,
                       handled, stack>>
    BY <1>7 DEF RecvClosed, Callback
  <2> QED
    BY <1>00, <2>1
<1>8. CASE RecvDrained
  BY <1>8 DEF RecvDrained
<1>15. CASE SendKilled
  BY <1>15 DEF SendKilled
<1>9. CASE HandleRequest
  <2> DEFINE c == peer[cur]
             n == Len(inbuf[cur]) \div 2
  <2>0. cur \in Fds /\ c \in Clients /\ pc' \in Places
        /\ UNCHANGED <<kernel, clients, batch, cur, out, conns, errno, stack>>
    BY <1>0, <1>9 DEF HandleRequest, Callback
  <2>1. inbuf[cur] \in Seq(Nat) /\ outbuf[cur] \in Seq(Nat) /\ handled[c] \in Nat
    BY <2>0
  <2>2. Len(inbuf[cur]) \in Nat
    BY <2>1
  <2>3. n \in Nat
    BY <2>2, Half
  <2>4. /\ inbuf' = [inbuf EXCEPT ![cur] = SubSeq(inbuf[cur], 2 * n + 1, Len(inbuf[cur]))]
        /\ outbuf' = [outbuf EXCEPT ![cur] = outbuf[cur] \o [i \in 1 .. n |-> handled[c] + i]]
        /\ handled' = [handled EXCEPT ![c] = handled[c] + n]
    BY <1>9 DEF HandleRequest
  <2> HIDE DEF n
  <2>5. SubSeq(inbuf[cur], 2 * n + 1, Len(inbuf[cur])) \in Seq(Nat)
    <3>1. 2 * n \in Nat
      BY <2>3
    <3> QED
      BY <2>1, <3>1, Cut
  <2>6. [i \in 1 .. n |-> handled[c] + i] \in Seq(Nat)
    <3>1. \A i \in 1 .. n : handled[c] + i \in Nat
      BY ONLY <2>1, <2>3
    <3> QED
      BY ONLY <2>3, <3>1
  <2>7. outbuf[cur] \o [i \in 1 .. n |-> handled[c] + i] \in Seq(Nat)
    BY <2>1, <2>6, Join
  <2>8. inbuf' \in [Fds -> Seq(Nat)] /\ outbuf' \in [Fds -> Seq(Nat)]
    BY <2>0, <2>4, <2>5, <2>7
  <2>9. handled' \in [Clients -> Nat]
    BY <2>0, <2>1, <2>3, <2>4, SMTT(40)
  <2> QED
    BY <2>0, <2>8, <2>9
<1>10. CASE SendSome
  <2> DEFINE c == peer[cur]
             space == SndCap - Len(snd[c])
             n == IF Len(outbuf[cur]) < space THEN Len(outbuf[cur]) ELSE space
  <2>0. cur \in Fds /\ c \in Clients
    BY <1>0, <1>10 DEF SendSome, Sending, Callback
  <2>1. outbuf[cur] \in Seq(Nat) /\ snd[c] \in Seq(Nat)
    BY <2>0
  <2>2. /\ snd' = [snd EXCEPT ![c] = snd[c] \o SubSeq(outbuf[cur], 1, n)]
        /\ outbuf' = [outbuf EXCEPT ![cur] = SubSeq(outbuf[cur], n + 1, Len(outbuf[cur]))]
        /\ pc' \in Places /\ n > 0
        /\ UNCHANGED <<backlog, peer, rcv, fin, rst, nospace, interest, ready, clients,
                       batch, cur, out, conns, inbuf, handled, errno, stack>>
    BY <1>10 DEF SendSome
  <2>3. n \in Nat /\ n <= Len(outbuf[cur])
    <3>1. Len(outbuf[cur]) \in Nat /\ Len(snd[c]) \in Nat
      BY <2>1
    <3> QED
      BY ONLY <2>2, <3>1, EpollServerAssumption, SMTT(40)
  <2> HIDE DEF n
  <2>4. /\ SubSeq(outbuf[cur], 1, n) \in Seq(Nat)
        /\ SubSeq(outbuf[cur], n + 1, Len(outbuf[cur])) \in Seq(Nat)
    BY <2>1, <2>3, Cut
  <2>5. snd[c] \o SubSeq(outbuf[cur], 1, n) \in Seq(Nat)
    BY <2>1, <2>4, Join
  <2>6. snd' \in [Clients -> Seq(Nat)] /\ outbuf' \in [Fds -> Seq(Nat)]
    BY <2>0, <2>2, <2>4, <2>5
  <2> QED
    BY <2>2, <2>6
<1>11. CASE SendFull
  BY <1>11 DEF SendFull
<1>12. CASE SendNothing
  <2>1. /\ pc \in Callback /\ pc' \in Places
        /\ Excepter \/ UNCHANGED <<peer, interest, ready, conns, inbuf, outbuf>>
        /\ UNCHANGED <<backlog, rcv, snd, fin, rst, nospace, clients, batch, cur, out,
                       handled, errno, stack>>
    BY <1>12 DEF SendNothing, Sending, Callback
  <2> QED
    BY <1>00, <2>1
<1>13. CASE SendError
  <2>1. /\ pc \in Callback /\ pc' \in Places /\ Excepter /\ errno' = "ECONNRESET"
        /\ UNCHANGED <<backlog, rcv, snd, fin, rst, nospace, clients, batch, cur, out,
                       handled, stack>>
    BY <1>13 DEF SendError, Sending, Callback
  <2> QED
    BY <1>00, <2>1
<1>14. CASE EnableReadWrite
  <2>1. /\ cur \in conns /\ pc' \in Places
        /\ interest' = [interest EXCEPT ![cur] =
                            {"IN"} \cup (IF outbuf[cur] # <<>> THEN {"OUT"} ELSE {})]
        /\ ready' \subseteq ready \cup {cur}
        /\ UNCHANGED <<backlog, peer, rcv, snd, fin, rst, nospace, clients, batch, cur, out,
                       conns, inbuf, outbuf, handled, errno, stack>>
    BY <1>0, <1>14 DEF EnableReadWrite, Callback, Agree
  <2>2. interest' \in [conns -> SUBSET Events]
    BY <2>1 DEF Events
  <2> QED
    BY <2>1, <2>2
<1> QED
  BY <1>1, <1>2, <1>3, <1>4, <1>5, <1>6, <1>7, <1>8, <1>9, <1>10, <1>11, <1>12, <1>13, <1>14, <1>15
     DEF ServerStep
-----------------------------------------------------------------------------
(* Agree and OnePeer *)

\* A step of a callback keeps its connection or gives it up and ends.
InPlace == /\ pc \in Callback /\ pc' \in Callback \cup {"next"}
           /\ UNCHANGED <<backlog, peer, clients, batch, cur, conns>>

Closing == /\ pc \in Callback /\ pc' = "next" /\ Excepter
           /\ UNCHANGED <<backlog, rcv, snd, fin, rst, nospace, clients, batch, cur, out,
                          handled, stack>>

LEMMA CallbackSteps ==
    ASSUME Types, Agree
    PROVE  /\ RecvSome \/ RecvDrained \/ HandleRequest \/ SendSome \/ SendFull \/ SendKilled
                   \/ EnableReadWrite => InPlace
           /\ RecvClosed \/ SendError => Closing
           /\ SendNothing => Closing \/ (InPlace /\ errno = "EAGAIN")
<1>1. pc \in Callback => cur # Listen
  BY DEF Agree, Open, Fds, Listen
<1>2. Excepter => cur \notin conns'
  BY DEF Excepter
<1> USE DEF Callback, AfterReciver, AfterSender, kernel, Sending
<1>3. RecvSome => InPlace
  BY DEF RecvSome, InPlace
<1>4. RecvDrained \/ HandleRequest => InPlace
  BY DEF RecvDrained, HandleRequest, InPlace
<1>5. SendSome \/ SendFull \/ SendKilled => InPlace
  BY DEF SendSome, SendFull, SendKilled, InPlace
<1>6. EnableReadWrite => InPlace
  BY DEF EnableReadWrite, InPlace
<1>7. RecvClosed => Closing
  BY <1>2 DEF RecvClosed, Closing
<1>8. SendError => Closing
  BY <1>2 DEF SendError, Closing
<1>9. SendNothing => Closing \/ (InPlace /\ errno = "EAGAIN")
  BY <1>2 DEF SendNothing, Closing, InPlace
<1> QED
  BY <1>3, <1>4, <1>5, <1>6, <1>7, <1>8, <1>9

\* What of the state each step of a client touches.
LEMMA ClientFrame ==
    ASSUME NEW c \in Clients, ClientStep(c)
    PROVE  UNCHANGED <<peer, interest, server>>
BY DEF ClientStep, Connect, SendFragment, ReadResponse, Close, Reset, server

LEMMA AgreeStep == ASSUME Types, Agree, [Next]_vars PROVE Agree'
<1> USE DEF Types, ServerOK, KernelOK
<1>1. ASSUME NEW c \in Clients, ClientStep(c) PROVE Agree'
  BY <1>1, ClientFrame DEF Agree, Open, server
<1>2. CASE Wait
  <2>1. PICK S \in SUBSET ready :
           batch' = {[fd |-> fd, ev |-> Reported(fd)] : fd \in {x \in S : Reported(x) # {}}}
    BY <1>2 DEF Wait
  <2>2. \A e, f \in batch' : e.fd = f.fd => e = f
    BY <2>1
  <2> QED
    BY <1>2, <2>2 DEF Wait, Agree, Open, Callback
<1>3. ASSUME NEW e \in batch, Dispatch(e) PROVE Agree'
  <2>1. e.fd \in conns /\ batch' = batch \ {e} /\ cur' = e.fd /\ UNCHANGED <<peer, conns>>
    BY <1>3 DEF Dispatch, kernel
  <2>2. \A f \in batch' : f.fd # cur'
    BY <2>1 DEF Agree
  <2>3. pc' \in Callback => e.fd # Listen
    BY <1>3, <2>1 DEF Dispatch, Callback
  <2>4. pc = "next" /\ pc' \notin {"add", "wait"}
    BY <1>3, <2>1 DEF Dispatch
  <2> QED
    BY <2>1, <2>2, <2>3, <2>4 DEF Agree, Open
<1>4. CASE LoopDone \/ AcceptFails \/ AcceptDrained
  BY <1>4 DEF LoopDone, AcceptFails, AcceptDrained, Agree, Open, kernel, Callback
<1>5. CASE AcceptOne
  <2>1. PICK fd \in FreeFds : peer' = [peer EXCEPT ![fd] = Head(backlog)] /\ cur' = fd
    BY <1>5 DEF AcceptOne
  <2>2. Head(backlog) \in Clients /\ Head(backlog) # None
    BY <1>5, EpollServerAssumption DEF AcceptOne
  <2>3. Open' = Open \cup {fd} /\ fd \notin Open /\ fd \in Fds
    BY <2>1, <2>2 DEF Open, FreeFds
  <2>4. conns = Open \cup {Listen} /\ fd # Listen
    BY <1>5, <2>3 DEF Agree, AcceptOne, Fds, Listen
  <2> QED
    BY <1>5, <2>1, <2>3, <2>4 DEF AcceptOne, Agree, Callback
<1>6. CASE AddConnection
  BY <1>6 DEF AddConnection, Agree, Open, Callback
<1>7. CASE InPlace
  BY <1>7 DEF InPlace, Agree, Open, Callback
<1>8. CASE Closing
  <2>1. conns' = conns \ {cur} /\ Open' = Open \ {cur} /\ cur # Listen
    BY <1>8 DEF Closing, Excepter, Open, Agree, Fds, Listen
  <2> QED
    BY <1>8, <2>1 DEF Closing, Agree, Callback
<1>9. CASE UNCHANGED vars
  BY <1>9 DEF vars, kernel, server, Agree, Open
<1> QED
  BY <1>1, <1>2, <1>3, <1>4, <1>5, <1>6, <1>7, <1>8, <1>9, CallbackSteps DEF Next, ServerStep

LEMMA OnePeerStep == ASSUME Types, Agree, OnePeer, [Next]_vars PROVE OnePeer'
<1> USE DEF Types, ServerOK, KernelOK, ClientsOK
<1>1. ASSUME NEW c \in Clients, Connect(c) PROVE OnePeer'
  <2>1. /\ gone[c] = "new" /\ gone' = [gone EXCEPT ![c] = "open"]
        /\ backlog' = Append(backlog, c) /\ peer' = peer
    BY <1>1 DEF Connect
  <2>2. /\ Len(backlog) \in Nat /\ Len(backlog') = Len(backlog) + 1
        /\ \A i \in 1 .. Len(backlog) : backlog'[i] = backlog[i]
        /\ backlog'[Len(backlog) + 1] = c
    BY <2>1
  <2>3. ASSUME NEW i \in 1 .. Len(backlog')
        PROVE  (i \in 1 .. Len(backlog) /\ backlog'[i] = backlog[i])
               \/ (i = Len(backlog) + 1 /\ backlog'[i] = c)
    <3> DEFINE n == Len(backlog)
               m == Len(backlog')
    <3>1. n \in Nat /\ m = n + 1 /\ i \in 1 .. m
      BY <2>2
    <3> HIDE DEF n, m
    <3>2. i \in 1 .. n \/ i = n + 1
      BY <3>1
    <3> QED
      BY <2>2, <3>2 DEF n
  <2>4. \A i \in 1 .. Len(backlog) : backlog[i] # c
    BY <2>1 DEF OnePeer
  <2>5. \A i, j \in 1 .. Len(backlog') : backlog'[i] = backlog'[j] => i = j
    BY <2>3, <2>4, ZenonT(40) DEF OnePeer
  <2>6. \A i \in 1 .. Len(backlog') : \A fd \in Fds : peer'[fd] # backlog'[i]
    BY <2>1, <2>3, SMTT(40) DEF OnePeer
  <2>7. \A d \in Clients : gone'[d] = "new" => gone[d] = "new" /\ d # c
    BY <2>1
  <2>8. \A d \in Clients : gone'[d] = "new" =>
           /\ \A fd \in Fds : peer'[fd] # d
           /\ \A i \in 1 .. Len(backlog') : backlog'[i] # d
    BY <2>1, <2>3, <2>7, SMTT(40) DEF OnePeer
  <2> QED
    BY <2>1, <2>5, <2>6, <2>8 DEF OnePeer, Open
<1>2. ASSUME NEW c \in Clients, SendFragment(c) \/ ReadResponse(c) \/ Close(c) \/ Reset(c)
      PROVE  OnePeer'
  <2>1. UNCHANGED <<backlog, peer>> /\ \A d \in Clients : gone'[d] = "new" => gone[d] = "new"
    BY <1>2 DEF SendFragment, ReadResponse, Close, Reset
  <2> QED
    BY <2>1 DEF OnePeer, Open
<1>3. CASE AcceptOne
  <2>1. PICK fd \in FreeFds : peer' = [peer EXCEPT ![fd] = Head(backlog)]
    BY <1>3 DEF AcceptOne
  <2>2. /\ backlog' = Tail(backlog) /\ gone' = gone /\ backlog # <<>>
        /\ Head(backlog) = backlog[1] /\ Len(backlog) \in Nat \ {0}
        /\ Len(backlog') = Len(backlog) - 1
        /\ \A i \in 1 .. Len(backlog') : i + 1 \in 1 .. Len(backlog) /\ backlog'[i] = backlog[i + 1]
    BY <1>3 DEF AcceptOne, clients
  <2>3. backlog[1] \in Clients /\ fd \in Fds /\ peer[fd] = None /\ 1 \in 1 .. Len(backlog)
    BY <2>1, <2>2 DEF FreeFds
  <2>4. \A x \in Fds : peer'[x] = IF x = fd THEN backlog[1] ELSE peer[x]
    BY <2>1, <2>2, <2>3
  <2>5. \A x \in Open' : x = fd \/ x \in Open
    BY <2>4 DEF Open
  <2>10. \A x \in Fds : peer[x] # backlog[1]
    BY <2>3 DEF OnePeer
  <2>11. \A x, y \in Open : peer[x] = peer[y] => x = y
    BY DEF OnePeer
  <2>6. ASSUME NEW x \in Open', NEW y \in Open', peer'[x] = peer'[y] PROVE x = y
    BY <2>4, <2>5, <2>6, <2>10, <2>11 DEF Open
  <2>7. ASSUME NEW i \in 1 .. Len(backlog'), NEW j \in 1 .. Len(backlog'), backlog'[i] = backlog'[j]
        PROVE  i = j
    <3>1. i + 1 = j + 1
      BY <2>2, <2>7 DEF OnePeer
    <3> QED
      BY <3>1
  <2>8. ASSUME NEW i \in 1 .. Len(backlog'), NEW x \in Fds PROVE peer'[x] # backlog'[i]
    <3>1. i + 1 \in 1 .. Len(backlog) /\ i + 1 # 1 /\ backlog'[i] = backlog[i + 1]
      BY <2>2
    <3>2. backlog[i + 1] # backlog[1]
      BY <2>3, <3>1 DEF OnePeer
    <3>3. peer[x] # backlog[i + 1]
      BY <3>1 DEF OnePeer
    <3> QED
      BY <2>4, <3>1, <3>2, <3>3
  <2>9. ASSUME NEW d \in Clients, gone[d] = "new"
        PROVE  /\ \A x \in Fds : peer'[x] # d
               /\ \A i \in 1 .. Len(backlog') : backlog'[i] # d
    <3>1. /\ \A x \in Fds : peer[x] # d
          /\ \A i \in 1 .. Len(backlog) : backlog[i] # d
      BY <2>9 DEF OnePeer
    <3> QED
      BY <2>2, <2>3, <2>4, <3>1, ZenonT(40)
  <2> QED
    BY <2>2, <2>6, <2>7, <2>8, <2>9 DEF OnePeer
<1>4. CASE Closing
  <2>1. /\ cur \in Fds /\ peer' = [peer EXCEPT ![cur] = None] /\ UNCHANGED <<backlog, gone>>
    BY <1>4 DEF Closing, Excepter, Agree, Open, clients
  <2>2. /\ \A x \in Fds : peer'[x] = IF x = cur THEN None ELSE peer[x]
        /\ \A x \in Open' : x \in Open /\ x # cur
    BY <2>1 DEF Open
  <2>3. \A i \in 1 .. Len(backlog) : backlog[i] \in Clients /\ backlog[i] # None
    BY EpollServerAssumption
  <2>4. None \notin Clients
    BY EpollServerAssumption
  <2>5. \A d \in Clients : gone'[d] = "new" =>
           /\ \A fd \in Fds : peer'[fd] # d
           /\ \A i \in 1 .. Len(backlog') : backlog'[i] # d
    BY <2>1, <2>2, <2>4 DEF OnePeer
  <2>6. \A i \in 1 .. Len(backlog') :
           /\ \A fd \in Fds : peer'[fd] # backlog'[i]
           /\ \A j \in 1 .. Len(backlog') : backlog'[i] = backlog'[j] => i = j
    BY <2>1, <2>2, <2>3 DEF OnePeer
  <2>7. \A fd, other \in Open' : peer'[fd] = peer'[other] => fd = other
    BY <2>2 DEF OnePeer, Open
  <2> QED
    BY <2>5, <2>6, <2>7 DEF OnePeer
<1>5. CASE InPlace
  BY <1>5 DEF InPlace, OnePeer, Open, clients
<1>6. CASE Wait \/ (\E e \in batch : Dispatch(e)) \/ LoopDone \/ AcceptFails \/ AcceptDrained
           \/ AddConnection \/ UNCHANGED vars
  <2>1. UNCHANGED <<backlog, peer, gone>>
    BY <1>6 DEF Wait, Dispatch, LoopDone, AcceptFails, AcceptDrained, AddConnection, vars, kernel,
                clients
  <2> QED
    BY <2>1 DEF OnePeer, Open
<1> QED
  BY <1>1, <1>2, <1>3, <1>4, <1>5, <1>6, CallbackSteps DEF Next, ServerStep, ClientStep

\* The parts that say which connections there are.
LEMMA Connections == Spec => [](Types /\ Agree /\ OnePeer)
<1>1. Init => Types /\ Agree /\ OnePeer
  <2> SUFFICES ASSUME Init PROVE Types /\ Agree /\ OnePeer
    OBVIOUS
  <2>1. Open = {} /\ \A fd \in Fds : peer[fd] = None
    BY DEF Init, Open
  <2>2. Agree
    BY <2>1 DEF Init, Agree, Callback
  <2>3. OnePeer
    BY <2>1, EpollServerAssumption DEF Init, OnePeer
  <2> QED
    BY <2>2, <2>3, InitTypes
<1>2. ASSUME Types, Agree, OnePeer, [Next]_vars PROVE (Types /\ Agree /\ OnePeer)'
  <2>1. Types'
    <3>1. CASE UNCHANGED vars
      <4>1. KernelOK' /\ ClientsOK'
        BY <1>2, <3>1 DEF vars, kernel, clients, server, Types, KernelOK, ClientsOK
      <4>2. ServerOK'
        BY <1>2, <3>1 DEF vars, server, Types, ServerOK
      <4> QED
        BY <4>1, <4>2 DEF Types
    <3> QED
      BY <1>2, <3>1, ClientTypes, ServerTypes DEF Next
  <2> QED
    BY <1>2, <2>1, AgreeStep, OnePeerStep
<1> QED
  BY <1>1, <1>2, PTL DEF Spec

(***************************************************************************)
(* No callback works on a connection that Excepter has deleted, nor is one *)
(* called for it from a batch that was taken before.                       *)
(***************************************************************************)
THEOREM NeverFreed == Spec => []NoUseAfterFree
<1>1. Types /\ Agree => NoUseAfterFree
  BY DEF Agree, NoUseAfterFree, Callback
<1> QED
  BY <1>1, Connections, PTL

(***************************************************************************)
(* _connections, epoll and the process always know the same connections.   *)
(***************************************************************************)
THEOREM TablesAgree == Spec => []ConnectionsAgree
<1>1. Types /\ Agree => ConnectionsAgree
  BY DEF Agree, ConnectionsAgree, Types, KernelOK
<1> QED
  BY <1>1, Connections, PTL

-----------------------------------------------------------------------------
(* Registered *)

\* What of the state each step of a client keeps for the sender.
LEMMA ClientKeeps ==
    ASSUME Types, NEW c \in Clients, ClientStep(c)
    PROVE  \A d \in Clients : rst[d] => rst'[d]
BY DEF ClientStep, Connect, SendFragment, ReadResponse, Close, Reset, Types, KernelOK

\* The sender is never called with nothing to send and an errno that would
\* make it give the connection up.
LEMMA NothingKeeps ==
    ASSUME Types, Agree, Registered, SendNothing
    PROVE  /\ errno = "EAGAIN" /\ pc = "send" /\ pc' = "mod"
           /\ UNCHANGED <<kernel, clients, batch, cur, out, conns, inbuf, outbuf, handled,
                          errno, stack>>
<1>1. Sending /\ ~ rst[peer[cur]] /\ outbuf[cur] = <<>>
  BY DEF SendNothing
<1>2. errno = "EAGAIN" /\ pc = "send"
  BY <1>1 DEF Registered, LeftErrno, Sending
<1> QED
  BY <1>1, <1>2 DEF SendNothing, kernel

LEMMA RegisteredStep ==
    ASSUME Types, Agree, Registered, [Next]_vars
    PROVE  Registered'
<1> USE DEF Types, KernelOK, ServerOK
<1>00. /\ \A fd \in conns \ {Listen} : fd \in Fds /\ peer[fd] \in Clients /\ peer[fd] # None
       /\ \A fd \in Open : fd \in Fds /\ fd # Listen /\ peer[fd] \in Clients
  <2>1. \A fd \in Fds : fd # Listen
    BY DEF Fds, Listen
  <2>2. \A fd \in Open : fd \in Fds /\ peer[fd] \in Clients /\ peer[fd] # None
    BY DEF Open
  <2>3. conns \ {Listen} \subseteq Open
    BY DEF Agree
  <2> QED
    BY <2>1, <2>2, <2>3
<1>0. /\ pc \in Callback \cup {"add"} => cur \in Fds /\ cur # Listen /\ peer[cur] \in Clients
      /\ pc \in Callback => cur \in conns
      /\ \A e \in batch : e.fd \in conns
  <2>1. \A e \in batch : e.fd \in conns
    OBVIOUS
  <2>2. pc \in Callback => pc # "add"
    BY DEF Callback
  <2> QED
    BY <1>00, <2>1, <2>2 DEF Agree
<1>1. ASSUME NEW c \in Clients, ClientStep(c) PROVE Registered'
  <2>1. /\ UNCHANGED <<peer, interest, server>>
        /\ \A d \in Clients : rst[d] => rst'[d]
    BY <1>1, ClientFrame, ClientKeeps
  <2>2. Asked'
    BY <1>0, <1>00, <2>1 DEF Registered, Asked, server
  <2>3. LeftErrno'
    BY <1>0, <2>1 DEF Registered, LeftErrno, server, Callback
  <2> QED
    BY <2>1, <2>2, <2>3 DEF Registered, Interests, server
<1>2. CASE Wait
  <2>1. PICK S \in SUBSET ready :
           batch' = {[fd |-> fd, ev |-> Reported(fd)] : fd \in {x \in S : Reported(x) # {}}}
    BY <1>2 DEF Wait
  <2>2. /\ pc = "wait" /\ pc' = "next" /\ UNCHANGED <<peer, interest, rst, cur, conns, outbuf, errno>>
    BY <1>2 DEF Wait
  <2>3. ASSUME NEW fd \in ready, fd # Listen
        PROVE  /\ "ERR" \in Reported(fd) => rst[peer[fd]]
               /\ "OUT" \in Reported(fd) => outbuf[fd] # <<>>
    <3>1. "OUT" \in interest[fd] => outbuf[fd] # <<>>
      BY <2>2, <2>3 DEF Registered, Interests, InSender
    <3>2. "ERR" \in Poll(fd) => rst[peer[fd]]
      BY <2>3 DEF Poll
    <3> QED
      BY <3>1, <3>2 DEF Reported
  <2>4. Asked'
    <3>1. ASSUME NEW e \in batch', e.fd # Listen
          PROVE  e.fd \in ready /\ e.ev # {} /\ e.ev = Reported(e.fd)
      BY <2>1, <3>1
    <3> QED
      BY ONLY <2>2, <2>3, <3>1 DEF Asked
  <2>5. Interests' /\ LeftErrno'
    BY <2>2 DEF Registered, Interests, LeftErrno, InSender
  <2> QED
    BY <2>4, <2>5 DEF Registered
<1>3. ASSUME NEW e \in batch, Dispatch(e) PROVE Registered'
  <2>1. /\ pc = "next" /\ e.fd \in conns /\ batch' = batch \ {e} /\ cur' = e.fd
        /\ UNCHANGED <<peer, interest, rst, conns, outbuf, errno>>
        /\ pc' \in {"next", "accept", "recv", "send"}
        /\ pc' = "send" => e.fd # Listen /\ ~ Wants(e.ev, "IN")
    BY <1>0, <1>3 DEF Dispatch, kernel
  <2>2. pc' = "send" => outbuf[e.fd] # <<>>
    <3>1. pc' = "send" => e.ev # {} /\ e.ev \subseteq Events /\ "IN" \notin e.ev /\ "ERR" \notin e.ev
      BY <2>1 DEF Registered, Asked, Wants
    <3>2. pc' = "send" => "OUT" \in e.ev
      BY ONLY <3>1 DEF Events
    <3> QED
      BY <2>1, <3>2 DEF Registered, Asked
  <2>3. LeftErrno'
    BY <2>1, <2>2 DEF LeftErrno
  <2>4. Interests'
    BY <2>1 DEF Registered, Interests, InSender
  <2> QED
    BY <2>1, <2>3, <2>4 DEF Registered, Asked
<1>4. CASE LoopDone \/ AcceptFails \/ AcceptDrained
  <2>1. /\ UNCHANGED <<kernel, batch, cur, conns, outbuf>>
        /\ pc \in {"next", "accept"} /\ pc' \in {"wait", "next", "accept"}
    BY <1>4 DEF LoopDone, AcceptFails, AcceptDrained
  <2> QED
    BY <2>1 DEF Registered, Interests, Asked, LeftErrno, InSender, kernel
<1>5. CASE AcceptOne
  <2>1. PICK fd \in FreeFds : peer' = [peer EXCEPT ![fd] = Head(backlog)] /\ cur' = fd
    BY <1>5 DEF AcceptOne
  <2>2. /\ pc = "accept" /\ pc' = "add" /\ UNCHANGED <<interest, rst, batch, conns, outbuf, errno>>
        /\ \A x \in conns \ {Listen} : peer'[x] = peer[x]
    BY <1>00, <1>5, <2>1 DEF AcceptOne, FreeFds
  <2> QED
    BY <1>0, <2>2 DEF Registered, Interests, Asked, LeftErrno, InSender
<1>6. CASE AddConnection
  <2>1. /\ pc = "add" /\ pc' = "accept" /\ conns' = conns \cup {cur} /\ cur \notin conns
        /\ cur # Listen /\ cur \in Fds
        /\ \A fd \in conns' : interest'[fd] = IF fd = cur THEN {"IN"} ELSE interest[fd]
        /\ \A fd \in Fds : outbuf'[fd] = IF fd = cur THEN <<>> ELSE outbuf[fd]
        /\ UNCHANGED <<peer, rst, batch, errno>>
    BY <1>0, <1>6 DEF AddConnection, Agree
  <2>2. Asked'
    BY <1>0, <1>00, <2>1 DEF Registered, Asked
  <2>3. Interests'
    BY <1>00, <2>1 DEF Registered, Interests, InSender
  <2> QED
    BY <2>1, <2>2, <2>3 DEF Registered, LeftErrno
<1>7. ASSUME pc \in Callback, batch' = batch, peer' = peer, rst' = rst, conns' = conns, cur' = cur,
             \A fd \in Fds \ {cur} : outbuf'[fd] = outbuf[fd]
      PROVE  Asked'
  BY <1>0, <1>00, <1>7 DEF Registered, Asked, Agree
<1>8. CASE Closing
  <2>1. /\ pc' = "next" /\ pc \in Callback /\ conns' = conns \ {cur} /\ UNCHANGED <<batch, rst, cur>>
        /\ \A fd \in Fds \ {cur} : outbuf'[fd] = outbuf[fd] /\ peer'[fd] = peer[fd]
        /\ \A fd \in conns' : interest'[fd] = interest[fd]
    BY <1>8 DEF Closing, Excepter
  <2>2. Asked'
    BY <1>0, <1>00, <2>1 DEF Registered, Asked, Agree
  <2>3. Interests'
    BY <1>0, <1>00, <2>1 DEF Registered, Interests, InSender
  <2> QED
    BY <2>1, <2>2, <2>3 DEF Registered, LeftErrno
<1>9. CASE RecvSome \/ RecvDrained
  <2>1. /\ UNCHANGED <<peer, rst, interest, conns, batch, cur, outbuf>> /\ pc = "recv"
        /\ pc' = "recv" \/ (pc' = "handle" /\ errno' = "EAGAIN")
    BY <1>9 DEF RecvSome, RecvDrained, kernel
  <2> QED
    BY <1>7, <2>1 DEF Registered, Interests, LeftErrno, InSender, Callback
<1>10. CASE HandleRequest
  <2> DEFINE added == [i \in 1 .. Len(inbuf[cur]) \div 2 |-> handled[peer[cur]] + i]
  <2>1. /\ pc = "handle" /\ outbuf' = [outbuf EXCEPT ![cur] = outbuf[cur] \o added]
        /\ pc' = IF outbuf'[cur] # <<>> THEN "reply" ELSE AfterReciver(conns)
        /\ UNCHANGED <<kernel, conns, batch, cur, errno>>
    BY <1>10 DEF HandleRequest
  <2>2. cur \in Fds /\ outbuf[cur] \in Seq(Nat) /\ outbuf'[cur] = outbuf[cur] \o added
    BY <1>0, <2>1 DEF Callback
  <2>3. added \in Seq(Nat)
    <3>1. /\ Len(inbuf[cur]) \div 2 \in Nat /\ handled[peer[cur]] \in Nat
      BY <1>0, <2>1, <2>2, Half DEF Callback
    <3> DEFINE n == Len(inbuf[cur]) \div 2
               h == handled[peer[cur]]
    <3>2. \A n1, h1 \in Nat : [i \in 1 .. n1 |-> h1 + i] \in Seq(Nat)
      OBVIOUS
    <3> QED
      BY <3>1, <3>2
  <2>4. outbuf'[cur] = <<>> => outbuf[cur] = <<>>
    <3>1. Len(outbuf'[cur]) = Len(outbuf[cur]) + Len(added) /\ Len(added) \in Nat
      BY <2>2, <2>3, Join, LenProperties
    <3> HIDE DEF added
    <3> QED
      BY <2>2, <3>1
  <2> HIDE DEF added
  <2>5. Asked'
    BY <1>0, <1>7, <2>1 DEF kernel, Callback
  <2>6. Interests'
    <3>1. \A fd \in Fds \ {cur} : outbuf'[fd] = outbuf[fd]
      BY <2>1
    <3>2. outbuf'[cur] = <<>> \/ pc' \in InSender
      BY <2>1 DEF InSender
    <3> QED
      BY <1>00, <2>1, <2>4, <3>1, <3>2 DEF Registered, Interests, InSender, kernel
  <2>7. LeftErrno'
    BY <2>1 DEF Registered, LeftErrno, AfterReciver
  <2> QED
    BY <2>5, <2>6, <2>7 DEF Registered
<1>11. CASE SendSome
  <2>1. /\ pc \in {"reply", "send"} /\ \A fd \in Fds \ {cur} : outbuf'[fd] = outbuf[fd]
        /\ pc' = IF outbuf'[cur] = <<>> THEN IF pc = "reply" THEN "reply_mod" ELSE "mod" ELSE pc
        /\ UNCHANGED <<peer, rst, interest, conns, batch, cur, errno>>
    BY <1>11 DEF SendSome, Sending
  <2>2. Asked'
    BY <1>7, <2>1 DEF Callback
  <2>3. Interests'
    BY <1>00, <2>1 DEF Registered, Interests, InSender
  <2>4. LeftErrno'
    BY <2>1 DEF Registered, LeftErrno
  <2> QED
    BY <2>2, <2>3, <2>4 DEF Registered
<1>12. CASE SendFull
  <2>1. /\ pc \in {"reply", "send"} /\ pc' = (IF pc = "reply" THEN "reply_mod" ELSE "mod")
        /\ errno' = "EAGAIN" /\ UNCHANGED <<peer, rst, interest, conns, batch, cur, outbuf>>
    BY <1>12 DEF SendFull, Sending
  <2> QED
    BY <1>7, <2>1 DEF Registered, Interests, LeftErrno, InSender, Callback
<1>13. CASE SendNothing
  <2>1. /\ pc = "send" /\ pc' = "mod" /\ UNCHANGED <<kernel, conns, batch, cur, outbuf, errno>>
    BY <1>13, NothingKeeps
  <2> QED
    BY <1>7, <2>1 DEF Registered, Interests, LeftErrno, InSender, Callback, kernel
<1>16. CASE SendKilled
  <2>1. /\ pc \in {"reply", "send"} /\ pc' = "killed"
        /\ UNCHANGED <<kernel, conns, batch, cur, outbuf, errno>>
    BY <1>16 DEF SendKilled, Sending
  <2> QED
    BY <1>7, <2>1 DEF Registered, Interests, LeftErrno, InSender, Callback, kernel
<1>14. CASE EnableReadWrite
  <2>1. /\ pc \in {"reply_mod", "mod"}
        /\ pc' = (IF pc = "reply_mod" THEN AfterReciver(conns) ELSE "next")
        /\ interest' = [interest EXCEPT ![cur] =
                            {"IN"} \cup (IF outbuf[cur] # <<>> THEN {"OUT"} ELSE {})]
        /\ UNCHANGED <<peer, rst, conns, batch, cur, outbuf, errno>>
    BY <1>14 DEF EnableReadWrite
  <2>2. Interests'
    BY <1>0, <2>1 DEF Registered, Interests, InSender, Callback
  <2>3. LeftErrno'
    BY <2>1 DEF Registered, LeftErrno, AfterReciver
  <2> QED
    BY <1>7, <2>1, <2>2, <2>3 DEF Registered, Callback
<1>15. CASE UNCHANGED vars
  BY <1>15 DEF vars, kernel, server, Registered, Interests, Asked, LeftErrno
<1> QED
  BY <1>1, <1>2, <1>3, <1>4, <1>5, <1>6, <1>8, <1>9, <1>10, <1>11, <1>12, <1>13, <1>14, <1>15,
     <1>16, CallbackSteps DEF Next, ServerStep

LEMMA Connected == Spec => [](Types /\ Agree /\ OnePeer /\ Registered)
<1>1. Init => Registered
  BY DEF Init, Registered, Interests, Asked, LeftErrno, Listen
<1>2. Types /\ Agree /\ Registered /\ [Next]_vars => Registered'
  BY RegisteredStep
<1> QED
  BY <1>1, <1>2, Connections, PTL DEF Spec

(***************************************************************************)
(* The reactor gives up a connection only if its client has closed or      *)
(* reset it: a full socket and a sender called with nothing to send, which *)
(* then looks at an errno that some earlier call has set, do not end it.   *)
(***************************************************************************)
THEOREM GivenUpOnlyIfGone == Spec => ClosedOnlyIfPeerGone
<1> DEFINE Given == \A fd \in conns \ conns' : fin[peer[fd]] \/ rst[peer[fd]]
<1>1. ASSUME Types, Agree, Registered, [Next]_vars PROVE Given
  <2>1. CASE RecvClosed
    BY <2>1 DEF RecvClosed, Excepter
  <2>2. CASE SendError
    BY <2>2 DEF SendError, Excepter
  <2>3. CASE SendNothing
    BY <1>1, <2>3, NothingKeeps
  <2>4. CASE RecvSome \/ RecvDrained \/ HandleRequest \/ SendSome \/ SendFull \/ SendKilled
             \/ EnableReadWrite
    BY <1>1, <2>4, CallbackSteps DEF InPlace
  <2>5. CASE Wait \/ (\E e \in batch : Dispatch(e)) \/ LoopDone \/ AcceptOne \/ AcceptFails
             \/ AcceptDrained \/ AddConnection \/ UNCHANGED vars
    BY <2>5 DEF Wait, Dispatch, LoopDone, AcceptOne, AcceptFails, AcceptDrained, AddConnection,
                vars, server
  <2>6. CASE \E c \in Clients : ClientStep(c)
    BY <2>6, ClientFrame DEF server
  <2> QED
    BY <1>1, <2>1, <2>2, <2>3, <2>4, <2>5, <2>6 DEF Next, ServerStep
<1>2. Types /\ Agree /\ OnePeer /\ Registered /\ [Next]_vars => [Given]_vars
  BY <1>1
<1> HIDE DEF Given
<1>3. Spec => [][Given]_vars
  BY <1>2, Connected, PTL DEF Spec
<1> QED
  BY <1>3 DEF ClosedOnlyIfPeerGone, Given

-----------------------------------------------------------------------------
(* Fresh *)

LEMMA Polled ==
    ASSUME NEW fd \in Fds
    PROVE  /\ "IN" \in Poll(fd) <=> Readable(fd)
           /\ "OUT" \in Poll(fd) <=> Writable(fd)
<1>1. fd # Listen
  BY DEF Fds, Listen
<1> QED
  BY <1>1 DEF Poll, Readable, Writable

\* The connections are descriptors with a client of their own.
LEMMA Peers ==
    ASSUME Types, Agree, OnePeer
    PROVE  /\ \A fd \in conns \ {Listen} : fd \in Fds /\ fd \in Open /\ peer[fd] \in Clients
           /\ pc \in Callback \cup {"add"} => /\ cur \in Fds /\ cur \in Open /\ cur # Listen
                                              /\ peer[cur] \in Clients
                                              /\ \A fd \in conns \ {Listen, cur} : peer[fd] # peer[cur]
           /\ pc \in Callback => cur \in conns
<1>1. \A fd \in Open : fd \in Fds /\ fd # Listen /\ peer[fd] \in Clients
  <2>1. \A fd \in Fds : fd # Listen
    BY DEF Fds, Listen
  <2> QED
    BY <2>1 DEF Open, Types, KernelOK
<1>2. conns \ {Listen} \subseteq Open
  BY DEF Agree
<1>3. pc \in Callback => pc # "add"
  BY DEF Callback
<1>4. \A fd, other \in Open : peer[fd] = peer[other] => fd = other
  BY DEF OnePeer
<1>5. pc \in Callback \cup {"add"} => cur \in Open
  BY DEF Agree
<1>6. pc \in Callback => cur \in conns
  BY <1>1, <1>3, <1>5 DEF Agree
<1> QED
  BY <1>1, <1>2, <1>4, <1>5, <1>6

\* A step that leaves connection fd and its socket alone, and does not work on
\* it, leaves nothing of it unseen.
LEMMA Apart ==
    ASSUME Types, NEW fd \in Fds, Seen(fd), cur # fd, peer'[fd] = peer[fd],
           rcv'[peer[fd]] = rcv[peer[fd]], snd'[peer[fd]] = snd[peer[fd]], fin' = fin, rst' = rst,
           nospace[peer[fd]] => nospace'[peer[fd]],
           inbuf'[fd] = inbuf[fd], outbuf'[fd] = outbuf[fd],
           fd \in ready => fd \in ready', \A e \in batch : e.fd = fd => e \in batch'
    PROVE  Seen(fd)'
<1>1. Readable(fd)' = Readable(fd) /\ Writable(fd)' = Writable(fd)
  BY DEF Readable, Writable
<1>2. \A dir : Pending(fd, dir) => Pending(fd, dir)'
  BY DEF Pending, Wants
<1> QED
  BY <1>1, <1>2 DEF Seen, InputSeen, SpaceSeen, SpaceAsked, Parsed

\* Whoever waits for an event of client c is told of it.
LEMMA Told ==
    ASSUME Types, Interests, NEW fd \in conns \ {Listen}
    PROVE  /\ fd \in Watching(peer[fd], {"IN"})
           /\ fd \in Watching(peer[fd], {"IN", "OUT", "ERR"})
           /\ "OUT" \in interest[fd] => fd \in Watching(peer[fd], {"OUT"})
BY DEF Types, KernelOK, Interests, Watching

LEMMA FreshClient ==
    ASSUME Types, Agree, OnePeer, Registered, Fresh, NEW c \in Clients, ClientStep(c)
    PROVE  Fresh'
<1> USE EpollServerAssumption DEF Types, KernelOK, ClientsOK, ServerOK
<1>1. /\ UNCHANGED <<peer, interest, server>> /\ ready \subseteq ready'
      /\ backlog' # <<>> => backlog # <<>> \/ Listen \in ready'
  BY DEF ClientStep, Connect, SendFragment, ReadResponse, Close, Reset
<1>2. ListenSeen'
  BY <1>1 DEF Fresh, ListenSeen, server
<1>3. Fits' /\ \A d \in Clients : Len(snd[d]) \in Nat /\ Len(snd'[d]) <= Len(snd[d])
  <2>1. CASE ReadResponse(c)
    <3>1. snd[c] \in Seq(Nat) /\ snd[c] # <<>> /\ snd' = [snd EXCEPT ![c] = Tail(snd[c])]
      BY <2>1 DEF ReadResponse
    <3>2. Len(snd'[c]) = Len(snd[c]) - 1 /\ Len(snd[c]) \in Nat
      BY <3>1
    <3>3. \A d \in Clients : Len(snd[d]) \in Nat /\ Len(snd[d]) <= SndCap
      BY DEF Fresh, Fits
    <3>4. \A d \in Clients : d # c => snd'[d] = snd[d]
      BY <3>1
    <3>5. ASSUME NEW d \in Clients PROVE Len(snd'[d]) <= Len(snd[d]) /\ Len(snd'[d]) <= SndCap
      <4>1. CASE d = c
        <5>1. Len(snd[c]) <= SndCap /\ SndCap \in Nat
          BY <3>3
        <5> QED
          BY ONLY <3>2, <4>1, <5>1
      <4>2. CASE d # c
        <5>1. snd'[d] = snd[d]
          BY <3>4, <4>2
        <5> QED
          BY <3>3, <5>1
      <4> QED
        BY <4>1, <4>2
    <3> QED
      BY <3>3, <3>5 DEF Fits
  <2>2. CASE Reset(c)
    <3>1. snd' = [snd EXCEPT ![c] = <<>>] /\ \A d \in Clients : Len(snd[d]) \in Nat
      BY <2>2 DEF Reset
    <3> QED
      BY <3>1 DEF Fresh, Fits
  <2>3. CASE Connect(c) \/ SendFragment(c) \/ Close(c)
    <3>1. snd' = snd /\ \A d \in Clients : Len(snd[d]) \in Nat
      BY <2>3 DEF Connect, SendFragment, Close
    <3> QED
      BY <3>1 DEF Fresh, Fits
  <2> QED
    BY <2>1, <2>2, <2>3 DEF ClientStep
<1>4. ASSUME NEW fd \in conns \ {Listen} PROVE Seen(fd)'
  <2>1. fd \in Fds /\ peer[fd] \in Clients /\ Seen(fd)
    BY Peers DEF Fresh
  <2>2. Readable(fd)' => Readable(fd) \/ fd \in ready'
    <3>1. CASE peer[fd] # c \/ Connect(c) \/ ReadResponse(c)
      <4>1. rcv'[peer[fd]] = rcv[peer[fd]] /\ fin'[peer[fd]] = fin[peer[fd]] /\ rst'[peer[fd]] = rst[peer[fd]]
        <5>1. CASE Connect(c) \/ ReadResponse(c)
          BY <5>1 DEF Connect, ReadResponse
        <5>2. CASE peer[fd] # c /\ (SendFragment(c) \/ Close(c) \/ Reset(c))
          BY <2>1, <5>2, SMTT(40) DEF SendFragment, Close, Reset
        <5> QED
          BY <3>1, <5>1, <5>2 DEF ClientStep
      <4> QED
        BY ONLY <1>1, <4>1 DEF Readable
    <3>2. CASE peer[fd] = c /\ (SendFragment(c) \/ Close(c) \/ Reset(c))
      BY <3>2, Told DEF SendFragment, Close, Reset, Registered
    <3> QED
      BY <3>1, <3>2 DEF ClientStep
  <2>3. \/ Writable(fd)' /\ (Writable(fd) \/ fd \in ready' \/ ~ nospace[peer[fd]]
                             \/ (cur = fd /\ pc \in InSender) \/ outbuf[fd] = <<>>)
        \/ ~ Writable(fd)' /\ ~ Writable(fd) /\ nospace'[peer[fd]] = nospace[peer[fd]]
    <3>1. CASE peer[fd] # c \/ Connect(c) \/ SendFragment(c) \/ Close(c)
      <4>1. snd'[peer[fd]] = snd[peer[fd]] /\ rst'[peer[fd]] = rst[peer[fd]] /\ nospace'[peer[fd]] = nospace[peer[fd]]
        <5>1. CASE Connect(c) \/ SendFragment(c) \/ Close(c)
          BY <5>1 DEF Connect, SendFragment, Close
        <5>2. CASE peer[fd] # c /\ ReadResponse(c)
          BY <2>1, <5>2 DEF ReadResponse
        <5>3. CASE peer[fd] # c /\ Reset(c)
          BY <2>1, <5>3 DEF Reset
        <5> QED
          BY <3>1, <5>1, <5>2, <5>3 DEF ClientStep
      <4> QED
        BY ONLY <1>1, <4>1 DEF Writable
    <3>2. CASE peer[fd] = c /\ Reset(c)
      <4>1. rst'[peer[fd]] /\ fd \in ready'
        BY <2>1, <3>2, Told DEF Reset, Registered
      <4> QED
        BY <1>1, <4>1 DEF Writable
    <3>3. CASE peer[fd] = c /\ ReadResponse(c)
      <4>1. snd[c] \in Seq(Nat) /\ snd[c] # <<>> /\ snd' = [snd EXCEPT ![c] = Tail(snd[c])]
        BY <3>3 DEF ReadResponse
      <4>2. Len(snd'[c]) = Len(snd[c]) - 1 /\ Len(snd[c]) \in Nat /\ Len(snd[c]) <= SndCap
        BY <4>1 DEF Fresh, Fits
      <4>3. Writable(fd)'
        BY <1>1, <3>3, <4>2 DEF Writable
      <4>4. nospace[c] => ready' = ready \cup Watching(c, {"OUT"})
        BY <3>3 DEF ReadResponse
      <4>5. "OUT" \in interest[fd] \/ (cur = fd /\ pc \in InSender) \/ outbuf[fd] = <<>>
        BY DEF Registered, Interests
      <4> QED
        BY <3>3, <4>3, <4>4, <4>5, Told DEF Registered
    <3> QED
      BY <3>1, <3>2, <3>3 DEF ClientStep
  <2>4. \A dir : Pending(fd, dir) => Pending(fd, dir)'
    BY <1>1 DEF Pending, Wants, server
  <2>5. UNCHANGED <<peer, cur, pc, out, inbuf, outbuf>>
    BY <1>1 DEF server
  <2>6. InputSeen(fd)' /\ Parsed(fd)'
    BY <1>1, <2>1, <2>2, <2>4, <2>5 DEF Seen, InputSeen, Parsed
  <2>7. SpaceAsked(fd)'
    BY <2>1, <2>3, <2>5 DEF Seen, SpaceAsked
  <2>8. SpaceSeen(fd)'
    BY <1>1, <2>1, <2>3, <2>4, <2>5 DEF Seen, SpaceSeen, SpaceAsked, InSender
  <2> QED
    BY <2>6, <2>7, <2>8 DEF Seen
<1> QED
  BY <1>1, <1>2, <1>3, <1>4 DEF Fresh, server

LEMMA FreshServer ==
    ASSUME Types, Agree, OnePeer, Registered, Fresh, ServerStep
    PROVE  Fresh'
<1> USE EpollServerAssumption DEF Types, KernelOK, ClientsOK, ServerOK, kernel, clients
<1>p. /\ \A fd \in conns \ {Listen} : fd \in Fds /\ peer[fd] \in Clients
      /\ pc \in Callback \cup {"add"} => /\ cur \in Fds /\ cur # Listen /\ peer[cur] \in Clients
                                         /\ \A fd \in conns \ {Listen, cur} : peer[fd] # peer[cur]
      /\ pc \in Callback => cur \in conns
  BY Peers
\* The connections that a callback does not work on.
<1>q. ASSUME pc \in Callback,
             \A fd \in conns \ {Listen, cur} :
                 peer'[fd] = peer[fd] /\ inbuf'[fd] = inbuf[fd] /\ outbuf'[fd] = outbuf[fd],
             \A c \in Clients \ {peer[cur]} : rcv'[c] = rcv[c] /\ snd'[c] = snd[c],
             fin' = fin, rst' = rst, \A c \in Clients : nospace[c] => nospace'[c],
             ready \ {cur} \subseteq ready', batch' = batch
      PROVE  \A fd \in conns \ {Listen, cur} : Seen(fd)'
  <2> SUFFICES ASSUME NEW fd \in conns \ {Listen, cur} PROVE Seen(fd)'
    OBVIOUS
  <2>1. fd \in Fds /\ peer[fd] \in Clients \ {peer[cur]} /\ Seen(fd)
    BY <1>q, <1>p DEF Fresh
  <2> QED
    BY <1>q, <2>1, Apart
<1>1. CASE Wait
  <2>1. PICK S \in SUBSET ready :
           /\ ready' = ready \ S
           /\ batch' = {[fd |-> fd, ev |-> Reported(fd)] : fd \in {x \in S : Reported(x) # {}}}
    BY <1>1 DEF Wait
  <2>2. /\ pc = "wait" /\ pc' = "next" /\ batch = {}
        /\ UNCHANGED <<backlog, peer, rcv, snd, fin, rst, nospace, interest, cur, out, conns,
                       inbuf, outbuf>>
    BY <1>1 DEF Wait, Agree
  <2>3. ASSUME NEW x \in ready, Reported(x) # {}
        PROVE  x \in ready' \/ \E e \in batch' : e.fd = x /\ e.ev = Reported(x)
    <3> DEFINE f == [fd |-> x, ev |-> Reported(x)]
    <3>1. f.fd = x /\ f.ev = Reported(x) /\ (x \in S => f \in batch')
      BY <2>1, <2>3
    <3> QED
      BY <2>1, <3>1
  <2>4. ListenSeen'
    <3>1. backlog # <<>> => "IN" \in Reported(Listen)
      BY DEF Reported, Poll, Registered, Interests
    <3> QED
      BY <2>2, <2>3, <3>1 DEF Fresh, ListenSeen
  <2>5. ASSUME NEW fd \in conns \ {Listen} PROVE Seen(fd)'
    <3>1. fd \in Fds /\ Seen(fd) /\ ~ (\E e \in batch : TRUE)
      BY <1>p, <2>2 DEF Fresh
    <3>2. "IN" \in interest[fd] /\ ("OUT" \in interest[fd] <=> outbuf[fd] # <<>>)
      BY <2>2 DEF Registered, Interests, InSender
    <3>3. Readable(fd) => fd \in ready /\ "IN" \in Reported(fd)
      BY <2>2, <3>1, <3>2, Polled DEF Seen, InputSeen, Pending, Reported
    <3>4. outbuf[fd] # <<>> /\ Writable(fd) => fd \in ready /\ "OUT" \in Reported(fd)
      BY <2>2, <3>1, <3>2, Polled DEF Seen, SpaceSeen, Pending, Reported, InSender
    <3>5. Readable(fd)' = Readable(fd) /\ Writable(fd)' = Writable(fd)
      BY <2>2 DEF Readable, Writable
    <3>9. ASSUME NEW dir, fd \in ready, dir \in Reported(fd) PROVE fd \in ready' \/ Pending(fd, dir)'
      <4>1. CASE \E e \in batch' : e.fd = fd /\ e.ev = Reported(fd)
        BY <3>9, <4>1 DEF Pending, Wants
      <4> QED
        BY <2>3, <3>9, <4>1
    <3>6. InputSeen(fd)'
      BY <3>3, <3>5, <3>9 DEF InputSeen
    <3>7. SpaceSeen(fd)'
      BY <2>2, <3>4, <3>5, <3>9 DEF SpaceSeen
    <3>8. SpaceAsked(fd)' /\ Parsed(fd)'
      BY <2>2, <3>1, <3>5 DEF Seen, SpaceAsked, Parsed
    <3> QED
      BY <3>6, <3>7, <3>8 DEF Seen
  <2> QED
    BY <2>2, <2>4, <2>5 DEF Fresh, Fits
<1>2. ASSUME NEW e \in batch, Dispatch(e) PROVE Fresh'
  <2>1. /\ pc = "next" /\ e.fd \in conns /\ batch' = batch \ {e} /\ cur' = e.fd
        /\ out' = (Wants(e.ev, "IN") /\ Wants(e.ev, "OUT"))
        /\ e.fd = Listen => pc' = "accept"
        /\ e.fd # Listen => pc' = IF Wants(e.ev, "IN") THEN "recv" ELSE "send"
        /\ UNCHANGED <<kernel, conns, inbuf, outbuf>>
    BY <1>2 DEF Dispatch
  <2>2. ListenSeen'
    BY <2>1 DEF Fresh, ListenSeen
  <2>3. ASSUME NEW fd \in conns \ {Listen} PROVE Seen(fd)'
    <3>1. fd \in Fds /\ Seen(fd)
      BY <1>p DEF Fresh
    <3>2. Readable(fd)' = Readable(fd) /\ Writable(fd)' = Writable(fd)
      BY <2>1 DEF Readable, Writable
    <3>3. \A dir : Pending(fd, dir) => Pending(fd, dir)' \/ (e.fd = fd /\ Wants(e.ev, dir))
      BY <2>1 DEF Pending, Wants
    <3>4. InputSeen(fd)'
      BY <2>1, <3>1, <3>2, <3>3 DEF Seen, InputSeen
    <3>5. SpaceSeen(fd)'
      BY <2>1, <3>1, <3>2, <3>3 DEF Seen, SpaceSeen, InSender
    <3>6. SpaceAsked(fd)' /\ Parsed(fd)'
      BY <2>1, <3>1, <3>2 DEF Seen, SpaceAsked, Parsed
    <3> QED
      BY <3>4, <3>5, <3>6 DEF Seen
  <2> QED
    BY <2>1, <2>2, <2>3 DEF Fresh, Fits
<1>3. CASE LoopDone \/ AcceptFails \/ AcceptDrained
  <2>1. /\ UNCHANGED <<kernel, batch, cur, out, conns, inbuf, outbuf>>
        /\ pc \in {"next", "accept"} /\ pc' \in {"wait", "next", "accept"}
        /\ pc = "accept" => pc' = "accept" \/ backlog = <<>>
    BY <1>3 DEF LoopDone, AcceptFails, AcceptDrained
  <2>2. ListenSeen'
    BY <2>1 DEF Fresh, ListenSeen
  <2>3. ASSUME NEW fd \in conns \ {Listen} PROVE Seen(fd)'
    BY <2>1 DEF Fresh, Seen, InputSeen, SpaceSeen, SpaceAsked, Parsed, Readable, Writable, Pending,
                Wants, InSender
  <2> QED
    BY <2>1, <2>2, <2>3 DEF Fresh, Fits
<1>4. CASE AcceptOne
  <2>1. PICK x \in FreeFds : peer' = [peer EXCEPT ![x] = Head(backlog)] /\ cur' = x
    BY <1>4 DEF AcceptOne
  <2>2. /\ pc = "accept" /\ pc' = "add"
        /\ UNCHANGED <<rcv, snd, fin, rst, nospace, ready, batch, out, conns, inbuf, outbuf>>
    BY <1>4 DEF AcceptOne
  <2>3. ASSUME NEW fd \in conns \ {Listen} PROVE Seen(fd)'
    <3>1. fd \in Fds /\ Seen(fd) /\ fd # x /\ peer'[fd] = peer[fd]
      BY <1>p, <2>1, EpollServerAssumption DEF Fresh, FreeFds
    <3> QED
      BY <2>2, <3>1 DEF Seen, InputSeen, SpaceSeen, SpaceAsked, Parsed, Readable, Writable, Pending,
                        Wants, InSender
  <2> QED
    BY <2>2, <2>3 DEF Fresh, Fits, ListenSeen
<1>5. CASE AddConnection
  <2>1. /\ pc = "add" /\ pc' = "accept" /\ conns' = conns \cup {cur} /\ cur \notin conns
        /\ \A fd \in Fds \ {cur} : inbuf'[fd] = inbuf[fd] /\ outbuf'[fd] = outbuf[fd]
        /\ inbuf'[cur] = <<>> /\ outbuf'[cur] = <<>>
        /\ ready' = IF Poll(cur) \cap {"IN", "ERR"} # {} THEN ready \cup {cur} ELSE ready
        /\ UNCHANGED <<backlog, peer, rcv, snd, fin, rst, nospace, batch, out>>
    BY <1>5, <1>p DEF AddConnection, Agree
  <2>2. ASSUME NEW fd \in conns \ {Listen} PROVE Seen(fd)'
    <3>1. fd \in Fds /\ Seen(fd) /\ fd # cur
      BY <1>p, <2>1 DEF Fresh
    <3> QED
      BY <2>1, <3>1, Apart
  <2>3. ASSUME NEW fd \in Fds, fd = cur PROVE Seen(fd)'
    <3>2. Readable(fd) => fd \in ready'
      BY <2>1, <2>3, Polled
    <3>3. InputSeen(fd)'
      BY <2>1, <3>2 DEF InputSeen, Readable
    <3>4. inbuf'[fd] = <<>> /\ outbuf'[fd] = <<>> /\ Len(inbuf'[fd]) = 0
      BY <2>1, <2>3
    <3>5. SpaceSeen(fd)' /\ SpaceAsked(fd)' /\ Parsed(fd)'
      BY <3>4 DEF SpaceSeen, SpaceAsked, Parsed
    <3> QED
      BY <3>3, <3>5 DEF Seen
  <2>4. \A fd \in conns' \ {Listen} : Seen(fd)'
    BY <1>p, <2>1, <2>2, <2>3
  <2>5. ListenSeen' /\ Fits'
    BY <2>1 DEF Fresh, Fits, ListenSeen
  <2> QED
    BY <2>4, <2>5 DEF Fresh
<1>6. CASE Closing
  <2>1. /\ pc \in Callback /\ conns' = conns \ {cur} /\ ready' = ready \ {cur}
        /\ \A fd \in Fds \ {cur} : peer'[fd] = peer[fd] /\ inbuf'[fd] = inbuf[fd]
                                                      /\ outbuf'[fd] = outbuf[fd]
        /\ UNCHANGED <<backlog, rcv, snd, fin, rst, nospace, batch>>
    BY <1>6 DEF Closing, Excepter
  <2>2. \A fd \in conns' \ {Listen} : Seen(fd)'
    BY <1>p, <1>q, <2>1
  <2>3. ListenSeen'
    BY <1>p, <2>1 DEF Fresh, ListenSeen, Callback
  <2> QED
    BY <2>1, <2>2, <2>3 DEF Fresh, Fits
\* A step in place: what is left to show is the connection it works on.
<1>r. ASSUME InPlace, ready \subseteq ready', Seen(cur)', Fits', fin' = fin, rst' = rst,
             \A fd \in conns \ {Listen, cur} : inbuf'[fd] = inbuf[fd] /\ outbuf'[fd] = outbuf[fd],
             \A c \in Clients \ {peer[cur]} : rcv'[c] = rcv[c] /\ snd'[c] = snd[c],
             \A c \in Clients : nospace[c] => nospace'[c]
      PROVE  Fresh'
  <2>1. pc \in Callback /\ UNCHANGED <<backlog, peer, batch, cur, conns>>
    BY <1>r DEF InPlace
  <2>2. \A fd \in conns \ {Listen, cur} : Seen(fd)'
    BY <1>q, <1>r, <2>1
  <2>3. ListenSeen'
    BY <1>r, <2>1 DEF Fresh, ListenSeen, Callback
  <2> QED
    BY <1>r, <2>1, <2>2, <2>3 DEF Fresh
<1>7. CASE RecvSome
  <2>1. /\ pc = "recv" /\ pc' = "recv" /\ UNCHANGED <<peer, snd, fin, rst, nospace, ready, batch, cur,
                                                      out, conns, outbuf>>
        /\ \A fd \in Fds \ {cur} : inbuf'[fd] = inbuf[fd]
        /\ \A c \in Clients \ {peer[cur]} : rcv'[c] = rcv[c]
    BY <1>7 DEF RecvSome
  <2>2. Seen(cur) /\ Writable(cur)' = Writable(cur)
    BY <1>p, <2>1 DEF Fresh, Callback, Writable
  <2>3. Seen(cur)'
    BY <2>1, <2>2 DEF Seen, InputSeen, SpaceSeen, SpaceAsked, Parsed, Pending, Wants, InSender
  <2> QED
    BY <1>7, <1>p, <1>r, <2>1, <2>3, CallbackSteps DEF Fresh, Fits
<1>8. CASE RecvDrained
  <2>1. /\ pc = "recv" /\ pc' = "handle" /\ ~ Readable(cur)
        /\ UNCHANGED <<kernel, batch, cur, out, conns, inbuf, outbuf>>
    BY <1>8 DEF RecvDrained, Readable
  <2>2. Seen(cur) /\ Writable(cur)' = Writable(cur) /\ Readable(cur)' = Readable(cur)
    BY <1>p, <2>1 DEF Fresh, Callback, Writable, Readable
  <2>3. Seen(cur)'
    BY <2>1, <2>2 DEF Seen, InputSeen, SpaceSeen, SpaceAsked, Parsed, Pending, Wants, InSender
  <2> QED
    BY <1>8, <1>p, <1>r, <2>1, <2>3, CallbackSteps DEF Fresh, Fits
<1>9. CASE HandleRequest
  <2> DEFINE n == Len(inbuf[cur]) \div 2
  <2>1. /\ pc = "handle" /\ pc' = IF outbuf'[cur] # <<>> THEN "reply" ELSE AfterReciver(conns)
        /\ inbuf' = [inbuf EXCEPT ![cur] = SubSeq(inbuf[cur], 2 * n + 1, Len(inbuf[cur]))]
        /\ \A fd \in Fds \ {cur} : outbuf'[fd] = outbuf[fd]
        /\ UNCHANGED <<kernel, batch, cur, out, conns>>
    BY <1>9 DEF HandleRequest
  <2>2. cur \in Fds /\ inbuf[cur] \in Seq(Nat) /\ Len(inbuf[cur]) \in Nat
    BY <1>p, <2>1 DEF Callback
  <2>3. n \in Nat /\ 2 * n \in Nat /\ 2 * n <= Len(inbuf[cur]) /\ Len(inbuf[cur]) - 2 * n < 2
    BY <2>2, Half
  <2> HIDE DEF n
  <2>4. Len(inbuf'[cur]) = Len(inbuf[cur]) - 2 * n
    BY <2>1, <2>2, <2>3, Cut
  <2>5. /\ Seen(cur) /\ Writable(cur)' = Writable(cur) /\ Readable(cur)' = Readable(cur)
        /\ \A fd \in conns \ {Listen, cur} : inbuf'[fd] = inbuf[fd] /\ outbuf'[fd] = outbuf[fd]
    BY <1>p, <2>1 DEF Fresh, Callback, Writable, Readable
  <2>6. InputSeen(cur)' /\ Parsed(cur)'
    BY <2>1, <2>3, <2>4, <2>5 DEF Seen, InputSeen, Parsed, Pending, Wants
  <2>7. SpaceSeen(cur)' /\ SpaceAsked(cur)'
    BY <2>1, <2>5 DEF Seen, SpaceSeen, SpaceAsked, InSender
  <2> QED
    BY <1>9, <1>r, <2>1, <2>5, <2>6, <2>7, CallbackSteps DEF Seen, Fresh, Fits
<1>10. CASE SendSome
  <2> DEFINE c == peer[cur]
             space == SndCap - Len(snd[c])
             n == IF Len(outbuf[cur]) < space THEN Len(outbuf[cur]) ELSE space
             after == SubSeq(outbuf[cur], n + 1, Len(outbuf[cur]))
             part == SubSeq(outbuf[cur], 1, n)
  <2>1. /\ pc \in {"reply", "send"} /\ pc' \in InSender
        /\ outbuf'[cur] # <<>> => pc' = pc
        /\ snd' = [snd EXCEPT ![c] = snd[c] \o part] /\ n > 0
        /\ outbuf' = [outbuf EXCEPT ![cur] = after]
        /\ UNCHANGED <<peer, rcv, fin, rst, nospace, ready, batch, cur, out, conns, inbuf>>
    BY <1>10 DEF SendSome, Sending, InSender
  <2>2. cur \in Fds /\ c \in Clients
    BY <1>p, <2>1 DEF Callback
  <2>3. /\ outbuf[cur] \in Seq(Nat) /\ snd[c] \in Seq(Nat)
        /\ Len(outbuf[cur]) \in Nat /\ Len(snd[c]) \in Nat /\ Len(snd[c]) <= SndCap
    BY <2>2 DEF Fresh, Fits
  <2>4. n \in Nat /\ n <= Len(outbuf[cur]) /\ n <= space
    <3>1. SndCap \in Nat /\ space \in Nat
      BY <2>3
    <3> HIDE DEF space
    <3> QED
      BY <2>3, <3>1
  <2> HIDE DEF n
  <2>5. part \in Seq(Nat) /\ Len(part) = n
    BY <2>3, <2>4, Cut
  <2>6. Len(snd'[c]) = Len(snd[c]) + n
    BY <2>1, <2>2, <2>3, <2>5, Join, SMTT(40)
  <2>7. Fits'
    <3>1. \A d \in Clients \ {c} : snd'[d] = snd[d]
      BY <2>1
    <3>2. Len(snd'[c]) <= SndCap
      BY <2>3, <2>4, <2>6
    <3> QED
      BY <3>1, <3>2 DEF Fresh, Fits
  <2>8. Seen(cur) /\ Readable(cur)' = Readable(cur)
    BY <1>p, <2>1 DEF Fresh, Callback, Readable
  <2>9. Seen(cur)'
    <3>1. InputSeen(cur)' /\ Parsed(cur)'
      BY <2>1, <2>8 DEF Seen, InputSeen, Parsed, Pending, Wants
    <3>2. SpaceSeen(cur)' /\ SpaceAsked(cur)'
      BY <2>1 DEF SpaceSeen, SpaceAsked
    <3> QED
      BY <3>1, <3>2 DEF Seen
  <2>10. /\ \A fd \in conns \ {Listen, cur} : outbuf'[fd] = outbuf[fd]
         /\ \A d \in Clients \ {c} : snd'[d] = snd[d]
    BY <1>p, <2>1
  <2> QED
    BY <1>10, <1>r, <2>1, <2>7, <2>9, <2>10, CallbackSteps
<1>11. CASE SendFull
  <2>1. /\ pc \in {"reply", "send"} /\ pc' \in InSender
        /\ nospace' = [nospace EXCEPT ![peer[cur]] = TRUE]
        /\ UNCHANGED <<peer, rcv, snd, fin, rst, ready, batch, cur, out, conns, inbuf, outbuf>>
    BY <1>11 DEF SendFull, Sending, InSender
  <2>2. /\ Seen(cur) /\ Writable(cur)' = Writable(cur) /\ Readable(cur)' = Readable(cur)
        /\ nospace'[peer[cur]] /\ \A c \in Clients : nospace[c] => nospace'[c]
    BY <1>p, <2>1 DEF Fresh, Callback, Writable, Readable
  <2>3. Seen(cur)'
    BY <2>1, <2>2 DEF Seen, InputSeen, SpaceSeen, SpaceAsked, Parsed, Pending, Wants
  <2> QED
    BY <1>11, <1>r, <2>1, <2>2, <2>3, CallbackSteps DEF Fresh, Fits
<1>12. CASE SendNothing
  <2>1. /\ pc = "send" /\ pc' = "mod" /\ outbuf[cur] = <<>>
        /\ UNCHANGED <<kernel, batch, cur, out, conns, inbuf, outbuf>>
    BY <1>12, NothingKeeps DEF SendNothing
  <2>2. /\ Seen(cur) /\ Readable(cur)' = Readable(cur)
    BY <1>p, <2>1 DEF Fresh, Callback, Readable
  <2>3. Seen(cur)'
    BY <2>1, <2>2 DEF Seen, InputSeen, SpaceSeen, SpaceAsked, Parsed, Pending, Wants
  <2>4. InPlace
    BY <1>12, <2>1, CallbackSteps DEF Closing
  <2> QED
    BY <1>r, <2>1, <2>3, <2>4 DEF Fresh, Fits
<1>14. CASE SendKilled
  <2>1. /\ pc \in {"reply", "send"} /\ pc' = "killed"
        /\ UNCHANGED <<kernel, batch, cur, out, conns, inbuf, outbuf>>
    BY <1>14 DEF SendKilled, Sending
  <2>2. /\ Seen(cur) /\ Writable(cur) /\ Writable(cur)' = Writable(cur) /\ Readable(cur)' = Readable(cur)
    BY <1>14, <1>p, <2>1 DEF SendKilled, Fresh, Callback, Writable, Readable
  <2>3. Seen(cur)'
    BY <2>1, <2>2 DEF Seen, InputSeen, SpaceSeen, SpaceAsked, Parsed, Pending, Wants, InSender
  <2> QED
    BY <1>14, <1>r, <2>1, <2>3, CallbackSteps DEF Fresh, Fits
<1>13. CASE EnableReadWrite
  <2>1. /\ pc \in {"reply_mod", "mod"} /\ pc' \in {"next", "send"} /\ ready \subseteq ready'
        /\ interest' = [interest EXCEPT ![cur] =
                            {"IN"} \cup (IF outbuf[cur] # <<>> THEN {"OUT"} ELSE {})]
        /\ ready' = IF Poll(cur) \cap (interest'[cur] \cup {"ERR"}) # {}
                    THEN ready \cup {cur} ELSE ready
        /\ UNCHANGED <<peer, rcv, snd, fin, rst, nospace, batch, cur, out, conns, inbuf, outbuf>>
    BY <1>13, AfterTypes DEF EnableReadWrite
  <2>2. /\ cur \in Fds /\ cur \in conns /\ Seen(cur)
        /\ Writable(cur)' = Writable(cur) /\ Readable(cur)' = Readable(cur)
    BY <1>p, <2>1 DEF Fresh, Callback, Writable, Readable
  <2>3. outbuf[cur] # <<>> /\ Writable(cur) => cur \in ready'
    <3>1. outbuf[cur] # <<>> => "OUT" \in interest'[cur]
      BY <2>1, <2>2
    <3> QED
      BY <2>1, <2>2, <3>1, Polled
  <2>4. InputSeen(cur)' /\ Parsed(cur)' /\ SpaceAsked(cur)'
    BY <2>1, <2>2 DEF Seen, InputSeen, SpaceAsked, Parsed, Pending, Wants
  <2>5. SpaceSeen(cur)'
    BY <2>1, <2>2, <2>3 DEF SpaceSeen
  <2> QED
    BY <1>13, <1>r, <2>1, <2>4, <2>5, CallbackSteps DEF Seen, Fresh, Fits
<1> QED
  BY <1>1, <1>2, <1>3, <1>4, <1>5, <1>6, <1>7, <1>8, <1>9, <1>10, <1>11, <1>12, <1>13, <1>14,
     CallbackSteps DEF ServerStep

(***************************************************************************)
(* When the reactor goes back to epoll_wait no connection to accept, no    *)
(* input and no space for what is still to be sent is without an event,    *)
(* and EPOLLOUT is registered for exactly the connections that wait for    *)
(* space: edge-triggered mode never loses a client, however the batches    *)
(* are cut and wherever clients send, read, close or reset in between.     *)
(***************************************************************************)
THEOREM NeverStranded == Spec => []NothingStranded
<1>1. Init => Fresh
  <2> SUFFICES ASSUME Init PROVE Fresh
    OBVIOUS
  <2>1. conns \ {Listen} = {} /\ backlog = <<>>
    BY DEF Init
  <2>2. \A c \in Clients : Len(snd[c]) = 0
    BY DEF Init
  <2> QED
    BY <2>1, <2>2, EpollServerAssumption DEF Fresh, ListenSeen, Fits
<1>2. ASSUME Types, Agree, OnePeer, Registered, Fresh, [Next]_vars PROVE Fresh'
  <2>1. CASE UNCHANGED vars
    BY <1>2, <2>1 DEF vars, kernel, server, Fresh, ListenSeen, Fits, Seen, InputSeen, SpaceSeen, SpaceAsked,
                Parsed, Readable, Writable, Pending, Wants
  <2> QED
    BY <1>2, <2>1, FreshClient, FreshServer DEF Next
<1>3. ASSUME Types, Agree, OnePeer, Registered, Fresh PROVE NothingStranded
  <2> SUFFICES ASSUME pc = "wait" PROVE NothingStranded
    BY DEF NothingStranded
  <2>1. batch = {} /\ conns = Open \cup {Listen} /\ ~ \E e \in batch : TRUE
    BY <1>3 DEF Agree
  <2>2. backlog # <<>> => Listen \in ready
    BY <1>3, <2>1 DEF Fresh, ListenSeen
  <2>3. ASSUME NEW fd \in Open
        PROVE  /\ "IN" \in Poll(fd) => fd \in ready
               /\ outbuf[fd] # <<>> /\ "OUT" \in Poll(fd) => fd \in ready
               /\ Len(inbuf[fd]) < 2
               /\ "OUT" \in interest[fd] <=> outbuf[fd] # <<>>
    <3>1. fd \in conns \ {Listen} /\ fd \in Fds
      BY <2>1 DEF Open, Fds, Listen
    <3>2. Seen(fd)
      BY <1>3, <3>1 DEF Fresh
    <3>3. "OUT" \in interest[fd] <=> outbuf[fd] # <<>>
      BY <1>3, <3>1 DEF Registered, Interests, InSender
    <3> QED
      BY <2>1, <3>1, <3>2, <3>3, Polled
         DEF Seen, InputSeen, SpaceSeen, Parsed, Pending, InSender
  <2> QED
    BY <2>2, <2>3 DEF NothingStranded
<1> QED
  BY <1>1, <1>2, <1>3, Connected, PTL DEF Spec

-----------------------------------------------------------------------------
(* InOrder *)

\* Moving the first element of t to the end of s.
LEMMA MoveHead ==
    ASSUME NEW s \in Seq(Nat), NEW t \in Seq(Nat), t # <<>>
    PROVE  Append(s, Head(t)) \o Tail(t) = s \o t
<1>1. Head(t) \in Nat /\ Tail(t) \in Seq(Nat)
  OBVIOUS
<1>2. Append(s, Head(t)) \in Seq(Nat)
  BY <1>1
<1>3. /\ Append(s, Head(t)) \o Tail(t) \in Seq(Nat) /\ s \o t \in Seq(Nat)
      /\ Len(Append(s, Head(t)) \o Tail(t)) = Len(s \o t)
  <2>1. Len(Tail(t)) = Len(t) - 1 /\ Len(Append(s, Head(t))) = Len(s) + 1
        /\ Len(t) \in Nat /\ Len(s) \in Nat
    BY <1>1
  <2> QED
    BY <1>1, <1>2, <2>1, Join
<1>4. ASSUME NEW i \in 1 .. Len(s \o t)
      PROVE  (Append(s, Head(t)) \o Tail(t))[i] = (s \o t)[i]
  BY <1>1, <1>2, <1>3
<1> QED
  BY <1>3, <1>4, SeqEqual

\* Counting on.
LEMMA CountOn ==
    ASSUME NEW h \in Nat, NEW n \in Nat
    PROVE  [i \in 1 .. h |-> i] \o [i \in 1 .. n |-> h + i] = [i \in 1 .. h + n |-> i]
<1> DEFINE s == [i \in 1 .. h |-> i]
           t == [i \in 1 .. n |-> h + i]
           u == [i \in 1 .. h + n |-> i]
<1>1. /\ s \in Seq(Nat) /\ t \in Seq(Nat) /\ u \in Seq(Nat)
      /\ Len(s) = h /\ Len(t) = n /\ Len(u) = h + n
  OBVIOUS
<1>2. s \o t \in Seq(Nat) /\ Len(s \o t) = h + n
  BY <1>1, Join
<1>3. ASSUME NEW i \in 1 .. h + n PROVE (s \o t)[i] = u[i]
  <2>1. (s \o t)[i] = IF i <= Len(s) THEN s[i] ELSE t[i - Len(s)]
    BY <1>1
  <2> QED
    BY <1>1, <2>1
<1> HIDE DEF s, t, u
<1>4. s \o t = u
  BY <1>1, <1>2, <1>3, SeqEqual
<1> QED
  BY <1>4 DEF s, t, u

LEMMA NotServedYetStep ==
    ASSUME Types, Agree, OnePeer, NotServedYet, [Next]_vars
    PROVE  NotServedYet'
<1> USE DEF Types, KernelOK, ClientsOK, ServerOK
<1>p. /\ pc \in Callback \cup {"add"} => cur \in Fds /\ cur \in Open /\ peer[cur] \in Clients
      /\ \A i \in 1 .. Len(backlog) : backlog[i] \in Clients
  BY Peers
<1>1. ASSUME NEW c \in Clients, Connect(c) PROVE NotServedYet'
  <2>1. /\ gone[c] = "new" /\ \A d \in Clients : gone'[d] = "new" => gone[d] = "new"
        /\ backlog' = Append(backlog, c) /\ UNCHANGED <<got, snd, handled, pc, cur, peer>>
    BY <1>1 DEF Connect, server
  <2>2. ASSUME NEW i \in 1 .. Len(backlog')
        PROVE  (i \in 1 .. Len(backlog) /\ backlog'[i] = backlog[i]) \/ backlog'[i] = c
    <3> DEFINE n == Len(backlog)
               m == Len(backlog')
    <3>1. /\ n \in Nat /\ m = n + 1 /\ i \in 1 .. m
          /\ \A j \in 1 .. n : backlog'[j] = backlog[j]
          /\ backlog'[n + 1] = c
      BY <2>1
    <3> HIDE DEF n, m
    <3>2. i \in 1 .. n \/ i = n + 1
      BY <3>1
    <3> QED
      BY <3>1, <3>2 DEF n
  <2>3. \A i \in 1 .. Len(backlog') : Untouched(backlog'[i])
    BY <2>1, <2>2 DEF NotServedYet
  <2>4. \A d : Untouched(d) => Untouched(d)'
    BY <2>1 DEF Untouched
  <2>5. \A i \in 1 .. Len(backlog') : Untouched(backlog[i])'
    BY <2>1, <2>3 DEF Untouched
  <2>6. (\A d \in Clients : gone[d] = "new" => Untouched(d))'
    BY <2>1, <2>4 DEF NotServedYet
  <2>7. (pc = "add" => Untouched(peer[cur]))'
    BY <2>1 DEF NotServedYet, Untouched
  <2> QED
    BY <2>5, <2>6, <2>7 DEF NotServedYet
<1>2. ASSUME NEW c \in Clients, SendFragment(c) \/ ReadResponse(c) \/ Close(c) \/ Reset(c)
      PROVE  NotServedYet'
  <2>1. /\ UNCHANGED <<backlog, peer, handled, pc, cur>>
        /\ \A d \in Clients : gone'[d] = "new" => gone[d] = "new"
    BY <1>2 DEF SendFragment, ReadResponse, Close, Reset, server
  <2>2. ASSUME NEW d \in Clients, Untouched(d) PROVE Untouched(d)'
    <3>1. got'[d] = got[d] /\ (snd'[d] = snd[d] \/ snd'[d] = <<>>)
      BY <1>2, <2>2 DEF SendFragment, ReadResponse, Close, Reset, Untouched
    <3> QED
      BY <2>1, <2>2, <3>1 DEF Untouched
  <2> QED
    BY <1>p, <2>1, <2>2 DEF NotServedYet
<1>3. CASE AcceptOne
  <2>1. PICK fd \in FreeFds : peer' = [peer EXCEPT ![fd] = Head(backlog)] /\ cur' = fd
    BY <1>3 DEF AcceptOne
  <2>2. /\ backlog' = Tail(backlog) /\ backlog # <<>> /\ UNCHANGED <<gone, got, snd, handled>>
        /\ peer'[cur'] = backlog[1] /\ 1 \in 1 .. Len(backlog)
    BY <1>3, <2>1 DEF AcceptOne, FreeFds, clients
  <2>3. \A i \in 1 .. Len(backlog') : i + 1 \in 1 .. Len(backlog) /\ backlog'[i] = backlog[i + 1]
    BY <2>2
  <2>4. \A i \in 1 .. Len(backlog') : Untouched(backlog'[i])
    BY <2>3 DEF NotServedYet
  <2>5. \A i \in 1 .. Len(backlog') : Untouched(backlog[i])'
    BY <2>2, <2>4 DEF Untouched
  <2>6. (\A d \in Clients : gone[d] = "new" => Untouched(d))'
    BY <2>2 DEF NotServedYet, Untouched
  <2>7. (pc = "add" => Untouched(peer[cur]))'
    BY <2>2 DEF NotServedYet, Untouched
  <2> QED
    BY <2>5, <2>6, <2>7 DEF NotServedYet
\* A client that a callback serves is not one of those that wait.
<1>q. pc \in Callback => /\ gone[peer[cur]] # "new"
                         /\ \A i \in 1 .. Len(backlog) : backlog[i] # peer[cur]
  BY <1>p DEF OnePeer
<1>4. ASSUME InPlace, \A c \in Clients \ {peer[cur]} : snd'[c] = snd[c] /\ handled'[c] = handled[c]
      PROVE  NotServedYet'
  <2>1. pc \in Callback /\ pc' # "add" /\ UNCHANGED <<backlog, gone, got>>
    BY <1>4 DEF InPlace, Callback, clients
  <2> QED
    BY <1>4, <1>p, <1>q, <2>1 DEF NotServedYet, Untouched
<1>5. CASE HandleRequest
  <2>1. InPlace
    BY <1>5, CallbackSteps
  <2>2. \A c \in Clients \ {peer[cur]} : snd'[c] = snd[c] /\ handled'[c] = handled[c]
    BY <1>5 DEF HandleRequest, kernel
  <2> QED
    BY <1>4, <2>1, <2>2
<1>6. CASE SendSome
  <2>1. InPlace
    BY <1>6, CallbackSteps
  <2>2. \A c \in Clients \ {peer[cur]} : snd'[c] = snd[c] /\ handled'[c] = handled[c]
    BY <1>6 DEF SendSome
  <2> QED
    BY <1>4, <2>1, <2>2
<1>7. CASE \/ Wait \/ (\E e \in batch : Dispatch(e)) \/ LoopDone \/ AcceptFails \/ AcceptDrained
           \/ AddConnection \/ RecvSome \/ RecvClosed \/ RecvDrained
           \/ SendFull \/ SendNothing \/ SendError \/ SendKilled \/ EnableReadWrite
  <2>1. UNCHANGED <<backlog, gone, got, snd, handled>> /\ pc' # "add"
    <3>1. CASE \/ Wait \/ (\E e \in batch : Dispatch(e)) \/ LoopDone \/ AcceptFails \/ AcceptDrained
               \/ AddConnection
      BY <3>1 DEF Wait, Dispatch, LoopDone, AcceptFails, AcceptDrained, AddConnection, kernel, clients
    <3>2. CASE \/ RecvSome \/ RecvClosed \/ RecvDrained
      BY <3>2, AfterTypes DEF RecvSome, RecvClosed, RecvDrained, kernel, clients
    <3>3. CASE SendFull \/ SendNothing \/ SendError \/ SendKilled \/ EnableReadWrite
      BY <3>3, AfterTypes DEF SendFull, SendNothing, SendError, SendKilled, EnableReadWrite,
                              kernel, clients, Sending
    <3> QED
      BY <1>7, <3>1, <3>2, <3>3
  <2> QED
    BY <2>1 DEF NotServedYet, Untouched
<1>8. CASE UNCHANGED vars
  BY <1>8 DEF vars, kernel, clients, server, NotServedYet, Untouched
<1> QED
  BY <1>1, <1>2, <1>3, <1>5, <1>6, <1>7, <1>8 DEF Next, ServerStep, ClientStep

\* A connection none of whose parts changes stays in order; so does one that is
\* reset.
LEMMA OrderedApart ==
    ASSUME NEW fd, Ordered(fd), peer'[fd] = peer[fd], rst[peer[fd]] => rst'[peer[fd]],
           \/ rst'[peer[fd]]
           \/ /\ got'[peer[fd]] = got[peer[fd]] /\ snd'[peer[fd]] = snd[peer[fd]]
              /\ handled'[peer[fd]] = handled[peer[fd]] /\ outbuf'[fd] = outbuf[fd]
    PROVE  Ordered(fd)'
BY DEF Ordered

LEMMA InOrderClient ==
    ASSUME Types, Agree, OnePeer, InOrder, NEW c \in Clients, ClientStep(c)
    PROVE  InOrder'
<1> USE DEF Types, KernelOK, ClientsOK, ServerOK
<1>1. UNCHANGED <<peer, interest, server>> /\ \A d \in Clients : rst[d] => rst'[d]
  BY ClientFrame, ClientKeeps
<1>2. ASSUME NEW fd \in conns \ {Listen} PROVE Ordered(fd)'
  <2>1. fd \in Fds /\ peer[fd] \in Clients /\ Ordered(fd)
    BY Peers DEF InOrder
  <2>2. CASE Connect(c) \/ SendFragment(c) \/ Close(c)
    <3>1. UNCHANGED <<got, snd>>
      BY <2>2 DEF Connect, SendFragment, Close
    <3> QED
      BY <1>1, <2>1, <3>1, OrderedApart DEF server
  <2>3. CASE Reset(c)
    <3>1. rst'[c] /\ got' = got /\ \A d \in Clients \ {c} : snd'[d] = snd[d]
      BY <2>3 DEF Reset
    <3> QED
      BY <1>1, <2>1, <3>1, OrderedApart DEF server
  <2>4. CASE ReadResponse(c) /\ peer[fd] # c
    <3>1. \A d \in Clients \ {c} : got'[d] = got[d] /\ snd'[d] = snd[d]
      BY <2>4 DEF ReadResponse
    <3> QED
      BY <1>1, <2>1, <2>4, <3>1, OrderedApart DEF server
  <2>5. CASE ReadResponse(c) /\ peer[fd] = c
    <3>1. /\ snd[c] \in Seq(Nat) /\ got[c] \in Seq(Nat) /\ snd[c] # <<>>
          /\ got'[c] = Append(got[c], Head(snd[c])) /\ snd'[c] = Tail(snd[c]) /\ rst' = rst
      BY <2>5 DEF ReadResponse
    <3>2. got'[c] \o snd'[c] = got[c] \o snd[c]
      BY <3>1, MoveHead
    <3>3. UNCHANGED <<handled, outbuf>>
      BY <1>1 DEF server
    <3> QED
      BY <1>1, <2>1, <2>5, <3>1, <3>2, <3>3 DEF Ordered
  <2> QED
    BY <2>2, <2>3, <2>4, <2>5 DEF ClientStep
<1> QED
  BY <1>1, <1>2 DEF InOrder, server

LEMMA InOrderServer ==
    ASSUME Types, Agree, OnePeer, NotServedYet, InOrder, ServerStep
    PROVE  InOrder'
<1> USE DEF Types, KernelOK, ClientsOK, ServerOK, kernel, clients
<1>p. /\ \A fd \in conns \ {Listen} : fd \in Fds /\ peer[fd] \in Clients /\ Ordered(fd)
      /\ pc \in Callback \cup {"add"} => /\ cur \in Fds /\ cur # Listen /\ peer[cur] \in Clients
                                         /\ \A fd \in conns \ {Listen, cur} : peer[fd] # peer[cur]
      /\ pc \in Callback => cur \in conns
  BY Peers DEF InOrder
<1>1. CASE AcceptOne
  <2>1. PICK x \in FreeFds : peer' = [peer EXCEPT ![x] = Head(backlog)]
    BY <1>1 DEF AcceptOne
  <2>2. UNCHANGED <<rst, got, snd, handled, outbuf, conns>>
    BY <1>1 DEF AcceptOne
  <2>3. \A fd \in conns \ {Listen} : peer'[fd] = peer[fd]
    BY <1>p, <2>1, EpollServerAssumption DEF FreeFds
  <2> QED
    BY <1>p, <2>2, <2>3, OrderedApart DEF InOrder
<1>2. CASE AddConnection
  <2>1. /\ pc = "add" /\ conns' = conns \cup {cur} /\ cur \notin conns
        /\ outbuf'[cur] = <<>> /\ \A fd \in Fds \ {cur} : outbuf'[fd] = outbuf[fd]
        /\ UNCHANGED <<peer, rst, got, snd, handled>>
    BY <1>2, <1>p DEF AddConnection, Agree
  <2>2. ASSUME NEW fd \in conns \ {Listen} PROVE Ordered(fd)'
    BY <1>p, <2>1, OrderedApart
  <2>3. ASSUME NEW fd \in Fds, fd = cur PROVE Ordered(fd)'
    <3>1. got'[peer[fd]] = <<>> /\ snd'[peer[fd]] = <<>> /\ handled'[peer[fd]] = 0
      BY <2>1, <2>3 DEF NotServedYet, Untouched
    <3>2. <<>> \o <<>> \o <<>> = [i \in 1 .. 0 |-> i]
      OBVIOUS
    <3> QED
      BY <2>1, <2>3, <3>1, <3>2 DEF Ordered
  <2> QED
    BY <1>p, <2>1, <2>2, <2>3 DEF InOrder
<1>3. CASE Closing
  <2>1. /\ pc \in Callback /\ conns' = conns \ {cur}
        /\ \A fd \in Fds \ {cur} : peer'[fd] = peer[fd] /\ outbuf'[fd] = outbuf[fd]
        /\ UNCHANGED <<rst, got, snd, handled>>
    BY <1>3 DEF Closing, Excepter
  <2> QED
    BY <1>p, <2>1, OrderedApart DEF InOrder
<1>4. CASE HandleRequest
  <2> DEFINE c == peer[cur]
             n == Len(inbuf[cur]) \div 2
             added == [i \in 1 .. n |-> handled[c] + i]
             before == got[c] \o snd[c]
  <2>1. /\ pc = "handle" /\ outbuf' = [outbuf EXCEPT ![cur] = outbuf[cur] \o added]
        /\ handled' = [handled EXCEPT ![c] = handled[c] + n]
        /\ UNCHANGED <<peer, rst, got, snd, conns, cur>>
    BY <1>4 DEF HandleRequest
  <2>2. cur \in Fds /\ cur \in conns /\ cur # Listen /\ c \in Clients
    BY <1>p, <2>1 DEF Callback
  <2>3. n \in Nat /\ handled[c] \in Nat
    <3>1. Len(inbuf[cur]) \in Nat
      BY <2>2
    <3> QED
      BY <2>2, <3>1, Half
  <2>4. /\ before \in Seq(Nat) /\ outbuf[cur] \in Seq(Nat)
        /\ \A n1, h1 \in Nat : [i \in 1 .. n1 |-> h1 + i] \in Seq(Nat)
    <3>1. got[c] \in Seq(Nat) /\ snd[c] \in Seq(Nat) /\ outbuf[cur] \in Seq(Nat)
      BY <2>2
    <3>2. \A n1, h1 \in Nat : [i \in 1 .. n1 |-> h1 + i] \in Seq(Nat)
      OBVIOUS
    <3> QED
      BY <3>1, <3>2, Join
  <2> HIDE DEF n
  <2>5. added \in Seq(Nat)
    BY <2>3, <2>4
  <2>6. before \o (outbuf[cur] \o added) = (before \o outbuf[cur]) \o added
    <3> HIDE DEF before, added
    <3> QED
      BY <2>4, <2>5, Regroup
  <2>7. [i \in 1 .. handled[c] |-> i] \o added = [i \in 1 .. handled[c] + n |-> i]
    BY <2>3, CountOn
  <2>8. ~ rst[c] => before \o outbuf[cur] = [i \in 1 .. handled[c] |-> i]
    BY <1>p, <2>2 DEF Ordered
  <2>9. /\ outbuf'[cur] = outbuf[cur] \o added /\ handled'[c] = handled[c] + n
        /\ got'[c] \o snd'[c] = before /\ rst'[c] = rst[c] /\ peer'[cur'] = c
    BY <2>1, <2>2
  <2> HIDE DEF before, added
  <2>10. ASSUME NEW fd \in Fds, fd = cur PROVE Ordered(fd)'
    <3>1. /\ peer'[fd] = c /\ rst'[peer'[fd]] = rst[c] /\ got'[peer'[fd]] \o snd'[peer'[fd]] = before
          /\ outbuf'[fd] = outbuf[cur] \o added /\ handled'[peer'[fd]] = handled[c] + n
      BY <2>1, <2>9, <2>10
    <3>2. ~ rst[c] => before \o (outbuf[cur] \o added) = [i \in 1 .. handled[c] + n |-> i]
      BY <2>6, <2>7, <2>8
    <3> QED
      BY <3>1, <3>2 DEF Ordered
  <2>11. ASSUME NEW fd \in conns \ {Listen, cur} PROVE Ordered(fd)'
    <3>1. fd \in Fds /\ fd # cur /\ peer[fd] # c /\ peer[fd] \in Clients /\ Ordered(fd)
      BY <1>p, <2>1 DEF Callback
    <3>2. outbuf'[fd] = outbuf[fd] /\ handled'[peer[fd]] = handled[peer[fd]]
      BY <2>1, <3>1
    <3> QED
      BY <2>1, <3>1, <3>2, OrderedApart
  <2> QED
    BY <1>p, <2>1, <2>2, <2>10, <2>11 DEF InOrder
<1>5. CASE SendSome
  <2> DEFINE c == peer[cur]
             space == SndCap - Len(snd[c])
             n == IF Len(outbuf[cur]) < space THEN Len(outbuf[cur]) ELSE space
             part == SubSeq(outbuf[cur], 1, n)
             after == SubSeq(outbuf[cur], n + 1, Len(outbuf[cur]))
  <2>1. /\ pc \in {"reply", "send"}
        /\ snd' = [snd EXCEPT ![c] = snd[c] \o part] /\ n > 0
        /\ outbuf' = [outbuf EXCEPT ![cur] = after]
        /\ UNCHANGED <<peer, rst, got, handled, conns, cur>>
    BY <1>5 DEF SendSome, Sending
  <2>2. cur \in Fds /\ cur \in conns /\ cur # Listen /\ c \in Clients
    BY <1>p, <2>1 DEF Callback
  <2>3. /\ got[c] \in Seq(Nat) /\ snd[c] \in Seq(Nat) /\ outbuf[cur] \in Seq(Nat)
        /\ Len(outbuf[cur]) \in Nat /\ Len(snd[c]) \in Nat
    BY <2>2
  <2>4. n \in Nat /\ n <= Len(outbuf[cur])
    <3>1. SndCap \in Nat /\ space \in Int
      BY <2>3, EpollServerAssumption
    <3> HIDE DEF space
    <3> QED
      BY <2>1, <2>3, <3>1
  <2> HIDE DEF n
  <2>5. part \in Seq(Nat) /\ after \in Seq(Nat) /\ part \o after = outbuf[cur]
    BY <2>3, <2>4, Cut
  <2> HIDE DEF part, after
  <2>6. got[c] \o (snd[c] \o part) \o after = got[c] \o snd[c] \o outbuf[cur]
    <3>1. got[c] \o (snd[c] \o part) = (got[c] \o snd[c]) \o part
      BY ONLY <2>3, <2>5, Regroup
    <3>2. got[c] \o snd[c] \in Seq(Nat)
      BY ONLY <2>3, Join
    <3>3. ((got[c] \o snd[c]) \o part) \o after = (got[c] \o snd[c]) \o (part \o after)
      BY <2>5, <3>2, Regroup
    <3> QED
      BY <2>5, <3>1, <3>3
  <2>7. ~ rst[c] => got[c] \o snd[c] \o outbuf[cur] = [i \in 1 .. handled[c] |-> i]
    BY <1>p, <2>2 DEF Ordered
  <2>10. ASSUME NEW fd \in Fds, fd = cur PROVE Ordered(fd)'
    <3>1. /\ peer'[fd] = c /\ rst'[peer'[fd]] = rst[c] /\ got'[peer'[fd]] = got[c]
          /\ snd'[peer'[fd]] = snd[c] \o part
          /\ outbuf'[fd] = after /\ handled'[peer'[fd]] = handled[c]
      BY <2>1, <2>2, <2>10
    <3> QED
      BY <2>6, <2>7, <3>1 DEF Ordered
  <2>11. ASSUME NEW fd \in conns \ {Listen, cur} PROVE Ordered(fd)'
    <3>1. fd \in Fds /\ fd # cur /\ peer[fd] # c /\ peer[fd] \in Clients /\ Ordered(fd)
      BY <1>p, <2>1 DEF Callback
    <3>2. outbuf'[fd] = outbuf[fd] /\ snd'[peer[fd]] = snd[peer[fd]]
      BY <2>1, <3>1
    <3> QED
      BY <2>1, <3>1, <3>2, OrderedApart
  <2> QED
    BY <1>p, <2>1, <2>2, <2>10, <2>11 DEF InOrder
<1>6. CASE \/ Wait \/ (\E e \in batch : Dispatch(e)) \/ LoopDone \/ AcceptFails \/ AcceptDrained
           \/ RecvSome \/ RecvDrained \/ SendFull \/ SendKilled \/ EnableReadWrite
           \/ (SendNothing /\ InPlace)
  <2>1. UNCHANGED <<peer, rst, got, snd, handled, outbuf, conns>>
    <3>1. CASE Wait \/ (\E e \in batch : Dispatch(e)) \/ LoopDone \/ AcceptFails \/ AcceptDrained
      BY <3>1 DEF Wait, Dispatch, LoopDone, AcceptFails, AcceptDrained
    <3>2. CASE RecvSome \/ RecvDrained \/ SendFull \/ SendKilled \/ EnableReadWrite
      BY <3>2 DEF RecvSome, RecvDrained, SendFull, SendKilled, EnableReadWrite
    <3>3. CASE SendNothing /\ InPlace
      <4>1. cur \in conns /\ conns' = conns
        BY <3>3, <1>p DEF InPlace
      <4> QED
        BY <3>3, <4>1 DEF SendNothing, Excepter
    <3> QED
      BY <1>6, <3>1, <3>2, <3>3
  <2> QED
    BY <1>p, <2>1, OrderedApart DEF InOrder
<1> QED
  BY <1>1, <1>2, <1>3, <1>4, <1>5, <1>6, CallbackSteps DEF ServerStep

LEMMA Orderly == Spec => [](NotServedYet /\ InOrder)
<1>1. Init => NotServedYet /\ InOrder
  <2> SUFFICES ASSUME Init PROVE NotServedYet /\ InOrder
    OBVIOUS
  <2>1. conns \ {Listen} = {} /\ backlog = <<>> /\ Len(backlog) = 0 /\ pc = "wait"
    BY DEF Init
  <2>2. \A c \in Clients : Untouched(c)
    BY DEF Init, Untouched
  <2> QED
    BY <2>1, <2>2 DEF NotServedYet, InOrder
<1>2. Types /\ Agree /\ OnePeer /\ NotServedYet /\ [Next]_vars => NotServedYet'
  BY NotServedYetStep
<1>3. ASSUME Types, Agree, OnePeer, NotServedYet, InOrder, [Next]_vars PROVE InOrder'
  <2>1. CASE UNCHANGED vars
    BY <1>3, <2>1 DEF vars, kernel, clients, server, InOrder, Ordered
  <2> QED
    BY <1>3, <2>1, InOrderClient, InOrderServer DEF Next
<1> QED
  BY <1>1, <1>2, <1>3, Connections, PTL DEF Spec

(***************************************************************************)
(* What a client has received, what is in its socket and what is in        *)
(* _outbuffer are the responses to its requests, each once and in order,   *)
(* however recv and send cut them and whoever calls the sender.            *)
(***************************************************************************)
THEOREM AnsweredInOrder == Spec => []RepliesInOrder
<1>1. InOrder => RepliesInOrder
  <2>1. \A fd \in Open : fd # Listen
    BY DEF Open, Fds, Listen
  <2> QED
    BY <2>1 DEF InOrder, Ordered, RepliesInOrder
<1> QED
  BY <1>1, Orderly, PTL

-----------------------------------------------------------------------------
(* What ends the server *)

\* Only the RST that answers data sent to a closed client follows a FIN, and
\* that data is a response the client has not read and never will.
Rejected ==
    /\ \A c \in Clients : fin[c] \/ rst[c] => gone[c] = "left"
    /\ \A c \in Clients : fin[c] /\ rst[c] => Len(got[c]) < handled[c]
    /\ pc = "killed" => cur \in Fds /\ peer[cur] \in Clients /\ fin[peer[cur]] /\ rst[peer[cur]]

\* The parts of a connection's responses, counted.
LEMMA Unread ==
    ASSUME Types, Agree, OnePeer, NotServedYet, InOrder, NEW c \in Clients, Rejects(c), ~ rst[c]
    PROVE  Len(got[c]) < handled[c]
<1> USE DEF Types, KernelOK, ClientsOK, ServerOK
<1>1. PICK fd \in Fds : peer[fd] = c
  BY DEF Rejects
<1>2. fd \in Open /\ fd # Listen /\ snd[c] # <<>>
  <2>1. fd # Listen
    BY DEF Fds, Listen
  <2>2. c # None
    BY ONLY EpollServerAssumption, c \in Clients
  <2> QED
    BY ONLY <1>1, <2>1, <2>2, Rejects(c) DEF Open, Rejects
<1>3. fd \in conns \ {Listen}
  <2>1. pc = "add" => fd # cur
    BY <1>1, <1>2 DEF NotServedYet, Untouched
  <2> QED
    BY <1>2, <2>1 DEF Agree
<1>4. got[c] \o snd[c] \o outbuf[fd] = [i \in 1 .. handled[c] |-> i]
  BY <1>1, <1>3 DEF InOrder, Ordered
<1>5. /\ got[c] \in Seq(Nat) /\ snd[c] \in Seq(Nat) /\ outbuf[fd] \in Seq(Nat) /\ handled[c] \in Nat
      /\ Len(got[c]) \in Nat /\ Len(snd[c]) \in Nat \ {0} /\ Len(outbuf[fd]) \in Nat
  BY <1>1, <1>2
<1>6. Len(got[c] \o snd[c] \o outbuf[fd]) = Len(got[c]) + Len(snd[c]) + Len(outbuf[fd])
  <2>1. got[c] \o snd[c] \in Seq(Nat) /\ Len(got[c] \o snd[c]) = Len(got[c]) + Len(snd[c])
    BY <1>5, Join
  <2> QED
    BY <1>5, <2>1, Join
<1>7. Len([i \in 1 .. handled[c] |-> i]) = handled[c]
  BY <1>5
<1> QED
  BY <1>4, <1>5, <1>6, <1>7

LEMMA RejectedClient ==
    ASSUME Types, Agree, OnePeer, NotServedYet, InOrder, Rejected, NEW c \in Clients, ClientStep(c)
    PROVE  Rejected'
<1> USE DEF Types, KernelOK, ClientsOK, ServerOK
<1>1. UNCHANGED <<peer, server>> /\ pc # "killed"
  BY ClientFrame DEF ClientStep, Connect, SendFragment, ReadResponse, Close, Reset, Attached, Rejects
<1>2. ASSUME NEW d \in Clients, d # c
      PROVE  fin'[d] = fin[d] /\ rst'[d] = rst[d] /\ gone'[d] = gone[d] /\ got'[d] = got[d]
  BY <1>2 DEF ClientStep, Connect, SendFragment, ReadResponse, Close, Reset
<1>3. gone[c] # "left" => ~ fin[c] /\ ~ rst[c]
  BY DEF Rejected
<1>4. (fin'[c] \/ rst'[c] => gone'[c] = "left") /\ (fin'[c] /\ rst'[c] => Len(got'[c]) < handled[c])
  <2>1. CASE Connect(c) \/ SendFragment(c) \/ ReadResponse(c)
    <3>1. UNCHANGED <<fin, rst>> /\ gone[c] # "left"
      BY <2>1 DEF Connect, SendFragment, ReadResponse, Attached
    <3> QED
      BY <1>3, <3>1
  <2>2. CASE Close(c)
    <3>1. UNCHANGED rst /\ gone[c] # "left" /\ gone'[c] = "left"
      BY <2>2 DEF Close, Attached
    <3> QED
      BY <1>3, <3>1
  <2>3. CASE Reset(c)
    <3>1. UNCHANGED <<fin, got>> /\ gone'[c] = "left" /\ (gone[c] = "open" \/ Rejects(c))
      BY <2>3 DEF Reset, Attached
    <3>2. fin[c] => Len(got[c]) < handled[c]
      BY <1>3, <3>1, Unread DEF Rejected
    <3> QED
      BY <3>1, <3>2
  <2> QED
    BY <2>1, <2>2, <2>3 DEF ClientStep
<1>5. handled' = handled /\ pc' = pc
  BY <1>1 DEF server
<1> QED
  BY <1>1, <1>2, <1>4, <1>5 DEF Rejected

LEMMA RejectedServer == ASSUME Types, Agree, OnePeer, Rejected, ServerStep PROVE Rejected'
<1> USE DEF Types, KernelOK, ClientsOK, ServerOK, kernel, clients
<1>1. UNCHANGED <<fin, rst, gone, got>> /\ (pc' = "killed" => SendKilled)
  <2>1. CASE \/ Wait \/ (\E e \in batch : Dispatch(e)) \/ LoopDone \/ AcceptOne \/ AcceptFails
             \/ AcceptDrained \/ AddConnection
    BY <2>1 DEF Wait, Dispatch, LoopDone, AcceptOne, AcceptFails, AcceptDrained, AddConnection
  <2>2. CASE RecvSome \/ RecvClosed \/ RecvDrained \/ HandleRequest
    BY <2>2, AfterTypes DEF RecvSome, RecvClosed, RecvDrained, HandleRequest
  <2>3. CASE SendSome \/ SendFull \/ SendNothing \/ SendError \/ SendKilled \/ EnableReadWrite
    BY <2>3, AfterTypes DEF SendSome, SendFull, SendNothing, SendError, SendKilled, EnableReadWrite,
                            Sending
  <2> QED
    BY <2>1, <2>2, <2>3 DEF ServerStep
<1>2. \A c \in Clients : handled'[c] \in Nat /\ handled'[c] >= handled[c]
  <2>1. CASE HandleRequest
    <3> DEFINE n == Len(inbuf[cur]) \div 2
    <3>1. cur \in Fds /\ peer[cur] \in Clients
      BY <2>1, Peers DEF HandleRequest, Callback
    <3>2. n \in Nat
      <4>1. Len(inbuf[cur]) \in Nat
        BY <3>1
      <4> QED
        BY <4>1, Half
    <3>3. handled' = [handled EXCEPT ![peer[cur]] = handled[peer[cur]] + n]
      BY <2>1 DEF HandleRequest
    <3> HIDE DEF n
    <3>4. \A x \in Nat : x + n \in Nat /\ x + n >= x /\ x >= x
      BY <3>2
    <3>5. ASSUME NEW c \in Clients PROVE handled'[c] = handled[c] \/ handled'[c] = handled[c] + n
      BY <3>1, <3>3
    <3>6. \A c \in Clients : handled[c] \in Nat
      OBVIOUS
    <3> QED
      BY ONLY <3>4, <3>5, <3>6
  <2>2. CASE ~ HandleRequest
    <3>1. handled' = handled
      BY <2>2 DEF ServerStep, Wait, Dispatch, LoopDone, AcceptOne, AcceptFails, AcceptDrained,
                  AddConnection, RecvSome, RecvClosed, RecvDrained, SendSome, SendFull,
                  SendNothing, SendError, SendKilled, EnableReadWrite
    <3> QED
      BY <3>1
  <2> QED
    BY <2>1, <2>2
<1>3. \A c \in Clients : Len(got[c]) \in Nat /\ handled[c] \in Nat
  OBVIOUS
<1>4. \A c \in Clients : fin'[c] /\ rst'[c] => Len(got'[c]) < handled'[c]
  BY <1>1, <1>2, <1>3 DEF Rejected
<1>5. (pc = "killed" => cur \in Fds /\ peer[cur] \in Clients /\ fin[peer[cur]] /\ rst[peer[cur]])'
  <2>1. CASE SendKilled
    BY <2>1, Peers DEF SendKilled, Sending, Callback
  <2> QED
    BY <1>1, <2>1
<1> QED
  BY <1>1, <1>4, <1>5 DEF Rejected

(***************************************************************************)
(* However many clients come and go, SIGPIPE ends the server only while it *)
(* sends to a client that has closed before it read the responses to all   *)
(* its requests; a client that resets, or reads all it is sent, never ends *)
(* it.                                                                     *)
(***************************************************************************)
THEOREM EndedOnlyByUnread == Spec => []KilledOnlyByUnread
<1>1. Init => Rejected
  BY DEF Init, Rejected
<1>2. ASSUME Types, Agree, OnePeer, NotServedYet, InOrder, Rejected, [Next]_vars PROVE Rejected'
  <2>1. CASE UNCHANGED vars
    BY <1>2, <2>1 DEF vars, kernel, clients, server, Rejected
  <2> QED
    BY <1>2, <2>1, RejectedClient, RejectedServer DEF Next
<1>3. Rejected => KilledOnlyByUnread
  BY DEF Rejected, KilledOnlyByUnread
<1> QED
  BY <1>1, <1>2, <1>3, Orderly, Connections, PTL DEF Spec
=============================================================================
