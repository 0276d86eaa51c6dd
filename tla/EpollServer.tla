---------------------------- MODULE EpollServer ----------------------------
(***************************************************************************)
(* 8.11/epollServer.2: the single-threaded reactor in edge-triggered mode. *)
(* The server takes a batch of ready descriptors from epoll_wait and runs  *)
(* the callback of each: Accepter for the listening socket, Reciver and    *)
(* Sender for a connection.  Between any two of its system calls clients   *)
(* connect, send, read, close and reset.                                   *)
(*                                                                         *)
(* Edge-triggered epoll is modelled as Linux implements it.  A descriptor  *)
(* enters the ready list when something happens to its socket that its     *)
(* interest covers, or when epoll_ctl finds it ready; epoll_wait takes it  *)
(* off the list and reports what the socket is ready for at that moment.   *)
(* What is then left unread produces no further event.                     *)
(*                                                                         *)
(* A request is two fragments of the byte stream (the header and the rest),*)
(* numbered 2r-1 and 2r for the r-th request of a client; the response to  *)
(* it is one unit, numbered r.  A recv may return any part of what has     *)
(* arrived; the kernel's send buffer holds SndCap units.                   *)
(***************************************************************************)
EXTENDS Integers, Sequences, FiniteSets

CONSTANTS
    Clients,      \* each connects at most once
    NumFds,       \* how many descriptors the process may still open
    Sends,        \* Sends[c]: how many fragments client c sends at most
    SndCap,       \* what fits into a socket's send buffer
    Gnum,         \* gnum: the size of the array given to epoll_wait
    StaleTail,    \* may the byte after those received be other than 0?
    None

ASSUME EpollServerAssumption ==
    /\ IsFiniteSet(Clients) /\ NumFds \in Nat
    /\ Sends \in [Clients -> Nat] /\ SndCap \in Nat \ {0} /\ Gnum \in Nat \ {0}
    /\ StaleTail \in BOOLEAN
    /\ None \notin Clients

Listen == 0                        \* the listening descriptor
Fds == 1 .. NumFds                 \* those accept can return
Frags == UNION {1 .. Sends[c] : c \in Clients}

VARIABLES
    \* the kernel
    backlog,   \* connected clients that have not been accepted
    peer,      \* peer[fd]: the client at the other end of an open descriptor
    rcv, snd,  \* rcv[c], snd[c]: the server-side socket buffers of client c
    fin, rst,  \* fin[c], rst[c]: c has closed, has reset its connection
    nospace,   \* nospace[c]: a send to c has failed for lack of space
    interest,  \* interest[fd]: the events registered with epoll
    ready,     \* epoll's ready list
    \* the clients
    sent,      \* sent[c]: how many fragments c has sent
    got,       \* got[c]: the response units c has received
    gone,      \* gone[c]: c has not connected yet, is connected, or has left
    \* the server
    pc,        \* the system call it is about to make, or "killed"
    batch,     \* the events of _recv[] not dispatched yet
    cur,       \* the connection (or Listen) of the running callback
    out,       \* is the sender still to be called for the current event?
    conns,     \* the keys of _connections
    inbuf, outbuf,  \* _inbuffer and _outbuffer of each connection
    handled,   \* handled[c]: how many requests of c were taken from _inbuffer
    errno,     \* the value errno was last set to
    stack      \* what earlier recv calls left in the local buffer

kernel == <<backlog, peer, rcv, snd, fin, rst, nospace, interest, ready>>
clients == <<sent, got, gone>>
server == <<pc, batch, cur, out, conns, inbuf, outbuf, handled, errno, stack>>
vars == <<kernel, clients, server>>

Init ==
    /\ backlog = <<>> /\ peer = [fd \in Fds |-> None]
    /\ rcv = [c \in Clients |-> <<>>] /\ snd = [c \in Clients |-> <<>>]
    /\ fin = [c \in Clients |-> FALSE] /\ rst = [c \in Clients |-> FALSE]
    /\ nospace = [c \in Clients |-> FALSE]
    /\ interest = [fd \in {Listen} |-> {"IN"}] /\ ready = {}
    /\ sent = [c \in Clients |-> 0] /\ got = [c \in Clients |-> <<>>]
    /\ gone = [c \in Clients |-> "new"]
    /\ pc = "wait" /\ batch = {} /\ cur = Listen /\ out = FALSE
    /\ conns = {Listen}
    /\ inbuf = [fd \in Fds |-> <<>>] /\ outbuf = [fd \in Fds |-> <<>>]
    /\ handled = [c \in Clients |-> 0] /\ errno = "none" /\ stack = <<>>

-----------------------------------------------------------------------------
(* epoll (Linux) *)

\* What a descriptor is ready for now.
Poll(fd) ==
    IF fd = Listen THEN IF backlog # <<>> THEN {"IN"} ELSE {}
    ELSE LET c == peer[fd] IN
         (IF rcv[c] # <<>> \/ fin[c] THEN {"IN"} ELSE {})
         \cup (IF Len(snd[c]) < SndCap THEN {"OUT"} ELSE {})
         \cup (IF rst[c] THEN {"IN", "OUT", "ERR"} ELSE {})

Reported(fd) == Poll(fd) \cap (interest[fd] \cup {"ERR"})

\* The descriptors of client c that epoll watches for an event of E.
Watching(c, E) == {fd \in DOMAIN interest \ {Listen} :
                       peer[fd] = c /\ E \cap (interest[fd] \cup {"ERR"}) # {}}

-----------------------------------------------------------------------------
(* The clients, and what the kernel does with their packets. *)

Connect(c) ==
    /\ gone[c] = "new" /\ pc # "killed"
    /\ gone' = [gone EXCEPT ![c] = "open"]
    /\ backlog' = Append(backlog, c)
    /\ ready' = ready \cup {Listen}
    /\ UNCHANGED <<peer, rcv, snd, fin, rst, nospace, interest, sent, got, server>>

\* c is connected to the server, which has not closed its end.  When the server
\* is killed all connections end; what may still reach clients is not followed.
Attached(c) == /\ gone[c] = "open" /\ pc # "killed"
               /\ \/ \E i \in 1 .. Len(backlog) : backlog[i] = c
                  \/ \E fd \in Fds : peer[fd] = c

SendFragment(c) ==
    /\ Attached(c) /\ sent[c] < Sends[c]
    /\ sent' = [sent EXCEPT ![c] = @ + 1]
    /\ rcv' = [rcv EXCEPT ![c] = Append(@, sent[c] + 1)]
    /\ ready' = ready \cup Watching(c, {"IN"})
    /\ UNCHANGED <<backlog, peer, snd, fin, rst, nospace, interest, got, gone, server>>

\* The writer is woken only if a send has failed before.
ReadResponse(c) ==
    /\ Attached(c) /\ snd[c] # <<>>
    /\ got' = [got EXCEPT ![c] = Append(@, Head(snd[c]))]
    /\ snd' = [snd EXCEPT ![c] = Tail(@)]
    /\ nospace' = [nospace EXCEPT ![c] = FALSE]
    /\ ready' = IF nospace[c] THEN ready \cup Watching(c, {"OUT"}) ELSE ready
    /\ UNCHANGED <<backlog, peer, rcv, fin, rst, interest, sent, gone, server>>

\* An orderly close, which sends a FIN.  The server may go on sending.
Close(c) ==
    /\ Attached(c)
    /\ gone' = [gone EXCEPT ![c] = "left"]
    /\ fin' = [fin EXCEPT ![c] = TRUE]
    /\ ready' = ready \cup Watching(c, {"IN"})
    /\ UNCHANGED <<backlog, peer, rcv, snd, rst, nospace, interest, sent, got, server>>

\* What reaches a client that has closed is answered with an RST.
Rejects(c) == /\ fin[c] /\ snd[c] # <<>> /\ pc # "killed"
              /\ \E fd \in Fds : peer[fd] = c

\* An RST, also from a client that aborts, discards what has not been read.
Reset(c) ==
    /\ Attached(c) \/ Rejects(c)
    /\ gone' = [gone EXCEPT ![c] = "left"]
    /\ rst' = [rst EXCEPT ![c] = TRUE]
    /\ rcv' = [rcv EXCEPT ![c] = <<>>]
    /\ snd' = [snd EXCEPT ![c] = <<>>]
    /\ ready' = ready \cup Watching(c, {"IN", "OUT", "ERR"})
    /\ UNCHANGED <<backlog, peer, fin, nospace, interest, sent, got, server>>

-----------------------------------------------------------------------------
(* LoopOnce *)

Wait ==
    /\ pc = "wait" /\ ready # {}
    /\ \E S \in SUBSET ready :
          /\ Cardinality(S) <= Gnum
          /\ Cardinality(S) = Gnum \/ S = ready
          /\ ready' = ready \ S
          /\ batch' = {[fd |-> fd, ev |-> Reported(fd)] : fd \in {x \in S : Reported(x) # {}}}
    /\ pc' = "next"
    /\ UNCHANGED <<backlog, peer, rcv, snd, fin, rst, nospace, interest, clients, cur,
                   out, conns, inbuf, outbuf, handled, errno, stack>>

\* EPOLLERR stands for EPOLLIN | EPOLLOUT.
Wants(ev, dir) == ev \cap {dir, "ERR"} # {}

Dispatch(e) ==
    /\ pc = "next" /\ e \in batch
    /\ batch' = batch \ {e}
    /\ cur' = e.fd
    /\ out' = (Wants(e.ev, "IN") /\ Wants(e.ev, "OUT"))
    /\ pc' = CASE e.fd \notin conns -> "next"
               [] e.fd = Listen -> "accept"
               [] Wants(e.ev, "IN") /\ e.fd # Listen /\ e.fd \in conns -> "recv"
               [] OTHER -> "send"
    /\ UNCHANGED <<kernel, clients, conns, inbuf, outbuf, handled, errno, stack>>

LoopDone ==
    /\ pc = "next" /\ batch = {}
    /\ pc' = "wait"
    /\ UNCHANGED <<kernel, clients, batch, cur, out, conns, inbuf, outbuf, handled,
                   errno, stack>>

\* After _reciver: the sender is called if the event asks for it and the
\* connection still exists.
AfterReciver(existing) == IF out /\ cur \in existing THEN "send" ELSE "next"

-----------------------------------------------------------------------------
(* Accepter and AddConnection *)

FreeFds == {fd \in Fds : peer[fd] = None}

AcceptOne ==
    /\ pc = "accept" /\ backlog # <<>>
    /\ \E fd \in FreeFds :
          /\ \A lower \in FreeFds : fd <= lower
          /\ peer' = [peer EXCEPT ![fd] = Head(backlog)]
          /\ cur' = fd
    /\ backlog' = Tail(backlog)
    /\ pc' = "add"
    /\ UNCHANGED <<rcv, snd, fin, rst, nospace, interest, ready, clients, batch, out,
                   conns, inbuf, outbuf, handled, errno, stack>>

\* accept takes a descriptor before it looks at the backlog: with none left to
\* the process (or, for a time, to the system) it fails, and the loop tries again.
AcceptFails ==
    /\ pc = "accept"
    /\ errno' = IF FreeFds = {} THEN "EMFILE" ELSE "ENFILE"
    /\ UNCHANGED <<kernel, clients, pc, batch, cur, out, conns, inbuf, outbuf, handled, stack>>

AcceptDrained ==
    /\ pc = "accept" /\ FreeFds # {} /\ backlog = <<>>
    /\ errno' = "EAGAIN"
    /\ pc' = "next"
    /\ UNCHANGED <<kernel, clients, batch, cur, out, conns, inbuf, outbuf, handled, stack>>

\* Mutant: Accepter accepts one connection per event.
AddConnectionOnce ==
    /\ pc = "add"
    /\ conns' = conns \cup {cur}
    /\ inbuf' = [inbuf EXCEPT ![cur] = <<>>] /\ outbuf' = [outbuf EXCEPT ![cur] = <<>>]
    /\ interest' = [fd \in DOMAIN interest \cup {cur} |->
                        IF fd = cur THEN {"IN"} ELSE interest[fd]]
    /\ ready' = IF "IN" \in Poll(cur) THEN ready \cup {cur} ELSE ready
    /\ cur' = Listen /\ pc' = "next"
    /\ UNCHANGED <<backlog, peer, rcv, snd, fin, rst, nospace, clients, batch, out,
                   handled, errno, stack>>

AddConnection ==
    /\ pc = "add"
    /\ conns' = conns \cup {cur}
    /\ inbuf' = [inbuf EXCEPT ![cur] = <<>>] /\ outbuf' = [outbuf EXCEPT ![cur] = <<>>]
    /\ interest' = [fd \in DOMAIN interest \cup {cur} |->
                        IF fd = cur THEN {"IN"} ELSE interest[fd]]
    /\ ready' = IF Poll(cur) \cap {"IN", "ERR"} # {} THEN ready \cup {cur} ELSE ready
    /\ cur' = Listen /\ pc' = "accept"
    /\ UNCHANGED <<backlog, peer, rcv, snd, fin, rst, nospace, clients, batch, out,
                   handled, errno, stack>>

-----------------------------------------------------------------------------
(* Excepter: the connection is taken out of epoll, of _connections and out *)
(* of the process.                                                         *)

\* Mutant: the connection stays in _connections.
ExcepterKeepsEntry ==
    /\ interest' = [fd \in DOMAIN interest \ {cur} |-> interest[fd]]
    /\ ready' = ready \ {cur}
    /\ conns' = conns
    /\ peer' = [peer EXCEPT ![cur] = None]
    /\ inbuf' = [inbuf EXCEPT ![cur] = <<>>] /\ outbuf' = [outbuf EXCEPT ![cur] = <<>>]

Excepter ==
    /\ interest' = [fd \in DOMAIN interest \ {cur} |-> interest[fd]]
    /\ ready' = ready \ {cur}
    /\ conns' = conns \ {cur}
    /\ peer' = [peer EXCEPT ![cur] = None]
    /\ inbuf' = [inbuf EXCEPT ![cur] = <<>>] /\ outbuf' = [outbuf EXCEPT ![cur] = <<>>]

-----------------------------------------------------------------------------
(* Reciver: HandleRecive, HandleRequest, one attempt to send *)

\* recv returns the first n fragments.  The text appended to _inbuffer ends at
\* the first 0 of the local array, which need not be the byte after them, for
\* `buffer[n] == 0' is a comparison.
RecvSome ==
    /\ pc = "recv" /\ ~ rst[peer[cur]]
    /\ \E n \in 1 .. Len(rcv[peer[cur]]) :
         LET c == peer[cur]
             chunk == SubSeq(rcv[c], 1, n)
             whole == chunk \o SubSeq(stack, n + 1, Len(stack))
         IN /\ rcv' = [rcv EXCEPT ![c] = SubSeq(@, n + 1, Len(@))]
            /\ stack' = IF StaleTail THEN whole ELSE <<>>
            /\ \E text \in {chunk} \cup (IF StaleTail THEN {whole} ELSE {}) :
                   inbuf' = [inbuf EXCEPT ![cur] = @ \o text]
    /\ UNCHANGED <<backlog, peer, snd, fin, rst, nospace, interest, ready, clients, pc,
                   batch, cur, out, conns, outbuf, handled, errno>>

\* End of stream, or a reset: the callback ends with the connection.
RecvClosed ==
    /\ pc = "recv"
    /\ LET c == peer[cur] IN
          /\ rst[c] \/ (fin[c] /\ rcv[c] = <<>>)
          /\ errno' = IF fin[c] THEN errno ELSE "ECONNRESET"
    /\ Excepter
    /\ pc' = AfterReciver(conns')
    /\ UNCHANGED <<backlog, rcv, snd, fin, rst, nospace, clients, batch, cur, out,
                   handled, stack>>

RecvDrained ==
    /\ pc = "recv"
    /\ LET c == peer[cur] IN rcv[c] = <<>> /\ ~ fin[c] /\ ~ rst[c]
    /\ errno' = "EAGAIN"
    /\ pc' = "handle"
    /\ UNCHANGED <<kernel, clients, batch, cur, out, conns, inbuf, outbuf, handled, stack>>

\* Every complete package is taken out of _inbuffer and answered.
HandleRequest ==
    /\ pc = "handle"
    /\ LET c == peer[cur]
           n == Len(inbuf[cur]) \div 2
       IN /\ inbuf' = [inbuf EXCEPT ![cur] = SubSeq(@, 2 * n + 1, Len(@))]
          /\ outbuf' = [outbuf EXCEPT ![cur] = @ \o [i \in 1 .. n |-> handled[c] + i]]
          /\ handled' = [handled EXCEPT ![c] = @ + n]
          /\ pc' = IF outbuf'[cur] # <<>> THEN "reply" ELSE AfterReciver(conns)
    /\ UNCHANGED <<kernel, clients, batch, cur, out, conns, errno, stack>>

-----------------------------------------------------------------------------
(* Sender, called by Reciver (at "reply") or by LoopOnce (at "send") *)

Sending == pc \in {"reply", "send"}

\* Where the callback goes on when the sender returns.
AfterSender(existing) == IF pc = "reply" THEN AfterReciver(existing) ELSE "next"

\* Mutant: what was written is not erased from _outbuffer.
SendSomeNoErase ==
    /\ Sending /\ ~ rst[peer[cur]] /\ outbuf[cur] # <<>>
    /\ LET c == peer[cur]
           space == SndCap - Len(snd[c])
           n == IF Len(outbuf[cur]) < space THEN Len(outbuf[cur]) ELSE space
       IN /\ n > 0
          /\ snd' = [snd EXCEPT ![c] = @ \o SubSeq(outbuf[cur], 1, n)]
          /\ outbuf' = outbuf
          /\ pc' = IF outbuf'[cur] = <<>> THEN IF pc = "reply" THEN "reply_mod" ELSE "mod" ELSE pc
    /\ UNCHANGED <<backlog, peer, rcv, fin, rst, nospace, interest, ready, clients,
                   batch, cur, out, conns, inbuf, handled, errno, stack>>

SendSome ==
    /\ Sending /\ ~ rst[peer[cur]] /\ outbuf[cur] # <<>>
    /\ LET c == peer[cur]
           space == SndCap - Len(snd[c])
           n == IF Len(outbuf[cur]) < space THEN Len(outbuf[cur]) ELSE space
       IN /\ n > 0
          /\ snd' = [snd EXCEPT ![c] = @ \o SubSeq(outbuf[cur], 1, n)]
          /\ outbuf' = [outbuf EXCEPT ![cur] = SubSeq(@, n + 1, Len(@))]
          /\ pc' = IF outbuf'[cur] = <<>> THEN IF pc = "reply" THEN "reply_mod" ELSE "mod" ELSE pc
    /\ UNCHANGED <<backlog, peer, rcv, fin, rst, nospace, interest, ready, clients,
                   batch, cur, out, conns, inbuf, handled, errno, stack>>

\* Mutant: a full socket is taken for an error.
SendFullCloses ==
    /\ Sending /\ ~ rst[peer[cur]] /\ outbuf[cur] # <<>>
    /\ Len(snd[peer[cur]]) = SndCap
    /\ errno' = "EAGAIN"
    /\ nospace' = [nospace EXCEPT ![peer[cur]] = TRUE]
    /\ Excepter
    /\ pc' = AfterSender(conns')
    /\ UNCHANGED <<backlog, rcv, snd, fin, rst, clients, batch, cur, out, handled, stack>>

SendFull ==
    /\ Sending /\ ~ rst[peer[cur]] /\ outbuf[cur] # <<>>
    /\ Len(snd[peer[cur]]) = SndCap
    /\ errno' = "EAGAIN"
    /\ nospace' = [nospace EXCEPT ![peer[cur]] = TRUE]
    /\ pc' = IF pc = "reply" THEN "reply_mod" ELSE "mod"
    /\ UNCHANGED <<backlog, peer, rcv, snd, fin, rst, interest, ready, clients, batch,
                   cur, out, conns, inbuf, outbuf, handled, stack>>

\* send of nothing returns 0 and leaves errno alone: what happens next depends
\* on the error of some earlier call.
SendNothing ==
    /\ Sending /\ ~ rst[peer[cur]] /\ outbuf[cur] = <<>>
    /\ IF errno = "EAGAIN"
       THEN /\ pc' = IF pc = "reply" THEN "reply_mod" ELSE "mod"
            /\ UNCHANGED <<peer, interest, ready, conns, inbuf, outbuf>>
       ELSE /\ Excepter
            /\ pc' = AfterSender(conns')
    /\ UNCHANGED <<backlog, rcv, snd, fin, rst, nospace, clients, batch, cur, out,
                   handled, errno, stack>>

\* Mutant: Sender goes on after Excepter has deleted the connection.
SendErrorGoesOn ==
    /\ Sending /\ rst[peer[cur]] /\ ~ fin[peer[cur]]
    /\ errno' = "ECONNRESET"
    /\ Excepter
    /\ pc' = IF pc = "reply" THEN "reply_mod" ELSE "mod"
    /\ UNCHANGED <<backlog, rcv, snd, fin, rst, nospace, clients, batch, cur, out,
                   handled, stack>>

SendError ==
    /\ Sending /\ rst[peer[cur]] /\ ~ fin[peer[cur]]
    /\ errno' = "ECONNRESET"
    /\ Excepter
    /\ pc' = AfterSender(conns')
    /\ UNCHANGED <<backlog, rcv, snd, fin, rst, nospace, clients, batch, cur, out,
                   handled, stack>>

\* send after an RST that followed a FIN: EPIPE, and with it SIGPIPE, which the
\* program leaves at its default.
SendKilled ==
    /\ Sending /\ rst[peer[cur]] /\ fin[peer[cur]]
    /\ pc' = "killed"
    /\ UNCHANGED <<kernel, clients, batch, cur, out, conns, inbuf, outbuf, handled, errno, stack>>

\* Mutant: EPOLLOUT is never registered.
EnableReadOnly ==
    /\ pc \in {"reply_mod", "mod"}
    /\ interest' = [interest EXCEPT ![cur] = {"IN"}]
    /\ ready' = IF Poll(cur) \cap (interest'[cur] \cup {"ERR"}) # {}
                THEN ready \cup {cur} ELSE ready
    /\ pc' = IF pc = "reply_mod" THEN AfterReciver(conns) ELSE "next"
    /\ UNCHANGED <<backlog, peer, rcv, snd, fin, rst, nospace, clients, batch, cur, out,
                   conns, inbuf, outbuf, handled, errno, stack>>

\* EPOLL_CTL_MOD looks at the socket again, so that space that came free since
\* the last send is reported.
EnableReadWrite ==
    /\ pc \in {"reply_mod", "mod"}
    /\ interest' = [interest EXCEPT ![cur] =
                        {"IN"} \cup (IF outbuf[cur] # <<>> THEN {"OUT"} ELSE {})]
    /\ ready' = IF Poll(cur) \cap (interest'[cur] \cup {"ERR"}) # {}
                THEN ready \cup {cur} ELSE ready
    /\ pc' = IF pc = "reply_mod" THEN AfterReciver(conns) ELSE "next"
    /\ UNCHANGED <<backlog, peer, rcv, snd, fin, rst, nospace, clients, batch, cur, out,
                   conns, inbuf, outbuf, handled, errno, stack>>

-----------------------------------------------------------------------------
ServerStep == \/ Wait \/ LoopDone \/ \E e \in batch : Dispatch(e)
              \/ AcceptOne \/ AcceptFails \/ AcceptDrained \/ AddConnection
              \/ RecvSome \/ RecvClosed \/ RecvDrained \/ HandleRequest
              \/ SendSome \/ SendFull \/ SendNothing \/ SendError \/ SendKilled
              \/ EnableReadWrite

ClientStep(c) == \/ Connect(c) \/ SendFragment(c) \/ ReadResponse(c)
                 \/ Close(c) \/ Reset(c)

Next == ServerStep \/ \E c \in Clients : ClientStep(c)

Spec == Init /\ [][Next]_vars

\* The server keeps running and connected clients keep reading; nothing else
\* that clients do is taken for granted.
FairSpec == /\ Spec
            /\ WF_vars(ServerStep)
            /\ \A c \in Clients : WF_vars(ReadResponse(c))

-----------------------------------------------------------------------------
Open == {fd \in Fds : peer[fd] # None}

(***************************************************************************)
(* The comment at the end of Excepter: after it the connection must not be *)
(* touched.  Whatever callback runs, the connection it works on is alive.  *)
(***************************************************************************)
NoUseAfterFree ==
    pc \in {"recv", "handle", "reply", "send", "reply_mod", "mod"} => cur \in conns

(***************************************************************************)
(* Between callbacks _connections, epoll and the process agree on which    *)
(* connections exist: none is leaked and none is registered but unknown.   *)
(***************************************************************************)
ConnectionsAgree ==
    pc # "add" => /\ conns = Open \cup {Listen}
                  /\ DOMAIN interest = conns

(***************************************************************************)
(* Edge-triggered mode gives one event per change, so when the reactor     *)
(* goes back to epoll_wait nothing it could do may be left without an      *)
(* event: no connection to accept, nothing to read, no free space for      *)
(* what is still to be sent.  EPOLLOUT is registered when not everything   *)
(* could be sent and removed when everything is (8.11/epollServer.2/info). *)
(***************************************************************************)
NothingStranded ==
    pc = "wait" =>
        /\ backlog # <<>> => Listen \in ready
        /\ \A fd \in Open :
              /\ "IN" \in Poll(fd) => fd \in ready
              /\ outbuf[fd] # <<>> /\ "OUT" \in Poll(fd) => fd \in ready
              /\ Len(inbuf[fd]) < 2
              /\ "OUT" \in interest[fd] <=> outbuf[fd] # <<>>

(***************************************************************************)
(* What a client has received, what is in the socket and what is in        *)
(* _outbuffer are together the responses to its requests, each once and in *)
(* order, however the writes were cut.                                     *)
(***************************************************************************)
RepliesInOrder ==
    \A fd \in Open :
        LET c == peer[fd] IN
        ~ rst[c] /\ fd \in conns =>
            got[c] \o snd[c] \o outbuf[fd] = [i \in 1 .. handled[c] |-> i]

(***************************************************************************)
(* A connection is only given up when its client has closed or reset it:   *)
(* neither a full socket, nor a sender called with nothing to send (which  *)
(* then looks at an errno that some earlier call has set), ends it.        *)
(***************************************************************************)
ClosedOnlyIfPeerGone ==
    [][\A fd \in conns \ conns' : fin[peer[fd]] \/ rst[peer[fd]]]_vars

(***************************************************************************)
(* Nobody handles SIGPIPE, so a client that leaves may end the server for  *)
(* everybody: by a FIN, if the server sends to it twice before it looks at *)
(* the end of the stream (epollServer.hpp:267).  But a client that reads   *)
(* the responses to all its requests before it closes never does that, and *)
(* neither does one that resets the connection.                            *)
(***************************************************************************)
KilledOnlyByUnread ==
    pc = "killed" => fin[peer[cur]] /\ Len(got[peer[cur]]) < handled[peer[cur]]

(***************************************************************************)
(* Every request a client has sent completely is answered, if it stays,    *)
(* unless the process has run out of descriptors and accept never returns, *)
(* or another client, which closed with responses unread, has ended it.    *)
(***************************************************************************)
OutOfFds == pc = "accept" /\ FreeFds = {}

Answered ==
    \A c \in Clients : \A r \in 1 .. Sends[c] \div 2 :
        (gone[c] = "open" /\ sent[c] >= 2 * r)
            ~> (gone[c] = "left" \/ Len(got[c]) >= r \/ OutOfFds \/ pc = "killed")

(***************************************************************************)
(* epollServer.hpp:342: requestStr is one whole package, header and        *)
(* payload.  It is cut from the front of _inbuffer, so what _inbuffer holds*)
(* must be a piece of what the client sent.                                *)
(***************************************************************************)
InputIntact ==
    \A fd \in conns \ {Listen} :
        \A i \in 1 .. Len(inbuf[fd]) - 1 : inbuf[fd][i + 1] = inbuf[fd][i] + 1
=============================================================================
