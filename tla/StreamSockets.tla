--------------------------- MODULE StreamSockets ---------------------------
(***************************************************************************)
(* What the single-threaded servers of 8.6 and 8.7 see of the kernel and   *)
(* of their clients: blocking stream sockets.  A unit is what one recv of  *)
(* at most 1023 bytes can take; several units may be taken together, and   *)
(* the reply to them counts them.  The server's calls are operators that   *)
(* its modules use; the steps of the clients are actions.                  *)
(***************************************************************************)
EXTENDS Integers, Sequences, FiniteSets

CONSTANTS
    Clients,   \* each connects at most once
    NumFds,    \* how many connections the process can hold
    Sends,     \* Sends[c]: how many units client c sends at most
    Leavers,   \* the clients that may leave; the others stay
    SndCap,    \* how many replies fit into a socket's send buffer
    NoClient

ASSUME StreamSocketsAssumption ==
    /\ IsFiniteSet(Clients) /\ NoClient \notin Clients
    /\ NumFds \in Nat \ {0} /\ SndCap \in Nat \ {0}
    /\ Sends \in [Clients -> Nat] /\ Leavers \subseteq Clients

Listen == 0
Fds == 1 .. NumFds

VARIABLES
    backlog,  \* the clients connected and not accepted, oldest first
    peer,     \* peer[fd]: the client at the other end of an open descriptor
    rcv,      \* rcv[c]: how many units of c wait to be read
    snd,      \* snd[c]: the replies c has not read yet
    link,     \* link[c]: "up"; "fin": c has closed; "reset", "pipe": an RST
              \* (after a FIN) is to be reported; "dead": it has been
    gone,     \* gone[c]: "new", "open", "left" or "refused"
    sent,     \* sent[c]: how many units c has sent
    got       \* got[c]: how many of them the replies c has read account for

sockets == <<backlog, peer, rcv, snd, link, gone, sent, got>>

SocketsInit ==
    /\ backlog = <<>> /\ peer = [fd \in Fds |-> NoClient]
    /\ rcv = [c \in Clients |-> 0] /\ snd = [c \in Clients |-> <<>>]
    /\ link = [c \in Clients |-> "up"] /\ gone = [c \in Clients |-> "new"]
    /\ sent = [c \in Clients |-> 0] /\ got = [c \in Clients |-> 0]

Open == {fd \in Fds : peer[fd] # NoClient}

\* Would recv on fd (accept on Listen) return at once?
Readable(fd) == IF fd = Listen THEN backlog # <<>>
                ELSE rcv[peer[fd]] > 0 \/ link[peer[fd]] # "up"

-----------------------------------------------------------------------------
(* The clients *)

Connect(c) ==
    /\ gone[c] = "new"
    /\ gone' = [gone EXCEPT ![c] = "open"]
    /\ backlog' = Append(backlog, c)
    /\ UNCHANGED <<peer, rcv, snd, link, sent, got>>

SendUnit(c) ==
    /\ gone[c] = "open" /\ sent[c] < Sends[c]
    /\ sent' = [sent EXCEPT ![c] = @ + 1]
    /\ rcv' = [rcv EXCEPT ![c] = @ + 1]
    /\ UNCHANGED <<backlog, peer, snd, link, gone, got>>

ReadReply(c) ==
    /\ gone[c] = "open" /\ snd[c] # <<>>
    /\ got' = [got EXCEPT ![c] = @ + Head(snd[c])]
    /\ snd' = [snd EXCEPT ![c] = Tail(@)]
    /\ UNCHANGED <<backlog, peer, rcv, link, gone, sent>>

\* c leaves, with a FIN if it has read everything, with an RST otherwise or if
\* it aborts.  What it has sent can still be read.
Leave(c) ==
    /\ c \in Leavers /\ gone[c] = "open"
    /\ gone' = [gone EXCEPT ![c] = "left"]
    /\ \E l \in {"reset"} \cup (IF snd[c] = <<>> THEN {"fin"} ELSE {}) :
          link' = [link EXCEPT ![c] = l]
    /\ snd' = [snd EXCEPT ![c] = <<>>]
    /\ UNCHANGED <<backlog, peer, rcv, sent, got>>

ClientStep(c) == Connect(c) \/ SendUnit(c) \/ ReadReply(c) \/ Leave(c)

-----------------------------------------------------------------------------
(* The server's calls *)

\* accept: the oldest connection gets the lowest free descriptor.
AcceptAs(fd) ==
    /\ backlog # <<>> /\ fd \in Fds \ Open /\ \A lower \in Fds \ Open : fd <= lower
    /\ peer' = [peer EXCEPT ![fd] = Head(backlog)]
    /\ backlog' = Tail(backlog)
    /\ UNCHANGED <<rcv, snd, link, gone, sent, got>>

\* accept, and then close: the client finds itself refused.
Refuse ==
    /\ backlog # <<>>
    /\ backlog' = Tail(backlog)
    /\ gone' = [gone EXCEPT ![Head(backlog)] = IF @ = "open" THEN "refused" ELSE @]
    /\ UNCHANGED <<peer, rcv, snd, link, sent, got>>

\* sock::Accept returns -1: no descriptor is left, in the process or in the
\* system, or the length it passes to accept, which it never sets, is negative;
\* then the kernel has accepted the connection and drops it.
AcceptError ==
    /\ backlog # <<>>
    /\ UNCHANGED sockets \/ Refuse

RecvUnits(fd, k) ==
    /\ k \in 1 .. rcv[peer[fd]]
    /\ rcv' = [rcv EXCEPT ![peer[fd]] = @ - k]
    /\ UNCHANGED <<backlog, peer, snd, link, gone, sent, got>>

\* recv returns 0 or -1, and the server closes the descriptor.
RecvEndClose(fd) ==
    /\ rcv[peer[fd]] = 0 /\ link[peer[fd]] # "up"
    /\ peer' = [peer EXCEPT ![fd] = NoClient]
    /\ link' = [link EXCEPT ![peer[fd]] = "dead"]
    /\ UNCHANGED <<backlog, rcv, snd, gone, sent, got>>

\* send blocks while the buffer is full.
Sent(fd, k) ==
    LET c == peer[fd] IN
    /\ link[c] = "up" /\ Len(snd[c]) < SndCap
    /\ snd' = [snd EXCEPT ![c] = Append(@, k)]
    /\ UNCHANGED <<backlog, peer, rcv, link, gone, sent, got>>

\* The client has left: it may answer what is sent with an RST, and an RST that
\* has come in makes send fail.
SentToNobody(fd) ==
    LET c == peer[fd] IN
    /\ \/ link[c] = "fin" /\ \E l \in {"fin", "pipe"} : link' = [link EXCEPT ![c] = l]
       \/ link[c] = "reset" /\ link' = [link EXCEPT ![c] = "dead"]
    /\ UNCHANGED <<backlog, peer, rcv, snd, gone, sent, got>>

\* SIGPIPE, which nobody handles, ends the process.
BrokenPipe(fd) == link[peer[fd]] \in {"pipe", "dead"} /\ UNCHANGED sockets
=============================================================================
