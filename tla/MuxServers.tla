----------------------------- MODULE MuxServers -----------------------------
(***************************************************************************)
(* The single-threaded servers of 8.6 and 8.7, each with the same clients: *)
(* kind says which one runs.  They promise the same: one thread that makes *)
(* blocking calls serves every client, because it only ever makes a call   *)
(* that returns.                                                           *)
(***************************************************************************)
EXTENDS StreamSockets

CONSTANTS fd_size, N    \* the slots of the two arrays

ASSUME MuxServersAssumption == {fd_size, N} \subseteq Nat \ {0, 1}

VARIABLES kind, pc, fd_array, pos, reported, units, watched, fd

arrays == <<fd_array, pos>>
sets == <<watched, fd>>
vars == <<sockets, kind, pc, arrays, reported, units, sets>>

Sel == INSTANCE SelectServer
Pol == INSTANCE PollServer
Epl == INSTANCE EpollLTServer

Init == /\ SocketsInit
        /\ \/ kind = "select" /\ Sel!ServerInit /\ watched = {} /\ fd = Listen
           \/ kind = "poll" /\ Pol!ServerInit /\ watched = {} /\ fd = Listen
           \/ kind = "epoll" /\ Epl!ServerInit /\ fd_array = <<>> /\ pos = 0

ServerStep == /\ UNCHANGED kind
              /\ \/ kind = "select" /\ Sel!ServerStep /\ UNCHANGED sets
                 \/ kind = "poll" /\ Pol!ServerStep /\ UNCHANGED sets
                 \/ kind = "epoll" /\ Epl!ServerStep /\ UNCHANGED arrays

SomeClient == \E c \in Clients : ClientStep(c) /\ pc # "killed"

Next == \/ ServerStep
        \/ SomeClient /\ UNCHANGED <<kind, pc, arrays, reported, units, sets>>

Spec == Init /\ [][Next]_vars

\* The server keeps running and clients that stay read their replies.
FairSpec == /\ Spec
            /\ WF_vars(ServerStep)
            /\ \A c \in Clients :
                  WF_vars(ReadReply(c) /\ UNCHANGED <<kind, pc, arrays, reported, units, sets>>)

-----------------------------------------------------------------------------
Watches(x) == CASE kind = "select" -> Sel!Watches(x)
                [] kind = "poll"   -> Pol!Watches(x)
                [] kind = "epoll"  -> Epl!Watches(x)

Serving == CASE kind = "select" -> Sel!Serving
             [] kind = "poll"   -> Pol!Serving
             [] kind = "epoll"  -> Epl!Serving

(***************************************************************************)
(* The sockets are blocking and there is one thread, so a recv or accept   *)
(* on a descriptor with nothing to report would stop the server for all.   *)
(* It never makes such a call, although what was reported is used after    *)
(* other connections of the same round were accepted and closed, and their *)
(* descriptors given away again.                                           *)
(***************************************************************************)
NeverBlocks ==
    /\ pc = "accept" => Readable(Listen)
    /\ pc = "recv" => Serving \in Open /\ Readable(Serving)

(***************************************************************************)
(* The server watches, with the listening socket, exactly the descriptors  *)
(* that are open: none is lost (a leak that is never served), none is      *)
(* watched after it was closed (it may soon be somebody else's), none is   *)
(* watched twice.                                                          *)
(***************************************************************************)
WatchesOpen ==
    /\ Watches(Listen)
    /\ \A x \in Fds : Watches(x) <=> x \in Open
    /\ kind = "select" => Sel!NoTwice
    /\ kind = "poll" => Pol!NoTwice

(***************************************************************************)
(* What an accepted client has sent is answered, whatever the others do,   *)
(* unless it leaves or the server is killed by a client that has left with *)
(* data unanswered.                                                        *)
(***************************************************************************)
Served ==
    \A c \in Clients : \A k \in 1 .. Sends[c] :
        (sent[c] >= k /\ \E x \in Fds : peer[x] = c)
            ~> (got[c] >= k \/ gone[c] # "open" \/ pc = "killed")
=============================================================================
