------------------------------ MODULE UdpChat ------------------------------
(***************************************************************************)
(* 7.17/v2_udp_socket_: the chat server.  One thread receives datagrams,   *)
(* registers the sender in _user_map and pushes the message into a ring;   *)
(* the other pops messages and sends each to every user registered at that *)
(* moment.  main starts both threads and at once destroys the server,      *)
(* which destroys _lock and then waits for threads that never end.         *)
(*                                                                         *)
(* The ring is the bounded queue that RingQueue is shown to implement.     *)
(* The network may lose, repeat and reorder datagrams: any user's datagram *)
(* may be the next to arrive.  Messages are numbered as they arrive.       *)
(***************************************************************************)
EXTENDS Integers, Sequences, FiniteSets

CONSTANTS Users,        \* the clients' addresses
          Capacity,     \* the slots of _rq
          MaxMessages   \* bound: datagrams that arrive

ASSUME UdpChatAssumption ==
    Capacity \in Nat \ {0} /\ MaxMessages \in Nat /\ IsFiniteSet(Users)

Recv == "recv_th"
Broad == "broad_th"
Messages == 1 .. MaxMessages
NoMessage == 0

VARIABLES
    mpc, rpc, bpc,   \* where main, _recv_th and _broad_th are
    queue, in, out,  \* _rq, see BoundedFifo
    user_map,        \* the users in _user_map
    holders,         \* the threads between lock and unlock of _lock
    destroyed,       \* has _lock been destroyed?
    torn,            \* has _user_map been read while it was being written?
    from,            \* from[m]: the sender of the m-th message
    owed,            \* owed[m]: the users registered when m was pushed
    msg,             \* the message _broad_th works on
    v,               \* the users it has still to send it to
    told             \* told[m]: the users m was sent to

rq == <<queue, in, out>>
chat_vars == <<mpc, rpc, bpc, rq, user_map, holders, destroyed, torn, from, owed, msg, v, told>>

Queue == INSTANCE BoundedFifo
         WITH Producers <- {Recv}, Consumers <- {Broad}, Items <- Messages, None <- NoMessage

ChatInit == /\ mpc = "run_recv" /\ rpc = "none" /\ bpc = "none"
        /\ Queue!Init
        /\ user_map = {} /\ holders = {} /\ destroyed = FALSE /\ torn = FALSE
        /\ from = <<>> /\ owed = <<>> /\ msg = NoMessage /\ v = {} /\ told = <<>>

Alive == mpc # "crashed"

-----------------------------------------------------------------------------
(* main: server_start, then ~udp_server *)

\* Thread::run only prints that pthread_create has failed.
RunRecv ==
    /\ mpc = "run_recv" /\ mpc' = "run_broad"
    /\ rpc' \in {"recvfrom", "none"}
    /\ UNCHANGED <<bpc, rq, user_map, holders, destroyed, torn, from, owed, msg, v, told>>

RunBroad ==
    /\ mpc = "run_broad" /\ mpc' = "destroy"
    /\ bpc' \in {"pop", "none"}
    /\ UNCHANGED <<rpc, rq, user_map, holders, destroyed, torn, from, owed, msg, v, told>>

\* pthread_mutex_destroy fails with EBUSY while the mutex is held.
DestroyLock ==
    /\ mpc = "destroy" /\ mpc' = "join"
    /\ destroyed' = (holders = {})
    /\ UNCHANGED <<rpc, bpc, rq, user_map, holders, torn, from, owed, msg, v, told>>

\* The threads never end.  The join of one that was never created is a use of
\* the thread identifier 0, which ends the process.
JoinRecv ==
    /\ mpc = "join" /\ rpc = "none"
    /\ mpc' = "crashed"
    /\ UNCHANGED <<rpc, bpc, rq, user_map, holders, destroyed, torn, from, owed, msg, v, told>>

-----------------------------------------------------------------------------
(* _lock *)

\* A destroyed mutex is refused (EINVAL), which LockGuard does not look at.
Lock(t) == /\ destroyed \/ holders = {}
           /\ holders' = holders \cup {t}
           /\ torn' = (torn \/ holders # {})

Unlock(t) == holders' = holders \ {t} /\ UNCHANGED torn

-----------------------------------------------------------------------------
(* server_recive *)

\* A datagram of user u arrives (an empty one, or an error, changes nothing).
RecvFrom(u) ==
    /\ Alive /\ rpc = "recvfrom" /\ Len(from) < MaxMessages
    /\ from' = Append(from, u)
    /\ rpc' = "lock"
    /\ UNCHANGED <<mpc, bpc, rq, user_map, holders, destroyed, torn, owed, msg, v, told>>

AddUserLock ==
    /\ Alive /\ rpc = "lock" /\ rpc' = "insert"
    /\ Lock(Recv)
    /\ UNCHANGED <<mpc, bpc, rq, user_map, destroyed, from, owed, msg, v, told>>

AddUser ==
    /\ Alive /\ rpc = "insert" /\ rpc' = "unlock"
    /\ user_map' = user_map \cup {from[Len(from)]}
    /\ UNCHANGED <<mpc, bpc, rq, holders, destroyed, torn, from, owed, msg, v, told>>

AddUserUnlock ==
    /\ Alive /\ rpc = "unlock" /\ rpc' = "push"
    /\ Unlock(Recv)
    /\ UNCHANGED <<mpc, bpc, rq, user_map, destroyed, from, owed, msg, v, told>>

PushCall ==
    /\ Alive /\ rpc = "push" /\ rpc' = "pushing"
    /\ Queue!Call(Recv, Len(from))
    /\ UNCHANGED <<mpc, bpc, user_map, holders, destroyed, torn, from, owed, msg, v, told>>

\* Mutant: a full ring drops the message.
PushInsertOrDrop ==
    /\ Alive /\ rpc = "pushing" /\ rpc' = "recvfrom"
    /\ \/ Queue!Insert(Recv)
       \/ Len(queue) = Capacity /\ in' = [in EXCEPT ![Recv] = NoMessage] /\ UNCHANGED <<queue, out>>
    /\ owed' = Append(owed, user_map) /\ told' = Append(told, {})
    /\ UNCHANGED <<mpc, bpc, user_map, holders, destroyed, torn, from, msg, v>>

\* Blocks while the ring is full.
PushInsert ==
    /\ Alive /\ rpc = "pushing" /\ rpc' = "recvfrom"
    /\ Queue!Insert(Recv)
    /\ owed' = Append(owed, user_map) /\ told' = Append(told, {})
    /\ UNCHANGED <<mpc, bpc, user_map, holders, destroyed, torn, from, msg, v>>

-----------------------------------------------------------------------------
(* server_broadcast *)

PopRemove ==
    /\ Alive /\ bpc = "pop" /\ bpc' = "popped"
    /\ Queue!Remove(Broad)
    /\ UNCHANGED <<mpc, rpc, user_map, holders, destroyed, torn, from, owed, msg, v, told>>

PopReturn ==
    /\ Alive /\ bpc = "popped" /\ bpc' = "lock"
    /\ msg' = out[Broad]
    /\ Queue!Return(Broad)
    /\ UNCHANGED <<mpc, rpc, user_map, holders, destroyed, torn, from, owed, v, told>>

CopyLock ==
    /\ Alive /\ bpc = "lock" /\ bpc' = "copy"
    /\ Lock(Broad)
    /\ UNCHANGED <<mpc, rpc, rq, user_map, destroyed, from, owed, msg, v, told>>

\* Mutant: the users are copied for the first message only.
CopyUsersOnce ==
    /\ Alive /\ bpc = "copy" /\ bpc' = "unlock"
    /\ v' = IF msg = 1 THEN user_map ELSE told[1]
    /\ UNCHANGED <<mpc, rpc, rq, user_map, holders, destroyed, torn, from, owed, msg, told>>

\* A map that is being written while it is copied may yield anything.
CopyUsers ==
    /\ Alive /\ bpc = "copy" /\ bpc' = "unlock"
    /\ IF Recv \in holders THEN v' \in SUBSET Users ELSE v' = user_map
    /\ UNCHANGED <<mpc, rpc, rq, user_map, holders, destroyed, torn, from, owed, msg, told>>

CopyUnlock ==
    /\ Alive /\ bpc = "unlock" /\ bpc' = "send"
    /\ Unlock(Broad)
    /\ UNCHANGED <<mpc, rpc, rq, user_map, destroyed, from, owed, msg, v, told>>

SendTo(u) ==
    /\ Alive /\ bpc = "send" /\ u \in v
    /\ v' = v \ {u}
    /\ told' = [told EXCEPT ![msg] = @ \cup {u}]
    /\ UNCHANGED <<mpc, rpc, bpc, rq, user_map, holders, destroyed, torn, from, owed, msg>>

SentToAll ==
    /\ Alive /\ bpc = "send" /\ v = {} /\ bpc' = "pop"
    /\ msg' = NoMessage
    /\ UNCHANGED <<mpc, rpc, rq, user_map, holders, destroyed, torn, from, owed, v, told>>

-----------------------------------------------------------------------------
Main == RunRecv \/ RunBroad \/ DestroyLock \/ JoinRecv

\* What _recv_th does once a datagram has arrived.
ReciveStep == AddUserLock \/ AddUser \/ AddUserUnlock \/ PushCall \/ PushInsert

BroadcastStep == \/ PopRemove \/ PopReturn \/ CopyLock \/ CopyUsers \/ CopyUnlock
                 \/ SentToAll \/ \E u \in Users : SendTo(u)

ChatNext == Main \/ (\E u \in Users : RecvFrom(u)) \/ ReciveStep \/ BroadcastStep

ChatSpec == ChatInit /\ [][ChatNext]_chat_vars

\* The threads keep running; nothing is assumed of the network.
ChatFairSpec ==
    ChatSpec /\ WF_chat_vars(Main) /\ WF_chat_vars(ReciveStep) /\ WF_chat_vars(BroadcastStep)

-----------------------------------------------------------------------------
(***************************************************************************)
(* 7.17/v2_udp_socket_/info: the messages of one host are seen by all.     *)
(* When the broadcast of a message is over it has been sent to its sender  *)
(* and to everybody who was registered when it was pushed, also if users   *)
(* were registered meanwhile (unless the map was torn).                    *)
(***************************************************************************)
Finished(m) == /\ m \in 1 .. Len(told)
               /\ m # msg /\ m # out[Broad] /\ \A i \in 1 .. Len(queue) : queue[i] # m

AllTold ==
    ~ torn => \A m \in Messages : Finished(m) => owed[m] \cup {from[m]} \subseteq told[m]

(***************************************************************************)
(* Every datagram that arrives is broadcast to its sender in the end: the  *)
(* two threads never wait for each other for ever, though the ring is full *)
(* and _lock is held by either.                                            *)
(***************************************************************************)
Echoed ==
    \A m \in Messages :
        (Len(from) >= m /\ bpc # "none")
            ~> (torn \/ (Len(told) >= m /\ from[m] \in told[m]))

(***************************************************************************)
(* udp_server.hpp:135: add_user locks so that the map is thread-safe.      *)
(***************************************************************************)
MapExclusive == ~ (rpc = "insert" /\ bpc = "copy")
=============================================================================
