------------------------------ MODULE Programs ------------------------------
(***************************************************************************)
(* The small programs of the repository, side by side: family says which   *)
(* module's program runs, and that module's variables are the only ones    *)
(* that change (pc is every program's control state).                      *)
(***************************************************************************)
EXTENDS Tickets

CONSTANTS UdpClients, MaxLines, MaxDups,                            \* UdpEcho
          Writers, BufferSize, MaxTyped, MaxQueued,                 \* NamedPipe
          ShmServers, ShmClients, None,                             \* SharedMemory
          CHILD_NUM, MaxWritten, MaxForks,                          \* Orphans, Reaper
          Rounds, MaxSignals, Waiters, Lines                        \* Signals, ThreadDemos

ASSUME ProgramsAssumption ==
    /\ {NUM, MaxTickets, Lines} \subseteq Nat /\ BufferSize \in Nat \ {0, 1}
    /\ "server" \notin UdpClients \cup Writers
    /\ ShmServers \cap ShmClients = {} /\ None \notin ShmServers \cup ShmClients

VARIABLES family, program,
          net, asked, shown, dups, excused,
          fifo, pipe, last, typed, printed, prompt,
          root, key, shmid, attached,
          holders, unread,
          child, signalled, handling,
          blocked, pending, handlers, round, sent, flag,
          owner, detached, cnt, ret

tickets == <<status, mutex, ticket_num, sold>>
udp     == <<net, asked, shown, dups, excused>>
named   == <<fifo, pipe, last, typed, printed, prompt>>
shm     == <<root, key, shmid, attached>>
orphans == <<holders, unread>>
reaper  == <<child, signalled, handling>>
signals == <<blocked, pending, handlers, round, sent, flag>>
threads == <<owner, detached, cnt, ret>>
vars == <<family, program, pc, tickets, udp, named, shm, orphans, reaper, signals, threads>>

U == INSTANCE UdpEcho
P == INSTANCE NamedPipe WITH NUM <- BufferSize
M == INSTANCE SharedMemory
O == INSTANCE Orphans
R == INSTANCE Reaper
S == INSTANCE Signals
D == INSTANCE ThreadDemos

-----------------------------------------------------------------------------
NoTickets == status = [i \in Threads |-> "NEW"] /\ mutex = 0 /\ ticket_num = MaxTickets /\ sold = <<>>
NoUdp     == net = 0 /\ asked = 0 /\ shown = 0 /\ dups = 0 /\ excused = 0
NoNamed   == fifo = 0 /\ pipe = 0 /\ last = 0 /\ typed = 0 /\ printed = 0 /\ prompt = 0
NoShm     == root = 0 /\ key = 0 /\ shmid = 0 /\ attached = 0
NoOrphan  == holders = 0 /\ unread = 0
NoReaper  == child = 0 /\ signalled = 0 /\ handling = 0
NoSignals == blocked = 0 /\ pending = 0 /\ handlers = 0 /\ round = 0 /\ sent = 0 /\ flag = 0
NoThreads == owner = 0 /\ detached = 0 /\ cnt = 0 /\ ret = 0

Families == {"tickets", "udp", "named", "shm", "orphans", "reaper", "signals", "threads"}

Init ==
    /\ family \in Families
    /\ IF family = "tickets" THEN SellInit /\ program = "tickets" ELSE NoTickets
    /\ IF family = "udp" THEN U!Init ELSE NoUdp
    /\ IF family = "named" THEN P!Init /\ program = "named" ELSE NoNamed
    /\ IF family = "shm" THEN M!Init /\ program = "shm" ELSE NoShm
    /\ IF family = "orphans" THEN O!Init ELSE NoOrphan
    /\ IF family = "reaper" THEN R!Init ELSE NoReaper
    /\ IF family = "signals" THEN S!Init ELSE NoSignals
    /\ IF family = "threads" THEN D!Init ELSE NoThreads

(* Each family leaves the variables of the others alone. *)
TicketsOnly  == family = "tickets" /\ UNCHANGED <<family, program, udp, named, shm, orphans, reaper, signals, threads>>
UdpOnly      == family = "udp" /\ UNCHANGED <<family, tickets, named, shm, orphans, reaper, signals, threads>>
NamedOnly    == family = "named" /\ UNCHANGED <<family, program, tickets, udp, shm, orphans, reaper, signals, threads>>
ShmOnly      == family = "shm" /\ UNCHANGED <<family, program, tickets, udp, named, orphans, reaper, signals, threads>>
OrphansOnly  == family = "orphans" /\ UNCHANGED <<family, tickets, udp, named, shm, reaper, signals, threads>>
ReaperOnly   == family = "reaper" /\ UNCHANGED <<family, tickets, udp, named, shm, orphans, signals, threads>>
SignalsOnly  == family = "signals" /\ UNCHANGED <<family, tickets, udp, named, shm, orphans, reaper, threads>>
ThreadsOnly  == family = "threads" /\ UNCHANGED <<family, tickets, udp, named, shm, orphans, reaper, signals>>

Next == \/ TicketsOnly /\ SellNext
        \/ UdpOnly /\ U!Next
        \/ NamedOnly /\ P!Next
        \/ ShmOnly /\ M!Next
        \/ OrphansOnly /\ O!Next
        \/ ReaperOnly /\ R!Next
        \/ SignalsOnly /\ S!Next
        \/ ThreadsOnly /\ D!Next

System == \/ TicketsOnly /\ SellNext
          \/ UdpOnly /\ U!System
          \/ NamedOnly /\ P!System
          \/ ShmOnly /\ M!System
          \/ OrphansOnly /\ O!System
          \/ ReaperOnly /\ R!System
          \/ SignalsOnly /\ S!System
          \/ ThreadsOnly /\ D!System

Spec == Init /\ [][Next]_vars

\* Each program's own processes run as long as they can.
FairSpec == Spec /\ WF_vars(System)

-----------------------------------------------------------------------------
(* SoldOnce is that of Tickets: where no tickets are sold it holds as at the start. *)

\* UdpEcho: no client shows the answer to another line than its last, unless
\* the network doubled a datagram.
InStep == family = "udp" => U!InStep

\* NamedPipe: a line is lost only if the server was behind when it was written.
LostOnlyIfBehind == family = "named" => P!LostOnlyIfBehind

\* SharedMemory: at most one server, and the key leads to its segment.
OneServer == family = "shm" => M!OneServer

\* Signals, ThreadDemos: a handler is not disturbed by what it blocks, and
\* main is told of a thread's end only after it.
Told == /\ family = "signals" => S!Undisturbed
        /\ family = "threads" => D!JoinTellsTruth

(***************************************************************************)
(* Whatever is begun comes to its end, again and again: all threads are    *)
(* joined, lines answered, servers ended with their files, orphans ended,  *)
(* zombies reaped, blocked signals dealt with.                             *)
(***************************************************************************)
Settled == CASE family = "tickets" -> SellSettled
             [] family = "udp" -> U!Settled
             [] family = "named" -> P!Settled
             [] family = "shm" -> M!Settled
             [] family = "orphans" -> O!Settled
             [] family = "reaper" -> R!Settled
             [] family = "signals" -> S!Settled
             [] family = "threads" -> D!Settled

Finishes == []<>Settled
=============================================================================
