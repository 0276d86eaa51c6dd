---------------------------- MODULE SharedMemory ----------------------------
(***************************************************************************)
(* 6.6: the server makes a segment of shared memory for a key and removes  *)
(* it when it ends; a client takes what the key leads to, and makes a      *)
(* segment itself if there is none.  Neither gives the segment a mode, so  *)
(* that only root can attach it; the result of shmat is not looked at.     *)
(***************************************************************************)
EXTENDS Naturals

CONSTANTS ShmServers, ShmClients,   \* the processes, each run once
          None                      \* no segment

VARIABLES
    pc,
    root,       \* whether the processes may attach a segment without a mode
    key,        \* the segment the key leads to, or None
    shmid,      \* of each process
    attached    \* the processes that have the segment in their memory

vars == <<pc, root, key, shmid, attached>>

Processes == ShmServers \cup ShmClients

Init == /\ pc = [p \in Processes |-> "get"] /\ root \in BOOLEAN
        /\ key = None /\ shmid = [p \in Processes |-> None] /\ attached = {}

Goto(p, l) == pc' = [pc EXCEPT ![p] = l]

-----------------------------------------------------------------------------
(* A segment is named after the process that made it. *)

\* Mutant: without IPC_EXCL.
CreateAnyway(p) ==
    /\ p \in ShmServers /\ pc[p] = "get"
    /\ key' = (IF key = None THEN p ELSE key) /\ shmid' = [shmid EXCEPT ![p] = key'] /\ Goto(p, "attach")
    /\ UNCHANGED <<root, attached>>

\* shmget fails if there is a segment, and the server exits.
CreateShm(p) ==
    /\ p \in ShmServers /\ pc[p] = "get"
    /\ IF key = None
       THEN key' = p /\ shmid' = [shmid EXCEPT ![p] = p] /\ Goto(p, "attach")
       ELSE Goto(p, "exit 2") /\ UNCHANGED <<key, shmid>>
    /\ UNCHANGED <<root, attached>>

GetShm(p) ==
    /\ p \in ShmClients /\ pc[p] = "get"
    /\ key' = IF key = None THEN p ELSE key
    /\ shmid' = [shmid EXCEPT ![p] = key'] /\ Goto(p, "attach")
    /\ UNCHANGED <<root, attached>>

\* -1, the error, passes the assert for a pointer that is not null.  Who
\* has removed the segment in between makes shmat fail as well.
AttachShm(p) ==
    /\ pc[p] = "attach"
    /\ attached' = IF root /\ (shmid[p] = key \/ \E q \in attached : shmid[q] = shmid[p])
                   THEN attached \cup {p} ELSE attached
    /\ Goto(p, "sleep") /\ UNCHANGED <<root, key, shmid>>

\* ~Init; a client does not remove the segment.
DetachShm(p) ==
    /\ pc[p] = "sleep"
    /\ attached' = attached \ {p}
    /\ Goto(p, IF p \in ShmServers THEN "delete" ELSE "done")
    /\ UNCHANGED <<root, key, shmid>>

\* Who is attached keeps the segment; the key no longer leads to it.
DelShm(p) ==
    /\ pc[p] = "delete"
    /\ key' = (IF key = shmid[p] THEN None ELSE key)
    /\ Goto(p, "done") /\ UNCHANGED <<root, shmid, attached>>

\* A signal ends the process: the destructor does not run.
Interrupted(p) ==
    /\ pc[p] \in {"attach", "sleep", "delete"}
    /\ attached' = attached \ {p} /\ Goto(p, "killed") /\ UNCHANGED <<root, key, shmid>>

Process(p) == CreateShm(p) \/ GetShm(p) \/ AttachShm(p) \/ DetachShm(p) \/ DelShm(p)

Next == \E p \in Processes : Process(p) \/ Interrupted(p)

\* What goes on as long as it can: the processes, not the signals.
System == \E p \in Processes : Process(p)

-----------------------------------------------------------------------------
Using(p) == pc[p] \in {"attach", "sleep", "delete"}

(***************************************************************************)
(* At most one server works at a time, and the key leads to its segment    *)
(* until it removes that; a server's segment is only left without it if it *)
(* was killed.                                                             *)
(***************************************************************************)
OneServer ==
    /\ \A s, t \in ShmServers : Using(s) /\ Using(t) => s = t
    /\ \A s \in ShmServers : Using(s) => key = s
    /\ key \in ShmServers => pc[key] \in {"attach", "sleep", "delete", "killed"}

\* Every process ends, whatever the others do.
Settled == \A p \in Processes : pc[p] \in {"done", "exit 2", "killed"}
=============================================================================
