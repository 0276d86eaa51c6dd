--------------------------- MODULE ProgramsProofs ---------------------------
(***************************************************************************)
(* The small programs, for any number of threads, processes, lines and     *)
(* signals.  Each section has the invariant of one program; at the end     *)
(* they are put together for Programs, where the variables of the programs *)
(* that do not run stay as they are.                                       *)
(***************************************************************************)
EXTENDS Programs, SequenceTheorems, TLAPS

-----------------------------------------------------------------------------
(* The first n elements of a sequence, and the others. *)

LEMMA Front ==
    ASSUME NEW T, NEW s \in Seq(T), NEW n \in Nat, n <= Len(s)
    PROVE  /\ SubSeq(s, 1, n) \in Seq(T) /\ Len(SubSeq(s, 1, n)) = n
           /\ \A i \in 1 .. n : i \in 1 .. Len(s) /\ s[i] \in T /\ SubSeq(s, 1, n)[i] = s[i]
<1>1. n \in Int /\ \A i \in 1 .. n : i \in 1 .. Len(s) /\ s[i] \in T
  BY ElementOfSeq, LenProperties
<1>2. /\ SubSeq(s, 1, n) \in Seq(T)
      /\ Len(SubSeq(s, 1, n)) = IF 1 <= n THEN n - 1 + 1 ELSE 0
      /\ \A i \in 1 .. n - 1 + 1 : SubSeq(s, 1, n)[i] = s[1 + i - 1]
  BY <1>1, SubSeqProperties
<1>3. Len(SubSeq(s, 1, n)) = n
  BY <1>2
<1>4. \A i \in 1 .. n : i \in 1 .. n - 1 + 1 /\ 1 + i - 1 = i
  OBVIOUS
<1> QED
  BY <1>1, <1>2, <1>3, <1>4

LEMMA Rest ==
    ASSUME NEW T, NEW s \in Seq(T), NEW n \in Nat
    PROVE  SubSeq(s, n + 1, Len(s)) \in Seq(T)
<1>1. Len(s) \in Int /\ n + 1 \in Int /\ \A i \in n + 1 .. Len(s) : s[i] \in T
  BY ElementOfSeq, LenProperties
<1> QED
  BY <1>1, SubSeqProperties

-----------------------------------------------------------------------------
(* Tickets: only the holder of the mutex is between test and unlock         *)
(* (MutexHeld), so what was sold and what is left add up, but for the       *)
(* holder that has printed and not yet counted down (Accounts); a thread    *)
(* leaves only when nothing is left.                                        *)

Labels == {"new", "lock", "test", "print", "take", "unlock", "leave", "done"}
Critical == {"test", "print", "take", "unlock", "leave"}

TypeOK ==
    /\ pc \in [Threads -> Labels]
    /\ status \in [Threads -> {"NEW", "RUNNING", "EXITED"}]
    /\ mutex \in 0 .. NUM
    /\ ticket_num \in Nat
    /\ sold \in Seq(Nat)

MutexHeld == \A i \in Threads : pc[i] \in Critical <=> mutex = i

Stages == \A i \in Threads :
             /\ status[i] = "NEW" => pc[i] = "new"
             /\ status[i] = "EXITED" => pc[i] = "done"

Accounts ==
    /\ \A i \in Threads : pc[i] \in {"print", "take"} => ticket_num > 0
    /\ \A i \in Threads : pc[i] \in {"leave", "done"} => ticket_num = 0
    /\ \A i \in Threads : pc[i] = "take" => Len(sold) = MaxTickets - ticket_num + 1
    /\ (\A i \in Threads : pc[i] # "take") => Len(sold) = MaxTickets - ticket_num
    /\ ticket_num <= MaxTickets

Numbered == \A n \in 1 .. Len(sold) : sold[n] = MaxTickets + 1 - n

IInv == TypeOK /\ MutexHeld /\ Stages /\ Accounts /\ Numbered

\* At the start nothing is sold and nobody has the mutex.
LEMMA InitIInv == ASSUME NUM \in Nat, MaxTickets \in Nat PROVE SellInit => IInv
<1> SUFFICES ASSUME NUM \in Nat, MaxTickets \in Nat, SellInit PROVE IInv
  OBVIOUS
<1> USE DEF SellInit, Threads
<1>1. TypeOK
  BY DEF TypeOK, Labels
<1>2. MutexHeld /\ Stages
  BY DEF MutexHeld, Stages, Critical
<1>3. Accounts /\ Numbered
  <2>1. Len(sold) = 0
    OBVIOUS
  <2> QED
    BY <2>1 DEF Accounts, Numbered
<1> QED
  BY <1>1, <1>2, <1>3 DEF IInv

\* main's steps: it starts a thread that was new, or joins one that is done.
LEMMA MainKeepsIInv ==
    ASSUME NUM \in Nat, MaxTickets \in Nat, IInv, NEW i \in Threads, Run(i) \/ Join(i)
    PROVE  IInv'
<1> USE DEF IInv
<1>1. CASE Run(i)
  <2> USE <1>1 DEF Run, Goto
  <2>1. pc[i] = "new" /\ pc' = [pc EXCEPT ![i] = "lock"]
    BY DEF Stages
  <2>2. TypeOK'
    BY <2>1 DEF TypeOK, Labels
  <2>3. MutexHeld' /\ Stages'
    BY <2>1 DEF MutexHeld, Stages, Critical, TypeOK
  <2>4. Accounts' /\ Numbered'
    BY <2>1 DEF Accounts, Numbered, TypeOK
  <2> QED
    BY <2>2, <2>3, <2>4
<1>2. CASE Join(i)
  <2> USE <1>2 DEF Join
  <2>1. TypeOK' /\ MutexHeld' /\ Stages'
    BY DEF TypeOK, MutexHeld, Stages, Labels, Critical
  <2>2. Accounts' /\ Numbered'
    BY DEF Accounts, Numbered
  <2> QED
    BY <2>1, <2>2
<1> QED
  BY <1>1, <1>2

\* The steps that change neither what is left nor what was sold.
LEMMA LockingKeepsIInv ==
    ASSUME NUM \in Nat, MaxTickets \in Nat, IInv, NEW i \in Threads, Lock(i) \/ Test(i) \/ Unlock(i)
    PROVE  IInv'
<1> USE DEF IInv
<1>1. CASE Lock(i)
  <2> USE <1>1 DEF Lock, Goto
  <2>1. TypeOK' /\ MutexHeld' /\ Stages'
    BY DEF TypeOK, MutexHeld, Stages, Labels, Critical, Threads
  <2>2. Accounts' /\ Numbered'
    BY DEF Accounts, Numbered, TypeOK
  <2> QED
    BY <2>1, <2>2
<1>2. CASE Test(i)
  <2> USE <1>2 DEF Test, Goto
  <2>1. TypeOK' /\ MutexHeld' /\ Stages'
    BY DEF TypeOK, MutexHeld, Stages, Labels, Critical
  <2>2. Accounts' /\ Numbered'
    BY DEF Accounts, Numbered, TypeOK
  <2> QED
    BY <2>1, <2>2
<1>3. CASE Unlock(i)
  <2> USE <1>3 DEF Unlock, Goto
  <2>1. mutex = i
    BY DEF MutexHeld, Critical
  <2>2. TypeOK' /\ MutexHeld' /\ Stages'
    BY <2>1 DEF TypeOK, MutexHeld, Stages, Labels, Critical, Threads
  <2>3. Accounts' /\ Numbered'
    BY DEF Accounts, Numbered, TypeOK
  <2> QED
    BY <2>2, <2>3
<1> QED
  BY <1>1, <1>2, <1>3

\* A thread about to print has the mutex, so nobody else is in between, and
\* the ticket it prints is the next one.
LEMMA SellKeepsIInv ==
    ASSUME NUM \in Nat, MaxTickets \in Nat, IInv, NEW i \in Threads, Sell(i)
    PROVE  IInv'
<1> USE DEF IInv, Sell, Goto
<1>1. \A j \in Threads : pc[j] # "take"
  BY DEF MutexHeld, Critical
<1>2. Len(sold) = MaxTickets - ticket_num /\ Len(sold) \in Nat
  BY <1>1 DEF Accounts, TypeOK
<1>3. /\ sold' \in Seq(Nat)
      /\ Len(sold') = Len(sold) + 1
      /\ \A n \in 1 .. Len(sold) : sold'[n] = sold[n]
      /\ sold'[Len(sold) + 1] = ticket_num
  BY AppendProperties DEF TypeOK
<1>4. TypeOK' /\ MutexHeld' /\ Stages'
  BY <1>3 DEF TypeOK, MutexHeld, Stages, Labels, Critical
<1>5. Accounts'
  <2>1. \A j \in Threads \ {i} : pc'[j] = pc[j] /\ pc[j] # "take"
    BY <1>1 DEF TypeOK
  <2>2. pc'[i] = "take" /\ ticket_num > 0
    BY DEF TypeOK, Accounts
  <2> QED
    BY <1>2, <1>3, <2>1, <2>2 DEF Accounts, TypeOK
<1>6. Numbered'
  <2> SUFFICES ASSUME NEW n \in 1 .. Len(sold) + 1 PROVE sold'[n] = MaxTickets + 1 - n
    BY <1>3 DEF Numbered
  <2>1. CASE n \in 1 .. Len(sold)
    BY <1>3, <2>1 DEF Numbered
  <2>2. CASE n = Len(sold) + 1
    <3>1. MaxTickets + 1 - n = ticket_num
      BY <1>2, <2>2 DEF TypeOK
    <3> QED
      BY <1>3, <2>2, <3>1
  <2> QED
    BY <1>2, <2>1, <2>2
<1> QED
  BY <1>4, <1>5, <1>6

\* The same thread counts down: the accounts balance again.
LEMMA TakeKeepsIInv ==
    ASSUME NUM \in Nat, MaxTickets \in Nat, IInv, NEW i \in Threads, Take(i)
    PROVE  IInv'
<1> USE DEF IInv, Take, Goto
<1>1. ticket_num > 0 /\ Len(sold) = MaxTickets - ticket_num + 1
  BY DEF Accounts
<1>2. \A j \in Threads \ {i} : pc[j] \notin {"print", "take", "leave", "done"}
  BY <1>1 DEF MutexHeld, Critical, Accounts
<1>3. TypeOK' /\ MutexHeld' /\ Stages'
  BY <1>1 DEF TypeOK, MutexHeld, Stages, Labels, Critical
<1>4. Accounts'
  <2>1. pc'[i] = "unlock" /\ \A j \in Threads \ {i} : pc'[j] \notin {"print", "take", "leave", "done"}
    BY <1>2 DEF TypeOK
  <2> QED
    BY <1>1, <2>1 DEF Accounts, TypeOK
<1>5. Numbered'
  BY DEF Numbered
<1> QED
  BY <1>3, <1>4, <1>5

LEMMA NextIInv == ASSUME NUM \in Nat, MaxTickets \in Nat PROVE IInv /\ [SellNext]_sell_vars => IInv'
<1> SUFFICES ASSUME NUM \in Nat, MaxTickets \in Nat, IInv, [SellNext]_sell_vars PROVE IInv'
  OBVIOUS
<1>1. ASSUME NEW i \in Threads, Run(i) \/ Join(i) PROVE IInv'
  BY <1>1, MainKeepsIInv
<1>2. ASSUME NEW i \in Threads, PthreadFunc(i) PROVE IInv'
  BY <1>2, LockingKeepsIInv, SellKeepsIInv, TakeKeepsIInv DEF PthreadFunc, CriticalSection
<1>3. CASE UNCHANGED sell_vars
  BY <1>3 DEF sell_vars, IInv, TypeOK, MutexHeld, Stages, Accounts, Numbered
<1> QED
  BY <1>1, <1>2, <1>3 DEF SellNext, Main

\* What the invariant says of what was sold, in particular once all are joined.
LEMMA IInvSoldOnce == ASSUME NUM \in Nat, MaxTickets \in Nat, IInv PROVE SoldOnce
<1> USE DEF IInv
<1>1. Len(sold) <= MaxTickets
  <2>1. CASE \E i \in Threads : pc[i] = "take"
    BY <2>1 DEF Accounts, TypeOK
  <2>2. CASE \A i \in Threads : pc[i] # "take"
    BY <2>2 DEF Accounts, TypeOK
  <2> QED
    BY <2>1, <2>2
<1>2. ASSUME \A i \in Threads : status[i] = "EXITED", NUM > 0
      PROVE  Len(sold) = MaxTickets
  <2>1. \A i \in Threads : pc[i] = "done"
    BY <1>2 DEF Stages
  <2>2. 1 \in Threads
    BY <1>2 DEF Threads
  <2> QED
    BY <2>1, <2>2 DEF Accounts, TypeOK
<1> QED
  BY <1>1, <1>2 DEF SoldOnce, Numbered

-----------------------------------------------------------------------------
(* UdpEcho: while the network has not doubled a datagram of c there is at   *)
(* most one with c's name on it, that of its last line, and none when it    *)
(* asks.                                                                    *)

Datagrams == {d \in [to : UdpClients \cup {"server"}, of : UdpClients, line : Nat, text : {"some", "none"}] :
                 d.to \in {"server", d.of}}

UdpOK ==
    /\ \A c \in UdpClients : pc[c] \in {"ask", "wait"}
    /\ DOMAIN pc = UdpClients \cup {"server"}
    /\ asked \in [UdpClients -> Nat] /\ shown \in [UdpClients -> Nat] /\ dups \in [UdpClients -> Nat]
    /\ net \subseteq Datagrams
    /\ \A d \in net : d.line <= asked[d.of]
    /\ \A c \in UdpClients : shown[c] <= asked[c]

OneUnderWay ==
    \A c \in UdpClients : dups[c] = 0 =>
        /\ \A d, e \in net : d.of = c /\ e.of = c => d = e
        /\ \A d \in net : d.of = c => d.line = asked[c]
        /\ pc[c] = "ask" => shown[c] = asked[c] /\ \A d \in net : d.of # c

UdpInv == UdpOK /\ OneUnderWay

LEMMA UdpInit == ASSUME U!Init PROVE UdpInv
BY ProgramsAssumption DEF U!Init, U!Server, UdpInv, UdpOK, OneUnderWay

\* What becomes of the datagrams of d's client when d is delivered.
LEMMA UdpReceived ==
    ASSUME UdpInv, NEW d \in net, U!Received(d)
    PROVE  /\ net' \subseteq net /\ dups' \in [UdpClients -> Nat]
           /\ \A c \in UdpClients : dups'[c] = 0 => dups[c] = 0
           /\ dups'[d.of] = 0 => net' = net \ {d}
<1>1. d.of \in UdpClients /\ dups \in [UdpClients -> Nat]
  BY DEF UdpInv, UdpOK, Datagrams
<1>2. CASE net' = net \ {d} /\ UNCHANGED dups
  BY <1>1, <1>2
<1>3. CASE net' = net /\ dups' = [dups EXCEPT ![d.of] = @ + 1]
  BY <1>1, <1>3
<1> QED
  BY <1>2, <1>3 DEF U!Received

LEMMA UdpServes ==
    ASSUME UdpInv, U!ServerRound
    PROVE  UdpInv'
<1> USE DEF UdpInv
<1>1. PICK d \in net : U!ServerStart(d)
  BY DEF U!ServerRound
<1>2. d \in Datagrams /\ d.of \in UdpClients /\ UNCHANGED <<pc, asked, shown>>
  BY <1>1 DEF UdpOK, Datagrams, U!ServerStart
<1>3. CASE d.text = "none"
  <2>1. U!Received(d)
    BY <1>1, <1>3 DEF U!ServerStart
  <2> QED
    BY <1>2, <2>1, UdpReceived DEF UdpOK, OneUnderWay
<1>4. CASE d.text # "none"
  <2>1. PICK a \in U!Answers, left \in BOOLEAN :
           /\ dups' = [dups EXCEPT ![d.of] = IF left THEN @ + 1 ELSE @]
           /\ net' = (IF left THEN net ELSE net \ {d}) \cup
                        (IF a \in {"some", "none"} THEN {[d EXCEPT !.to = d.of, !.text = a]} ELSE {})
    BY <1>1, <1>4 DEF U!ServerStart
  <2>2. PICK r : r = [d EXCEPT !.to = d.of, !.text = a]
    OBVIOUS
  <2>3. a \in {"some", "none"} => r \in Datagrams /\ r.of = d.of /\ r.line = d.line
    BY <1>2, <2>2 DEF Datagrams
  <2>4. \A e \in net' : e \in net \/ (e = r /\ r \in Datagrams /\ r.of = d.of /\ r.line = d.line)
    BY <2>1, <2>2, <2>3
  <2>5. dups' \in [UdpClients -> Nat] /\ \A c \in UdpClients : dups'[c] = 0 => dups[c] = 0
    BY <1>2, <2>1 DEF UdpOK
  <2>6. dups'[d.of] = 0 => \A e \in net' : e.of = d.of => e = r
    <3>1. dups'[d.of] = 0 => ~ left /\ dups[d.of] = 0
      BY <1>2, <2>1 DEF UdpOK
    <3> QED
      BY <1>2, <2>1, <2>2, <3>1 DEF OneUnderWay
  <2>7. UdpOK'
    BY <1>2, <2>4, <2>5 DEF UdpOK
  <2>8. OneUnderWay'
    BY <1>2, <2>4, <2>5, <2>6 DEF OneUnderWay
  <2> QED
    BY <2>7, <2>8
<1> QED
  BY <1>3, <1>4

LEMMA UdpAsks ==
    ASSUME UdpInv, NEW c \in UdpClients, U!Ask(c)
    PROVE  UdpInv'
<1> USE DEF UdpInv, U!Goto
<1>1. PICK t \in {"some", "none"} :
         net' = net \cup {[to |-> "server", of |-> c, line |-> asked[c] + 1, text |-> t]}
  BY DEF U!Ask, U!Server
<1>2. PICK d : d = [to |-> "server", of |-> c, line |-> asked[c] + 1, text |-> t]
  OBVIOUS
<1>3. /\ net' = net \cup {d} /\ d \in Datagrams /\ d.of = c /\ d.line = asked[c] + 1
  BY <1>1, <1>2 DEF Datagrams, UdpOK
<1>4. /\ pc[c] = "ask" /\ asked' = [asked EXCEPT ![c] = @ + 1] /\ pc' = [pc EXCEPT ![c] = "wait"]
      /\ UNCHANGED <<shown, dups>>
  BY DEF U!Ask
<1>5. \A b \in UdpClients : asked'[b] \in Nat /\ asked[b] <= asked'[b] /\ (b # c => asked'[b] = asked[b])
  BY <1>4 DEF UdpOK
<1>6. asked'[c] = asked[c] + 1 /\ asked' \in [UdpClients -> Nat]
  BY <1>4 DEF UdpOK
<1>7. \A e \in net' : e \in Datagrams /\ e.line <= asked'[e.of]
  <2>1. \A e \in net : e \in Datagrams /\ e.of \in UdpClients /\ e.line \in Nat /\ e.line <= asked[e.of] /\ asked[e.of] \in Nat
    BY DEF UdpOK, Datagrams
  <2>2. \A e \in net : e.line <= asked'[e.of]
    BY <1>5, <2>1
  <2> QED
    BY <1>3, <1>6, <2>1, <2>2
<1>8. UdpOK'
  <2>1. \A b \in UdpClients : shown'[b] <= asked'[b]
    BY <1>4, <1>5 DEF UdpOK
  <2> QED
    BY <1>4, <1>6, <1>7, <2>1 DEF UdpOK
<1>9. OneUnderWay'
  BY <1>3, <1>4 DEF OneUnderWay, UdpOK
<1> QED
  BY <1>8, <1>9

LEMMA UdpShows ==
    ASSUME UdpInv, NEW c \in UdpClients, U!Receive(c)
    PROVE  UdpInv'
<1> USE DEF UdpInv, U!Goto
<1>1. PICK d \in net : d.to = c /\ U!Received(d) /\ shown' = [shown EXCEPT ![c] = d.line]
  BY DEF U!Receive
<1>2. d.of = c /\ d.line \in Nat /\ d.line <= asked[c]
  BY <1>1, ProgramsAssumption DEF UdpOK, Datagrams
<1>3. /\ net' \subseteq net /\ dups' \in [UdpClients -> Nat]
      /\ \A b \in UdpClients : dups'[b] = 0 => dups[b] = 0
      /\ dups'[c] = 0 => net' = net \ {d}
  BY <1>1, <1>2, UdpReceived
<1>4. pc[c] = "wait" /\ pc' = [pc EXCEPT ![c] = "ask"] /\ asked' = asked
  BY DEF U!Receive
<1>5. UdpOK'
  BY <1>1, <1>2, <1>3, <1>4 DEF UdpOK
<1>6. OneUnderWay'
  BY <1>1, <1>2, <1>3, <1>4 DEF OneUnderWay, UdpOK
<1> QED
  BY <1>5, <1>6

LEMMA UdpKeeps == ASSUME UdpInv, U!Next PROVE UdpInv'
<1> USE DEF UdpInv
<1>1. CASE U!ServerInit \/ U!PopenFails
  <2>1. /\ UNCHANGED <<net, asked, shown, dups>>
        /\ \E l \in {"bind", "up", "exit", "crashed"} : pc' = [pc EXCEPT !["server"] = l]
    BY <1>1 DEF U!ServerInit, U!Socket, U!Bind, U!PopenFails, U!Goto, U!Server
  <2> QED
    BY <2>1, ProgramsAssumption DEF UdpOK, OneUnderWay
<1>2. ASSUME NEW d \in net, U!Lose(d) PROVE UdpInv'
  BY <1>2 DEF U!Lose, UdpOK, OneUnderWay
<1> QED
  BY <1>1, <1>2, UdpServes, UdpAsks, UdpShows DEF U!Next, U!Client

-----------------------------------------------------------------------------
(* SharedMemory: the key leads to the segment of the server that uses it    *)
(* (KeyOfServer), so there is no second one.                                *)

ShmOK ==
    /\ DOMAIN pc = ShmServers \cup ShmClients
    /\ shmid \in [ShmServers \cup ShmClients -> ShmServers \cup ShmClients \cup {None}]
    /\ key \in ShmServers \cup ShmClients \cup {None}
    /\ \A p \in ShmClients : pc[p] # "delete"

KeyOfServer ==
    /\ \A s \in ShmServers : M!Using(s) => key = s /\ shmid[s] = s
    /\ key \in ShmServers => pc[key] \in {"attach", "sleep", "delete", "killed"}

ShmInv == ShmOK /\ KeyOfServer

LEMMA ShmInit == ASSUME M!Init PROVE ShmInv
BY ProgramsAssumption DEF M!Init, M!Processes, ShmInv, ShmOK, KeyOfServer, M!Using

LEMMA ShmKeeps == ASSUME ShmInv, M!Next PROVE ShmInv'
<1> USE DEF ShmInv, M!Goto, M!Processes
<1>0. PICK p \in ShmServers \cup ShmClients : M!Process(p) \/ M!Interrupted(p)
  BY DEF M!Next
<1>1. CASE M!CreateShm(p)
  <2>1. ShmOK'
    BY <1>1, ProgramsAssumption DEF M!CreateShm, ShmOK
  <2>2. KeyOfServer'
    BY <1>1, ProgramsAssumption, ZenonT(40) DEF M!CreateShm, ShmOK, KeyOfServer, M!Using
  <2> QED
    BY <2>1, <2>2
<1>2. CASE M!GetShm(p)
  <2>1. ShmOK'
    BY <1>2, ProgramsAssumption DEF M!GetShm, ShmOK
  <2>2. KeyOfServer'
    BY <1>2, ProgramsAssumption DEF M!GetShm, ShmOK, KeyOfServer, M!Using
  <2> QED
    BY <2>1, <2>2
<1>3. CASE M!AttachShm(p) \/ M!DetachShm(p)
  <2>1. /\ UNCHANGED <<key, shmid>>
        /\ \/ pc[p] = "attach" /\ pc' = [pc EXCEPT ![p] = "sleep"]
           \/ pc[p] = "sleep" /\ pc' = [pc EXCEPT ![p] = IF p \in ShmServers THEN "delete" ELSE "done"]
    BY <1>3 DEF M!AttachShm, M!DetachShm
  <2>2. ShmOK'
    BY <2>1, ProgramsAssumption DEF ShmOK
  <2>3. KeyOfServer'
    BY <2>1, ProgramsAssumption DEF ShmOK, KeyOfServer, M!Using
  <2> QED
    BY <2>2, <2>3
<1>4. CASE M!DelShm(p)
  <2>1. p \in ShmServers /\ key = p /\ shmid[p] = p
    BY <1>4 DEF M!DelShm, ShmOK, KeyOfServer, M!Using
  <2> QED
    BY <1>4, <2>1, ProgramsAssumption DEF M!DelShm, ShmOK, KeyOfServer, M!Using
<1>5. CASE M!Interrupted(p)
  BY <1>5, ProgramsAssumption DEF M!Interrupted, ShmOK, KeyOfServer, M!Using
<1> QED
  BY <1>0, <1>1, <1>2, <1>3, <1>4, <1>5 DEF M!Process

LEMMA ShmOneServer == ASSUME ShmInv PROVE M!OneServer
BY DEF ShmInv, KeyOfServer, M!OneServer

-----------------------------------------------------------------------------
(* Signals: what a handler blocks stays blocked until it ends, whatever is  *)
(* called in between (Shielded).                                            *)

Shielded ==
    /\ program \in DOMAIN S!Programs
    /\ handlers \in Seq([signal : S!Kinds, mask : SUBSET S!Kinds]) /\ blocked \subseteq S!Kinds
    /\ \A i \in 1 .. Len(handlers) :
          /\ handlers[i].signal \in blocked
          /\ \A j \in 1 .. i - 1 : handlers[j].signal \in handlers[i].mask
          /\ \A j \in 1 .. i - 1 : handlers[j].signal # handlers[i].signal
    /\ program = "sigact" =>
          /\ handlers # <<>> => "QUIT" \in blocked
          /\ \A i \in 2 .. Len(handlers) : "QUIT" \in handlers[i].mask
          /\ pc = "QUIT" => handlers = <<>>

LEMMA SigTables ==
    /\ \A q \in DOMAIN S!Programs : /\ S!Programs[q].handled \subseteq S!Kinds
                                    /\ S!Programs[q].also \subseteq S!Kinds
                                    /\ S!Programs[q].masked \subseteq S!Kinds
    /\ S!Programs["sigact"].also = {"INT", "QUIT"} /\ S!Programs["sigact"].handled = {"INT"}
BY DEF S!Programs, S!Table, S!Kinds, S!pending_cc, S!sigact_cc, S!sigfunc_cc, S!segv_cc, S!alarm_cc,
   S!signal_cc, S!volatile_cc

LEMMA SigInit == ASSUME S!Init PROVE Shielded
<1>1. program \in DOMAIN S!Programs /\ handlers = <<>> /\ blocked \subseteq S!Kinds /\ pc = "run"
  BY SigTables DEF S!Init, S!This
<1> QED
  BY <1>1 DEF Shielded

LEMMA SigDelivers == ASSUME Shielded, NEW s \in S!Kinds, S!Deliver(s) PROVE Shielded'
<1>1. /\ S!This.handled \subseteq S!Kinds /\ S!This.also \subseteq S!Kinds
      /\ program = "sigact" => S!This.also = {"INT", "QUIT"} /\ S!This.handled = {"INT"}
      /\ program' = program /\ pc = "run" /\ s \notin blocked
  BY SigTables DEF Shielded, S!This, S!Deliver
<1>2. CASE s \notin S!This.handled
  <2>1. /\ pc' = s /\ UNCHANGED <<handlers, blocked, program>>
        /\ program = "sigact" /\ s = "QUIT" => handlers = <<>>
    BY <1>1, <1>2 DEF S!Deliver, Shielded
  <2> QED
    BY <2>1 DEF Shielded
<1>3. CASE s \in S!This.handled
  <2> DEFINE h == [signal |-> s, mask |-> blocked]
             n == Len(handlers)
  <2>1. /\ handlers' = Append(handlers, h) /\ pc' = pc
        /\ blocked' = blocked \cup {s} \cup S!This.also
    BY <1>3 DEF S!Deliver
  <2>2. /\ h \in [signal : S!Kinds, mask : SUBSET S!Kinds] /\ n \in Nat
        /\ handlers' \in Seq([signal : S!Kinds, mask : SUBSET S!Kinds])
        /\ Len(handlers') = n + 1 /\ handlers'[n + 1] = h
        /\ \A i \in 1 .. n : handlers'[i] = handlers[i]
    BY <2>1 DEF Shielded
  <2>3. h.signal = s /\ h.mask = blocked
    OBVIOUS
  <2> HIDE DEF h, n
  <2>4. \A i \in 1 .. n + 1 : i \in 1 .. n \/ i = n + 1
    BY <2>2
  <2>5. \A i \in 1 .. n : handlers[i].signal \in blocked /\ handlers[i].signal # s
    BY <1>1 DEF Shielded, n
  <2>6. ASSUME NEW i \in 1 .. n + 1
        PROVE  /\ handlers'[i].signal \in blocked'
               /\ \A j \in 1 .. i - 1 : handlers'[j].signal \in handlers'[i].mask
               /\ \A j \in 1 .. i - 1 : handlers'[j].signal # handlers'[i].signal
    <3>1. CASE i \in 1 .. n
      <4>1. /\ \A j \in 1 .. i - 1 : handlers'[j] = handlers[j] /\ handlers[j].signal \in handlers[i].mask
                                     /\ handlers[j].signal # handlers[i].signal
        BY <2>2, <3>1 DEF Shielded, n
      <4> QED
        BY <2>1, <2>2, <2>5, <3>1, <4>1
    <3>2. CASE i = n + 1
      <4>1. \A j \in 1 .. i - 1 : j \in 1 .. n
        BY <2>2, <3>2
      <4> QED
        BY <2>1, <2>2, <2>3, <2>5, <3>2, <4>1
    <3> QED
      BY <2>4, <3>1, <3>2
  <2>7. ASSUME program = "sigact"
        PROVE  /\ "QUIT" \in blocked'
               /\ \A i \in 2 .. n + 1 : "QUIT" \in handlers'[i].mask
    <3>1. "QUIT" \in blocked'
      BY <1>1, <2>1, <2>7
    <3>2. ASSUME NEW i \in 2 .. n + 1 PROVE "QUIT" \in handlers'[i].mask
      <4>1. CASE i \in 2 .. n
        BY <2>2, <2>7, <4>1 DEF Shielded, n
      <4>2. CASE i = n + 1
        <5>1. handlers # <<>>
          BY <2>2, <4>2 DEF n
        <5> QED
          BY <2>2, <2>3, <2>7, <4>2, <5>1 DEF Shielded
      <4> QED
        BY <2>2, <4>1, <4>2
    <3> QED
      BY <3>1, <3>2
  <2>8. blocked' \subseteq S!Kinds
    BY <1>1, <2>1 DEF Shielded
  <2> QED
    BY <1>1, <2>1, <2>2, <2>6, <2>7, <2>8 DEF Shielded
<1> QED
  BY <1>2, <1>3

LEMMA SigReturns == ASSUME Shielded, S!HandlerEnds PROVE Shielded'
<1> DEFINE n == Len(handlers)
<1>1. /\ n \in Nat \ {0} /\ handlers' = SubSeq(handlers, 1, n - 1) /\ blocked' = handlers[n].mask
      /\ program' = program /\ pc = "run" /\ pc' \in {"run", "exited"}
  BY DEF S!HandlerEnds, Shielded
<1>2. /\ handlers' \in Seq([signal : S!Kinds, mask : SUBSET S!Kinds]) /\ Len(handlers') = n - 1
      /\ \A i \in 1 .. n - 1 : i \in 1 .. n /\ handlers'[i] = handlers[i]
      /\ n \in 1 .. n /\ handlers[n] \in [signal : S!Kinds, mask : SUBSET S!Kinds]
  <2>1. PICK T : T = [signal : S!Kinds, mask : SUBSET S!Kinds]
    OBVIOUS
  <2>2. handlers \in Seq(T)
    BY <2>1 DEF Shielded
  <2>3. n \in 1 .. n /\ n - 1 \in Nat /\ n - 1 <= Len(handlers)
    BY <1>1
  <2>4. handlers[n] \in T
    BY <2>2, <2>3, ElementOfSeq
  <2>5. /\ SubSeq(handlers, 1, n - 1) \in Seq(T) /\ Len(SubSeq(handlers, 1, n - 1)) = n - 1
        /\ \A i \in 1 .. n - 1 : i \in 1 .. n /\ SubSeq(handlers, 1, n - 1)[i] = handlers[i]
    BY <2>2, <2>3, Front
  <2> QED
    BY <1>1, <2>1, <2>3, <2>4, <2>5
<1>3. \A i \in 1 .. n - 1 : handlers[i].signal \in handlers[n].mask
  BY <1>2 DEF Shielded
<1> HIDE DEF n
<1>4. ASSUME NEW i \in 1 .. n - 1
      PROVE  /\ handlers'[i].signal \in blocked'
             /\ \A j \in 1 .. i - 1 : handlers'[j].signal \in handlers'[i].mask
             /\ \A j \in 1 .. i - 1 : handlers'[j].signal # handlers'[i].signal
  <2>1. \A j \in 1 .. i - 1 : j \in 1 .. n - 1
    BY <1>1
  <2>2. \A j \in 1 .. i - 1 : handlers[j].signal \in handlers[i].mask /\ handlers[j].signal # handlers[i].signal
    BY <1>2 DEF Shielded, n
  <2> QED
    BY <1>1, <1>2, <1>3, <2>1, <2>2
<1>5. ASSUME program = "sigact"
      PROVE  /\ handlers' # <<>> => "QUIT" \in blocked'
             /\ \A i \in 2 .. n - 1 : "QUIT" \in handlers'[i].mask
  <2>1. handlers' # <<>> => n \in 2 .. n
    BY <1>1, <1>2
  <2>2. \A i \in 2 .. n : "QUIT" \in handlers[i].mask
    BY <1>5 DEF Shielded, n
  <2>3. \A i \in 2 .. n - 1 : i \in 2 .. n /\ i \in 1 .. n - 1
    BY <1>1
  <2> QED
    BY <1>1, <1>2, <2>1, <2>2, <2>3
<1> QED
  BY <1>1, <1>2, <1>4, <1>5 DEF Shielded

LEMMA SigKeeps == ASSUME Shielded, S!Next PROVE Shielded'
<1>1. CASE S!Main
  BY <1>1 DEF S!Main, Shielded
<1>2. ASSUME S!Fault \/ S!FlagSeen \/ \E s \in S!Kinds : S!MyKill(s) PROVE Shielded'
  <2>1. /\ UNCHANGED <<handlers, blocked, program>> /\ pc = "run" /\ pc' \in {"run", "exited"}
    BY <1>2 DEF S!Fault, S!FlagSeen, S!MyKill
  <2> QED
    BY <2>1 DEF Shielded
<1> QED
  BY <1>1, <1>2, SigDelivers, SigReturns DEF S!Next, S!Process

LEMMA SigUndisturbed == ASSUME Shielded PROVE S!Undisturbed
<1>1. ASSUME NEW i \in 1 .. Len(handlers), NEW j \in 1 .. Len(handlers), handlers[i].signal = handlers[j].signal
      PROVE  i = j
  <2>1. i \in Int /\ j \in Int
    OBVIOUS
  <2>2. CASE i < j
    <3>1. i \in 1 .. j - 1
      BY <2>2
    <3> QED
      BY <1>1, <3>1 DEF Shielded
  <2>3. CASE j < i
    <3>1. j \in 1 .. i - 1
      BY <2>3
    <3> QED
      BY <1>1, <3>1 DEF Shielded
  <2> QED
    BY <2>1, <2>2, <2>3
<1> QED
  BY <1>1 DEF Shielded, S!Undisturbed

-----------------------------------------------------------------------------
(* ThreadDemos: join returns 0 only for a thread that has ended. *)

JoinOK ==
    program = "detach" =>
        /\ DOMAIN pc = {"main", "thread"} /\ cnt \in Nat
        /\ pc["main"] \in {"join", "joining", "done"}
        /\ pc["thread"] = "ended" => cnt = 0
        /\ pc["main"] = "done" /\ ret = 0 => pc["thread"] = "ended"
        /\ pc["main"] # "done" => ret = 0

LEMMA JoinInit == ASSUME D!Init PROVE JoinOK
BY ProgramsAssumption DEF D!Init, JoinOK

LEMMA JoinKeeps == ASSUME JoinOK, D!Next PROVE JoinOK'
<1> USE DEF D!Goto, D!Running
<1>1. CASE D!Detach
  BY <1>1 DEF D!Detach, JoinOK
<1>2. CASE D!PrintLine
  BY <1>2 DEF D!PrintLine, JoinOK
<1>3. CASE D!JoinCalled
  BY <1>3 DEF D!JoinCalled, JoinOK, D!EINVAL, D!ESRCH
<1>4. CASE D!Joined
  BY <1>4 DEF D!Joined, JoinOK
<1>5. CASE D!Broadcast \/ \E t \in Waiters : D!ThreadFunc(t)
  BY <1>5 DEF D!Broadcast, D!ThreadFunc, D!WaitCond, D!Woken, D!PrintUnlock, JoinOK
<1> QED
  BY <1>1, <1>2, <1>3, <1>4, <1>5 DEF D!Next, D!DetachMain, D!DetachThread

LEMMA JoinTold == ASSUME JoinOK PROVE D!JoinTellsTruth
BY DEF JoinOK, D!JoinTellsTruth

-----------------------------------------------------------------------------
(* NamedPipe: a line that was written into an empty pipe and not printed    *)
(* yet is the first in the pipe, and its terminator is there with it, so    *)
(* that the next read takes both (AtFront).                                 *)

Bytes == {<<>>, <<"junk">>} \cup (Writers \X Nat)

PipeOK ==
    /\ DOMAIN pc = Writers \cup {"server"}
    /\ pipe \in Seq(Bytes) /\ typed \in [Writers -> Nat]
    /\ last \in [Writers -> {<<>>, <<"junk">>}]

\* A message whose text is one line, at the front of the bytes b.
Whole(b) == /\ Len(b) >= BufferSize
            /\ b[1] # <<>> /\ \A i \in 2 .. BufferSize - 1 : b[i] = <<>>

AtFront ==
    pc["server"] \in {"start", "open", "up"} =>
        prompt \subseteq printed \/ (Whole(pipe) /\ prompt \subseteq printed \cup {pipe[1]})

PipeInv == PipeOK /\ AtFront

LEMMA PipeInit == ASSUME P!Init PROVE PipeInv
BY DEF P!Init, P!Server, P!NUL, P!Junk, PipeInv, PipeOK, AtFront

\* What a client writes for a line, and for no text.
LEMMA Messages ==
    ASSUME PipeOK, NEW c \in Writers, NEW text \in Seq(Bytes), Len(text) <= 1
    PROVE  /\ P!Message(c, text) \in Seq(Bytes) /\ Len(P!Message(c, text)) = BufferSize
           /\ Len(text) = 1 /\ text[1] # <<>> =>
                 Whole(P!Message(c, text)) /\ P!Message(c, text)[1] = text[1]
<1> DEFINE k == BufferSize - 1 - Len(text)
           pad == [i \in 1 .. k |-> P!NUL]
           m == P!Message(c, text)
<1>1. BufferSize \in Nat /\ BufferSize > 1 /\ Len(text) \in {0, 1} /\ k \in Nat
  <2>1. Len(text) \in Nat /\ BufferSize \in Nat /\ BufferSize > 1
    BY ProgramsAssumption, LenProperties
  <2>2. PICK l \in Nat : l = Len(text) /\ l <= 1
    BY <2>1
  <2>3. l \in {0, 1} /\ BufferSize - 1 - l \in Nat
    BY <2>1, <2>2
  <2> QED
    BY <2>1, <2>2, <2>3
<1>2. last[c] \in Bytes /\ P!NUL \in Bytes /\ P!NUL = <<>>
  BY DEF PipeOK, Bytes, P!NUL
<1>3. pad \in Seq(Bytes) /\ Len(pad) = k /\ \A i \in 1 .. k : pad[i] = <<>>
  <2>1. \A i \in 1 .. k : P!NUL \in Bytes
    BY <1>2
  <2>2. pad \in Seq(Bytes)
    BY <1>1, <2>1, IsASeq
  <2>3. DOMAIN pad = 1 .. k
    OBVIOUS
  <2> QED
    BY <1>1, <1>2, <2>2, <2>3, LenProperties
<1>4. <<last[c]>> \in Seq(Bytes) /\ Len(<<last[c]>>) = 1
  BY <1>2
<1>5. m = (text \o pad) \o <<last[c]>>
  BY DEF P!Message
<1> HIDE DEF pad, m
<1>6. /\ text \o pad \in Seq(Bytes) /\ Len(text \o pad) = Len(text) + k
      /\ \A i \in 1 .. Len(text) + k :
            (text \o pad)[i] = IF i <= Len(text) THEN text[i] ELSE pad[i - Len(text)]
  BY <1>3, ConcatProperties
<1>7. /\ m \in Seq(Bytes) /\ Len(m) = Len(text) + k + 1
      /\ \A i \in 1 .. Len(text) + k + 1 :
            m[i] = IF i <= Len(text) + k THEN (text \o pad)[i] ELSE <<last[c]>>[i - (Len(text) + k)]
  BY <1>4, <1>5, <1>6, ConcatProperties
<1>8. Len(m) = BufferSize
  BY <1>1, <1>7
<1>9. ASSUME Len(text) = 1 PROVE m[1] = text[1] /\ \A i \in 2 .. BufferSize - 1 : m[i] = <<>>
  <2>1. m[1] = text[1]
    <3>1. 1 \in 1 .. Len(text) + k + 1 /\ 1 \in 1 .. Len(text) + k /\ 1 <= Len(text) + k /\ 1 <= Len(text)
      BY <1>1, <1>9
    <3> QED
      BY <1>6, <1>7, <3>1
  <2>2. ASSUME NEW i \in 2 .. BufferSize - 1 PROVE m[i] = <<>>
    <3>1. i \in 1 .. Len(text) + k + 1 /\ i \in 1 .. Len(text) + k /\ ~ (i <= Len(text)) /\ i - Len(text) \in 1 .. k
      BY <1>1, <1>9
    <3> QED
      BY <1>3, <1>6, <1>7, <3>1
  <2> QED
    BY <2>1, <2>2
<1> QED
  <2>1. m \in Seq(Bytes) /\ Len(m) = BufferSize
    BY ONLY <1>7, <1>8
  <2>2. ASSUME Len(text) = 1, text[1] # <<>> PROVE Whole(m) /\ m[1] = text[1]
    BY ONLY <1>9, <2>1, <2>2 DEF Whole
  <2> QED
    BY ONLY <2>1, <2>2 DEF m

\* What is written behind something changes nothing at the front.
LEMMA Behind ==
    ASSUME PipeOK, NEW m \in Seq(Bytes), pipe' = pipe \o m
    PROVE  pipe' \in Seq(Bytes) /\ (Whole(pipe) => Whole(pipe') /\ pipe'[1] = pipe[1])
<1>1. /\ pipe' \in Seq(Bytes) /\ Len(pipe') = Len(pipe) + Len(m) /\ Len(pipe) \in Nat /\ Len(m) \in Nat
      /\ \A i \in 1 .. Len(pipe) : i \in 1 .. Len(pipe) + Len(m) /\ pipe'[i] = pipe[i]
  BY ConcatProperties DEF PipeOK
<1>2. ASSUME Whole(pipe) PROVE Whole(pipe') /\ pipe'[1] = pipe[1]
  <2>1. BufferSize \in Nat /\ BufferSize > 1 /\ Len(pipe) >= BufferSize
    BY <1>2, ProgramsAssumption DEF Whole
  <2>2. 1 \in 1 .. Len(pipe) /\ \A i \in 2 .. BufferSize - 1 : i \in 1 .. Len(pipe)
    BY <1>1, <2>1
  <2> QED
    BY <1>1, <1>2, <2>1, <2>2 DEF Whole
<1> QED
  BY <1>1, <1>2

\* A read that begins with a line prints it.
LEMMA FrontIsRead ==
    ASSUME PipeOK, Whole(pipe), NEW b, b = SubSeq(pipe, 1, BufferSize - 1)
    PROVE  Len(P!Text(b)) = 1 /\ P!Text(b)[1] = pipe[1]
<1> DEFINE n == BufferSize - 1
           s == b \o <<P!NUL>>
           I == {i \in 1 .. Len(s) : s[i] = P!NUL}
<1>1. BufferSize \in Nat /\ BufferSize > 1 /\ n \in Nat /\ n > 0 /\ n <= Len(pipe)
  BY ProgramsAssumption DEF Whole, PipeOK
<1>2. b \in Seq(Bytes) /\ Len(b) = n /\ \A i \in 1 .. n : b[i] = pipe[i]
  BY <1>1, Front DEF PipeOK
<1>3. P!NUL = <<>> /\ <<P!NUL>> \in Seq(Bytes) /\ Len(<<P!NUL>>) = 1
  BY DEF P!NUL, Bytes
<1>4. /\ Len(s) = n + 1
      /\ \A i \in 1 .. n + 1 : s[i] = IF i <= n THEN b[i] ELSE <<P!NUL>>[i - n]
  BY <1>2, <1>3, ConcatProperties
<1>5. s[1] # P!NUL /\ s[2] = P!NUL
  BY <1>1, <1>2, <1>3, <1>4 DEF Whole
<1>6. P!Text(b) = SubSeq(b, 1, (IF I # {} THEN P!Min(I) ELSE 0) - 1)
  BY DEF P!Text, P!SelectInSeq
<1> HIDE DEF s
<1>7. 2 \in I /\ \A i \in I : 2 <= i
  BY <1>1, <1>4, <1>5
<1>8. P!Text(b) = SubSeq(b, 1, 1)
  <2>1. P!Min(I) = 2
    BY <1>7 DEF P!Min
  <2>2. (IF I # {} THEN P!Min(I) ELSE 0) - 1 = 1
    BY <1>7, <2>1
  <2> QED
    BY <1>6, <2>2
<1> QED
  BY <1>1, <1>2, <1>8, Front

LEMMA ServerReads == ASSUME PipeInv, P!NewServer PROVE PipeInv'
<1> USE DEF PipeInv, P!Goto, P!Server
<1>0. "server" \notin Writers
  BY ProgramsAssumption
<1>1. CASE P!MakeFifo \/ P!OpenRead \/ P!ReadEnd \/ P!Unlink
  <2>1. UNCHANGED <<pipe, last, typed, printed, prompt>>
    BY <1>1 DEF P!MakeFifo, P!OpenRead, P!ReadEnd, P!Unlink
  <2>2. PipeOK'
    BY <1>1, <2>1 DEF P!MakeFifo, P!OpenRead, P!ReadEnd, P!Unlink, PipeOK
  <2>3. pc'["server"] \in {"start", "open", "up"} => pc["server"] \in {"start", "open", "up"}
    BY <1>1 DEF P!MakeFifo, P!OpenRead, P!ReadEnd, P!Unlink, PipeOK
  <2> QED
    BY <2>1, <2>2, <2>3 DEF AtFront, Whole
<1>2. CASE P!CloseRead
  BY <1>2 DEF P!CloseRead, PipeOK, AtFront
<1>3. CASE P!Read
  <2> DEFINE n == IF Len(pipe) < BufferSize - 1 THEN Len(pipe) ELSE BufferSize - 1
             text == P!Text(SubSeq(pipe, 1, n))
  <2>1. /\ pc["server"] = "up" /\ UNCHANGED <<pc, last, typed, prompt>>
        /\ printed' = printed \cup IF Len(text) = 1 THEN {text[1]} ELSE {}
        /\ pipe' = SubSeq(pipe, n + 1, Len(pipe))
    BY <1>3 DEF P!Read
  <2>2. n \in Nat
    BY ProgramsAssumption, LenProperties DEF PipeOK
  <2>3. pipe' \in Seq(Bytes)
    <3> HIDE DEF n
    <3> QED
      BY <2>1, <2>2, Rest DEF PipeOK
  <2>4. ASSUME Whole(pipe) PROVE pipe[1] \in printed'
    <3>1. n = BufferSize - 1
      BY <2>4, ProgramsAssumption, LenProperties DEF Whole, PipeOK
    <3>2. Len(text) = 1 /\ text[1] = pipe[1]
      <4>1. PICK b : b = SubSeq(pipe, 1, BufferSize - 1)
        OBVIOUS
      <4>2. Len(P!Text(b)) = 1 /\ P!Text(b)[1] = pipe[1]
        BY <2>4, <4>1, FrontIsRead
      <4> HIDE DEF n
      <4> QED
        BY <3>1, <4>1, <4>2
    <3> HIDE DEF text
    <3> QED
      BY <2>1, <3>2
  <2> HIDE DEF text, n
  <2>5. prompt' \subseteq printed'
    BY <2>1, <2>4 DEF AtFront
  <2> QED
    BY <2>1, <2>3, <2>5 DEF PipeOK, AtFront
<1> QED
  BY <1>1, <1>2, <1>3 DEF P!NewServer

LEMMA ClientsWrite == ASSUME PipeInv, NEW c \in Writers, P!NewClient(c) PROVE PipeInv'
<1> USE DEF PipeInv, P!Goto, P!Server
<1>0. c # "server" /\ BufferSize \in Nat /\ BufferSize > 1
  BY ProgramsAssumption
<1>1. ASSUME UNCHANGED <<pipe, last, typed, printed, prompt>>,
             DOMAIN pc' = DOMAIN pc, pc'["server"] = pc["server"]
      PROVE  PipeInv'
  BY <1>0, <1>1 DEF PipeOK, AtFront, Whole
<1>2. CASE P!Open(c) \/ P!InputEnds(c) \/ P!QuitTyped(c)
  <2>1. UNCHANGED <<pipe, last, typed, printed, prompt>>
    BY <1>2 DEF P!Open, P!InputEnds, P!QuitTyped
  <2>2. DOMAIN pc' = DOMAIN pc /\ pc'["server"] = pc["server"]
    <3>1. ASSUME NEW l, pc' = [pc EXCEPT ![c] = l]
          PROVE  DOMAIN pc' = DOMAIN pc /\ pc'["server"] = pc["server"]
      BY <1>0, <3>1
    <3>2. CASE P!Open(c)
      <4>1. CASE pc' = [pc EXCEPT ![c] = IF fifo THEN "open" ELSE "failed"]
        BY <4>1, <3>1
      <4>2. CASE pc' = [pc EXCEPT ![c] = "up"]
        BY <4>2, <3>1
      <4> QED
        BY <3>2, <4>1, <4>2 DEF P!Open
    <3>3. CASE P!InputEnds(c) \/ P!QuitTyped(c)
      BY <3>1, <3>3 DEF P!InputEnds, P!QuitTyped
    <3> QED
      BY <1>2, <3>2, <3>3
  <2> QED
    BY <1>1, <2>1, <2>2
<1>3. CASE P!Write(c)
  <2> DEFINE line == <<c, typed[c] + 1>>
             m == P!Message(c, <<line>>)
  <2>1. CASE pc["server"] \notin {"open", "up", "close"}
    <3>1. UNCHANGED <<pipe, last, typed, printed, prompt>> /\ pc' = [pc EXCEPT ![c] = "killed"]
      BY <1>3, <2>1 DEF P!Write
    <3>2. DOMAIN pc' = DOMAIN pc /\ pc'["server"] = pc["server"]
      BY <1>0, <3>1
    <3> QED
      BY <1>1, <3>1, <3>2
  <2>2. CASE pc["server"] \in {"open", "up", "close"}
    <3>1. /\ pipe' = pipe \o m /\ typed' = [typed EXCEPT ![c] = @ + 1]
          /\ prompt' = (IF pipe = <<>> THEN prompt \cup {line} ELSE prompt)
          /\ UNCHANGED <<pc, last, printed>>
      BY <1>3, <2>2 DEF P!Write
    <3>2. line \in Writers \X Nat /\ line # <<>>
      BY DEF PipeOK
    <3>3. /\ <<line>> \in Seq(Bytes) /\ Len(<<line>>) = 1 /\ <<line>>[1] = line
      BY <3>2 DEF Bytes
    <3> HIDE DEF line
    <3>4. m \in Seq(Bytes) /\ Whole(m) /\ m[1] = line
      <4>1. PICK t : t = <<line>>
        OBVIOUS
      <4>2. t \in Seq(Bytes) /\ Len(t) = 1 /\ Len(t) <= 1 /\ t[1] = line
        BY <3>3, <4>1
      <4>3. P!Message(c, t) \in Seq(Bytes) /\ Whole(P!Message(c, t)) /\ P!Message(c, t)[1] = line
        BY <3>2, <4>2, Messages
      <4> QED
        BY <4>1, <4>3
    <3> HIDE DEF m
    <3>5. pipe' \in Seq(Bytes) /\ (Whole(pipe) => Whole(pipe') /\ pipe'[1] = pipe[1])
      BY <3>1, <3>4, Behind
    <3>6. PipeOK'
      <4>1. typed' \in [Writers -> Nat]
        BY <3>1 DEF PipeOK
      <4> QED
        BY <3>1, <3>5, <4>1 DEF PipeOK
    <3>7. CASE pipe = <<>>
      <4>1. pipe' = m
        BY <3>1, <3>4, <3>7
      <4>2. ~ Whole(pipe)
        BY <1>0, <3>7 DEF Whole
      <4>3. AtFront'
        BY <3>1, <3>4, <3>7, <4>1, <4>2 DEF AtFront
      <4> QED
        BY <3>6, <4>3
    <3>8. CASE pipe # <<>>
      BY <3>1, <3>5, <3>6, <3>8 DEF AtFront
    <3> QED
      BY <3>7, <3>8
  <2> QED
    BY <2>1, <2>2
<1>4. CASE P!WriteAgain(c)
  <2>1. CASE pc["server"] \notin {"open", "up", "close"}
    <3>1. UNCHANGED <<pipe, last, typed, printed, prompt>> /\ pc' = [pc EXCEPT ![c] = "killed"]
      BY <1>4, <2>1 DEF P!WriteAgain
    <3>2. DOMAIN pc' = DOMAIN pc /\ pc'["server"] = pc["server"]
      BY <1>0, <3>1
    <3> QED
      BY <1>1, <3>1, <3>2
  <2>2. CASE pc["server"] \in {"open", "up", "close"}
    <3>1. pipe' = pipe \o P!Message(c, <<>>) /\ UNCHANGED <<pc, last, typed, printed, prompt>>
      BY <1>4, <2>2 DEF P!WriteAgain
    <3>2. <<>> \in Seq(Bytes) /\ Len(<<>>) <= 1
      OBVIOUS
    <3>3. P!Message(c, <<>>) \in Seq(Bytes)
      BY <3>2, Messages
    <3>4. pipe' \in Seq(Bytes) /\ (Whole(pipe) => Whole(pipe') /\ pipe'[1] = pipe[1])
      BY <3>1, <3>3, Behind
    <3> QED
      BY <3>1, <3>4 DEF PipeOK, AtFront
  <2> QED
    BY <2>1, <2>2
<1> QED
  BY <1>2, <1>3, <1>4 DEF P!NewClient

LEMMA PipeKeeps == ASSUME PipeInv, P!Next PROVE PipeInv'
BY ServerReads, ClientsWrite DEF P!Next

LEMMA PipeLosesNothing == ASSUME PipeInv PROVE P!LostOnlyIfBehind
<1> SUFFICES ASSUME pc["server"] = "up", pipe = <<>> PROVE prompt \subseteq printed
  BY DEF P!LostOnlyIfBehind, P!Server
<1>1. ~ Whole(pipe)
  BY ProgramsAssumption DEF Whole
<1> QED
  BY <1>1 DEF PipeInv, AtFront

-----------------------------------------------------------------------------
(* All programs.  The one that runs keeps its invariant; where no tickets   *)
(* are sold, all is as at the start.                                        *)

IInvPrograms ==
    /\ IF family = "tickets" THEN IInv ELSE NoTickets
    /\ family = "udp" => UdpInv
    /\ family = "named" => PipeInv
    /\ family = "shm" => ShmInv
    /\ family = "signals" => Shielded
    /\ family = "threads" => JoinOK

LEMMA ProgramsInit == Init => IInvPrograms
<1> SUFFICES ASSUME Init PROVE IInvPrograms
  OBVIOUS
<1>1. family = "tickets" => IInv
  BY InitIInv, ProgramsAssumption DEF Init
<1>2. family # "tickets" => NoTickets
  BY DEF Init
<1>3. family = "udp" => UdpInv
  BY UdpInit DEF Init
<1>4. family = "named" => PipeInv
  BY PipeInit DEF Init
<1>5. family = "shm" => ShmInv
  BY ShmInit DEF Init
<1>6. family = "signals" => Shielded
  BY SigInit DEF Init
<1>7. family = "threads" => JoinOK
  BY JoinInit DEF Init
<1> QED
  BY <1>1, <1>2, <1>3, <1>4, <1>5, <1>6, <1>7 DEF IInvPrograms

\* A step of a program is one of its own module.
LEMMA ProgramsNext == IInvPrograms /\ [Next]_vars => IInvPrograms'
<1> SUFFICES ASSUME IInvPrograms, [Next]_vars PROVE IInvPrograms'
  OBVIOUS
<1>1. ASSUME family # "tickets", UNCHANGED <<family, tickets>> PROVE NoTickets'
  BY <1>1 DEF IInvPrograms, NoTickets, tickets
<1>2. CASE TicketsOnly /\ SellNext
  <2>1. family = "tickets" /\ family' = family
    BY <1>2 DEF TicketsOnly
  <2>2. IInv'
    BY <1>2, <2>1, NextIInv, ProgramsAssumption DEF IInvPrograms
  <2> QED
    BY <2>1, <2>2 DEF IInvPrograms
<1>3. CASE UdpOnly /\ U!Next
  <2>1. family = "udp" /\ UNCHANGED <<family, tickets>>
    BY <1>3 DEF UdpOnly
  <2>2. UdpInv'
    BY <1>3, <2>1, UdpKeeps DEF IInvPrograms
  <2> QED
    BY <1>1, <2>1, <2>2 DEF IInvPrograms
<1>4. CASE NamedOnly /\ P!Next
  <2>1. family = "named" /\ UNCHANGED <<family, tickets>>
    BY <1>4 DEF NamedOnly
  <2>2. PipeInv'
    BY <1>4, <2>1, PipeKeeps DEF IInvPrograms
  <2> QED
    BY <1>1, <2>1, <2>2 DEF IInvPrograms
<1>5. CASE ShmOnly /\ M!Next
  <2>1. family = "shm" /\ UNCHANGED <<family, tickets>>
    BY <1>5 DEF ShmOnly
  <2>2. ShmInv'
    BY <1>5, <2>1, ShmKeeps DEF IInvPrograms
  <2> QED
    BY <1>1, <2>1, <2>2 DEF IInvPrograms
<1>6. CASE OrphansOnly \/ ReaperOnly
  <2>1. family \in {"orphans", "reaper"} /\ UNCHANGED <<family, tickets>>
    BY <1>6 DEF OrphansOnly, ReaperOnly
  <2> QED
    BY <1>1, <2>1 DEF IInvPrograms
<1>7. CASE SignalsOnly /\ S!Next
  <2>1. family = "signals" /\ UNCHANGED <<family, tickets>>
    BY <1>7 DEF SignalsOnly
  <2>2. Shielded'
    BY <1>7, <2>1, SigKeeps DEF IInvPrograms
  <2> QED
    BY <1>1, <2>1, <2>2 DEF IInvPrograms
<1>8. CASE ThreadsOnly /\ D!Next
  <2>1. family = "threads" /\ UNCHANGED <<family, tickets>>
    BY <1>8 DEF ThreadsOnly
  <2>2. JoinOK'
    BY <1>8, <2>1, JoinKeeps DEF IInvPrograms
  <2> QED
    BY <1>1, <2>1, <2>2 DEF IInvPrograms
<1>9. CASE UNCHANGED vars
  <2>1. UNCHANGED <<family, program, pc, tickets>> /\ UNCHANGED <<udp, named, shm, signals, threads>>
    BY <1>9 DEF vars
  <2>2. family = "tickets" => IInv'
    <3>1. UNCHANGED sell_vars
      BY <2>1 DEF sell_vars, tickets
    <3> QED
      BY <3>1, NextIInv, ProgramsAssumption DEF IInvPrograms
  <2>3. family # "tickets" => NoTickets'
    BY <1>1, <2>1
  <2>4. family = "udp" => UdpInv'
    BY <2>1 DEF IInvPrograms, udp, UdpInv, UdpOK, OneUnderWay
  <2>5. family = "named" => PipeInv'
    BY <2>1 DEF IInvPrograms, named, PipeInv, PipeOK, AtFront, Whole
  <2>6. family = "shm" => ShmInv'
    BY <2>1 DEF IInvPrograms, shm, ShmInv, ShmOK, KeyOfServer, M!Using
  <2>7. family = "signals" => Shielded'
    <3>1. Shielded => (UNCHANGED <<program, handlers, blocked, pc>> => Shielded')
      BY DEF Shielded
    <3> QED
      BY <2>1, <3>1 DEF IInvPrograms, signals
  <2>8. family = "threads" => JoinOK'
    BY <2>1 DEF IInvPrograms, threads, JoinOK
  <2> QED
    BY <2>1, <2>2, <2>3, <2>4, <2>5, <2>6, <2>7, <2>8 DEF IInvPrograms
<1> QED
  BY <1>2, <1>3, <1>4, <1>5, <1>6, <1>7, <1>8, <1>9 DEF Next

LEMMA ProgramsInvariant == Spec => []IInvPrograms
BY ProgramsInit, ProgramsNext, PTL DEF Spec

(***************************************************************************)
(* The ticket counter (6.29): the threads print every number once, from    *)
(* the first down, and all are printed when the last thread is joined, for *)
(* every number of threads and of tickets.                                 *)
(***************************************************************************)
THEOREM TicketsSoldOnce == Spec => []SoldOnce
<1>1. ASSUME IInvPrograms PROVE SoldOnce
  <2>1. CASE family = "tickets"
    BY <1>1, <2>1, IInvSoldOnce, ProgramsAssumption DEF IInvPrograms
  <2>2. CASE family # "tickets"
    BY <1>1, <2>2, ProgramsAssumption DEF IInvPrograms, NoTickets, SoldOnce, Threads
  <2> QED
    BY <2>1, <2>2
<1> QED
  BY <1>1, ProgramsInvariant, PTL

(***************************************************************************)
(* The udp echo and command servers (7.16, 7.17): what the client shows    *)
(* after a line is the answer to that line, unless the network has doubled *)
(* one of its datagrams before, for any number of clients and lines.       *)
(***************************************************************************)
THEOREM AnswersInStep == Spec => []InStep
<1>1. ASSUME IInvPrograms, family = "udp" PROVE U!InStep
  BY <1>1 DEF IInvPrograms, UdpInv, UdpOK, OneUnderWay, U!InStep
<1>2. IInvPrograms => InStep
  BY <1>1 DEF InStep
<1> QED
  BY <1>2, ProgramsInvariant, PTL

(***************************************************************************)
(* The named pipe (5.26): although the server reads one byte less than a   *)
(* client writes, a line that was written while the pipe was empty is      *)
(* printed as a text of its own; for any size of the buffer from two       *)
(* bytes, any number of clients and lines.                                 *)
(***************************************************************************)
THEOREM LinesPrinted == Spec => []LostOnlyIfBehind
<1>1. IInvPrograms => LostOnlyIfBehind
  BY PipeLosesNothing DEF IInvPrograms, LostOnlyIfBehind
<1> QED
  BY <1>1, ProgramsInvariant, PTL

(***************************************************************************)
(* Shared memory (6.6): however servers and clients start, are interrupted *)
(* and leave, at most one server uses a segment, and the key finds it.     *)
(***************************************************************************)
THEOREM OneSegment == Spec => []OneServer
<1>1. IInvPrograms => OneServer
  BY ShmOneServer DEF IInvPrograms, OneServer
<1> QED
  BY <1>1, ProgramsInvariant, PTL

(***************************************************************************)
(* Signals and threads (6.9 to 6.18, 6.28): a handler is not interrupted   *)
(* by a signal that its sigaction blocks, and pthread_join returns 0 to    *)
(* main only when the thread has ended, detached or not.                   *)
(***************************************************************************)
THEOREM ToldTheTruth == Spec => []Told
<1>1. IInvPrograms => Told
  BY SigUndisturbed, JoinTold DEF IInvPrograms, Told
<1> QED
  BY <1>1, ProgramsInvariant, PTL
=============================================================================
