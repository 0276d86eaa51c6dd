# Verification of myLinux

The repository is a diary of Linux systems programming: each directory, named after a date, holds one
program or a small family of them. Most of the families are real concurrent programs: bounded queues between
threads, a thread pool, a process pool over pipes, a UDP chat server, servers over `select`, `poll` and `epoll`,
a calculator server with its own framing. This directory holds TLA+ models of them, the configurations that
check the models with TLC, and proofs for TLAPS. The models follow the code, not its comments; paths below
are relative to `src/`. `PROJECT.json` says which lines each definition stands for.

## 1. The system

The programs run one at a time and do not call each other, but they share building blocks, copied from
directory to directory: the ring queue of 7.9 is the one inside the chat server of 7.17, the pool of 7.10
drives the TCP server of 7.19, the `sock` class of 7.20 returns in every later server.

| component | state it keeps | operations | interacts through | what makes it correct |
|---|---|---|---|---|
| ring queue, `7.9/sem` | `Rqueue`, `_p_pos`, `_c_pos`, two semaphores, two mutexes | `push`, `pop` | threads share it | slots used by one thread at a time, no lapping, FIFO, nothing stuck |
| blocking queue, `7.3/blockingQueue` | `_q`, one mutex, two condition variables | `push`, `pop` | threads share it | the condition checked holds when used, no lost wakeup, FIFO |
| thread pool, `7.10/threadPool` | `_instance`, `_tasks`, `_threads`, a static and an ordinary mutex, a condition variable | `get_instance`, `pushTask`, `thread_func`, `Thread::run` | users and workers | one pool, each task run once, no task left while workers sleep |
| chat server, `7.17/v2_udp_socket_` | `_user_map`, `_lock`, the ring queue | `server_recive`, `add_user`, `server_broadcast`, constructor and destructor | two threads, the main thread, datagrams | a broadcast reaches everybody it owes, no deadlock between the lock and the ring |
| select, poll and epoll servers, `8.6/selectServer.2`, `8.7/pollServer`, `8.7/epollServer.1` | the array or the epoll set; what was reported ready | `start_server`, `HandlerEvent(s)`, `Accepter`, `IOService` | one thread, blocking sockets | never a call that blocks all clients, exactly the open descriptors watched |
| edge-triggered reactor, `8.11/epollServer.2` | `_connect_map`, in- and outbuffers, registered events | `Accepter`, `Reciver`, `Sender`, `Excepter`, `HandlerRequest`, `enableReadWrite` | callbacks, non-blocking sockets, epoll | no event stranded, no deleted connection used, answers complete and in order |
| process pool, `5.26/CtrlProc` | `endPoint`s, pipes with inherited ends | `CreatProcesses`, `CtrlProcess`, `WaitProcess`, `WaitCmd` | processes, pipes, `waitpid` | the pipe of a child really ends when the parent closes it, no task lost, children reaped |
| calculator, `7.20/netCalculator` | a buffer per connection, on both sides | `start_server`, `serviceIO`, `readPackage`, `calculate`; the client program | a thread per connection, TCP | each answer is the right one for the formula typed |
| echo servers, `7.18/tcp_socket`, `7.19/tcp_socket` | descriptors, the pool's queue of connections | `server_start`, `service`, `pushTask`, `thread_func`; the client programs | a thread per connection, or a worker of the pool; TCP | an echo is that of the line, a client that leaves harms nobody, descriptors come back |
| web servers, `7.22/httpServer`, `7.22/httpServer-0`, `7.29/httpServer` | descriptors, one request per connection | `start_server`, `handlerHttpRequest`, `Desarialize`, `readFile` | a thread per connection, TCP | the page or 404, the thread ends, descriptors come back where they are closed |
| ticket counter, `6.29` | `ticket_num`, a mutex | `pthread_func`, `Thread::run`, `Thread::join` | threads | every ticket sold once |
| udp echo and command servers, `7.16`, `7.17/udp_socket` | none between datagrams | `server_start`, `handle_func2`, the client's loop | datagrams, lost or doubled | a client shows the answer to its own last line |
| named pipe, `5.26/namepipe` | the fifo, bytes left in it | `mkfifo`, `open`, `read`, `write`, `unlink` | two kinds of processes, a file | no prompt line lost, the file removed in the end |
| shared memory, `6.6` | the segment, its key | `Init`, `~Init` | processes | one server per segment |
| pipe programs, `5.25` | inherited write ends | `CreatProcesses`, `WaitCmd` | processes, pipes | children end when the parent has gone |
| reaping, `6.18/waithandler`, `6.11/Core` | zombies, one pending bit | the handler, `fork`, `waitpid` | signals | no zombie stays |
| signal programs, `6.9`, `6.11`, `6.15`, `6.18/volatile` | mask, pending signals, `flag` | handlers, `sigprocmask`, `sigaction` | signals | a handler is not disturbed by what it blocks |
| `6.28/detach`, `7.3/mythread` | joinable or detached; waiters | `pthread_detach`, `pthread_join`, broadcast | threads | join tells the truth, broadcasts keep somebody going |

The hard behaviours, listed line by line under "hazards" in `PROJECT.json`, are of six kinds: interleavings of threads
between a wakeup, a check and a use (queues and pool); events that are reported once and used after the state
has changed (reactor, select, poll, epoll); descriptors inherited, reused or never released (process
pool, servers); messages that are lost, doubled, or arrive in pieces (UDP and TCP programs); parts of an operation that fail (`fork`, `pthread_create`, `send`, `accept`); and objects destroyed
while in use (chat server, deleted connections).

## 2. The modules

| module | models | built on |
|---|---|---|
| `BoundedFifo` | what a bounded queue promises: call, insert, return; remove, return | |
| `RingQueue` | 7.9/sem | refines `BoundedFifo` |
| `BlockQueue` | 7.3/blockingQueue | refines `BoundedFifo` |
| `TaskPool` | what a pool promises: a task submitted is run once, in the order of submission | |
| `ThreadPool` | 7.10/threadPool | refines `TaskPool` |
| `UdpChat` | 7.17/v2_udp_socket_, its ring entering as `BoundedFifo` | `BoundedFifo` |
| `StreamSockets` | what a single-threaded server sees of blocking sockets and of clients | |
| `SelectServer`, `PollServer`, `EpollLTServer` | 8.6 and 8.7 | `StreamSockets` |
| `MuxServers`, `MCMuxServers` | one of the three with its clients; the instance | the three servers |
| `EpollServer`, `MCEpollServer` | 8.11/epollServer.2 with epoll, its sockets and clients | |
| `ProcPool` | 5.26/CtrlProc | |
| `NetCalculator` | connections, and 7.20/netCalculator: server and client program | |
| `ThreadServers`, `MCThreadServers` | one of the servers with a thread per connection (7.18, 7.19, 7.20, 7.22, 7.29) with its clients; the instance | `NetCalculator` |
| `Tickets` | 6.29 | |
| `UdpEcho`, `NamedPipe`, `SharedMemory`, `Orphans`, `Reaper`, `Signals`, `ThreadDemos` | the other small programs | |
| `Programs` | one of the small programs | all of them |
| `RingQueueProofs`, `BlockQueueProofs`, `ThreadPoolProofs`, `ProcPoolProofs` | theorems about the module of that name | |
| `ServersProofs` | theorems about `ThreadServers` and `UdpChat` | |
| `MuxServersProofs`, `EpollServerProofs`, `ProgramsProofs` | theorems about the module of that name | the servers or programs it runs |

How state and actions correspond to the code:

* **RingQueue.** One `pc` per thread names the next statement of `push` or `pop`: `P` on the semaphore, `Lock`, the
  copy into the slot (with a beginning and an end, so that overlapping copies are visible), `_p_pos++`, `_p_pos %= _capacity`,
  `Unlock`, `V`. Semaphores are numbers, mutexes name their owner.
* **BlockQueue.** One action per critical step: taking the mutex, the `while` test, `pthread_cond_wait` (which releases
  the mutex and joins the set of sleepers), waking, and retaking the mutex, the insertion or removal, the signal and the
  unlock. A signal wakes any one sleeper; with `SpuriousWakeups` a sleeper may wake by itself.
* **ThreadPool.** Users go through `get_instance` with its double check, publish the pointer before the pool is
  started, as the code does, and push; `Thread::run` may fail to create a worker. Workers loop in `thread_func`. The task
  is taken under the mutex and run outside of it.
* **UdpChat.** Three threads: the receiver (`recvfrom`, `add_user` under `LockGuard`, `push`), the broadcaster (`pop`, copy of
  the users under the lock, `sendto` one by one) and `main`, which leaves `server_start` and runs the destructor. A
  destroyed mutex is refused and thus excludes nobody; a map read while it is written is undefined, so the process may crash
  or read any part of it.
* **StreamSockets and its servers.** A unit is what one `recv` takes. Descriptors are given out lowest first, so they are reused
  as early as the kernel would reuse them. `select` reports descriptors, `poll` slots, `epoll_wait` a sequence of events; the scan that
  follows is one action per element, so that a round accepts and closes connections between report and use.
* **EpollServer.** The scheduler of the code, `LoopOnce`, is a batch of events of which each one runs `Reciver`, `Sender`,
  `Excepter` and the callbacks they call down to `EAGAIN`, system call by system call, while clients send, read and leave in between.
  Readiness is an edge: it is queued on arrival of data, of room, of a connection or of an error, and merged into a pending one. What is sent to a client that has closed comes back as
  an RST; a `send` after that ends the process by SIGPIPE, for nobody handles it.
* **ProcPool.** A pipe is its contents and the processes that hold its write and its read end; `fork` copies what the parent holds, and
  the child closes what the code makes it close. `ForkError` keeps the code's `-1` in `_child_pid`.
* **NetCalculator.** A package is two cells, all but its end and its end, which TCP may hand over together or apart; `readPackage`
  receives once and then looks at its buffer, on the server and on the client. `ToInt` keeps an `int`'s width, division rounds towards zero
  and traps, `splitFormula` may leave `op` unset (any character) or loop for ever. A thread that ends leaves its socket open.
* **ThreadServers.** Uses the connections of `NetCalculator` (backlog, descriptors, two cells per message and direction, RST and SIGPIPE) for every server
  with a thread per connection; `kind` says which one runs. An echo server's line may be read in pieces (`cut`), and is then echoed in pieces; the
  pool of 7.19 is its queue and its workers, each of which may fail to be created and is kept by a client until that leaves. A web server reads once: a request of which `recv` returns a part, or
  that has a body, never ends `Desarialize`. `readFile` may fail to open a page that is there, which is then answered by 404, and always does without a free
  descriptor; a `read` that fails goes unnoticed, and the page is blank. The thread data of httpServer-0 is never filled in, so its thread does any of what may come of it.
* **The small programs.** Each is a module with the variables of its own; `Programs` runs one of them, chosen by `family`, and leaves the variables of the
  others alone. A process is a `pc`; what ends a process from outside (a signal, the end of the input) is an action of its own without fairness.
  In `NamedPipe` a byte is a whole text or a NUL, so that the byte by which reads and writes differ stays visible; in `UdpEcho` the network is a set of
  datagrams; in `Signals` a program is a row of a table: what it handles, what it blocks while it does and at first, whether its handler exits.

## 3. The runs

Every property has a mutant in `PROJECT.json`: a plausible bug that TLC finds violating it.

| run | instance | what it shows |
|---|---|---|
| `ring` | 2 producers, 2 consumers, 2 slots, 2 items | `SlotExclusion`, `PermitsConserved`, `NoLapping`, refinement `IsFifo`, `Progress`, no deadlock |
| `block` | 3 producers, 2 consumers, 2 places, spurious wakeups | `ConditionHolds`, `NoLostWakeup`, `IsFifo`, `Progress`, no deadlock |
| `pool` | 2 users, 3 tasks, 2 workers, each of which may fail to be created | `SingleInstance`, `NoIdleWorker`, `IsTaskPool`, `EveryTaskRuns` |
| `udp` | 3 users, 3 messages, a ring of one slot | `AllTold`: a finished broadcast has reached its sender and everybody registered when it was pushed; `Echoed` |
| `udp_destroyed` | 2 users, 2 messages | finding: the map's lock is destroyed while in use (`MapExclusive` violated) |
| `epoll` | 2 clients (two requests and half of a third, one request, in fragments), send buffer of one response, `accept` failing at times | `NothingStranded`, `NoUseAfterFree`, `ConnectionsAgree`, `RepliesInOrder`, `ClosedOnlyIfPeerGone`, `KilledOnlyByUnread`: only a client that closes with responses unread ends the server; `Answered` |
| `epoll_stale` | one client, two requests, bytes left by an earlier `recv` | finding: text is appended the client did not send there (`InputIntact` violated) |
| `proc` | 3 children, 4 tasks, any `fork` may fail | `OnlyParentWrites`, `NoBrokenPipe`, `NoTaskLost`, `AllReaped` |
| `proc_hang` | 3 children, 1 task | finding: after a failed `fork`, `waitpid(-1)` may wait for ever (`WaitEnds` violated) |
| `mux` | each of the three servers, 3 clients, two free slots | `NeverBlocks`, `WatchesOpen`, `Served` |
| `conn` | each of the six servers with a thread per connection; 3 clients, 2 descriptors, one worker, ints up to `INT_MAX` = 3 | `Truthful`: every answer shown is that to what was asked last, a page perhaps blank where its file could not be opened or read; `Survives`: what alone can end a server (SIGPIPE an echo server, for a line in pieces; SIGFPE the calculator, for `INT_MIN / -1` and `%`; want of memory a web server, for a request without its last line end); `AllAnswered` and `Reclaimed`, but for who waits in the pool's queue while every worker that could be created has a client that stays |
| `programs` | each family of small programs: 3 threads and 4 tickets, 2 udp clients with 3 lines, 2 writers, 2 servers and 2 clients of a segment, 4 children, 3 signals, 3 waiters | `SoldOnce`, `InStep`, `LostOnlyIfBehind`, `OneServer`, `Told`, `Finishes` |

**Why the bounds are enough.** The hazards are between two threads of one side, or of both: two of each with more threads than places
make every queue full and empty with sleepers on each side; three producers let a wakeup overtake another. A ring of two
slots laps after two pushes; one slot, where positions never differ, is the ring of `udp`'s chat server seen through `BoundedFifo`. Three children are
the least for which a child inherits two descriptors and leaves another child holding one. Two descriptors (or slots) for three clients make the
process run out of them and reuse them; in `epoll` `accept` may fail at any time, and tries again. Requests of two
fragments are the least that can be cut in the middle; two requests leave one response in the outbuffer while another is in the send buffer, and
half of a third lets a receiver with nothing to answer and a sender with nothing to send run in one event. Three bits hold every case of `calculate`: a sum that wraps, the quotient that traps, a
negative remainder. One worker with three clients keeps two of them waiting in
the queue. In `programs`, three threads let two wait for the mutex at once; of three lines the third can get the answer to the first; four children let signals merge
during a handler; a segment can be left by a client or by a server that was killed and be met by the next. Nothing in the code depends on larger numbers than that, except the byte counts left out in section 6.

**Deadlock** is checked in `ring` and `block`. The other systems may rest (every client gone, no more datagrams, the parent
ended), and their configurations say so; there liveness properties take its place.

**Fairness.** Only weak fairness, one condition per thread or process: the scheduler runs each of them again and again, and nothing in the code
gives more. A call into a queue (`PushCall`) is never fair: nobody has to push. Spurious wakeups are never fair and, for
liveness, stop at some time. A mutex is a step that any waiter may take, without strong fairness: no property promises
that one given thread gets it, only that some thread does. Servers: the server's thread runs, and a client that stays reads its
replies; whether clients send or leave is up to them. `udp`: the threads run, nothing is assumed of the network. `proc`: processes run, the user of
the menu need not stop. `conn`: threads and client programs run, users do nothing they do not want to; a worker of the pool that only wakes up by itself makes no progress. `programs`: one condition for the
processes of the program that runs (only one kind of them has to go on as long as it can; signals, losses and what users type are not in it).

## 4. What is proved

Each proof module EXTENDS the module it is about (`ServersProofs` two), and rests only on that module's assumption on its constants (finite, disjoint
sets of threads and a positive capacity; positive numbers of children and tasks; for the others the named assumptions, such as
`ProgramsAssumption`, `UdpChatAssumption`, `NetCalculatorAssumption` and `ThreadServersAssumption`). Every invariant below was given to TLC first, on the instance of the component's run.
`CountMove`, the cardinality of a set that gains or loses an element, is stated where it is needed: in the three modules that count threads.

* **RingQueueProofs**, for every number of threads and slots: `TypeCorrect`, `SlotsExclusive`, `PermitsConservation`, `NeverLapped`, `Refinement`
  (RingQueue implements BoundedFifo) and `NeverStuck`. The invariant is the
  conjunction of the types, `MutexInv` (who is between `Lock` and `Unlock` owns the mutex), `PosInv` (where a position may be one past the end), the
  conservation of permits and `NoLapping` itself: exclusion of producers from consumers, which no lock provides, follows from counting.
  A slot is safe because the permits not in a semaphore are held by a thread inside `push` or `pop`, or are items; none of the parts is inductive alone.
  The refinement reads the queue off the slots from `Front` on (`Shape`, `RingIndex`): the two copies insert and remove, whoever fetches an index to write has a slot outside of
  the unread ones (`Room`), and no other step moves them (`Still`). `NeverStuck`, for at least one consumer: as long as there is an item or a push under way, some thread
  can move. `CanMove` is the guard of `PushStep` and `PopStep` written out, since ENABLED is out of the prover's reach; TLC finds the two equal on the run's instance.
* **BlockQueueProofs**, for every number of threads and places and with or without spurious wakeups: `TypeCorrect`, `CheckedConditionHolds`, `NoWakeupLost`,
  `Refinement` (BlockQueue implements BoundedFifo: every step maps to a step or a stutter) and `NeverStuck` (as for the ring: not everybody sleeps). `NoLostWakeup` counts, per side, the sleepers against the
  awake threads and signals on their way; it needs the mutual exclusion part `Safe`.
* **ThreadPoolProofs**, for every number of users, workers and tasks, with or without spurious wakeups and failing `pthread_create`: `OnePool`, `NoWorkerIdles`,
  `ImplementsTaskPool` and `NeverStuck`. The first rests on `InstanceInv`: `_static_mtx` is owned exactly between the lock and the unlock of `get_instance`, and who is about to
  build found `_instance` null there, so that the count of pools is a function of `_instance`. The second is inductive once `QueueInv` is there (a worker
  that was not started is nowhere); it counts the workers about to look and the users about to signal and does not need `_mtx` at all. The third
  maps each step to a step of `TaskPool` or a stutter; it needs `OnePlace`: a task is with one user, in the queue once, or with one worker.
  `NeverStuck`: while a user is inside a call or has a task to push, or a task is queued and there is a worker, some thread can move without a spurious wakeup. It needs
  `MutexInv` (`_mtx` is owned exactly between lock and unlock), `StartInv` (`startRunning` always finds its next worker) and `NoIdleWorker`; `CanMove` is the guards of the
  steps written out, which TLC finds equal to ENABLED on the run's instance.
* **ProcPoolProofs**, for any number of children and tasks, whether forks fail or not: `TypeCorrect`, `WriteEndsExclusive` (nobody but the parent holds a write end once
  the children work), `NeverBroken` (only a child that could not be created kills the parent), `TasksNotLost` and `NeverStuck`. The first needs `Inherited`, which says which ends a
  child holds while it closes them one by one; the second `PipeInv`, which relates the tasks given, in the pipe and executed; the last `Drained`: a child leaves
  its loop only when its pipe is empty and nobody can write to it any more. `NeverStuck` bounds the finding of `proc_hang`: parent and children can all wait only in
  the `waitpid(-1)` a failed `fork` left behind. `Awaited` says that the parent waits on a pipe it has closed; of the children that still hold write ends of it, one can go on.
* **ServersProofs** on `ThreadServers`, for any number of clients, workers and descriptors, any formulas, pages and `INT_MAX`, and whichever of the six servers runs:
  `AnswersTruthfully` and `SurvivesClients`. `CalculateRight` says that `calculate` with wrapping ints answers as `Answers` demands wherever it does not trap. `Waiting`, common to
  all, says that who waits in the backlog has connected and is not served yet. The calculator needs `OneRequest`: of each client at most one package is under way, in front
  of the server, in it or behind it, and every cell of it is of the request asked last or of its answer, so that a buffer never keeps the rest of an older one. The echo servers
  need `EchoOf`: what the client has read, what returns to it, what the server holds and what is still to reach it are successive pieces of the client's lines; `EchoWhole`: a line
  none of whose reads ended within it is in one place as a whole, so a client in step with its server stays so, and a write that draws an RST is the last one; and `Queued`: a
  connection in the pool's queue is there once and has no worker. The web servers need `WebOf` (a server writes once to a connection, so never after an RST, and the one answer is the page, blank, or 404),
  and `WildInv` says that the one with uninitialised thread data never answers at all. `SurvivesClients` further needs `Ends` (each way a server can end, with the thread that
  ended it), `Spinning` (the request of a thread that loops in `Desarialize` is unended) and `TrapsOnce`: for every `INT_MAX`, division traps for `INT_MIN` by -1 only.
* **ServersProofs** on `UdpChat`, for any users, messages and capacity of the ring: `EverybodyTold`, `MapSafeUntilDestroyed` and `ChatNeverStuck` (the two threads
  are never blocked at once, one on the full ring and one on the lock, while a message is under way and the broadcaster exists). `Held` and `Intact` say that until the destructor has run the
  lock belongs to whoever is in the map, and the map is whole; `Underway` says where each message is on its way from `recvfrom` through the ring to the broadcaster;
  `Registered` that who was registered when a message was pushed still is; `Reached` what the broadcaster has copied and sent so far. The second theorem
  bounds the finding of `udp_destroyed`: what is violated there (`MapExclusive`) holds in every state before the destructor has run, so the destructor is its only cause.
* **EpollServerProofs**, for any number of clients, fragments and bytes, and `accept` failing at any time: `NeverFreed`, `TablesAgree`, `GivenUpOnlyIfGone` (an action
  property), `NeverStranded`, `AnsweredInOrder` and `EndedOnlyByUnread`. The invariant has a part for the descriptors (`Agree`, `OnePeer`: the map, the epoll set and the open sockets are the same), one
  for what is registered (`Registered`: `EPOLLOUT` is asked for exactly while a response waits, or the sender is about to ask), one for edges (`Fresh`: whatever can be read, written or
  accepted has an event queued, is in the batch at hand, or will be met by the loop that now runs towards `EAGAIN`), and one for the bytes
  (`NotServedYet`, `InOrder`: requests sent are, in this order, answered and read, answered and under way, buffered, or in the socket).
  `Rejected` adds that an RST after a FIN answers a response which the client has not read, so that its responses read are fewer than its requests handled: the count is that of
  `InOrder`, and SIGPIPE needs both.
* **MuxServersProofs**, for any number of clients and descriptors and each of the three servers: `ServesWithoutBlocking` and `WatchesWhatIsOpen`. `select` and `poll` are proved as one
  scan of an array (`ArrayStep`). What a server will use is `Ripe`: reported, not yet visited, and still what was reported; `Early` is why it stays so although the scan itself
  accepts and closes (a descriptor opened during the scan sits in a slot whose report is not set); `OnePeer` gives each descriptor one client.
* **ProgramsProofs**, for all the small programs at once, any number of threads, clients, processes and lines: `TicketsSoldOnce`, `AnswersInStep`, `LinesPrinted`, `OneSegment` and `ToldTheTruth`.
  Tickets: whoever is between test and unlock holds the mutex, and what is sold and what is left add up but for a holder that has printed and not yet counted
  down. The udp client: `OneUnderWay`, at most one line is unanswered when the network neither loses nor doubles. The named pipe: `AtFront`, where the NULs left in
  the fifo may be. Shared memory: `KeyOfServer`, a segment is known by the key of the server that made it. Signals: `Shielded`, a signal that is blocked
  is not handled; threads: `JoinOK`. `IInvPrograms` adds that the variables of the families that do not run stay initial.

## 5. What is only model-checked

Liveness everywhere, since it needs fairness: `Progress`, `EveryTaskRuns`, `Echoed`, `Answered`, `AllReaped`, `Served`, `AllAnswered`, `Reclaimed` and `Finishes`. The type invariants of the proved modules are part of their inductive invariants.

## 6. What is not modelled, and why

* Errors at start-up that end the process (`socket`, `bind`, `listen`, `epoll_create`), logging, formatting, and the menu texts.
* ThreadPool: the destructor, which joins workers that never leave their loop; no program calls it.
* EpollServer: bytes are fragments of requests; an interrupted call is a retry; the stale tail of the receive buffer is a run of its own, for
  everything after it is undefined; the order of the events in a batch is arbitrary; a reset discards what was not read.
  Not followed: what the other clients see of a server that was killed; `Answered` exempts it and `KilledOnlyByUnread` says when it may happen.
* MuxServers: all ready events fit `gnum`; descriptor numbers above `FD_SETSIZE`; lengths in bytes, so not `buffer[n - 2]` for `n = 1`. One client stays, so that `Served` has
  a subject. `select` with its timeout wakes without effect.
* UdpChat: empty datagrams change nothing; the client program is whoever sends a datagram.
* ProcPool: `pipe` failing, which leaves fewer end points than `CHILD_NUM`.
* NetCalculator: the text protocol, which is not compiled. `accept` failing for want of descriptors is a wait, since its loop changes nothing.
* EpollServer: complete requests that are still in `_inbuffer` when the end of the stream is seen are dropped by the code (`epollServer.hpp:218`), and a package with an empty payload
  would end its loop early (`:345`; the client never sends one). No property speaks of them: `Answered` asks for clients that stay.
* ThreadServers: versions 1 and 2 of 7.18 are commented out. Content types and the text of pages are left out. What a client of 7.18 prints behind what it has read
  (its buffer is not terminated) is not modelled, nor is the byte that `buffer[n] = 0` writes past the array when `read` or `recv` fills it (7.18 and 7.19 `tcp_server.hpp:145` and `:162`,
  7.20 `protocol.hpp:28`, the web servers): the sizes of the arrays are left out. The descriptors that 7.20 and 7.29 never close are in the model, but no document promises otherwise.
* Small programs: `pthread_create` failing in 6.29, 6.28 and 7.3; in `5.25/pipe`, `pipe` and `fork` failing. `5.26/namepipe/server.cc` and `client.cc`, the
  version before `newserver` and `newclient`, compare and print a buffer that may never have been filled. `mykill` is whoever sends a signal.
* `7.9/threadPool` does not compile: `thread_pool.hpp:75` calls the member `isEmpty` from a static function, without an object.
* Daemonising and logging (7.19), the non-blocking read (8.6), threads that print ids (6.26, 6.28), libraries, exercises, MySQL: no state that two steps share.

## 7. Plan

Done: the two queues (everything else is built from them), the pool, the process pool, the reactor, the chat server, the
single-threaded servers, the servers with a thread per connection, the small programs; and the proofs of section 4, which cover every
safety invariant, action property and refinement of every run, and say of the queues, the pools and the chat server that they never stand still. What could be added:

1. Theorems of that kind about `EpollServer`, `ThreadServers` and `Programs`, whose steps wait for clients as much as for each other.
2. `7.19/tcp_socket`'s pool as a second instance of `ThreadPool`: in `ThreadServers` it is a queue of connections and workers that take from it, without its lock.
