--------------------------- MODULE ThreadServers ---------------------------
(***************************************************************************)
(* The servers that serve every connection in a thread: the calculator,    *)
(* the echo server of 7.18, the one of 7.19, whose threads are a pool, and *)
(* the web servers of 7.22 and 7.29.  kind says which one runs, with which *)
(* clients.  A line or a request crosses the connection as two cells, as a *)
(* package does.                                                           *)
(***************************************************************************)
EXTENDS NetCalculator, SequencesExt

CONSTANTS
    Workers,    \* the threads of the pool
    Retries,    \* how often a client of the echo servers tries to connect
    Pages,      \* the files under wwwroot
    Asks        \* Asks[c]: what a browser asks for, once

ASSUME ThreadServersAssumption ==
    /\ Retries \in Nat \ {0} /\ IsFiniteSet(Workers) /\ Workers # {} /\ Workers \cap Clients = {}
    /\ \A c \in Clients : \A r \in Asks[c] : r.body \in BOOLEAN

VARIABLES
    kind,
    tasks,      \* the pool's queue: connections that wait for a worker
    worker,     \* worker[w]: "none" before the pool exists, "absent" if its thread
                \* could not be created, "wait" on the condition, "ready", or its client
    cut,        \* the clients with a line or a request read in more than one piece
    tries       \* tries[c]: the failed connects of an echo client

own == <<kind, tasks, worker, cut, tries>>
allVars == <<vars, own>>

EchoKinds == {"thread", "pool"}
HttpKinds == {"http", "http_keep"}

ServersInit ==
    /\ kind \in {"calc", "http_wild"} \cup EchoKinds \cup HttpKinds
    /\ tasks = <<>> /\ worker = [w \in Workers |-> "none"] /\ cut = {}
    /\ tries = [c \in Clients |-> 0]
    /\ InitWith(IF kind \in EchoKinds THEN 0 ELSE Nothing)

CalcStep == kind = "calc" /\ Next /\ UNCHANGED own

\* Starting the server, and accepting with a thread for the connection if it can
\* be created, is the same in all of them but the pool.
InitEcho == kind = "thread" /\ InitServer /\ UNCHANGED own
InitPoolServer == kind = "pool" /\ InitServer /\ UNCHANGED own
InitHttp == kind \in HttpKinds /\ InitServer /\ UNCHANGED own
InitWild == kind = "http_wild" /\ InitServer /\ UNCHANGED own

AcceptEcho == kind = "thread" /\ (Accept \/ AcceptError) /\ UNCHANGED own
AcceptHttp == kind \in HttpKinds /\ (Accept \/ AcceptError) /\ UNCHANGED own
AcceptWild == kind = "http_wild" /\ (Accept \/ AcceptError) /\ UNCHANGED own

-----------------------------------------------------------------------------
(* 7.19: the pool *)

\* A thread that pthread_create does not create is reported, and the pool goes on.
startRunning(created) == [w \in Workers |-> IF w \in created THEN "ready" ELSE "absent"]

\* get_instance: the first caller makes the pool and starts its threads.
GetInstance == IF \A w \in Workers : worker[w] = "none"
               THEN {startRunning(created) : created \in SUBSET Workers}
               ELSE {worker}

\* Mutant: nobody is woken.
PushTaskSilent(c) == tasks' = Append(tasks, c) /\ worker' \in GetInstance

\* pushTask wakes one thread, if one waits.
PushTask(c) ==
    /\ tasks' = Append(tasks, c)
    /\ IF \E w \in Workers : worker[w] = "wait"
       THEN \E w \in Workers : worker[w] = "wait" /\ worker' = [worker EXCEPT ![w] = "ready"]
       ELSE worker' \in GetInstance

AcceptTask ==
    /\ kind = "pool" /\ alive = "up" /\ backlog # <<>> /\ Cardinality(open) < NumFds
    /\ backlog' = Tail(backlog)
    /\ open' = open \cup {Head(backlog)}
    /\ thread' = [thread EXCEPT ![Head(backlog)] = "queued"]
    /\ PushTask(Head(backlog))
    /\ UNCHANGED <<alive, inbuffer, package, client, wires, kind, cut, tries>>

AcceptTaskError == kind = "pool" /\ AcceptError /\ UNCHANGED own

\* popTask, with the lock held.
PopTask(w) ==
    /\ tasks # <<>>
    /\ worker' = [worker EXCEPT ![w] = Head(tasks)]
    /\ thread' = [thread EXCEPT ![Head(tasks)] = "recv"]
    /\ tasks' = Tail(tasks)

\* threadWait, which may also end by itself.
ThreadWait(w) ==
    /\ tasks = <<>> \/ worker[w] = "wait"
    /\ worker' = [worker EXCEPT ![w] = IF @ = "wait" THEN "ready" ELSE "wait"]
    /\ UNCHANGED <<thread, tasks>>

\* thread_func: a worker takes a task, or waits for one.
ThreadFunc(w) ==
    /\ alive = "up"
    /\ (worker[w] = "ready" /\ PopTask(w)) \/ (worker[w] \in {"ready", "wait"} /\ ThreadWait(w))
    /\ UNCHANGED <<backlog, alive, open, inbuffer, package, client, wires, kind, cut, tries>>

-----------------------------------------------------------------------------
(* 7.18 and 7.19: service *)

\* One read takes what has come; what it takes may end within a line.
EchoRead(c) ==
    /\ kind \in EchoKinds /\ alive = "up" /\ thread[c] = "recv"
    /\ \E k \in 1 .. Len(toServer[c]) :
          /\ inbuffer' = [inbuffer EXCEPT ![c] = SubSeq(toServer[c], 1, k)]
          /\ toServer' = [toServer EXCEPT ![c] = SubSeq(@, k + 1, Len(@))]
          /\ cut' = IF toServer[c][k].end THEN cut ELSE cut \cup {c}
    /\ thread' = [thread EXCEPT ![c] = "serve"]
    /\ UNCHANGED <<backlog, alive, open, package, client, toClient, link, kind, tasks, worker, tries>>

EchoWrite(c) ==
    /\ kind \in EchoKinds /\ alive = "up" /\ thread[c] = "serve"
    /\ SendCells(c, inbuffer[c])
    /\ inbuffer' = [inbuffer EXCEPT ![c] = <<>>]
    /\ thread' = [thread EXCEPT ![c] = "recv"]
    /\ UNCHANGED <<backlog, open, package, client, toServer, own>>

\* Mutant: the descriptor is not closed.
EchoEndLeak(c) ==
    /\ kind \in EchoKinds /\ ThreadEnd(c)
    /\ worker' = [w \in Workers |-> IF worker[w] = c THEN "ready" ELSE worker[w]]
    /\ UNCHANGED <<kind, tasks, cut, tries>>

\* read returns 0 or -1: service closes the connection and returns, the thread
\* of 7.18 ends, and a worker of 7.19 goes for the next task.
EchoEnd(c) ==
    /\ kind \in EchoKinds /\ alive = "up" /\ thread[c] = "recv"
    /\ link[c] # "up" /\ toServer[c] = <<>>
    /\ thread' = [thread EXCEPT ![c] = "ended"]
    /\ open' = open \ {c}
    /\ worker' = [w \in Workers |-> IF worker[w] = c THEN "ready" ELSE worker[w]]
    /\ UNCHANGED <<backlog, alive, inbuffer, package, client, wires, kind, tasks, cut, tries>>

Service(c) == EchoRead(c) \/ EchoWrite(c) \/ EchoEnd(c)

-----------------------------------------------------------------------------
(* tcp_client.cc, the same for both *)

\* connect is tried Retries times.
EchoConnect(c) ==
    /\ kind \in EchoKinds
    /\ \/ alive = "up" /\ Connect(c) /\ tries' = [tries EXCEPT ![c] = 0]
       \/ /\ alive # "up" /\ cpc[c] = "start"
          /\ tries' = [tries EXCEPT ![c] = @ + 1]
          /\ cpc' = [cpc EXCEPT ![c] = IF tries[c] + 1 = Retries THEN "closed" ELSE @]
          /\ UNCHANGED <<server, buffer, req, shown, asked, wires>>
    /\ UNCHANGED <<kind, tasks, worker, cut>>

\* A line is typed and sent; of an empty one nothing is, and the answer is
\* waited for all the same.
EchoAsk(c) ==
    /\ kind \in EchoKinds /\ cpc[c] = "type" /\ asked[c] < MaxAsk[c]
    /\ asked' = [asked EXCEPT ![c] = @ + 1]
    /\ cpc' = [cpc EXCEPT ![c] = "wait"]
    /\ \/ UNCHANGED <<req, toServer>>
       \/ /\ req' = [req EXCEPT ![c] = @ + 1]
          /\ toServer' = [toServer EXCEPT ![c] =
                IF alive = "up" /\ link[c] = "up" THEN @ \o Cells(req[c] + 1) ELSE @]
    /\ UNCHANGED <<server, toClient, link, buffer, shown, own>>

\* One read, and what it returns is shown.
EchoReply(c) ==
    /\ kind \in EchoKinds /\ cpc[c] = "wait"
    /\ \E k \in 1 .. Len(toClient[c]) :
          /\ buffer' = [buffer EXCEPT ![c] = @ \o SubSeq(toClient[c], 1, k)]
          /\ toClient' = [toClient EXCEPT ![c] = SubSeq(@, k + 1, Len(@))]
          /\ cut' = IF toClient[c][k].end THEN cut ELSE cut \cup {c}
    /\ cpc' = [cpc EXCEPT ![c] = "type"]
    /\ UNCHANGED <<server, toServer, link, req, shown, asked, kind, tasks, worker, tries>>

EchoQuit(c) == kind \in EchoKinds /\ (ServerQuit(c) \/ Quit(c)) /\ UNCHANGED own

EchoClient(c) == EchoConnect(c) \/ EchoAsk(c) \/ EchoReply(c) \/ EchoQuit(c)

-----------------------------------------------------------------------------
(* 7.22 and 7.29: the web servers *)

\* One recv takes what has come of the request; it has a url and may have a body,
\* which no line break ends.
HttpRecv(c) ==
    /\ kind \in HttpKinds /\ alive = "up" /\ thread[c] = "recv"
    /\ \E k \in 1 .. Len(toServer[c]) :
          /\ inbuffer' = [inbuffer EXCEPT ![c] = SubSeq(toServer[c], 1, k)]
          /\ toServer' = [toServer EXCEPT ![c] = SubSeq(@, k + 1, Len(@))]
          /\ cut' = IF toServer[c][k].end THEN cut ELSE cut \cup {c}
    /\ thread' = [thread EXCEPT ![c] = "serve"]
    /\ UNCHANGED <<backlog, alive, open, package, client, toClient, link, kind, tasks, worker, tries>>

\* Desarialize takes line after line off the request until it is empty, which it
\* never is when its end is not the end of a line: every turn adds an empty line
\* to the body, until there is no memory left.
Unended(c) == inbuffer[c][1].of.body \/ c \in cut

Desarialize(c) ==
    /\ kind \in HttpKinds /\ alive = "up" /\ thread[c] = "serve" /\ Unended(c)
    /\ thread' = [thread EXCEPT ![c] = "spin"]
    /\ UNCHANGED <<backlog, alive, open, inbuffer, package, client, wires, own>>

BadAlloc(c) ==
    /\ kind \in HttpKinds /\ alive = "up" /\ thread[c] = "spin"
    /\ Killed("bad_alloc") /\ UNCHANGED own

\* readFile: a file that exists has its size reserved first, and is as blank as that
\* where open fails, for want of a descriptor in the process or in the system
\* (other threads have files open too), or read does, which nobody looks at.
ReadFile(url) ==
    IF url \notin Pages THEN {[content |-> "none", found |-> FALSE]}
    ELSE {[content |-> "blank", found |-> FALSE]}
         \cup (IF Cardinality(open) < NumFds THEN [content : {url, "blank"}, found : {TRUE}] ELSE {})

HttpResponses(r) == {Response(f.content, IF f.found THEN 200 ELSE 404) : f \in ReadFile(r.url)}

\* Mutant: the header and the page are sent apart.
HttpServeTwice(c) ==
    /\ kind \in HttpKinds /\ alive = "up" /\ thread[c] = "serve"
    /\ Len(inbuffer[c]) = 2 => ~ inbuffer[c][1].of.body
    /\ \E response \in HttpResponses(inbuffer[c][1].of) : Send(c, response)
    /\ \E pc \in {"serve", "close"} : thread' = [thread EXCEPT ![c] = pc]
    /\ UNCHANGED <<backlog, open, inbuffer, package, client, toServer, own>>

\* handlerHttpRequest: the answer to a request that ends with a line, or was cut
\* after one, is sent.
HttpServe(c) ==
    /\ kind \in HttpKinds /\ alive = "up" /\ thread[c] = "serve"
    /\ Len(inbuffer[c]) = 2 => ~ inbuffer[c][1].of.body
    /\ \E response \in HttpResponses(inbuffer[c][1].of) : Send(c, response)
    /\ thread' = [thread EXCEPT ![c] = "close"]
    /\ inbuffer' = [inbuffer EXCEPT ![c] = <<>>]
    /\ UNCHANGED <<backlog, open, package, client, toServer, own>>

HttpClientQuit(c) ==
    /\ kind \in HttpKinds /\ alive = "up" /\ thread[c] = "recv"
    /\ link[c] # "up" /\ toServer[c] = <<>>
    /\ thread' = [thread EXCEPT ![c] = "close"]
    /\ UNCHANGED <<backlog, alive, open, inbuffer, package, client, wires, own>>

\* threadRoutine closes the connection: with data unread that may cost the client
\* its answer.
HttpClose(c) ==
    /\ kind = "http" /\ alive = "up" /\ thread[c] = "close"
    /\ thread' = [thread EXCEPT ![c] = "ended"]
    /\ open' = open \ {c}
    /\ \E cells \in {toClient[c]} \cup (IF toServer[c] = <<>> THEN {} ELSE {<<>>}) :
          toClient' = [toClient EXCEPT ![c] = cells]
    /\ UNCHANGED <<backlog, alive, inbuffer, package, client, toServer, link, own>>

\* In 7.29 the call of close is commented out.
HttpKeep(c) ==
    /\ kind = "http_keep" /\ alive = "up" /\ thread[c] = "close"
    /\ thread' = [thread EXCEPT ![c] = "ended"]
    /\ UNCHANGED <<backlog, alive, open, inbuffer, package, client, wires, own>>

\* 7.22/httpServer-0 never fills in the threadData: its thread crashes, or fails
\* to receive from some number and closes that, whosever it is.
WildThread(c) ==
    /\ kind = "http_wild" /\ alive = "up" /\ thread[c] = "recv"
    /\ \/ Killed("SIGSEGV")
       \/ /\ thread' = [thread EXCEPT ![c] = "ended"]
          /\ \E x \in {{}} \cup {{d} : d \in open} : open' = open \ x
          /\ UNCHANGED <<backlog, alive, inbuffer, package, client, wires>>
    /\ UNCHANGED own

HttpThread(c) == \/ HttpRecv(c) \/ Desarialize(c) \/ BadAlloc(c) \/ HttpServe(c)
                 \/ HttpClientQuit(c) \/ HttpClose(c) \/ HttpKeep(c) \/ WildThread(c)

-----------------------------------------------------------------------------
(* A browser *)

BrowserConnect(c) == kind \in {"http_wild"} \cup HttpKinds /\ Connect(c) /\ UNCHANGED own

BrowserAsk(c) ==
    /\ kind \in {"http_wild"} \cup HttpKinds /\ cpc[c] = "type" /\ asked[c] = 0
    /\ asked' = [asked EXCEPT ![c] = 1]
    /\ cpc' = [cpc EXCEPT ![c] = "wait"]
    /\ \E r \in Asks[c] :
          /\ req' = [req EXCEPT ![c] = r]
          /\ toServer' = [toServer EXCEPT ![c] =
                IF alive = "up" /\ link[c] = "up" THEN Cells(r) ELSE @]
    /\ UNCHANGED <<server, toClient, link, buffer, shown, own>>

BrowserRead(c) ==
    /\ kind \in HttpKinds /\ cpc[c] = "wait" /\ Complete(toClient[c])
    /\ shown' = [shown EXCEPT ![c] = toClient[c][1].of]
    /\ toClient' = [toClient EXCEPT ![c] = <<>>]
    /\ cpc' = [cpc EXCEPT ![c] = "done"]
    /\ UNCHANGED <<server, toServer, link, buffer, req, asked, own>>

\* The connection ends without an answer.
BrowserEof(c) ==
    /\ kind \in {"http_wild"} \cup HttpKinds
    /\ \/ ServerQuit(c)
       \/ /\ cpc[c] = "wait" /\ thread[c] = "ended" /\ c \notin open /\ toClient[c] = <<>>
          /\ cpc' = [cpc EXCEPT ![c] = "closed"]
          /\ UNCHANGED <<server, wires, buffer, req, shown, asked>>
    /\ UNCHANGED own

\* The user has enough.
BrowserQuit(c) == kind \in {"http_wild"} \cup HttpKinds /\ Quit(c) /\ UNCHANGED own

Browser(c) == \/ BrowserConnect(c) \/ BrowserAsk(c) \/ BrowserRead(c)
              \/ BrowserEof(c) \/ BrowserQuit(c)

-----------------------------------------------------------------------------
ServersNext ==
    \/ InitEcho \/ InitPoolServer \/ InitHttp \/ InitWild
    \/ CalcStep \/ AcceptEcho \/ AcceptHttp \/ AcceptWild \/ AcceptTask \/ AcceptTaskError
    \/ \E w \in Workers : ThreadFunc(w)
    \/ \E c \in Clients : Service(c) \/ EchoClient(c) \/ HttpThread(c) \/ Browser(c)

ServersSpec == ServersInit /\ [][ServersNext]_allVars

\* Threads keep running, and so do the clients' programs, not their users.  A
\* worker that only wakes up by itself makes no progress.
ServerThread(c) == (kind = "calc" /\ Thread(c) /\ UNCHANGED own) \/ Service(c) \/ HttpThread(c)

ClientProgram(c) ==
    \/ kind = "calc" /\ (ReadReply(c) \/ ServerQuit(c)) /\ UNCHANGED own
    \/ EchoReply(c) \/ (kind \in EchoKinds /\ ServerQuit(c) /\ UNCHANGED own)
    \/ BrowserRead(c) \/ BrowserEof(c)

ServersFairSpec ==
    /\ ServersSpec
    /\ \A w \in Workers : WF_allVars(worker[w] = "ready" /\ ThreadFunc(w))
    /\ \A c \in Clients : WF_allVars(ServerThread(c)) /\ WF_allVars(ClientProgram(c))

-----------------------------------------------------------------------------
\* The lines c has sent, as they cross the connection.
Stream(c) == [i \in 1 .. 2 * req[c] |-> [of |-> (i + 1) \div 2, end |-> i % 2 = 0]]

\* The echo: nothing is lost, doubled or another client's, and what is shown
\* after a line is its echo, unless one was read in pieces.
EchoRight ==
    \A c \in Clients :
        /\ Len(buffer[c]) <= 2 * req[c] /\ buffer[c] = SubSeq(Stream(c), 1, Len(buffer[c]))
        /\ cpc[c] = "type" /\ c \notin cut => Len(buffer[c]) = 2 * req[c]

\* A page that is there is answered with it, or, when its file could not be opened
\* or read, with as many NULs, under either status.
PageOrBlank(r) ==
    IF r.url \in Pages THEN {Response(r.url, 200), Response("blank", 200), Response("blank", 404)}
    ELSE {Response("none", 404)}

HttpRight == \A c \in Clients : cpc[c] = "done" => shown[c] \in PageOrBlank(req[c])

(***************************************************************************)
(* What a client shows is the answer to what it asked last: the right      *)
(* result, the echo, the page that was asked for (blank when the server    *)
(* cannot get at the file, for which it may say 404), or 404 for one that  *)
(* is not there; the answers of clients served at the same time are never  *)
(* mixed up, and no client falls out of step.                              *)
(***************************************************************************)
Truthful == CASE kind = "calc" -> CalcRight
              [] kind \in EchoKinds -> EchoRight
              [] OTHER -> HttpRight

\* The one division of ints whose quotient is no int.
Overflows(r) == r.op \in {"/", "%"} /\ r.x = -INT_MAX - 1 /\ r.y = -1

(***************************************************************************)
(* What ends a server that is up.  A client that ends at any moment does   *)
(* not take the server with it, although nobody handles SIGPIPE (7.19's    *)
(* Daemon would, but is never called): every server sends once to a client *)
(* that has closed, except the echo servers when its last line arrives in  *)
(* pieces.  Of all requests only INT_MIN / -1 and INT_MIN % -1 end the     *)
(* calculator, and only one that does not end with a line, or came in      *)
(* pieces, ends a web server.                                              *)
(***************************************************************************)
Survives ==
    CASE alive = "SIGPIPE" -> kind \in EchoKinds /\ \E c \in cut : cpc[c] = "closed"
      [] alive = "SIGFPE" -> /\ kind = "calc"
                             /\ \E c \in Clients : thread[c] = "serve" /\ Overflows(package[c])
      [] alive = "bad_alloc" -> /\ kind \in HttpKinds
                                /\ \E c \in Clients : thread[c] = "spin" /\ Unended(c)
      [] OTHER -> alive \in {"down", "up", "exit"} \/ (alive = "SIGSEGV" /\ kind = "http_wild")

\* Is anything of c under way, or with the thread that serves it?
Outstanding(c) == toServer[c] # <<>> \/ inbuffer[c] # <<>> \/ toClient[c] # <<>>

\* Every worker that could be created has a client that stays.
PoolBusy == \A w \in Workers : \/ worker[w] = "absent"
                               \/ worker[w] \in Clients /\ cpc[worker[w]] # "closed"

(***************************************************************************)
(* A client whose connection got a thread does not wait for ever for the   *)
(* answer.  What it may have to wait for is, in 7.19, that one of the      *)
(* clients which occupy the workers leaves, in vain if no worker could be  *)
(* created; what is never answered is a request Desarialize does not get   *)
(* to the end of.  Of an empty line a client of 7.18 and 7.19 sends        *)
(* nothing, and waits for ever: for an echo the property asks only when    *)
(* something is under way.                                                 *)
(***************************************************************************)
AllAnswered ==
    \A c \in Clients :
        (/\ cpc[c] = "wait" /\ thread[c] # "none" /\ kind # "http_wild"
         /\ kind \in EchoKinds => Outstanding(c))
            ~> (cpc[c] # "wait" \/ thread[c] = "spin" \/ (c \in ToSet(tasks) /\ PoolBusy))

(***************************************************************************)
(* The descriptor of a client that has closed is given back, in the        *)
(* servers that close it: with a thread for every connection, or a worker, *)
(* none is forgotten.  One still in the pool's queue has to wait until a   *)
(* worker is free, for ever if none could be created.                      *)
(***************************************************************************)
Reclaimed ==
    \A c \in Clients :
        (/\ kind \in EchoKinds \cup {"http"}
         /\ cpc[c] = "closed" /\ c \in open /\ thread[c] # "none")
            ~> (c \notin open \/ alive # "up" \/ thread[c] = "spin" \/ (c \in ToSet(tasks) /\ PoolBusy))
=============================================================================
