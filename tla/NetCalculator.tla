--------------------------- MODULE NetCalculator ---------------------------
(***************************************************************************)
(* 7.20/netCalculator: the calculator server, one detached thread for each *)
(* connection, and the client program, which types a formula, sends it as  *)
(* a package and waits for the package that answers it.  A package crosses *)
(* the connection as two cells, all but its end and its end: TCP may hand  *)
(* them over together or apart, and readPackage must not care.             *)
(***************************************************************************)
EXTENDS Integers, Sequences, FiniteSets

CONSTANTS
    Clients,    \* the client processes
    NumFds,     \* how many connections the server process can hold
    INT_MAX,    \* the greatest int
    Formulas,   \* Formulas[c]: what the user of c types, as splitFormula sees it
    MaxAsk,     \* bound: how many formulas the user of c types is MaxAsk[c]
    Leavers     \* the clients whose user may end them; the others stay

Int32 == -INT_MAX - 1 .. INT_MAX
Modulus == 2 * INT_MAX + 2
Ops == {"+", "-", "*", "/", "%"}
Chars == Ops \cup {"other"}

\* A number of digits, a character, digits, and what may follow.
IsFormula(f) == /\ f.left \in Nat /\ f.right \in Nat
                /\ f.op \in Chars \cup {"none"} /\ f.junk \in BOOLEAN
                /\ f.op = "none" => f.right = 0 /\ ~ f.junk

ASSUME NetCalculatorAssumption ==
    /\ INT_MAX \in Nat /\ NumFds \in Nat /\ MaxAsk \in [Clients -> Nat]
    /\ Leavers \subseteq Clients
    /\ \A c \in Clients : \A f \in Formulas[c] : IsFormula(f)

VARIABLES
    backlog,    \* connections not accepted yet
    alive,      \* "down", "up", "exit" when it could not start, or what killed
                \* the server process
    thread,     \* thread[c]: where the thread that serves c is, "none" without one
    open,       \* the connections the server holds a descriptor for
    toServer,   \* toServer[c], toClient[c]: the cells under way
    toClient,
    link,       \* link[c]: "up"; "fin": c has closed; "reset": with replies
                \* unread; "rst": the connection is known to be gone
    inbuffer,   \* inbuffer[c]: what serviceIO has received and not used
    package,    \* package[c]: the request readPackage has handed out
    cpc,        \* where the client program is
    buffer,     \* buffer[c]: the client's inbuffer
    req,        \* req[c]: the request it sent last
    shown,      \* shown[c]: the response it has shown last
    asked       \* asked[c]: how many requests it has sent

server == <<backlog, alive, thread, open, inbuffer, package>>
client == <<cpc, buffer, req, shown, asked>>
wires == <<toServer, toClient, link>>
vars == <<server, client, wires>>

Nothing == [x |-> 0, y |-> 0, op |-> "other"]

\* A server that is to be started, and clients that are to connect.
InitWith(request) ==
    /\ backlog = <<>> /\ alive = "down" /\ open = {}
    /\ thread = [c \in Clients |-> "none"]
    /\ inbuffer = [c \in Clients |-> <<>>] /\ package = [c \in Clients |-> Nothing]
    /\ toServer = [c \in Clients |-> <<>>] /\ toClient = [c \in Clients |-> <<>>]
    /\ link = [c \in Clients |-> "up"]
    /\ cpc = [c \in Clients |-> "start"] /\ buffer = [c \in Clients |-> <<>>]
    /\ req = [c \in Clients |-> request] /\ shown = [c \in Clients |-> Nothing]
    /\ asked = [c \in Clients |-> 0]

Init == InitWith(Nothing)

-----------------------------------------------------------------------------
(* protocol.hpp and server.cc *)

\* The value an int keeps of n.
ToInt(n) == LET m == n % Modulus IN IF m \in Int32 THEN m ELSE m - Modulus

\* addHeader(serialize(content)).
Cells(content) == <<[of |-> content, end |-> FALSE], [of |-> content, end |-> TRUE]>>

\* What readPackage finds at the front of its buffer.
Complete(buf) == Len(buf) >= 2

\* Division in C rounds towards zero.
Sign(n) == IF n < 0 THEN -1 ELSE 1
Abs(n) == n * Sign(n)
Quotient(x, y) == Sign(x) * Sign(y) * (Abs(x) \div Abs(y))

Response(result, code) == [result |-> result, code |-> code]

calculate(r) ==
    CASE r.op = "+" -> Response(ToInt(r.x + r.y), 0)
      [] r.op = "-" -> Response(ToInt(r.x - r.y), 0)
      [] r.op = "*" -> Response(ToInt(r.x * r.y), 0)
      [] r.op = "/" -> IF r.y = 0 THEN Response(0, 1)
                       ELSE Response(ToInt(Quotient(r.x, r.y)), 0)
      [] r.op = "%" -> IF r.y = 0 THEN Response(0, 2)
                       ELSE Response(r.x - r.y * Quotient(r.x, r.y), 0)
      [] OTHER -> Response(0, 3)

\* The processor traps when a quotient is no int, for the remainder too.
Traps(r) == r.op \in {"/", "%"} /\ r.y # 0 /\ Quotient(r.x, r.y) \notin Int32

-----------------------------------------------------------------------------
(* cal_server.hpp *)

\* init_server: without a socket, the port or the queue the program ends.
InitServer ==
    /\ alive = "down" /\ alive' \in {"up", "exit"}
    /\ UNCHANGED <<backlog, thread, open, inbuffer, package, client, wires>>

\* start_server: a thread for the oldest connection, if it can be created.
Accept ==
    /\ alive = "up" /\ backlog # <<>> /\ Cardinality(open) < NumFds
    /\ backlog' = Tail(backlog)
    /\ open' = open \cup {Head(backlog)}
    /\ \E pc \in {"recv", "none"} : thread' = [thread EXCEPT ![Head(backlog)] = pc]
    /\ UNCHANGED <<alive, inbuffer, package, client, wires>>

\* accept fails for want of a descriptor, or for the length it is given, which
\* nobody has set: in that case the connection is gone.
AcceptError ==
    /\ alive = "up" /\ backlog # <<>>
    /\ backlog' = Tail(backlog)
    /\ link' = [link EXCEPT ![Head(backlog)] = "rst"]
    /\ UNCHANGED <<alive, thread, open, inbuffer, package, client, toServer, toClient>>

\* Mutant: the package stays in the buffer.
ReadPackageKeep(c) ==
    /\ alive = "up" /\ thread[c] = "recv"
    /\ \E k \in 1 .. Len(toServer[c]) :
          LET buf == inbuffer[c] \o SubSeq(toServer[c], 1, k) IN
          /\ toServer' = [toServer EXCEPT ![c] = SubSeq(@, k + 1, Len(@))]
          /\ IF Complete(buf)
             THEN /\ package' = [package EXCEPT ![c] = buf[1].of]
                  /\ inbuffer' = [inbuffer EXCEPT ![c] = buf]
                  /\ thread' = [thread EXCEPT ![c] = "serve"]
             ELSE inbuffer' = [inbuffer EXCEPT ![c] = buf] /\ UNCHANGED <<package, thread>>
    /\ UNCHANGED <<backlog, alive, open, client, toClient, link>>

\* readPackage: one recv, and then a look at the buffer.
ReadPackage(c) ==
    /\ alive = "up" /\ thread[c] = "recv"
    /\ \E k \in 1 .. Len(toServer[c]) :
          LET buf == inbuffer[c] \o SubSeq(toServer[c], 1, k) IN
          /\ toServer' = [toServer EXCEPT ![c] = SubSeq(@, k + 1, Len(@))]
          /\ IF Complete(buf)
             THEN /\ package' = [package EXCEPT ![c] = buf[1].of]
                  /\ inbuffer' = [inbuffer EXCEPT ![c] = SubSeq(buf, 3, Len(buf))]
                  /\ thread' = [thread EXCEPT ![c] = "serve"]
             ELSE inbuffer' = [inbuffer EXCEPT ![c] = buf] /\ UNCHANGED <<package, thread>>
    /\ UNCHANGED <<backlog, alive, open, client, toClient, link>>

\* recv returns 0 or -1: the thread ends, the socket stays open.
ThreadEnd(c) ==
    /\ alive = "up" /\ thread[c] = "recv"
    /\ link[c] # "up" /\ toServer[c] = <<>>
    /\ thread' = [thread EXCEPT ![c] = "ended"]
    /\ UNCHANGED <<backlog, alive, open, inbuffer, package, client, wires>>

Killed(why) == /\ alive' = why
               /\ UNCHANGED <<backlog, thread, open, inbuffer, package, client, wires>>

\* _func divides, and SIGFPE ends the process.
ServeTrap(c) ==
    /\ alive = "up" /\ thread[c] = "serve" /\ Traps(package[c])
    /\ Killed("SIGFPE")

\* The cells are sent.  Those that reach a client which has closed are answered
\* with an RST, and a send after that ends the process; one after an RST that
\* the client sent by itself only fails, the first time.
SendCells(c, cells) ==
    /\ toClient' = [toClient EXCEPT ![c] = IF link[c] = "up" THEN @ \o cells ELSE @]
    /\ \E l \in (IF link[c] = "fin" THEN {"fin", "rst"}
                 ELSE IF link[c] = "reset" THEN {"rst"} ELSE {link[c]}) :
          link' = [link EXCEPT ![c] = l]
    /\ alive' = IF link[c] = "rst" THEN "SIGPIPE" ELSE "up"

Send(c, content) == SendCells(c, Cells(content))

Serve(c) ==
    /\ alive = "up" /\ thread[c] = "serve" /\ ~ Traps(package[c])
    /\ Send(c, calculate(package[c]))
    /\ thread' = [thread EXCEPT ![c] = "recv"]
    /\ UNCHANGED <<backlog, open, inbuffer, package, client, toServer>>

Thread(c) == ReadPackage(c) \/ ThreadEnd(c) \/ ServeTrap(c) \/ Serve(c)

-----------------------------------------------------------------------------
(* client.cc *)

Connect(c) ==
    /\ cpc[c] = "start"
    /\ IF alive = "up"
       THEN /\ backlog' = Append(backlog, c)
            /\ cpc' = [cpc EXCEPT ![c] = "type"]
       ELSE /\ cpc' = [cpc EXCEPT ![c] = "closed"]
            /\ UNCHANGED backlog
    /\ UNCHANGED <<alive, thread, open, inbuffer, package, buffer, req, shown, asked, wires>>

\* What splitFormula makes of f; a formula without an operator leaves op unset.
Requests(f) ==
    [x : {ToInt(f.left)}, y : {ToInt(f.right)}, op : IF f.op = "none" THEN Chars ELSE {f.op}]

\* A character after the second number stops splitFormula in its loop.
TypeJunk(c) ==
    /\ cpc[c] = "type" /\ asked[c] < MaxAsk[c]
    /\ \E f \in Formulas[c] : f.junk
    /\ cpc' = [cpc EXCEPT ![c] = "hung"]
    /\ UNCHANGED <<server, wires, buffer, req, shown, asked>>

\* The request is sent; there may be nobody any more to receive it.
Ask(c) ==
    /\ cpc[c] = "type" /\ asked[c] < MaxAsk[c]
    /\ \E f \in Formulas[c] : ~ f.junk /\ \E r \in Requests(f) :
          /\ req' = [req EXCEPT ![c] = r]
          /\ toServer' = [toServer EXCEPT ![c] =
                IF alive = "up" /\ link[c] = "up" THEN @ \o Cells(r) ELSE @]
    /\ asked' = [asked EXCEPT ![c] = @ + 1]
    /\ cpc' = [cpc EXCEPT ![c] = "wait"]
    /\ UNCHANGED <<server, toClient, link, buffer, shown>>

ReadReply(c) ==
    /\ cpc[c] = "wait"
    /\ \E k \in 1 .. Len(toClient[c]) :
          LET buf == buffer[c] \o SubSeq(toClient[c], 1, k) IN
          /\ toClient' = [toClient EXCEPT ![c] = SubSeq(@, k + 1, Len(@))]
          /\ IF Complete(buf)
             THEN /\ shown' = [shown EXCEPT ![c] = buf[1].of]
                  /\ buffer' = [buffer EXCEPT ![c] = SubSeq(buf, 3, Len(buf))]
                  /\ cpc' = [cpc EXCEPT ![c] = "type"]
             ELSE buffer' = [buffer EXCEPT ![c] = buf] /\ UNCHANGED <<shown, cpc>>
    /\ UNCHANGED <<server, toServer, link, req, asked>>

\* The client reads the end of the connection, or an error.
ServerQuit(c) ==
    /\ cpc[c] = "wait" /\ (alive # "up" \/ link[c] = "rst")
    /\ cpc' = [cpc EXCEPT ![c] = "closed"]
    /\ UNCHANGED <<server, wires, buffer, req, shown, asked>>

\* The user ends the client; the kernel closes its socket.
Quit(c) ==
    /\ c \in Leavers /\ cpc[c] \in {"type", "wait", "hung"}
    /\ cpc' = [cpc EXCEPT ![c] = "closed"]
    /\ link' = [link EXCEPT ![c] = IF @ # "up" THEN @ ELSE IF toClient[c] = <<>> THEN "fin" ELSE "reset"]
    /\ toClient' = [toClient EXCEPT ![c] = <<>>]
    /\ UNCHANGED <<server, toServer, buffer, req, shown, asked>>

Client(c) == Connect(c) \/ TypeJunk(c) \/ Ask(c) \/ ReadReply(c) \/ ServerQuit(c) \/ Quit(c)

Next == InitServer \/ Accept \/ AcceptError \/ \E c \in Clients : Thread(c) \/ Client(c)

Spec == Init /\ [][Next]_vars

-----------------------------------------------------------------------------
\* What a user may expect of the answer to r: the right one, as far as an int
\* can hold it, and a code otherwise.
Answers(r, a) ==
    CASE r.op \in {"+", "-", "*"} ->
            LET exact == CASE r.op = "+" -> r.x + r.y [] r.op = "-" -> r.x - r.y
                           [] r.op = "*" -> r.x * r.y
            IN  a.code = 0 /\ a.result \in Int32 /\ (a.result - exact) % Modulus = 0
      [] r.op \in {"/", "%"} /\ r.y # 0 ->
            /\ a.code = 0
            /\ \E q, rem \in Int32 :
                  /\ r.x = q * r.y + rem /\ Abs(rem) < Abs(r.y) /\ rem * r.x >= 0
                  /\ a.result = IF r.op = "/" THEN q ELSE rem
      [] OTHER -> a.code > 0

\* When the client program asks for the next formula, it has shown the answer to
\* the one before: however the packages were cut and joined, the server and the
\* client never fall out of step.
CalcRight == \A c \in Clients : cpc[c] = "type" /\ asked[c] > 0 => Answers(req[c], shown[c])
=============================================================================
