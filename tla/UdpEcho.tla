------------------------------ MODULE UdpEcho ------------------------------
(***************************************************************************)
(* The two udp servers before the chat server, and their client: 7.16      *)
(* sends back what it gets ("echo"), 7.17 what a shell prints for it       *)
(* ("command").  The client sends a line and blocks until a datagram       *)
(* comes; nobody numbers, repeats or times out.                            *)
(***************************************************************************)
EXTENDS Naturals

CONSTANTS
    UdpClients,
    MaxLines,       \* bound: lines typed by a client
    MaxDups         \* bound: datagrams the network delivers twice

VARIABLES
    program,        \* "echo" or "command"
    pc,             \* of the server and of each client
    net,            \* the datagrams in flight, also those waiting at a socket
    asked, shown,   \* of each client: lines sent; the line whose answer was shown last
    dups, excused   \* of each client: doubled datagrams; whether an answer may be missing

vars == <<program, pc, net, asked, shown, dups, excused>>

Server == "server"

Init == /\ program \in {"echo", "command"}
        /\ pc = [p \in UdpClients \cup {Server} |-> IF p = Server THEN "socket" ELSE "ask"]
        /\ net = {}
        /\ asked = [c \in UdpClients |-> 0] /\ shown = asked
        /\ dups = asked /\ excused = [c \in UdpClients |-> FALSE]

Goto(p, l) == pc' = [pc EXCEPT ![p] = l]

-----------------------------------------------------------------------------
Socket == pc[Server] = "socket" /\ (Goto(Server, "bind") \/ Goto(Server, "exit"))
Bind == pc[Server] = "bind" /\ (Goto(Server, "up") \/ Goto(Server, "exit"))
ServerInit == (Socket \/ Bind) /\ UNCHANGED <<program, net, asked, shown, dups, excused>>

\* A datagram is delivered, and perhaps will be once more.
Received(d) ==
    \/ net' = net \ {d} /\ UNCHANGED dups
    \/ /\ net' = net /\ dups[d.of] < MaxDups
       /\ dups' = [dups EXCEPT ![d.of] = @ + 1]

\* What popen's output, or the echo, is sent as.
Answers == IF program = "echo" THEN {"some"} ELSE {"some", "none", "too long to send"}

\* One round of server_start.  An empty datagram is passed over.
ServerStart(d) ==
    /\ pc[Server] = "up" /\ d \in net /\ d.to = Server
    /\ IF d.text = "none"
       THEN Received(d) /\ UNCHANGED excused
       ELSE \E a \in Answers, left \in BOOLEAN :
               /\ left => dups[d.of] < MaxDups
               /\ dups' = [dups EXCEPT ![d.of] = IF left THEN @ + 1 ELSE @]
               /\ net' = (IF left THEN net ELSE net \ {d}) \cup
                            (IF a \in {"some", "none"} THEN {[d EXCEPT !.to = d.of, !.text = a]} ELSE {})
               /\ excused' = [excused EXCEPT ![d.of] = @ \/ a = "too long to send"]
    /\ UNCHANGED <<program, pc, asked, shown>>

ServerRound == \E d \in net : ServerStart(d)

\* popen fails; fgets then takes its null pointer.
PopenFails ==
    /\ program = "command" /\ pc[Server] = "up"
    /\ \E d \in net : d.to = Server /\ d.text = "some"
    /\ Goto(Server, "crashed")
    /\ UNCHANGED <<program, net, asked, shown, dups, excused>>

\* Mutant: the client types on while an answer is outstanding.
AskAnyTime(c) ==
    /\ pc[c] \in {"ask", "wait"} /\ asked[c] < MaxLines
    /\ \E t \in {"some", "none"} :
          /\ net' = net \cup {[to |-> Server, of |-> c, line |-> asked[c] + 1, text |-> t]}
          /\ excused' = [excused EXCEPT ![c] = @ \/ t = "none"]
    /\ asked' = [asked EXCEPT ![c] = @ + 1]
    /\ Goto(c, "wait") /\ UNCHANGED <<program, shown, dups>>

\* An empty line, and the end of the input, send an empty datagram.
Ask(c) ==
    /\ pc[c] = "ask" /\ asked[c] < MaxLines
    /\ \E t \in {"some", "none"} :
          /\ net' = net \cup {[to |-> Server, of |-> c, line |-> asked[c] + 1, text |-> t]}
          /\ excused' = [excused EXCEPT ![c] = @ \/ t = "none"]
    /\ asked' = [asked EXCEPT ![c] = @ + 1]
    /\ Goto(c, "wait") /\ UNCHANGED <<program, shown, dups>>

Receive(c) ==
    /\ pc[c] = "wait"
    /\ \E d \in net : d.to = c /\ Received(d) /\ shown' = [shown EXCEPT ![c] = d.line]
    /\ Goto(c, "ask") /\ UNCHANGED <<program, asked, excused>>

Client(c) == Ask(c) \/ Receive(c)

Lose(d) == /\ net' = net \ {d} /\ excused' = [excused EXCEPT ![d.of] = TRUE]
           /\ UNCHANGED <<program, pc, asked, shown, dups>>

Next == \/ ServerInit \/ PopenFails
        \/ ServerRound \/ \E d \in net : Lose(d)
        \/ \E c \in UdpClients : Client(c)

\* What goes on as long as it can: the server, and a client that waits.
System == ServerInit \/ ServerRound \/ \E c \in UdpClients : Receive(c)

-----------------------------------------------------------------------------
(***************************************************************************)
(* The client shows, for the line just typed, the answer to that line,     *)
(* unless the network doubled one of its datagrams before; a lost one      *)
(* makes it wait for ever rather than get out of step.                     *)
(***************************************************************************)
InStep == \A c \in UdpClients :
             /\ shown[c] <= asked[c]
             /\ pc[c] = "ask" /\ dups[c] = 0 => shown[c] = asked[c]

\* A line is answered unless it is empty, a datagram of the client was lost,
\* the output does not fit one, or the server never came up or crashed.
Settled == \A c \in UdpClients :
              pc[c] = "ask" \/ excused[c] \/ pc[Server] \in {"exit", "crashed"}
=============================================================================
