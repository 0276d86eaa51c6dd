----------------------------- MODULE NamedPipe -----------------------------
(***************************************************************************)
(* 5.26/namepipe, newserver and newclient: the server makes the fifo, the  *)
(* clients open it, and write each line in a buffer of NUM bytes; the      *)
(* server reads at most NUM - 1.  A line with its terminator fits in       *)
(* NUM - 1 bytes.                                                          *)
(***************************************************************************)
EXTENDS Naturals, Sequences, SequencesExt

CONSTANTS
    Writers,        \* the clients
    NUM,            \* bytes in a message
    MaxTyped,       \* bound: lines of each client
    MaxQueued       \* messages the pipe holds

VARIABLES
    pc,             \* of the server and each client
    fifo,           \* whether the file exists
    pipe,           \* the bytes in the pipe
    last,           \* of each client: the last byte of its buffer, which nobody sets
    typed,          \* of each client: lines written
    printed,        \* the bytes the server has printed as a text of their own
    prompt          \* the lines that were written into an empty pipe

vars == <<pc, fifo, pipe, last, typed, printed, prompt>>

Server == "server"
\* A byte of the pipe stands for the text of a line, <<client, number>>, or is
NUL == <<>>
Junk == <<"junk">>

Init == /\ pc = [p \in Writers \cup {Server} |-> "start"]
        /\ fifo \in BOOLEAN         \* left by a server that was interrupted, or not there
        /\ pipe = <<>> /\ printed = {} /\ prompt = {}
        /\ typed = [c \in Writers |-> 0]
        /\ last \in [Writers -> {NUL, Junk}]

Goto(p, l) == pc' = [pc EXCEPT ![p] = l]
Writing == {c \in Writers : pc[c] \in {"up", "eof"}}

-----------------------------------------------------------------------------
(* The server *)

MakeFifo ==
    /\ pc[Server] = "start"
    /\ IF fifo THEN Goto(Server, "failed") ELSE Goto(Server, "open")
    /\ fifo' = TRUE
    /\ UNCHANGED <<pipe, last, typed, printed, prompt>>

\* open returns once a client has opened the other end.
OpenRead ==
    /\ pc[Server] = "open" /\ \E c \in Writers : pc[c] \in {"open", "up", "eof", "done"}
    /\ Goto(Server, "up") /\ UNCHANGED <<fifo, pipe, last, typed, printed, prompt>>

\* The bytes read are printed up to the first NUL.
Text(bytes) == SubSeq(bytes, 1, SelectInSeq(bytes \o <<NUL>>, LAMBDA b : b = NUL) - 1)

Read ==
    /\ pc[Server] = "up" /\ pipe # <<>>
    /\ LET n == IF Len(pipe) < NUM - 1 THEN Len(pipe) ELSE NUM - 1
           text == Text(SubSeq(pipe, 1, n))
       IN  /\ printed' = printed \cup IF Len(text) = 1 THEN {text[1]} ELSE {}
           /\ pipe' = SubSeq(pipe, n + 1, Len(pipe))
    /\ UNCHANGED <<pc, fifo, last, typed, prompt>>

ReadEnd ==
    /\ pc[Server] = "up" /\ pipe = <<>> /\ Writing = {}
    /\ Goto(Server, "close") /\ UNCHANGED <<fifo, pipe, last, typed, printed, prompt>>

\* Bytes that a client wrote meanwhile are gone.
CloseRead ==
    /\ pc[Server] = "close"
    /\ pipe' = <<>> /\ Goto(Server, "unlink") /\ UNCHANGED <<fifo, last, typed, printed, prompt>>

Unlink ==
    /\ pc[Server] = "unlink"
    /\ fifo' = FALSE /\ Goto(Server, "done") /\ UNCHANGED <<pipe, last, typed, printed, prompt>>

NewServer == MakeFifo \/ OpenRead \/ Read \/ ReadEnd \/ CloseRead \/ Unlink

-----------------------------------------------------------------------------
(* A client *)

\* Without the file open fails; with it, it waits for a reader.
Open(c) ==
    /\ \/ pc[c] = "start" /\ Goto(c, IF fifo THEN "open" ELSE "failed")
       \/ pc[c] = "open" /\ pc[Server] \in {"open", "up", "close"} /\ Goto(c, "up")
    /\ UNCHANGED <<fifo, pipe, last, typed, printed, prompt>>

\* Mutant: without the terminator and what follows it.
MessageText(c, text) == text

Message(c, text) == text \o [i \in 1 .. NUM - 1 - Len(text) |-> NUL] \o <<last[c]>>

\* With no reader left the write raises SIGPIPE.
Write(c) ==
    /\ pc[c] = "up" /\ typed[c] < MaxTyped
    /\ LET line == <<c, typed[c] + 1>>
       IN  IF pc[Server] \notin {"open", "up", "close"}
           THEN Goto(c, "killed") /\ UNCHANGED <<pipe, typed, prompt>>
           ELSE /\ Len(pipe) + NUM <= MaxQueued * NUM
                /\ pipe' = pipe \o Message(c, <<line>>)
                /\ prompt' = IF pipe = <<>> THEN prompt \cup {line} ELSE prompt
                /\ typed' = [typed EXCEPT ![c] = @ + 1]
                /\ UNCHANGED pc
    /\ UNCHANGED <<fifo, last, printed>>

\* At the end of the input fgets leaves the buffer alone, and the loop goes
\* on: each round cuts a character off the last line and writes it again.
InputEnds(c) ==
    /\ pc[c] = "up" /\ Goto(c, "eof")
    /\ UNCHANGED <<fifo, pipe, last, typed, printed, prompt>>

WriteAgain(c) ==
    /\ pc[c] = "eof"
    /\ IF pc[Server] \notin {"open", "up", "close"}
       THEN Goto(c, "killed") /\ UNCHANGED pipe
       ELSE /\ Len(pipe) + NUM <= MaxQueued * NUM
            /\ pipe' = pipe \o Message(c, <<>>)
            /\ UNCHANGED pc
    /\ UNCHANGED <<fifo, last, typed, printed, prompt>>

\* "quit" is typed, or left over when a character is cut off.
QuitTyped(c) ==
    /\ pc[c] \in {"up", "eof"} /\ Goto(c, "done")
    /\ UNCHANGED <<fifo, pipe, last, typed, printed, prompt>>

NewClient(c) == Open(c) \/ Write(c) \/ InputEnds(c) \/ WriteAgain(c) \/ QuitTyped(c)

Next == NewServer \/ \E c \in Writers : NewClient(c)

\* What goes on as long as it can: the server.
System == NewServer

-----------------------------------------------------------------------------
(***************************************************************************)
(* The server reads one byte less than a client writes, so the bytes get   *)
(* out of step; yet a line is only lost, or printed with a foreign byte    *)
(* before it, if the server was behind when it was written.                *)
(***************************************************************************)
LostOnlyIfBehind ==
    pc[Server] = "up" /\ pipe = <<>> => prompt \subseteq printed

\* When every client has ended, the server ends and takes the fifo away.
Settled == \/ pc[Server] = "failed" \/ (pc[Server] = "done" /\ ~ fifo)
           \/ pc[Server] = "open" \/ Writing # {}
=============================================================================
