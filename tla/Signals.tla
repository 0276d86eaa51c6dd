------------------------------ MODULE Signals ------------------------------
(***************************************************************************)
(* The programs that show what signals do (6.9, 6.11, 6.15, 6.18/volatile) *)
(* as tables for one process: which signals have a handler, what else is   *)
(* blocked while it runs, whether it exits, and what main blocks at first. *)
(***************************************************************************)
EXTENDS Naturals, Sequences

CONSTANTS Rounds,       \* rounds of main's loop until it unblocks: 10 in the code
          MaxSignals    \* bound: signals sent by others

VARIABLES
    program,
    pc,         \* "run", "exited" or the signal that ended the process
    blocked, pending,
    handlers,   \* the stack of running handlers: signal and the mask to return to
    round, sent,
    flag        \* of 6.18/volatile

vars == <<program, pc, blocked, pending, handlers, round, sent, flag>>

Kinds == {"INT", "QUIT", "SEGV", "ALRM", "KILL"}

Table(handled, also, exits, masked) ==
    [handled |-> handled, also |-> also, exits |-> exits, masked |-> masked]

pending_cc  == Table({"INT"}, {}, FALSE, {"INT"})
\* Mutant: the handler is installed without sa_mask.
sigact_bare == Table({"INT"}, {}, FALSE, {})

sigact_cc   == Table({"INT"}, {"INT", "QUIT"}, FALSE, {})
sigfunc_cc  == Table({}, {}, FALSE, {"INT"})
segv_cc     == Table({"SEGV"}, {}, TRUE, {})
alarm_cc    == Table({"ALRM"}, {}, TRUE, {})
signal_cc   == Table(Kinds \ {"KILL"}, {}, FALSE, {})
volatile_cc == Table({"INT"}, {}, FALSE, {})

Programs == [pending |-> pending_cc, sigact |-> sigact_cc, sigfunc |-> sigfunc_cc, segv |-> segv_cc,
             alarm |-> alarm_cc, signal |-> signal_cc, volatile |-> volatile_cc]

This == Programs[program]

Init == /\ program \in DOMAIN Programs
        /\ pc = "run" /\ blocked = This.masked /\ pending = {}
        /\ handlers = <<>> /\ round = 0 /\ sent = 0 /\ flag = FALSE

-----------------------------------------------------------------------------
\* kill, as by 6.9/mykill: a bit, so that a second one adds nothing.
MyKill(s) ==
    /\ pc = "run" /\ sent < MaxSignals
    /\ pending' = pending \cup {s} /\ sent' = sent + 1
    /\ UNCHANGED <<program, pc, blocked, handlers, round, flag>>

Deliver(s) ==
    /\ pc = "run" /\ s \in pending \ blocked
    /\ pending' = pending \ {s}
    /\ IF s \in This.handled
       THEN /\ handlers' = Append(handlers, [signal |-> s, mask |-> blocked])
            /\ blocked' = blocked \cup {s} \cup This.also /\ UNCHANGED pc
       ELSE pc' = s /\ UNCHANGED <<handlers, blocked>>
    /\ UNCHANGED <<program, round, sent, flag>>

\* The last handler called goes on to its end.
HandlerEnds ==
    /\ pc = "run" /\ handlers # <<>>
    /\ IF This.exits THEN pc' = "exited" ELSE UNCHANGED pc
    /\ blocked' = handlers[Len(handlers)].mask
    /\ handlers' = SubSeq(handlers, 1, Len(handlers) - 1)
    /\ flag' = (flag \/ program = "volatile")
    /\ UNCHANGED <<program, pending, round, sent>>

\* The tenth round, or the eleventh (cnt++), unblocks.
Main ==
    /\ pc = "run" /\ handlers = <<>> /\ round < Rounds
    /\ round' = round + 1
    /\ blocked' = IF round' = Rounds THEN {} ELSE blocked
    /\ UNCHANGED <<program, pc, pending, handlers, sent, flag>>

\* alarm(1) expires; the null pointer is written to.
Fault ==
    /\ pc = "run" /\ handlers = <<>> /\ round = Rounds
    /\ \/ program = "alarm" /\ pending' = pending \cup {"ALRM"} /\ "ALRM" \notin pending
       \/ program = "segv" /\ pending' = pending \cup {"SEGV"} /\ "SEGV" \notin pending
    /\ UNCHANGED <<program, pc, blocked, handlers, round, sent, flag>>

\* while(!flag), which the compiler may not take out of the loop.
FlagSeen ==
    /\ program = "volatile" /\ pc = "run" /\ handlers = <<>> /\ flag
    /\ pc' = "exited" /\ UNCHANGED <<program, blocked, pending, handlers, round, sent, flag>>

Process == (\E s \in Kinds : Deliver(s)) \/ HandlerEnds \/ Main \/ Fault \/ FlagSeen

Next == Process \/ \E s \in Kinds : MyKill(s)

\* What goes on as long as it can: the process and the kernel's deliveries.
System == Process

-----------------------------------------------------------------------------
(***************************************************************************)
(* A handler that runs is not called again for the same signal, and the    *)
(* one installed with sa_mask comes to its end before a signal of the mask *)
(* is looked at, though that would end the process.                        *)
(***************************************************************************)
Undisturbed ==
    /\ \A i, j \in 1 .. Len(handlers) : handlers[i].signal = handlers[j].signal => i = j
    /\ program = "sigact" /\ pc = "QUIT" => handlers = <<>>

\* A signal that is blocked when it comes waits, and is dealt with in the end.
Settled == pc = "run" => pending = {}
=============================================================================
