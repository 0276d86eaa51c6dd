-------------------------- MODULE MCThreadServers --------------------------
(***************************************************************************)
(* An instance of ThreadServers for TLC.  The calculator has ints of three *)
(* bits, -4 .. 3, and formulas for the ways through splitFormula and       *)
(* calculate.  The user of c3 types nothing: it is the client the          *)
(* descriptors or the workers do not suffice for, or takes them from       *)
(* another.                                                                *)
(***************************************************************************)
EXTENDS ThreadServers

CONSTANTS c1, c2, c3

MCMaxAsk == (c1 :> 2) @@ (c2 :> 1) @@ (c3 :> 0)

F(l, o, r) == [left |-> l, op |-> o, right |-> r, junk |-> FALSE]

\* 4 is read as -4, 7 as -1: 4/7 has no quotient, 5%2 a negative remainder.
MCFormulas ==
    (c1 :> {F(4, "/", 7), F(5, "%", 2)}) @@ (c3 :> {})
    @@ (c2 :> {F(2, "/", 0), F(3, "none", 0), [F(1, "*", 1) EXCEPT !.junk = TRUE]})

Get(u) == [url |-> u, body |-> FALSE]

MCAsks == (c1 :> {Get("index"), Get("missing")})
          @@ (c2 :> {Get("index"), [Get("index") EXCEPT !.body = TRUE]}) @@ (c3 :> {})
=============================================================================
