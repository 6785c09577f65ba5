--------------------------- MODULE MCEventStream ---------------------------
(***************************************************************************)
(* An instance of EventStream for TLC: sends that time out and tokens that *)
(* are refused, restarts, restarts with broken connections or before the   *)
(* first one, and answers in another order, each in behaviours of their    *)
(* own.  In all of them any dashboard request may fail.                    *)
(***************************************************************************)
EXTENDS EventStream

MCPlans ==
    {[faults |-> {"slow", "token"}, events |-> 2, asks |-> 1],
     [faults |-> {"stop"}, events |-> 2, asks |-> 1],
     [faults |-> {"stop"}, events |-> 1, asks |-> 2],
     [faults |-> {"stop", "break"}, events |-> 1, asks |-> 1],
     [faults |-> {"stop", "early"}, events |-> 1, asks |-> 1],
     [faults |-> {"overtake"}, events |-> 2, asks |-> 2]}
=============================================================================
