----------------------------- MODULE QueryGuard -----------------------------
(***************************************************************************)
(* utils/QueryGuard.ts: the synchronous state machine that arbitrates the  *)
(* turns of the REPL.  A guard is a status and a generation; every method  *)
(* of the class is a pure function of the guard, so that a handler that    *)
(* calls several of them in one synchronous stretch is one action of the   *)
(* modules that use it.                                                    *)
(***************************************************************************)
EXTENDS Naturals

Statuses == {"idle", "dispatching", "running"}
Guards   == [status : Statuses, generation : Nat]

NewGuard == [status |-> "idle", generation |-> 0]

IsActive(g) == g.status # "idle"

\* reserve(): idle -> dispatching, otherwise refused.
Reserve(g) ==
    IF g.status = "idle" THEN [g EXCEPT !.status = "dispatching"] ELSE g

\* cancelReservation(): dispatching -> idle.  It does not ask who reserved.
CancelReservation(g) ==
    IF g.status = "dispatching" THEN [g EXCEPT !.status = "idle"] ELSE g

\* Mutant: starts beside a running query.
CanAlwaysStart(g) == TRUE

\* tryStart() returns null while a query runs; it takes a reservation,
\* whoever made it, and an idle guard alike.
CanStart(g) == g.status # "running"
Start(g)    == [status |-> "running", generation |-> g.generation + 1]

\* Mutant: any query may end the running one.
EndsWhoever(g, gen) == g.status = "running"

\* end(generation): true only for the query that owns the guard.
Ends(g, gen) == g.generation = gen /\ g.status = "running"
End(g, gen)  == IF Ends(g, gen) THEN [g EXCEPT !.status = "idle"] ELSE g

\* forceEnd(): whatever is active is cut off; the new generation makes the
\* end() of a query that was running come back false.
ForceEnd(g) ==
    IF IsActive(g) THEN [status |-> "idle", generation |-> g.generation + 1]
                   ELSE g
=============================================================================
