----------------------------- MODULE MCTaskList -----------------------------
(***************************************************************************)
(* Instances of TaskList for TLC: two agents, lists of one to three       *)
(* tasks.                                                                  *)
(***************************************************************************)
EXTENDS TaskList

T(owner, status, blockedBy) == [owner |-> owner, status |-> status,
                                blocks |-> {}, blockedBy |-> blockedBy]

\* Every process is an agent of its own.
OwnName == [p \in Procs |-> p]

\* The lists of the counterexamples that README.md describes.
One == <<T(Nobody, "pending", {})>>
Two == <<T(Nobody, "pending", {}), T(Nobody, "pending", {})>>
Three == Two \o One
Finished == <<T(Nobody, "completed", {}), T(Nobody, "completed", {})>>
\* The second task waits for the first.
Chained == <<[T(Nobody, "pending", {}) EXCEPT !.blocks = {2}],
             T(Nobody, "pending", {1})>>
=============================================================================
