------------------------------ MODULE OneQuery ------------------------------
(***************************************************************************)
(* What the REPL promises of its queries: one at a time, each under an era *)
(* of its own, ended by itself or cut off from outside, and never held for *)
(* ever.  (The header of utils/QueryGuard.ts, without its dispatching      *)
(* state.)                                                                 *)
(***************************************************************************)
EXTENDS Naturals

CONSTANTS Turns, None

VARIABLES owner,   \* the turn whose query runs, or None
          era      \* grows with every query and every cut

vars == <<owner, era>>

Init == owner = None /\ era = 0

Begin == owner = None /\ owner' \in Turns /\ era' = era + 1

Complete == owner # None /\ owner' = None /\ era' = era

Cut == owner' = None /\ era' = era + 1

Next == Begin \/ Complete \/ Cut

Safety == Init /\ [][Next]_vars

Spec == Safety /\ WF_vars(Complete)
=============================================================================
