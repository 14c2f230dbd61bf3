--------------------------- MODULE TurboGovernor ---------------------------
(***************************************************************************)
(* The governor of turbo mode (services/api/turboGovernor.ts): how many    *)
(* attempts a request may make at once.  It halves on a fault of the       *)
(* provider or a stall of the event loop, and grows by one after three     *)
(* clean successes outside the cooldown that each fault opens.             *)
(*                                                                         *)
(* The module state of the code becomes one record; the end of the         *)
(* cooldown is an event instead of a clock.                                *)
(***************************************************************************)
EXTENDS Integers

CONSTANT Ceiling   \* CLAUDE_CODE_MAX_TOOL_USE_CONCURRENCY, or 20

ASSUME CeilingAssumption == Ceiling \in Nat \ {0}

SuccessStreakPerStep == 3

Governors == [allowance : 1..Ceiling, successStreak : 0..SuccessStreakPerStep - 1,
              cooling : BOOLEAN]

\* The first reader turns the initial Infinity into the ceiling.
NewGovernor == [allowance |-> Ceiling, successStreak |-> 0, cooling |-> FALSE]

Halves(g) ==
    [allowance |-> IF g.allowance = 1 THEN 1 ELSE g.allowance \div 2,
     successStreak |-> 0, cooling |-> TRUE]

Grows(g) ==
    IF g.cooling THEN g
    ELSE IF g.successStreak + 1 < SuccessStreakPerStep
      THEN [g EXCEPT !.successStreak = @ + 1]
      ELSE [g EXCEPT !.successStreak = 0,
                     !.allowance = IF @ < Ceiling THEN @ + 1 ELSE Ceiling]

\* What an outcome does: "ok", "overload" (429, 5xx), "none" (no status: a
\* network fault or a timeout), "client" (any other 4xx says nothing).
Reported(g, outcome) ==
    CASE outcome = "ok" -> Grows(g)
      [] outcome \in {"overload", "none"} -> Halves(g)
      [] outcome = "client" -> g
=============================================================================
