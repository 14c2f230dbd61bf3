-------------------------------- MODULE Race --------------------------------
(***************************************************************************)
(* What a hedged request promises its caller (the comment above            *)
(* hedgedRequest in services/api/hedgedRequest.ts): it resolves with one   *)
(* of the attempts still in the race, and rejects only when the last one   *)
(* has dropped out or the caller gives up.                                 *)
(***************************************************************************)
EXTENDS Naturals

CONSTANTS Requests, Hedges

VARIABLES outcome,      \* per request: idle, racing, resolved, rejected
          contenders,   \* per request: the attempts that may still win
          givenUp       \* the requests whose caller has given up

vars == <<outcome, contenders, givenUp>>

Init == /\ outcome = [r \in Requests |-> "idle"]
        /\ contenders = [r \in Requests |-> {}]
        /\ givenUp = {}

Start(r) == /\ outcome[r] = "idle"
            /\ \E n \in 1..Hedges :
                 /\ contenders' = [contenders EXCEPT ![r] = 1..n]
                 /\ outcome' = [outcome EXCEPT ![r] = "racing"]
            /\ UNCHANGED givenUp

Win(r) == /\ outcome[r] = "racing" /\ contenders[r] # {}
          /\ outcome' = [outcome EXCEPT ![r] = "resolved"]
          /\ contenders' = [contenders EXCEPT ![r] = {}]
          /\ UNCHANGED givenUp

DropOut(r) ==
    /\ \E a \in contenders[r] :
         /\ contenders' = [contenders EXCEPT ![r] = @ \ {a}]
         /\ outcome' = IF contenders[r] = {a}
                         THEN [outcome EXCEPT ![r] = "rejected"] ELSE outcome
    /\ UNCHANGED givenUp

\* Giving up rejects the request, unless an answer is there already.
GiveUp(r) == /\ r \notin givenUp /\ outcome[r] # "rejected"
             /\ outcome' = IF outcome[r] = "resolved" THEN outcome
                           ELSE [outcome EXCEPT ![r] = "rejected"]
             /\ contenders' = [contenders EXCEPT ![r] = {}]
             /\ givenUp' = givenUp \cup {r}

Again(r) == /\ outcome[r] \in {"resolved", "rejected"}
            /\ outcome' = [outcome EXCEPT ![r] = "idle"]
            /\ givenUp' = givenUp \ {r}
            /\ UNCHANGED contenders

Next == \E r \in Requests : Start(r) \/ Win(r) \/ DropOut(r) \/ GiveUp(r)
                            \/ Again(r)

Spec == Init /\ [][Next]_vars
=============================================================================
