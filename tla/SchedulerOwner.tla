--------------------------- MODULE SchedulerOwner ---------------------------
(***************************************************************************)
(* What SchedulerLock promises to the sessions of a project: a scheduler   *)
(* that starts becomes ready, with the tasks or without, and at most one   *)
(* drives them beside those that are leaving, until some session takes the *)
(* lock from another.                                                      *)
(***************************************************************************)
CONSTANT Procs

VARIABLES
    stage,      \* per process: off, starting, ready, stopped or gone
    isOwner,    \* the processes that drive the tasks
    leaving,    \* the owners that shut down: their schedulers still run, but
                \* their place is free
    recovered   \* a lock was taken from its holder: owners may be more than one

vars == <<stage, isOwner, leaving, recovered>>

Stages == {"off", "starting", "ready", "stopped", "gone"}
Up(p) == stage[p] \in {"starting", "ready", "stopped"}

Init == /\ stage = [p \in Procs |-> "off"]
        /\ isOwner = {} /\ leaving = {} /\ recovered = FALSE

Goes(p, s) == stage' = [stage EXCEPT ![p] = s]

\* Nobody who stays drives the tasks, or nothing is promised any more.
MayOwn == isOwner \subseteq leaving \/ recovered

\* A process that becomes an owner may be shutting down by then.
Owns(p) == /\ MayOwn /\ isOwner' = isOwner \cup {p}
           /\ leaving' \in {leaving, leaving \cup {p}}

NoOwner(p) == isOwner' = isOwner \ {p} /\ leaving' = leaving \ {p}

Start(p) == /\ stage[p] = "off" /\ Goes(p, "starting")
            /\ UNCHANGED <<isOwner, leaving, recovered>>

\* The first acquisition ends; with the tasks, or without.
Ready(p) == /\ stage[p] = "starting" /\ Goes(p, "ready")
            /\ Owns(p) \/ UNCHANGED <<isOwner, leaving>>
            /\ UNCHANGED recovered

TakeOver(p) == /\ stage[p] = "ready" /\ Owns(p)
               /\ UNCHANGED <<stage, recovered>>

Stop(p) == /\ stage[p] \in {"starting", "ready"} /\ Goes(p, "stopped")
           /\ NoOwner(p)
           /\ UNCHANGED recovered

\* The clean-up of an owner's shutdown is over.
Leave(p) == /\ p \in isOwner /\ leaving' = leaving \cup {p}
            /\ UNCHANGED <<stage, isOwner, recovered>>

\* The process exits or dies.
End(p) == /\ Up(p) /\ Goes(p, "gone") /\ NoOwner(p)
          /\ UNCHANGED recovered

Recover == /\ recovered' = TRUE
           /\ UNCHANGED <<stage, isOwner, leaving>>

Next == \/ \E p \in Procs : \/ Start(p) \/ Ready(p) \/ TakeOver(p) \/ Stop(p)
                             \/ Leave(p) \/ End(p)
        \/ Recover

Spec == Init /\ [][Next]_vars
=============================================================================
