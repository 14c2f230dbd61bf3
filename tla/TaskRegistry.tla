---------------------------- MODULE TaskRegistry ----------------------------
(***************************************************************************)
(* AppState.tasks as far as it is about agents (type local_agent):         *)
(* utils/task/framework.ts and tasks/LocalAgentTask/LocalAgentTask.tsx.    *)
(* Every change is one synchronous setAppState with an updater; the        *)
(* updaters are the operators of this module, from a task to a task.       *)
(*                                                                         *)
(* A task is abstracted to its status, whether its end was reported        *)
(* (notified), whether it runs in the background, the abort controller it  *)
(* holds, whether messages wait for the agent (pendingMessages) and        *)
(* whether the 30 s after its end are over (evictAfter).  retain is never  *)
(* set in this build: the panel that sets it is left out.                  *)
(***************************************************************************)
CONSTANTS Controllers,  \* the abort controllers of the agents
          None          \* no controller

Ends == {"completed", "failed", "killed"}
TaskStates ==
    [there : BOOLEAN, status : Ends \cup {"running"}, notified : BOOLEAN,
     background : BOOLEAN, controller : Controllers \cup {None},
     pending : BOOLEAN, due : BOOLEAN]

\* A task that is not in the map; updateTaskState does nothing to it.
Absent == [there |-> FALSE, status |-> "running", notified |-> FALSE,
           background |-> FALSE, controller |-> None, pending |-> FALSE,
           due |-> FALSE]

Running(t)    == t.there /\ t.status = "running"
IsTerminal(t) == t.there /\ t.status \in Ends

\* Mutant: the messages of the task that is replaced are dropped.
RegisteredAfresh(t, ctl, bg) ==
    [Absent EXCEPT !.there = TRUE, !.controller = ctl, !.background = bg]

\* registerTask with the task of registerAsyncAgent or of
\* registerAgentForeground: a task of that id is replaced, and only what the
\* user interface holds of it is carried over.
Registered(t, ctl, bg) ==
    [Absent EXCEPT !.there = TRUE, !.controller = ctl, !.background = bg,
                   !.pending = t.pending]

\* Mutant: the end is recorded over an end.
EndedAgain(t, status) ==
    IF t.there
    THEN [t EXCEPT !.status = status, !.controller = None, !.due = FALSE]
    ELSE t

\* completeAgentTask, failAgentTask and killAsyncAgent change a running task
\* only; the last one also aborts the controller, see AgentTask.
Ended(t, status) ==
    IF Running(t)
    THEN [t EXCEPT !.status = status, !.controller = None, !.due = FALSE]
    ELSE t

\* enqueueAgentNotification, markAgentsNotified and TaskOutputTool.
Unreported(t) == t.there /\ ~t.notified
Reported(t) == IF t.there THEN [t EXCEPT !.notified = TRUE] ELSE t

Queued(t)  == IF t.there THEN [t EXCEPT !.pending = TRUE] ELSE t
Drained(t) == IF t.there THEN [t EXCEPT !.pending = FALSE] ELSE t

\* backgroundAgentTask, and the timer of registerAgentForeground.
Foreground(t) == t.there /\ ~t.background
Backgrounded(t) == IF t.there THEN [t EXCEPT !.background = TRUE] ELSE t

\* unregisterAgentForeground
Unregistered(t) == IF Foreground(t) THEN Absent ELSE t

\* What generateTaskAttachments lists for eviction.
Evictable(t) == IsTerminal(t) /\ t.notified

\* Mutant: what was listed is evicted, whatever it has become.
EvictedUnseen(t) == Absent

\* applyTaskOffsetsAndEvictions looks again at the task as it is now.
Evicted(t) == IF Evictable(t) /\ t.due THEN Absent ELSE t
=============================================================================
