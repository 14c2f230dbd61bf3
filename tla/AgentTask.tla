----------------------------- MODULE AgentTask -----------------------------
(***************************************************************************)
(* Agents that the Agent tool starts, in the background or in the          *)
(* foreground, and their tasks in AppState:                                *)
(*                                                                         *)
(*   tools/AgentTool/AgentTool.tsx       the two ways to start one, ctrl+b *)
(*   tools/AgentTool/agentToolUtils.ts   the end of a background run       *)
(*   tools/AgentTool/resumeAgent.ts, tools/SendMessageTool                 *)
(*                                       a stopped agent is run again      *)
(*   tasks/stopTask.ts, hooks/useCancelRequest.ts, tools/TaskOutputTool    *)
(*   utils/attachments.ts, utils/task/framework.ts                         *)
(*                                       the main thread evicts old tasks  *)
(*                                                                         *)
(* A run is one call of runAgent with what awaits it; several runs of one  *)
(* agent share the agent's id and so its task.  Every registration brings  *)
(* a controller of its own, named after the run it was made for.           *)
(***************************************************************************)
EXTENDS Integers, FiniteSets

CONSTANTS Agents,
          None,            \* no controller, no poll in progress
          MaxRuns,         \* bound: the runs of each agent
          Senders,         \* concurrent calls of SendMessage
          Teammates,       \* the agents that a teammate started, and not
                           \* the main thread
          AutoBackground   \* CLAUDE_AUTO_BACKGROUND_TASKS

ASSUME MaxRunsAssumption == MaxRuns \in [Agents -> Nat \ {0}]
ASSUME TeammatesAssumption == Teammates \subseteq Agents
ASSUME AutoAssumption == AutoBackground \in BOOLEAN

Runs == UNION {{<<a, n>> : n \in 1..MaxRuns[a]} : a \in Agents}
ASSUME NoneAssumption == None \notin Runs

INSTANCE TaskRegistry WITH Controllers <- Runs

VARIABLES
    task,      \* per agent: its task in AppState
    count,     \* per agent: the runs begun
    pc,        \* per run: where it is
    uses,      \* per run: the controller of the registry it obeys, or None
    how,       \* per run: how its loop ended, until it is reported
    aborted,   \* the controllers that were aborted
    poll,      \* the tasks listed for eviction by the poll in progress
    resuming,  \* per call of SendMessage: the agent it resumes, or None
    told,      \* history, per agent: notifications since the registration
    crossed    \* history, per agent: registered while an older run went on

vars == <<task, count, pc, uses, how, aborted, poll, resuming, told, crossed>>

Agent(r) == r[1]
Newest(a) == <<a, count[a]>>
Begun(a) == {<<a, n>> : n \in 1..count[a]}

\* Where a run is.  "leaving": out of its loop, its clean-up is awaited;
\* "reporting": the task has its status, the worktree is looked at;
\* "spinning": AgentTool's loop goes round without ever waiting.
Unsettled == {"fore", "moving", "back", "leaving"}
Unfinished == Unsettled \cup {"reporting", "spinning"}

Init ==
    /\ task = [a \in Agents |-> Absent]
    /\ count = [a \in Agents |-> 0]
    /\ pc = [r \in Runs |-> "unused"]
    /\ uses = [r \in Runs |-> None]
    /\ how = [r \in Runs |-> "completed"]
    /\ aborted = {}
    /\ poll = None
    /\ resuming = [s \in Senders |-> None]
    /\ told = [a \in Agents |-> 0]
    /\ crossed = [a \in Agents |-> FALSE]

Spinning == \E r \in Runs : pc[r] = "spinning"

\* The main thread waits for the agents it runs in the foreground.
MainIsBusy == \/ poll # None
              \/ \E r \in Runs : pc[r] = "fore" /\ Agent(r) \notin Teammates

Change(a, t) == task' = [task EXCEPT ![a] = t]
Goto(r, to) == pc' = [pc EXCEPT ![r] = to]

-----------------------------------------------------------------------------
(***************************************************************************)
(* A run begins.                                                           *)
(***************************************************************************)
Register(a, background) ==
    /\ count[a] < MaxRuns[a]
    /\ LET r == <<a, count[a] + 1>> IN
        /\ Change(a, Registered(task[a], r, background))
        /\ Goto(r, IF background THEN "back" ELSE "fore")
        \* A run in the foreground has the controller of its parent.
        /\ uses' = [uses EXCEPT ![r] = IF background THEN r ELSE None]
    /\ count' = [count EXCEPT ![a] = @ + 1]
    /\ told' = [told EXCEPT ![a] = 0]
    /\ crossed' = [crossed EXCEPT ![a] = \E r \in Begun(a) :
                                              pc[r] \in Unfinished]

\* AgentTool with run_in_background; the agent's id is new.  Several calls
\* of the tool run side by side, but none beside a poll of the same thread.
StartAsync(a) ==
    /\ count[a] = 0
    /\ a \notin Teammates => poll = None
    /\ Register(a, TRUE)
    /\ UNCHANGED <<how, aborted, poll, resuming>>

\* AgentTool waits for the agent.
StartFore(a) ==
    /\ count[a] = 0
    /\ a \notin Teammates => poll = None
    /\ Register(a, FALSE)
    /\ UNCHANGED <<how, aborted, poll, resuming>>

\* SendMessage to an agent: the message waits for the running agent, or the
\* agent is run again, for which its transcript is read first.
Send(s, a) ==
    /\ resuming[s] = None
    /\ count[a] > 0
    /\ \/ /\ Running(task[a])
          /\ Change(a, Queued(task[a]))
          /\ UNCHANGED resuming
       \/ /\ ~Running(task[a])
          /\ count[a] < MaxRuns[a]
          /\ resuming' = [resuming EXCEPT ![s] = a]
          /\ UNCHANGED task
    /\ UNCHANGED <<count, pc, uses, how, aborted, poll, told, crossed>>

\* resumeAgentBackground after the reads: whatever has become of the task.
Resume(s) ==
    /\ resuming[s] # None
    /\ resuming' = [resuming EXCEPT ![s] = None]
    /\ Register(resuming[s], TRUE)
    /\ UNCHANGED <<how, aborted, poll>>

\* There is no transcript, or its worktree cannot be touched.
ResumeFails(s) ==
    /\ resuming[s] # None
    /\ resuming' = [resuming EXCEPT ![s] = None]
    /\ UNCHANGED <<task, count, pc, uses, how, aborted, poll, told, crossed>>

-----------------------------------------------------------------------------
(***************************************************************************)
(* The foreground loop of AgentTool.                                       *)
(***************************************************************************)
\* The agent is done, failed, or was aborted with its parent's turn.
ForeEnds(r) ==
    /\ pc[r] = "fore"
    /\ Goto(r, "done")
    /\ Change(Agent(r), Unregistered(task[Agent(r)]))
    /\ UNCHANGED <<count, uses, how, aborted, poll, resuming, told, crossed>>

\* Mutant: the finally block removes the task of the agent that goes on.
LeftForeRemoved(t) == Absent

\* The finally block of the loop after the agent went to the background.
LeftFore(t) == Unregistered(Backgrounded(t))

\* ctrl+b: every task in the foreground, ended or not.  The loop takes its
\* task from the store and goes on with the controller it finds there.
BackgroundAll ==
    LET as == {a \in Agents : Foreground(task[a])}
        rs == {r \in Runs : pc[r] = "fore" /\ Agent(r) \in as}
    IN /\ rs # {}
       /\ task' = [a \in Agents |-> IF a \in as THEN LeftFore(task[a])
                                    ELSE task[a]]
       /\ pc' = [r \in Runs |-> IF r \in rs THEN "moving" ELSE pc[r]]
       /\ uses' = [r \in Runs |-> IF r \in rs THEN task[Agent(r)].controller
                                  ELSE uses[r]]
       /\ UNCHANGED <<count, how, aborted, poll, resuming, told, crossed>>

\* The timer of registerAgentForeground.  When there is no task any more
\* the loop finds its signal resolved and the task gone, for ever.
TimerFires(r) ==
    /\ AutoBackground
    /\ pc[r] = "fore"
    /\ LET t == task[Agent(r)] IN
        /\ Change(Agent(r), LeftFore(t))
        /\ Goto(r, IF t.there THEN "moving" ELSE "spinning")
        /\ uses' = [uses EXCEPT ![r] = t.controller]
    /\ UNCHANGED <<count, how, aborted, poll, resuming, told, crossed>>

\* The old iterator has returned, or a second has passed: runAgent is
\* called again.  Without a controller it makes one that nobody knows.
Moves(r) ==
    /\ pc[r] = "moving"
    /\ Goto(r, "back")
    /\ UNCHANGED <<task, count, uses, how, aborted, poll, resuming, told,
                   crossed>>

-----------------------------------------------------------------------------
(***************************************************************************)
(* A run in the background, and its end (runAsyncAgentLifecycle and the    *)
(* continuation in AgentTool).                                             *)
(***************************************************************************)
IsAborted(r) == uses[r] \in aborted

\* Between two tool rounds the waiting messages are handed to the model.
Drain(r) ==
    /\ pc[r] \in {"fore", "back"} /\ ~IsAborted(r)
    /\ task[Agent(r)].pending
    /\ Change(Agent(r), Drained(task[Agent(r)]))
    /\ UNCHANGED <<count, pc, uses, how, aborted, poll, resuming, told,
                   crossed>>

\* runAgent is over; it looks at its signal a last time.
LoopEnds(r) ==
    /\ pc[r] = "back"
    /\ \E h \in {"failed", IF IsAborted(r) THEN "killed" ELSE "completed"} :
          how' = [how EXCEPT ![r] = h]
    /\ Goto(r, "leaving")
    /\ UNCHANGED <<task, count, uses, aborted, poll, resuming, told, crossed>>

\* The controllers that killAsyncAgent aborts at the tasks of these agents.
AbortedAt(as) == {task[a].controller : a \in {b \in as : Running(task[b])}}

\* Mutant: no notification when the task was stopped before.
SettleKnown(r) ==
    /\ pc[r] = "leaving"
    /\ Change(Agent(r), Ended(task[Agent(r)], how[r]))
    /\ aborted' = IF how[r] = "killed" THEN aborted \cup AbortedAt({Agent(r)})
                  ELSE aborted
    /\ Goto(r, IF how[r] = "killed" /\ ~Running(task[Agent(r)])
               THEN "done" ELSE "reporting")
    /\ UNCHANGED <<count, uses, how, poll, resuming, told, crossed>>

\* The clean-up is done: completeAsyncAgent, killAsyncAgent or
\* failAsyncAgent, on the task that has the agent's id.
Settle(r) ==
    /\ pc[r] = "leaving"
    /\ Change(Agent(r), Ended(task[Agent(r)], how[r]))
    /\ aborted' = IF how[r] = "killed" THEN aborted \cup AbortedAt({Agent(r)})
                  ELSE aborted
    /\ Goto(r, "reporting")
    /\ UNCHANGED <<count, uses, how, poll, resuming, told, crossed>>

\* The worktree is looked at: enqueueAgentNotification.
Report(r) ==
    /\ pc[r] = "reporting"
    /\ Goto(r, "done")
    /\ how' = [how EXCEPT ![r] = "completed"]
    /\ LET a == Agent(r) IN
        /\ Change(a, Reported(task[a]))
        /\ told' = IF Unreported(task[a]) THEN [told EXCEPT ![a] = @ + 1]
                   ELSE told
    /\ UNCHANGED <<count, uses, aborted, poll, resuming, crossed>>

-----------------------------------------------------------------------------
(***************************************************************************)
(* Stopping, reading and forgetting tasks.                                 *)
(***************************************************************************)
\* LocalAgentTask.kill: the dialog of the background tasks, or stopTask.
Kill(a) ==
    /\ Running(task[a])
    /\ Change(a, Ended(task[a], "killed"))
    /\ aborted' = aborted \cup AbortedAt({a})
    /\ UNCHANGED <<count, pc, uses, how, poll, resuming, told, crossed>>

\* killAllAgentsAndNotify: one notification for all of them.
KillAll ==
    LET as == {a \in Agents : Running(task[a])} IN
    /\ as # {}
    /\ task' = [a \in Agents |->
                   IF a \in as THEN Reported(Ended(task[a], "killed"))
                   ELSE task[a]]
    /\ aborted' = aborted \cup AbortedAt(as)
    /\ told' = [a \in Agents |-> IF a \in as THEN told[a] + 1 ELSE told[a]]
    /\ UNCHANGED <<count, pc, uses, how, poll, resuming, crossed>>

\* TaskOutputTool hands the result of an ended task to the model.
ReadOutput(a) ==
    /\ IsTerminal(task[a]) /\ ~task[a].notified
    /\ Change(a, Reported(task[a]))
    /\ UNCHANGED <<count, pc, uses, how, aborted, poll, resuming, told,
                   crossed>>

\* 30 s after the end: evictAfter is past.
GraceEnds(a) ==
    /\ IsTerminal(task[a]) /\ ~task[a].due
    /\ Change(a, [task[a] EXCEPT !.due = TRUE])
    /\ UNCHANGED <<count, pc, uses, how, aborted, poll, resuming, told,
                   crossed>>

\* getUnifiedTaskAttachments in a turn of the main thread: the tasks are
\* listed, the output of the running ones is read from disk, ...
PollBegins ==
    /\ ~MainIsBusy
    /\ poll' = {a \in Agents : Evictable(task[a])}
    /\ UNCHANGED <<task, count, pc, uses, how, aborted, resuming, told,
                   crossed>>

\* ... and what was listed is evicted.
PollEnds ==
    /\ poll # None
    /\ poll' = None
    /\ task' = [a \in Agents |-> IF a \in poll THEN Evicted(task[a])
                                 ELSE task[a]]
    /\ UNCHANGED <<count, pc, uses, how, aborted, resuming, told, crossed>>

-----------------------------------------------------------------------------
OfAgent(a) == \/ StartAsync(a) \/ StartFore(a) \/ Kill(a) \/ ReadOutput(a)
              \/ GraceEnds(a)
OfSender(s) == \/ Resume(s) \/ ResumeFails(s)
               \/ \E a \in Agents : Send(s, a)
Ending(r) == \/ ForeEnds(r) \/ Moves(r) \/ LoopEnds(r) \/ Settle(r)
             \/ Report(r)
OfRun(r) == Ending(r) \/ TimerFires(r) \/ Drain(r)

Next == /\ ~Spinning
        /\ \/ \E a \in Agents : OfAgent(a)
           \/ \E s \in Senders : OfSender(s)
           \/ \E r \in Runs : OfRun(r)
           \/ BackgroundAll \/ KillAll \/ PollBegins \/ PollEnds

Spec == Init /\ [][Next]_vars

\* The program runs, and every run of an agent comes to its end: its rounds
\* are bounded (maxTurns), its requests and its clean-up time out.
FairSpec == Spec /\ \A r \in Runs : WF_vars(~Spinning /\ Ending(r))

-----------------------------------------------------------------------------
(***************************************************************************)
(* Properties                                                              *)
(***************************************************************************)
TypeOK ==
    /\ task \in [Agents -> TaskStates]
    /\ count \in [Agents -> Nat]
    /\ \A a \in Agents : count[a] <= MaxRuns[a]
    /\ pc \in [Runs -> Unfinished \cup {"unused", "done"}]
    /\ uses \in [Runs -> Runs \cup {None}]
    /\ how \in [Runs -> Ends]
    /\ aborted \subseteq Runs
    /\ poll = None \/ poll \subseteq Agents
    /\ resuming \in [Senders -> Agents \cup {None}]
    /\ told \in [Agents -> Nat]
    /\ crossed \in [Agents -> BOOLEAN]

\* What is shown as running can be stopped: it is its newest run that goes
\* on, with the controller that killAsyncAgent would abort, not aborted yet
\* (LocalAgentTask.tsx 284-296).
ShownIsWorking ==
    \A a \in Agents : Running(task[a]) =>
        LET r == Newest(a) IN
        /\ count[a] > 0 /\ pc[r] \in Unsettled
        /\ task[a].controller = r /\ r \notin aborted
        /\ pc[r] = "fore" <=> ~task[a].background
        /\ pc[r] # "fore" => uses[r] = r

\* What works is shown as running and not reported yet, until it has been
\* told to stop: no poll with an old list, no end of the foreground loop and
\* no second end takes it from the list - unless the agent was run again
\* while an older run of it had not finished (framework.ts 226-248,
\* LocalAgentTask.tsx 657-681).
WorkingIsShown ==
    \A a \in Agents :
        LET r == Newest(a) IN
        (/\ count[a] > 0 /\ ~crossed[a]
         /\ pc[r] \in Unsettled /\ r \notin aborted)
        => Running(task[a]) /\ ~task[a].notified

\* The model hears of the end of a background agent once, from the run, from
\* the notification for all killed agents or from TaskOutput (notified,
\* LocalAgentTask.tsx 225-241) - with the same exception.
ToldOnce ==
    \A a \in Agents : ~crossed[a] =>
        /\ told[a] <= 1
        /\ (told[a] = 1 \/ (count[a] > 0 /\ pc[Newest(a)] = "done"))
           => ~Unreported(task[a])

AgentInv == TypeOK /\ ShownIsWorking /\ WorkingIsShown /\ ToldOnce

\* The first end of a task counts: a kill that comes while the agent
\* completes, or the other way round, changes nothing any more
\* (LocalAgentTask.tsx 285, 417, 442).
FirstEndCounts ==
    [][\A a \in Agents :
        IsTerminal(task[a]) /\ task'[a].there
        => task'[a].status = task[a].status \/ count'[a] # count[a]]_vars

\* Messages that wait for an agent wait until a run of it takes them, also
\* when the agent ends and is run again; they go only with its task
\* (framework.ts 88-92, LocalAgentTask.tsx 181-193).
MessagesAreKept ==
    [][\A a \in Agents :
        task[a].pending /\ task'[a].there /\ ~task'[a].pending
        => /\ count'[a] = count[a]
           /\ \E r \in Begun(a) : pc[r] \in {"fore", "back"}]_vars

\* The end of every agent is made known, whoever stopped it and whatever
\* runs cross ("the notification must fire unconditionally",
\* agentToolUtils.ts 643).
EndIsTold ==
    \A a \in Agents :
        IsTerminal(task[a]) /\ ~task[a].notified
        ~> ~IsTerminal(task[a]) \/ task[a].notified

(***************************************************************************)
(* What comments and messages of the code say, and the code does not keep. *)
(***************************************************************************)
\* "killAsyncAgent is a no-op if TaskStop already set status='killed'": the
\* end of an aborted run stops no other run (agentToolUtils.ts 641).
KillIsNoOp ==
    [][\A r \in Runs :
        /\ pc[r] = "leaving" /\ pc'[r] = "reporting" /\ how[r] = "killed"
        => aborted' \subseteq aborted \cup {uses[r]}]_vars

\* "You'll be notified when it finishes": an agent that was resumed and is
\* running does not count as reported (SendMessageTool.ts 834).
ResumedIsNotified ==
    \A a \in Agents : Running(task[a]) => ~task[a].notified

\* "Kill an agent task": no run of a killed agent goes on without knowing of
\* it (LocalAgentTask.tsx 279).
KilledIsStopped ==
    \A r \in Runs :
        /\ task[Agent(r)].there /\ task[Agent(r)].status = "killed"
        /\ pc[r] \in {"moving", "back"}
        => IsAborted(r)

\* "Message queued for delivery to X at its next tool round": the message is
\* not dropped (SendMessageTool.ts 818).
QueuedIsDelivered ==
    [][\A a \in Agents :
        task[a].pending /\ ~task'[a].pending
        => \E r \in Begun(a) : pc[r] \in {"fore", "back"}]_vars

\* "This shouldn't happen - background case handled above": the foreground
\* loop always waits for something (AgentTool.tsx 1057).
LoopWaits == ~Spinning
=============================================================================
