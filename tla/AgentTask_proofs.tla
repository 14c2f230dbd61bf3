-------------------------- MODULE AgentTask_proofs --------------------------
(***************************************************************************)
(* Proofs about AgentTask, for any number of agents, runs and senders.     *)
(*                                                                         *)
(* An agent's task is shared by all its runs.  What makes that safe is     *)
(* that the steps of a run other than the newest find the task settled, or *)
(* in the background, or leave it to those that crossed; the invariant     *)
(* says where the older runs can be.                                       *)
(***************************************************************************)
EXTENDS AgentTask, TLAPS

\* The parts of AgentInv, of one agent.
Shown(a) ==
    Running(task[a]) =>
        /\ count[a] > 0 /\ pc[Newest(a)] \in Unsettled
        /\ task[a].controller = Newest(a) /\ Newest(a) \notin aborted
        /\ pc[Newest(a)] = "fore" <=> ~task[a].background
        /\ pc[Newest(a)] # "fore" => uses[Newest(a)] = Newest(a)

Working(a) ==
    (/\ count[a] > 0 /\ ~crossed[a]
     /\ pc[Newest(a)] \in Unsettled /\ Newest(a) \notin aborted)
    => Running(task[a]) /\ ~task[a].notified

Told(a) ==
    ~crossed[a] =>
        /\ told[a] <= 1
        /\ (told[a] = 1 \/ (count[a] > 0 /\ pc[Newest(a)] = "done"))
           => ~Unreported(task[a])

\* A run that has not begun has left no trace.
Fresh(a) ==
    \A n \in 1 .. MaxRuns[a] :
        /\ pc[<<a, n>>] = "unused" <=> count[a] < n
        /\ count[a] < n => <<a, n>> \notin aborted

\* Only the first run of an agent is awaited, and only while it is awaited
\* is the task in the foreground.
ForeIsFirst(a) ==
    /\ \A n \in 1 .. MaxRuns[a] : pc[<<a, n>>] = "fore" => n = 1
    /\ Foreground(task[a]) => count[a] = 1
    /\ task[a].there /\ count[a] = 1 /\ pc[<<a, 1>>] = "fore"
       => ~task[a].background

\* An agent whose runs do not cross has one run at most that goes on.
OlderAreDone(a) ==
    ~crossed[a] =>
        \A n \in 1 .. MaxRuns[a] : n < count[a] => pc[<<a, n>>] = "done"

Good(a) == /\ Shown(a) /\ Working(a) /\ Told(a)
           /\ Fresh(a) /\ ForeIsFirst(a) /\ OlderAreDone(a)

IInv == TypeOK /\ \A a \in Agents : Good(a)

LEMMA IInvImpliesAgentInv == IInv => AgentInv
BY DEF IInv, Good, Shown, Working, Told, AgentInv, ShownIsWorking,
       WorkingIsShown, ToldOnce

-----------------------------------------------------------------------------
(***************************************************************************)
(* Types.                                                                  *)
(***************************************************************************)

\* A run is an agent and a number.
LEMMA RunIs ==
    /\ \A a \in Agents : \A n \in 1 .. MaxRuns[a] : <<a, n>> \in Runs
    /\ \A r \in Runs : /\ r = <<r[1], r[2]>> /\ Agent(r) = r[1] /\ r[1] \in Agents
                       /\ r[2] \in 1 .. MaxRuns[r[1]] /\ r[2] \in Nat \ {0}
    /\ \A a \in Agents : MaxRuns[a] \in Nat \ {0}
BY MaxRunsAssumption DEF Runs, Agent

\* What the registry makes of a task is a task.
LEMMA RegistryType ==
    /\ Absent \in TaskStates
    /\ \A t \in TaskStates :
          /\ \A r \in Runs, b \in BOOLEAN : Registered(t, r, b) \in TaskStates
          /\ \A h \in Ends : Ended(t, h) \in TaskStates
          /\ Reported(t) \in TaskStates /\ Queued(t) \in TaskStates
          /\ Drained(t) \in TaskStates /\ Unregistered(t) \in TaskStates
          /\ Backgrounded(t) \in TaskStates /\ LeftFore(t) \in TaskStates
          /\ Evicted(t) \in TaskStates
          /\ [t EXCEPT !.due = TRUE] \in TaskStates
          /\ t.controller \in Runs \cup {None}
<1> USE DEF TaskStates, Absent, Ends
<1>1. Absent \in TaskStates
  OBVIOUS
<1> SUFFICES ASSUME NEW t \in TaskStates
             PROVE  /\ \A r \in Runs, b \in BOOLEAN : Registered(t, r, b) \in TaskStates
                    /\ \A h \in Ends : Ended(t, h) \in TaskStates
                    /\ Reported(t) \in TaskStates /\ Queued(t) \in TaskStates
                    /\ Drained(t) \in TaskStates /\ Unregistered(t) \in TaskStates
                    /\ Backgrounded(t) \in TaskStates /\ LeftFore(t) \in TaskStates
                    /\ Evicted(t) \in TaskStates
                    /\ [t EXCEPT !.due = TRUE] \in TaskStates
                    /\ t.controller \in Runs \cup {None}
  BY <1>1
<1>2. \A r \in Runs, b \in BOOLEAN : Registered(t, r, b) \in TaskStates
  BY DEF Registered
<1>3. \A h \in Ends : Ended(t, h) \in TaskStates
  BY DEF Ended
<1>4. Reported(t) \in TaskStates /\ Queued(t) \in TaskStates
  BY DEF Reported, Queued
<1>5. Drained(t) \in TaskStates /\ Unregistered(t) \in TaskStates
  BY DEF Drained, Unregistered
<1>6. Backgrounded(t) \in TaskStates /\ LeftFore(t) \in TaskStates
  BY DEF Backgrounded, LeftFore, Unregistered
<1>7. Evicted(t) \in TaskStates /\ [t EXCEPT !.due = TRUE] \in TaskStates
  BY DEF Evicted
<1>8. QED
  BY <1>2, <1>3, <1>4, <1>5, <1>6, <1>7

LEMMA TypeStarts == Init => TypeOK
BY RegistryType, RunIs DEF Init, TypeOK, Unfinished, Unsettled, Ends

LEMMA RegisterType ==
    ASSUME TypeOK, NEW a \in Agents, NEW b \in BOOLEAN, Register(a, b),
           UNCHANGED <<how, aborted, poll>>, 
           resuming' \in [Senders -> Agents \cup {None}]
    PROVE  TypeOK'
<1>1. <<a, count[a] + 1>> \in Runs /\ count[a] + 1 \in Nat
  BY RunIs DEF TypeOK, Register
<1>2. task' \in [Agents -> TaskStates]
  BY <1>1, RegistryType DEF TypeOK, Register, Change
<1>3. pc' \in [Runs -> Unfinished \cup {"unused", "done"}]
  BY <1>1 DEF TypeOK, Register, Goto, Unfinished, Unsettled
<1>4. count' \in [Agents -> Nat] /\ \A b1 \in Agents : count'[b1] <= MaxRuns[b1]
  BY <1>1, RunIs DEF TypeOK, Register
<1>5. /\ uses' \in [Runs -> Runs \cup {None}]
      /\ told' \in [Agents -> Nat] /\ crossed' \in [Agents -> BOOLEAN]
  BY <1>1, RunIs DEF TypeOK, Register
<1>6. QED
  BY <1>2, <1>3, <1>4, <1>5 DEF TypeOK

\* What is stopped is a run: a task that is shown as running has a controller.
LEMMA StoppedAreRuns ==
    ASSUME TypeOK, ShownIsWorking, NEW as \in SUBSET Agents
    PROVE  AbortedAt(as) \subseteq Runs
<1> SUFFICES ASSUME NEW a \in Agents, Running(task[a])
             PROVE  task[a].controller \in Runs
  BY DEF AbortedAt
<1>1. /\ count[a] > 0 /\ task[a].controller = <<a, count[a]>>
      /\ count[a] \in Nat /\ count[a] <= MaxRuns[a]
  BY DEF ShownIsWorking, Newest, TypeOK
<1>2. QED
  BY <1>1, RunIs

LEMMA TypeStep == TypeOK /\ ShownIsWorking /\ [Next]_vars => TypeOK'
<1> SUFFICES ASSUME TypeOK, ShownIsWorking, [Next]_vars PROVE TypeOK'
  OBVIOUS
<1> USE RegistryType, RunIs DEF Change, Goto
<1>1. ASSUME NEW a \in Agents, OfAgent(a) PROVE TypeOK'
  <2>1. CASE StartAsync(a) \/ StartFore(a)
    BY <2>1, RegisterType DEF TypeOK, StartAsync, StartFore
  <2>2. CASE Kill(a)
    <3>1. task' \in [Agents -> TaskStates]
      BY <2>2 DEF TypeOK, Kill, Ends
    <3>2. QED
      BY <2>2, <3>1, StoppedAreRuns DEF TypeOK, Kill
  <2>3. CASE ReadOutput(a)
    BY <2>3 DEF TypeOK, ReadOutput
  <2>4. CASE GraceEnds(a)
    <3>1. task' \in [Agents -> TaskStates]
      BY <2>4 DEF TypeOK, GraceEnds
    <3>2. QED
      BY <2>4, <3>1 DEF TypeOK, GraceEnds
  <2>5. QED
    BY <1>1, <2>1, <2>2, <2>3, <2>4 DEF OfAgent
<1>2. ASSUME NEW s \in Senders, OfSender(s) PROVE TypeOK'
  <2>1. CASE Resume(s)
    BY <2>1, RegisterType DEF TypeOK, Resume
  <2>2. CASE ResumeFails(s)
    BY <2>2 DEF TypeOK, ResumeFails
  <2>3. ASSUME NEW a \in Agents, Send(s, a) PROVE TypeOK'
    <3>1. task' \in [Agents -> TaskStates]
      <4>1. Queued(task[a]) \in TaskStates
        BY DEF TypeOK
      <4>2. QED
        BY <2>3, <4>1 DEF TypeOK, Send
    <3>2. resuming' \in [Senders -> Agents \cup {None}]
      BY <2>3 DEF TypeOK, Send
    <3>3. QED
      BY <2>3, <3>1, <3>2 DEF TypeOK, Send
  <2>4. QED
    BY <1>2, <2>1, <2>2, <2>3 DEF OfSender
<1>3. ASSUME NEW r \in Runs, OfRun(r) PROVE TypeOK'
  <2> USE DEF Unfinished, Unsettled
  <2>1. CASE ForeEnds(r)
    BY <2>1 DEF TypeOK, ForeEnds
  <2>2. CASE Moves(r)
    BY <2>2 DEF TypeOK, Moves
  <2>3. CASE LoopEnds(r)
    BY <2>3 DEF TypeOK, LoopEnds, Ends
  <2>4. CASE Settle(r)
    <3>1. task' \in [Agents -> TaskStates]
      BY <2>4 DEF TypeOK, Settle
    <3>2. aborted' \subseteq Runs
      BY <2>4, StoppedAreRuns DEF TypeOK, Settle
    <3>3. QED
      BY <2>4, <3>1, <3>2 DEF TypeOK, Settle
  <2>5. CASE Report(r)
    <3>0. task' \in [Agents -> TaskStates]
      BY <2>5 DEF TypeOK, Report
    <3>1. told' \in [Agents -> Nat]
      BY <2>5 DEF TypeOK, Report
    <3>2. how' \in [Runs -> Ends]
      BY <2>5 DEF TypeOK, Report, Ends
    <3>3. QED
      BY <2>5, <3>0, <3>1, <3>2 DEF TypeOK, Report
  <2>6. CASE TimerFires(r)
    BY <2>6 DEF TypeOK, TimerFires
  <2>7. CASE Drain(r)
    BY <2>7 DEF TypeOK, Drain
  <2>8. QED
    BY <1>3, <2>1, <2>2, <2>3, <2>4, <2>5, <2>6, <2>7 DEF OfRun, Ending
<1>4. CASE BackgroundAll
  BY <1>4 DEF TypeOK, BackgroundAll, Unfinished, Unsettled
<1>5. CASE KillAll
  <2>0. \A a \in Agents : Reported(Ended(task[a], "killed")) \in TaskStates
    BY DEF TypeOK, Ends
  <2>1. task' \in [Agents -> TaskStates] /\ told' \in [Agents -> Nat]
    BY <1>5, <2>0 DEF TypeOK, KillAll
  <2>2. aborted' \subseteq Runs
    BY <1>5, StoppedAreRuns DEF TypeOK, KillAll
  <2>3. QED
    BY <1>5, <2>1, <2>2 DEF TypeOK, KillAll
<1>6. CASE PollBegins \/ PollEnds
  <2>1. CASE PollBegins
    BY <2>1 DEF TypeOK, PollBegins
  <2>2. CASE PollEnds
    <3>1. task' \in [Agents -> TaskStates]
      BY <2>2 DEF TypeOK, PollEnds
    <3>2. QED
      BY <2>2, <3>1 DEF TypeOK, PollEnds
  <2>3. QED
    BY <1>6, <2>1, <2>2
<1>7. CASE UNCHANGED vars
  BY <1>7 DEF TypeOK, vars
<1>8. QED
  BY <1>1, <1>2, <1>3, <1>4, <1>5, <1>6, <1>7 DEF Next


-----------------------------------------------------------------------------
(***************************************************************************)
(* The invariant of the agents.                                            *)
(***************************************************************************)

\* Nothing happens to agent a.
Untouched(a) ==
    /\ task'[a] = task[a] /\ count'[a] = count[a]
    /\ told'[a] = told[a] /\ crossed'[a] = crossed[a]
    /\ \A n \in 1 .. MaxRuns[a] :
          /\ pc'[<<a, n>>] = pc[<<a, n>>] /\ uses'[<<a, n>>] = uses[<<a, n>>]
          /\ <<a, n>> \in aborted' <=> <<a, n>> \in aborted

\* The newest run is a run.
LEMMA NewestIs ==
    ASSUME TypeOK, NEW a \in Agents, count[a] > 0
    PROVE  Newest(a) \in Runs /\ count[a] \in 1 .. MaxRuns[a]
BY RunIs DEF TypeOK, Newest

LEMMA GoodUntouched ==
    ASSUME TypeOK, NEW a \in Agents, Good(a), Untouched(a)
    PROVE  Good(a)'
<1>1. count[a] \in Nat /\ count[a] <= MaxRuns[a] /\ MaxRuns[a] \in Nat \ {0}
  BY RunIs DEF TypeOK
<1>2. count[a] > 0 => /\ pc'[Newest(a)'] = pc[Newest(a)]
                      /\ uses'[Newest(a)'] = uses[Newest(a)]
                      /\ Newest(a)' = Newest(a)
                      /\ Newest(a)' \in aborted' <=> Newest(a) \in aborted
  BY <1>1 DEF Untouched, Newest
<1>3. Shown(a)' /\ Working(a)' /\ Told(a)'
  BY <1>1, <1>2 DEF Good, Shown, Working, Told, Untouched, Running, Unreported
<1>4. Fresh(a)' /\ ForeIsFirst(a)' /\ OlderAreDone(a)'
  BY <1>1 DEF Good, Fresh, ForeIsFirst, OlderAreDone, Untouched, Foreground
<1>5. QED
  BY <1>3, <1>4 DEF Good

\* What is known of an agent before a step.
LEMMA AgentIs ==
    ASSUME IInv, NEW a \in Agents
    PROVE  /\ Good(a) /\ task[a] \in TaskStates
           /\ count[a] \in Nat /\ count[a] <= MaxRuns[a] /\ told[a] \in Nat
           /\ MaxRuns[a] \in Nat \ {0}
           /\ count[a] > 0 => count[a] \in 1 .. MaxRuns[a]
BY RunIs DEF IInv, TypeOK

\* A step of a run moves this run only.
LEMMA RunMoves ==
    ASSUME TypeOK, NEW r \in Runs, NEW to, Goto(r, to)
    PROVE  \A a \in Agents : \A n \in 1 .. MaxRuns[a] :
               pc'[<<a, n>>] = IF a = r[1] /\ n = r[2] THEN to ELSE pc[<<a, n>>]
BY RunIs DEF TypeOK, Goto

\* A run that is under way is the newest of its agent, or an older one.
LEMMA RunIsHere ==
    ASSUME IInv, NEW r \in Runs, pc[r] # "unused"
    PROVE  /\ r = <<r[1], r[2]>> /\ Agent(r) = r[1] /\ r[1] \in Agents
           /\ r[2] \in 1 .. MaxRuns[r[1]] /\ r[2] \in Nat \ {0}
           /\ pc[<<r[1], r[2]>>] = pc[r] /\ r[2] <= count[r[1]]
           /\ pc[r] = "fore" => r[2] = 1
<1> DEFINE a == r[1]  n == r[2]
<1>1. /\ r = <<a, n>> /\ Agent(r) = a /\ a \in Agents
      /\ n \in 1 .. MaxRuns[a] /\ n \in Nat \ {0}
  BY RunIs
<1>2. Fresh(a) /\ ForeIsFirst(a) /\ count[a] \in Nat
  BY <1>1, AgentIs DEF Good
<1>3. pc[<<a, n>>] = pc[r]
  BY <1>1
<1> HIDE DEF a, n
<1>4. n <= count[a] /\ (pc[r] = "fore" => n = 1)
  BY <1>1, <1>2, <1>3 DEF Fresh, ForeIsFirst
<1>5. QED
  BY <1>1, <1>3, <1>4 DEF a, n

LEMMA GoodForeEnds ==
    ASSUME IInv, NEW r \in Runs, ForeEnds(r), NEW a \in Agents
    PROVE  Good(a)'
<1>1. PICK n : n = r[2]
  OBVIOUS
<1>2. /\ r[1] \in Agents /\ n \in 1 .. MaxRuns[r[1]] /\ n \in Nat \ {0}
      /\ pc[<<r[1], n>>] = "fore" /\ n <= count[r[1]] /\ n = 1
  BY <1>1, RunIsHere DEF ForeEnds
<1>3. \A m \in 1 .. MaxRuns[a] :
          pc'[<<a, m>>] = IF a = r[1] /\ m = n THEN "done" ELSE pc[<<a, m>>]
  BY <1>1, RunMoves DEF IInv, ForeEnds
<1>4. /\ task'[a] = IF a = r[1] THEN Unregistered(task[a]) ELSE task[a]
      /\ UNCHANGED <<count, uses, aborted, told, crossed>>
  BY <1>2 DEF IInv, TypeOK, ForeEnds, Change, Agent
<1>5. CASE a # r[1]
  BY <1>3, <1>4, <1>5, GoodUntouched DEF Untouched, IInv
<1>6. CASE a = r[1]
  <2> USE AgentIs, <1>2, <1>3, <1>4, <1>6 DEF Good, Newest, Unsettled
  <2>2. Shown(a)'
    BY DEF Shown, ForeIsFirst, Running, Unregistered, Foreground, Absent
  <2>3. Working(a)'
    BY DEF Working, Shown, ForeIsFirst, OlderAreDone, Running, Unregistered,
       Foreground, Absent
  <2>4. Told(a)'
    BY DEF Told, Working, Shown, ForeIsFirst, Unreported, Unregistered,
       Foreground, Absent
  <2>5. Fresh(a)'
    BY DEF Fresh
  <2>6. ForeIsFirst(a)'
    BY DEF ForeIsFirst, Unregistered, Foreground, Absent
  <2>7. OlderAreDone(a)'
    BY DEF OlderAreDone
  <2>8. QED
    BY <2>2, <2>3, <2>4, <2>5, <2>6, <2>7
<1>7. QED
  BY <1>5, <1>6

\* A step that touches nothing of agent a but its task, and there neither
\* what says whether it runs nor who may stop it.
Quiet(a) ==
    /\ \/ task'[a] = Absent /\ IsTerminal(task[a])
       \/ /\ task'[a].there = task[a].there /\ task'[a].status = task[a].status
          /\ task'[a].background = task[a].background
          /\ task'[a].controller = task[a].controller
          /\ \/ task'[a].notified = task[a].notified
             \/ IsTerminal(task[a]) /\ task'[a].notified
    /\ UNCHANGED <<count, told, crossed, pc, uses, aborted>>

LEMMA GoodQuiet ==
    ASSUME IInv, NEW a \in Agents, Quiet(a)
    PROVE  Good(a)'
<1> USE AgentIs DEF Good, Quiet, Newest
<1>1. Shown(a)'
  <2>1. Running(task'[a]) =>
            /\ Running(task[a]) /\ task'[a].controller = task[a].controller
            /\ task'[a].background = task[a].background
    <3>1. CASE task'[a] = Absent
      BY <3>1 DEF Running, Absent
    <3>2. CASE task'[a] # Absent
      BY <3>2 DEF Running
    <3>3. QED
      BY <3>1, <3>2
  <2>2. Newest(a)' = Newest(a)
    OBVIOUS
  <2>3. QED
    BY <2>1, <2>2 DEF Shown, Unsettled
<1>2. Working(a)'
  BY DEF Working, Running, Absent, IsTerminal, Ends
<1>3. Told(a)'
  BY DEF Told, Unreported, Absent
<1>4. Fresh(a)' /\ OlderAreDone(a)'
  BY DEF Fresh, OlderAreDone
<1>5. ForeIsFirst(a)'
  BY DEF ForeIsFirst, Foreground, Absent
<1>6. QED
  BY <1>1, <1>2, <1>3, <1>4, <1>5

\* Messages, the reading of a result and the polls are quiet.
LEMMA GoodSend ==
    ASSUME IInv, NEW s \in Senders, NEW b \in Agents, Send(s, b), NEW a \in Agents
    PROVE  Good(a)'
<1>1. task'[a] \in {task[a], Queued(task[a])} /\ task[a] \in TaskStates
  BY AgentIs DEF Send, Change, IInv, TypeOK
<1>2. Quiet(a)
  BY <1>1 DEF Quiet, Queued, TaskStates, Send
<1>3. QED
  BY <1>2, GoodQuiet

LEMMA GoodDrain ==
    ASSUME IInv, NEW r \in Runs, Drain(r), NEW a \in Agents
    PROVE  Good(a)'
<1>1. task'[a] \in {task[a], Drained(task[a])} /\ task[a] \in TaskStates
  BY AgentIs DEF Drain, Change, IInv, TypeOK
<1>2. Quiet(a)
  BY <1>1 DEF Quiet, Drained, TaskStates, Drain
<1>3. QED
  BY <1>2, GoodQuiet

LEMMA GoodReadOutput ==
    ASSUME IInv, NEW b \in Agents, ReadOutput(b) \/ GraceEnds(b), NEW a \in Agents
    PROVE  Good(a)'
<1>1. /\ task[a] \in TaskStates
      /\ \/ task'[a] = task[a]
         \/ task'[a] = Reported(task[a]) /\ IsTerminal(task[a])
         \/ task'[a] = [task[a] EXCEPT !.due = TRUE]
  BY AgentIs DEF ReadOutput, GraceEnds, Change, IInv, TypeOK
<1>2. Quiet(a)
  BY <1>1 DEF Quiet, Reported, IsTerminal, TaskStates, ReadOutput, GraceEnds
<1>3. QED
  BY <1>2, GoodQuiet

LEMMA GoodPollEnds ==
    ASSUME IInv, PollEnds, NEW a \in Agents
    PROVE  Good(a)'
<1>1. task'[a] \in {task[a], Evicted(task[a])}
  BY AgentIs DEF PollEnds
<1>2. Quiet(a)
  BY <1>1 DEF Quiet, Evicted, Evictable, PollEnds
<1>3. QED
  BY <1>2, GoodQuiet

\* A run goes from one place outside of the foreground to another, and is
\* not over.
LEMMA GoodMoves ==
    ASSUME IInv, NEW r \in Runs, Moves(r) \/ LoopEnds(r), NEW a \in Agents
    PROVE  Good(a)'
<1>1. PICK n : n = r[2]
  OBVIOUS
<1>2. PICK to \in {"back", "leaving"} : Goto(r, to)
  BY DEF Moves, LoopEnds
<1>3. /\ r[1] \in Agents /\ n \in 1 .. MaxRuns[r[1]] /\ n <= count[r[1]]
      /\ pc[<<r[1], n>>] \in {"moving", "back"}
  BY <1>1, RunIsHere DEF Moves, LoopEnds
<1>4. \A m \in 1 .. MaxRuns[a] :
          pc'[<<a, m>>] = IF a = r[1] /\ m = n THEN to ELSE pc[<<a, m>>]
  BY <1>1, <1>2, RunMoves DEF IInv
<1>5. UNCHANGED <<task, count, uses, aborted, told, crossed>>
  BY DEF Moves, LoopEnds
<1>6. CASE a # r[1]
  BY <1>4, <1>5, <1>6, GoodUntouched DEF Untouched, IInv
<1>7. CASE a = r[1]
  <2> USE AgentIs, <1>2, <1>3, <1>4, <1>5, <1>7 DEF Good, Newest, Unsettled
  <2>1. Shown(a)' /\ Working(a)'
    BY DEF Shown, Working, Running
  <2>2. Told(a)' /\ Fresh(a)' /\ OlderAreDone(a)'
    BY DEF Told, Fresh, OlderAreDone, Unreported
  <2>3. ForeIsFirst(a)'
    BY DEF ForeIsFirst, Foreground
  <2>4. QED
    BY <2>1, <2>2, <2>3
<1>8. QED
  BY <1>6, <1>7

\* The newest runs of the agents that are stopped are aborted, and no others.
LEMMA AbortedAtIs ==
    ASSUME IInv, NEW as \in SUBSET Agents, NEW a \in Agents, NEW n \in 1 .. MaxRuns[a]
    PROVE  <<a, n>> \in AbortedAt(as) <=> a \in as /\ Running(task[a]) /\ n = count[a]
<1>1. \A b \in Agents : Running(task[b]) => task[b].controller = <<b, count[b]>>
  BY AgentIs DEF Good, Shown, Newest
<1>2. AbortedAt(as) = {<<b, count[b]>> : b \in {c \in as : Running(task[c])}}
  BY <1>1 DEF AbortedAt
<1>3. QED
  BY <1>2

LEMMA GoodSettle ==
    ASSUME IInv, NEW r \in Runs, Settle(r), NEW a \in Agents
    PROVE  Good(a)'
<1>1. PICK n : n = r[2]
  OBVIOUS
<1>2. /\ r[1] \in Agents /\ Agent(r) = r[1]
      /\ n \in 1 .. MaxRuns[r[1]] /\ n <= count[r[1]]
      /\ pc[<<r[1], n>>] = "leaving" /\ how[r] \in Ends
  BY <1>1, RunIsHere DEF Settle, IInv, TypeOK
<1>3. \A m \in 1 .. MaxRuns[a] :
          /\ pc'[<<a, m>>] = IF a = r[1] /\ m = n THEN "reporting" ELSE pc[<<a, m>>]
          /\ <<a, m>> \in aborted' => \/ <<a, m>> \in aborted
                                      \/ a = r[1] /\ m = count[a]
          /\ <<a, m>> \in aborted => <<a, m>> \in aborted'
  <2>1. \A m \in 1 .. MaxRuns[a] :
            <<a, m>> \in AbortedAt({r[1]}) => a = r[1] /\ m = count[a]
    BY <1>2, AbortedAtIs
  <2>2. aborted' \in {aborted, aborted \cup AbortedAt({r[1]})}
    BY <1>2 DEF Settle
  <2>3. QED
    <3>1. \A m \in 1 .. MaxRuns[a] :
              pc'[<<a, m>>] = IF a = r[1] /\ m = n THEN "reporting" ELSE pc[<<a, m>>]
      <4>1. CASE Goto(r, "reporting")
        BY <1>1, <4>1, RunMoves DEF IInv
      <4>2. QED
        BY <4>1 DEF Settle
    <3>2. \A m \in 1 .. MaxRuns[a] :
              /\ <<a, m>> \in aborted' => \/ <<a, m>> \in aborted
                                          \/ <<a, m>> \in AbortedAt({r[1]})
              /\ <<a, m>> \in aborted => <<a, m>> \in aborted'
      BY <2>2
    <3>3. QED
      BY ONLY <2>1, <3>1, <3>2
<1>4. /\ task'[a] = IF a = r[1] THEN Ended(task[a], how[r]) ELSE task[a]
      /\ UNCHANGED <<count, uses, told, crossed>>
  BY <1>2 DEF IInv, TypeOK, Settle, Change
<1>5. CASE a # r[1]
  BY <1>3, <1>4, <1>5, GoodUntouched DEF Untouched, IInv
<1>6. CASE a = r[1]
  <2> USE AgentIs, <1>2, <1>3, <1>4, <1>6 DEF Good, Newest, Unsettled
  <2>1. task[a] \in TaskStates /\ ~Running(task'[a])
    BY DEF Ended, Running, Ends, TaskStates
  <2>2. ~crossed[a] => n = count[a]
    BY DEF OlderAreDone
  <2>3. Shown(a)' /\ Working(a)'
    BY <2>1, <2>2 DEF Shown, Working
  <2>4. Told(a)'
    BY <2>1, <2>2 DEF Told, Unreported, Ended, TaskStates
  <2>5. Fresh(a)' /\ OlderAreDone(a)'
    BY <2>2 DEF Fresh, OlderAreDone
  <2>6. ForeIsFirst(a)'
    BY <2>1 DEF ForeIsFirst, Foreground, Ended, TaskStates
  <2>7. QED
    BY <2>3, <2>4, <2>5, <2>6
<1>7. QED
  BY <1>5, <1>6

LEMMA GoodReport ==
    ASSUME IInv, NEW r \in Runs, Report(r), NEW a \in Agents
    PROVE  Good(a)'
<1>1. PICK n : n = r[2]
  OBVIOUS
<1>2. /\ r[1] \in Agents /\ Agent(r) = r[1]
      /\ n \in 1 .. MaxRuns[r[1]] /\ n <= count[r[1]]
      /\ pc[<<r[1], n>>] = "reporting"
  BY <1>1, RunIsHere DEF Report
<1>3. \A m \in 1 .. MaxRuns[a] :
          pc'[<<a, m>>] = IF a = r[1] /\ m = n THEN "done" ELSE pc[<<a, m>>]
  BY <1>1, RunMoves DEF IInv, Report
<1>4. /\ task'[a] = IF a = r[1] THEN Reported(task[a]) ELSE task[a]
      /\ told'[a] = IF a = r[1] /\ Unreported(task[a]) THEN told[a] + 1 ELSE told[a]
      /\ UNCHANGED <<count, uses, aborted, crossed>>
  BY <1>2 DEF IInv, TypeOK, Report, Change
<1>5. CASE a # r[1]
  BY <1>3, <1>4, <1>5, GoodUntouched DEF Untouched, IInv
<1>6. CASE a = r[1]
  <2> USE AgentIs, <1>2, <1>3, <1>4, <1>6 DEF Good, Newest, Unsettled
  <2>1. ~crossed[a] => n = count[a]
    BY DEF OlderAreDone
  <2>2. Shown(a)'
    BY DEF Shown, Running, Reported, TaskStates
  <2>3. Working(a)'
    BY <2>1 DEF Working
  <2>4. Told(a)'
    BY <2>1 DEF Told, Unreported, Reported, TaskStates
  <2>5. Fresh(a)' /\ OlderAreDone(a)'
    BY <2>1 DEF Fresh, OlderAreDone
  <2>6. ForeIsFirst(a)'
    BY DEF ForeIsFirst, Foreground, Reported, TaskStates
  <2>7. QED
    BY <2>2, <2>3, <2>4, <2>5, <2>6
<1>7. QED
  BY <1>5, <1>6

LEMMA GoodKill ==
    ASSUME IInv, NEW b \in Agents, Kill(b), NEW a \in Agents
    PROVE  Good(a)'
<1>1. /\ \A m \in 1 .. MaxRuns[a] :
             <<a, m>> \in AbortedAt({b}) => a = b /\ m = count[a]
      /\ aborted' = aborted \cup AbortedAt({b})
  BY AbortedAtIs DEF Kill
<1>2. /\ task'[a] = IF a = b THEN Ended(task[a], "killed") ELSE task[a]
      /\ UNCHANGED <<pc, count, uses, told, crossed>>
  BY DEF IInv, TypeOK, Kill, Change
<1>3. CASE a # b
  BY <1>1, <1>2, <1>3, GoodUntouched DEF Untouched, IInv
<1>4. CASE a = b
  <2> USE AgentIs, <1>1, <1>2, <1>4
     DEF Good, Newest, Unsettled, TaskStates, Ended
  <2>1. Running(task[a]) /\ ~Running(task'[a])
    BY DEF Running, Kill
  <2>2. Newest(a) \in aborted'
    <3>1. count[a] \in 1 .. MaxRuns[a]
      BY <2>1 DEF Shown
    <3>2. QED
      BY <2>1, <3>1, AbortedAtIs
  <2>3. Shown(a)' /\ Working(a)'
    BY <2>1, <2>2 DEF Shown, Working
  <2>4. Told(a)'
    BY <2>1 DEF Told, Unreported
  <2>5. Fresh(a)'
    BY SMTT(30), <1>1 DEF Fresh
  <2>6. OlderAreDone(a)' /\ ForeIsFirst(a)'
    BY DEF OlderAreDone, ForeIsFirst, Foreground
  <2>7. QED
    BY <2>3, <2>4, <2>5, <2>6
<1>5. QED
  BY <1>3, <1>4

LEMMA GoodKillAll ==
    ASSUME IInv, KillAll, NEW a \in Agents
    PROVE  Good(a)'
<1>1. \A m \in 1 .. MaxRuns[a] :
          <<a, m>> \in aborted' <=> \/ <<a, m>> \in aborted
                                    \/ Running(task[a]) /\ m = count[a]
  BY AbortedAtIs DEF KillAll
<1>2. /\ task'[a] = IF Running(task[a]) THEN Reported(Ended(task[a], "killed"))
                                        ELSE task[a]
      /\ told'[a] = IF Running(task[a]) THEN told[a] + 1 ELSE told[a]
      /\ UNCHANGED <<pc, count, uses, crossed>>
  BY DEF IInv, TypeOK, KillAll
<1>3. CASE ~Running(task[a])
  BY <1>1, <1>2, <1>3, GoodUntouched DEF Untouched, IInv
<1>4. CASE Running(task[a])
  <2> USE AgentIs, <1>1, <1>2, <1>4
     DEF Good, Newest, Unsettled, TaskStates, Ended, Reported
  <2>1. ~Running(task'[a]) /\ task'[a].notified /\ task[a].there
    BY DEF Running
  <2>2. Newest(a) \in aborted' /\ ~Unreported(task'[a])
    BY <2>1 DEF Shown, Unreported
  <2>3. Shown(a)' /\ Working(a)'
    BY <2>1, <2>2 DEF Shown, Working
  <2>4. Told(a)'
    BY <2>1, <2>2 DEF Told, Working, Shown, Unreported
  <2>5. Fresh(a)'
    BY DEF Fresh
  <2>6. OlderAreDone(a)' /\ ForeIsFirst(a)'
    BY DEF OlderAreDone, ForeIsFirst, Foreground
  <2>7. QED
    BY <2>3, <2>4, <2>5, <2>6
<1>5. QED
  BY <1>3, <1>4

LEMMA GoodBackgroundAll ==
    ASSUME IInv, BackgroundAll, NEW a \in Agents
    PROVE  Good(a)'
<1>1. \A m \in 1 .. MaxRuns[a] :
          /\ pc'[<<a, m>>] = IF pc[<<a, m>>] = "fore" /\ Foreground(task[a])
                            THEN "moving" ELSE pc[<<a, m>>]
          /\ uses'[<<a, m>>] = IF pc[<<a, m>>] = "fore" /\ Foreground(task[a])
                              THEN task[a].controller ELSE uses[<<a, m>>]
  BY RunIs DEF BackgroundAll, Agent
<1>2. /\ task'[a] = IF Foreground(task[a]) THEN LeftFore(task[a]) ELSE task[a]
      /\ UNCHANGED <<count, aborted, told, crossed>>
  BY DEF BackgroundAll
<1>3. CASE ~Foreground(task[a])
  BY <1>1, <1>2, <1>3, GoodUntouched DEF Untouched, IInv
<1>4. CASE Foreground(task[a])
  <2> USE AgentIs, <1>1, <1>2, <1>4 DEF Good, Newest, Unsettled, TaskStates
  <2>1. /\ task'[a] = [task[a] EXCEPT !.background = TRUE] /\ task[a].there
        /\ count[a] = 1
    BY DEF LeftFore, Unregistered, Backgrounded, Foreground, ForeIsFirst
  <2>2. Shown(a)' /\ Working(a)'
    BY <2>1 DEF Shown, Working, Running, Foreground
  <2>3. Told(a)' /\ Fresh(a)' /\ OlderAreDone(a)'
    BY <2>1 DEF Told, Fresh, OlderAreDone, Unreported
  <2>4. ForeIsFirst(a)'
    BY <2>1 DEF ForeIsFirst, Foreground
  <2>5. QED
    BY <2>2, <2>3, <2>4
<1>5. QED
  BY <1>3, <1>4

LEMMA GoodTimer ==
    ASSUME IInv, NEW r \in Runs, TimerFires(r), NEW a \in Agents
    PROVE  Good(a)'
<1>1. PICK n : n = r[2]
  OBVIOUS
<1>2. /\ r[1] \in Agents /\ Agent(r) = r[1] /\ r = <<r[1], n>>
      /\ n \in 1 .. MaxRuns[r[1]] /\ n <= count[r[1]] /\ n = 1
      /\ pc[<<r[1], n>>] = "fore"
  BY <1>1, RunIsHere DEF TimerFires
<1>3. \A m \in 1 .. MaxRuns[a] :
          /\ pc'[<<a, m>>] = IF a = r[1] /\ m = n
                            THEN IF task[a].there THEN "moving" ELSE "spinning"
                            ELSE pc[<<a, m>>]
          /\ uses'[<<a, m>>] = IF a = r[1] /\ m = n THEN task[a].controller
                                                  ELSE uses[<<a, m>>]
  <2>1. Goto(r, IF task[r[1]].there THEN "moving" ELSE "spinning")
    BY <1>2 DEF TimerFires
  <2>2. uses' = [uses EXCEPT ![r] = task[r[1]].controller]
    BY <1>2 DEF TimerFires
  <2>3. \A m \in 1 .. MaxRuns[a] : <<a, m>> \in Runs
    BY RunIs
  <2>4. QED
    BY <1>1, <1>2, <2>1, <2>2, <2>3, RunMoves DEF IInv, TypeOK
<1>4. /\ task'[a] = IF a = r[1] THEN LeftFore(task[a]) ELSE task[a]
      /\ UNCHANGED <<count, aborted, told, crossed>>
  BY <1>2 DEF IInv, TypeOK, TimerFires, Change
<1>5. CASE a # r[1]
  BY <1>3, <1>4, <1>5, GoodUntouched DEF Untouched, IInv
<1>6. CASE a = r[1]
  <2> USE AgentIs, <1>2, <1>3, <1>4, <1>6
     DEF Good, Newest, Unsettled, TaskStates
  <2>1. task'[a] = IF task[a].there THEN [task[a] EXCEPT !.background = TRUE]
                   ELSE task[a]
    BY DEF LeftFore, Unregistered, Backgrounded, Foreground
  <2>2. Shown(a)'
    BY <2>1 DEF Shown, Running, ForeIsFirst
  <2>3. Working(a)'
    BY <2>1 DEF Shown, Working, Running, OlderAreDone, ForeIsFirst
  <2>4. Told(a)' /\ Fresh(a)' /\ OlderAreDone(a)'
    BY <2>1 DEF Told, Fresh, OlderAreDone, Unreported
  <2>5. ForeIsFirst(a)'
    BY <2>1 DEF ForeIsFirst, Foreground
  <2>6. QED
    BY <2>2, <2>3, <2>4, <2>5
<1>7. QED
  BY <1>5, <1>6

\* A new run of an agent, whatever has become of the others.
LEMMA GoodRegister ==
    ASSUME IInv, NEW b \in Agents, NEW bg \in BOOLEAN, Register(b, bg),
           bg \/ count[b] = 0, aborted' = aborted, NEW a \in Agents
    PROVE  Good(a)'
<1>1. PICK n : n = count[b] + 1
  OBVIOUS
<1>2. n \in 1 .. MaxRuns[b] /\ count[b] \in Nat /\ <<b, n>> \in Runs
  BY <1>1, AgentIs, RunIs DEF Register
<1>3. \A m \in 1 .. MaxRuns[a] :
          /\ pc'[<<a, m>>] = IF a = b /\ m = n
                            THEN IF bg THEN "back" ELSE "fore" ELSE pc[<<a, m>>]
          /\ uses'[<<a, m>>] = IF a = b /\ m = n THEN IF bg THEN <<b, n>> ELSE None
                                              ELSE uses[<<a, m>>]
  <2>1. /\ pc' = [pc EXCEPT ![<<b, n>>] = IF bg THEN "back" ELSE "fore"]
        /\ uses' = [uses EXCEPT ![<<b, n>>] = IF bg THEN <<b, n>> ELSE None]
    BY <1>1 DEF Register, Goto
  <2>2. \A m \in 1 .. MaxRuns[a] : <<a, m>> \in Runs
    BY RunIs
  <2>3. QED
    BY <1>2, <2>1, <2>2 DEF IInv, TypeOK
<1>4. /\ task'[a] = IF a = b THEN Registered(task[a], <<b, n>>, bg) ELSE task[a]
      /\ count'[a] = IF a = b THEN n ELSE count[a]
      /\ told'[a] = IF a = b THEN 0 ELSE told[a]
      /\ crossed'[a] = IF a = b THEN \E r \in Begun(b) : pc[r] \in Unfinished
                                 ELSE crossed[a]
  BY <1>1 DEF IInv, TypeOK, Register, Change
<1>5. CASE a # b
  BY <1>3, <1>4, <1>5, GoodUntouched DEF Untouched, IInv
<1>6. CASE a = b
  <2> USE AgentIs, <1>1, <1>2, <1>3, <1>4, <1>6 DEF Good, Newest, Unsettled
  <2>1. /\ task'[a].there /\ task'[a].status = "running" /\ ~task'[a].notified
        /\ task'[a].background = bg /\ task'[a].controller = <<a, n>>
    BY DEF Registered, Absent
  <2>2. Shown(a)'
    <3>1. Newest(a)' = <<a, n>> /\ <<a, n>> \notin aborted
      BY DEF Fresh
    <3>2. QED
      BY <2>1, <3>1 DEF Shown
  <2>3. Working(a)' /\ Told(a)'
    BY <2>1 DEF Working, Told, Running
  <2>4. Fresh(a)'
    BY DEF Fresh
  <2>5. OlderAreDone(a)'
    <3>1. SUFFICES ASSUME ~crossed'[a], NEW m \in 1 .. MaxRuns[a], m < n
                   PROVE  pc[<<a, m>>] = "done"
      BY DEF OlderAreDone
    <3>2. <<a, m>> \in Begun(a) /\ pc[<<a, m>>] # "unused"
      BY <3>1 DEF Begun, Fresh
    <3>3. <<a, m>> \in Runs
      BY RunIs
    <3>4. QED
      BY <3>1, <3>2, <3>3 DEF IInv, TypeOK
  <2>6. ForeIsFirst(a)'
    BY <2>1 DEF ForeIsFirst, Foreground
  <2>7. QED
    BY <2>2, <2>3, <2>4, <2>5, <2>6
<1>7. QED
  BY <1>5, <1>6

LEMMA GoodStep ==
    ASSUME IInv, [Next]_vars, NEW a \in Agents
    PROVE  Good(a)'
<1>1. ASSUME NEW b \in Agents, OfAgent(b) PROVE Good(a)'
  BY <1>1, GoodRegister, GoodKill, GoodReadOutput
     DEF OfAgent, StartAsync, StartFore
<1>2. ASSUME NEW s \in Senders, OfSender(s) PROVE Good(a)'
  <2>1. CASE Resume(s)
    BY <2>1, GoodRegister DEF Resume, IInv, TypeOK
  <2>2. CASE ResumeFails(s)
    BY <2>2, GoodQuiet DEF ResumeFails, Quiet
  <2>3. QED
    BY <1>2, <2>1, <2>2, GoodSend DEF OfSender
<1>3. ASSUME NEW r \in Runs, OfRun(r) PROVE Good(a)'
  BY <1>3, GoodForeEnds, GoodMoves, GoodSettle, GoodReport, GoodTimer,
     GoodDrain
     DEF OfRun, Ending
<1>4. CASE PollBegins \/ UNCHANGED vars
  BY <1>4, GoodQuiet DEF PollBegins, Quiet, vars
<1>5. QED
  BY <1>1, <1>2, <1>3, <1>4, GoodBackgroundAll, GoodKillAll, GoodPollEnds
     DEF Next

LEMMA GoodStarts == Init => IInv
<1> SUFFICES ASSUME Init PROVE \A a \in Agents : Good(a)
  BY TypeStarts DEF IInv
<1>1. \A r \in Runs : r[2] > 0
  BY RunIs
<1>2. QED
  BY <1>1, RunIs
     DEF Init, Good, Shown, Working, Told, Fresh, ForeIsFirst, OlderAreDone,
     Running, Absent, Unreported, Foreground

LEMMA Invariance == Spec => []IInv
<1>1. IInv /\ [Next]_vars => IInv'
  <2>1. IInv => TypeOK /\ ShownIsWorking
    BY IInvImpliesAgentInv DEF IInv, AgentInv
  <2>2. QED
    BY <2>1, TypeStep, GoodStep DEF IInv
<1>2. QED
  BY GoodStarts, <1>1, PTL DEF Spec

-----------------------------------------------------------------------------
(***************************************************************************)
(* The results.                                                            *)
(***************************************************************************)

\* Whatever is stopped, resumed, sent to the background, polled and evicted
\* in whatever order: a task that is shown as running has a run that goes on
\* and that its controller stops, and unless its runs cross an agent that
\* works is shown and its end is told once.
THEOREM AgentsAreShownAndTold == Spec => []AgentInv
<1>1. QED
  BY Invariance, IInvImpliesAgentInv, PTL

\* What a step does to the task of an agent.
Kept(a) ==
    /\ count'[a] = count[a]
    /\ \/ task'[a] \in {task[a], Queued(task[a]), Reported(task[a]),
                       Unregistered(task[a]), LeftFore(task[a]),
                       Evicted(task[a]), [task[a] EXCEPT !.due = TRUE]}
       \/ \E h \in Ends : \/ task'[a] = Ended(task[a], h)
                          \/ task'[a] = Reported(Ended(task[a], h))

Taken(a) ==
    /\ count'[a] = count[a] /\ task'[a] = Drained(task[a])
    /\ \E r \in Begun(a) : pc[r] \in {"fore", "back"}

Replaced(a) ==
    /\ count'[a] # count[a]
    /\ \E r \in Runs, bg \in BOOLEAN : task'[a] = Registered(task[a], r, bg)

LEMMA TaskEffect ==
    ASSUME IInv, [Next]_vars, NEW a \in Agents
    PROVE  Kept(a) \/ Taken(a) \/ Replaced(a)
<1> USE DEF IInv, TypeOK, Change
<1>1. ASSUME NEW b \in Agents, NEW bg \in BOOLEAN, Register(b, bg)
      PROVE  Kept(a) \/ Replaced(a)
  <2>1. CASE a # b
    BY <1>1, <2>1 DEF Register, Kept
  <2>2. CASE a = b
    <3>1. <<b, count[b] + 1>> \in Runs
      BY <1>1, RunIs DEF Register
    <3>2. QED
      BY <1>1, <2>2, <3>1 DEF Register, Replaced
  <2>3. QED
    BY <2>1, <2>2
<1>2. ASSUME NEW b \in Agents, OfAgent(b) PROVE Kept(a) \/ Replaced(a)
  <2>1. CASE StartAsync(b) \/ StartFore(b)
    BY <1>1, <2>1 DEF StartAsync, StartFore
  <2>2. CASE Kill(b)
    BY <2>2 DEF Kill, Kept, Ends
  <2>3. CASE ReadOutput(b) \/ GraceEnds(b)
    BY <2>3 DEF ReadOutput, GraceEnds, Kept
  <2>4. QED
    BY <1>2, <2>1, <2>2, <2>3 DEF OfAgent
<1>3. ASSUME NEW s \in Senders, OfSender(s) PROVE Kept(a) \/ Replaced(a)
  <2>1. CASE Resume(s)
    BY <1>1, <2>1 DEF Resume
  <2>2. CASE ResumeFails(s)
    BY <2>2 DEF ResumeFails, Kept
  <2>3. ASSUME NEW b \in Agents, Send(s, b) PROVE Kept(a)
    BY <2>3 DEF Send, Kept
  <2>4. QED
    BY <1>3, <2>1, <2>2, <2>3 DEF OfSender
<1>4. ASSUME NEW r \in Runs, OfRun(r) PROVE Kept(a) \/ Taken(a)
  <2> USE RunIs
  <2>1. CASE Moves(r) \/ LoopEnds(r)
    BY <2>1 DEF Moves, LoopEnds, Kept
  <2>2. CASE ForeEnds(r) \/ TimerFires(r)
    BY <2>2 DEF ForeEnds, TimerFires, Kept
  <2>3. CASE Settle(r)
    BY <2>3 DEF Settle, Kept
  <2>4. CASE Report(r)
    BY <2>4 DEF Report, Kept
  <2>5. CASE Drain(r)
    <3>1. CASE a # r[1]
      BY <2>5, <3>1 DEF Drain, Kept
    <3>2. CASE a = r[1]
      <4>1. r = <<a, r[2]>> /\ r[2] \in 1 .. count[a]
        BY <2>5, <3>2, RunIsHere DEF Drain
      <4>2. QED
        BY <2>5, <3>2, <4>1 DEF Drain, Taken, Begun
    <3>3. QED
      BY <3>1, <3>2
  <2>6. QED
    BY <1>4, <2>1, <2>2, <2>3, <2>4, <2>5 DEF OfRun, Ending
<1>5. CASE BackgroundAll \/ PollBegins \/ PollEnds
  BY <1>5 DEF BackgroundAll, PollBegins, PollEnds, Kept
<1>6. CASE KillAll
  BY <1>6 DEF KillAll, Kept, Ends
<1>7. CASE UNCHANGED vars
  BY <1>7 DEF vars, Kept
<1>8. QED
  BY <1>2, <1>3, <1>4, <1>5, <1>6, <1>7 DEF Next

\* No end of a task is recorded over an end, whoever stops it and whichever
\* of its runs ends when.
THEOREM FirstEndStays == Spec => FirstEndCounts
<1>1. ASSUME IInv, [Next]_vars, NEW a \in Agents,
             IsTerminal(task[a]), task'[a].there
      PROVE  task'[a].status = task[a].status \/ count'[a] # count[a]
  <2>1. task[a] \in TaskStates
    BY <1>1, AgentIs
  <2>2. CASE Kept(a)
    BY <1>1, <2>1, <2>2
       DEF Kept, IsTerminal, Queued, Reported, Unregistered, LeftFore,
           Backgrounded, Evicted, Ended, Running, Absent, Ends, TaskStates
  <2>3. CASE Taken(a)
    BY <2>1, <2>3 DEF Taken, Drained, TaskStates
  <2>4. QED
    BY <1>1, <2>2, <2>3, TaskEffect DEF Replaced
<1>2. IInv /\ [Next]_vars =>
          [\A a \in Agents : IsTerminal(task[a]) /\ task'[a].there
               => task'[a].status = task[a].status \/ count'[a] # count[a]]_vars
  BY <1>1
<1>3. QED
  BY <1>2, Invariance, PTL DEF FirstEndCounts, Spec

\* Messages that wait for an agent are taken by a run of it, or go with its
\* task; neither its end nor its resumption loses one.
THEOREM MessagesStay == Spec => MessagesAreKept
<1>1. ASSUME IInv, [Next]_vars, NEW a \in Agents,
             task[a].pending, task'[a].there, ~task'[a].pending
      PROVE  /\ count'[a] = count[a]
             /\ \E r \in Begun(a) : pc[r] \in {"fore", "back"}
  <2>1. task[a] \in TaskStates
    BY <1>1, AgentIs
  <2>2. ~Kept(a)
    <3>1. ASSUME NEW h \in Ends
          PROVE  Ended(task[a], h).pending /\ Reported(Ended(task[a], h)).pending
      BY <1>1, <2>1 DEF Reported, Ended, TaskStates, Ends
    <3>2. ASSUME NEW t \in {task[a], Queued(task[a]), Reported(task[a]),
                            Unregistered(task[a]), LeftFore(task[a]),
                            Evicted(task[a]), [task[a] EXCEPT !.due = TRUE]}
          PROVE  t.there => t.pending
      BY <1>1, <2>1
         DEF Queued, Reported, Unregistered, LeftFore, Backgrounded,
                        Evicted, Absent, TaskStates
    <3>3. QED
      BY <1>1, <3>1, <3>2 DEF Kept
  <2>3. ~Replaced(a)
    BY <1>1, <2>1 DEF Replaced, Registered, Absent
  <2>4. QED
    BY <1>1, <2>2, <2>3, TaskEffect DEF Taken
<1>2. IInv /\ [Next]_vars =>
          [\A a \in Agents :
               task[a].pending /\ task'[a].there /\ ~task'[a].pending
               => /\ count'[a] = count[a]
                  /\ \E r \in Begun(a) : pc[r] \in {"fore", "back"}]_vars
  BY <1>1
<1>3. QED
  BY <1>2, Invariance, PTL DEF MessagesAreKept, Spec
=============================================================================
