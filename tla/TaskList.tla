------------------------------ MODULE TaskList ------------------------------
(***************************************************************************)
(* The task list that the agents of a team share: one JSON file per task   *)
(* in a directory, a lock per task file, a lock of the whole list, and a   *)
(* high water mark of the ids given out.                                   *)
(*                                                                         *)
(*   utils/tasks.ts                 the operations                         *)
(*   tools/TaskUpdateTool, tools/TaskCreateTool, hooks/useTasksV2.ts,      *)
(*   hooks/useTaskListWatcher.ts, utils/swarm/inProcessRunner.ts  callers  *)
(*                                                                         *)
(* A process is one agent's flow of control (in one program or in many).   *)
(* An action is one file-system call: everything else may happen between   *)
(* two of them.  writeFile truncates first and fills in later; a reader    *)
(* in between sees an empty file, which getTask reports as no task and     *)
(* readHighWaterMark as 0.  A process may die at any point; proper-lockfile*)
(* takes its locks for stale some time later.                              *)
(***************************************************************************)
EXTENDS Integers, Sequences, FiniteSets

CONSTANTS Procs,       \* flows of control, each acting for one agent
          AgentOf,     \* the agent name under which a process claims
          Nobody,      \* no owner, no lock holder
          MaxId,       \* bound: the largest task id
          Existing,    \* the tasks that are there at first, ids 1..n
          Ops,         \* the operations that the processes begin
          Wants,       \* what TaskUpdate is asked to write
          MaxCalls,    \* bound: operations begun
          MaxCrashes   \* bound: processes that die

Ids == 1..MaxId
Agents == {AgentOf[p] : p \in Procs}
Statuses == {"pending", "in_progress", "completed"}
Tasks == [owner : Agents \cup {Nobody}, status : Statuses,
          blocks : SUBSET Ids, blockedBy : SUBSET Ids]
NewTask == [owner |-> Nobody, status |-> "pending",
            blocks |-> {}, blockedBy |-> {}]

\* task is the last complete content; torn: truncated and not filled yet;
\* writers: the processes that have this very file open for writing.
Files == [there : BOOLEAN, torn : BOOLEAN, task : Tasks,
          writers : SUBSET Procs]
NoFile == [there |-> FALSE, torn |-> FALSE, task |-> NewTask, writers |-> {}]
Unlinked(f) == [NoFile EXCEPT !.task = f.task]

Operations == {"create", "delete", "block", "update", "claim", "unassign",
               "hide", "reset"}

ASSUME NobodyAssumption == Nobody \notin Procs /\ Nobody \notin Agents
ASSUME BoundsAssumption == /\ MaxId \in Nat /\ MaxCalls \in Nat
                           /\ MaxCrashes \in Nat
ASSUME ExistingAssumption == /\ Existing \in Seq(Tasks)
                             /\ Len(Existing) <= MaxId
ASSUME OpsAssumption == Ops \subseteq Operations

VARIABLES
    file,      \* the task files
    mark,      \* what .highwatermark reads as (0 while it is truncated)
    listLock,  \* the process that holds the lock of the list, or Nobody
    taskLock,  \* per task file: the process that holds its lock
    call,      \* per process: the operation in progress
    born,      \* history: how often an id was given to a new task
    edges,     \* history: the pairs for which blockTask returned true
    deleted,   \* history: deleteTask was called
    calls,     \* operations begun (bounded by MaxCalls)
    crashes    \* processes that died (bounded by MaxCrashes)

disk == <<file, mark>>
locks == <<listLock, taskLock>>
history == <<born, edges, deleted>>
bounds == <<calls, crashes>>
vars == <<file, mark, listLock, taskLock, call, born, edges, deleted, calls,
          crashes>>

(***************************************************************************)
(* A call.  plan is the updates it still has to make, the first one being  *)
(* in progress; todo the files it has still to read (or to unlink).        *)
(***************************************************************************)
Job(i, set, kind) == [id |-> i, set |-> set, kind |-> kind]

Call(op, pc, i, arg, todo, plan) ==
    [op |-> op, pc |-> pc, id |-> i, arg |-> arg, todo |-> todo,
     plan |-> plan, seen |-> {}, open |-> {}, high |-> 0, cur |-> NewTask,
     won |-> 0]

Idle == Call("none", "idle", 0, Nobody, {}, <<>>)
At(p, pc) == call[p].pc = pc
Goto(c, pc) == [c EXCEPT !.pc = pc]
Readable(i) == file[i].there /\ ~file[i].torn
Present == {i \in Ids : file[i].there}
Doing(p) == Head(call[p].plan)

\* The next update of the plan, or the end of the operation.
Onward(c, plan) ==
    IF plan = <<>> THEN [Idle EXCEPT !.won = c.won]
    ELSE [c EXCEPT !.pc = "check", !.plan = plan, !.cur = NewTask,
                   !.seen = {}, !.open = {}]

\* blockTask returns true when its updates are made, or were not needed.
Recorded(c, after) == IF c.op = "block" /\ after.pc = "idle"
                      THEN edges \cup {<<c.id, c.arg>>} ELSE edges

\* All files of a listing have been read.
Looked(c) ==
    CASE c.todo # {} -> c
      [] c.todo = {} /\ c.op = "claim" -> Goto(c, "judge")
      [] c.todo = {} /\ c.op = "hide" ->
            IF c.seen # {} /\ c.open = {} THEN Goto(c, "listLock") ELSE Idle
      [] OTHER -> Onward(c, c.plan)

Init ==
    /\ file = [i \in Ids |-> IF i <= Len(Existing)
                             THEN [NoFile EXCEPT !.there = TRUE,
                                                 !.task = Existing[i]]
                             ELSE NoFile]
    /\ mark = 0
    /\ listLock = Nobody
    /\ taskLock = [i \in Ids |-> Nobody]
    /\ call = [p \in Procs |-> Idle]
    /\ born = [i \in Ids |-> IF i <= Len(Existing) THEN 1 ELSE 0]
    /\ edges = {}
    /\ deleted = FALSE
    /\ calls = 0
    /\ crashes = 0

-----------------------------------------------------------------------------
(***************************************************************************)
(* Beginning an operation.                                                 *)
(***************************************************************************)
Begin(p, op, c) ==
    /\ At(p, "idle")
    /\ op \in Ops
    /\ calls < MaxCalls
    /\ calls' = calls + 1
    /\ call' = [call EXCEPT ![p] = c]
    /\ deleted' = (deleted \/ op = "delete")
    /\ UNCHANGED <<disk, locks, born, edges, crashes>>

BeginCreate(p) == Begin(p, "create", Call("create", "listLock", 0, Nobody,
                                          {}, <<>>))

\* TeamCreateTool clears the list for the new team.
BeginReset(p) == Begin(p, "reset", Call("reset", "listLock", 0, Nobody,
                                        {}, <<>>))

\* TaskUpdateTool with status deleted, for a task it could read.
BeginDelete(p) ==
    \E i \in Ids :
        /\ Readable(i)
        /\ Begin(p, "delete", Call("delete", "mark", i, Nobody, {}, <<>>))

\* blockTask: from blocks to; both are read at the same time.
BeginBlock(p) ==
    \E from, to \in Present :
        /\ from # to
        /\ Begin(p, "block", Call("block", "look", from, to, {from, to},
                                  <<>>))

\* TaskUpdateTool: the update depends on the task it read first.
BeginUpdate(p) ==
    \E i \in Ids, want \in Wants :
        Begin(p, "update", Call("update", "look", i, want, {i}, <<>>))

\* The followers of a claim: the watcher may release the task again, the
\* in-process runner sets it in progress.
Followers(i) == {<<>>, <<Job(i, [owner |-> Nobody], "release")>>,
                 <<Job(i, [status |-> "in_progress"], "update")>>}

BeginClaim(p) ==
    \E i \in Ids : \E after \in Followers(i) :
        Begin(p, "claim",
              Call("claim", "check", i, Nobody, {},
                   <<Job(i, [owner |-> AgentOf[p]], "claim")>> \o after))

BeginUnassign(p) ==
    \E a \in Agents : Begin(p, "unassign", Call("unassign", "list", 0, a,
                                                {}, <<>>))

\* The hide timer of useTasksV2 fires and checks the list.
BeginHide(p) == Begin(p, "hide", Call("hide", "list", 0, Nobody, {}, <<>>))

Start(p) == \/ BeginCreate(p) \/ BeginReset(p) \/ BeginDelete(p)
            \/ BeginBlock(p) \/ BeginUpdate(p) \/ BeginClaim(p)
            \/ BeginUnassign(p) \/ BeginHide(p)

-----------------------------------------------------------------------------
(***************************************************************************)
(* Reading: readdir, then one getTask per file in any order.               *)
(***************************************************************************)
List(p) ==
    /\ At(p, "list")
    /\ call' = [call EXCEPT ![p] =
                   Looked([@ EXCEPT !.pc = "look", !.todo = Present])]
    /\ UNCHANGED <<disk, locks, history, bounds>>

\* What TaskUpdateTool changes, given the task as it read it: a status, or
\* an owner; who sets a task in progress becomes its owner if it has none.
ToolSet(p, want, t) ==
    LET new == [status |-> IF want \in Statuses THEN want ELSE t.status,
                owner |-> CASE want \in Agents -> want
                            [] want = "in_progress" /\ t.owner = Nobody ->
                                  AgentOf[p]
                            [] OTHER -> t.owner]
    IN [f \in {g \in DOMAIN new : new[g] # t[g]} |-> new[f]]

\* The updates that the task i with content t calls for.
Updates(p, c, i, t) ==
    CASE c.op = "update" /\ DOMAIN ToolSet(p, c.arg, t) # {} ->
            <<Job(i, ToolSet(p, c.arg, t),
                  IF c.arg \in Agents THEN "assign" ELSE "update")>>
      [] c.op = "delete" /\ (c.id \in t.blocks \/ c.id \in t.blockedBy) ->
            <<Job(i, [blocks |-> t.blocks \ {c.id},
                      blockedBy |-> t.blockedBy \ {c.id}], "update")>>
      [] c.op = "unassign" /\ t.status # "completed" /\ t.owner = c.arg ->
            <<Job(i, [owner |-> Nobody, status |-> "pending"], "unassign")>>
      [] c.op = "block" /\ i = c.id /\ c.arg \notin t.blocks ->
            <<Job(i, [blocks |-> t.blocks \cup {c.arg}], "update")>>
      [] c.op = "block" /\ i = c.arg /\ c.id \notin t.blockedBy ->
            <<Job(i, [blockedBy |-> t.blockedBy \cup {c.id}], "update")>>
      [] OTHER -> <<>>

\* blockTask updates the blocking task first.
Planned(c, i, jobs) == IF c.op = "block" /\ i = c.id THEN jobs \o c.plan
                       ELSE c.plan \o jobs

\* A task that cannot be read is skipped, except where it is the one asked
\* for (blockTask and TaskUpdateTool give up).
Look(p) ==
    /\ At(p, "look")
    /\ \E i \in call[p].todo :
        LET c == call[p]
            t == file[i].task
            read == [c EXCEPT !.todo = @ \ {i},
                              !.seen = @ \cup {i},
                              !.open = IF t.status = "completed" THEN @
                                       ELSE @ \cup {i},
                              !.plan = Planned(c, i, Updates(p, c, i, t))]
            skipped == [c EXCEPT !.todo = @ \ {i}]
        IN \/ /\ Readable(i)
              /\ call' = [call EXCEPT ![p] = Looked(read)]
              /\ edges' = Recorded(c, Looked(read))
           \/ /\ ~Readable(i)
              /\ call' = [call EXCEPT ![p] =
                             IF c.op \in {"block", "update"} THEN Idle
                             ELSE Looked(skipped)]
              /\ UNCHANGED edges
    /\ UNCHANGED <<disk, locks, born, deleted, bounds>>

\* A TaskCompleted hook forbids to complete the task.
HookForbids(p) ==
    /\ At(p, "check")
    /\ call[p].op = "update"
    /\ "status" \in DOMAIN Doing(p).set /\ call[p].arg = "completed"
    /\ call' = [call EXCEPT ![p] = Idle]
    /\ UNCHANGED <<disk, locks, history, bounds>>

-----------------------------------------------------------------------------
(***************************************************************************)
(* updateTask and claimTask: see whether the file is there, lock it, read  *)
(* it (a claim: judge it, read it again), write it, release the lock.      *)
(***************************************************************************)
\* Mutant: the lock is taken whoever holds it.
LockAlwaysFree(i) == TRUE
LockIsFree(i) == taskLock[i] = Nobody
Unlock(i) == taskLock' = [taskLock EXCEPT ![i] = Nobody]

\* claimTask without a readable file fails; updateTask returns null.
Check(p) ==
    /\ At(p, "check")
    /\ LET c == call[p]
           after == CASE Readable(Doing(p).id) -> Goto(c, "lock")
                      [] ~Readable(Doing(p).id) /\ Doing(p).kind = "claim" ->
                            Idle
                      [] OTHER -> Onward(c, Tail(c.plan))
       IN /\ call' = [call EXCEPT ![p] = after]
          /\ edges' = Recorded(c, after)
    /\ UNCHANGED <<disk, locks, born, deleted, bounds>>

Lock(p) ==
    /\ At(p, "lock")
    /\ LockIsFree(Doing(p).id)
    /\ taskLock' = [taskLock EXCEPT ![Doing(p).id] = p]
    /\ call' = [call EXCEPT ![p] =
                   Goto(@, IF Doing(p).kind = "claim" THEN "vet"
                           ELSE "read")]
    /\ UNCHANGED <<disk, listLock, history, bounds>>

\* lock() throws when the retries are used up or the file is gone.
LockFails(p) ==
    /\ At(p, "lock")
    /\ ~LockIsFree(Doing(p).id) \/ ~file[Doing(p).id].there
    /\ call' = [call EXCEPT ![p] = [Idle EXCEPT !.won = call[p].won]]
    /\ UNCHANGED <<disk, locks, history, bounds>>

MayClaim(p, t) == t.owner \in {Nobody, AgentOf[p]} /\ t.status # "completed"

GiveUp(p) == call' = [call EXCEPT ![p] = Idle] /\ Unlock(Doing(p).id)

\* Mutant: the task is not looked at under the lock.
VetUnchecked(p) ==
    /\ At(p, "vet")
    /\ call' = [call EXCEPT ![p] = [@ EXCEPT !.pc = "list",
                                    !.cur = file[Doing(p).id].task]]
    /\ UNCHANGED <<disk, locks, history, bounds>>

Vet(p) ==
    /\ At(p, "vet")
    /\ LET i == Doing(p).id IN
        \/ /\ Readable(i) /\ MayClaim(p, file[i].task)
           /\ call' = [call EXCEPT ![p] = [@ EXCEPT !.pc = "list",
                                                    !.cur = file[i].task]]
           /\ UNCHANGED taskLock
        \/ /\ ~(Readable(i) /\ MayClaim(p, file[i].task))
           /\ GiveUp(p)
    /\ UNCHANGED <<disk, listLock, history, bounds>>

Judge(p) ==
    /\ At(p, "judge")
    /\ IF call[p].cur.blockedBy \cap call[p].open = {}
       THEN /\ call' = [call EXCEPT ![p] = [@ EXCEPT !.pc = "read", !.seen = {},
                                                   !.open = {}]]
            /\ UNCHANGED taskLock
       ELSE GiveUp(p)
    /\ UNCHANGED <<disk, listLock, history, bounds>>

\* After the job: the lock is released and the plan goes on.  A claim that
\* found no file in updateTaskUnsafe still reports success.
Done(p) ==
    /\ Unlock(Doing(p).id)
    /\ LET c == call[p]
           won == IF Doing(p).kind = "claim" THEN Doing(p).id ELSE c.won
           after == Onward([c EXCEPT !.won = won], Tail(c.plan))
       IN /\ call' = [call EXCEPT ![p] = after]
          /\ edges' = Recorded(c, after)

Read(p) ==
    /\ At(p, "read")
    /\ LET i == Doing(p).id IN
        \/ /\ Readable(i)
           /\ call' = [call EXCEPT ![p] = [@ EXCEPT !.pc = "open",
                                                    !.cur = file[i].task]]
           /\ UNCHANGED <<taskLock, edges>>
        \/ ~Readable(i) /\ Done(p)
    /\ UNCHANGED <<disk, listLock, born, deleted, bounds>>

\* open(2) with O_TRUNC also creates a file that was deleted meanwhile.
Opened(p, i) ==
    [file EXCEPT ![i] = [there |-> TRUE, torn |-> TRUE, task |-> @.task,
                         writers |-> @.writers \cup {p}]]

Open(p) ==
    /\ At(p, "open")
    /\ file' = Opened(p, Doing(p).id)
    /\ call' = [call EXCEPT ![p] = Goto(@, "write")]
    /\ UNCHANGED <<mark, locks, history, bounds>>

\* The write goes to the inode that was opened: nothing comes of it when
\* the file has been unlinked since.
Written(p, i, t) ==
    [file EXCEPT ![i] = IF p \in @.writers
                        THEN [there |-> @.there, torn |-> FALSE, task |-> t,
                              writers |-> @.writers \ {p}]
                        ELSE @]

\* { ...existing, ...updates }
Merged(t, set) == [f \in DOMAIN t |-> IF f \in DOMAIN set THEN set[f]
                                      ELSE t[f]]

Write(p) ==
    /\ At(p, "write")
    /\ file' = Written(p, Doing(p).id, Merged(call[p].cur, Doing(p).set))
    /\ Done(p)
    /\ UNCHANGED <<mark, listLock, born, deleted, bounds>>

-----------------------------------------------------------------------------
(***************************************************************************)
(* createTask and resetTaskList, under the lock of the list.               *)
(***************************************************************************)
Highest == IF Present = {} THEN 0
           ELSE CHOOSE n \in Present : \A m \in Present : m <= n
Larger(a, b) == IF a > b THEN a ELSE b

\* Mutant: the list is not locked.
ListLockUnlocked(p) ==
    /\ At(p, "listLock")
    /\ listLock' = p
    /\ call' = [call EXCEPT ![p] = Goto(@, IF @.op = "create" THEN "scan"
                                           ELSE "survey")]
    /\ UNCHANGED <<disk, taskLock, history, bounds>>

ListLock(p) ==
    /\ At(p, "listLock")
    /\ listLock = Nobody
    /\ listLock' = p
    /\ call' = [call EXCEPT ![p] = Goto(@, IF @.op = "create" THEN "scan"
                                           ELSE "survey")]
    /\ UNCHANGED <<disk, taskLock, history, bounds>>

ListLockFails(p) ==
    /\ At(p, "listLock")
    /\ listLock # Nobody
    /\ call' = [call EXCEPT ![p] = Idle]
    /\ UNCHANGED <<disk, locks, history, bounds>>

\* findHighestTaskId reads the directory and the mark in either order.
Scan(p) ==
    /\ At(p, "scan") \/ At(p, "scanMark") \/ At(p, "scanFiles")
    /\ LET c == call[p] IN
        \/ /\ c.pc \in {"scan", "scanFiles"}
           /\ call' = [call EXCEPT ![p] =
                 [c EXCEPT !.high = Larger(c.high, Highest),
                           !.pc = IF c.pc = "scan" THEN "scanMark"
                                  ELSE "create"]]
        \/ /\ c.pc \in {"scan", "scanMark"}
           /\ call' = [call EXCEPT ![p] =
                 [c EXCEPT !.high = Larger(c.high, mark),
                           !.pc = IF c.pc = "scan" THEN "scanFiles"
                                  ELSE "create"]]
    /\ UNCHANGED <<disk, locks, history, bounds>>

\* writeFile of the new task: the id is used from here on.
CreateOpen(p) ==
    /\ At(p, "create")
    /\ call[p].high < MaxId
    /\ LET i == call[p].high + 1 IN
        /\ file' = Opened(p, i)
        /\ born' = [born EXCEPT ![i] = @ + 1]
        /\ call' = [call EXCEPT ![p] = [@ EXCEPT !.pc = "fill", !.id = i]]
    /\ UNCHANGED <<mark, locks, edges, deleted, bounds>>

\* A TaskCreated hook may forbid the task, which is then deleted.
CreateWrite(p) ==
    /\ At(p, "fill")
    /\ file' = Written(p, call[p].id, NewTask)
    /\ listLock' = Nobody
    /\ \/ /\ call' = [call EXCEPT ![p] = Idle]
          /\ UNCHANGED deleted
       \/ /\ "delete" \in Ops
          /\ call' = [call EXCEPT ![p] = Call("delete", "mark", @.id, Nobody,
                                              {}, <<>>)]
          /\ deleted' = TRUE
    /\ UNCHANGED <<mark, taskLock, born, edges, bounds>>

\* resetTaskList: the highest file, then the mark, which is only raised.
Survey(p) ==
    /\ At(p, "survey")
    /\ call' = [call EXCEPT ![p] = [@ EXCEPT !.high = Highest,
                                             !.pc = IF Highest > 0 THEN "mark"
                                                    ELSE "dir"]]
    /\ UNCHANGED <<disk, locks, history, bounds>>

\* The id that the mark has to cover, and what comes after it.
Wanted(c) == IF c.op = "delete" THEN c.id ELSE c.high
AfterMark(c) == IF c.op = "delete" THEN "unlink" ELSE "dir"

ReadMark(p) ==
    /\ At(p, "mark")
    /\ call' = [call EXCEPT ![p] =
                   Goto(@, IF Wanted(@) > mark THEN "markOpen"
                           ELSE AfterMark(@))]
    /\ UNCHANGED <<disk, locks, history, bounds>>

MarkOpen(p) ==
    /\ At(p, "markOpen")
    /\ mark' = 0
    /\ call' = [call EXCEPT ![p] = Goto(@, "markWrite")]
    /\ UNCHANGED <<file, locks, history, bounds>>

MarkWrite(p) ==
    /\ At(p, "markWrite")
    /\ mark' = Wanted(call[p])
    /\ call' = [call EXCEPT ![p] = Goto(@, AfterMark(@))]
    /\ UNCHANGED <<file, locks, history, bounds>>

\* The second readdir of resetTaskList decides what is unlinked.
Dir(p) ==
    /\ At(p, "dir")
    /\ call' = [call EXCEPT ![p] = [@ EXCEPT !.pc = "clear",
                                             !.todo = Present]]
    /\ UNCHANGED <<disk, locks, history, bounds>>

Clear(p) ==
    /\ At(p, "clear")
    /\ \/ \E i \in call[p].todo :
            /\ file' = [file EXCEPT ![i] = Unlinked(@)]
            /\ call' = [call EXCEPT ![p].todo = @ \ {i}]
            /\ UNCHANGED listLock
       \/ /\ call[p].todo = {}
          /\ listLock' = Nobody
          /\ call' = [call EXCEPT ![p] = Idle]
          /\ UNCHANGED file
    /\ UNCHANGED <<mark, taskLock, history, bounds>>

\* deleteTask unlinks without any lock and then looks for references.
Unlink(p) ==
    /\ At(p, "unlink")
    /\ call' = [call EXCEPT ![p] = IF file[@.id].there THEN Goto(@, "list")
                                   ELSE Idle]
    /\ file' = [file EXCEPT ![call[p].id] = Unlinked(@)]
    /\ UNCHANGED <<mark, locks, history, bounds>>

-----------------------------------------------------------------------------
(***************************************************************************)
(* A process dies; its locks stay until they count as stale.               *)
(***************************************************************************)
Crash(p) ==
    /\ call[p].pc \notin {"idle", "dead"}
    /\ crashes < MaxCrashes
    /\ crashes' = crashes + 1
    /\ call' = [call EXCEPT ![p] = Goto(Idle, "dead")]
    /\ UNCHANGED <<disk, locks, history, calls>>

\* The locks are stale, and the agent has been started again.
Expire(p) ==
    /\ At(p, "dead")
    /\ listLock' = IF listLock = p THEN Nobody ELSE listLock
    /\ taskLock' = [i \in Ids |-> IF taskLock[i] = p THEN Nobody
                                  ELSE taskLock[i]]
    /\ call' = [call EXCEPT ![p] = Idle]
    /\ UNCHANGED <<disk, history, bounds>>

Step(p) == \/ List(p) \/ Look(p) \/ HookForbids(p) \/ Check(p) \/ Lock(p)
           \/ LockFails(p) \/ Vet(p) \/ Judge(p) \/ Read(p) \/ Open(p)
           \/ Write(p) \/ ListLock(p) \/ ListLockFails(p) \/ Scan(p)
           \/ CreateOpen(p) \/ CreateWrite(p) \/ Survey(p) \/ ReadMark(p)
           \/ MarkOpen(p) \/ MarkWrite(p) \/ Dir(p) \/ Clear(p) \/ Unlink(p)

Next == \E p \in Procs : Start(p) \/ Step(p) \/ Crash(p) \/ Expire(p)

Spec == Init /\ [][Next]_vars

-----------------------------------------------------------------------------
(***************************************************************************)
(* Properties                                                              *)
(***************************************************************************)
OfListLock == {"scan", "scanMark", "scanFiles", "create", "fill", "survey",
               "dir", "clear"}
OfTaskLock == {"vet", "judge", "read", "open", "write"}
OfMark == {"mark", "markOpen", "markWrite"}
Pcs == {"idle", "dead", "list", "look", "check", "lock", "listLock",
        "unlink"} \cup OfListLock \cup OfTaskLock \cup OfMark

\* Every variable keeps its type; the updates of a plan are about fields of
\* a task and leave it a task (utils/tasks.ts, TaskSchema).
TypeOK ==
    /\ file \in [Ids -> Files]
    /\ mark \in 0..MaxId
    /\ listLock \in Procs \cup {Nobody}
    /\ taskLock \in [Ids -> Procs \cup {Nobody}]
    /\ born \in [Ids -> Nat]
    /\ edges \subseteq Ids \X Ids /\ deleted \in BOOLEAN
    /\ calls \in 0..MaxCalls /\ crashes \in 0..MaxCrashes
    /\ \A p \in Procs : LET c == call[p] IN
        /\ c.op \in Operations \cup {"none"} /\ c.pc \in Pcs
        /\ {c.id, c.high, c.won} \subseteq 0..MaxId
        /\ c.todo \cup c.seen \cup c.open \subseteq Ids
        /\ c.cur \in Tasks
        /\ \A k \in DOMAIN c.plan :
              /\ c.plan[k].id \in Ids
              /\ \A f \in DOMAIN c.plan[k].set :
                    [NewTask EXCEPT ![f] = c.plan[k].set[f]] \in Tasks

\* p is between acquiring and releasing a lock of the list, or of task i.
InList(p) == \/ call[p].pc \in OfListLock
             \/ call[p].pc \in OfMark /\ call[p].op # "delete"
InTask(p, i) == /\ \/ call[p].pc \in OfTaskLock
                   \/ call[p].pc \in {"list", "look"} /\ call[p].op = "claim"
                /\ Doing(p).id = i

\* A lock is held exactly while its process is between lock() and release():
\* no path out of claimTask, updateTask, createTask or resetTaskList keeps
\* one, and a process that died keeps its locks only until they are stale
\* (the finally blocks of utils/tasks.ts).
LocksAreReleased ==
    \A p \in Procs :
        /\ InList(p) => listLock = p
        /\ listLock = p => InList(p) \/ At(p, "dead")
        /\ \A i \in Ids :
            /\ InTask(p, i) => taskLock[i] = p
            /\ taskLock[i] = p => InTask(p, i) \/ At(p, "dead")

\* An id is never given to two tasks, as long as deleteTask, which takes no
\* lock, is not called (utils/tasks.ts 91, 143, 280, 400).
IdsNeverReused == deleted \/ \A i \in Ids : born[i] <= 1

\* What the shared list keeps to, whoever creates, resets, claims and
\* deletes, and wherever a process dies (utils/tasks.ts).
SharedInv == TypeOK /\ LocksAreReleased /\ IdsNeverReused

\* p writes the file of task i in this step, under the lock of the task.
Writes(p, i) == At(p, "write") /\ call'[p].pc \notin {"write", "dead"}
                /\ Doing(p).id = i

\* What an update does not name it leaves as the last writer left it: no
\* update is lost because another one read the task before it, unless
\* deleteTask lets an id be used again
\* (updateTask reads again under the lock, utils/tasks.ts 354-391).
NoLostUpdate ==
    [][\A i \in Ids : \A f \in DOMAIN NewTask :
        (/\ file[i].there /\ file'[i].there
         /\ file'[i].task[f] # file[i].task[f])
        => \/ \E p \in Procs : Writes(p, i) /\ f \in DOMAIN Doing(p).set
           \/ deleted]_vars

\* claimTask never takes a task from another agent and never a completed
\* one: what it saw under the lock still holds when it writes
\* (utils/tasks.ts 568-599).
ClaimsRespectOthers ==
    [][\A p \in Procs, i \in Ids :
        Writes(p, i) /\ Doing(p).kind = "claim" /\ file[i].there
        => MayClaim(p, file[i].task)]_vars

(***************************************************************************)
(* What comments of the code say, and the code does not keep.              *)
(***************************************************************************)
\* "Update high water mark before deleting (prevents ID reuse)": with
\* deleteTask an id may be given out again (utils/tasks.ts 400).
DeletedIdsNotReused == \A i \in Ids : born[i] <= 1

\* "Check for unresolved blockers (open or in_progress tasks block)":
\* a task is not claimed while one of its blockers is unresolved
\* (utils/tasks.ts 584).
BlockedIsNotClaimed ==
    [][\A p \in Procs, i \in Ids :
        Writes(p, i) /\ Doing(p).kind = "claim"
        => \A b \in file[i].task.blockedBy :
              file[b].there => file[b].task.status = "completed"]_vars

\* "Update target task: B is blockedBy A": once blockTask has returned true
\* the target says so (utils/tasks.ts 478).
EdgesAreRecorded ==
    \A e \in edges : file[e[2]].there => e[1] \in file[e[2]].task.blockedBy

\* "Unassigns all open tasks from a teammate": a completed task is left
\* alone (utils/tasks.ts 809).
CompletedStays ==
    [][\A p \in Procs, i \in Ids :
        Writes(p, i) /\ Doing(p).kind = "unassign"
        => file[i].task.status # "completed"]_vars

\* "Verify all tasks are still completed before clearing": the hide timer
\* deletes completed tasks only (hooks/useTasksV2.ts 160).
OnlyCompletedIsCleared ==
    [][\A p \in Procs, i \in Ids :
        /\ At(p, "clear") /\ call[p].op = "hide" /\ call'[p] # call[p]
        /\ file[i].there /\ ~file'[i].there
        => file[i].task.status = "completed"]_vars

\* "Attempts to claim a task for an agent with file locking to prevent race
\* conditions": what claimTask gave to one agent is not overwritten by the
\* owner that TaskUpdate sets of itself (utils/tasks.ts 535).
ClaimIsNotStolen ==
    [][\A p, q \in Procs, i \in Ids :
        /\ Writes(p, i) /\ Doing(p).kind = "update"
        /\ "owner" \in DOMAIN Doing(p).set
        /\ call[q].won = i /\ file[i].there
        => file[i].task.owner \in {Nobody, AgentOf[p]}]_vars

\* "Returns success if the task was claimed": when claimTask returns
\* success the task is there and the agent owns it (utils/tasks.ts 536).
SuccessMeansClaimed ==
    [][\A p \in Procs : LET i == call'[p].won IN
        i \notin {0, call[p].won}
        => file'[i].there /\ file'[i].task.owner = AgentOf[p]]_vars
=============================================================================
