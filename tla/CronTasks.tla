----------------------------- MODULE CronTasks -----------------------------
(***************************************************************************)
(* The scheduled tasks of a project and the sessions that run them.        *)
(*                                                                         *)
(*   utils/cronTasks.ts      .claude/scheduled_tasks.json: add, remove,    *)
(*                           mark as fired; no lock guards the file        *)
(*   utils/cronScheduler.ts  load(), check() and the file watcher          *)
(*   tools/ScheduleCronTool  create and delete a task                      *)
(*                                                                         *)
(* SchedulerOwner, which SchedulerLock implements, says who the owner is.  *)
(* An action is one file-system call and the code up to the next, or one   *)
(* tick.  Time is a count of periods: a task that was created, or last     *)
(* fired, in a period is due from the next one on.                         *)
(***************************************************************************)
EXTENDS Naturals, FiniteSets

CONSTANTS Procs,
          Ids, Recurring,  \* durable tasks, and those that recur
          Existing,        \* the tasks that are in the file at first
          MaxAge,          \* recurringMaxAgeMs, in periods
          MaxNow,          \* bound: periods
          Users,           \* bound: the sessions that create and delete tasks
          MaxUses,         \* bound: tasks that the user creates or deletes
          MaxLeaving,      \* bound: sessions that leave, stop or end
          Timely,          \* what is over within the second between two
                           \* ticks: edits; if it has no lock, the removal of
                           \* what it missed; events of the file watcher
          None             \* no task of this id

ASSUME UsersAssumption == Users \subseteq Procs
ASSUME IdsAssumption == Recurring \subseteq Ids /\ Existing \subseteq Ids
ASSUME TimeAssumption == MaxAge \in Nat \ {0} /\ MaxNow \in Nat
ASSUME BoundsAssumption == MaxUses \in Nat /\ MaxLeaving \in Nat
ASSUME TimelyAssumption == Timely \subseteq {"edits", "missed", "events"}

VARIABLES
    stage, isOwner, leaving, recovered,  \* see SchedulerOwner
    disk,        \* the last complete contents of the file
    garbled,     \* the file is emptied, or not readable
    edits,       \* the edits of the file in progress
    loaded,      \* the processes whose load(true) is done
    known,       \* per process: tasks
    nextFireAt,  \* per process and task: a period, Unset or Never
    changed,     \* per process: a file event is pending; 2 if it comes next
    now,         \* (bounded by MaxNow)
    born,        \* history: the tasks that were created
    fired,       \* history: how often a process fired a task (recurring: in
                 \* this period) or surfaced it, up to 2
    handed,      \* history: the tasks that some session was handed
    deleted,     \* history: the tasks that the user deleted
    disturbed    \* history: an edit met another: it found the file emptied or
                 \* its task gone, or wrote over a change, or was cut off; or
                 \* the file was loaded in the middle of an edit

O == INSTANCE SchedulerOwner

owner == <<stage, isOwner, leaving, recovered>>
taskFile == <<disk, garbled>>
scheduler == <<loaded, known, nextFireAt, changed>>
history == <<born, fired, handed, deleted, disturbed>>
ctVars == <<owner, taskFile, edits, scheduler, now, history>>

Task == [created : 0..MaxNow, last : 0..MaxNow]
NewTask(at) == [created |-> at, last |-> at]
ASSUME NoneAssumption == None \notin Task
Files == [Ids -> Task \cup {None}]
Listed(f) == {t \in Ids : f[t] # None}
NoTasks == [t \in Ids |-> None]
TasksRead == IF garbled THEN NoTasks ELSE disk

Unset == 0
Never == MaxNow + 2
NoSchedule == [t \in Ids |-> Unset]

Ops == {"add", "fire", "delete", "mark", "missed"}
Edits == [by : Procs, op : Ops, ids : SUBSET Ids, at : 0..MaxNow,
          pc : {"read", "open", "write"}, copy : Files, mixed : BOOLEAN]
Begun(p, op, ids) == [by |-> p, op |-> op, ids |-> ids, at |-> now,
                      pc |-> "read", copy |-> NoTasks, mixed |-> FALSE]

CTInit ==
    /\ O!Init
    /\ disk = [t \in Ids |-> IF t \in Existing THEN NewTask(0) ELSE None]
    /\ garbled = FALSE
    /\ edits = {}
    /\ loaded = {} /\ known = [p \in Procs |-> NoTasks]
    /\ nextFireAt = [p \in Procs |-> NoSchedule]
    /\ changed = [p \in Procs |-> 0]
    /\ now = 0 /\ born = Existing
    /\ fired = [p \in Procs |-> [t \in Ids |-> 0]]
    /\ handed = {} /\ deleted = {} /\ disturbed = FALSE

Busy(p, ops) == \E e \in edits : e.by = p /\ e.op \in ops
Counted(n) == IF n = 0 THEN 1 ELSE 2
HandsOver(p, ids) ==
    /\ handed' = handed \cup ids
    /\ fired' = [fired EXCEPT ![p] =
                    [t \in Ids |-> IF t \in ids THEN Counted(@[t]) ELSE @[t]]]

-----------------------------------------------------------------------------
(* The lock, and the end of a process.                                     *)

\* The edits of a process end with it.
CutOff(gone) == {e \in edits : e.by \notin gone}

\* A session that is leaving goes on: it ticks and fires until it ends.
OwnerMoves ==
    /\ O!Next
    /\ Cardinality({p \in Procs : stage'[p] \in {"stopped", "gone"}} \cup leaving')
         <= MaxLeaving
    /\ LET gone == {p \in Procs : O!Up(p) /\ stage'[p] = "gone"} IN
        /\ edits' = CutOff(gone)
        /\ disturbed' = (disturbed \/ \E e \in edits : e.by \in gone /\ e.pc = "write")
        /\ loaded' = loaded \ gone
        /\ known' = [p \in Procs |-> IF p \in gone THEN NoTasks ELSE known[p]]
        /\ nextFireAt' = [p \in Procs |-> IF p \in gone THEN NoSchedule
                                          ELSE nextFireAt[p]]
        /\ changed' = [p \in Procs |-> IF p \in gone THEN 0 ELSE changed[p]]
    /\ UNCHANGED <<taskFile, now, born, fired, handed, deleted>>

Clock ==
    /\ now < MaxNow /\ now' = now + 1
    /\ fired' = [p \in Procs |-> [t \in Ids |-> IF t \in Recurring THEN 0
                                                ELSE fired[p][t]]]
    /\ UNCHANGED <<owner, taskFile, edits, scheduler, born, handed, deleted, disturbed>>

-----------------------------------------------------------------------------
(* The edits of the file: read it, change the copy, write it.              *)

Uses == Cardinality(born \ Existing) + Cardinality(deleted)

\* CronCreate with durable: true.
Create(p, t) ==
    /\ p \in Users /\ O!Up(p) /\ Uses < MaxUses
    /\ t \notin born
    /\ born' = born \cup {t}
    /\ edits' = edits \cup {Begun(p, "add", {t})}
    /\ UNCHANGED <<owner, taskFile, scheduler, now, fired, handed, deleted, disturbed>>

\* CronDelete of a task that is there.
Delete(p, t) ==
    /\ p \in Users /\ O!Up(p) /\ Uses < MaxUses
    /\ t \in Listed(TasksRead) \ deleted
    /\ deleted' = deleted \cup {t}
    /\ edits' = edits \cup {Begun(p, "delete", {t})}
    /\ UNCHANGED <<owner, taskFile, scheduler, now, born, fired, handed, disturbed>>

\* Nothing is written if no task of the file is meant.
Needless(d) == d.op # "add" /\ d.ids \cap Listed(TasksRead) = {}

Becomes(e, f) == (edits \ {e}) \cup {f}

\* readCronTasks()
ReadFile(e) ==
    /\ e.pc = "read"
    /\ edits' = IF Needless(e) THEN edits \ {e}
                ELSE Becomes(e, [e EXCEPT !.pc = "open", !.copy = TasksRead])
    /\ disturbed' = (disturbed \/ garbled \/ Needless(e))
    /\ UNCHANGED <<owner, taskFile, scheduler, now, born, fired, handed, deleted>>

\* writeFile empties the file.
OpenFile(e) ==
    /\ e.pc = "open"
    /\ garbled' = TRUE
    /\ edits' = Becomes(e, [e EXCEPT !.pc = "write"])
    /\ UNCHANGED <<owner, disk, scheduler, now, history>>

\* Mutant: the other tasks are removed.
EditedRemovingOthers(d) ==
    [t \in Ids |->
        IF t \notin d.ids THEN IF d.op \in {"add", "mark"} THEN d.copy[t] ELSE None
        ELSE IF d.op = "add" THEN NewTask(d.at)
        ELSE IF d.op = "mark" /\ d.copy[t] # None THEN [d.copy[t] EXCEPT !.last = d.at]
        ELSE None]

\* addCronTask, markCronTasksFired, removeCronTasks.
Edited(d) ==
    [t \in Ids |->
        IF t \notin d.ids THEN d.copy[t]
        ELSE IF d.op = "add" THEN NewTask(d.at)
        ELSE IF d.op = "mark" /\ d.copy[t] # None THEN [d.copy[t] EXCEPT !.last = d.at]
        ELSE None]

\* The watchers will see it.  A session whose tick began the edit has been
\* told before its next tick, if the watcher is timely.
Announced(e) ==
    [p \in Procs |->
        IF p \notin loaded \/ stage[p] # "ready" THEN changed[p]
        ELSE IF p = e.by /\ e.op \in {"fire", "mark", "missed"} THEN 2
        ELSE IF changed[p] = 2 THEN 2 ELSE 1]

\* writeFile fills the file.  Who has opened it before will write over this,
\* which may leave the end of a longer text behind the shorter one.
Fill(e) ==
    /\ e.pc = "write"
    /\ disk' = Edited(e)
    /\ garbled' \in IF e.mixed THEN BOOLEAN ELSE {FALSE}
    /\ edits' = {IF d.pc = "write" THEN [d EXCEPT !.mixed = TRUE] ELSE d :
                    d \in edits \ {e}}
    /\ disturbed' = (disturbed \/ e.copy # disk)
    /\ changed' = Announced(e)
    /\ UNCHANGED <<owner, loaded, known, nextFireAt, now, born, fired, handed, deleted>>

-----------------------------------------------------------------------------
(* load() and check().                                                     *)

\* load(true), by owners and others: one-shots whose time is past are
\* surfaced to the user and removed.
InitialLoad(p) ==
    /\ stage[p] = "ready" /\ p \notin loaded
    /\ LET missed == {t \in Listed(TasksRead) \ Recurring :
                         TasksRead[t].created < now} IN
        /\ HandsOver(p, missed)
        /\ nextFireAt' = [nextFireAt EXCEPT ![p] =
                             [t \in Ids |-> IF t \in missed THEN Never ELSE @[t]]]
        /\ edits' = IF missed = {} THEN edits
                    ELSE edits \cup {Begun(p, "missed", missed)}
    /\ loaded' = loaded \cup {p}
    /\ known' = [known EXCEPT ![p] = TasksRead]
    /\ disturbed' = (disturbed \/ garbled)
    /\ UNCHANGED <<owner, taskFile, changed, now, born, deleted>>

\* load(false), after a file event.
Reload(p) ==
    /\ changed[p] # 0 /\ stage[p] = "ready"
    /\ changed' = [changed EXCEPT ![p] = 0]
    /\ known' = [known EXCEPT ![p] = TasksRead]
    /\ disturbed' = (disturbed \/ garbled)
    /\ UNCHANGED <<owner, taskFile, edits, loaded, nextFireAt, now, born, fired, handed,
                   deleted>>

\* Mutant: nothing guards against firing again while the file is edited.
InFlightNot(p) == {}

\* The tasks that were fired and are being removed, or marked.
InFlight(p) == UNION {e.ids : e \in {d \in edits :
                         d.by = p /\ d.op \in {"fire", "mark"}}}

\* Mutant: a task that is seen first is scheduled from now, so that one whose
\* time is past waits for the next year.
FireAtFromNow(p, t) == IF nextFireAt[p][t] # Unset THEN nextFireAt[p][t]
                       ELSE IF known[p][t].last < now THEN Never
                       ELSE now + 1

\* A task that is seen first is scheduled from its last fire or creation.
FireAt(p, t) == IF nextFireAt[p][t] = Unset THEN known[p][t].last + 1
                ELSE nextFireAt[p][t]

InTime(p) ==
    /\ "events" \in Timely => changed[p] # 2
    /\ "edits" \in Timely => ~Busy(p, Ops)

Aged(r) == now - r.created >= MaxAge

\* A tick of the owner fires what is due: recurring tasks are scheduled
\* again and marked in the file, all in one edit; the others, and those too
\* old, are removed, in an edit each.
Check(p) ==
    /\ p \in isOwner /\ p \in loaded
    /\ InTime(p)
    /\ LET free == Listed(known[p]) \ InFlight(p)
           due == {t \in free : now >= FireAt(p, t)}
           again == {t \in due \cap Recurring : ~Aged(known[p][t])}
       IN /\ HandsOver(p, due)
          /\ nextFireAt' = [nextFireAt EXCEPT ![p] =
                [t \in Ids |-> IF t \in again THEN now + 1
                               ELSE IF t \in due \/ t \notin Listed(known[p]) THEN Unset
                               ELSE IF t \in free THEN FireAt(p, t)
                               ELSE @[t]]]
          /\ edits' = edits \cup {Begun(p, "fire", {t}) : t \in due \ again}
                           \cup IF again = {} THEN {} ELSE {Begun(p, "mark", again)}
    /\ changed' = [changed EXCEPT ![p] = IF @ = 0 THEN 0 ELSE 2]
    /\ UNCHANGED <<owner, taskFile, loaded, known, now, born, deleted, disturbed>>

\* A tick of another session forgets the schedule.
CheckIdle(p) ==
    /\ p \notin isOwner /\ stage[p] = "ready" /\ p \in loaded
    /\ InTime(p) /\ ("missed" \in Timely => ~Busy(p, {"missed"}))
    /\ nextFireAt' = [nextFireAt EXCEPT ![p] = NoSchedule]
    /\ changed' = [changed EXCEPT ![p] = IF @ = 0 THEN 0 ELSE 2]
    /\ UNCHANGED <<owner, taskFile, edits, loaded, known, now, history>>

Editing(e) == ReadFile(e) \/ OpenFile(e) \/ Fill(e)

CTNext == \/ OwnerMoves \/ Clock
          \/ \E p \in Procs, t \in Ids : Create(p, t) \/ Delete(p, t)
          \/ \E e \in edits : Editing(e)
          \/ \E p \in Procs : InitialLoad(p) \/ Reload(p) \/ Check(p) \/ CheckIdle(p)

CTSpec == CTInit /\ [][CTNext]_ctVars

\* A project without an owner that stays gets one: TakenOver, in SchedulerLock.
GetsOwner == \E p \in Procs : /\ isOwner \subseteq leaving
                              /\ O!Ready(p) \/ O!TakeOver(p)
                              /\ p \in isOwner' \ leaving'

\* File-system calls return, timers fire and file events are delivered; a
\* session that is busy with a turn comes to rest.
CTFairSpec == /\ CTSpec /\ WF_owner(GetsOwner)
              /\ WF_ctVars(\E e \in edits : Editing(e))
              /\ WF_ctVars(\E p \in Procs : InitialLoad(p))
              /\ WF_ctVars(\E p \in Procs : Reload(p))
              /\ WF_ctVars(\E p \in Procs : Check(p))

-----------------------------------------------------------------------------
(* Properties.                                                             *)

\* Every variable stays in its set; an edit in progress belongs to a
\* program that runs and names what it is about.
CTTypeOK ==
    /\ stage \in [Procs -> O!Stages] /\ recovered \in BOOLEAN
    /\ isOwner \subseteq {p \in Procs : stage[p] = "ready"} /\ leaving \subseteq isOwner
    /\ disk \in Files /\ garbled \in BOOLEAN
    /\ edits \subseteq Edits
    /\ loaded \subseteq Procs /\ known \in [Procs -> Files]
    /\ nextFireAt \in [Procs -> [Ids -> 0..Never]]
    /\ changed \in [Procs -> 0..2] /\ now \in 0..MaxNow
    /\ fired \in [Procs -> [Ids -> 0..2]]
    /\ UNION {born, handed, deleted} \subseteq Ids /\ disturbed \in BOOLEAN
    /\ \A e \in edits : O!Up(e.by) /\ e.ids # {}

\* A session fires a one-shot once, and a recurring task once in a period,
\* although it ticks while its edits of the file go on, as long as no edit
\* meets another one: the inFlight set of cronScheduler.ts:168.
FiresOnce == disturbed \/ \A p \in Procs, t \in Ids : fired[p][t] <= 1

\* What every session's scheduler keeps to.
FiringInv == CTTypeOK /\ FiresOnce

\* A task leaves the file only when some session was handed it or the user
\* deleted it, unless an edit met another one.
NothingIsDropped ==
    disturbed \/ \A t \in born :
        \/ t \in Listed(disk) \cup handed \cup deleted
        \/ \E e \in edits : e.op = "add" /\ t \in e.ids
        \/ \E p \in Procs : stage[p] = "gone"

\* A task whose time has come is handed to some session, while one runs its
\* scheduler: also when the owner leaves, stops or dies after it has become due.
DueIsHanded ==
    \A t \in Ids :
        (t \in Listed(disk) /\ now > disk[t].created)
          ~> \/ t \in handed \cup deleted \/ disturbed
             \/ \A p \in Procs : p \in leaving \/ stage[p] \in {"off", "stopped", "gone"}

\* The bound of the passing run: no edit of the file has met another one,
\* and no lock was recovered, so that one session at most owns the tasks
\* beside those that are leaving.
Undisturbed == ~disturbed /\ ~recovered

\* cronTasks.ts:4: "One-shot (recurring: false/undefined) - fire once, then
\* auto-delete."
OneShotFiresOnce ==
    \A t \in Ids \ Recurring, p \in Procs : fired[p][t] <= 1
=============================================================================
