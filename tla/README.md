# CC-lite: TLA+ models, checks and proofs

CC-lite (`src/`) is a terminal coding agent: a REPL that runs queries against a
model, tools that the model calls, background tasks, teams of agents that share
a task list and mailboxes on disk, a cron scheduler, and a layer that races
several HTTP requests for one answer. It is one JavaScript thread per program,
with several programs sharing files. This directory holds TLA+ models of the
parts whose correctness rests on the order of events, what TLC checks of them,
and what TLAPS proves.

    tlc -workers 2 -config repl_queue.cfg MCReplTurn
    tlapm ReplTurn_proofs.tla

The paths below are relative to `src/src/`.

## 1. Inventory

| Component | State | Operations | Hard behaviours | Correct when |
|---|---|---|---|---|
| **REPL turn** (`utils/QueryGuard.ts`, `utils/messageQueueManager.ts`, `utils/handlePromptSubmit.ts`, `hooks/useQueueProcessor.ts`, `hooks/useCancelRequest.ts`, `screens/REPL.tsx`, drain in `query.ts`) | guard status and generation, calls in flight and their abort controllers, command queue, input box | submit, enqueue, process the queue, reserve/start/end/force-end, Escape, pop, drain, background, chain | the guard is released by Escape while the call that reserved it still awaits; several sources start turns; entries leave the queue by three ways | one query at a time; the guard is never stuck; nothing typed is lost or delivered twice; the queue moves |
| **Task list** (`utils/tasks.ts`, task tools, `hooks/useTasksV2.ts`, `hooks/useTaskListWatcher.ts`, `utils/swarm/inProcessRunner.ts`) | one file per task, high-water mark, locks | create, update, delete, claim, block, unassign, reset, hide timer | agents in many processes, torn files, death in the middle, stale locks | ids are not reused, updates are not lost, claims respect others, locks are released |
| **Turbo requests** (`services/api/hedgedRequest.ts`, `services/api/turboGovernor.ts`, `createRequestSignal` of `services/api/openaiShim.ts`) | attempts, timers, abort links, the winner's stream, the shared allowance | launch, answer, throw, read, win, fail, time out, abort | every callback may come in every order; faults of losers; the connection cut off from its signal | one winner, whole body, rejected only when all failed, losers stopped, no blame for our own aborts, settles |
| **Cron scheduler** (`utils/cronScheduler.ts`, `utils/cronTasks.ts`, `utils/cronTasksLock.ts`, `hooks/useScheduledTasks.ts`, the clean-up in `utils/gracefulShutdown.ts`) | lock file, owner flag, task file, next fire times | start, enable, probe, stop, shut down, tick, add, remove, missed tasks | sessions race to recover a lock, an owner dies, stop or shutdown during an acquisition, the lock is given away while the scheduler still ticks, unlocked file edits | one session drives; it is taken over; a one-shot fires once |
| **Teammate mailbox** (`utils/teammateMailbox.ts`, `hooks/useInboxPoller.ts`, `cli/print.ts`, `utils/swarm/inProcessRunner.ts`) | inbox files with read flags, queued messages in app state | write, read, mark by index, mark all, clear, poll, deliver | messages come between a read and a mark | every message is delivered, once |
| **Query loop and tools** (`query.ts`, `services/tools/*`) | message list, tool batches, abort | stream, fall back, partition, run concurrently or serially, yield results | abort and a broken stream in the middle of a batch | each `tool_use` gets one `tool_result`; writes exclude each other |
| **Tool permission** (`hooks/useCanUseTool.tsx`, `hooks/toolPermission/*`, dialogs of `screens/REPL.tsx`) | requests with a resolve-once flag, queue of dialogs, the dialog on the screen | ask, describe, hook, channel, recheck, user, Escape | several racers answer one question; the dialog that is answered is not the head of the queue any more | the first answer decides, and the tool does what it says |
| **Session transcript** (`utils/sessionStorage.ts`) | write queue, timer, active drain, pending writes, file | append, drain, flush, remove a message | flush against a timer's drain, a cut of the file against an append, a failed append, death | the file holds each entry once and in order; a flush that returned is on the disk |
| **Tier failover** (`query.ts`, `utils/model/*`, `services/api/withRetry.ts`, `services/api/client.ts`) | the options that all loops of a query share: model, home and current tier, rounds, cooldown | begin, fork, send, fall back, retry, answer, continue | forked loops change the model and the chain under each other | rounds are bounded, a hop goes to another provider, the query ends |
| **Background agents** (`tools/AgentTool/*`, `tools/SendMessageTool`, `tasks/LocalAgentTask`, `utils/task/framework.ts`) | tasks in AppState with `notified` flag, controller and waiting messages; the runs of each agent | start, wait, background, message, resume, complete, fail, kill, report, poll, evict | a run ends after its agent was run again; tasks listed before an await are evicted after it; ctrl+b against kills and ends | what works is shown and can be stopped; its end is told once |
| Other background tasks (`tasks/*`: shell, remote, teammate, dream) | as above | spawn, poll, kill | as above | not modelled |
| Background memory (`services/autoDream/*`, `services/extractMemories/*`, `services/SessionMemory/*`) | lock file with mtime, cursors | try-acquire, roll back, extract | two sessions take over a dead lock | one consolidation at a time |
| Context compression (`services/acp/*`), compaction (`services/compact/*`) | ledger of ranges, summaries | compress, persist, rewind | message list changes under the ledger | ranges stay within the list |
| LSP, MCP (`services/lsp/*`, `services/mcp/*`) | connection states, counters | start, crash, restart, back off | crash during start | bounded restarts |
| SDK print loop (`cli/print.ts`) | the other consumer of the command queue | run, drain, interrupt | as for the REPL turn | as for the REPL turn |
| Bridge and worker transports (`bridge/*`, `cli/transports/*`) | queues, sequence numbers, gates | upload, retry, flush | lost and repeated posts | order and completeness. Compiled out of this build (`src/README.md`: the `BRIDGE_MODE` family of features) |
| File history, prompt speculation, goal mode, settings, plugins, bash parser, terminal UI | – | – | sequential, or text and layout | not modelled |

The components meet as follows. Everything that wants a turn (the prompt, task
notifications, cron, teammates, chained commands) goes through the **command
queue** or through `onQuery`, and both through the **query guard**. A query
calls the model through `withRetry` (which gives up to the **tier failover**)
and, for turbo providers, through **hedgedRequest**, whose attempts of all
queries share one **governor**. What the model asks for becomes **tool calls**,
each after a **permission**; what was said goes to the **transcript**. Tools
of the query and of in-process teammates work on the **task list**. The Agent tool
starts **background agents**, whose ends come back as notifications in the queue. Agents of a
team write to each other's **mailboxes**, whose readers turn messages into turns.
The cron scheduler of the one session that owns the **scheduler lock** enqueues
prompts.

`PROJECT.json` lists the hazards of each part at their lines, with the
properties that watch them.

## 2. Plan

Most important first. Modules marked + exist.

1. + `QueryGuard`, `CommandQueue`, `ReplTurn` (composes both), abstract
   `OneQuery`, `ReplTurn_proofs`.
2. + `TaskList`: the shared files.
3. + `TurboGovernor`, `HedgedRequest` (extends it), abstract `Race`.
4. + `SchedulerLock`, abstract `SchedulerOwner`;
   + `CronTasks` (file edits, ticks, one-shots, missed tasks), composed with
   `SchedulerOwner`.
5. + `Mailbox`: the inbox file and its three readers, + `SharedFiles_proofs` (about
   it and `CronTasks`). Then the messages that are
   not text (permissions, shutdown, plan approvals).
6. + `TierChain`, + `TierChain_proofs`: the failover of a query and its forks
   from one model tier to the next.
7. + `ToolPermission` (the racers for one answer), + `ToolTurn` (extends it: the
   stream, the batches, the results), + `ToolTurn_proofs`.
8. + `TranscriptQueue` (write queue, drain, flush, removal), + `SessionFiles_proofs`
   (about it and `SchedulerLock`).
9. + `TaskRegistry`, + `AgentTask` (uses it: the runs of agents and
   their tasks). Then `ConsolidationLock`.
10. Candidates after that: LSP instance, retry loop, print loop as a second
   consumer of `CommandQueue`, ACP ledger as a pure algorithm.

Theorems, in order: + types, guard accounting and refinement of `ReplTurn`;
+ `SchedulerLock`: an owner holds the lock, until its shutdown gives it away, and is
the only one that stays until a lock is recovered, a stopped scheduler leaves none, and it implements `SchedulerOwner`;
+ `TierChain`: types, bounded rounds, real hops; + `ToolTurn`: every `tool_use`
is paired, unsafe tools are alone, the first answer stands, + the dialogs match the
requests; + `AgentTask`, + `HedgedRequest` with the refinement of `Race`,
+ `TaskList`, + the queue of `ReplTurn` (nothing vanishes, nothing comes twice),
+ `Mailbox`, + `TranscriptQueue`, + `CronTasks`: every safety property that the
passing runs check. Left is what no prover here can do: see the last section.

Two proof modules are about two components each, for files that sessions share; no
theorem about one of the two uses the other. `TranscriptQueue` and `CronTasks` give
the names that every module has (`Init`, `Next`, `Spec`, `TypeOK`, `vars`) a prefix,
`TQ` or `CT`, so that they can be extended together with `SchedulerLock` and
`Mailbox`.

Each run asks one instance as many questions as it can answer: a component has
one or two passing runs, and a run that must find a violation where a document
says something the code does not do.

## 3. The REPL turn

**Modules.** `QueryGuard` is the class of `utils/QueryGuard.ts` (status and
generation; `Reserve`, `Start`, `End`, `ForceEnd`, `CancelReservation`).
`CommandQueue` is the queue and what takes from it (`Next batch` of
`queueProcessor.ts`, the drain's snapshot, pop to the input box). `ReplTurn`
composes them: one action per synchronous stretch of the program.

**Correspondence.** JavaScript runs on one thread, so an action is everything
between two awaits that really wait. Awaiting a settled promise is not such a
point: React's effects run as macrotasks, so that in `onQuery`'s `finally` the
guard's end, `setAbortController(null)`, the undo of an empty turn, the
`nextInput` of a slash command and then the outer `finally` of `executeUserInput`
are one action (`Finish`). That `finally` calls `cancelReservation()`
(`utils/handlePromptSubmit.ts:603`, `Finally`): nothing is left for it when the query
has ended itself, but a query that Escape has cut off gives back the reservation of a
later call there. The calls that come to `onQuery` from `processInitialMessage` and
`handleIncomingPrompt` have no such `finally` (`Direct`). A local-JSX command is
taken beside a turn of the guard or one that runs outside, `isExternalLoading`
(`OpenDialog`). `turn` has a slot per
call in flight of `executeUserInput` or `onQuery`; `controller` is the
AbortController in React state, which is not always the one of the running
query. A command is a record of its attributes (mode, priority, slash, main
thread, meta, source); its text is not modelled. `fate` is a history variable:
what became of each command.

**Abstractions.** The input box is empty or not, nondeterministically. `last` is
the last user message while only synthetic ones follow it, which is what the
restore on Escape asks. Left out: remote mode, speculation, the message
selector, the teammate view, orphaned permissions, and the `nextInput` of a slash
command whose `onQuery` was refused.

**Runs** (`MCReplTurn`; each command is submitted once, `Turns` bounds the calls
in flight, `MaxCancels` the Escapes; two or three calls are what the code can
have: one that runs, one left behind by Escape, one that waits for hooks).
`CHECK_DEADLOCK FALSE`: an idle REPL that nobody types at stops.

| Run | Shows |
|---|---|
| `repl_queue` | `NothingVanishes`, `DeliveredOnce`: a prompt, a bash command, an urgent prompt and a teammate's message in three calls survive refusals, drains, undo and pops, and reach the model once as long as nobody presses Escape |
| `repl_live` | `GuardAccounted`, `OwnerIsNotDisturbed`, `GuardIsReleased`, `QueueMoves`, `ImplementsOneQuery`: the initial plan, a slash command, a chained one and a subagent's notification in three calls with two Escapes: exactly one releaser of the guard whoever starts turns, and the REPL always comes back |

**Fairness.** Weak fairness of the queue effect, of `processUserInput`, of the
start after the session hooks, of the end of a drain and of a query. These are
promises the event loop keeps if the calls they await settle. Nothing is assumed
of the user, of arrivals, or of what the model answers.

**Proved** (`ReplTurn_proofs`, for any set of calls and commands and any number of
Escapes, from `AttrAssumption`, `NoneAssumption`, `MaxCancelsAssumption`):
`TypeCorrect`, `GuardNeverStuck` (`GuardAccounted`), `OwnerKeepsTheGuard`
(`OwnerIsNotDisturbed`), `RefinesOneQuery` (the safety part of the refinement).
`TypeOK` is inductive only with `Finite` (the queue and the batches are finite
sets): `PushBack` numbers entries by cardinality. `GuardAccounted` is inductive
only with `Generations`: a query's generation is at most the guard's, and two
queries never have the same one. Every action is first reduced to its effect on guard and calls
(`StepEffect`): nothing, admit, await, begin, give up, end, or cut off; an end may also
give up the reservation of a later call (`EndEffect`). The later
proofs have seven cases in place of twenty.

`AcceptedIsKept` (`NothingVanishes`) is inductive by itself: what a step takes out
of the queue or out of a call it puts back, hands to `onQuery` or records in `fate`.
`ModelHearsOnce` (`DeliveredOnce`) needs `OnceInv`, which speaks of behaviours
without Escape only. `Alone`: a query in flight owns the guard. `Snaps`: only a query
has a snapshot. `Apart`: a command is new, or one entry of the queue, or one entry of
one call, and is told to the model only when it leaves that place; a snapshot shares
commands with the queue only in the same entries, and none with a call. By `Alone` no
second query takes the entries of a snapshot between its making and the end of its drain,
which removes them. Only model-checked: liveness.

## 4. The task list

`TaskList` has one action per file-system call of `utils/tasks.ts`. `writeFile`
empties the file first and fills it later, so a reader in between sees a torn
file (`getTask` says "no task", the mark reads as 0); it writes to the file it
opened, which may have been unlinked and created again meanwhile. A process may
die anywhere; its locks stay until `proper-lockfile` takes them for stale
(`Expire`), which for a live holder never happens (it renews them). Releasing a
lock is merged with the write before it. Task texts and metadata are left out;
so are `claimTask`'s `checkAgentBusy`, the migration of old statuses and ids of
several digits.

| Run | Shows |
|---|---|
| `tasks_shared` | `SharedInv` (types; locks are held exactly inside their critical sections, `LocksAreReleased`; until the first `deleteTask`, ids are never reused, `IdsNeverReused`), `NoLostUpdate` (with the same exception), `ClaimsRespectOthers`: every operation, on two tasks of which one blocks the other, one process dying anywhere |

`deleted` is a history variable: `deleteTask` takes no lock, and what it does to
ids is a divergence (see below), so that two properties are about lists from
which nothing was deleted yet. `LocksAreReleased` and `ClaimsRespectOthers` have no
such exception.

Bounds: two processes, which is what a race takes; three operations, enough for one
that comes between two steps of another and a third that sees the result; an id
more than there are tasks, so that an id can be given out, lost and given out
again; one death. `CHECK_DEADLOCK FALSE`: the model stops when the operations are used up.

**Proved** (`TaskList_proofs`, for any agents, processes, ids, calls and deaths, from
`NobodyAssumption`, `BoundsAssumption`, `ExistingAssumption`, `OpsAssumption`):
`ListIsShared` (`SharedInv`), `UpdatesAreKept` (`NoLostUpdate`), `ClaimsAreRespectful`
(`ClaimsRespectOthers`). The invariant `IInv` adds to the types: `Files0` (a file that
is there has an id that was given out), `Shape` (which operations get to which
points, and with what), `Locks` (a lock is held by the call inside its critical
section or by a dead one), `Job0` (what a call has read under a task's lock is still
what the file says), and, until `deleteTask` is called, `Undeleted`. That is the heart of `IdsNeverReused`: every id that was given
out is at most the mark, or lies under a task file that is there (`Covered`), and while
a creation or a reset holds the list's lock the same is true of what it has surveyed
(`Surveyed`) and of the mark it is about to fill in (`Filling`). The plain statement is
not inductive, because `writeFile` truncates the mark, and a mark that reads as
0 protects nothing: only the lock's holder remembers it then.

## 5. Turbo requests

`HedgedRequest` has one action per callback of `hedgedRequest` (launch timer,
headers, error, body chunk, end of body, no-progress timer, the caller's abort,
the consumer's read) and extends `TurboGovernor`, the additive-increase,
multiplicative-decrease allowance that all requests share. Each attempt has a
phase (its connection), and the flags of the source's `AttemptState`. Whether a
request's connections still listen to their signals after the headers
(`detached`) is chosen when it begins: with a request timeout,
`createRequestSignal` gives `fetch` a signal of its own and unlinks it at the
headers. `Race` is what a request promises: it is open, then won by one attempt
or rejected, and rejected only when every attempt has failed or the caller has
aborted.

| Run | Shows |
|---|---|
| `turbo_race` | `RaceInv` (types, and the winner streams alone and is not aborted), `BodyIsWhole`, `OnlyFaultsAreReported`, `RaceSettles`, `ImplementsRace` (rejected only when all attempts have failed): three staggered attempts, with and without a request timeout. `RaceSettles` is about the transport whose signal reaches the connection |

Bounds: three attempts (a winner, a loser, one still to be launched), bodies of
up to `MaxBody` chunks with the cap of buffered chunks below it, one stall of
the event loop. One request runs at a time: the governor carries over to the
next. Fairness: launch timers, the no-progress timer and
aborts that reach a connection; nothing of the provider, the caller or the
consumer. Turbo stays on during a request.

**Proved** (`HedgedRequest_proofs`, for any number of attempts, chunks, stalls and
requests, staggered or not, with the no-progress timer or without, from
`CeilingAssumption`, `HedgesAssumption`, `SwitchAssumption`, `BoundAssumption`):
`RacesAreSound` (`RaceInv`), `BodiesAreWhole` (`BodyIsWhole`), `LosingIsNoFault`
(`OnlyFaultsAreReported`), `RequestsKeepTheirPromise` (`ImplementsRace`: each step is
one of `Race` or changes nothing of it). The invariant says of each attempt: one that
timed out was reported; as long as the race is open only the no-progress timer and
the caller abort; once it is decided every attempt but the winner is aborted; and as
long as an attempt has not won, what it has buffered is all that it has got. The last
of these carries `BodyIsWhole` over the win, when the buffer becomes the head of the
body. Only model-checked: `RaceSettles`.

## 6. The cron scheduler

**The lock.** `SchedulerLock` is `tryAcquireSchedulerLock` and
`releaseSchedulerLock` with their callers `start`, `enable`, the lock probe and
`stop`: one action per file-system call. A lock file that is created and not yet
written is `Torn`. A process is one program; a session id may come back in a
later process (`--resume`). Assumed: a lock probe ends before the next one
starts (they are seconds apart), and a session is resumed only when its former
process is gone. A pid is never reused.

`tryAcquireSchedulerLock` registers `releaseSchedulerLock` as a clean-up
(`registerLockCleanup`, `utils/cronTasksLock.ts:93`), and `gracefulShutdown` runs it
(`Shutdown`, `LeaveRead`, `LeaveUnlink`; `leave` is the stage, `cleanup` who has it
registered). Nobody stops the scheduler for that: `isOwner` stays, its timers run, and
it may even acquire the lock once more, until hooks and analytics are done and the
process exits (`ForceExit`), at any moment after the shutdown has begun: the clean-up
has two seconds. So an owner whose clean-up is over (`Leaving`) drives the tasks
without the lock, and another session may have it by then. `stop()` beside a shutdown
(`cli/print.ts:3930`) releases the lock a second time; when both have found it theirs,
the second will unlink whoever's lock is there, and `recovered` is set with the first
unlink, as when a lock is taken for stale.

`SchedulerOwner` is what the lock promises to the rest: a scheduler that starts
becomes ready, with the tasks or without, and at most one drives them beside those
that are leaving, until a lock is recovered.

**The tasks.** `CronTasks` is composed with `SchedulerOwner` instead of the
lock's own steps, so that an owner that is leaving ticks and fires on beside the
next one. An edit of `.claude/scheduled_tasks.json` (`addCronTask`,
`removeCronTasks`, `markCronTasksFired`) reads the file, changes the copy,
empties the file and fills it, one action each, with no lock and any number of
edits at a time; `readCronTasks` takes an emptied or unreadable file for one
without tasks. `Check` is a tick of the owner, `CheckIdle` that of another
session, which forgets the schedule; `InitialLoad` is `load(true)`, `Reload`
`load(false)`. The read of a load and what follows it are one action.

Time is a count of periods: a task created or last fired in one is due in the
next, and a yearly or a per-minute task is the same to the model. Ticks are a
second apart, the watcher waits 300 ms and an edit takes milliseconds: `Timely`
says which of these are over before the next tick of the session that caused
them. The passing run assumes it of the watcher and, for a session without the
lock, of the removal of missed tasks; the last rows of the known divergences show
what happens otherwise. `disturbed` records that an edit has met another one
(or a load, or the end of its process). Left out: tasks that live in memory only, the
kill switch and the filter, cron expressions and jitter, permanent tasks,
unlimited ages, writes that fail.

| Run | Shows |
|---|---|
| `cron_lock` | `OwnerHoldsTheLock`, `TakenOver`, `ImplementsOwner`: three processes, one resuming another's session, each shutting down or stopping at any point, two deaths at any point: until a lock is recovered an owner holds the lock, or its own clean-up has given it away |
| `cron_tasks` | `FiringInv` (types, and `FiresOnce`), `NothingIsDropped`, `DueIsHanded`: two sessions, one of which may stop, shut down or die, a one-shot and a recurring task that ages out, one of which the user creates or deletes |

Bounds: in `cron_lock` two processes race for a lock and the third is the dead
holder, or a session resumed; two deaths, so that the one that recovers a lock
may die too. In `cron_tasks` two periods let a recurring task fire, be
rescheduled and age out; its constraint `Explored` ends the exploration where edits
meet or a lock is recovered (`Undisturbed`), and where more than two edits are under
way at once (`MaxEdits`: one of each owner, or an owner's beside a user's). The
liveness property loses nothing where edits meet (`disturbed` fulfils `DueIsHanded`);
where a lock is recovered it loses the behaviours with two owners that stay, not the
takeover after a death or a shutdown, for which `SchedulerOwner` asks no recovery; of
more edits it loses that they all come to an end, which needs nobody else. For the two
invariants the theorems below need neither bound.
Fairness: every step that follows a file-system call, the timers of the probe and
the tick, the delivery of file events, and the exit at the end of a shutdown, which a
failsafe timer forces (`utils/gracefulShutdown.ts:438`); nothing else of a shutdown,
and nothing of `stop()`. That an ownerless project gets an owner that stays is
`TakenOver`. `CHECK_DEADLOCK FALSE`: programs end.

**Proved** of the lock (`SessionFiles_proofs`, for any processes, sessions and number of
deaths, from `NobodyAssumption` and `MaxCrashesAssumption`): `TypeCorrect`,
`OwnerHolds`, `OneOwnerUntilRecovery`, `StopLeavesNothing`, and `RefinesOwner`:
every step of the lock is one of `SchedulerOwner`, or changes nothing of it. None
of the invariants is inductive as it stands. The invariant adds `NamesItsHolder` (a lock that names a
process names an owner, one that releases it, or a dead one: this is what keeps a
probe that finds its own name from being something else than an owner), `Fresh`
(a process that has not started or is gone has nothing, and a session runs in one
process) and, until a lock is recovered, `Sole`: whoever fills the lock file, owns the
scheduler and stays, or unlinks the lock is the one process the file is of. A release
finds out by a read whose lock it is, and by session: so `Sole` also says that one that
may release, and finds its session in the file, finds its own process there
(`MayRelease`). `UnlinkerIsAlone` is what a shutdown needs: its unlink takes nothing
away from anybody else. With recoveries `Sole` is false, and there may be two owners: the
known divergence `OnlyOneOwner`.

**Proved** of the tasks (`SharedFiles_proofs`, for any processes, tasks, users and
numbers of periods and uses, from `IdsAssumption`, `TimeAssumption`,
`NoneAssumption`):
`TasksAreKept` (`NothingIsDropped`) whatever `Timely` says, and `TasksFireOnce`
(`FiringInv`) where `Timely` has `"missed"` and `"events"`, as in the run; the two
rows for `FiresOnce` among the known divergences show that neither can be left out.
`CronTypes` says that every edit under way belongs to a program that runs, with no
hypothesis. `"edits"` is not needed: a tick may come while its edit of the file goes
on. Nothing is assumed of recoveries either: the run stops at one, the theorems do
not, since a second owner fires on its own account. The invariant is `CTInv`:

- `Begins` and `Caused`, always: who has not loaded the file has fired nothing; an edit
  is about tasks that were handed over (`fire`, `mark`, `missed`), deleted or created.
- `Fresh`, until edits meet: a task is added by one edit, and until that is done is in
  no file, no session's list and no count. With `Caused` it gives `NothingIsDropped`:
  what an edit takes out of the file was handed over or deleted, and what it writes back
  beside is what the file says, or it would have met another edit.
- `Spent`, until edits meet: a session that has fired a task is barred from it by one of
  four things: the schedule (a recurring task, `nextFireAt` is later), its own edit
  (`InFlight`), the mark `Never` of a missed task whose removal goes on, or the file,
  from which the task is gone; then either the session does not list it any more, or
  the watcher's event comes before its next tick. The passage from each to the next is
  where `FiresOnce` could fail, and where `"events"` and `"missed"` are used: between
  the end of the edit and the reload nothing else keeps the task from firing.

`FiresOnce` is not inductive alone, since it does not say why the next tick leaves the
task alone. Only model-checked: `DueIsHanded`.

## 7. The mailbox

`Mailbox` is the inbox of one agent: a JSON file that any program appends to
(`writeToMailbox`) and the agent reads and marks. A call of `writeToMailbox` is
named by its message; the calls that mark are the `Markers`, with the index to
mark, or 0 for all. An action is one file-system call; `writeFile` is two, since
`readMailbox` takes no lock and reads an emptied file as no messages. An absent
file is an empty one. The release of the lock is merged with the write before it.
A call that runs out of lock retries logs the error and returns (`LockFails`).
Which of the three readers the agent has is chosen in `Init`: the REPL's
`useInboxPoller` (delivers, or queues in `AppState`, then marks all and does not
wait), the headless lead of `print.ts` (marks all, then delivers) and the
in-process teammate (marks the one message it picks by its index, shutdown
requests first, then the lead's, then delivers).

| Run | Shows |
|---|---|
| `mail_inbox` | `DeliveryInv` (types, the teammate loses nothing, nothing comes twice), `InboxOnlyGrows`, `EveryMessageArrives`: three messages of different classes, each reader, failing locks, one sender dying anywhere |

Bounds: three messages, one of each class, so that each can overtake the others;
two marks in flight, one that the poller did not wait for and the next; one dead
sender; deliveries are counted to 2. `Expire` waits until nobody retries
the lock and the reader has gone on: a lock is stale after ten seconds, the
retries take less than one. Fairness: file-system calls, the readers' timers and
staleness; nothing of the senders. `CHECK_DEADLOCK FALSE`: nobody need write.
Not modelled: the routing of protocol messages, the permission poll of in-process
teammates, the attachments of `USER_TYPE=ant` builds, and `clearMailbox`, which
nothing calls.

**Proved** (`SharedFiles_proofs`, for any number of messages, of markers and of senders
that die, from `NobodyAssumption`, `DisjointAssumption`, `ClassAssumption`,
`MaxCrashesAssumption`): `NothingIsLostOrDoubled` (`DeliveryInv`) and `FileOnlyGrows`
(`InboxOnlyGrows`). The argument for the index of the teammate: from its read until
its marker is through it relies on what it has seen (`Relied`), and during that time
no lock expires, so that no call can find the file emptied by a dead sender (`Empty`):
every copy under the lock is what the file says (`Copies`), the messages keep their
places (`Seen`), and the marker marks the message that was picked (`Marking`). A call
that does find the file empty writes back a file with only its own message; this
happens after a death, when nobody relies on the file, and is why `FileOnlyGrows` asks
for `crashes = 0`. `Sent` (a message is in the file once, and only when its call is
over) makes the index the message's own, and `Once` follows a message from unread to
marked to delivered. What the proof uses of `Expire` is its guard: ten seconds are
longer than the retries and than what the reader does between its read and its mark.
Only model-checked: `EveryMessageArrives`.

## 8. The tier failover

**Model.** `TierChain` follows the `query()` loops of one conversation: the main
loop, and the forked agents that compaction and the stop hooks start. They share
one options object, `opts` (`mainLoopModel` and the `ccLite` extras), because
`runForkedAgent` gets the parent's `toolUseContext.options`; `app` is
`AppState.mainLoopModel`. Per loop the model keeps the codename of the chain, the
model and connection (`route`) of the request under way and the fallback target
that was chosen for it. `Rebased`, `Restored` and `Target` are the rules of the
head of a query and of an iteration; `Fallback` and `Retry` are the two halves of
the catch block, between which the missing results are yielded and other loops go
on. How a request fails is left to chance: `withRetry`'s attempts and delays are
not modelled. Left out: the profile switches of `/turbo`, the texts, what is
billed, and the copy of the options that `refreshTools` gives a query in its middle
when an MCP server connects (`query.ts:2058`), from which on it shares them with the
forks it starts then.

| Run | Shows |
|---|---|
| `tier_chain` | `RoundsBounded`, `HopsAreReal`, `FallbackTerminates`: two queries whose forks share the options: the rounds pass their cap by less than one for each loop, each hop goes down to another provider, and no request goes from tier to tier for ever |
| `tier_comment_provider` | *violated*: `RequestFollowsTheModel`: from the second iteration on, a query that began on a lower tier sends that tier's model to the opus provider |

Bounds: three tiers (as many as there are), two providers bound so that two
neighbours share one, the outer two do, or the middle one has none; two forks, a
compaction and a background agent or two of the latter; a cap of two rounds, where the
code has five (`MAX_TIER_FALLBACKS`, `query.ts:268`): three tiers give two hops down, so that two
rounds are used up, and passed, within one query; two iterations, since the first differs from all later ones; two queries,
since a model picked between them is what `Rebased` is for. `RoundLimit` is above
what the rounds can come to. Fairness: a request ends. `CHECK_DEADLOCK FALSE`:
the queries run out.

Every continue site of `query.ts` writes a `State` without
`tierCodenameOfCurrentChain` and `pendingRestoreToChainHead`. That is the
finding; it also means that the climb at the head of an iteration (line 753) is
never reached, and that an iteration after the first has no target.

**Proved** (`TierChain_proofs`, for any number of tiers, providers, bindings,
forks, iterations and queries, from `TierAssumption`): `TypeCorrect`,
`RoundsStayBounded`, `EveryHopIsReal`. The invariant `ChainInv` has three parts.
`Typed`. `OnChain`: where a loop has a target, its codename is where its request
goes and the target the next tier from there; between the catch and the next
attempt the codename is the next tier from the connection that failed; and no loop
comes to an iteration with the mark to climb back. `Counted`: the rounds counted so far, and
one for each loop that may still use a target chosen under the cap, stay below the
cap and the number of loops; this is what makes `RoundsBounded` inductive, for a
target chosen long ago is used without another look. `NextTierIsElsewhere` says
that the tier chosen lies below the present one and at another provider, although
`NextTier` compares neighbours only: were all tiers from one to the other bound
alike, the least counterexample would have been skipped.

## 9. A turn of tools and its permissions

**Model.** `ToolTurn` is one iteration of the query loop: blocks stream in
(`Stream`), the stream breaks and the request goes out unstreamed
(`StreamBreaks`, `Unstreamed`, which tombstones what it replaces), another model
takes over (`ModelFallback`), it ends or fails, and `runTools` runs the blocks in
batches: consecutive concurrency-safe ones together, `Cap` at a time, any other
alone. Each block passes its `PreToolUse` hooks and may ask for permission.
`ToolPermission`, which it extends, is `canUseTool` on the interactive path: the
rules, the abort checks, the description that is awaited, the dialog in
`toolUseConfirmQueue`, and the racers for `claim()`: the user, a
`PermissionRequest` hook, a channel, the recheck after rules have changed. The
dialog on the screen (`shown`) is the head of the queue at the last render, and
none while the user types; `onDone` pops the head of the queue, whoever that is
by then (`Done`), and Escape with no dialog on the screen empties it (`Escape`).

Left out: the bash classifier (a stub in this build), the bridge (compiled out,
`scripts/build.ts:101`), the coordinator and swarm-worker handlers,
`StreamingToolExecutor` (its gate is a stub, `services/analytics-stub.ts:43`), stop
hooks and everything after the results. `job` and `results` of a block abstract
the messages; the text of results is not modelled.

| Run | Shows |
|---|---|
| `tool_turn` | `DialogInv` (types, and `DialogsMatchRequests`), `Paired`, `UnsafeRunsAlone`, `FirstAnswerDecides`, `TurnEnds`: each `tool_use` has one `tool_result` whatever breaks, an unsafe tool has the turn to itself, nobody is asked about what is decided, a late racer changes nothing, and the tools end unless a dialog was dropped |

Bounds: three blocks, two of which form a batch and the third waits for them; two
at a time; one fallback, since a second one repeats the first from where it left;
the user starts to type once, which is what hides a dialog. Fairness (one weak fairness for
everything that goes on by itself): requests and tools end, React renders, the
user stops typing and answers what is on the screen; hooks and channels may stay
silent and nobody has to press Escape. `CHECK_DEADLOCK FALSE`: the iteration ends.

Two things the model shows and no document denies: a tool may start after the
query was aborted (`Start` has no look at the signal), and a hook's permission
updates and its interrupt take effect although its claim came too late.

**Proved** (`ToolTurn_proofs`, for any blocks, any partition into batches, any cap
and number of fallbacks, from `PermissionAssumption` and `TurnAssumption`):
`EveryUseIsPaired`, `UnsafeToolsAreAlone`, `FirstAnswerStands`. `Paired` is proved
from `TurnInv`: `TurnTyped`; `Accounted` (the blocks of former attempts have their
result or are gone, those of this one have none before the tools run, and then
exactly when they are done); `JobsInPlace` (only blocks of this attempt have begun, in their
order, and only while the phase is that of the tools). `FirstAnswerDecides` is proved from `AnswerInv`: `Sound` (a
claim says how the request ends) and `Matched` (a block that has not asked has no
request, and one that runs has not been refused). `DialogsMatch` (`DialogInv`) needs
both, and `OnScreen`: while a dialog that is still open is on the screen it is the head
of the queue, whatever was queued or popped since the render; the `onDone` of an
answer pops the head of the queue, whoever that is, and by `OnScreen` it is the one that
was answered. `Removed` takes a block out of the queue at its position: it is there
once. Only model-checked: `TurnEnds`.

## 10. The transcript

`TranscriptQueue` is the class `Project` of `utils/sessionStorage.ts` for one
session file: `appendEntry` queues and sets the timer, the timer's drain and
`flush()` splice the queue and append it (`Begun`, `Land`, `Resolve`, or `Fault`
when the append fails), and `removeMessageByUuid` cuts a line out by truncating
and rewriting what follows (`CutRead`, `CutTruncate`, `CutWrite`, `CutEnd`). An
entry is a number, in the order of queueing; all lines have one length, so that a
position in the file is a line. `activeDrain` is one variable that a later drain
overwrites and every drain clears. The process may die in any state; what an
invariant says of the file is what `--resume` finds. Left out: which messages are
queued, other files (sidechains), the metadata written again at the tail, and
reading the file. Of the pending writes that a flush waits for (`Tracked`) the model
has the tombstones: `insertMessageChain` and its like (lines 1000 to 1117) count
as one until they have queued their entries, and here an entry is queued at once.

| Run | Shows |
|---|---|
| `transcript` | `QueueInv` (types; each entry is in one place), `FileIsWhole` (`CrashLeavesAPrefix`, `FlushIsDurable`), `EveryEntryLands`, `FlushReturns`: two drains by the timer, a flush, a tombstone and a failing append |

`Calm` limits `CrashLeavesAPrefix` and `FlushIsDurable` to appends that take less
than the timer's 100 ms (`swift`, chosen at the start), one caller of `flush` and no
tombstone. Without it both fail, in the model and in the code: two drains under
way at once may land in either order, and a flush waits for the one that is
`activeDrain` at the moment. A failed append makes the flush that waits for it
throw after it has cancelled the timer: what is in the queue then stays there
until the next append, which `EveryEntryLands` excuses.

`CutRead` finds the last line of its target (`LastIn`, the `lastIndexOf` of the tail)
or keeps the lines that are not it (`Without`, the filter of the slow path); the two
differ when a line is in the file twice, which a cut that crosses an append can do.

Bounds: four entries, enough for one in the file, one in each of two drains and
one in the queue; one each of flush, tombstone and fault. Fairness: timers fire, appends and calls of
`fs` end, settled promises are seen. `CHECK_DEADLOCK FALSE`: the entries run out.

**Proved** (`SessionFiles_proofs`, for any number of entries, timers, callers of flush,
tombstones and faults, from `TranscriptAssumption`): `QueueLosesNothing`
(`QueueInv`) and `FileStaysWhole` (`FileIsWhole`). The invariant `TQInv` has three
parts, each inductive with those before it:

- `Typed` and `Waits`, always: the queue is the last stretch of what was queued
  (`QueueTyped`), whatever was cut, failed or overtaken; a timer's drain awaits nobody.
- `Parted`, until a tombstone reads the file: all that has left the queue, and nothing
  else, is in the file, lost, or in the batch of a drain that writes; never in two of
  them, in two batches, or twice in one. It holds with any number of drains at a time,
  which overwrite `activeDrain`: losing track of a drain does not lose its entries.
- `Orderly`, while `Calm`: one drain writes at a time and `activeDrain` is it
  (`OneWrites`, which is where swift appends are used: a timer does not fire while a
  drain goes on); the file ascends and the batch comes after it (`InOrder`); and what a
  flush needs is kept, or in its own batch, by the time it can return (`Durable`).

`NothingIsLost` and `FileIsWhole` follow: the counts of `NothingIsLost` are those of a
partition, and an ascending file that has all that left the queue, but for what was lost or
is being written after it, has no gap. Only model-checked: `EveryEntryLands`,
`FlushReturns`.

## 11. Background agents

**Model.** `TaskRegistry` has what the updaters of `AppState.tasks` do to the task
of an agent, as operators from a task to a task: register, end, report, queue and
drain messages, move to the background, unregister, evict. `AgentTask` is who calls
them when. A run is one call of `runAgent` with what awaits it; an agent has
several runs when `SendMessage` resumes it, and all share its id and so its task.
A run is `fore` (the Agent tool waits for it), `moving` (ctrl+b or the timer
ended the wait; the old iterator is being closed), `back`, `leaving` (its loop is over,
its clean-up is awaited), `reporting` (the task has its status, the worktree is looked
at), `done`. A controller is named after the run that was registered with it;
`uses` is the one a run obeys, and `None` stands for one that nobody else knows.
`told` counts the notifications since the last registration; `crossed` says
that an agent was registered while an older run of it had not finished.

Left out: tasks of shells, remote agents and teammates; progress and summaries;
tasks retained by the panel, which this build has not; the end of the command
queue when all agents are killed; what the old iterator does while the new one
starts; an agent's own rounds, except that it takes its messages between them.

| Run | Shows |
|---|---|
| `agent_task` | `AgentInv` (types; a task that is shown as running has a run that goes on and that its controller stops, `ShownIsWorking`; what works is shown, `WorkingIsShown`, and its end is told once, `ToldOnce`, unless runs cross), `FirstEndCounts` (no end is recorded over an end), `MessagesAreKept` (waiting messages survive the end and the resumption), `EndIsTold` (every end is made known, whatever crosses): one agent, started in either way and run three times, by two calls of `SendMessage` that may overlap |

Bounds: one agent, since tasks of different agents meet only in the poll, in ctrl+b
and in the killing of all, which treat each alone; three runs, for one that is stopped,
one that crosses it and one after both; two senders, for two that resume the same agent.
Fairness (`Ending`): every run ends and its clean-up does, for its rounds are bounded and
its requests time out; nothing of the user, of polls or of senders. `CHECK_DEADLOCK
FALSE`: the runs are used up.

**Proved** (`AgentTask_proofs`, for any number of agents, runs and senders, with
teammates or without, from `MaxRunsAssumption`, `TeammatesAssumption`,
`AutoAssumption`, `NoneAssumption`): `AgentsAreShownAndTold` (`AgentInv`),
`FirstEndStays` (`FirstEndCounts`), `MessagesStay` (`MessagesAreKept`). The invariant
adds `Fresh` (runs begin in their order, and one that has not begun was not aborted),
`ForeIsFirst` (only the first run of an agent is waited for by the Agent tool, and only
while it is waited for is the task in the foreground) and
`OlderAreDone` (while no runs have crossed, all runs before the newest are over).
`ToldOnce` and `WorkingIsShown` rest on the last: whoever reports, is shown or is
stopped is then the newest run. `ShownIsWorking` does not need it: the controller of a
running task is that of its newest run, however runs cross. Only model-checked: `EndIsTold`.

## Findings

`PROJECT.json` quotes the comment and names the run. The run marked *violated*
above, `tier_comment_provider`, checks the statement as an invariant of a run of
its own, and TLC finds the state in which what the code does contradicts it.

### Known divergences

The following statements of comments and documents do not hold either. They
are definitions of the modules and no run checks them; put in a configuration in
place of its properties, TLC finds the counterexample.

| Definition | In the configuration | What happens |
|---|---|---|
| `EscapeReachesTheQuery` (`hooks/useCancelRequest.ts:96`) | `repl_live` | `processInitialMessage` installs its `AbortController` (`screens/REPL.tsx:3162`) before `tryStart()` has decided; refused, it leaves it in React state, and Escape aborts that one and frees the guard while the query runs on |
| `NoConcurrentInput` (`utils/handlePromptSubmit.ts:417`) | `repl_queue` | Escape's `forceEnd` frees the guard while a call still awaits its input; the next submit enters `executeUserInput` beside it, and the `finally` of the first then releases the reservation of the second |
| `FifoWithinPriority` (`utils/messageQueueManager.ts:50`) | `repl_queue`, with `prompt1`, `bash`, `prompt2` | the second prompt is taken in the batch of the first and overtakes the bash command (`utils/queueProcessor.ts:78`) |
| `DeletedIdsNotReused` (`utils/tasks.ts:400`) | `tasks_shared` | `deleteTask` takes no lock: a creation that read the mark before the deletion raised it, and the directory after the file was gone, gives the deleted id out again |
| `BlockedIsNotClaimed` (`utils/tasks.ts:584`) | `tasks_shared` | a blocker that is being rewritten is empty, reads as no task, and blocks nobody |
| `EdgesAreRecorded` (`utils/tasks.ts:478`) | `tasks_shared`, with `Three` | of two `blockTask` calls on one target the later write drops the other's blocker |
| `CompletedStays` (`utils/tasks.ts:809`) | `tasks_shared` | a task completed between the listing and the update is reopened by the unassigning |
| `OnlyCompletedIsCleared` (`hooks/useTasksV2.ts:160`) | `tasks_shared`, with `Finished` | the hide timer's reset deletes a task that was created after its check |
| `ClaimIsNotStolen` (`utils/tasks.ts:535`) | `tasks_shared` with `Wants = {"in_progress"}` | `TaskUpdate` looks at the owner without the lock (`tools/TaskUpdateTool/TaskUpdateTool.ts:192`) and overwrites a claim |
| `SuccessMeansClaimed` (`utils/tasks.ts:536`) | `tasks_shared` | `claimTask` reports success for a task that was deleted under its lock |
| `LosersAreAborted` (`src/README.md:648` of the repository) | `turbo_race` | with a request timeout the abort no longer reaches a loser whose headers have come (`services/api/openaiShim.ts:125`) |
| `CancelStopsAll` (`services/api/hedgedRequest.ts:111`) | `turbo_race` | once there is a winner the caller's abort is unlinked, and its body streams on (line 227) |
| `RaceNeverStalls` (`src/README.md:664` of the repository) | `turbo_race` | the request timeout's abort reaches nothing once the headers are there (`services/api/openaiShim.ts:125`): a body, or an error text, that goes silent is never reaped |
| `OnlyOneOwner` (`utils/cronTasksLock.ts:109`) | `cron_lock` | a session that has read the lock of a dead owner unlinks the one that another session has created meanwhile (line 165), or takes a lock not yet written for corrupt (line 147); both own the scheduler. Without a recovery: an owner that shuts down has released the lock and ticks on (line 93), so that two sessions run `check()` (`utils/cronScheduler.ts:406`) |
| `ReleasesItsOwn` (`utils/cronTasksLock.ts:176`) | `cron_lock`, as a property | `stop()` and the clean-up of the shutdown both read the lock and find it theirs; the first unlinks it, another session creates its own, and the second unlinks that |
| `OneShotFiresOnce` (`utils/cronTasks.ts:4`, `utils/cronScheduler.ts:333`) | `cron_tasks` with `Recurring = {}`, `Existing = {"once", "often"}`, without the constraint | two one-shots due in one tick are removed by two edits that nobody waits for; the second reads the file while the first has emptied it, or writes back what the first has removed, and one task fires again |
| `FiresOnce` (`utils/cronScheduler.ts:333`) | `cron_tasks` with `Timely = {"edits"}` | `inFlight` is cleared when the edit ends, before the watcher's reload: a tick in between fires the task again |
| `FiresOnce` (`utils/cronScheduler.ts:201`, `:388`) | `cron_tasks` with `Timely = {"events"}` | a tick without the lock evicts the mark that `load(true)` has put on a missed task while its removal goes on; when the session then takes over, it fires the task it has surfaced |
| `PollerLosesNothing` (`hooks/useInboxPoller.ts:860`) | `mail_inbox` | the poller marks all of the file as read (`utils/teammateMailbox.ts:318`), also a message that came after the read, and never delivers it; `cli/print.ts:2488` does the same |
| `ForkLeavesTheModelAlone` (`utils/forkedAgent.ts:255`) | `tier_chain` | the fork's options are its parent's object: its entry rules and its fallbacks change the model of the main loop |
| `RoundsCapped` (`query.ts:271`) | `tier_chain` with `Explicits <- MCExplicits` | with `--fallback-model` the rounds are not looked at: a model that is its own fallback is tried for ever |
| `KeepsDialogs` (`hooks/toolPermission/handlers/interactiveHandler.ts:53`) | `tool_turn` | Escape while the prompt hides the dialogs, or an answer to a dialog that a hook has just answered (`screens/REPL.tsx:4554` pops another head), takes a request off the queue and nothing resolves it |
| `TombstonesAreRemoved`, `OthersAreKept` (`query.ts:932`) | `transcript` with `TQSpec`, `NumEntries = 3`, `Timers = {t1}`, `Tombstones = {x1, x2}`, `MaxFaults = 0` | the cut works on positions it has read: a message still in the queue is not removed, and an append or another cut in between is overwritten |
| `KillIsNoOp` (`tools/AgentTool/agentToolUtils.ts:641`) | `agent_task` | the `catch` of a run that was stopped calls `killAsyncAgent`, which finds the agent's new run under the same id and stops that |
| `ResumedIsNotified` (`tools/SendMessageTool/SendMessageTool.ts:834`) | `agent_task` | the late notification of the former run marks the task of the resumed one as notified, and its own end is never told |
| `KilledIsStopped` (`tasks/LocalAgentTask/LocalAgentTask.tsx:279`) | `agent_task` | an agent in the foreground does not obey the controller of its task: stopped, and then sent to the background, it goes on with a controller that no task has |
| `QueuedIsDelivered` (`tools/SendMessageTool/SendMessageTool.ts:818`) | `agent_task` | a message queued in the last round waits in a task that has ended, and goes with it when it is evicted |
| `LoopWaits` (`tools/AgentTool/AgentTool.tsx:1057`) | `agent_task` with `Teammates = {a1}` | the task of an agent that a teammate waits for is stopped and evicted; when the timer then resolves the signal, the loop finds neither a task in the background nor anything left to wait for |

## What is only model-checked, and what is not covered

Liveness and fairness stay with TLC: TLAPS has no rule for `ENABLED` here
(`GuardIsReleased`, `QueueMoves`, the liveness of `OneQuery`, `TakenOver`, `DueIsHanded`,
`EveryMessageArrives`, `RaceSettles`, `FallbackTerminates`, `TurnEnds`, `EveryEntryLands`,
`FlushReturns`, `EndIsTold`). `RequestFollowsTheModel` is checked to fail. The
definitions under *Known divergences* are false, each in the configuration named
there. Every safety property of a passing run is a theorem; those of
`CronTasks` and `TranscriptQueue` have their conditions (`disturbed`, `Untouched`,
`Calm`) inside the property, as the runs check them, and `TasksFireOnce` has what
its run sets `Timely` to as a hypothesis. Not modelled: the components
of the inventory without a section above, for the reasons in `PROJECT.json`
(planned, pure I/O, text or layout, or compiled out of this build).
