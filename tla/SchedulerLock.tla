--------------------------- MODULE SchedulerLock ---------------------------
(***************************************************************************)
(* Which session drives the cron scheduler of a project:                   *)
(*                                                                         *)
(*   utils/cronTasksLock.ts     .claude/scheduled_tasks.lock               *)
(*   utils/cronScheduler.ts     start(), enable(), the lock probe, stop()  *)
(*   utils/gracefulShutdown.ts  runs the clean-up that the lock registers  *)
(*                                                                         *)
(* A process is one program with one scheduler; its session id survives    *)
(* --resume in a later process.  An action is one file-system call and     *)
(* the code up to the next.  writeFile is two: it opens the file, empty    *)
(* or emptied, and then writes to the file it opened, which another        *)
(* process may have unlinked meanwhile.  The pc of a process is            *)
(*   off       not started            create, fill, read, unlink, retry,   *)
(*   import    enable() loads chokidar     refill, reopen:                 *)
(*   watch     the scheduler runs          inside tryAcquireSchedulerLock  *)
(*   relRead, relUnlink  inside releaseSchedulerLock                       *)
(*   out       stopped                dead   the pid is gone               *)
(*                                                                         *)
(* gracefulShutdown() runs beside all that: nothing stops the scheduler    *)
(* until the process exits.  Its stage, per process, is                    *)
(*   none      not begun                                                   *)
(*   relRead, relUnlink  inside releaseSchedulerLock, which it has called  *)
(*   over      past the clean-up: hooks and analytics, then the exit       *)
(***************************************************************************)
EXTENDS Naturals, FiniteSets

CONSTANTS Procs, SessionOf,
          Nobody,       \* no lock file
          Torn,         \* a lock file without its contents
          MaxCrashes    \* bound: processes that die without cleaning up

ASSUME NobodyAssumption == Nobody \notin Procs /\ Torn \notin Procs
                           /\ Nobody # Torn
ASSUME MaxCrashesAssumption == MaxCrashes \in Nat

VARIABLES
    lock,        \* Nobody, Torn, or the process the lock file names
    pc,          \* per process
    linked,      \* the processes whose opened lock file is still the lock
    ready,       \* the processes whose enable() has come to its end
    isOwner,     \* the processes that believe they own the scheduler
    stopped,     \* the processes whose scheduler was stopped
    cleanup,     \* the processes that have registered the lock's clean-up
    leave,       \* per process: the stage of gracefulShutdown()
    recovered,   \* some lock was taken from its holder, or will be by the
                 \* second of two releases
    crashes      \* (bounded by MaxCrashes)

shutdown == <<cleanup, leave>>
vars == <<lock, pc, linked, ready, isOwner, stopped, shutdown, recovered, crashes>>

Acquiring == {"create", "fill", "read", "unlink", "retry", "refill", "reopen"}
Releasing == {"relRead", "relUnlink"}
Places == {"off", "import", "watch", "out", "dead"} \cup Acquiring \cup Releasing

Init == /\ lock = Nobody
        /\ pc = [p \in Procs |-> "off"]
        /\ linked = {} /\ ready = {} /\ isOwner = {} /\ stopped = {}
        /\ cleanup = {} /\ leave = [p \in Procs |-> "none"]
        /\ recovered = FALSE /\ crashes = 0

Leaves == {"none", "relRead", "relUnlink", "over"}

Goes(p, place) == pc' = [pc EXCEPT ![p] = place]

\* isProcessRunning(pid)
Running(p) == pc[p] \notin {"off", "dead"}

-----------------------------------------------------------------------------
(* start() and the end of an acquisition.                                  *)

\* start() finds the scheduler enabled.  A session is resumed only when its
\* earlier process is gone.
Start(p) ==
    /\ pc[p] = "off"
    /\ \A q \in Procs \ {p} : SessionOf[q] = SessionOf[p] => ~Running(q)
    /\ Goes(p, "import")
    /\ UNCHANGED <<lock, linked, ready, isOwner, stopped, shutdown, recovered, crashes>>

\* enable() after its import.
Enable(p) ==
    /\ pc[p] = "import"
    /\ Goes(p, IF p \in stopped THEN "out" ELSE "create")
    /\ UNCHANGED <<lock, linked, ready, isOwner, stopped, shutdown, recovered, crashes>>

\* The lock probe of a session that does not own the scheduler.
Probe(p) ==
    /\ pc[p] = "watch" /\ p \notin isOwner
    /\ Goes(p, "create")
    /\ UNCHANGED <<lock, linked, ready, isOwner, stopped, shutdown, recovered, crashes>>

\* enable() or the probe gets the answer of tryAcquireSchedulerLock().  If
\* the scheduler was stopped meanwhile it calls releaseSchedulerLock(), which
\* unregisters the clean-up at once.
Acquired(p, owned, registered) ==
    IF p \in stopped
      THEN /\ Goes(p, IF owned THEN "relRead" ELSE "out")
           /\ cleanup' = IF owned THEN registered \ {p} ELSE registered
           /\ UNCHANGED <<ready, isOwner>>
      ELSE /\ Goes(p, "watch") /\ ready' = ready \cup {p}
           /\ isOwner' = IF owned THEN isOwner \cup {p} ELSE isOwner
           /\ cleanup' = registered

NotAcquired(p, place) == Goes(p, place) /\ UNCHANGED <<ready, isOwner, cleanup>>

-----------------------------------------------------------------------------
(* tryAcquireSchedulerLock().                                              *)

\* Mutant: the lock file is opened without O_EXCL.
CreateShared(p) ==
    /\ pc[p] \in {"create", "retry"}
    /\ lock' = Torn /\ linked' = linked \cup {p}
    /\ NotAcquired(p, "fill")
    /\ UNCHANGED <<stopped, leave, recovered, crashes>>

\* tryCreateExclusive(): open with O_EXCL, at first and after the unlink.
Create(p) ==
    /\ pc[p] \in {"create", "retry"}
    /\ IF lock = Nobody
         THEN /\ lock' = Torn /\ linked' = linked \cup {p}
              /\ NotAcquired(p, "fill")
         ELSE /\ UNCHANGED <<lock, linked>>
              /\ IF pc[p] = "create" THEN NotAcquired(p, "read")
                                     ELSE Acquired(p, FALSE, cleanup)
    /\ UNCHANGED <<stopped, leave, recovered, crashes>>

\* The contents are written, to the file that was opened, and the clean-up is
\* registered.
Fill(p) ==
    /\ pc[p] \in {"fill", "refill"}
    /\ lock' = IF p \in linked THEN p ELSE lock
    /\ linked' = linked \ {p}
    /\ Acquired(p, TRUE, cleanup \cup {p})
    /\ UNCHANGED <<stopped, leave, recovered, crashes>>

Named == lock \in Procs

\* Mutant: a dead owner is never taken for stale.
StaleNever(p) == ~Named

\* The lock is unreadable, torn, or names a dead pid.
Stale(p) == ~Named \/ ~Running(lock)

\* The lock names this session, in this process or an earlier one.
Ours(p) == Named /\ SessionOf[lock] = SessionOf[p]

\* readLock(), then: ours already; ours from before --resume; stale; or
\* held by a live process.
Read(p) ==
    /\ pc[p] = "read"
    /\ IF Ours(p)
         THEN IF lock = p THEN Acquired(p, TRUE, cleanup)
                          ELSE NotAcquired(p, "reopen")
         ELSE IF Stale(p) THEN NotAcquired(p, "unlink")
                          ELSE Acquired(p, FALSE, cleanup)
    /\ UNCHANGED <<lock, linked, stopped, leave, recovered, crashes>>

\* The stale lock is unlinked, whatever it is by now.
Unlink(p) ==
    /\ pc[p] = "unlink"
    /\ lock' = Nobody /\ linked' = {}
    /\ recovered' = TRUE
    /\ Goes(p, "retry")
    /\ UNCHANGED <<ready, isOwner, stopped, shutdown, crashes>>

\* The lock of the session's earlier process is opened and emptied.
Reopen(p) ==
    /\ pc[p] = "reopen"
    /\ lock' = Torn /\ linked' = linked \cup {p}
    /\ recovered' = TRUE
    /\ Goes(p, "refill")
    /\ UNCHANGED <<ready, isOwner, stopped, shutdown, crashes>>

-----------------------------------------------------------------------------
(* stop() and releaseSchedulerLock().                                      *)

\* stop(): an acquisition in flight goes on and sees the flag when it ends.
Stop(p) ==
    /\ pc[p] \in {"import", "watch"} \cup Acquiring /\ p \notin stopped
    /\ stopped' = stopped \cup {p}
    /\ isOwner' = isOwner \ {p}
    /\ cleanup' = IF p \in isOwner THEN cleanup \ {p} ELSE cleanup
    /\ pc' = IF pc[p] # "watch" THEN pc
             ELSE [pc EXCEPT ![p] = IF p \in isOwner THEN "relRead" ELSE "out"]
    /\ UNCHANGED <<lock, linked, ready, leave, recovered, crashes>>

\* The lock is unlinked.  A process may be in releaseSchedulerLock() twice,
\* for stop() and for its shutdown: when both have found the lock theirs, the
\* second will unlink whatever it is by then.
Unlinks(again) ==
    /\ lock' = Nobody /\ linked' = {}
    /\ recovered' = (recovered \/ again)

\* The lock is released only if it still names this session.
RelRead(p) ==
    /\ pc[p] = "relRead"
    /\ Goes(p, IF Ours(p) THEN "relUnlink" ELSE "out")
    /\ UNCHANGED <<lock, linked, ready, isOwner, stopped, shutdown, recovered, crashes>>

RelUnlink(p) ==
    /\ pc[p] = "relUnlink"
    /\ Unlinks(leave[p] = "relUnlink")
    /\ Goes(p, "out")
    /\ UNCHANGED <<ready, isOwner, stopped, shutdown, crashes>>

-----------------------------------------------------------------------------
(* The end of a process.                                                   *)

LeaveGoes(p, place) == leave' = [leave EXCEPT ![p] = place]

\* gracefulShutdown() (exit, a signal, a lost terminal) comes to the clean-up
\* functions; the one of the lock is releaseSchedulerLock().  isOwner stays.
Shutdown(p) ==
    /\ Running(p) /\ leave[p] = "none"
    /\ LeaveGoes(p, IF p \in cleanup THEN "relRead" ELSE "over")
    /\ cleanup' = cleanup \ {p}
    /\ UNCHANGED <<lock, pc, linked, ready, isOwner, stopped, recovered, crashes>>

\* Mutant: the clean-up unlinks the lock without reading it.
LeaveReadNothing(p) ==
    /\ leave[p] = "relRead"
    /\ LeaveGoes(p, "relUnlink")
    /\ UNCHANGED <<lock, pc, linked, ready, isOwner, stopped, cleanup, recovered, crashes>>

LeaveRead(p) ==
    /\ leave[p] = "relRead"
    /\ LeaveGoes(p, IF Ours(p) THEN "relUnlink" ELSE "over")
    /\ UNCHANGED <<lock, pc, linked, ready, isOwner, stopped, cleanup, recovered, crashes>>

LeaveUnlink(p) ==
    /\ leave[p] = "relUnlink"
    /\ Unlinks(pc[p] = "relUnlink")
    /\ LeaveGoes(p, "over")
    /\ UNCHANGED <<pc, ready, isOwner, stopped, cleanup, crashes>>

Dies(p) ==
    /\ Goes(p, "dead") /\ LeaveGoes(p, "none")
    /\ isOwner' = isOwner \ {p} /\ linked' = linked \ {p} /\ cleanup' = cleanup \ {p}
    /\ UNCHANGED <<lock, ready, stopped, recovered>>

\* The shutdown ends, the clean-up done or cut off by its two seconds: what
\* the scheduler is in the middle of is cut off.
ForceExit(p) == leave[p] # "none" /\ Dies(p) /\ UNCHANGED crashes

\* The stopped program ends.
Exit(p) == pc[p] = "out" /\ Dies(p) /\ UNCHANGED crashes

\* The process dies without cleaning up.
Crash(p) ==
    /\ Running(p) /\ crashes < MaxCrashes
    /\ crashes' = crashes + 1
    /\ Dies(p)

Step(p) == \/ Enable(p) \/ Probe(p) \/ Create(p) \/ Fill(p) \/ Read(p)
           \/ Unlink(p) \/ Reopen(p) \/ RelRead(p) \/ RelUnlink(p)

End(p) == \/ Shutdown(p) \/ LeaveRead(p) \/ LeaveUnlink(p) \/ ForceExit(p)
          \/ Exit(p) \/ Crash(p)

Next == \E p \in Procs : Start(p) \/ Step(p) \/ Stop(p) \/ End(p)

Spec == Init /\ [][Next]_vars

\* File-system calls return and the probe's timer fires; a shutdown ends, by
\* its failsafe timer if by nothing else.
FairSpec == Spec /\ \A p \in Procs : WF_vars(Step(p)) /\ WF_vars(ForceExit(p))

-----------------------------------------------------------------------------
(* Properties.                                                             *)

\* Every variable stays in its set, and no stopped scheduler is an owner.
TypeOK == /\ lock \in Procs \cup {Nobody, Torn}
          /\ pc \in [Procs -> Places]
          /\ linked \cup ready \subseteq Procs /\ isOwner \subseteq Procs \ stopped
          /\ stopped \subseteq Procs
          /\ cleanup \subseteq Procs /\ leave \in [Procs -> Leaves]
          /\ recovered \in BOOLEAN /\ crashes \in 0..MaxCrashes

\* The processes whose shutdown is past the clean-up.  Their schedulers still
\* tick, and an owner among them no longer has the lock.
Leaving == {p \in Procs : leave[p] = "over"}

\* As long as no lock was ever taken from its holder, at most one session
\* drives the scheduler, beside those that are leaving: acquiring, probing,
\* stopping, shutting down and releasing never give it to two.
SecondOwnerNeedsRecovery == ~recovered => Cardinality(isOwner \ Leaving) <= 1

\* A scheduler that has stopped leaves no lock that names its process:
\* while the program lives on, such a lock would keep every other session
\* from the scheduler.
StoppedLeavesNoLock == \A p \in Procs : pc[p] = "out" => lock # p

\* An owner that nobody took the lock from holds it, until its own shutdown
\* is past the clean-up that gives it away.
OwnerHoldsTheLock == \A p \in isOwner \ Leaving : ~recovered => lock = p

\* While a session runs its scheduler, the project gets an owner that stays,
\* also when the former one died or left at any point of acquiring or
\* releasing the lock.
TakenOver ==
    \A p \in Procs : (Running(p) /\ p \notin stopped /\ leave[p] = "none")
        ~> \/ \E q \in isOwner : leave[q] = "none"
           \/ ~Running(p) \/ p \in stopped \/ leave[p] # "none"

\* The lock implements SchedulerOwner.
Stage == [p \in Procs |-> IF pc[p] = "off" THEN "off"
                          ELSE IF pc[p] = "dead" THEN "gone"
                          ELSE IF p \in stopped THEN "stopped"
                          ELSE IF p \in ready THEN "ready" ELSE "starting"]

Owner == INSTANCE SchedulerOwner WITH stage <- Stage,
                                       leaving <- isOwner \cap Leaving

ImplementsOwner == Owner!Spec

\* cronTasksLock.ts:109: "If two sessions race to recover a stale lock, only
\* one create succeeds."  (So only one of them owns the scheduler.)
\* cronScheduler.ts:406: "Only the owning session runs check().  [...]
\* Prevents double-firing when multiple Claudes share a cwd."
OnlyOneOwner == Cardinality(isOwner) <= 1

\* cronTasksLock.ts:176: "Release the scheduler lock if the current session
\* owns it."
ReleasesItsOwn ==
    [][\A p \in Procs : lock' = Nobody /\ Named =>
          ((RelUnlink(p) \/ LeaveUnlink(p)) => Ours(p))]_vars
=============================================================================
