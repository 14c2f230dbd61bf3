------------------------ MODULE SessionFiles_proofs -------------------------
(***************************************************************************)
(* Theorems about the two files that a session leaves behind when it dies: *)
(* the scheduler lock of the project (SchedulerLock) and the transcript    *)
(* (TranscriptQueue).  Neither is used to prove anything about the other.  *)
(*                                                                         *)
(* SchedulerLock, for any set of processes, any assignment of sessions to  *)
(* them and any number of deaths.  The invariant IInv has three parts.     *)
(* Fresh: what has not started, or is gone, has nothing, and a session     *)
(* runs in one process.  NamesItsHolder is always so: no owner is inside   *)
(* an acquisition, and a lock names an owner, a process that is about to   *)
(* release it, or a dead one.  Sole is so until a lock is recovered:       *)
(* whoever fills the lock file, owns the scheduler and stays, or unlinks   *)
(* the lock is the one process that it is of, and one that may release it  *)
(* finds its session there only then.                                      *)
(*                                                                         *)
(* TranscriptQueue, for any number of entries, drains, flushes, tombstones *)
(* and failing appends.  The invariant TQInv has three parts.  Typed and   *)
(* Waits are always so.  Parted is so until a tombstone reads the file:    *)
(* what has left the queue is in the file, lost by a failed append, or in  *)
(* the batch of a drain that writes, and in one of them only.  Orderly is  *)
(* so while, besides, every append takes less than the timer and at most   *)
(* one flush is called (Calm): one drain writes at a time, after what the  *)
(* file holds, and what a flush is to write is kept or in its own batch.   *)
(***************************************************************************)
EXTENDS SchedulerLock, TranscriptQueue, FiniteSetTheorems, WellFoundedInduction,
        TLAPS

-----------------------------------------------------------------------------
(***************************************************************************)
(* SchedulerLock: the invariant.                                           *)
(***************************************************************************)

NamesItsHolder ==
    /\ \A p \in isOwner : pc[p] = "watch"
    /\ \A p \in Procs : lock = p => p \in isOwner
                                    \/ pc[p] \in Releasing \cup {"dead"}

Filling(p) == pc[p] = "fill"

Unlinking(p) == pc[p] = "relUnlink" \/ leave[p] = "relUnlink"

MayRelease(p) == \/ p \in isOwner \cup cleanup
                 \/ pc[p] \in Releasing \/ leave[p] \in Releasing

Sole ==
    /\ \A p \in Procs : pc[p] \notin {"retry", "refill"}
    /\ \A p \in Procs : Filling(p) => lock = Torn /\ p \in linked
    /\ \A p, q \in Procs : Filling(p) /\ Filling(q) => p = q
    /\ \A p \in Procs : p \in isOwner \ Leaving \/ Unlinking(p) => lock = p
    /\ \A p \in Procs : MayRelease(p) /\ Ours(p) => lock = p

Fresh ==
    /\ \A p \in Procs : pc[p] = "off" => p \notin stopped \cup ready
    /\ \A p \in Procs : ~Running(p) => leave[p] = "none" /\ p \notin cleanup
    /\ \A p, q \in Procs :
          Running(p) /\ Running(q) /\ SessionOf[p] = SessionOf[q] => p = q

IInv == TypeOK /\ Fresh /\ NamesItsHolder /\ (~recovered => Sole)

-----------------------------------------------------------------------------

\* Nothing is held in the initial state.
LEMMA InitInv == Init => IInv
<1> SUFFICES ASSUME Init
             PROVE  IInv
  OBVIOUS
<1>1. TypeOK
  <2>1. pc \in [Procs -> Places] /\ leave \in [Procs -> Leaves]
    BY DEF Init, Places, Leaves
  <2>2. crashes \in 0..MaxCrashes
    BY MaxCrashesAssumption DEF Init
  <2>3. lock = Nobody /\ linked = {} /\ ready = {} /\ isOwner = {}
        /\ stopped = {} /\ cleanup = {} /\ recovered = FALSE
    BY DEF Init
  <2>4. QED
    BY <2>1, <2>2, <2>3 DEF TypeOK
<1>2. \A p \in Procs : /\ lock # p /\ p \notin isOwner /\ p \notin cleanup
                       /\ pc[p] = "off" /\ leave[p] = "none"
  BY NobodyAssumption DEF Init
<1>3. isOwner = {}
  BY DEF Init
<1>4. NamesItsHolder
  BY <1>2, <1>3 DEF NamesItsHolder
<1>5. Sole
  BY <1>2 DEF Sole, Filling, Unlinking, MayRelease, Releasing
<1>6. Fresh
  BY <1>2 DEF Init, Fresh, Running
<1>7. QED
  BY <1>1, <1>4, <1>5, <1>6 DEF IInv

\* Every action keeps the types.
LEMMA TypeStep ==
    ASSUME TypeOK, [Next]_vars
    PROVE  TypeOK'
<1> USE MaxCrashesAssumption DEF TypeOK, shutdown
<1>1. CASE UNCHANGED vars
  BY <1>1 DEF vars
<1>2. ASSUME NEW p \in Procs,
             Start(p) \/ Enable(p) \/ Probe(p) \/ Unlink(p) \/ Reopen(p)
             \/ RelRead(p) \/ RelUnlink(p)
      PROVE  TypeOK'
  BY <1>2 DEF Start, Enable, Probe, Unlink, Reopen, RelRead, RelUnlink,
              Unlinks, Goes, Places, Acquiring, Releasing
<1>3. ASSUME NEW p \in Procs, Create(p)
      PROVE  TypeOK'
  BY <1>3 DEF Create, Acquired, NotAcquired, Goes, Places, Acquiring, Releasing
<1>4. ASSUME NEW p \in Procs, Fill(p)
      PROVE  TypeOK'
  BY <1>4 DEF Fill, Acquired, Goes, Places, Acquiring, Releasing
<1>5. ASSUME NEW p \in Procs, Read(p)
      PROVE  TypeOK'
  BY <1>5 DEF Read, Acquired, NotAcquired, Goes, Places, Acquiring, Releasing
<1>6. ASSUME NEW p \in Procs, Stop(p)
      PROVE  TypeOK'
  BY <1>6 DEF Stop, Places, Acquiring, Releasing
<1>7. ASSUME NEW p \in Procs, Shutdown(p) \/ LeaveRead(p) \/ LeaveUnlink(p)
      PROVE  TypeOK'
  BY <1>7 DEF Shutdown, LeaveRead, LeaveUnlink, Unlinks, LeaveGoes, Leaves
<1>8. ASSUME NEW p \in Procs, Dies(p), crashes' \in 0..MaxCrashes
      PROVE  TypeOK'
  BY <1>8 DEF Dies, LeaveGoes, Leaves, Goes, Places
<1>9. ASSUME NEW p \in Procs, ForceExit(p) \/ Exit(p) \/ Crash(p)
      PROVE  TypeOK'
  <2>1. Dies(p) /\ crashes' \in 0..MaxCrashes
    BY <1>9 DEF ForceExit, Exit, Crash
  <2>2. QED
    BY <2>1, <1>8
<1>10. QED
  BY <1>1, <1>2, <1>3, <1>4, <1>5, <1>6, <1>7, <1>9 DEF Next, Step, End

\* The three ways in which a process ends are one.
LEMMA EndIsDeath ==
    ASSUME NEW p \in Procs, IInv, ForceExit(p) \/ Exit(p) \/ Crash(p)
    PROVE  Dies(p) /\ Running(p)
<1>1. CASE ForceExit(p)
  BY <1>1 DEF ForceExit, IInv, Fresh
<1>2. CASE Exit(p) \/ Crash(p)
  BY <1>2 DEF Exit, Crash, Running
<1>3. QED
  BY <1>1, <1>2

-----------------------------------------------------------------------------

\* Only a process that has started stops, becomes ready, registers the
\* clean-up or shuts down; a session is resumed when its process is gone.
LEMMA FreshStep ==
    ASSUME IInv, [Next]_vars
    PROVE  Fresh'
<1> USE DEF IInv, TypeOK, Fresh, Running, shutdown
<1>1. CASE UNCHANGED vars
  BY <1>1 DEF vars
<1>2. ASSUME NEW p \in Procs, Start(p)
      PROVE  Fresh'
  BY <1>2 DEF Start, Goes
<1>3. ASSUME NEW p \in Procs,
             Enable(p) \/ Probe(p) \/ Unlink(p) \/ Reopen(p)
             \/ RelRead(p) \/ RelUnlink(p)
      PROVE  Fresh'
  BY <1>3 DEF Enable, Probe, Unlink, Reopen, RelRead, RelUnlink, Goes
<1>4. ASSUME NEW p \in Procs, Create(p) \/ Fill(p)
      PROVE  Fresh'
  BY <1>4 DEF Create, Fill, Acquired, NotAcquired, Goes
<1>5. ASSUME NEW p \in Procs, Read(p)
      PROVE  Fresh'
  BY <1>5 DEF Read, Acquired, NotAcquired, Goes
<1>6. ASSUME NEW p \in Procs, Stop(p)
      PROVE  Fresh'
  BY <1>6 DEF Stop, Acquiring
<1>7. ASSUME NEW p \in Procs, Shutdown(p)
      PROVE  Fresh'
  BY <1>7 DEF Shutdown, LeaveGoes
<1>8. ASSUME NEW p \in Procs, LeaveRead(p) \/ LeaveUnlink(p)
      PROVE  Fresh'
  BY <1>8 DEF LeaveRead, LeaveUnlink, LeaveGoes
<1>9. ASSUME NEW p \in Procs, ForceExit(p) \/ Exit(p) \/ Crash(p)
      PROVE  Fresh'
  <2>1. Dies(p)
    BY <1>9, EndIsDeath
  <2>2. QED
    BY <2>1 DEF Dies, LeaveGoes, Goes
<1>10. QED
  BY <1>1, <1>2, <1>3, <1>4, <1>5, <1>6, <1>7, <1>8, <1>9 DEF Next, Step, End

\* Whoever a lock names can give it up: only Fill puts a name there, and its
\* process becomes the owner or starts to release.  A shutdown takes the
\* name away or nothing.
LEMMA NamesStep ==
    ASSUME IInv, [Next]_vars
    PROVE  NamesItsHolder'
<1> USE NobodyAssumption DEF IInv, TypeOK, NamesItsHolder
<1>1. CASE UNCHANGED vars
  BY <1>1 DEF vars
<1>2. ASSUME NEW p \in Procs, Start(p) \/ Enable(p) \/ Probe(p)
      PROVE  NamesItsHolder'
  BY <1>2 DEF Start, Enable, Probe, Goes, Releasing
<1>3. ASSUME NEW p \in Procs, Create(p)
      PROVE  NamesItsHolder'
  BY <1>3 DEF Create, Acquired, NotAcquired, Goes, Releasing
<1>4. ASSUME NEW p \in Procs, Fill(p)
      PROVE  NamesItsHolder'
  BY <1>4 DEF Fill, Acquired, Goes, Releasing
<1>5. ASSUME NEW p \in Procs, Read(p)
      PROVE  NamesItsHolder'
  BY <1>5 DEF Read, Acquired, NotAcquired, Goes, Releasing
<1>6. ASSUME NEW p \in Procs, Unlink(p) \/ Reopen(p) \/ RelUnlink(p)
      PROVE  NamesItsHolder'
  BY <1>6 DEF Unlink, Reopen, RelUnlink, Unlinks, Goes, Releasing
<1>7. ASSUME NEW p \in Procs, RelRead(p)
      PROVE  NamesItsHolder'
  BY <1>7 DEF RelRead, Ours, Named, Goes, Releasing
<1>8. ASSUME NEW p \in Procs, Stop(p)
      PROVE  NamesItsHolder'
  BY <1>8 DEF Stop, Acquiring, Releasing
<1>9. ASSUME NEW p \in Procs, Shutdown(p) \/ LeaveRead(p) \/ LeaveUnlink(p)
      PROVE  NamesItsHolder'
  BY <1>9 DEF Shutdown, LeaveRead, LeaveUnlink, Unlinks
<1>10. ASSUME NEW p \in Procs, ForceExit(p) \/ Exit(p) \/ Crash(p)
       PROVE  NamesItsHolder'
  <2>1. Dies(p)
    BY <1>10, EndIsDeath
  <2>2. QED
    BY <2>1 DEF Dies, Goes, Releasing
<1>11. QED
  BY <1>1, <1>2, <1>3, <1>4, <1>5, <1>6, <1>7, <1>8, <1>9, <1>10
     DEF Next, Step, End

-----------------------------------------------------------------------------

\* Whoever may release a lock is running.
LEMMA ReleaserRuns ==
    ASSUME IInv, NEW p \in Procs, MayRelease(p)
    PROVE  Running(p)
BY DEF IInv, TypeOK, Fresh, NamesItsHolder, MayRelease, Running, Releasing

\* Until a lock is recovered, one that is unlinked was the lock of the one
\* process that unlinks it, and nobody else's.
LEMMA UnlinkerIsAlone ==
    ASSUME IInv, ~recovered, NEW p \in Procs, Unlinking(p)
    PROVE  /\ lock = p
           /\ \A q \in Procs \ {p} : /\ ~Filling(q) /\ ~Unlinking(q)
                                     /\ q \notin isOwner \ Leaving
BY NobodyAssumption DEF IInv, Sole

\* Until a lock is recovered, the one that created it has it to itself:
\* Create needs that there is none, and only its holder takes it away.
LEMMA SoleStep ==
    ASSUME IInv, [Next]_vars, ~recovered'
    PROVE  Sole'
<1> USE NobodyAssumption DEF IInv, TypeOK, NamesItsHolder, Sole, Filling,
        Unlinking, MayRelease, Leaving, Ours, Named, Releasing, shutdown
<1>1. CASE UNCHANGED vars
  BY <1>1 DEF vars
<1>2. ASSUME NEW p \in Procs, Start(p) \/ Enable(p) \/ Probe(p)
      PROVE  Sole'
  BY <1>2 DEF Start, Enable, Probe, Goes
<1>3. ASSUME NEW p \in Procs, Create(p)
      PROVE  Sole'
  <2>1. ~recovered /\ pc[p] = "create"
    BY <1>3 DEF Create
  <2>2. CASE lock = Nobody
    BY <1>3, <2>1, <2>2 DEF Create, NotAcquired, Goes
  <2>3. CASE lock # Nobody
    BY <1>3, <2>1, <2>3 DEF Create, NotAcquired, Goes
  <2>4. QED
    BY <2>2, <2>3
<1>4. ASSUME NEW p \in Procs, Fill(p)
      PROVE  Sole'
  <2>1. ~recovered /\ pc[p] = "fill" /\ lock = Torn /\ lock' = p
        /\ UNCHANGED <<leave, recovered>>
    BY <1>4 DEF Fill
  <2>2. Running(p) /\ \A q \in Procs : ~Filling(q)'
    BY <1>4, <2>1 DEF Fill, Acquired, Goes, Running
  <2>3. \A q \in Procs : q \notin isOwner \ Leaving /\ ~Unlinking(q)
    BY <2>1
  <2>4. \A q \in Procs \ {p} : /\ pc'[q] = pc[q]
                               /\ q \in isOwner' <=> q \in isOwner
                               /\ q \in cleanup' <=> q \in cleanup
    BY <1>4 DEF Fill, Acquired, Goes
  <2>5. ASSUME NEW q \in Procs \ {p}, MayRelease(q)
        PROVE  SessionOf[q] # SessionOf[p]
    BY ONLY IInv, <2>2, <2>5, ReleaserRuns DEF IInv, Fresh
  <2>6. \A q \in Procs : (MayRelease(q) /\ Ours(q))' => lock' = q
    BY <2>1, <2>4, <2>5
  <2>7. pc'[p] \in {"watch", "relRead"}
    BY <1>4 DEF Fill, Acquired, Goes
  <2>8. \A q \in Procs : (q \in isOwner \ Leaving \/ Unlinking(q))' => lock' = q
    BY <2>1, <2>3, <2>4
  <2>9. \A q \in Procs : pc'[q] \notin {"retry", "refill"}
    BY <2>1, <2>4, <2>7
  <2>10. QED
    BY <2>2, <2>6, <2>8, <2>9
<1>5. ASSUME NEW p \in Procs, Read(p)
      PROVE  Sole'
  <2>1. /\ ~recovered /\ pc[p] = "read" /\ lock # p
        /\ UNCHANGED <<lock, linked, leave, isOwner>>
    BY <1>5 DEF Read, Acquired, NotAcquired
  <2>2. /\ cleanup' = cleanup
        /\ \E place \in {"reopen", "unlink", "out", "watch"} : Goes(p, place)
    BY <1>5, <2>1 DEF Read, Acquired, NotAcquired
  <2>3. QED
    BY <2>1, <2>2 DEF Goes
<1>6. ASSUME NEW p \in Procs, Unlink(p) \/ Reopen(p)
      PROVE  Sole'
  BY <1>6 DEF Unlink, Reopen
<1>7. ASSUME NEW p \in Procs, RelRead(p)
      PROVE  Sole'
  BY <1>7 DEF RelRead, Goes
<1>8. ASSUME NEW p \in Procs, RelUnlink(p)
      PROVE  Sole'
  <2>1. ~recovered /\ pc[p] = "relUnlink" /\ leave[p] # "relUnlink"
    BY <1>8 DEF RelUnlink, Unlinks
  <2>2. \A q \in Procs \ {p} : ~Filling(q) /\ ~Unlinking(q)
                               /\ q \notin isOwner \ Leaving
    BY ONLY IInv, <2>1, UnlinkerIsAlone DEF Unlinking
  <2>3. QED
    BY <1>8, <2>1, <2>2 DEF RelUnlink, Unlinks, Goes
<1>9. ASSUME NEW p \in Procs, Stop(p)
      PROVE  Sole'
  BY <1>9 DEF Stop, Acquiring
<1>10. ASSUME NEW p \in Procs, Shutdown(p)
       PROVE  Sole'
  BY <1>10 DEF Shutdown, LeaveGoes
<1>11. ASSUME NEW p \in Procs, LeaveRead(p)
       PROVE  Sole'
  BY <1>11 DEF LeaveRead, LeaveGoes
<1>12. ASSUME NEW p \in Procs, LeaveUnlink(p)
       PROVE  Sole'
  <2>1. ~recovered /\ leave[p] = "relUnlink" /\ pc[p] # "relUnlink"
    BY <1>12 DEF LeaveUnlink, Unlinks
  <2>2. lock = p /\ \A q \in Procs \ {p} : ~Filling(q) /\ ~Unlinking(q)
                               /\ q \notin isOwner \ Leaving
    BY ONLY IInv, <2>1, UnlinkerIsAlone DEF Unlinking
  <2>3. QED
    BY <1>12, <2>1, <2>2 DEF LeaveUnlink, Unlinks, LeaveGoes
<1>13. ASSUME NEW p \in Procs, ForceExit(p) \/ Exit(p) \/ Crash(p)
       PROVE  Sole'
  <2>1. Dies(p)
    BY <1>13, EndIsDeath
  <2>2. QED
    BY <2>1 DEF Dies, LeaveGoes, Goes
<1>14. QED
  BY <1>1, <1>2, <1>3, <1>4, <1>5, <1>6, <1>7, <1>8, <1>9, <1>10, <1>11, <1>12,
     <1>13 DEF Next, Step, End

\* IInv holds in every reachable state.
THEOREM Inductive == Spec => []IInv
<1>1. Init => IInv
  BY InitInv
<1>2. IInv /\ [Next]_vars => IInv'
  BY TypeStep, FreshStep, NamesStep, SoleStep DEF IInv
<1>3. QED
  BY <1>1, <1>2, PTL DEF Spec

-----------------------------------------------------------------------------

\* Every variable stays in its set, and no stopped scheduler is an owner.
THEOREM TypeCorrect == Spec => []TypeOK
<1>1. IInv => TypeOK
  BY DEF IInv
<1>2. QED
  BY <1>1, Inductive, PTL

\* An owner that nobody took the lock from holds it, until the clean-up of
\* its own shutdown gives it away: cronTasksLock.ts 93, 182.
THEOREM OwnerHolds == Spec => []OwnerHoldsTheLock
<1>1. IInv => OwnerHoldsTheLock
  BY DEF IInv, TypeOK, Sole, OwnerHoldsTheLock
<1>2. QED
  BY <1>1, Inductive, PTL

\* Starting, probing, stopping and releasing alone never give the scheduler
\* to two sessions that stay, however many there are and however many are
\* shutting down: cronTasksLock.ts 93, 113.
THEOREM OneOwnerUntilRecovery == Spec => []SecondOwnerNeedsRecovery
<1>1. ASSUME IInv, ~recovered
      PROVE  Cardinality(isOwner \ Leaving) <= 1
  <2>1. isOwner \ Leaving \subseteq {lock}
    BY <1>1 DEF IInv, TypeOK, Sole
  <2>2. IsFiniteSet({lock}) /\ Cardinality({lock}) = 1
    BY FS_Singleton
  <2>3. Cardinality(isOwner \ Leaving) <= Cardinality({lock})
    BY <2>1, <2>2, FS_Subset
  <2>4. QED
    BY <2>2, <2>3
<1>2. IInv => SecondOwnerNeedsRecovery
  BY <1>1 DEF SecondOwnerNeedsRecovery
<1>3. QED
  BY <1>2, Inductive, PTL

\* A scheduler that has stopped leaves no lock that names its process, with
\* or without recoveries: the second check of isStopped in cronScheduler.ts.
THEOREM StopLeavesNothing == Spec => []StoppedLeavesNoLock
<1>1. IInv => StoppedLeavesNoLock
  BY DEF IInv, TypeOK, NamesItsHolder, StoppedLeavesNoLock, Releasing
<1>2. QED
  BY <1>1, Inductive, PTL

-----------------------------------------------------------------------------
(* SchedulerLock implements SchedulerOwner.                                *)

\* A session that fills the lock file may own the scheduler: until a lock is
\* recovered nobody does but those that are leaving.
LEMMA FillerMayOwn ==
    ASSUME IInv, NEW p \in Procs, pc[p] \in {"fill", "refill"}
    PROVE  p \notin isOwner /\ (isOwner \subseteq isOwner \cap Leaving \/ recovered)
<1>1. p \notin isOwner
  BY DEF IInv, NamesItsHolder, Releasing
<1>2. ASSUME ~recovered PROVE isOwner \subseteq isOwner \cap Leaving
  <2>1. lock = Torn
    BY <1>2 DEF IInv, Sole, Filling
  <2>2. QED
    BY <1>2, <2>1, NobodyAssumption DEF IInv, TypeOK, Sole
<1>3. QED
  BY <1>1, <1>2

\* A session that reads the lock is not the one it names.
LEMMA ReaderHoldsNoLock ==
    ASSUME IInv, NEW p \in Procs, pc[p] = "read"
    PROVE  lock # p
BY DEF IInv, NamesItsHolder, Releasing

\* The end of an acquisition is Ready or TakeOver, or changes nothing.
LEMMA AcquiredStep ==
    ASSUME IInv, NEW p \in Procs, NEW owned \in BOOLEAN, NEW registered,
           Acquired(p, owned, registered), pc[p] \in Acquiring, p \notin isOwner,
           owned => isOwner \subseteq isOwner \cap Leaving \/ recovered,
           UNCHANGED <<stopped, leave, recovered>>
    PROVE  [Owner!Next]_(Owner!vars)
<1> USE DEF IInv, TypeOK, Acquiring
<1>1. Leaving' = Leaving
  BY DEF Leaving
<1>2. CASE p \in stopped
  BY <1>1, <1>2 DEF Acquired, Goes, Stage, Owner!vars
<1>3. p \notin stopped => isOwner' = IF owned THEN isOwner \cup {p} ELSE isOwner
  BY DEF Acquired
<1>4. CASE p \notin stopped /\ owned
  <2>1. Owner!Owns(p)
    BY <1>1, <1>3, <1>4 DEF Owner!Owns, Owner!MayOwn
  <2>2. CASE p \in ready
    <3>1. Stage' = Stage /\ Stage[p] = "ready"
      BY <1>4, <2>2 DEF Acquired, Goes, Stage
    <3>2. Owner!TakeOver(p)
      BY <2>1, <3>1 DEF Owner!TakeOver
    <3>3. QED
      BY <3>2 DEF Owner!Next
  <2>3. CASE p \notin ready
    <3>1. Stage[p] = "starting" /\ Stage' = [Stage EXCEPT ![p] = "ready"]
      BY <1>4, <2>3 DEF Acquired, Goes, Stage
    <3>2. Owner!Ready(p)
      BY <2>1, <3>1 DEF Owner!Ready, Owner!Goes
    <3>3. QED
      BY <3>2 DEF Owner!Next
  <2>4. QED
    BY <2>2, <2>3
<1>5. CASE p \notin stopped /\ ~owned
  <2>1. UNCHANGED <<isOwner, isOwner \cap Leaving>>
    BY <1>1, <1>3, <1>5
  <2>2. CASE p \in ready
    <3>1. Stage' = Stage
      BY <1>5, <2>2 DEF Acquired, Goes, Stage
    <3>2. QED
      BY <2>1, <3>1 DEF Owner!vars
  <2>3. CASE p \notin ready
    <3>1. Stage[p] = "starting" /\ Stage' = [Stage EXCEPT ![p] = "ready"]
      BY <1>5, <2>3 DEF Acquired, Goes, Stage
    <3>2. Owner!Ready(p)
      BY <2>1, <3>1 DEF Owner!Ready, Owner!Goes
    <3>3. QED
      BY <3>2 DEF Owner!Next
  <2>4. QED
    BY <2>2, <2>3
<1>6. QED
  BY <1>2, <1>4, <1>5

\* A step of a shutdown gives an owner's place away, or changes nothing that
\* SchedulerOwner knows; the second of two releases is a recovery.
LEMMA ShutdownStep ==
    ASSUME IInv, NEW p \in Procs, Shutdown(p) \/ LeaveRead(p) \/ LeaveUnlink(p)
    PROVE  [Owner!Next]_(Owner!vars)
<1> USE DEF IInv, TypeOK
<1>1. UNCHANGED <<pc, ready, stopped, isOwner>>
  BY DEF Shutdown, LeaveRead, LeaveUnlink
<1>2. Stage' = Stage
  BY <1>1 DEF Stage
<1>3. Leaving' \in {Leaving, Leaving \cup {p}}
  BY DEF Shutdown, LeaveRead, LeaveUnlink, LeaveGoes, Leaving
<1>4. recovered' = recovered \/ (pc[p] = "relUnlink" /\ recovered' = TRUE)
  BY DEF Shutdown, LeaveRead, LeaveUnlink, Unlinks, LeaveGoes
<1>5. CASE p \in isOwner
  <2>1. recovered' = recovered
    BY <1>4, <1>5 DEF NamesItsHolder
  <2>2. CASE Leaving' = Leaving
    BY <1>1, <1>2, <2>1, <2>2 DEF Owner!vars
  <2>3. CASE Leaving' = Leaving \cup {p}
    <3>1. Owner!Leave(p)
      BY <1>1, <1>2, <1>5, <2>1, <2>3 DEF Owner!Leave
    <3>2. QED
      BY <3>1 DEF Owner!Next
  <2>4. QED
    BY <1>3, <2>2, <2>3
<1>6. CASE p \notin isOwner
  <2>1. UNCHANGED <<isOwner, isOwner \cap Leaving>>
    BY <1>1, <1>3, <1>6
  <2>2. CASE recovered' = recovered
    BY <1>2, <2>1, <2>2 DEF Owner!vars
  <2>3. CASE recovered' # recovered
    <3>1. Owner!Recover
      BY <1>2, <1>4, <2>1, <2>3 DEF Owner!Recover
    <3>2. QED
      BY <3>1 DEF Owner!Next
  <2>4. QED
    BY <2>2, <2>3
<1>7. QED
  BY <1>5, <1>6

LEMMA OwnerStep ==
    ASSUME IInv, [Next]_vars
    PROVE  [Owner!Next]_(Owner!vars)
<1> USE DEF IInv, TypeOK, Fresh, NamesItsHolder, shutdown
<1>1. CASE UNCHANGED vars
  BY <1>1 DEF vars, Stage, Leaving, Owner!vars
<1>2. ASSUME NEW p \in Procs, Start(p)
      PROVE  Owner!Next
  <2>1. Stage[p] = "off" /\ Stage' = [Stage EXCEPT ![p] = "starting"]
    BY <1>2 DEF Start, Goes, Stage
  <2>2. Owner!Start(p)
    BY <1>2, <2>1 DEF Start, Leaving, Owner!Start, Owner!Goes
  <2>3. QED
    BY <2>2 DEF Owner!Next
<1>3. ASSUME NEW p \in Procs, Enable(p) \/ Probe(p) \/ RelRead(p)
      PROVE  UNCHANGED Owner!vars
  BY <1>3 DEF Enable, Probe, RelRead, Goes, Stage, Leaving, Owner!vars
<1>4. ASSUME NEW p \in Procs, Create(p)
      PROVE  [Owner!Next]_(Owner!vars)
  <2>1. pc[p] \in Acquiring /\ p \notin isOwner
    BY <1>4 DEF Create, Acquiring
  <2>2. UNCHANGED <<stopped, leave, recovered>>
    BY <1>4 DEF Create
  <2>3. CASE Acquired(p, FALSE, cleanup)
    BY <2>1, <2>2, <2>3, AcquiredStep
  <2>4. CASE ~Acquired(p, FALSE, cleanup)
    BY <1>4, <2>4 DEF Create, NotAcquired, Goes, Stage, Leaving, Owner!vars
  <2>5. QED
    BY <2>3, <2>4
<1>5. ASSUME NEW p \in Procs, Fill(p)
      PROVE  [Owner!Next]_(Owner!vars)
  <2>1. p \notin isOwner /\ (isOwner \subseteq isOwner \cap Leaving \/ recovered)
    <3>1. pc[p] \in {"fill", "refill"}
      BY <1>5 DEF Fill
    <3>2. QED
      BY ONLY IInv, <3>1, FillerMayOwn
  <2>2. pc[p] \in Acquiring
    BY <1>5 DEF Fill, Acquiring
  <2>3. Acquired(p, TRUE, cleanup \cup {p}) /\ UNCHANGED <<stopped, leave, recovered>>
    BY <1>5 DEF Fill
  <2>4. QED
    BY <2>1, <2>2, <2>3, AcquiredStep
<1>6. ASSUME NEW p \in Procs, Read(p)
      PROVE  [Owner!Next]_(Owner!vars)
  <2>1. pc[p] \in Acquiring /\ p \notin isOwner
    BY <1>6 DEF Read, Acquiring
  <2>2. lock # p
    <3>1. pc[p] = "read"
      BY <1>6 DEF Read
    <3>2. QED
      BY ONLY IInv, <3>1, ReaderHoldsNoLock
  <2>3. UNCHANGED <<stopped, leave, recovered>>
    BY <1>6 DEF Read
  <2>4. CASE Acquired(p, FALSE, cleanup)
    BY <2>1, <2>3, <2>4, AcquiredStep
  <2>5. CASE ~Acquired(p, FALSE, cleanup)
    BY <1>6, <2>2, <2>5 DEF Read, NotAcquired, Goes, Stage, Leaving, Owner!vars
  <2>6. QED
    BY <2>4, <2>5
<1>7. ASSUME NEW p \in Procs, Unlink(p) \/ Reopen(p)
      PROVE  Owner!Next
  <2>1. Stage' = Stage
    BY <1>7 DEF Unlink, Reopen, Goes, Stage
  <2>2. Owner!Recover
    BY <1>7, <2>1 DEF Unlink, Reopen, Leaving, Owner!Recover
  <2>3. QED
    BY <2>2 DEF Owner!Next
<1>8. ASSUME NEW p \in Procs, RelUnlink(p)
      PROVE  [Owner!Next]_(Owner!vars)
  <2>1. Stage' = Stage
    BY <1>8 DEF RelUnlink, Goes, Stage
  <2>2. UNCHANGED <<isOwner, leave>> /\ recovered' \in {recovered, TRUE}
    BY <1>8 DEF RelUnlink, Unlinks
  <2>3. UNCHANGED <<Stage, isOwner, isOwner \cap Leaving>>
    BY <2>1, <2>2 DEF Leaving
  <2>4. CASE recovered' = recovered
    BY <2>3, <2>4 DEF Owner!vars
  <2>5. CASE recovered' = TRUE
    <3>1. Owner!Recover
      BY <2>3, <2>5 DEF Owner!Recover
    <3>2. QED
      BY <3>1 DEF Owner!Next
  <2>6. QED
    BY <2>2, <2>4, <2>5
<1>9. ASSUME NEW p \in Procs, Stop(p)
      PROVE  Owner!Next
  <2>1. Stage[p] \in {"starting", "ready"}
        /\ Stage' = [Stage EXCEPT ![p] = "stopped"]
    <3>1. /\ pc[p] \notin {"off", "dead"} /\ p \notin stopped
          /\ stopped' = stopped \cup {p} /\ ready' = ready
      BY ONLY <1>9 DEF Stop, Acquiring
    <3>2. /\ pc'[p] \notin {"off", "dead"}
          /\ \A q \in Procs \ {p} : pc'[q] = pc[q]
      BY <1>9 DEF Stop, Acquiring
    <3>3. Stage[p] \in {"starting", "ready"} /\ Stage'[p] = "stopped"
      BY <3>1, <3>2 DEF Stage
    <3>4. \A q \in Procs \ {p} : Stage'[q] = Stage[q]
      BY <3>1, <3>2 DEF Stage
    <3>5. /\ Stage = [q \in Procs |-> Stage[q]]
          /\ Stage' = [q \in Procs |-> Stage'[q]]
      BY ONLY DEF Stage
    <3>6. QED
      BY ONLY <3>3, <3>4, <3>5
  <2>2. isOwner' = isOwner \ {p} /\ Leaving' = Leaving /\ recovered' = recovered
    BY ONLY <1>9 DEF Stop, Leaving
  <2>3. Owner!Stop(p)
    BY <2>1, <2>2 DEF Owner!Stop, Owner!Goes, Owner!NoOwner
  <2>4. QED
    BY <2>3 DEF Owner!Next
<1>10. ASSUME NEW p \in Procs, Shutdown(p) \/ LeaveRead(p) \/ LeaveUnlink(p)
       PROVE  [Owner!Next]_(Owner!vars)
  BY ONLY IInv, <1>10, ShutdownStep
<1>11. ASSUME NEW p \in Procs, ForceExit(p) \/ Exit(p) \/ Crash(p)
       PROVE  Owner!Next
  <2>1. Dies(p) /\ Running(p)
    BY ONLY IInv, <1>11, EndIsDeath
  <2>2. Stage[p] \in {"starting", "ready", "stopped"}
    BY <2>1 DEF Running, Stage
  <2>3. Stage' = [Stage EXCEPT ![p] = "gone"]
    BY <2>1 DEF Running, Dies, Goes, Stage
  <2>4. Leaving' = Leaving \ {p} /\ isOwner' = isOwner \ {p} /\ recovered' = recovered
    BY <2>1 DEF Dies, LeaveGoes, Leaving
  <2>5. Owner!End(p)
    BY <2>2, <2>3, <2>4 DEF Owner!End, Owner!Up, Owner!Goes, Owner!NoOwner
  <2>6. QED
    BY <2>5 DEF Owner!Next
<1>12. QED
  BY <1>1, <1>2, <1>3, <1>4, <1>5, <1>6, <1>7, <1>8, <1>9, <1>10, <1>11
     DEF Next, Step, End

\* The lock keeps the promise of SchedulerOwner, on which CronTasks builds:
\* until a lock is recovered at most one session gets the tasks, beside those
\* that are leaving.
THEOREM RefinesOwner == Spec => ImplementsOwner
<1>1. Init => Owner!Init
  BY DEF Init, Stage, Leaving, Owner!Init
<1>2. IInv /\ [Next]_vars => [Owner!Next]_(Owner!vars)
  BY OwnerStep
<1>3. QED
  BY <1>1, <1>2, Inductive, PTL DEF Spec, ImplementsOwner, Owner!Spec

-----------------------------------------------------------------------------
(***************************************************************************)
(* TranscriptQueue: the invariant.                                         *)
(***************************************************************************)

Lines == Entries \cup {Hole}
WriterPcs == {"idle", "waiting", "woken", "writing", "landed", "tracked",
              "done", "failed"}
WriterStates == [pc : WriterPcs, batch : Seq(Entries), wait : Timers \cup {None},
                 need : SUBSET Entries]
CutStates == [pc : {"idle", "read", "truncated", "closing", "done"},
              target : Lines, pos : Nat \ {0}, rest : Seq(Lines)]

\* The queue holds what was queued last, in order.
QueueTyped ==
    /\ made \in 0 .. NumEntries
    /\ queue \in Seq(Entries)
    /\ Len(queue) <= made
    /\ \A i \in 1 .. Len(queue) : queue[i] = made - Len(queue) + i

Typed ==
    /\ QueueTyped
    /\ timer \in BOOLEAN /\ swift \in BOOLEAN
    /\ active \in Timers \cup {None, Failed}
    /\ writer \in [Writers -> WriterStates]
    /\ cut \in [Tombstones -> CutStates]
    /\ file \in Seq(Lines)
    /\ lost \subseteq Entries /\ faults \in 0 .. MaxFaults

\* Only a flush waits, for the drain of a timer.
Waits ==
    /\ \A w \in Timers : writer[w].pc \in {"idle", "writing", "landed"}
    /\ \A w \in Writers : writer[w].wait # None => writer[w].pc = "waiting"

In(s, e) == \E i \in 1 .. Len(s) : s[i] = e
Distinct(s) == \A i, j \in 1 .. Len(s) : s[i] = s[j] => i = j
Sorted(s) == \A i, j \in 1 .. Len(s) : i < j => s[i] < s[j]

\* What has left the queue, and what a drain is about to write.
Taken == 1 .. made - Len(queue)
Holds(w, e) == writer[w].pc = "writing" /\ In(writer[w].batch, e)
Kept(e) == In(file, e) \/ e \in lost

\* What has left the queue is in one place.
Parted ==
    /\ Distinct(file) /\ \A i \in 1 .. Len(file) : file[i] \in Taken
    /\ lost \subseteq Taken
    /\ \A w \in Writers : writer[w].pc = "writing" =>
          \A i \in 1 .. Len(writer[w].batch) : writer[w].batch[i] \in Taken
    /\ \A w \in Writers : writer[w].pc = "writing" => Distinct(writer[w].batch)
    /\ \A e \in Taken : Kept(e) \/ \E w \in Writers : Holds(w, e)
    /\ \A e \in Taken : ~(In(file, e) /\ e \in lost)
    /\ \A e \in Taken, w \in Writers : Holds(w, e) => ~Kept(e)
    /\ \A e \in Taken, v, w \in Writers : Holds(v, e) /\ Holds(w, e) => v = w

\* One drain writes at a time, and what flush() waits for is that drain.
OneWrites ==
    /\ \A v, w \in Writers : Writing(v) /\ Writing(w) => v = w
    /\ \A w \in Timers : Writing(w) <=> active = w
    /\ \A f \in Flushers : writer[f].pc = "waiting" =>
          writer[f].wait = active /\ active \in Timers
    /\ \A f \in Flushers : writer[f].pc = "woken" => \A w \in Writers : ~Writing(w)
    /\ \A f \in Flushers : writer[f].pc # "tracked"

\* It writes after what the file holds.
InOrder ==
    /\ Sorted(file)
    /\ \A w \in Writers : writer[w].pc = "writing" =>
          /\ Sorted(writer[w].batch)
          /\ \A i \in 1 .. Len(file), j \in 1 .. Len(writer[w].batch) :
                file[i] < writer[w].batch[j]

\* What a flush is to write is in the file, lost, or in its own batch.
Needs(f) == \A e \in writer[f].need :
    /\ e \in 1 .. made
    /\ writer[f].pc = "writing" => Kept(e) \/ Holds(f, e)
    /\ writer[f].pc \in {"landed", "done"} => Kept(e)
Durable == \A f \in Flushers : Needs(f)

Orderly == OneWrites /\ InOrder /\ Durable

TQInv == /\ Typed /\ Waits
         /\ Untouched => Parted
         /\ Calm => Orderly

-----------------------------------------------------------------------------
(***************************************************************************)
(* The data.                                                               *)
(***************************************************************************)

LEMMA UnusedIs ==
    /\ Unused \in WriterStates
    /\ Unused.pc = "idle" /\ Unused.wait = None /\ Unused.need = {}
    /\ Unused.batch = <<>>
BY DEF Unused, WriterStates, WriterPcs

\* A drain that is over has no batch.
LEMMA EmptyBatch ==
    ASSUME NEW s \in WriterStates, NEW at \in WriterPcs
    PROVE  [s EXCEPT !.pc = at, !.batch = <<>>] \in WriterStates
<1>1. <<>> \in Seq(Entries)
  OBVIOUS
<1> QED BY <1>1 DEF WriterStates

LEMMA UncutIs ==
    Uncut \in CutStates /\ Uncut.pc = "idle" /\ Uncut.rest = <<>> /\ Uncut.pos = 1
BY DEF Uncut, CutStates, Lines

\* A set of numbers with a member has a least one.
LEMMA LeastExists ==
    ASSUME NEW S, S \subseteq Nat, S # {}
    PROVE  \E i \in S : \A j \in S : i <= j
<1>1. IsWellFoundedOn(OpToRel(<, Nat), Nat)
  BY NatLessThanWellFounded
<1>2. PICK i \in S : \A j \in S : ~(<<j, i>> \in OpToRel(<, Nat))
  BY <1>1, WFMin, Zenon
<1>3. \A j \in S : ~(j < i)
  BY <1>2 DEF OpToRel
<1> QED BY <1>3

\* A set of numbers up to n with a member has a greatest one.
LEMMA GreatestExists ==
    ASSUME NEW n \in Nat, NEW S, S \subseteq 1 .. n, S # {}
    PROVE  \E i \in S : \A j \in S : j <= i
<1> DEFINE T == {n - i : i \in S}
<1>1. T \subseteq Nat
  OBVIOUS
<1>2. T # {}
  OBVIOUS
<1>3. PICK k \in T : \A m \in T : k <= m
  BY <1>1, <1>2, LeastExists, Zenon
<1>4. PICK i \in S : k = n - i
  BY <1>3
<1>5. \A j \in S : n - i <= n - j
  BY <1>3, <1>4
<1> QED BY <1>5

\* An element of a sequence has a last place in it.
LEMMA LastInIs ==
    ASSUME NEW S, NEW s \in Seq(S), NEW e, e \in Range(s)
    PROVE  LastIn(s, e) \in 1 .. Len(s)
<1> DEFINE P(i) == s[i] = e /\ \A j \in DOMAIN s : s[j] = e => j <= i
           T == {i \in 1 .. Len(s) : s[i] = e}
<1>1. DOMAIN s = 1 .. Len(s) /\ Len(s) \in Nat
  OBVIOUS
<1>2. T # {}
  BY <1>1 DEF Range
<1>3. PICK i \in T : \A j \in T : j <= i
  BY <1>1, <1>2, GreatestExists
<1>4. \E x \in DOMAIN s : P(x)
  BY <1>1, <1>3
<1> HIDE DEF P
<1>5. LastIn(s, e) = CHOOSE x \in DOMAIN s : P(x)
  BY Zenon DEF LastIn, P
<1>6. (CHOOSE x \in DOMAIN s : P(x)) \in DOMAIN s
  BY <1>4, Zenon
<1> QED BY <1>1, <1>5, <1>6

LEMMA BeforeIs ==
    ASSUME NEW S, NEW s \in Seq(S), NEW e
    PROVE  /\ \A i \in 0 .. Len(s) : Before(s, e, i) \in Nat
           /\ Before(s, e, 0) = 0
           /\ \A i \in 1 .. Len(s) : Before(s, e, i) =
                 IF s[i] # e THEN Before(s, e, i - 1) + 1 ELSE Before(s, e, i - 1)
<1> DEFINE B(i) == {j \in 1 .. i : s[j] # e}
<1>1. \A i \in 0 .. Len(s) : IsFiniteSet(B(i)) /\ Cardinality(B(i)) \in Nat
  <2> TAKE i \in 0 .. Len(s)
  <2>1. IsFiniteSet(1 .. i)
    BY FS_Interval
  <2> QED BY <2>1, FS_Subset, FS_CardinalityType
<1>2. B(0) = {}
  OBVIOUS
<1>3. ASSUME NEW i \in 1 .. Len(s)
      PROVE  /\ s[i] # e => B(i) = B(i - 1) \cup {i} /\ i \notin B(i - 1)
             /\ s[i] = e => B(i) = B(i - 1)
             /\ i - 1 \in 0 .. Len(s)
  OBVIOUS
<1>4. ASSUME NEW i \in 1 .. Len(s)
      PROVE  Cardinality(B(i)) = IF s[i] # e THEN Cardinality(B(i - 1)) + 1
                                 ELSE Cardinality(B(i - 1))
  <2> HIDE DEF B
  <2>1. IsFiniteSet(B(i - 1))
    BY <1>1, <1>3
  <2>2. CASE s[i] = e
    BY <1>3, <2>2
  <2>3. CASE s[i] # e
    <3>1. B(i) = B(i - 1) \cup {i} /\ i \notin B(i - 1)
      BY <1>3, <2>3
    <3>2. Cardinality(B(i - 1) \cup {i}) = Cardinality(B(i - 1)) + 1
      BY <2>1, <3>1, FS_AddElement
    <3> QED BY <2>3, <3>1, <3>2
  <2> QED BY <2>2, <2>3
<1> QED BY <1>1, <1>2, <1>4, FS_EmptySet DEF Before

\* What is left of a sequence of lines is one.
LEMMA WithoutIs ==
    ASSUME NEW S, NEW s \in Seq(S), NEW e
    PROVE  Without(s, e) \in Seq(S)
<1> DEFINE b(i) == Before(s, e, i)
           P(i, k) == s[i] # e /\ b(i) = k
<1>1. DOMAIN s = 1 .. Len(s) /\ Len(s) \in Nat
  OBVIOUS
<1>2. /\ \A i \in 0 .. Len(s) : b(i) \in Nat
      /\ b(0) = 0
      /\ \A i \in 1 .. Len(s) : b(i) = IF s[i] # e THEN b(i - 1) + 1 ELSE b(i - 1)
  BY BeforeIs, Zenon
<1> HIDE DEF b
<1>3. ASSUME NEW k \in 1 .. b(Len(s))
      PROVE  \E i \in DOMAIN s : P(i, k)
  <2> DEFINE T == {i \in 0 .. Len(s) : k <= b(i)}
  <2>1. T \subseteq Nat /\ Len(s) \in T
    BY <1>1, <1>2
  <2>2. PICK i \in T : \A j \in T : i <= j
    BY <2>1, LeastExists, Zenon
  <2>3. i # 0
    BY <1>2, <2>2
  <2>4. i \in 1 .. Len(s) /\ i - 1 \in 0 .. Len(s) /\ i - 1 \notin T
    BY <1>1, <2>2, <2>3
  <2>5. b(i - 1) < k /\ k <= b(i) /\ b(i - 1) \in Nat /\ b(i) \in Nat
    BY <1>2, <2>2, <2>4
  <2> QED BY <1>1, <1>2, <2>4, <2>5
<1>4. \A k \in 1 .. b(Len(s)) : s[CHOOSE i \in DOMAIN s : P(i, k)] \in S
  <2> TAKE k \in 1 .. b(Len(s))
  <2>1. (CHOOSE i \in DOMAIN s : P(i, k)) \in DOMAIN s
    BY <1>3, Zenon
  <2> QED BY <1>1, <2>1
<1>5. b(Len(s)) \in Nat
  BY <1>1, <1>2
<1>6. Without(s, e) = [k \in 1 .. b(Len(s)) |-> s[CHOOSE i \in DOMAIN s : P(i, k)]]
  BY Zenon DEF Without, b
<1> HIDE DEF P
<1>7. [k \in 1 .. b(Len(s)) |-> s[CHOOSE i \in DOMAIN s : P(i, k)]]
          \in [1 .. b(Len(s)) -> S]
  BY <1>4, Zenon
<1>8. [1 .. b(Len(s)) -> S] \subseteq Seq(S)
  BY <1>5
<1> QED BY <1>6, <1>7, <1>8
-----------------------------------------------------------------------------
(***************************************************************************)
(* Types.                                                                  *)
(***************************************************************************)

LEMMA NoneIs == None \notin Timers /\ Failed \notin Timers /\ Failed # None
BY TranscriptAssumption DEF Writers

LEMMA WriterIs ==
    ASSUME Typed, NEW w \in Writers
    PROVE  /\ writer[w] \in WriterStates
           /\ writer[w].pc \in WriterPcs /\ writer[w].batch \in Seq(Entries)
           /\ writer[w].wait \in Timers \cup {None} /\ writer[w].need \subseteq Entries
BY DEF Typed, WriterStates

\* A drain begins with all of the queue.
LEMMA BegunTyped ==
    ASSUME Typed, NEW w \in Writers, NEW s \in WriterStates, Begun(w, s), UNCHANGED made
    PROVE  QueueTyped' /\ writer' \in [Writers -> WriterStates]
BY DEF Typed, QueueTyped, Begun

LEMMA DrainedTyped ==
    ASSUME Typed, NEW f \in Writers, NEW s \in WriterStates, Drained(f, s), UNCHANGED made
    PROVE  QueueTyped' /\ writer' \in [Writers -> WriterStates]
<1>1. ASSUME NEW at \in WriterPcs
      PROVE  [s EXCEPT !.pc = at] \in WriterStates
  BY DEF WriterStates
<1>2. CASE queue = <<>>
  <2>1. (IF Tracked THEN "tracked" ELSE "done") \in WriterPcs
    BY DEF WriterPcs
  <2>2. UNCHANGED queue
        /\ writer' = [writer EXCEPT ![f] =
                         [s EXCEPT !.pc = IF Tracked THEN "tracked" ELSE "done"]]
    BY <1>2 DEF Drained
  <2> QED BY <1>1, <2>1, <2>2 DEF Typed, QueueTyped
<1>3. CASE queue # <<>>
  <2>1. [s EXCEPT !.pc = "writing", !.batch = queue] \in WriterStates
    BY DEF WriterStates, WriterPcs, Typed, QueueTyped
  <2> QED BY <1>3, <2>1, BegunTyped DEF Drained
<1> QED BY <1>2, <1>3

LEMMA Append1Typed == ASSUME Typed, Append1 PROVE Typed'
<1>1. /\ made \in Nat /\ Len(queue) \in Nat /\ made + 1 \in Entries
      /\ made + 1 \in 0 .. NumEntries /\ made' = made + 1
  BY TranscriptAssumption DEF Append1, Typed, QueueTyped, Entries
<1>2. queue' = Append(queue, made + 1) /\ queue \in Seq(Entries)
  BY <1>1 DEF Append1, Typed, QueueTyped
<1>3. queue' \in Seq(Entries) /\ Len(queue') = Len(queue) + 1
  BY <1>1, <1>2
<1>4. \A i \in 1 .. Len(queue') : queue'[i] = made' - Len(queue') + i
  <2> TAKE i \in 1 .. Len(queue')
  <2>1. CASE i \in 1 .. Len(queue)
    <3>1. queue'[i] = queue[i]
      BY <1>2, <2>1
    <3>2. queue[i] = made - Len(queue) + i
      BY <2>1 DEF Typed, QueueTyped
    <3> QED BY <1>1, <1>2, <1>3, <2>1, <3>1, <3>2
  <2>2. CASE i = Len(queue) + 1
    <3>1. queue'[i] = made + 1
      BY <1>1, <1>2, <2>2
    <3> QED BY <1>1, <1>2, <1>3, <2>2, <3>1
  <2> QED BY <1>2, <1>3, <2>1, <2>2
<1>5. QueueTyped'
  BY <1>1, <1>3, <1>4 DEF Typed, QueueTyped
<1> QED BY <1>5 DEF Append1, Typed

LEMMA FireTyped == ASSUME Typed, NEW w \in Timers, Fire(w) PROVE Typed'
<1>1. CASE queue = <<>>
  BY <1>1 DEF Fire, Typed, QueueTyped
<1>2. CASE queue # <<>>
  <2>1. [Unused EXCEPT !.pc = "writing", !.batch = queue] \in WriterStates
    BY UnusedIs DEF WriterStates, WriterPcs, Typed, QueueTyped
  <2>2. w \in Writers
    BY DEF Writers
  <2>3. QueueTyped' /\ writer' \in [Writers -> WriterStates]
    BY <1>2, <2>1, <2>2, BegunTyped DEF Fire
  <2> QED BY <1>2, <2>3 DEF Fire, Typed
<1> QED BY <1>1, <1>2

LEMMA LandTyped == ASSUME Typed, NEW w \in Writers, Land(w) PROVE Typed'
<1>1. file' \in Seq(Lines)
  BY WriterIs DEF Land, Typed, Lines
<1>2. writer' \in [Writers -> WriterStates]
  BY DEF Land, Typed, WriterStates, WriterPcs
<1> QED BY <1>1, <1>2 DEF Land, Typed, QueueTyped

LEMMA WokenTyped ==
    ASSUME Typed, NEW w, NEW at \in WriterPcs
    PROVE  Woken(w, at) \in [Writers -> WriterStates]
BY DEF Typed, Woken, WriterStates

LEMMA ResolveTyped == ASSUME Typed, NEW w \in Writers, Resolve(w) PROVE Typed'
<1>1. writer' \in [Writers -> WriterStates]
  <2>1. CASE w \in Timers
    <3>1. Woken(w, "woken") \in [Writers -> WriterStates]
      BY WokenTyped DEF WriterPcs
    <3> QED BY <2>1, <3>1, UnusedIs DEF Resolve
  <2>2. CASE w \notin Timers
    <3>1. Flushed(w) \in WriterStates
      <4>1. (IF Tracked THEN "tracked" ELSE "done") \in WriterPcs
        BY DEF WriterPcs
      <4> QED BY <4>1, WriterIs, EmptyBatch DEF Flushed
    <3> QED BY <2>2, <3>1 DEF Resolve, Typed
  <2> QED BY <2>1, <2>2
<1> QED BY <1>1 DEF Resolve, Typed, QueueTyped

LEMMA FaultTyped == ASSUME Typed, NEW w \in Writers, Fault(w) PROVE Typed'
<1>1. writer' \in [Writers -> WriterStates]
  <2>1. CASE w \in Timers
    <3>1. Woken(w, "failed") \in [Writers -> WriterStates]
      BY WokenTyped DEF WriterPcs
    <3> QED BY <2>1, <3>1, UnusedIs DEF Fault
  <2>2. CASE w \notin Timers
    <3>1. [writer[w] EXCEPT !.pc = "failed", !.batch = <<>>] \in WriterStates
      BY WriterIs, EmptyBatch DEF WriterPcs
    <3>2. writer' = [writer EXCEPT ![w] =
                        [writer[w] EXCEPT !.pc = "failed", !.batch = <<>>]]
      BY <2>2 DEF Fault, Typed
    <3> QED BY <3>1, <3>2 DEF Typed
  <2> QED BY <2>1, <2>2
<1>2. Range(writer[w].batch) \subseteq Entries
  BY WriterIs DEF Range
<1>3. faults' \in 0 .. MaxFaults
  BY TranscriptAssumption DEF Fault, Typed
<1> QED BY <1>1, <1>2, <1>3 DEF Fault, Typed, QueueTyped

LEMMA CalledIs ==
    ASSUME Typed
    PROVE  /\ Called \in WriterStates /\ Called.need = 1 .. made
           /\ Called.wait = None /\ Called.batch = <<>>
<1>1. 1 .. made \subseteq Entries
  BY TranscriptAssumption DEF Typed, QueueTyped, Entries
<1> QED BY <1>1, UnusedIs DEF Called, WriterStates

LEMMA FlushTyped == ASSUME Typed, NEW f \in Flushers, Flush(f) PROVE Typed'
<1>1. f \in Writers /\ Called \in WriterStates
  BY CalledIs DEF Writers
<1>2. QueueTyped' /\ writer' \in [Writers -> WriterStates]
  <2>1. CASE active = None
    <3>1. Drained(f, Called) /\ UNCHANGED made
      BY <2>1, NoneIs DEF Flush
    <3> QED BY <1>1, <3>1, DrainedTyped
  <2>2. CASE active = Failed
    <3>1. [Called EXCEPT !.pc = "failed"] \in WriterStates
      BY <1>1 DEF WriterStates, WriterPcs
    <3> QED BY <2>2, <3>1, NoneIs DEF Flush, Typed, QueueTyped
  <2>3. CASE active \in Timers
    <3>1. [Called EXCEPT !.pc = "waiting", !.wait = active] \in WriterStates
      BY <1>1, <2>3 DEF WriterStates, WriterPcs
    <3>2. UNCHANGED <<queue, made>>
          /\ writer' = [writer EXCEPT ![f] =
                           [Called EXCEPT !.pc = "waiting", !.wait = active]]
      BY <2>3, NoneIs DEF Flush
    <3> QED BY <3>1, <3>2 DEF Typed, QueueTyped
  <2> QED BY <2>1, <2>2, <2>3 DEF Typed
<1> QED BY <1>2 DEF Flush, Typed

LEMMA FlushWokenTyped == ASSUME Typed, NEW f \in Flushers, FlushWoken(f) PROVE Typed'
<1>1. f \in Writers
  BY DEF Writers
<1>2. QueueTyped' /\ writer' \in [Writers -> WriterStates]
  BY <1>1, WriterIs, DrainedTyped DEF FlushWoken
<1> QED BY <1>2 DEF FlushWoken, Typed

LEMMA CutIs ==
    ASSUME Typed, NEW t \in Tombstones
    PROVE  /\ cut[t] \in CutStates /\ cut[t].pos \in Nat \ {0}
           /\ cut[t].rest \in Seq(Lines)
BY DEF Typed, CutStates

LEMMA CutReadTyped ==
    ASSUME Typed, NEW t \in Tombstones, NEW e \in Entries, CutRead(t, e)
    PROVE  Typed'
<1>1. e \in Lines
  BY DEF Lines
<1>2. cut' \in [Tombstones -> CutStates]
  <2>1. CASE file = <<>>
    <3>1. [Uncut EXCEPT !.pc = "closing", !.target = e] \in CutStates
      BY <1>1, UncutIs DEF CutStates
    <3> QED BY <2>1, <3>1 DEF CutRead, Typed
  <2>2. CASE cut' = [cut EXCEPT ![t] = [pc |-> "read", target |-> e, pos |-> 1,
                                        rest |-> Without(file, e)]]
    <3>1. Without(file, e) \in Seq(Lines)
      BY WithoutIs DEF Typed
    <3> QED BY <1>1, <2>2, <3>1 DEF Typed, CutStates
  <2>3. CASE /\ e \in Range(file)
             /\ LET i == LastIn(file, e)
                IN  cut' = [cut EXCEPT ![t] =
                               [pc |-> "read", target |-> e, pos |-> i,
                                rest |-> SubSeq(file, i + 1, Len(file))]]
    <3> DEFINE i == LastIn(file, e)
    <3>1. i \in 1 .. Len(file) /\ file \in Seq(Lines)
      BY <2>3, LastInIs DEF Typed
    <3> HIDE DEF i
    <3>2. SubSeq(file, i + 1, Len(file)) \in Seq(Lines) /\ i \in Nat \ {0}
      BY <3>1
    <3>3. cut' = [cut EXCEPT ![t] = [pc |-> "read", target |-> e, pos |-> i,
                                     rest |-> SubSeq(file, i + 1, Len(file))]]
      BY <2>3 DEF i
    <3> QED BY <1>1, <3>2, <3>3 DEF Typed, CutStates
  <2> QED BY <2>1, <2>2, <2>3 DEF CutRead
<1> QED BY <1>2 DEF CutRead, Typed, QueueTyped

LEMMA CutTruncateTyped == ASSUME Typed, NEW t \in Tombstones, CutTruncate(t) PROVE Typed'
<1>1. cut[t].pos - 1 \in Nat
  BY CutIs
<1>2. \A i \in 1 .. cut[t].pos - 1 : (IF i \in DOMAIN file THEN file[i] ELSE Hole) \in Lines
  BY DEF Typed, Lines
<1>3. file' \in Seq(Lines)
  BY <1>1, <1>2 DEF CutTruncate
<1>4. cut' \in [Tombstones -> CutStates]
  <2>1. PICK place \in {"closing", "truncated"} : cut' = [cut EXCEPT ![t].pc = place]
    BY DEF CutTruncate
  <2>2. cut[t] \in CutStates
    BY DEF Typed
  <2>3. [cut[t] EXCEPT !.pc = place] \in CutStates
    BY <2>2 DEF CutStates
  <2> QED BY <2>1, <2>3 DEF Typed
<1>5. QueueTyped'
  BY DEF CutTruncate, Typed, QueueTyped
<1> QED BY <1>3, <1>4, <1>5 DEF CutTruncate, Typed

LEMMA CutWriteTyped == ASSUME Typed, NEW t \in Tombstones, CutWrite(t) PROVE Typed'
<1> DEFINE p == cut[t].pos
           r == cut[t].rest
           end == p - 1 + Len(r)
           n == IF end > Len(file) THEN end ELSE Len(file)
           line(i) == CASE i \in p .. end -> r[i - p + 1]
                        [] i \in DOMAIN file \ (p .. end) -> file[i]
                        [] OTHER -> Hole
<1>1. p \in Nat \ {0} /\ r \in Seq(Lines) /\ file \in Seq(Lines) /\ Hole \in Lines
  BY CutIs DEF Typed, Lines
<1>2. file' = [i \in 1 .. n |-> line(i)]
  BY DEF CutWrite
<1>3. n \in Nat
  BY <1>1
<1>4. ASSUME NEW i \in 1 .. n
      PROVE  line(i) \in Lines
  <2>1. CASE i \in p .. end
    BY <1>1, <2>1
  <2>2. CASE i \in DOMAIN file \ (p .. end)
    BY <1>1, <2>2
  <2>3. CASE i \notin p .. end /\ i \notin DOMAIN file
    BY <1>1, <2>3
  <2> QED BY <2>1, <2>2, <2>3
<1> HIDE DEF n, line
<1>5. file' \in Seq(Lines)
  BY <1>2, <1>3, <1>4
<1>6. cut' \in [Tombstones -> CutStates]
  BY DEF CutWrite, Typed, CutStates
<1>7. QueueTyped'
  BY DEF CutWrite, Typed, QueueTyped
<1> QED BY <1>5, <1>6, <1>7 DEF CutWrite, Typed

LEMMA CutEndTyped == ASSUME Typed, NEW t \in Tombstones, CutEnd(t) PROVE Typed'
<1>1. cut' \in [Tombstones -> CutStates]
  BY DEF CutEnd, Typed, CutStates
<1>2. writer' \in [Writers -> WriterStates]
  <2>1. \A f \in Writers : /\ writer[f] \in WriterStates
                          /\ [writer[f] EXCEPT !.pc = "done"] \in WriterStates
    BY DEF Typed, WriterStates, WriterPcs
  <2> QED BY <2>1 DEF CutEnd
<1>3. QueueTyped'
  BY DEF CutEnd, Typed, QueueTyped
<1> QED BY <1>1, <1>2, <1>3 DEF CutEnd, Typed

LEMMA InitTyped == TQInit => Typed /\ Waits
<1> SUFFICES ASSUME TQInit PROVE Typed /\ Waits
  OBVIOUS
<1>1. QueueTyped
  BY TranscriptAssumption DEF TQInit, QueueTyped
<1>2. Typed
  <2>1. file \in Seq(Lines) /\ lost \subseteq Entries /\ faults \in 0 .. MaxFaults
    BY TranscriptAssumption DEF TQInit
  <2>2. writer \in [Writers -> WriterStates]
    BY UnusedIs DEF TQInit
  <2>3. cut \in [Tombstones -> CutStates]
    BY UncutIs DEF TQInit
  <2> QED BY <1>1, <2>1, <2>2, <2>3 DEF TQInit, Typed
<1>3. Waits
  BY UnusedIs DEF TQInit, Waits, Writers
<1> QED BY <1>2, <1>3

LEMMA NextTyped == Typed /\ [TQNext]_tqVars => Typed'
<1> SUFFICES ASSUME Typed, [TQNext]_tqVars PROVE Typed'
  OBVIOUS
<1>1. CASE TQNext
  BY <1>1, Append1Typed, FireTyped, LandTyped, ResolveTyped, FaultTyped, FlushTyped,
     FlushWokenTyped, CutReadTyped, CutTruncateTyped, CutWriteTyped, CutEndTyped
     DEF TQNext, Drain, Cut
<1>2. CASE UNCHANGED tqVars
  BY <1>2 DEF tqVars, Typed, QueueTyped
<1> QED BY <1>1, <1>2
-----------------------------------------------------------------------------
(***************************************************************************)
(* What the actions do to the entries.                                     *)
(***************************************************************************)

\* A drain keeps its batch, or its not having one.
SameDrain(v) ==
    /\ writer'[v].pc = "writing" <=> writer[v].pc = "writing"
    /\ writer[v].pc = "writing" => writer'[v].batch = writer[v].batch

\* Drain w begins with all of the queue, and ends.
Takes(w) ==
    /\ writer[w].pc # "writing" /\ writer'[w].pc = "writing"
    /\ writer'[w].batch = queue /\ queue' = <<>>
    /\ UNCHANGED <<made, file, lost>>
    /\ \A v \in Writers \ {w} : SameDrain(v)
Ends(w) ==
    /\ writer[w].pc = "writing" /\ writer'[w].pc # "writing"
    /\ UNCHANGED <<made, queue>>
    /\ \A v \in Writers \ {w} : SameDrain(v)
Lands(w) == Ends(w) /\ file' = file \o writer[w].batch /\ lost' = lost
Fails(w) == Ends(w) /\ file' = file /\ lost' = lost \cup Range(writer[w].batch)
Rests == /\ UNCHANGED <<made, queue, file, lost>>
         /\ \A v \in Writers : SameDrain(v)

LEMMA BegunTakes ==
    ASSUME Typed, NEW w \in Writers, writer[w].pc # "writing", NEW s \in WriterStates,
           s.pc = "writing", s.batch = queue, Begun(w, s),
           UNCHANGED <<made, file, lost>>
    PROVE  Takes(w)
BY DEF Typed, Begun, Takes, SameDrain

LEMMA FireDoes ==
    ASSUME Typed, NEW w \in Timers, Fire(w)
    PROVE  \/ queue = <<>> /\ Rests /\ UNCHANGED writer /\ active' = None
           \/ /\ queue # <<>> /\ Takes(w) /\ active' = w
              /\ writer' = [writer EXCEPT ![w] =
                               [Unused EXCEPT !.pc = "writing", !.batch = queue]]
<1> DEFINE s == [Unused EXCEPT !.pc = "writing", !.batch = queue]
<1>1. s \in WriterStates /\ s.pc = "writing" /\ s.batch = queue
  BY UnusedIs DEF WriterStates, WriterPcs, Typed, QueueTyped
<1>2. w \in Writers
  BY DEF Writers
<1>3. CASE queue = <<>>
  BY <1>3 DEF Fire, Rests, SameDrain
<1>4. CASE queue # <<>>
  <2>1. Begun(w, s) /\ writer[w].pc # "writing" /\ UNCHANGED <<made, file, lost>>
    BY <1>4 DEF Fire
  <2> HIDE DEF s
  <2>2. Takes(w)
    BY <1>1, <1>2, <2>1, BegunTakes
  <2> QED BY <1>4, <2>1, <2>2 DEF Fire, Begun, s
<1> QED BY <1>3, <1>4

\* The drain of a timer is over, and whoever waited for it goes on at "at".
Wakes(w, at) == writer' = [Woken(w, at) EXCEPT ![w] = Unused]

LEMMA WokenDoes ==
    ASSUME Typed, Waits, NEW w \in Timers, NEW at \in {"woken", "failed"},
           NEW v \in Writers, v # w, Wakes(w, at)
    PROVE  /\ SameDrain(v)
           /\ v \in Timers => writer'[v] = writer[v]
           /\ writer[v].wait # w => writer'[v] = writer[v]
           /\ writer[v].wait = w => /\ writer'[v].pc = at /\ writer'[v].wait = None
                                    /\ writer'[v].need = writer[v].need
                                    /\ v \in Flushers
<1>1. writer'[v] = Woken(w, at)[v]
  BY WokenTyped DEF Woken, Wakes
<1>2. w # None /\ w \in Writers
  BY NoneIs DEF Writers
<1>3. CASE writer[v].wait = w
  <2>1. writer[v].pc = "waiting" /\ v \in Flushers
    BY <1>2, <1>3 DEF Waits, Writers
  <2>2. writer'[v] = [writer[v] EXCEPT !.pc = at, !.wait = None]
    BY <1>1, <1>3 DEF Woken
  <2>3. v \notin Timers
    BY <2>1 DEF Waits
  <2> QED BY <1>3, <2>1, <2>2, <2>3, WriterIs DEF SameDrain, WriterStates
<1>4. CASE writer[v].wait # w
  BY <1>1, <1>4 DEF Woken, SameDrain
<1> QED BY <1>3, <1>4

LEMMA LandDoes ==
    ASSUME Typed, NEW w \in Writers, Land(w)
    PROVE  /\ Lands(w)
           /\ \A v \in Writers : v # w => writer'[v] = writer[v]
           /\ writer'[w].pc = "landed" /\ writer'[w].need = writer[w].need
           /\ writer'[w].wait = writer[w].wait
<1>1. \A v \in Writers : v # w => writer'[v] = writer[v]
  BY DEF Land, Typed
<1>2. writer'[w] = [writer[w] EXCEPT !.pc = "landed"]
  BY DEF Land, Typed
<1>3. /\ writer'[w].pc = "landed" /\ writer'[w].need = writer[w].need
      /\ writer'[w].wait = writer[w].wait
  BY <1>2, WriterIs DEF WriterStates
<1> QED BY <1>1, <1>3 DEF Land, Lands, Ends, SameDrain

LEMMA FaultDoes ==
    ASSUME Typed, Waits, NEW w \in Writers, Fault(w)
    PROVE  Fails(w)
<1>1. CASE w \in Timers
  <2>1. Wakes(w, "failed")
    BY <1>1 DEF Fault, Wakes
  <2>2. \A v \in Writers \ {w} : SameDrain(v)
    BY <1>1, <2>1, WokenDoes
  <2>3. writer'[w] = Unused
    BY <2>1, WokenTyped DEF WriterPcs, Wakes
  <2> QED BY <2>2, <2>3, UnusedIs DEF Fault, Fails, Ends
<1>2. CASE w \notin Timers
  <2>1. /\ \A v \in Writers : v # w => writer'[v] = writer[v]
        /\ writer'[w].pc = "failed"
    <3>1. writer' = [writer EXCEPT ![w] =
                        [writer[w] EXCEPT !.pc = "failed", !.batch = <<>>]]
      BY <1>2 DEF Fault, Typed
    <3> QED BY <3>1, WriterIs DEF Typed, WriterStates
  <2> QED BY <2>1 DEF Fault, Fails, Ends, SameDrain
<1> QED BY <1>1, <1>2

LEMMA ResolveDoes ==
    ASSUME Typed, Waits, NEW w \in Writers, Resolve(w)
    PROVE  Rests
<1>1. CASE w \in Timers
  <2>1. Wakes(w, "woken")
    BY <1>1 DEF Resolve, Wakes
  <2>2. \A v \in Writers : v # w => SameDrain(v)
    BY <1>1, <2>1, WokenDoes
  <2>3. writer'[w] = Unused
    BY <2>1, WokenTyped DEF WriterPcs, Wakes
  <2>4. SameDrain(w)
    BY <2>3, UnusedIs DEF Resolve, SameDrain
  <2> QED BY <2>2, <2>4 DEF Resolve, Rests
<1>2. CASE w \notin Timers
  <2>1. /\ \A v \in Writers : v # w => writer'[v] = writer[v]
        /\ writer'[w] = Flushed(w)
    BY <1>2 DEF Resolve, Typed
  <2>2. Flushed(w).pc # "writing"
    BY WriterIs DEF Flushed, WriterStates
  <2> QED BY <2>1, <2>2 DEF Resolve, Rests, SameDrain
<1> QED BY <1>1, <1>2

\* The end of a flush, or its own drain.
LEMMA DrainedDoes ==
    ASSUME Typed, NEW f \in Writers, writer[f].pc # "writing", NEW s \in WriterStates,
           Drained(f, s), UNCHANGED <<made, file, lost>>
    PROVE  /\ \A v \in Writers : v # f => writer'[v] = writer[v]
           /\ writer'[f].wait = s.wait /\ writer'[f].need = s.need
           /\ \/ /\ queue = <<>> /\ Rests
                 /\ writer'[f].pc = IF Tracked THEN "tracked" ELSE "done"
              \/ queue # <<>> /\ Takes(f) /\ writer'[f].pc = "writing"
<1>1. CASE queue = <<>>
  <2> DEFINE at == IF Tracked THEN "tracked" ELSE "done"
  <2>1. UNCHANGED queue /\ writer' = [writer EXCEPT ![f] = [s EXCEPT !.pc = at]]
    BY <1>1 DEF Drained
  <2>2. at # "writing"
    OBVIOUS
  <2> HIDE DEF at
  <2>3. /\ \A v \in Writers : v # f => writer'[v] = writer[v]
        /\ writer'[f].pc = at /\ writer'[f].wait = s.wait /\ writer'[f].need = s.need
    BY <2>1 DEF Typed, WriterStates
  <2> QED BY <1>1, <2>1, <2>2, <2>3 DEF Rests, SameDrain, at
<1>2. CASE queue # <<>>
  <2> DEFINE d == [s EXCEPT !.pc = "writing", !.batch = queue]
  <2>1. /\ d \in WriterStates /\ d.pc = "writing" /\ d.batch = queue
        /\ d.wait = s.wait /\ d.need = s.need
    BY DEF WriterStates, WriterPcs, Typed, QueueTyped
  <2>2. Begun(f, d)
    BY <1>2 DEF Drained
  <2> HIDE DEF d
  <2>3. Takes(f)
    BY <2>1, <2>2, BegunTakes
  <2>4. \A v \in Writers : v # f => writer'[v] = writer[v]
    BY <2>2 DEF Begun, Typed
  <2>5. writer'[f] = d
    BY <2>2 DEF Begun, Typed
  <2> QED BY <1>2, <2>1, <2>3, <2>4, <2>5
<1> QED BY <1>1, <1>2

LEMMA FlushDoes ==
    ASSUME Typed, NEW f \in Flushers, Flush(f)
    PROVE  /\ \A v \in Writers : v # f => writer'[v] = writer[v]
           /\ writer'[f].need = 1 .. made
           /\ \/ /\ active = None /\ writer'[f].wait = None
                 /\ \/ /\ queue = <<>> /\ Rests
                       /\ writer'[f].pc = IF Tracked THEN "tracked" ELSE "done"
                    \/ queue # <<>> /\ Takes(f) /\ writer'[f].pc = "writing"
              \/ active = Failed /\ Rests /\ writer'[f].pc = "failed"
                 /\ writer'[f].wait = None
              \/ active \in Timers /\ Rests /\ writer'[f].pc = "waiting"
                 /\ writer'[f].wait = active
<1>1. /\ f \in Writers /\ Called \in WriterStates /\ Called.need = 1 .. made
      /\ Called.wait = None /\ writer[f].pc = "idle"
      /\ UNCHANGED <<made, file, lost>>
  BY CalledIs DEF Writers, Flush
<1>2. CASE active = None
  <2>1. Drained(f, Called)
    BY <1>2, NoneIs DEF Flush
  <2> QED BY <1>1, <1>2, <2>1, DrainedDoes
<1>3. CASE active = Failed
  <2>1. writer' = [writer EXCEPT ![f] = [Called EXCEPT !.pc = "failed"]]
        /\ UNCHANGED queue
    BY <1>3, NoneIs DEF Flush
  <2>2. /\ \A v \in Writers : v # f => writer'[v] = writer[v]
        /\ writer'[f].pc = "failed" /\ writer'[f].need = 1 .. made
        /\ writer'[f].wait = None
    BY <1>1, <2>1 DEF Typed, WriterStates
  <2> QED BY <1>1, <1>3, <2>1, <2>2 DEF Rests, SameDrain
<1>4. CASE active \in Timers
  <2>1. writer' = [writer EXCEPT ![f] =
                      [Called EXCEPT !.pc = "waiting", !.wait = active]]
        /\ UNCHANGED queue
    BY <1>4, NoneIs DEF Flush
  <2>2. /\ \A v \in Writers : v # f => writer'[v] = writer[v]
        /\ writer'[f].pc = "waiting" /\ writer'[f].need = 1 .. made
        /\ writer'[f].wait = active
    BY <1>1, <2>1 DEF Typed, WriterStates
  <2> QED BY <1>1, <1>4, <2>1, <2>2 DEF Rests, SameDrain
<1> QED BY <1>2, <1>3, <1>4 DEF Typed

LEMMA FlushWokenDoes ==
    ASSUME Typed, NEW f \in Flushers, FlushWoken(f)
    PROVE  /\ \A v \in Writers : v # f => writer'[v] = writer[v]
           /\ writer'[f].need = writer[f].need /\ writer'[f].wait = writer[f].wait
           /\ \/ /\ queue = <<>> /\ Rests
                 /\ writer'[f].pc = IF Tracked THEN "tracked" ELSE "done"
              \/ queue # <<>> /\ Takes(f) /\ writer'[f].pc = "writing"
<1>1. f \in Writers
  BY DEF Writers
<1> QED BY <1>1, WriterIs, DrainedDoes DEF FlushWoken

\* The tombstones are remembered.
LEMMA CutTouches ==
    ASSUME Typed, NEW t \in Tombstones, Cut(t) \/ \E e \in Entries : CutRead(t, e)
    PROVE  ~Untouched'
<1>1. cut'[t].pc # "idle"
  <2>1. CASE CutTruncate(t)
    BY <2>1, CutIs DEF CutTruncate, Typed, CutStates
  <2>2. CASE CutWrite(t)
    BY <2>2, CutIs DEF CutWrite, Typed, CutStates
  <2>3. CASE CutEnd(t)
    BY <2>3, CutIs DEF CutEnd, Typed, CutStates
  <2>4. CASE \E e \in Entries : CutRead(t, e)
    <3>1. PICK e \in Entries : CutRead(t, e)
      BY <2>4
    <3>2. [Uncut EXCEPT !.pc = "closing", !.target = e].pc = "closing"
      BY UncutIs DEF CutStates
    <3>3. \E c : c.pc # "idle" /\ cut' = [cut EXCEPT ![t] = c]
      BY <3>1, <3>2 DEF CutRead
    <3> QED BY <3>3 DEF Typed
  <2> QED BY <2>1, <2>2, <2>3, <2>4 DEF Cut
<1> QED BY <1>1 DEF Untouched
LEMMA NextWaits == Typed /\ Waits /\ [TQNext]_tqVars => Waits'
<1> SUFFICES ASSUME Typed, Waits, [TQNext]_tqVars PROVE Waits'
  OBVIOUS
<1> DEFINE Good(v) == /\ v \in Timers => writer[v].pc \in {"idle", "writing", "landed"}
                      /\ writer[v].wait # None => writer[v].pc = "waiting"
<1>1. \A v \in Writers : Good(v)
  BY DEF Waits
<1>2. (\A v \in Writers : Good(v)') => Waits'
  BY DEF Waits, Writers
<1>3. \A f \in Flushers : f \notin Timers /\ f \in Writers
  BY TranscriptAssumption DEF Writers
<1>4. \A w \in Timers : w \in Writers /\ w # None
  BY NoneIs DEF Writers
<1>5. ASSUME NEW w \in Timers, Fire(w) PROVE Waits'
  <2>1. CASE UNCHANGED writer
    BY <2>1 DEF Waits
  <2>2. CASE writer' = [writer EXCEPT ![w] =
                           [Unused EXCEPT !.pc = "writing", !.batch = queue]]
    <3>1. /\ \A v \in Writers : v # w => writer'[v] = writer[v]
          /\ writer'[w].pc = "writing" /\ writer'[w].wait = None
      BY <1>4, <2>2, UnusedIs DEF Typed, WriterStates
    <3> QED BY <1>1, <1>2, <3>1
  <2> QED BY <1>5, <2>1, <2>2, FireDoes
<1>6. ASSUME NEW w \in Writers, Land(w) PROVE Waits'
  <2>1. Good(w)'
    BY <1>1, <1>6, LandDoes DEF Land
  <2> QED BY <1>1, <1>2, <1>6, <2>1, LandDoes
<1>7. ASSUME NEW w \in Timers, NEW at \in {"woken", "failed"},
             Wakes(w, at)
      PROVE  Waits'
  <2>1. writer'[w] = Unused
    BY <1>4, <1>7, WokenTyped DEF WriterPcs, Wakes
  <2>2. Good(w)'
    BY <2>1, UnusedIs
  <2>3. ASSUME NEW v \in Writers, v # w PROVE Good(v)'
    <3> HIDE DEF Good
    <3>1. /\ SameDrain(v)
          /\ v \in Timers => writer'[v] = writer[v]
          /\ writer[v].wait # w => writer'[v] = writer[v]
          /\ writer[v].wait = w => /\ writer'[v].pc = at /\ writer'[v].wait = None
                                   /\ writer'[v].need = writer[v].need
                                   /\ v \in Flushers
      BY <1>7, <2>3, WokenDoes
    <3>2. Good(v)
      BY <1>1
    <3> QED BY <1>3, <3>1, <3>2 DEF Good
  <2> QED BY <1>2, <2>2, <2>3
<1>8. ASSUME NEW w \in Writers, Resolve(w) PROVE Waits'
  <2>1. CASE w \in Timers
    BY <1>7, <1>8, <2>1 DEF Resolve, Wakes
  <2>2. CASE w \notin Timers
    <3>1. /\ \A v \in Writers : v # w => writer'[v] = writer[v]
          /\ writer'[w] = Flushed(w)
      BY <1>8, <2>2 DEF Resolve, Typed
    <3>2. Flushed(w).wait = writer[w].wait
      BY WriterIs DEF Flushed, WriterStates
    <3>3. Good(w)'
      BY <1>1, <1>8, <2>2, <3>1, <3>2 DEF Resolve
    <3> QED BY <1>1, <1>2, <3>1, <3>3
  <2> QED BY <2>1, <2>2
<1>9. ASSUME NEW w \in Writers, Fault(w) PROVE Waits'
  <2>1. CASE w \in Timers
    BY <1>7, <1>9, <2>1 DEF Fault, Wakes
  <2>2. CASE w \notin Timers
    <3>1. writer' = [writer EXCEPT ![w] =
                        [writer[w] EXCEPT !.pc = "failed", !.batch = <<>>]]
      BY <1>9, <2>2 DEF Fault, Typed
    <3>2. /\ \A v \in Writers : v # w => writer'[v] = writer[v]
          /\ writer'[w].wait = writer[w].wait
      BY <3>1, WriterIs DEF Typed, WriterStates
    <3>3. Good(w)'
      BY <1>1, <1>9, <2>2, <3>2 DEF Fault
    <3> QED BY <1>1, <1>2, <3>2, <3>3
  <2> QED BY <2>1, <2>2
<1>10. ASSUME NEW f \in Flushers, Flush(f) PROVE Waits'
  <2>1. Good(f)'
    BY <1>3, <1>10, FlushDoes
  <2> QED BY <1>1, <1>2, <1>10, <2>1, FlushDoes
<1>11. ASSUME NEW f \in Flushers, FlushWoken(f) PROVE Waits'
  <2>1. writer[f].wait = None
    BY <1>1, <1>3, <1>11 DEF FlushWoken
  <2>2. Good(f)'
    BY <1>3, <1>11, <2>1, FlushWokenDoes
  <2> QED BY <1>1, <1>2, <1>11, <2>2, FlushWokenDoes
<1>12. ASSUME NEW t \in Tombstones, CutEnd(t) PROVE Waits'
  <2>1. ASSUME NEW v \in Writers PROVE Good(v)'
    <3>1. CASE writer'[v] = writer[v]
      BY <1>1, <3>1
    <3>2. CASE writer'[v] = [writer[v] EXCEPT !.pc = "done"]
               /\ writer[v].pc = "tracked"
      <4>1. writer'[v].wait = writer[v].wait
        BY <3>2, WriterIs DEF WriterStates
      <4> QED BY <1>1, <3>2, <4>1
    <3> QED BY <1>12, <3>1, <3>2 DEF CutEnd
  <2> QED BY <1>2, <2>1
<1>13. CASE UNCHANGED writer
  BY <1>13 DEF Waits
<1>14. ASSUME NEW t \in Tombstones, NEW e \in Entries, CutRead(t, e) PROVE Waits'
  BY <1>13, <1>14 DEF CutRead
<1>15. ASSUME NEW t \in Tombstones, Cut(t) PROVE Waits'
  BY <1>12, <1>13, <1>15 DEF Cut, CutTruncate, CutWrite
<1>16. ASSUME Append1 PROVE Waits'
  BY <1>13, <1>16 DEF Append1
<1>17. UNCHANGED tqVars => Waits'
  BY <1>13 DEF tqVars
<1> HIDE DEF Good
<1> QED BY <1>5, <1>6, <1>8, <1>9, <1>10, <1>11, <1>14, <1>15, <1>16, <1>17
        DEF TQNext, Drain

-----------------------------------------------------------------------------
(***************************************************************************)
(* Nothing is lost or doubled.                                             *)
(***************************************************************************)

LEMMA SameHolds ==
    ASSUME NEW v \in Writers, SameDrain(v), NEW e
    PROVE  Holds(v, e)' <=> Holds(v, e)
BY DEF SameDrain, Holds, In

LEMMA AppendParts ==
    ASSUME Typed, Parted, Append1
    PROVE  Parted'
<1>1. made \in Nat /\ Len(queue) \in Nat /\ made' = made + 1
  BY DEF Append1, Typed, QueueTyped
<1>2. Len(queue') = Len(queue) + 1
  BY <1>1 DEF Append1, Typed, QueueTyped
<1>3. Taken' = Taken
  BY <1>1, <1>2 DEF Taken
<1>4. UNCHANGED <<writer, file, lost>>
  BY DEF Append1
<1> QED BY <1>3, <1>4 DEF Parted, Kept, Holds

LEMMA RestParts ==
    ASSUME Parted, Rests
    PROVE  Parted'
<1>1. UNCHANGED <<file, lost, Taken>>
  BY DEF Rests, Taken
<1>2. \A w \in Writers : SameDrain(w)
  BY DEF Rests
<1>3. \A w \in Writers, e \in Taken : Holds(w, e)' <=> Holds(w, e)
  BY <1>2, SameHolds
<1>4. \A e : Kept(e)' <=> Kept(e)
  BY <1>1 DEF Kept
<1>5. \A w \in Writers : writer'[w].pc = "writing" =>
          /\ Distinct(writer'[w].batch)
          /\ \A i \in 1 .. Len(writer'[w].batch) : writer'[w].batch[i] \in Taken
  BY <1>2 DEF SameDrain, Parted
<1> QED BY <1>1, <1>3, <1>4, <1>5 DEF Parted

\* What the drain takes is what was queued.
LEMMA QueueIs ==
    ASSUME QueueTyped
    PROVE  /\ Distinct(queue) /\ Sorted(queue)
           /\ \A i \in 1 .. Len(queue) : queue[i] \in 1 .. made /\ queue[i] \notin Taken
           /\ \A e \in 1 .. made : e \notin Taken => In(queue, e)
<1>1. made \in Nat /\ Len(queue) \in Nat /\ made - Len(queue) \in Nat
  BY DEF QueueTyped
<1>2. \A i \in 1 .. Len(queue) : queue[i] = made - Len(queue) + i
  BY DEF QueueTyped
<1>3. Distinct(queue) /\ Sorted(queue)
  BY <1>1, <1>2 DEF Distinct, Sorted
<1>4. \A i \in 1 .. Len(queue) : queue[i] \in 1 .. made /\ queue[i] \notin Taken
  BY <1>1, <1>2 DEF Taken
<1>5. ASSUME NEW e \in 1 .. made, e \notin Taken PROVE In(queue, e)
  <2>1. e - (made - Len(queue)) \in 1 .. Len(queue)
    BY <1>1, <1>5 DEF Taken
  <2>2. queue[e - (made - Len(queue))] = e
    BY <1>1, <1>2, <2>1
  <2> QED BY <2>1, <2>2 DEF In
<1> QED BY <1>3, <1>4, <1>5

LEMMA TakeParts ==
    ASSUME Typed, Parted, NEW w \in Writers, Takes(w)
    PROVE  Parted'
<1>1. /\ QueueTyped /\ made \in Nat /\ Taken' = 1 .. made
      /\ Taken \subseteq 1 .. made
  <2>1. QueueTyped /\ made \in Nat /\ Len(queue) \in Nat /\ made' = made /\ Len(queue') = 0
    BY DEF Typed, QueueTyped, Takes
  <2> QED BY <2>1 DEF Taken
<1>2. UNCHANGED <<file, lost>>
  BY DEF Takes
<1>3. \A v \in Writers : v # w => SameDrain(v)
  BY DEF Takes
<1>4. \A v \in Writers, e \in 1 .. made : v # w => (Holds(v, e)' <=> Holds(v, e))
  BY <1>3, SameHolds
<1>5. \A e : Holds(w, e)' <=> In(queue, e)
  BY DEF Takes, Holds, In
<1>6. \A e \in 1 .. made : In(queue, e) <=> e \notin Taken
  BY <1>1, QueueIs DEF In
<1>7. \A e : Kept(e)' <=> Kept(e)
  BY <1>2 DEF Kept
<1>8. \A e : Kept(e) => e \in Taken
  BY DEF Parted, Kept, In
<1>9. \A v \in Writers : \A e : Holds(v, e) => e \in Taken
  BY DEF Parted, Holds, In
<1>10. \A v \in Writers : writer'[v].pc = "writing" =>
          /\ Distinct(writer'[v].batch)
          /\ \A i \in 1 .. Len(writer'[v].batch) : writer'[v].batch[i] \in 1 .. made
  <2> TAKE v \in Writers
  <2>1. CASE v = w
    BY <1>1, <2>1, QueueIs DEF Takes
  <2>2. CASE v # w
    BY <1>1, <1>3, <2>2 DEF SameDrain, Parted
  <2> QED BY <2>1, <2>2
<1>11. \A e \in 1 .. made : Kept(e)' \/ \E v \in Writers : Holds(v, e)'
  <2> TAKE e \in 1 .. made
  <2>1. CASE e \in Taken
    <3>1. PICK v \in Writers : Kept(e) \/ Holds(v, e)
      BY <2>1 DEF Parted
    <3>2. Holds(w, e) => FALSE
      BY DEF Takes, Holds
    <3> QED BY <1>4, <1>7, <3>1, <3>2
  <2>2. CASE e \notin Taken
    BY <1>5, <1>6, <2>2
  <2> QED BY <2>1, <2>2
<1>12. \A e \in 1 .. made, v \in Writers : Holds(v, e)' => ~Kept(e)'
  <2> TAKE e \in 1 .. made, v \in Writers
  <2>1. CASE v = w
    BY <1>5, <1>6, <1>7, <1>8, <2>1
  <2>2. CASE v # w
    BY <1>4, <1>7, <1>9, <2>2 DEF Parted
  <2> QED BY <2>1, <2>2
<1>13. \A e \in 1 .. made, u, v \in Writers : Holds(u, e)' /\ Holds(v, e)' => u = v
  BY <1>4, <1>5, <1>6, <1>9 DEF Parted
<1>14. \A e \in 1 .. made : ~(In(file, e) /\ e \in lost)
  BY <1>8 DEF Parted, Kept
<1> QED BY <1>1, <1>2, <1>10, <1>11, <1>12, <1>13, <1>14 DEF Parted

\* The lines of the batch follow those of the file.
LEMMA CatIs ==
    ASSUME NEW S, NEW s \in Seq(S), NEW t \in Seq(S)
    PROVE  /\ Len(s \o t) = Len(s) + Len(t)
           /\ \A i \in 1 .. Len(s) : (s \o t)[i] = s[i]
           /\ \A i \in Len(s) + 1 .. Len(s \o t) :
                 i - Len(s) \in 1 .. Len(t) /\ (s \o t)[i] = t[i - Len(s)]
           /\ \A e : In(s \o t, e) <=> In(s, e) \/ In(t, e)
<1>1. Len(s) \in Nat /\ Len(t) \in Nat /\ Len(s \o t) = Len(s) + Len(t)
  OBVIOUS
<1>2. \A i \in 1 .. Len(s) : (s \o t)[i] = s[i]
  BY <1>1
<1>3. \A i \in Len(s) + 1 .. Len(s) + Len(t) :
          i - Len(s) \in 1 .. Len(t) /\ (s \o t)[i] = t[i - Len(s)]
  BY <1>1
<1>4. ASSUME NEW e PROVE In(s \o t, e) <=> In(s, e) \/ In(t, e)
  <2>1. ASSUME In(s, e) PROVE In(s \o t, e)
    <3>1. PICK i \in 1 .. Len(s) : s[i] = e
      BY <2>1 DEF In
    <3>2. i \in 1 .. Len(s \o t)
      BY <1>1
    <3> QED BY <1>2, <3>1, <3>2 DEF In
  <2>2. ASSUME In(t, e) PROVE In(s \o t, e)
    <3>1. PICK j \in 1 .. Len(t) : t[j] = e
      BY <2>2 DEF In
    <3>2. Len(s) + j \in 1 .. Len(s \o t) /\ (s \o t)[Len(s) + j] = t[j]
      BY <1>1
    <3> QED BY <3>1, <3>2 DEF In
  <2>3. ASSUME In(s \o t, e) PROVE In(s, e) \/ In(t, e)
    <3>1. PICK i \in 1 .. Len(s \o t) : (s \o t)[i] = e
      BY <2>3 DEF In
    <3>2. CASE i \in 1 .. Len(s)
      BY <1>2, <3>1, <3>2 DEF In
    <3>3. CASE i \in Len(s) + 1 .. Len(s) + Len(t)
      BY <1>3, <3>1, <3>3 DEF In
    <3> QED BY <1>1, <3>2, <3>3
  <2> QED BY <2>1, <2>2, <2>3
<1> QED BY <1>1, <1>2, <1>3, <1>4
LEMMA EndParts ==
    ASSUME Typed, Parted, NEW w \in Writers, Ends(w),
           \A e : Kept(e)' <=> Kept(e) \/ Holds(w, e)
    PROVE  /\ Taken' = Taken
           /\ \A v \in Writers : writer'[v].pc = "writing" =>
                 /\ Distinct(writer'[v].batch)
                 /\ \A i \in 1 .. Len(writer'[v].batch) : writer'[v].batch[i] \in Taken
           /\ \A e \in Taken : Kept(e)' \/ \E v \in Writers : Holds(v, e)'
           /\ \A e \in Taken, v \in Writers : Holds(v, e)' => ~Kept(e)'
           /\ \A e \in Taken, u, v \in Writers : Holds(u, e)' /\ Holds(v, e)' => u = v
<1>1. Taken' = Taken
  BY DEF Ends, Taken
<1>2. \A v \in Writers : v # w => SameDrain(v)
  BY DEF Ends
<1>3. \A v \in Writers : \A e : v # w => (Holds(v, e)' <=> Holds(v, e))
  BY <1>2, SameHolds
<1>4. \A e : ~Holds(w, e)'
  BY DEF Ends, Holds
<1>5. \A v \in Writers : writer'[v].pc = "writing" =>
          /\ Distinct(writer'[v].batch)
          /\ \A i \in 1 .. Len(writer'[v].batch) : writer'[v].batch[i] \in Taken
  BY <1>2 DEF Ends, SameDrain, Parted
<1>6. ASSUME NEW e \in Taken PROVE Kept(e)' \/ \E v \in Writers : Holds(v, e)'
  BY <1>3 DEF Parted
<1>7. ASSUME NEW e \in Taken, NEW v \in Writers, Holds(v, e)' PROVE ~Kept(e)'
  <2>1. v # w /\ Holds(v, e)
    BY <1>3, <1>4, <1>7
  <2> QED BY <2>1 DEF Parted
<1>8. ASSUME NEW e \in Taken, NEW u \in Writers, NEW v \in Writers,
             Holds(u, e)', Holds(v, e)'
      PROVE  u = v
  BY <1>3, <1>4, <1>8 DEF Parted
<1> QED BY <1>1, <1>5, <1>6, <1>7, <1>8

LEMMA LandParts ==
    ASSUME Typed, Parted, NEW w \in Writers, Lands(w)
    PROVE  Parted' /\ \A e : Kept(e)' <=> Kept(e) \/ Holds(w, e)
<1> DEFINE b == writer[w].batch
<1>1. /\ file' = file \o b /\ lost' = lost /\ Ends(w) /\ writer[w].pc = "writing"
      /\ file \in Seq(Lines) /\ b \in Seq(Lines)
  BY WriterIs DEF Lands, Ends, Typed, Lines
<1> HIDE DEF b
<1>2. /\ Len(file') = Len(file) + Len(b) /\ Len(file) \in Nat /\ Len(b) \in Nat
      /\ \A i \in 1 .. Len(file) : file'[i] = file[i]
      /\ \A i \in Len(file) + 1 .. Len(file') :
            i - Len(file) \in 1 .. Len(b) /\ file'[i] = b[i - Len(file)]
      /\ \A e : In(file', e) <=> In(file, e) \/ In(b, e)
  BY <1>1, CatIs
<1>3. \A e : Holds(w, e) <=> In(b, e)
  BY <1>1 DEF Holds, b
<1>4. \A e : Kept(e)' <=> Kept(e) \/ Holds(w, e)
  BY <1>1, <1>2, <1>3 DEF Kept
<1>5. /\ Distinct(b) /\ \A i \in 1 .. Len(b) : b[i] \in Taken /\ Holds(w, b[i])
  BY <1>1, <1>3 DEF Parted, In, b
<1>6. \A i \in 1 .. Len(file), j \in 1 .. Len(b) : file[i] # b[j]
  BY <1>5 DEF Parted, Kept, In
<1>7. \A i \in 1 .. Len(file') : file'[i] \in Taken
  BY <1>2, <1>5 DEF Parted
<1>8. Distinct(file')
  <2> SUFFICES ASSUME NEW i \in 1 .. Len(file'), NEW j \in 1 .. Len(file'),
                      file'[i] = file'[j]
               PROVE  i = j
    BY DEF Distinct
  <2>1. CASE i \in 1 .. Len(file) /\ j \in 1 .. Len(file)
    BY <1>2, <2>1 DEF Parted, Distinct
  <2>2. CASE i \in 1 .. Len(file) /\ j \in Len(file) + 1 .. Len(file')
    BY <1>2, <1>6, <2>2
  <2>3. CASE i \in Len(file) + 1 .. Len(file') /\ j \in 1 .. Len(file)
    BY <1>2, <1>6, <2>3
  <2>4. CASE i \in Len(file) + 1 .. Len(file') /\ j \in Len(file) + 1 .. Len(file')
    <3>1. i - Len(file) = j - Len(file)
      BY <1>2, <1>5, <2>4 DEF Distinct
    <3> QED BY <1>2, <2>4, <3>1
  <2> QED BY <1>2, <2>1, <2>2, <2>3, <2>4
<1>9. \A e \in Taken : ~(In(file', e) /\ e \in lost')
  BY <1>1, <1>2, <1>3 DEF Parted, Kept
<1> QED BY <1>1, <1>4, <1>7, <1>8, <1>9, EndParts DEF Parted

LEMMA FailParts ==
    ASSUME Typed, Parted, NEW w \in Writers, Fails(w)
    PROVE  Parted' /\ \A e : Kept(e)' <=> Kept(e) \/ Holds(w, e)
<1> DEFINE b == writer[w].batch
<1>1. /\ file' = file /\ lost' = lost \cup Range(b) /\ Ends(w) /\ writer[w].pc = "writing"
      /\ b \in Seq(Lines)
  BY WriterIs DEF Fails, Ends, Typed, Lines
<1> HIDE DEF b
<1>2. \A e : e \in Range(b) <=> In(b, e)
  BY <1>1 DEF Range, In
<1>3. \A e : Holds(w, e) <=> In(b, e)
  BY <1>1 DEF Holds, b
<1>4. \A e : Kept(e)' <=> Kept(e) \/ Holds(w, e)
  BY <1>1, <1>2, <1>3 DEF Kept
<1>5. Range(b) \subseteq Taken
  BY <1>1, <1>2 DEF Parted, In, b
<1>6. lost' \subseteq Taken
  BY <1>1, <1>5 DEF Parted
<1>7. \A e \in Taken : ~(In(file', e) /\ e \in lost')
  BY <1>1, <1>2, <1>3 DEF Parted, Kept
<1> QED BY <1>1, <1>4, <1>6, <1>7, EndParts DEF Parted

LEMMA InitParted == TQInit => Parted
<1> SUFFICES ASSUME TQInit PROVE Parted
  OBVIOUS
<1>1. file = <<>> /\ lost = {} /\ Taken = {}
  BY DEF TQInit, Taken
<1>2. \A w \in Writers : writer[w].pc # "writing"
  BY UnusedIs DEF TQInit
<1> QED BY <1>1, <1>2 DEF Parted, Distinct

LEMMA NextParted ==
    Typed /\ Waits /\ (Untouched => Parted) /\ [TQNext]_tqVars /\ Untouched' => Parted'
<1> SUFFICES ASSUME Typed, Waits, Untouched => Parted, [TQNext]_tqVars, Untouched'
             PROVE  Parted'
  OBVIOUS
<1>1. \A t \in Tombstones : ~Cut(t) /\ ~\E e \in Entries : CutRead(t, e)
  BY CutTouches
<1>2. UNCHANGED cut
  BY <1>1 DEF TQNext, tqVars, Append1, Fire, Drain, Land, Resolve, Fault, Flush, FlushWoken
<1>3. Parted
  BY <1>2 DEF Untouched
<1>4. CASE Append1
  BY <1>3, <1>4, AppendParts
<1>5. ASSUME NEW w \in Timers, Fire(w) PROVE Parted'
  BY <1>3, <1>5, FireDoes, RestParts, TakeParts DEF Writers
<1>6. ASSUME NEW w \in Writers, Drain(w) \/ Fault(w) PROVE Parted'
  BY <1>3, <1>6, LandDoes, LandParts, ResolveDoes, RestParts, FaultDoes, FailParts
     DEF Drain
<1>7. ASSUME NEW f \in Flushers, Flush(f) \/ FlushWoken(f) PROVE Parted'
  BY <1>3, <1>7, FlushDoes, FlushWokenDoes, RestParts, TakeParts DEF Writers
<1>8. CASE UNCHANGED tqVars
  BY <1>3, <1>8 DEF tqVars, Parted, Taken, Kept, Holds
<1> QED BY <1>1, <1>4, <1>5, <1>6, <1>7, <1>8 DEF TQNext
-----------------------------------------------------------------------------
(***************************************************************************)
(* Swift appends and one flush.                                            *)
(***************************************************************************)

LEMMA OneFlusher ==
    ASSUME Cardinality(Flushers) <= 1, NEW f \in Flushers, NEW g \in Flushers
    PROVE  f = g
<1>1. IsFiniteSet(Flushers)
  BY TranscriptAssumption, FS_Subset DEF Writers
<1>2. SUFFICES ASSUME f # g PROVE FALSE
  OBVIOUS
<1>3. {f, g} \subseteq Flushers /\ IsFiniteSet({f, g})
  BY <1>1, FS_Subset
<1>4. Cardinality({f, g}) <= Cardinality(Flushers)
  BY <1>1, <1>3, FS_Subset
<1>5. Cardinality({f, g}) = 2
  <2>1. {f} \cup {g} = {f, g} /\ IsFiniteSet({f}) /\ Cardinality({f}) = 1
    BY FS_Singleton
  <2>2. Cardinality({f} \cup {g}) = Cardinality({f}) + 1
    BY <1>2, <2>1, FS_AddElement
  <2> QED BY <2>1, <2>2
<1>6. Cardinality(Flushers) \in Nat
  BY <1>1, FS_CardinalityType
<1> QED BY <1>4, <1>5, <1>6

LEMMA OneOrTheOther ==
    /\ \A f \in Flushers : f \in Writers /\ f \notin Timers
    /\ \A w \in Timers : w \in Writers
    /\ \A w \in Writers : w \in Flushers \/ w \in Timers
BY TranscriptAssumption DEF Writers

\* A flush needs no more than it did, of what is kept.
LEMMA NeedsSame ==
    ASSUME Typed, NEW f \in Writers, Needs(f), made' \in {made, made + 1},
           writer'[f].need = writer[f].need, SameDrain(f),
           \A e : Kept(e) => Kept(e)',
           writer'[f].pc \in {"landed", "done"} => writer[f].pc = writer'[f].pc
    PROVE  Needs(f)'
<1>1. \A e : Holds(f, e)' <=> Holds(f, e)
  BY SameHolds
<1>2. \A e \in 1 .. made : e \in 1 .. made'
  BY DEF Typed, QueueTyped
<1> QED BY <1>1, <1>2 DEF Needs, SameDrain

\* What is taken from the queue comes after what the file holds.
LEMMA TakenFollows ==
    ASSUME Typed, Parted, InOrder, NEW w \in Writers, Takes(w),
           \A v \in Writers : v # w => writer[v].pc # "writing"
    PROVE  InOrder'
<1>1. file' = file /\ \A v \in Writers : v # w => writer'[v].pc # "writing"
  BY DEF Takes, SameDrain
<1>2. writer'[w].batch = queue /\ Sorted(queue)
  BY QueueIs DEF Typed, Takes
<1>3. made \in Nat /\ Len(queue) \in Nat /\ made - Len(queue) \in Nat
  BY DEF Typed, QueueTyped
<1>4. \A i \in 1 .. Len(file), j \in 1 .. Len(queue) : file[i] < queue[j]
  <2> TAKE i \in 1 .. Len(file), j \in 1 .. Len(queue)
  <2>1. file[i] \in 1 .. made - Len(queue)
    BY DEF Parted, Taken
  <2>2. queue[j] = made - Len(queue) + j
    BY DEF Typed, QueueTyped
  <2> QED BY <1>3, <2>1, <2>2
<1> QED BY <1>1, <1>2, <1>4 DEF InOrder

\* With the queue empty and no other drain, a flush has all that it needs.
LEMMA NeedsMet ==
    ASSUME Typed', Parted', NEW f \in Writers, queue' = <<>>,
           writer'[f].need \subseteq 1 .. made',
           \A v \in Writers : v # f => writer'[v].pc # "writing",
           writer'[f].pc \in {"writing", "done"}
    PROVE  Needs(f)'
<1>1. Taken' = 1 .. made'
  BY DEF Typed, QueueTyped, Taken
<1>2. \A e \in 1 .. made', v \in Writers : Holds(v, e)' => v = f
  BY DEF Holds
<1>3. \A e \in 1 .. made' : Kept(e)' \/ Holds(f, e)'
  BY <1>1, <1>2 DEF Parted
<1>4. \A e : Holds(f, e)' => writer'[f].pc = "writing"
  BY DEF Holds
<1> QED BY <1>3, <1>4 DEF Needs

LEMMA AppendOrders ==
    ASSUME Typed, Orderly, Append1
    PROVE  Orderly'
<1>1. UNCHANGED <<active, writer, file, lost>> /\ made' = made + 1
  BY DEF Append1
<1>2. OneWrites'
  BY <1>1 DEF Orderly, OneWrites, Writing
<1>3. InOrder'
  BY <1>1 DEF Orderly, InOrder
<1>4. ASSUME NEW f \in Flushers PROVE Needs(f)'
  <2>1. \A e : Kept(e) => Kept(e)'
    BY <1>1 DEF Kept
  <2> QED BY <1>1, <2>1, OneOrTheOther, NeedsSame DEF SameDrain, Orderly, Durable
<1> QED BY <1>2, <1>3, <1>4 DEF Orderly, Durable

LEMMA FireOrders ==
    ASSUME Typed, Typed', Parted, Orderly, swift, NEW w \in Timers, Fire(w)
    PROVE  Orderly'
<1>1. /\ \A v \in Writers : ~Writing(v)
      /\ \A f \in Flushers : writer[f].pc # "woken"
      /\ writer[w].pc = "idle" /\ UNCHANGED <<made, file, lost>>
  BY DEF Fire
<1>2. active \notin Timers /\ \A f \in Flushers : writer[f].pc # "waiting"
  BY <1>1, OneOrTheOther DEF Orderly, OneWrites
<1>3. \A v \in Writers : v # w => writer'[v] = writer[v]
  <2>1. w \in Writers
    BY OneOrTheOther
  <2> QED BY <2>1, FireDoes DEF Typed
<1>4. OneWrites'
  <2>1. CASE UNCHANGED writer /\ active' = None
    BY <1>1, <1>2, <2>1, NoneIs, OneOrTheOther DEF Orderly, OneWrites, Writing
  <2>2. CASE writer'[w].pc = "writing" /\ active' = w
    BY <1>1, <1>2, <1>3, <2>2, OneOrTheOther DEF Orderly, OneWrites, Writing
  <2> QED BY <2>1, <2>2, FireDoes DEF Takes
<1>5. InOrder'
  <2>1. CASE Rests
    BY <2>1 DEF Rests, SameDrain, Orderly, InOrder
  <2>2. CASE Takes(w)
    BY <1>1, <2>2, OneOrTheOther, TakenFollows DEF Writing, Orderly
  <2> QED BY <2>1, <2>2, FireDoes
<1>6. ASSUME NEW f \in Flushers PROVE Needs(f)'
  <2>1. writer'[f] = writer[f]
    BY <1>3, OneOrTheOther
  <2>2. \A e : Kept(e) => Kept(e)'
    BY <1>1 DEF Kept
  <2> QED BY <1>1, <2>1, <2>2, OneOrTheOther, NeedsSame DEF SameDrain, Orderly, Durable
<1> QED BY <1>4, <1>5, <1>6 DEF Orderly, Durable

\* Files in order, one after the other.
LEMMA CatSorted ==
    ASSUME NEW s \in Seq(Lines), NEW t \in Seq(Lines), Sorted(s), Sorted(t),
           \A i \in 1 .. Len(s), j \in 1 .. Len(t) : s[i] < t[j]
    PROVE  Sorted(s \o t)
<1> DEFINE u == s \o t
<1>1. /\ Len(u) = Len(s) + Len(t) /\ Len(s) \in Nat /\ Len(t) \in Nat
      /\ \A i \in 1 .. Len(s) : u[i] = s[i]
      /\ \A i \in Len(s) + 1 .. Len(u) :
            i - Len(s) \in 1 .. Len(t) /\ u[i] = t[i - Len(s)]
  BY CatIs
<1> HIDE DEF u
<1>2. ASSUME NEW i \in 1 .. Len(u), NEW j \in 1 .. Len(u), i < j PROVE u[i] < u[j]
  <2>1. CASE i \in 1 .. Len(s) /\ j \in 1 .. Len(s)
    BY <1>1, <1>2, <2>1 DEF Sorted
  <2>2. CASE i \in 1 .. Len(s) /\ j \in Len(s) + 1 .. Len(u)
    BY <1>1, <2>2
  <2>3. CASE i \in Len(s) + 1 .. Len(u) /\ j \in Len(s) + 1 .. Len(u)
    <3>1. i - Len(s) < j - Len(s)
      BY <1>1, <1>2, <2>3
    <3> QED BY <1>1, <2>3, <3>1 DEF Sorted
  <2> QED BY <1>1, <1>2, <2>1, <2>2, <2>3
<1> QED BY <1>2 DEF Sorted, u

LEMMA LandOrders ==
    ASSUME Typed, Parted, Orderly, NEW w \in Writers, Land(w)
    PROVE  Orderly'
<1>1. /\ Lands(w) /\ writer[w].pc = "writing" /\ writer'[w].pc = "landed"
      /\ writer'[w].need = writer[w].need
      /\ \A v \in Writers : v # w => writer'[v] = writer[v]
      /\ UNCHANGED <<active, made>>
  BY LandDoes DEF Land
<1>2. \A v \in Writers : Writing(v)' <=> Writing(v)
  BY <1>1 DEF Writing
<1>3. \A v \in Writers : v # w => ~Writing(v)
  BY <1>1 DEF Writing, Orderly, OneWrites
<1>4. OneWrites'
  BY <1>1, <1>2, OneOrTheOther DEF Orderly, OneWrites
<1>5. InOrder'
  <2>1. /\ file \in Seq(Lines) /\ writer[w].batch \in Seq(Lines)
        /\ file' = file \o writer[w].batch
    BY <1>1, WriterIs DEF Lands, Typed, Lines
  <2>2. /\ Sorted(file) /\ Sorted(writer[w].batch)
        /\ \A i \in 1 .. Len(file), j \in 1 .. Len(writer[w].batch) :
              file[i] < writer[w].batch[j]
    BY <1>1 DEF Orderly, InOrder
  <2>3. Sorted(file')
    BY <2>1, <2>2, CatSorted
  <2> QED BY <1>1, <1>3, <2>3 DEF InOrder, Writing
<1>6. \A e : Kept(e)' <=> Kept(e) \/ Holds(w, e)
  BY <1>1, LandParts
<1>7. ASSUME NEW f \in Flushers PROVE Needs(f)'
  <2>1. CASE f = w
    BY <1>1, <1>6, <2>1 DEF Orderly, Durable, Needs
  <2>2. CASE f # w
    <3>1. writer'[f] = writer[f]
      BY <1>1, <2>2, OneOrTheOther
    <3> QED BY <1>1, <1>6, <3>1, OneOrTheOther, NeedsSame DEF SameDrain, Orderly, Durable
  <2> QED BY <2>1, <2>2
<1> QED BY <1>4, <1>5, <1>7 DEF Orderly, Durable

\* The drain of a timer is over; who waited for it waited for this one.
LEMMA TimerOrders ==
    ASSUME Typed, Waits, Orderly, NEW w \in Timers, Writing(w),
           NEW at \in {"woken", "failed"},
           Wakes(w, at),
           active' \notin Timers, UNCHANGED <<made, file>>, lost \subseteq lost'
    PROVE  Orderly'
<1>1. writer'[w].pc = "idle" /\ w \in Writers
  BY WokenTyped, UnusedIs DEF WriterPcs, Wakes, Writers
<1>2. active = w /\ \A v \in Writers : v # w => ~Writing(v)
  BY <1>1 DEF Orderly, OneWrites
<1>3. ASSUME NEW v \in Writers PROVE ~Writing(v)'
  <2>1. CASE v = w
    BY <1>1, <2>1 DEF Writing
  <2>2. CASE v # w
    BY <1>2, <2>2, WokenDoes DEF Writing
  <2> QED BY <2>1, <2>2
<1>4. ASSUME NEW f \in Flushers
      PROVE  /\ writer'[f].pc \notin {"waiting", "tracked"}
             /\ writer'[f].need = writer[f].need /\ SameDrain(f)
             /\ writer'[f].pc \in {"landed", "done"} => writer[f].pc = writer'[f].pc
  <2>1. f # w /\ f \in Writers
    BY OneOrTheOther
  <2>2. CASE writer[f].wait = w
    BY <2>1, <2>2, WokenDoes
  <2>3. CASE writer[f].wait # w
    <3>1. writer'[f] = writer[f]
      BY <2>1, <2>3, WokenDoes
    <3>2. writer[f].pc \notin {"waiting", "tracked"}
      BY <1>2, <2>3 DEF Orderly, OneWrites
    <3> QED BY <3>1, <3>2 DEF SameDrain
  <2> QED BY <2>2, <2>3
<1>5. OneWrites'
  BY <1>3, <1>4, OneOrTheOther DEF OneWrites
<1>6. InOrder'
  BY <1>3 DEF InOrder, Orderly, Writing
<1>7. ASSUME NEW f \in Flushers PROVE Needs(f)'
  <2>1. \A e : Kept(e) => Kept(e)'
    BY DEF Kept
  <2> QED BY <1>4, <2>1, OneOrTheOther, NeedsSame DEF Orderly, Durable
<1> QED BY <1>5, <1>6, <1>7 DEF Orderly, Durable

\* ... and that of a flush.
LEMMA FlusherOrders ==
    ASSUME Typed, Orderly, NEW w \in Flushers, Writing(w),
           \A v \in Writers : v # w => writer'[v] = writer[v],
           writer'[w].need = writer[w].need,
           \/ writer'[w].pc = "failed"
           \/ writer'[w].pc = "done" /\ writer[w].pc = "landed",
           UNCHANGED <<made, file, active>>, lost \subseteq lost'
    PROVE  Orderly'
<1>1. w \in Writers /\ w \notin Timers
  BY OneOrTheOther
<1>2. active \notin Timers /\ \A v \in Writers : v # w => ~Writing(v)
  BY <1>1, OneOrTheOther DEF Orderly, OneWrites
<1>3. \A v \in Writers : ~Writing(v)'
  BY <1>2 DEF Writing
<1>4. OneWrites'
  BY <1>1, <1>2, <1>3, OneOrTheOther DEF Orderly, OneWrites
<1>5. InOrder'
  BY <1>3 DEF InOrder, Orderly, Writing
<1>6. \A e : Kept(e) => Kept(e)'
  BY DEF Kept
<1>7. ASSUME NEW f \in Flushers PROVE Needs(f)'
  <2>1. CASE f = w
    BY <1>6, <2>1 DEF Orderly, Durable, Needs
  <2>2. CASE f # w
    <3>1. writer'[f] = writer[f]
      BY <2>2, OneOrTheOther
    <3> QED BY <1>6, <3>1, OneOrTheOther, NeedsSame DEF SameDrain, Orderly, Durable
  <2> QED BY <2>1, <2>2
<1> QED BY <1>4, <1>5, <1>7 DEF Orderly, Durable

LEMMA ResolveOrders ==
    ASSUME Typed, Waits, Orderly, Untouched, NEW w \in Writers, Resolve(w)
    PROVE  Orderly'
<1>1. Writing(w) /\ writer[w].pc = "landed" /\ UNCHANGED <<made, file, lost>>
  BY DEF Resolve, Writing
<1>2. CASE w \in Timers
  BY <1>1, <1>2, NoneIs, TimerOrders DEF Resolve, Wakes
<1>3. CASE w \notin Timers
  <2>1. writer' = [writer EXCEPT ![w] = Flushed(w)] /\ active' = active
    BY <1>3 DEF Resolve
  <2>2. ~Tracked
    BY DEF Tracked, Untouched
  <2>3. Flushed(w).pc = "done" /\ Flushed(w).need = writer[w].need
    BY <2>2, WriterIs DEF Flushed, WriterStates
  <2>4. /\ \A v \in Writers : v # w => writer'[v] = writer[v]
        /\ writer'[w].need = writer[w].need /\ writer'[w].pc = "done"
    BY <2>1, <2>3 DEF Typed
  <2> QED BY <1>1, <1>3, <2>1, <2>4, OneOrTheOther, FlusherOrders
<1> QED BY <1>2, <1>3

LEMMA FaultOrders ==
    ASSUME Typed, Waits, Orderly, NEW w \in Writers, Fault(w)
    PROVE  Orderly'
<1>1. Writing(w) /\ UNCHANGED <<made, file>> /\ lost \subseteq lost'
  BY DEF Fault, Writing
<1>2. CASE w \in Timers
  <2>1. active = w
    BY <1>1, <1>2 DEF Orderly, OneWrites
  <2> QED BY <1>1, <1>2, <2>1, NoneIs, TimerOrders DEF Fault, Wakes
<1>3. CASE w \notin Timers
  <2>1. writer' = [writer EXCEPT ![w] = [writer[w] EXCEPT !.pc = "failed", !.batch = <<>>]]
        /\ active' = active
    BY <1>3 DEF Fault, Typed
  <2>2. /\ \A v \in Writers : v # w => writer'[v] = writer[v]
        /\ writer'[w].need = writer[w].need /\ writer'[w].pc = "failed"
    BY <2>1, WriterIs DEF Typed, WriterStates
  <2> QED BY <1>1, <1>3, <2>1, <2>2, OneOrTheOther, FlusherOrders
<1> QED BY <1>2, <1>3

\* A flush goes on, with no drain under way.
LEMMA GoesOnOrders ==
    ASSUME Typed, Typed', Parted, Parted', Orderly, ~Tracked, NEW f \in Flushers,
           \A g \in Flushers : g = f, \A v \in Writers : ~Writing(v),
           \A v \in Writers : v # f => writer'[v] = writer[v],
           writer'[f].need \subseteq 1 .. made, active' = active,
           \/ /\ queue = <<>> /\ Rests
              /\ writer'[f].pc = IF Tracked THEN "tracked" ELSE "done"
           \/ queue # <<>> /\ Takes(f) /\ writer'[f].pc = "writing"
    PROVE  Orderly'
<1>1. f \in Writers /\ f \notin Timers /\ active \notin Timers
  BY OneOrTheOther DEF Orderly, OneWrites
<1>2. \A v \in Writers : v # f => ~Writing(v)'
  BY DEF Writing
<1>3. writer'[f].pc \in {"writing", "done"} /\ queue' = <<>> /\ UNCHANGED <<made, file>>
  BY DEF Takes, Rests
<1>4. OneWrites'
  BY <1>1, <1>2, <1>3, OneOrTheOther DEF OneWrites, Orderly
<1>5. InOrder'
  <2>1. CASE Rests
    BY <2>1 DEF Rests, SameDrain, Orderly, InOrder
  <2>2. CASE Takes(f)
    BY <1>1, <2>2, TakenFollows DEF Writing, Orderly
  <2> QED BY <2>1, <2>2
<1>6. Needs(f)'
  <2>1. \A v \in Writers : v # f => writer'[v].pc # "writing"
    BY <1>2 DEF Writing
  <2> QED BY <1>1, <1>3, <2>1, NeedsMet
<1> QED BY <1>4, <1>5, <1>6 DEF Orderly, Durable

LEMMA FlushOrders ==
    ASSUME Typed, Typed', Parted, Parted', Orderly, Untouched,
           Cardinality(Flushers) <= 1, NEW f \in Flushers, Flush(f)
    PROVE  Orderly'
<1>1. /\ \A g \in Flushers : g = f
      /\ f \in Writers /\ f \notin Timers
  BY OneFlusher, OneOrTheOther
<1>2. /\ writer[f].pc = "idle" /\ ~Tracked
      /\ UNCHANGED <<made, active, file, lost>>
  BY DEF Flush, Tracked, Untouched
<1>3. /\ \A v \in Writers : v # f => writer'[v] = writer[v]
      /\ writer'[f].need = 1 .. made
  BY FlushDoes
<1>4. CASE active = None
  <2>1. \A v \in Writers : ~Writing(v)
    BY <1>1, <1>2, <1>4, NoneIs, OneOrTheOther DEF Writing, Orderly, OneWrites
  <2> QED BY <1>1, <1>2, <1>3, <1>4, <2>1, NoneIs, FlushDoes, GoesOnOrders
<1>5. CASE active # None
  <2>1. /\ Rests
        /\ \/ writer'[f].pc = "failed"
           \/ active \in Timers /\ writer'[f].pc = "waiting" /\ writer'[f].wait = active
    BY <1>5, FlushDoes
  <2>2. \A v \in Writers : Writing(v)' <=> Writing(v)
    BY <1>1, <1>2, <1>3, <2>1 DEF Writing
  <2>3. OneWrites'
    BY <1>1, <1>2, <2>1, <2>2, OneOrTheOther DEF Orderly, OneWrites
  <2>4. InOrder'
    BY <2>1 DEF Rests, SameDrain, Orderly, InOrder
  <2>5. Needs(f)'
    BY <1>2, <1>3, <2>1 DEF Needs
  <2> QED BY <1>1, <2>3, <2>4, <2>5 DEF Orderly, Durable
<1> QED BY <1>4, <1>5

LEMMA FlushWokenOrders ==
    ASSUME Typed, Typed', Parted, Parted', Orderly, Untouched,
           Cardinality(Flushers) <= 1, NEW f \in Flushers, FlushWoken(f)
    PROVE  Orderly'
<1>1. \A g \in Flushers : g = f
  BY OneFlusher
<1>2. /\ writer[f].pc = "woken" /\ ~Tracked /\ active' = active
  BY DEF FlushWoken, Tracked, Untouched
<1>3. \A v \in Writers : ~Writing(v)
  BY <1>2 DEF Orderly, OneWrites
<1>4. writer[f].need \subseteq 1 .. made
  BY DEF Orderly, Durable, Needs
<1> QED BY <1>1, <1>2, <1>3, <1>4, FlushWokenDoes, GoesOnOrders
LEMMA InitOrdered == TQInit => Orderly
<1> SUFFICES ASSUME TQInit PROVE Orderly
  OBVIOUS
<1>1. \A w \in Writers : writer[w].pc = "idle" /\ writer[w].need = {}
  BY UnusedIs DEF TQInit
<1>2. \A w \in Writers : ~Writing(w)
  BY <1>1 DEF Writing
<1>3. active \notin Timers /\ file = <<>>
  BY NoneIs DEF TQInit
<1>4. OneWrites
  BY <1>1, <1>2, <1>3, OneOrTheOther DEF OneWrites
<1>5. InOrder
  BY <1>1, <1>3 DEF InOrder, Sorted
<1>6. Durable
  BY <1>1, OneOrTheOther DEF Durable, Needs
<1> QED BY <1>4, <1>5, <1>6 DEF Orderly

LEMMA NextOrdered ==
    ASSUME Typed, Waits, Untouched => Parted, Calm => Orderly, [TQNext]_tqVars,
           Typed', Untouched' => Parted', Calm'
    PROVE  Orderly'
<1>1. \A t \in Tombstones : ~Cut(t) /\ ~\E e \in Entries : CutRead(t, e)
  BY CutTouches DEF Calm
<1>2. UNCHANGED cut
  BY <1>1 DEF TQNext, tqVars, Append1, Fire, Drain, Land, Resolve, Fault, Flush, FlushWoken
<1>3. UNCHANGED swift
  BY <1>1 DEF TQNext, tqVars, Append1, Fire, Drain, Land, Resolve, Fault, Flush, FlushWoken
<1>4. /\ swift /\ Untouched /\ Cardinality(Flushers) <= 1 /\ Orderly
      /\ Parted /\ Parted'
  BY <1>2, <1>3 DEF Calm, Untouched
<1>5. CASE Append1
  BY <1>4, <1>5, AppendOrders
<1>6. ASSUME NEW w \in Timers, Fire(w) PROVE Orderly'
  BY <1>4, <1>6, FireOrders
<1>7. ASSUME NEW w \in Writers, Drain(w) \/ Fault(w) PROVE Orderly'
  BY <1>4, <1>7, LandOrders, ResolveOrders, FaultOrders DEF Drain
<1>8. ASSUME NEW f \in Flushers, Flush(f) \/ FlushWoken(f) PROVE Orderly'
  BY <1>4, <1>8, FlushOrders, FlushWokenOrders
<1>9. CASE UNCHANGED tqVars
  <2>1. OneWrites'
    BY <1>4, <1>9 DEF tqVars, Orderly, OneWrites, Writing
  <2>2. InOrder' /\ Durable'
    BY <1>4, <1>9 DEF tqVars, Orderly, InOrder, Durable, Needs, Kept, Holds
  <2> QED BY <2>1, <2>2 DEF Orderly
<1> QED BY <1>1, <1>5, <1>6, <1>7, <1>8, <1>9 DEF TQNext

LEMMA TQInductive == TQInv /\ [TQNext]_tqVars => TQInv'
<1> SUFFICES ASSUME TQInv, [TQNext]_tqVars PROVE TQInv'
  OBVIOUS
<1>1. Typed' /\ Waits'
  BY NextTyped, NextWaits DEF TQInv
<1>2. Untouched' => Parted'
  BY NextParted DEF TQInv
<1>3. Calm' => Orderly'
  BY <1>1, <1>2, NextOrdered DEF TQInv
<1> QED BY <1>1, <1>2, <1>3 DEF TQInv

LEMMA TQInvHolds == TQSpec => []TQInv
<1>1. TQInit => TQInv
  BY InitTyped, InitParted, InitOrdered DEF TQInv
<1> QED BY <1>1, TQInductive, PTL DEF TQSpec

\* Entries in a sequence of distinct ones, counted.
LEMMA CountIs ==
    ASSUME NEW s \in Seq(Lines), Distinct(s), NEW e
    PROVE  Cardinality({i \in DOMAIN s : s[i] = e}) = IF In(s, e) THEN 1 ELSE 0
<1>1. DOMAIN s = 1 .. Len(s)
  OBVIOUS
<1>2. CASE In(s, e)
  <2>1. PICK i \in 1 .. Len(s) : s[i] = e
    BY <1>2 DEF In
  <2>2. {j \in DOMAIN s : s[j] = e} = {i}
    BY <1>1, <2>1 DEF Distinct
  <2> QED BY <1>2, <2>2, FS_Singleton
<1>3. CASE ~In(s, e)
  <2>1. {j \in DOMAIN s : s[j] = e} = {}
    BY <1>1, <1>3 DEF In
  <2> QED BY <1>3, <2>1, FS_EmptySet
<1> QED BY <1>2, <1>3

LEMMA TypedTypes == Typed => TQTypeOK
<1> SUFFICES ASSUME Typed PROVE TQTypeOK
  OBVIOUS
<1>1. queue \in SeqOf(Entries, NumEntries)
  <2>1. Len(queue) \in 0 .. NumEntries /\ queue \in [1 .. Len(queue) -> Entries]
    BY TranscriptAssumption DEF Typed, QueueTyped
  <2> QED BY <2>1 DEF SeqOf
<1>2. \A w \in Writers :
          /\ writer[w].pc \in {"idle", "waiting", "woken", "writing", "landed",
                               "tracked", "done", "failed"}
          /\ Range(writer[w].batch) \subseteq Entries
          /\ writer[w].wait \in Timers \cup {None}
          /\ writer[w].need \subseteq Entries
  BY WriterIs DEF WriterPcs, Range
<1>3. \A t \in Tombstones :
          /\ cut[t].pc \in {"idle", "read", "truncated", "closing", "done"}
          /\ cut[t].target \in Entries \cup {Hole}
  BY DEF Typed, CutStates, Lines
<1>4. Range(file) \subseteq Entries \cup {Hole}
  BY DEF Typed, Lines, Range
<1> QED BY <1>1, <1>2, <1>3, <1>4 DEF TQTypeOK, Typed, QueueTyped

LEMMA PartedKeeps == Typed /\ (Untouched => Parted) => NothingIsLost
<1> SUFFICES ASSUME Typed, Parted, NEW e \in 1 .. made
             PROVE  Cardinality({i \in DOMAIN file : file[i] = e})
                    + Cardinality({i \in DOMAIN queue : queue[i] = e})
                    + Cardinality({w \in Writers : writer[w].pc = "writing"
                                              /\ e \in Range(writer[w].batch)})
                    + (IF e \in lost THEN 1 ELSE 0) = 1
  BY DEF NothingIsLost
<1> DEFINE H == {w \in Writers : Holds(w, e)}
           nFile == Cardinality({i \in DOMAIN file : file[i] = e})
           nQueue == Cardinality({i \in DOMAIN queue : queue[i] = e})
           nHeld == Cardinality({w \in Writers : writer[w].pc = "writing"
                                              /\ e \in Range(writer[w].batch)})
<1>1. nHeld = Cardinality(H)
  <2>1. {w \in Writers : writer[w].pc = "writing" /\ e \in Range(writer[w].batch)} = H
    BY WriterIs DEF Holds, In, Range
  <2> QED BY <2>1
<1>2. nFile = IF In(file, e) THEN 1 ELSE 0
  <2>1. file \in Seq(Lines) /\ Distinct(file)
    BY DEF Typed, Parted
  <2> QED BY <2>1, CountIs
<1>3. nQueue = IF e \in Taken THEN 0 ELSE 1
  <2>1. queue \in Seq(Lines) /\ Distinct(queue)
    BY QueueIs DEF Typed, QueueTyped, Lines
  <2>2. In(queue, e) <=> e \notin Taken
    BY QueueIs DEF Typed, In
  <2> QED BY <2>1, <2>2, CountIs
<1>4. /\ e \in lost => e \in Taken
      /\ In(file, e) => e \in Taken
      /\ ~(In(file, e) /\ e \in lost)
  BY DEF Parted, In
<1>5. CASE e \in Taken /\ ~Kept(e)
  <2>1. PICK w \in Writers : Holds(w, e)
    BY <1>5 DEF Parted
  <2>2. H = {w}
    BY <1>5, <2>1 DEF Parted
  <2>3. Cardinality(H) = 1
    BY <2>2, FS_Singleton
  <2>4. ~In(file, e) /\ e \notin lost
    BY <1>5 DEF Kept
  <2> HIDE DEF H, nFile, nQueue, nHeld
  <2>5. nFile + nQueue + nHeld + (IF e \in lost THEN 1 ELSE 0) = 1
    BY <1>1, <1>2, <1>3, <1>5, <2>3, <2>4
  <2> QED BY <2>5 DEF nFile, nQueue, nHeld
<1>6. CASE e \notin Taken \/ Kept(e)
  <2>1. H = {}
    BY <1>6 DEF Parted, Holds, In
  <2>2. Cardinality(H) = 0
    BY <2>1, FS_EmptySet
  <2>3. e \in Taken <=> In(file, e) \/ e \in lost
    BY <1>4, <1>6 DEF Kept
  <2> HIDE DEF H, nFile, nQueue, nHeld
  <2>4. nFile + nQueue + nHeld + (IF e \in lost THEN 1 ELSE 0) = 1
    BY <1>1, <1>2, <1>3, <1>4, <2>2, <2>3
  <2> QED BY <2>4 DEF nFile, nQueue, nHeld
<1> QED BY <1>5, <1>6

\* The queue drops nothing and repeats nothing, for any number of entries, of
\* callers of flush() and of drains, however they interleave and whichever
\* appends fail; the batch and the queue of class Project never share an entry.
THEOREM QueueLosesNothing == TQSpec => []QueueInv
<1>1. TQInv => QueueInv
  BY TypedTypes, PartedKeeps DEF TQInv, QueueInv
<1> QED BY <1>1, TQInvHolds, PTL

LEMMA OrderlyPrefix ==
    ASSUME Typed, Parted, Orderly, NEW e \in Range(file), NEW d \in 1 .. made,
           d < e, d \notin lost
    PROVE  \E i, j \in DOMAIN file : i < j /\ file[i] = d /\ file[j] = e
<1>1. DOMAIN file = 1 .. Len(file)
  BY DEF Typed
<1>2. PICK j \in 1 .. Len(file) : file[j] = e
  BY <1>1 DEF Range
<1>3. made \in Nat /\ Len(queue) \in Nat /\ e \in Taken
  BY <1>2 DEF Typed, QueueTyped, Parted
<1>4. d \in Taken
  BY <1>3 DEF Taken
<1>5. \A w \in Writers : ~Holds(w, d)
  BY <1>2, <1>3 DEF Holds, In, Orderly, InOrder, Taken
<1>6. PICK i \in 1 .. Len(file) : file[i] = d
  BY <1>4, <1>5 DEF Parted, Kept, In
<1>7. i < j
  <2>1. i # j /\ (j < i => e < d)
    BY <1>2, <1>6 DEF Orderly, InOrder, Sorted
  <2> QED BY <1>3, <2>1 DEF Taken
<1> QED BY <1>1, <1>2, <1>6, <1>7

\* Wherever the process dies, the file has no gap and no two lines out of
\* order, and a flush() that resolved has put on the disk all that was queued
\* before it, for any number of entries and of drains.
THEOREM FileStaysWhole == TQSpec => []FileIsWhole
<1>1. TQInv => CrashLeavesAPrefix
  BY OrderlyPrefix DEF TQInv, CrashLeavesAPrefix, Calm
<1>2. TQInv => FlushIsDurable
  BY DEF TQInv, FlushIsDurable, Orderly, Durable, Needs, Kept, In, Range, Typed
<1>3. TQInv => FileIsWhole
  BY <1>1, <1>2 DEF FileIsWhole
<1> QED BY <1>3, TQInvHolds, PTL
=============================================================================
