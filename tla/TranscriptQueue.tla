-------------------------- MODULE TranscriptQueue --------------------------
(***************************************************************************)
(* How the session transcript reaches the disk: class Project of           *)
(* utils/sessionStorage.ts.  Entries are queued and a timer drains the     *)
(* queue into the session's JSONL file; flush() drains it at once, when    *)
(* the session ends (the cleanup handler) or after a turn; and a           *)
(* tombstone cuts one message out of the file.  All of them run in one     *)
(* process, but every access to the file is awaited, and in between the    *)
(* others go on.                                                           *)
(*                                                                         *)
(* An entry is one line, and lines have one length; a batch is appended by *)
(* one write.  The process may die in any state, so what an invariant says *)
(* of the file it says of what --resume finds.                             *)
(***************************************************************************)
EXTENDS Naturals, Sequences, FiniteSets, SequencesExt

CONSTANTS NumEntries,   \* entries of the session, in the order queued
          Flushers,     \* callers of flush()
          Timers,       \* drains by the timer that may be under way at once
          Tombstones,   \* calls of removeMessageByUuid
          MaxFaults,    \* appends that fail
          None,
          Failed        \* activeDrain is a promise that was rejected

Writers == Flushers \cup Timers
Entries == 1 .. NumEntries
Hole == 0               \* the NUL bytes of a truncate past the end

ASSUME TranscriptAssumption ==
    /\ NumEntries \in Nat /\ MaxFaults \in Nat
    /\ IsFiniteSet(Writers) /\ IsFiniteSet(Tombstones)
    /\ Flushers \cap Timers = {}
    /\ None \notin Writers /\ Failed \notin Writers \cup {None}

VARIABLES
    made,     \* entries queued so far
    queue,    \* writeQueues, of the session file
    timer,    \* flushTimer is set
    active,   \* activeDrain
    writer,   \* the drains, and the flushes that wait for one
    cut,      \* the tombstones
    file,     \* the lines of the session file
    lost,     \* history: entries whose append failed
    faults,   \* appends that failed (bounded by MaxFaults)
    swift     \* appends take less than FLUSH_INTERVAL_MS

tqVars == <<made, queue, timer, active, writer, cut, file, lost, faults, swift>>

\* wait is the drain that a flush awaits, need what was queued before it.
Unused == [pc |-> "idle", batch |-> <<>>, wait |-> None, need |-> {}]
\* What a tombstone has read: it will keep the lines before pos, and write
\* rest after them.
Uncut == [pc |-> "idle", target |-> Hole, pos |-> 1, rest |-> <<>>]

TQInit ==
    /\ made = 0 /\ queue = <<>> /\ timer = FALSE /\ active = None
    /\ writer = [w \in Writers |-> Unused]
    /\ cut = [t \in Tombstones |-> Uncut]
    /\ file = <<>> /\ lost = {} /\ faults = 0
    /\ swift \in BOOLEAN

Writing(w) == writer[w].pc \in {"writing", "landed"}
\* pendingWriteCount is not zero.  The calls that hand entries to appendEntry
\* (insertMessageChain and its like) are counted too, until they have queued
\* them; here an entry is queued at once.
Tracked == \E t \in Tombstones : cut[t].pc \notin {"idle", "done"}

-----------------------------------------------------------------------------
(***************************************************************************)
(* The queue and its drains.                                               *)
(***************************************************************************)

\* appendEntry, enqueueWrite and scheduleDrain.
Append1 ==
    /\ made < NumEntries
    /\ made' = made + 1
    /\ queue' = Append(queue, made')
    /\ timer' = TRUE
    /\ UNCHANGED <<active, writer, cut, file, lost, faults, swift>>

\* A mutant of Begun: the queue is emptied only when the batch is written.
BegunLate(w, s) == /\ writer' = [writer EXCEPT ![w] = s]
                   /\ queue' = queue

\* drainWriteQueue splices the queue into the drain's batch, s the drain's
\* state.
Begun(w, s) == /\ writer' = [writer EXCEPT ![w] = s]
               /\ queue' = <<>>

\* The timer fires: its drain becomes the active one, over any other.  The
\* continuation of a promise runs before any timer.
Fire(w) ==
    /\ timer /\ writer[w].pc = "idle"
    /\ \A f \in Flushers : writer[f].pc # "woken"
    /\ swift => \A v \in Writers : ~Writing(v)
    /\ timer' = FALSE
    /\ IF queue = <<>>
       THEN /\ active' = None
            /\ UNCHANGED <<writer, queue>>
       ELSE /\ active' = w
            /\ Begun(w, [Unused EXCEPT !.pc = "writing", !.batch = queue])
    /\ UNCHANGED <<made, cut, file, lost, faults, swift>>

\* The bytes of an append are in the file.
Land(w) ==
    /\ writer[w].pc = "writing"
    /\ file' = file \o writer[w].batch
    /\ writer' = [writer EXCEPT ![w].pc = "landed"]
    /\ UNCHANGED <<made, queue, timer, active, cut, lost, faults, swift>>

\* The flushes that await drain w go on as pc.
Woken(w, pc) == [f \in Writers |-> IF writer[f].wait = w
                                   THEN [writer[f] EXCEPT !.pc = pc, !.wait = None]
                                   ELSE writer[f]]

\* A flush has drained: it waits for the tombstones, if there are any.
Flushed(f) == [writer[f] EXCEPT !.pc = IF Tracked THEN "tracked" ELSE "done",
                                !.batch = <<>>]

\* The append resolves.  The timer's drain clears activeDrain, whoever that
\* is by now, and a queue that has filled is scheduled.
Resolve(w) ==
    /\ writer[w].pc = "landed"
    /\ IF w \in Timers
       THEN /\ writer' = [Woken(w, "woken") EXCEPT ![w] = Unused]
            /\ active' = None
            /\ timer' = (timer \/ queue # <<>>)
       ELSE /\ writer' = [writer EXCEPT ![w] = Flushed(w)]
            /\ UNCHANGED <<active, timer>>
    /\ UNCHANGED <<made, queue, cut, file, lost, faults, swift>>

\* The append fails, and so does its second try after mkdir.  The batch was
\* taken from the queue and is gone; nothing clears activeDrain.
Fault(w) ==
    /\ writer[w].pc = "writing" /\ faults < MaxFaults
    /\ faults' = faults + 1
    /\ lost' = lost \cup Range(writer[w].batch)
    /\ IF w \in Timers
       THEN /\ writer' = [Woken(w, "failed") EXCEPT ![w] = Unused]
            /\ active' = IF active = w THEN Failed ELSE active
       ELSE /\ writer' = [writer EXCEPT ![w].pc = "failed", ![w].batch = <<>>]
            /\ UNCHANGED active
    /\ UNCHANGED <<made, queue, timer, cut, file, swift>>

-----------------------------------------------------------------------------
(***************************************************************************)
(* flush().                                                                *)
(***************************************************************************)

\* The rest of flush() once no drain is active; s is the flush so far.
Drained(f, s) ==
    IF queue = <<>>
    THEN /\ writer' = [writer EXCEPT ![f] =
                          [s EXCEPT !.pc = IF Tracked THEN "tracked" ELSE "done"]]
         /\ UNCHANGED queue
    ELSE Begun(f, [s EXCEPT !.pc = "writing", !.batch = queue])

Called == [Unused EXCEPT !.need = 1 .. made]

\* Mutants of Flush: does not wait for the active drain; waits for it, and
\* leaves what was queued since.
FlushAtOnce(f) ==
    /\ writer[f].pc = "idle" /\ timer' = FALSE
    /\ Drained(f, Called)
    /\ UNCHANGED <<made, active, cut, file, lost, faults, swift>>
FlushOnlyWaits(f) ==
    /\ writer[f].pc = "idle" /\ timer' = FALSE
    /\ IF active \in Writers
       THEN /\ writer' = [writer EXCEPT ![f] = [Called EXCEPT !.pc = "tracked"]]
            /\ UNCHANGED queue
       ELSE Drained(f, Called)
    /\ UNCHANGED <<made, active, cut, file, lost, faults, swift>>

\* The timer is cancelled, and the active drain, if any, is awaited; a
\* rejected one rejects the flush.
Flush(f) ==
    /\ writer[f].pc = "idle"
    /\ timer' = FALSE
    /\ CASE active = None -> Drained(f, Called)
         [] active = Failed ->
               /\ writer' = [writer EXCEPT ![f] = [Called EXCEPT !.pc = "failed"]]
               /\ UNCHANGED queue
         [] OTHER ->
               /\ writer' = [writer EXCEPT ![f] =
                                [Called EXCEPT !.pc = "waiting", !.wait = active]]
               /\ UNCHANGED queue
    /\ UNCHANGED <<made, active, cut, file, lost, faults, swift>>

FlushWoken(f) ==
    /\ writer[f].pc = "woken"
    /\ Drained(f, writer[f])
    /\ UNCHANGED <<made, timer, active, cut, file, lost, faults, swift>>

-----------------------------------------------------------------------------
(***************************************************************************)
(* removeMessageByUuid.                                                    *)
(***************************************************************************)

\* Where e is last in s, and the lines of s but e.
LastIn(s, e) == CHOOSE i \in DOMAIN s :
                    s[i] = e /\ \A j \in DOMAIN s : s[j] = e => j <= i
Before(s, e, i) == Cardinality({j \in 1 .. i : s[j] # e})
Without(s, e) ==
    [k \in 1 .. Before(s, e, Len(s)) |->
        s[CHOOSE i \in DOMAIN s : s[i] # e /\ Before(s, e, i) = k]]

\* The file is read.  A target in the tail is cut out in place; one further
\* up, or in no line yet, has the whole file written anew without it.
CutRead(t, e) ==
    /\ cut[t].pc = "idle"
    /\ e <= made /\ \A u \in Tombstones : cut[u].target # e
    /\ IF file = <<>>
       THEN cut' = [cut EXCEPT ![t] = [Uncut EXCEPT !.pc = "closing", !.target = e]]
       ELSE \/ cut' = [cut EXCEPT ![t] =
                          [pc |-> "read", target |-> e, pos |-> 1,
                           rest |-> Without(file, e)]]
            \/ /\ e \in Range(file)
               /\ LET i == LastIn(file, e)
                  IN  cut' = [cut EXCEPT ![t] =
                                 [pc |-> "read", target |-> e, pos |-> i,
                                  rest |-> SubSeq(file, i + 1, Len(file))]]
    /\ UNCHANGED <<made, queue, timer, active, writer, file, lost, faults,
                   swift>>

\* ftruncate, to more than the file has if it has shrunk since, or the
\* O_TRUNC of writeFile.
CutTruncate(t) ==
    /\ cut[t].pc = "read"
    /\ file' = [i \in 1 .. cut[t].pos - 1 |->
                   IF i \in DOMAIN file THEN file[i] ELSE Hole]
    /\ cut' = [cut EXCEPT ![t].pc =
                  IF cut[t].rest = <<>> THEN "closing" ELSE "truncated"]
    /\ UNCHANGED <<made, queue, timer, active, writer, lost, faults, swift>>

\* The lines after the target are written at its place, over what has come
\* there since.
CutWrite(t) ==
    /\ cut[t].pc = "truncated"
    /\ LET p == cut[t].pos  r == cut[t].rest  end == p - 1 + Len(r)
       IN  file' = [i \in 1 .. IF end > Len(file) THEN end ELSE Len(file) |->
                       CASE i \in p .. end -> r[i - p + 1]
                         [] i \in DOMAIN file \ (p .. end) -> file[i]
                         [] OTHER -> Hole]
    /\ cut' = [cut EXCEPT ![t].pc = "closing"]
    /\ UNCHANGED <<made, queue, timer, active, writer, lost, faults, swift>>

\* A mutant of CutEnd: the count falls and no flush is told.
CutEndSilent(t) ==
    /\ cut[t].pc = "closing"
    /\ cut' = [cut EXCEPT ![t].pc = "done"]
    /\ UNCHANGED <<made, queue, timer, active, writer, file, lost, faults, swift>>

\* decrementPendingWrites: the last one resolves the flushes that wait.
CutEnd(t) ==
    /\ cut[t].pc = "closing"
    /\ cut' = [cut EXCEPT ![t].pc = "done"]
    /\ writer' = [f \in Writers |->
                     IF writer[f].pc = "tracked"
                        /\ \A u \in Tombstones \ {t} : cut[u].pc \in {"idle", "done"}
                     THEN [writer[f] EXCEPT !.pc = "done"] ELSE writer[f]]
    /\ UNCHANGED <<made, queue, timer, active, file, lost, faults, swift>>

-----------------------------------------------------------------------------
Drain(w) == Land(w) \/ Resolve(w)
Cut(t) == \/ CutTruncate(t) \/ CutWrite(t) \/ CutEnd(t)

TQNext ==
    \/ Append1
    \/ \E w \in Timers : Fire(w)
    \/ \E w \in Writers : Drain(w) \/ Fault(w)
    \/ \E f \in Flushers : Flush(f) \/ FlushWoken(f)
    \/ \E t \in Tombstones : Cut(t) \/ \E e \in Entries : CutRead(t, e)

TQSpec == TQInit /\ [][TQNext]_tqVars

\* Timers fire, appends and the calls of fs end, and promises that are
\* settled are seen; nobody has to append, to flush or to remove.
TQFairSpec ==
    TQSpec /\ WF_tqVars(\/ \E w \in Timers : Fire(w)
                    \/ \E w \in Writers : Drain(w)
                    \/ \E f \in Flushers : FlushWoken(f)
                    \/ \E t \in Tombstones : Cut(t))

-----------------------------------------------------------------------------
(***************************************************************************)
(* Properties.                                                             *)
(***************************************************************************)

\* The types of the variables.
TQTypeOK ==
    /\ made \in 0 .. NumEntries
    /\ queue \in SeqOf(Entries, NumEntries)
    /\ timer \in BOOLEAN /\ swift \in BOOLEAN
    /\ active \in Timers \cup {None, Failed}
    /\ \A w \in Writers :
          /\ writer[w].pc \in {"idle", "waiting", "woken", "writing", "landed",
                               "tracked", "done", "failed"}
          /\ Range(writer[w].batch) \subseteq Entries
          /\ writer[w].wait \in Timers \cup {None}
          /\ writer[w].need \subseteq Entries
    /\ \A t \in Tombstones :
          /\ cut[t].pc \in {"idle", "read", "truncated", "closing", "done"}
          /\ cut[t].target \in Entries \cup {Hole}
    /\ Range(file) \subseteq Entries \cup {Hole}
    /\ lost \subseteq Entries /\ faults \in 0 .. MaxFaults

Untouched == \A t \in Tombstones : cut[t].pc = "idle"

\* An entry that was queued is in one place: the queue, one batch under way,
\* or one line of the file, or its append has failed; no drain drops or
\* repeats one, however the timer, the flushes and the appends interleave.
NothingIsLost ==
    Untouched =>
        \A e \in 1 .. made :
            /\ Cardinality({i \in DOMAIN file : file[i] = e})
               + Cardinality({i \in DOMAIN queue : queue[i] = e})
               + Cardinality({w \in Writers : writer[w].pc = "writing"
                                              /\ e \in Range(writer[w].batch)})
               + (IF e \in lost THEN 1 ELSE 0) = 1

\* What the queue keeps to, besides the order on the disk.
QueueInv == TQTypeOK /\ NothingIsLost

\* Swift appends, one caller of flush at a time and no tombstone.
Calm == swift /\ Untouched /\ Cardinality(Flushers) <= 1

\* Wherever the process dies, the file holds the entries in the order they
\* were queued and without a gap but for failed appends, so every message
\* comes after the one it chains to (useLogMessages.ts:95).
CrashLeavesAPrefix ==
    Calm => \A e \in Range(file), d \in 1 .. made :
               d < e /\ d \notin lost =>
                  \E i, j \in DOMAIN file : i < j /\ file[i] = d /\ file[j] = e

\* When flush() resolves, what was queued before the call is on the disk.
FlushIsDurable ==
    Calm => \A f \in Flushers : writer[f].pc = "done" =>
               writer[f].need \subseteq Range(file) \cup lost

\* What the file holds, at any moment and after a flush
\* (sessionStorage.ts 841-861).
FileIsWhole == CrashLeavesAPrefix /\ FlushIsDurable

\* Every entry that is queued is written in the end, or its append fails; a
\* flush that fails is the exception, for it has cancelled the timer and
\* leaves the queue to the next append.
EveryEntryLands ==
    \A e \in Entries :
        (made >= e) ~> \/ e \in Range(file) \cup lost
                       \/ ~Untouched
                       \/ \E f \in Flushers : writer[f].pc = "failed"

\* flush() returns: neither the drain it waits for nor the tombstones under
\* way leave it hanging, and the exit of the program with it.
FlushReturns ==
    \A f \in Flushers :
        (writer[f].pc # "idle") ~> writer[f].pc \in {"done", "failed"}

\* What query.ts:931 says of tombstones: orphaned messages are "removed from
\* UI and transcript".
TombstonesAreRemoved ==
    \A t \in Tombstones :
        cut[t].pc = "done" => cut[t].target \notin Range(file) \cup Range(queue)

\* ... and nothing else is: the other messages keep their lines.
OthersAreKept ==
    \A e \in 1 .. made :
        \/ \E t \in Tombstones : cut[t].target = e \/ cut[t].pc \notin {"idle", "done"}
        \/ e \in Range(file) \cup Range(queue) \cup lost
        \/ \E w \in Writers : e \in Range(writer[w].batch)
=============================================================================
