------------------------- MODULE SharedFiles_proofs -------------------------
(***************************************************************************)
(* Theorems about the JSON files that several sessions edit in place: the  *)
(* inboxes of the teammates (Mailbox), under a lock, and the scheduled     *)
(* tasks of the project (CronTasks), without one.  Neither is used in a    *)
(* proof about the other.                                                  *)
(*                                                                         *)
(* Mailbox, for any number of messages, of markers and of dying senders:   *)
(* the invariant is IInv.                                                  *)
(*                                                                         *)
(* CronTasks, for any number of sessions, of tasks, of users that create   *)
(* and delete them and of owners that come and go: the invariant is CTInv. *)
(* Begins and Caused are always so: a scheduler that has not loaded the    *)
(* file has fired nothing, and an edit is about tasks that were handed     *)
(* over, deleted or created.  Fresh is so until two edits meet: a task is  *)
(* added by one edit and nobody has seen it before.  Spent needs, besides, *)
(* that the watcher's event and the removal of what was missed come before *)
(* the next tick (Timely): a session that has fired a task is barred from  *)
(* it by its schedule, by its own edit under way, or by the file.          *)
(***************************************************************************)
EXTENDS Mailbox, CronTasks, WellFoundedInduction, SequenceTheorems, TLAPS

CallRecords == [pc : Pcs, copy : Seq(Entries), index : Nat]
ReaderRecords == [pc : {"idle", "read", "mark"}, seen : Seq(Entries), pick : Nat]

-----------------------------------------------------------------------------
(***************************************************************************)
(* The inductive invariant.                                                *)
(***************************************************************************)
\* The call works on the file: it holds the lock.
Works(c) == call[c].pc \in {"read", "open", "write"}

\* The lock is held by the one call that works on the file, or by the call
\* of a sender that died.
Locks ==
    /\ lock \in Calls \cup {Nobody}
    /\ \A c \in Calls : Works(c) => lock = c
    /\ \A c \in Calls : At(c, "dead") => c \in Msgs /\ crashes > 0

\* Somebody relies on what the reader has seen: the reader itself, or the
\* call that marks for it.
Relied == reader.pc = "read" \/ \E k \in Markers : ~At(k, "new")

\* An empty file is being filled, or its writer died; the reader never polls
\* one, and no lock expires while it relies on what it has seen.
Empty ==
    torn => \/ lock # Nobody /\ (At(lock, "write") \/ At(lock, "dead"))
            \/ crashes > 0 /\ (kind # "poller" => ~Relied)

\* Under the lock the copy is what the file says, unless the file was found
\* empty.
Copies ==
    \A c \in Calls : call[c].pc \in {"open", "write"} =>
        \/ call[c].copy = inbox
        \/ /\ c \in Msgs /\ call[c].copy = <<>>
           /\ torn /\ crashes > 0 /\ (kind # "poller" => ~Relied)

\* A message is in the inbox once, and only when its call is over; so is one
\* that was seen or delivered.
Sent ==
    /\ \A i \in DOMAIN inbox : At(inbox[i].msg, "done")
    /\ \A i, j \in DOMAIN inbox : inbox[i].msg = inbox[j].msg => i = j
    /\ \A i \in DOMAIN reader.seen : At(reader.seen[i].msg, "done")
    /\ \A m \in Msgs : delivered[m] > 0 /\ kind # "poller" => At(m, "done")

\* While somebody relies on what was seen, it is at its place in the file.
Seen ==
    kind # "poller" /\ Relied =>
        \A i \in DOMAIN reader.seen :
            i \in DOMAIN inbox /\ inbox[i].msg = reader.seen[i].msg

\* What the reader of a print session or of a teammate takes.
Taken == IF reader.pick = 0 THEN InHand ELSE {reader.seen[reader.pick].msg}

\* These readers mark first: their marker marks what they take.
Marking ==
    kind # "poller" =>
        /\ \A k \in Markers : ~At(k, "new") =>
              reader.pc = "mark" /\ call[k].index = reader.pick
        /\ reader.pc = "read" => Unread(reader.seen) # {}
        /\ reader.pc = "mark" =>
              IF kind = "runner" THEN reader.pick \in Unread(reader.seen)
                                 ELSE reader.pick = 0
        /\ \A k \in Markers : ~At(k, "done") /\ ~At(k, "dead")

\* What is marked has come to the teammate, or comes next.
MarkedComes ==
    kind = "runner" =>
        \A i \in DOMAIN inbox : inbox[i].read =>
            \/ delivered[inbox[i].msg] > 0
            \/ reader.pc = "mark" /\ inbox[i].msg \in Taken

\* As long as every call had the lock: what was delivered is marked, what is
\* in the reader's hands was not delivered, and what is taken is marked by the
\* time that the marker is through.
Once ==
    kind # "poller" /\ ~failed =>
        /\ \A m \in Msgs : delivered[m] <= 1
        /\ \A i \in DOMAIN inbox : delivered[inbox[i].msg] > 0 => inbox[i].read
        /\ reader.pc # "idle" => \A m \in InHand : delivered[m] = 0
        /\ reader.pc = "mark" /\ (\A k \in Markers : At(k, "new")) =>
              \A i \in DOMAIN inbox : inbox[i].msg \in Taken => inbox[i].read

IInv == /\ TypeOK /\ Locks /\ Empty /\ Copies /\ Sent /\ Seen /\ Marking
        /\ MarkedComes /\ Once

-----------------------------------------------------------------------------
(***************************************************************************)
(* What the operators of the model do.                                     *)
(***************************************************************************)

Others(c) == \A d \in Calls \ {c} : call'[d] = call[d]

\* A record of a call that goes on.
LEMMA CallField ==
    ASSUME NEW r \in CallRecords, NEW p \in Pcs
    PROVE  /\ [r EXCEPT !.pc = p] \in CallRecords
           /\ [r EXCEPT !.pc = p].pc = p
           /\ [r EXCEPT !.pc = p].copy = r.copy
           /\ [r EXCEPT !.pc = p].index = r.index
BY DEF CallRecords

LEMMA NoCallIs ==
    /\ NoCall \in CallRecords /\ NoCall.pc = "new" /\ NoCall.copy = <<>>
    /\ NoCall.index = 0
BY DEF NoCall, CallRecords, Pcs

LEMMA NoReaderIs ==
    /\ NoReader \in ReaderRecords /\ NoReader.pc = "idle" /\ NoReader.seen = <<>>
    /\ NoReader.pick = 0
BY DEF NoReader, ReaderRecords

LEMMA GoesTo ==
    ASSUME call \in [Calls -> CallRecords], NEW c \in Calls, NEW p \in Pcs, Goes(c, p)
    PROVE  /\ call' \in [Calls -> CallRecords]
           /\ call'[c].pc = p /\ call'[c].copy = call[c].copy
           /\ call'[c].index = call[c].index
           /\ Others(c)
BY DEF Goes, Others, CallRecords

LEMMA OverIs ==
    ASSUME call \in [Calls -> CallRecords], NEW c \in Calls, Over(c)
    PROVE  /\ call' \in [Calls -> CallRecords]
           /\ call'[c].pc = (IF c \in Markers THEN "new" ELSE "done")
           /\ call'[c].index = 0
           /\ Others(c)
<1> DEFINE done == [NoCall EXCEPT !.pc = "done"]
<1>1. done \in CallRecords /\ done.pc = "done" /\ done.index = 0
  <2>1. "done" \in Pcs
    BY DEF Pcs
  <2> HIDE DEF done
  <2>2. \A r \in CallRecords, p \in Pcs :
           /\ [r EXCEPT !.pc = p] \in CallRecords
           /\ [r EXCEPT !.pc = p].pc = p
           /\ [r EXCEPT !.pc = p].index = r.index
    BY CallField
  <2>3. done = [NoCall EXCEPT !.pc = "done"]
    BY DEF done
  <2>4. QED
    BY <2>1, <2>2, <2>3, NoCallIs
<1>2. call' = [call EXCEPT ![c] = IF c \in Markers THEN NoCall ELSE done]
  BY DEF Over
<1> HIDE DEF done
<1>3. QED
  BY <1>1, <1>2, NoCallIs DEF Others

LEMMA MarksIs ==
    ASSUME call \in [Calls -> CallRecords], NEW k \in Markers, NEW i \in Nat, Marks(k, i)
    PROVE  /\ call' \in [Calls -> CallRecords]
           /\ At(k, "new")
           /\ call'[k].pc = "lock" /\ call'[k].index = i
           /\ Others(k)
<1>1. k \in Calls /\ "lock" \in Pcs
  BY DEF Calls, Pcs
<1>2. QED
  BY <1>1 DEF Marks, Others, CallRecords

\* What a call writes: the copy and the sender's message behind it, or the
\* copy with one message or all of them marked.
LEMMA ChangedIs ==
    ASSUME NEW c \in Calls, call[c] \in CallRecords
    PROVE  /\ Changed(c) \in Seq(Entries)
           /\ Len(Changed(c)) =
                 IF c \in Msgs THEN Len(call[c].copy) + 1 ELSE Len(call[c].copy)
           /\ \A i \in 1 .. Len(call[c].copy) :
                 /\ Changed(c)[i].msg = call[c].copy[i].msg
                 /\ Changed(c)[i].read <=>
                       \/ call[c].copy[i].read
                       \/ c \notin Msgs /\ call[c].index \in {0, i}
           /\ c \in Msgs => /\ Changed(c)[Len(call[c].copy) + 1].msg = c
                            /\ ~Changed(c)[Len(call[c].copy) + 1].read
<1> DEFINE s == call[c].copy  k == call[c].index
<1>0. s \in Seq(Entries) /\ Len(s) \in Nat /\ k \in Nat
  BY DEF CallRecords
<1>1. CASE c \in Msgs
  <2> DEFINE e == [msg |-> c, read |-> FALSE]
  <2>1. Changed(c) = Append(s, e)
    BY <1>1 DEF Changed
  <2>2. e \in Entries /\ e.msg = c /\ ~e.read
    BY <1>1 DEF Entries
  <2> HIDE DEF e, s
  <2>3. /\ Append(s, e) \in Seq(Entries) /\ Len(Append(s, e)) = Len(s) + 1
        /\ \A i \in 1 .. Len(s) : Append(s, e)[i] = s[i]
        /\ Append(s, e)[Len(s) + 1] = e
    BY <1>0, <2>2
  <2>4. QED
    BY <1>0, <1>1, <2>1, <2>2, <2>3 DEF s
<1>2. CASE c \notin Msgs
  <2> DEFINE f == [i \in DOMAIN s |-> [s[i] EXCEPT !.read = @ \/ k \in {0, i}]]
  <2>1. Changed(c) = f
    BY <1>2 DEF Changed
  <2> HIDE DEF s, k
  <2>2. ASSUME NEW i \in 1 .. Len(s)
        PROVE  f[i] \in Entries /\ f[i].msg = s[i].msg
               /\ (f[i].read <=> s[i].read \/ k \in {0, i})
    <3>1. s[i] \in Entries /\ i \in DOMAIN s
      BY <1>0
    <3>2. f[i] = [s[i] EXCEPT !.read = @ \/ k \in {0, i}]
      BY <3>1
    <3>3. QED
      BY <3>1, <3>2 DEF Entries
  <2>3. DOMAIN f = 1 .. Len(s)
    BY <1>0
  <2> HIDE DEF f
  <2>4. f \in [1 .. Len(s) -> Entries]
    <3>1. f = [i \in 1 .. Len(s) |-> f[i]]
      BY <2>3 DEF f
    <3>2. QED
      BY <2>2, <3>1
  <2>5. f \in Seq(Entries) /\ Len(f) = Len(s)
    BY <1>0, <2>4
  <2>6. QED
    BY <1>2, <2>1, <2>2, <2>5 DEF s, k
<1>3. QED
  BY <1>1, <1>2

\* What the type invariant says of the values that the actions read.
LEMMA TypedIs ==
    ASSUME TypeOK
    PROVE  /\ call \in [Calls -> CallRecords]
           /\ \A c \in Calls : call[c] \in CallRecords
           /\ inbox \in Seq(Entries) /\ DOMAIN inbox = 1 .. Len(inbox) /\ Len(inbox) \in Nat
           /\ \A i \in DOMAIN inbox : inbox[i].msg \in Msgs
           /\ reader \in ReaderRecords /\ reader.pick \in Nat
           /\ reader.seen \in Seq(Entries)
           /\ DOMAIN reader.seen = 1 .. Len(reader.seen)
           /\ \A i \in DOMAIN reader.seen : reader.seen[i].msg \in Msgs
<1>1. /\ call \in [Calls -> CallRecords] /\ inbox \in Seq(Entries)
      /\ reader \in ReaderRecords
  BY DEF TypeOK, CallRecords, ReaderRecords
<1>2. /\ reader.pick \in Nat /\ reader.seen \in Seq(Entries)
      /\ \A c \in Calls : call[c] \in CallRecords
  BY <1>1 DEF ReaderRecords
<1>3. \A s \in Seq(Entries) :
        /\ DOMAIN s = 1 .. Len(s) /\ Len(s) \in Nat
        /\ \A i \in DOMAIN s : s[i] \in Entries
  OBVIOUS
<1>4. \A e \in Entries : e.msg \in Msgs
  BY DEF Entries
<1>5. QED
  BY <1>1, <1>2, <1>3, <1>4

\* A call that holds the lock goes on, or one that waits for it, or one that
\* has not begun: the only holder of the lock is the call that works.
LEMMA HolderKept ==
    ASSUME TypeOK, Locks, NEW c \in Calls, Others(c), lock' = lock,
           lock = c => call'[c].pc \in {"read", "open", "write", "dead"}
    PROVE  lock' # Nobody => call'[lock'].pc \in {"read", "open", "write", "dead"}
<1>1. CASE lock = c
  BY <1>1
<1>2. CASE lock # c
  <2>1. CASE lock \in Calls
    BY <1>2, <2>1 DEF Others, TypeOK
  <2>2. CASE lock = Nobody
    BY <2>2
  <2>3. QED
    BY <2>1, <2>2 DEF Locks
<1>3. QED
  BY <1>1, <1>2

-----------------------------------------------------------------------------
(***************************************************************************)
(* The steps of a call that leave the inbox and the reader alone.          *)
(***************************************************************************)
\* Such a step keeps all that relates the inbox to the reader, if it starts
\* no marker and a marker that it ends had nothing to mark.
LEMMA QuietStep ==
    ASSUME IInv, TypeOK', UNCHANGED <<kind, inbox, reader, delivered>>,
           failed => failed',
           \A c \in Calls : At(c, "done") => At(c, "done")',
           \A k \in Markers : ~At(k, "new")' =>
               /\ ~At(k, "new") /\ call'[k].index = call[k].index
               /\ kind # "poller" => ~At(k, "done")' /\ ~At(k, "dead")',
           kind # "poller" /\ ~failed' /\ reader.pc = "mark"
               /\ (\A k \in Markers : At(k, "new")')
             => \/ \A k \in Markers : At(k, "new")
                \/ \A i \in DOMAIN inbox : inbox[i].msg \in Taken => inbox[i].read
    PROVE  Sent' /\ Seen' /\ Marking' /\ MarkedComes' /\ Once'
<1>0. Msgs \subseteq Calls /\ Markers \subseteq Calls
  BY DEF Calls
<1>1. Sent'
  BY <1>0, TypedIs DEF IInv, Sent
<1>2. Seen'
  BY DEF IInv, Seen, Relied
<1>3. Marking'
  <2>1. SUFFICES ASSUME kind # "poller"
                 PROVE  Marking'
    BY DEF Marking
  <2>2. \A k \in Markers : ~At(k, "done")' /\ ~At(k, "dead")'
    BY <2>1 DEF At
  <2>3. QED
    BY <2>1, <2>2 DEF IInv, Marking, Unread
<1>4. InHand' = InHand /\ Taken' = Taken
  BY DEF InHand, Taken, Unread, MsgsOf
<1>5. MarkedComes'
  BY <1>4 DEF IInv, MarkedComes
<1>6. Once'
  BY <1>4 DEF IInv, Once
<1>7. QED
  BY <1>1, <1>2, <1>3, <1>5, <1>6

LEMMA SendStep ==
    ASSUME IInv, NEW m \in Msgs, Send(m)
    PROVE  IInv'
<1>1. m \in Calls /\ m \notin Markers /\ "lock" \in Pcs
  BY DisjointAssumption DEF Calls, Pcs
<1>2. /\ call' \in [Calls -> CallRecords]
      /\ call'[m].pc = "lock" /\ Others(m) /\ call[m].pc = "new"
  BY <1>1, TypedIs, GoesTo DEF IInv, Send, At
<1>3. lock # m
  BY <1>2, NobodyAssumption DEF IInv, TypeOK
<1>4. TypeOK'
  <2>1. lock' # Nobody => call'[lock'].pc \in {"read", "open", "write", "dead"}
    BY <1>1, <1>2, <1>3, HolderKept DEF IInv, Send, file
  <2>2. QED
    BY <1>2, <2>1 DEF IInv, Send, file, TypeOK, CallRecords
<1>5. Locks'
  BY <1>1, <1>2 DEF IInv, Send, file, Locks, Works, At, Others
<1>6. Empty'
  BY <1>1, <1>2, <1>3
     DEF IInv, Send, file, Locks, Empty, Relied, At, Others, Calls
<1>7. Copies'
  BY <1>1, <1>2 DEF IInv, Send, file, Copies, Relied, At, Others, Calls
<1>8. /\ UNCHANGED <<kind, inbox, reader, delivered>> /\ (failed => failed')
      /\ \A c \in Calls : At(c, "done") => At(c, "done")'
      /\ \A k \in Markers : call'[k] = call[k]
  BY <1>1, <1>2 DEF Send, file, At, Others, Calls
<1>9. Sent' /\ Seen' /\ Marking' /\ MarkedComes' /\ Once'
  <2>1. \A k \in Markers : ~At(k, "new")' =>
            /\ ~At(k, "new") /\ call'[k].index = call[k].index
            /\ kind # "poller" => ~At(k, "done")' /\ ~At(k, "dead")'
    BY <1>8 DEF IInv, Marking, At
  <2>2. (\A k \in Markers : At(k, "new")') => \A k \in Markers : At(k, "new")
    BY <1>8 DEF At
  <2>3. QED
    BY <1>4, <1>8, <2>1, <2>2, QuietStep
<1>10. QED
  BY <1>4, <1>5, <1>6, <1>7, <1>9 DEF IInv

LEMMA CrashStep ==
    ASSUME IInv, NEW m \in Msgs, Crash(m)
    PROVE  IInv'
<1>1. m \in Calls /\ m \notin Markers /\ "dead" \in Pcs
  BY DisjointAssumption DEF Calls, Pcs
<1>2. /\ call' \in [Calls -> CallRecords]
      /\ call'[m].pc = "dead" /\ call'[m].copy = call[m].copy /\ Others(m)
      /\ call[m].pc \in {"lock", "read", "open", "write"}
  BY <1>1, TypedIs, GoesTo DEF IInv, Crash
<1>3. crashes \in Nat /\ crashes' \in 0 .. MaxCrashes /\ crashes' > 0
  BY MaxCrashesAssumption DEF IInv, TypeOK, Crash
<1>4. TypeOK'
  <2>1. lock' # Nobody => call'[lock'].pc \in {"read", "open", "write", "dead"}
    BY <1>1, <1>2, HolderKept DEF IInv, Crash, file
  <2>2. QED
    BY <1>2, <1>3, <2>1 DEF IInv, Crash, file, TypeOK, CallRecords
<1>5. Locks'
  BY <1>1, <1>2, <1>3 DEF IInv, Crash, file, Locks, Works, At, Others
<1>6. Empty'
  BY <1>1, <1>2, <1>3
     DEF IInv, Crash, file, Locks, Empty, Relied, At, Others, Calls
<1>7. Copies'
  BY <1>1, <1>2, <1>3 DEF IInv, Crash, file, Copies, Relied, At, Others, Calls
<1>8. /\ UNCHANGED <<kind, inbox, reader, delivered>> /\ (failed => failed')
      /\ \A c \in Calls : At(c, "done") => At(c, "done")'
      /\ \A k \in Markers : call'[k] = call[k]
  BY <1>1, <1>2 DEF Crash, file, At, Others, Calls
<1>9. Sent' /\ Seen' /\ Marking' /\ MarkedComes' /\ Once'
  <2>1. \A k \in Markers : ~At(k, "new")' =>
            /\ ~At(k, "new") /\ call'[k].index = call[k].index
            /\ kind # "poller" => ~At(k, "done")' /\ ~At(k, "dead")'
    BY <1>8 DEF IInv, Marking, At
  <2>2. (\A k \in Markers : At(k, "new")') => \A k \in Markers : At(k, "new")
    BY <1>8 DEF At
  <2>3. QED
    BY <1>4, <1>8, <2>1, <2>2, QuietStep
<1>10. QED
  BY <1>4, <1>5, <1>6, <1>7, <1>9 DEF IInv

\* The lock of a dead sender goes only when nobody relies on what was seen.
LEMMA ExpireStep ==
    ASSUME IInv, NEW m \in Msgs, Expire(m)
    PROVE  IInv'
<1>1. m \in Calls /\ m \notin Markers /\ lock = m /\ call[m].pc = "dead"
  BY DisjointAssumption DEF Calls, Expire, At
<1>2. TypeOK'
  BY DEF IInv, Expire, TypeOK
<1>3. Locks'
  BY <1>1 DEF IInv, Expire, Locks, Works, At
<1>4. crashes > 0 /\ (kind # "poller" => ~Relied)
  <2>1. crashes > 0
    BY <1>1 DEF IInv, Locks, At
  <2>2. ASSUME kind # "poller", NEW k \in Markers, ~At(k, "new")
        PROVE  FALSE
    <3>1. k \in Calls /\ k # m
      BY <1>1 DEF Calls
    <3>2. call[k].pc \in Pcs
      BY <3>1, TypedIs DEF IInv, CallRecords
    <3>3. call[k].pc # "lock"
      BY <3>1 DEF Expire, At
    <3>4. call[k].pc # "done" /\ call[k].pc # "dead"
      BY <2>2 DEF IInv, Marking, At
    <3>5. ~Works(k)
      BY <1>1, <3>1 DEF IInv, Locks
    <3>6. QED
      BY <2>2, <3>2, <3>3, <3>4, <3>5 DEF Works, At, Pcs
  <2>3. QED
    BY <2>1, <2>2 DEF Relied, Expire
<1>5. Empty'
  BY <1>4 DEF Empty, Expire, Relied, At
<1>6. Copies'
  BY <1>1 DEF IInv, Expire, Copies, Locks, Works, Relied, At
<1>7. Sent' /\ Seen' /\ Marking' /\ MarkedComes' /\ Once'
  <2>1. \A k \in Markers : ~At(k, "new")' =>
            /\ ~At(k, "new") /\ call'[k].index = call[k].index
            /\ kind # "poller" => ~At(k, "done")' /\ ~At(k, "dead")'
    BY DEF IInv, Marking, At, Expire
  <2>2. (\A k \in Markers : At(k, "new")') => \A k \in Markers : At(k, "new")
    BY DEF At, Expire
  <2>3. /\ UNCHANGED <<kind, inbox, reader, delivered>> /\ (failed => failed')
        /\ \A c \in Calls : At(c, "done") => At(c, "done")'
    BY DEF Expire, At
  <2>4. QED
    BY <1>2, <2>1, <2>2, <2>3, QuietStep
<1>8. QED
  BY <1>2, <1>3, <1>5, <1>6, <1>7 DEF IInv

LEMMA LockStep ==
    ASSUME IInv, NEW c \in Calls, Lock(c)
    PROVE  IInv'
<1>1. "read" \in Pcs /\ c # Nobody
  BY NobodyAssumption DEF Calls, Pcs
<1>2. /\ call' \in [Calls -> CallRecords]
      /\ call'[c].pc = "read" /\ call'[c].index = call[c].index /\ Others(c)
      /\ call[c].pc = "lock" /\ lock = Nobody /\ lock' = c
  BY <1>1, TypedIs, GoesTo DEF IInv, Lock, At
<1>3. \A d \in Calls : ~Works(d)
  BY <1>2, NobodyAssumption DEF IInv, Locks, Calls
<1>4. TypeOK'
  BY <1>2 DEF IInv, Lock, TypeOK, CallRecords
<1>5. Locks'
  BY <1>2, <1>3 DEF IInv, Lock, Locks, Works, At, Others
<1>6. \A d \in Calls : At(d, "new")' <=> At(d, "new")
  BY <1>2 DEF At, Others
<1>7. Empty'
  BY <1>2, <1>6 DEF IInv, Lock, Empty, Relied, Calls
<1>8. Copies'
  BY <1>2, <1>3 DEF Lock, Copies, Works, Others
<1>9. Sent' /\ Seen' /\ Marking' /\ MarkedComes' /\ Once'
  <2>1. \A k \in Markers : ~At(k, "new")' =>
            /\ ~At(k, "new") /\ call'[k].index = call[k].index
            /\ kind # "poller" => ~At(k, "done")' /\ ~At(k, "dead")'
    BY <1>2 DEF IInv, Marking, At, Others, Calls
  <2>2. (\A k \in Markers : At(k, "new")') => \A k \in Markers : At(k, "new")
    BY <1>6 DEF Calls
  <2>3. /\ UNCHANGED <<kind, inbox, reader, delivered>> /\ (failed => failed')
        /\ \A d \in Calls : At(d, "done") => At(d, "done")'
    BY <1>2 DEF Lock, At, Others
  <2>4. QED
    BY <1>4, <2>1, <2>2, <2>3, QuietStep
<1>10. QED
  BY <1>4, <1>5, <1>7, <1>8, <1>9 DEF IInv

LEMMA LockFailsStep ==
    ASSUME IInv, NEW c \in Calls, LockFails(c)
    PROVE  IInv'
<1>1. /\ call' \in [Calls -> CallRecords]
      /\ call'[c].pc = (IF c \in Markers THEN "new" ELSE "done") /\ Others(c)
      /\ call[c].pc = "lock" /\ lock' = lock
  BY TypedIs, OverIs DEF IInv, LockFails, At, file
<1>2. lock # c
  BY <1>1, NobodyAssumption DEF IInv, TypeOK, Calls
<1>3. TypeOK'
  <2>1. lock' # Nobody => call'[lock'].pc \in {"read", "open", "write", "dead"}
    BY <1>1, <1>2, HolderKept DEF IInv
  <2>2. QED
    BY <1>1, <2>1 DEF IInv, LockFails, file, TypeOK, CallRecords
<1>4. Locks'
  BY <1>1 DEF IInv, LockFails, file, Locks, Works, At, Others
<1>5. \A d \in Calls : At(d, "new") => At(d, "new")'
  BY <1>1 DEF At, Others
<1>6. Relied' => Relied
  BY <1>5 DEF LockFails, file, Relied, Calls
<1>7. Empty'
  BY <1>1, <1>2, <1>6 DEF IInv, LockFails, file, Locks, Empty, At, Others
<1>8. Copies'
  BY <1>1, <1>6 DEF IInv, LockFails, file, Copies, Others
<1>9. Sent' /\ Seen' /\ Marking' /\ MarkedComes' /\ Once'
  <2>1. \A k \in Markers : ~At(k, "new")' =>
            /\ ~At(k, "new") /\ call'[k].index = call[k].index
            /\ kind # "poller" => ~At(k, "done")' /\ ~At(k, "dead")'
    BY <1>1 DEF IInv, Marking, At, Others, Calls
  <2>2. /\ UNCHANGED <<kind, inbox, reader, delivered>> /\ failed'
        /\ \A d \in Calls : At(d, "done") => At(d, "done")'
    BY <1>1 DEF LockFails, file, At, Others
  <2>3. QED
    BY <1>3, <2>1, <2>2, QuietStep
<1>10. QED
  BY <1>3, <1>4, <1>7, <1>8, <1>9 DEF IInv

LEMMA OpenStep ==
    ASSUME IInv, NEW c \in Calls, Open(c)
    PROVE  IInv'
<1>1. "write" \in Pcs /\ c # Nobody
  BY NobodyAssumption DEF Calls, Pcs
<1>2. /\ call' \in [Calls -> CallRecords]
      /\ call'[c].pc = "write" /\ call'[c].copy = call[c].copy
      /\ call'[c].index = call[c].index /\ Others(c) /\ call[c].pc = "open"
  BY <1>1, TypedIs, GoesTo DEF IInv, Open, At
<1>3. lock = c /\ lock' = c
  BY <1>2 DEF IInv, Locks, Works, Open
<1>4. TypeOK'
  BY <1>2, <1>3 DEF IInv, Open, TypeOK, CallRecords
<1>5. Locks'
  BY <1>2, <1>3 DEF IInv, Open, Locks, Works, At, Others
<1>6. Empty'
  BY <1>1, <1>2, <1>3 DEF Empty, At
<1>7. \A d \in Calls : At(d, "new")' <=> At(d, "new")
  BY <1>2 DEF At, Others
<1>8. Copies'
  <2>1. Relied' <=> Relied
    BY <1>7 DEF Relied, Open, Calls
  <2>2. QED
    BY <1>2, <1>3, <2>1 DEF IInv, Open, Copies, Locks, Works, Others
<1>9. Sent' /\ Seen' /\ Marking' /\ MarkedComes' /\ Once'
  <2>1. \A k \in Markers : ~At(k, "new")' =>
            /\ ~At(k, "new") /\ call'[k].index = call[k].index
            /\ kind # "poller" => ~At(k, "done")' /\ ~At(k, "dead")'
    BY <1>2 DEF IInv, Marking, At, Others, Calls
  <2>2. (\A k \in Markers : At(k, "new")') => \A k \in Markers : At(k, "new")
    BY <1>7 DEF Calls
  <2>3. /\ UNCHANGED <<kind, inbox, reader, delivered>> /\ (failed => failed')
        /\ \A d \in Calls : At(d, "done") => At(d, "done")'
    BY <1>2 DEF Open, At, Others
  <2>4. QED
    BY <1>4, <2>1, <2>2, <2>3, QuietStep
<1>10. QED
  BY <1>4, <1>5, <1>6, <1>8, <1>9 DEF IInv

\* The call that holds the lock and has not opened the file yet finds it
\* empty only if a sender died, and a marker never does.
LEMMA FoundEmpty ==
    ASSUME IInv, NEW c \in Calls, call[c].pc = "read", torn
    PROVE  crashes > 0 /\ (kind # "poller" => ~Relied /\ c \notin Markers)
<1>1. lock = c
  BY DEF IInv, Locks, Works
<1>2. crashes > 0 /\ (kind # "poller" => ~Relied)
  BY <1>1 DEF IInv, Empty, At
<1>3. QED
  BY <1>2 DEF Relied, At

\* A marker that finds nothing to mark: its message is marked already.
LEMMA IdleIsMarked ==
    ASSUME IInv, NEW c \in Calls, call[c].pc = "read", Idle(c), kind # "poller"
    PROVE  \A i \in DOMAIN inbox : inbox[i].msg \in Taken => inbox[i].read
<1>1. ~torn /\ Contents = inbox
  BY FoundEmpty DEF Idle, Contents
<1>2. c \in Markers /\ Relied /\ reader.pc = "mark" /\ call[c].index = reader.pick
  BY DEF Idle, IInv, Marking, At, Relied
<1>3. CASE reader.pick = 0
  BY <1>1, <1>2, <1>3 DEF Idle
<1>4. CASE reader.pick # 0
  <2>1. reader.pick \in DOMAIN reader.seen
    BY <1>2, <1>4 DEF IInv, Marking, Unread
  <2>2. /\ reader.pick \in DOMAIN inbox
        /\ Taken = {inbox[reader.pick].msg}
    BY <1>2, <1>4, <2>1 DEF IInv, Seen, Taken
  <2>3. inbox[reader.pick].read
    BY <1>1, <1>2, <1>4, <2>2 DEF Idle, Unread
  <2>4. QED
    BY <2>2, <2>3 DEF IInv, Sent
<1>5. QED
  BY <1>3, <1>4

LEMMA ReadIdleStep ==
    ASSUME IInv, NEW c \in Calls, Read(c), Idle(c)
    PROVE  IInv'
<1>1. /\ call' \in [Calls -> CallRecords] /\ c \in Markers /\ c \in Calls
      /\ call'[c].pc = "new" /\ Others(c) /\ call[c].pc = "read" /\ lock' = Nobody
  BY TypedIs, OverIs DEF IInv, Read, At, Idle
<1>2. lock = c
  BY <1>1 DEF IInv, Locks, Works
<1>3. TypeOK'
  BY <1>1 DEF IInv, Read, TypeOK, CallRecords
<1>4. \A d \in Calls : ~Works(d)'
  BY <1>1, <1>2 DEF IInv, Locks, Works, Others
<1>5. Locks'
  BY <1>1, <1>4 DEF IInv, Read, Locks, At, Others
<1>6. \A d \in Calls : At(d, "new") => At(d, "new")'
  BY <1>1 DEF At, Others
<1>7. Relied' => Relied
  BY <1>6 DEF Read, Relied, Calls
<1>8. Empty'
  BY <1>1, <1>7, FoundEmpty DEF Read, Empty
<1>9. Copies'
  BY <1>4 DEF Copies, Works
<1>10. Sent' /\ Seen' /\ Marking' /\ MarkedComes' /\ Once'
  <2>1. \A k \in Markers : ~At(k, "new")' =>
            /\ ~At(k, "new") /\ call'[k].index = call[k].index
            /\ kind # "poller" => ~At(k, "done")' /\ ~At(k, "dead")'
    BY <1>1 DEF IInv, Marking, At, Others, Calls
  <2>2. /\ UNCHANGED <<kind, inbox, reader, delivered>> /\ (failed => failed')
        /\ \A d \in Calls : At(d, "done") => At(d, "done")'
    BY <1>1 DEF Read, At, Others
  <2>3. kind # "poller" =>
            \A i \in DOMAIN inbox : inbox[i].msg \in Taken => inbox[i].read
    BY <1>1, IdleIsMarked
  <2>4. QED
    BY <1>3, <2>1, <2>2, <2>3, QuietStep
<1>11. QED
  BY <1>3, <1>5, <1>8, <1>9, <1>10 DEF IInv

LEMMA ReadCopyStep ==
    ASSUME IInv, NEW c \in Calls, Read(c), ~Idle(c)
    PROVE  IInv'
<1>1. Contents \in Seq(Entries) /\ "open" \in Pcs
  <2>1. <<>> \in Seq(Entries)
    OBVIOUS
  <2>2. QED
    BY <2>1, TypedIs DEF IInv, Contents, Pcs
<1>2. /\ call' \in [Calls -> CallRecords]
      /\ call'[c].pc = "open" /\ call'[c].copy = Contents
      /\ call'[c].index = call[c].index /\ Others(c) /\ call[c].pc = "read"
      /\ lock' = lock
  <2> DEFINE C == Contents
  <2>1. /\ call' = [call EXCEPT ![c].pc = "open", ![c].copy = C]
        /\ call[c].pc = "read" /\ lock' = lock
    BY DEF Read, At
  <2>2. call \in [Calls -> CallRecords]
    BY TypedIs DEF IInv
  <2>3. C \in Seq(Entries)
    BY <1>1
  <2> HIDE DEF C
  <2>4. /\ call' \in [Calls -> CallRecords]
        /\ call'[c].pc = "open" /\ call'[c].copy = C
        /\ call'[c].index = call[c].index /\ Others(c)
    BY <1>1, <2>1, <2>2, <2>3 DEF CallRecords, Others
  <2>5. QED
    BY <2>1, <2>4 DEF C
<1>3. lock = c /\ c # Nobody
  BY <1>2, NobodyAssumption DEF IInv, Locks, Works, Calls
<1>4. TypeOK'
  BY <1>2, <1>3 DEF IInv, Read, TypeOK, CallRecords
<1>5. Locks'
  BY <1>2, <1>3 DEF IInv, Read, Locks, Works, At, Others
<1>6. \A d \in Calls : At(d, "new")' <=> At(d, "new")
  BY <1>2 DEF At, Others
<1>7. Relied' <=> Relied
  BY <1>6 DEF Read, Relied, Calls
<1>8. Empty'
  BY <1>2, <1>7, FoundEmpty DEF Read, Empty
<1>9. Copies'
  <2>1. SUFFICES ASSUME NEW d \in Calls, call'[d].pc \in {"open", "write"}
                 PROVE  \/ call'[d].copy = inbox'
                        \/ /\ d \in Msgs /\ call'[d].copy = <<>>
                           /\ torn' /\ crashes' > 0
                           /\ (kind' # "poller" => ~Relied')
    BY DEF Copies
  <2>2. d = c
    BY <1>2, <1>3, <2>1 DEF IInv, Locks, Works, Others
  <2>3. CASE ~torn
    BY <1>2, <2>2, <2>3 DEF Read, Contents
  <2>4. CASE torn
    <3>1. Contents = <<>>
      BY <2>4 DEF Contents
    <3>2. c \notin Markers
      BY <3>1 DEF Idle, Unread
    <3>3. QED
      BY <1>2, <1>7, <2>2, <2>4, <3>1, <3>2, FoundEmpty DEF Read, Calls
  <2>5. QED
    BY <2>3, <2>4
<1>10. Sent' /\ Seen' /\ Marking' /\ MarkedComes' /\ Once'
  <2>1. \A k \in Markers : ~At(k, "new")' =>
            /\ ~At(k, "new") /\ call'[k].index = call[k].index
            /\ kind # "poller" => ~At(k, "done")' /\ ~At(k, "dead")'
    BY <1>2 DEF IInv, Marking, At, Others, Calls
  <2>2. (\A k \in Markers : At(k, "new")') => \A k \in Markers : At(k, "new")
    BY <1>6 DEF Calls
  <2>3. /\ UNCHANGED <<kind, inbox, reader, delivered>> /\ (failed => failed')
        /\ \A d \in Calls : At(d, "done") => At(d, "done")'
    BY <1>2 DEF Read, At, Others
  <2>4. QED
    BY <1>4, <2>1, <2>2, <2>3, QuietStep
<1>11. QED
  BY <1>4, <1>5, <1>8, <1>9, <1>10 DEF IInv

-----------------------------------------------------------------------------
(***************************************************************************)
(* The step that changes the inbox.                                        *)
(***************************************************************************)
\* Who writes holds the lock, gives it back, and leaves a whole file.
LEMMA WriteKeepsFile ==
    ASSUME IInv, NEW c \in Calls, Write(c)
    PROVE  /\ TypeOK' /\ Locks' /\ Empty' /\ Copies'
           /\ call' \in [Calls -> CallRecords] /\ Others(c) /\ call[c].pc = "write"
           /\ call'[c].pc = (IF c \in Markers THEN "new" ELSE "done")
<1>1. /\ call' \in [Calls -> CallRecords]
      /\ call'[c].pc = (IF c \in Markers THEN "new" ELSE "done") /\ Others(c)
      /\ call[c].pc = "write" /\ lock' = Nobody /\ ~torn'
  BY TypedIs, OverIs DEF IInv, Write, At
<1>2. lock = c
  BY <1>1 DEF IInv, Locks, Works
<1>3. inbox' \in Seq(Entries)
  BY TypedIs, ChangedIs DEF IInv, Write
<1>4. TypeOK'
  BY <1>1, <1>3 DEF IInv, Write, TypeOK, CallRecords
<1>5. \A d \in Calls : ~Works(d)'
  BY <1>1, <1>2 DEF IInv, Locks, Works, Others
<1>6. Locks'
  BY <1>1, <1>5 DEF IInv, Write, Locks, At, Others
<1>7. Copies'
  BY <1>5 DEF Copies, Works
<1>8. QED
  BY <1>1, <1>4, <1>6, <1>7 DEF Empty

\* A sender's message comes behind those that are in the file.
LEMMA SenderWrites ==
    ASSUME IInv, NEW c \in Msgs, Write(c)
    PROVE  /\ Len(inbox') \in Nat /\ inbox' \in Seq(Entries)
           /\ \A i \in DOMAIN inbox' :
                \/ /\ i \in DOMAIN inbox
                   /\ inbox'[i].msg = inbox[i].msg
                   /\ inbox'[i].read <=> inbox[i].read
                \/ i = Len(inbox') /\ inbox'[i].msg = c /\ ~inbox'[i].read
           /\ crashes = 0 \/ (kind # "poller" /\ Relied) =>
                /\ Len(inbox') = Len(inbox) + 1
                /\ \A i \in DOMAIN inbox :
                     /\ inbox'[i].msg = inbox[i].msg
                     /\ inbox'[i].read <=> inbox[i].read
<1> DEFINE s == call[c].copy
<1>1. c \in Calls /\ c \notin Markers /\ call[c].pc = "write" /\ inbox' = Changed(c)
  BY DisjointAssumption DEF Calls, Write, At
<1>2. call[c] \in CallRecords /\ s \in Seq(Entries)
  BY <1>1, TypedIs DEF IInv, CallRecords
<1>3. /\ inbox' \in Seq(Entries) /\ Len(inbox') = Len(s) + 1
      /\ \A i \in 1 .. Len(s) : /\ inbox'[i].msg = s[i].msg
                                /\ inbox'[i].read <=> s[i].read
      /\ inbox'[Len(s) + 1].msg = c /\ ~inbox'[Len(s) + 1].read
  BY <1>1, <1>2, ChangedIs
<1>4. \/ s = inbox
      \/ s = <<>> /\ crashes > 0 /\ (kind # "poller" => ~Relied)
  BY <1>1 DEF IInv, Copies
<1>5. inbox \in Seq(Entries) /\ crashes \in Nat
  BY MaxCrashesAssumption DEF IInv, TypeOK
<1> HIDE DEF s
<1>6. /\ DOMAIN inbox = 1 .. Len(inbox) /\ Len(inbox) \in Nat
      /\ DOMAIN inbox' = 1 .. Len(inbox') /\ Len(s) \in Nat
  BY <1>2, <1>3, <1>5
<1>7. CASE s = inbox
  BY <1>3, <1>6, <1>7
<1>8. CASE s = <<>> /\ crashes > 0 /\ (kind # "poller" => ~Relied)
  <2>1. Len(s) = 0
    BY <1>8
  <2>2. \A i \in DOMAIN inbox' : i = 1
    BY <1>3, <1>6, <2>1
  <2>3. QED
    BY <1>3, <1>5, <1>6, <1>8, <2>1, <2>2
<1>9. QED
  BY <1>4, <1>7, <1>8

\* A marker leaves every message in its place, and marks one or all of them.
LEMMA MarkerWrites ==
    ASSUME IInv, NEW c \in Markers, Write(c)
    PROVE  /\ inbox' \in Seq(Entries) /\ DOMAIN inbox' = DOMAIN inbox
           /\ Len(inbox') = Len(inbox)
           /\ \A i \in DOMAIN inbox :
                /\ inbox'[i].msg = inbox[i].msg
                /\ inbox'[i].read <=> inbox[i].read \/ call[c].index \in {0, i}
<1>1. c \in Calls /\ c \notin Msgs /\ call[c].pc = "write" /\ inbox' = Changed(c)
  BY DisjointAssumption DEF Calls, Write, At
<1>2. call[c] \in CallRecords /\ call[c].copy = inbox /\ inbox \in Seq(Entries)
  BY <1>1, TypedIs DEF IInv, Copies
<1>3. /\ inbox' \in Seq(Entries) /\ Len(inbox') = Len(inbox)
      /\ \A i \in 1 .. Len(inbox) :
           /\ inbox'[i].msg = inbox[i].msg
           /\ inbox'[i].read <=> inbox[i].read \/ call[c].index \in {0, i}
  BY <1>1, <1>2, ChangedIs
<1>4. DOMAIN inbox = 1 .. Len(inbox) /\ DOMAIN inbox' = 1 .. Len(inbox')
  BY <1>2, <1>3
<1>5. QED
  BY <1>3, <1>4

\* What a reader that marks first takes is in its hands.
LEMMA TakenInHand ==
    ASSUME IInv, kind # "poller", reader.pc = "mark"
    PROVE  /\ Taken \subseteq InHand
           /\ \A m \in Taken : \E i \in DOMAIN reader.seen : reader.seen[i].msg = m
<1>1. IF kind = "runner" THEN reader.pick \in Unread(reader.seen) ELSE reader.pick = 0
  BY DEF IInv, Marking
<1>2. Taken \subseteq InHand
  BY <1>1 DEF Taken, InHand, MsgsOf
<1>3. QED
  BY <1>2 DEF InHand, MsgsOf, Unread

LEMMA SenderWriteStep ==
    ASSUME IInv, NEW c \in Msgs, Write(c)
    PROVE  IInv'
<1>1. c \in Calls /\ c \notin Markers
  BY DisjointAssumption DEF Calls
<1>2. /\ TypeOK' /\ Locks' /\ Empty' /\ Copies'
      /\ Others(c) /\ call[c].pc = "write" /\ call'[c].pc = "done"
  BY <1>1, WriteKeepsFile
<1>3. UNCHANGED <<kind, reader, queued, delivered, failed, crashes>>
  BY DEF Write
<1>4. \A d \in Calls : At(d, "done")' <=> At(d, "done") \/ d = c
  BY <1>1, <1>2 DEF At, Others
<1>5. \A k \in Markers : call'[k] = call[k]
  BY <1>1, <1>2 DEF Others, Calls
<1>6. Relied' <=> Relied
  BY <1>3, <1>5 DEF Relied, At
<1>7. /\ \A i \in DOMAIN inbox : inbox[i].msg \in Msgs
      /\ \A i \in DOMAIN reader.seen : reader.seen[i].msg \in Msgs
      /\ DOMAIN inbox = 1 .. Len(inbox) /\ Len(inbox) \in Nat
      /\ DOMAIN inbox' = 1 .. Len(inbox') /\ Len(inbox') \in Nat
  BY <1>2, TypedIs, SenderWrites DEF IInv
<1>8. /\ ~At(c, "done") /\ Msgs \subseteq Calls
      /\ \A i \in DOMAIN inbox : inbox[i].msg # c
  BY <1>2 DEF IInv, Sent, At, Calls
<1>9. Sent'
  <2>1. \A i \in DOMAIN inbox' : call'[inbox'[i].msg].pc = "done"
    <3>1. TAKE i \in DOMAIN inbox'
    <3>2. CASE i \in DOMAIN inbox /\ inbox'[i].msg = inbox[i].msg
      BY <1>4, <1>7, <1>8, <3>2 DEF IInv, Sent, At
    <3>3. CASE inbox'[i].msg = c
      BY <1>2, <3>3
    <3>4. QED
      BY <3>2, <3>3, SenderWrites
  <2>2. \A i, j \in DOMAIN inbox' : inbox'[i].msg = inbox'[j].msg => i = j
    BY <1>8, SenderWrites DEF IInv, Sent
  <2>3. \A i \in DOMAIN reader.seen : call'[reader.seen[i].msg].pc = "done"
    BY <1>4, <1>7, <1>8 DEF IInv, Sent, At
  <2>4. \A m \in Msgs : delivered[m] > 0 /\ kind # "poller" => At(m, "done")'
    BY <1>4, <1>8 DEF IInv, Sent
  <2>5. QED
    BY <1>3, <2>1, <2>2, <2>3, <2>4 DEF Sent, At
<1>10. Seen'
  <2>1. SUFFICES ASSUME kind # "poller", Relied, NEW i \in DOMAIN reader.seen
                 PROVE  i \in DOMAIN inbox' /\ inbox'[i].msg = reader.seen[i].msg
    BY <1>3, <1>6 DEF Seen
  <2>2. i \in DOMAIN inbox /\ inbox[i].msg = reader.seen[i].msg
    BY <2>1 DEF IInv, Seen
  <2>3. /\ Len(inbox') = Len(inbox) + 1
        /\ inbox'[i].msg = inbox[i].msg
    BY <2>1, <2>2, SenderWrites
  <2>4. i \in DOMAIN inbox'
    BY <1>7, <2>2, <2>3
  <2>5. QED
    BY <2>2, <2>3, <2>4
<1>11. Marking'
  BY <1>3, <1>5 DEF IInv, Marking, Unread, At
<1>12. InHand' = InHand /\ Taken' = Taken
  BY <1>3 DEF InHand, Taken, Unread, MsgsOf
<1>13. MarkedComes'
  BY SMTT(30), <1>3, <1>12, SenderWrites DEF IInv, MarkedComes
<1>14. Once'
  <2>1. SUFFICES ASSUME kind # "poller", ~failed
                 PROVE  Once'
    BY <1>3 DEF Once
  <2>2. ~(delivered[c] > 0)
    BY <1>8, <2>1 DEF IInv, Sent
  <2>3. \A i \in DOMAIN inbox' : delivered[inbox'[i].msg] > 0 => inbox'[i].read
    BY <2>1, <2>2, SenderWrites DEF IInv, Once
  <2>4. reader.pc = "mark" => c \notin Taken
    BY <1>8, <2>1, TakenInHand DEF IInv, Sent
  <2>5. reader.pc = "mark" /\ (\A k \in Markers : At(k, "new"))
          => \A i \in DOMAIN inbox' : inbox'[i].msg \in Taken => inbox'[i].read
    BY <2>1, <2>4, SenderWrites DEF IInv, Once
  <2>6. (\A k \in Markers : At(k, "new")') => \A k \in Markers : At(k, "new")
    BY <1>5 DEF At
  <2>7. QED
    BY <1>3, <1>12, <2>1, <2>3, <2>5, <2>6 DEF IInv, Once
<1>15. QED
  BY <1>2, <1>9, <1>10, <1>11, <1>13, <1>14 DEF IInv

\* The marker marks what its reader takes: the message that was read at that
\* index is still there.
LEMMA MarkerWriteStep ==
    ASSUME IInv, NEW c \in Markers, Write(c)
    PROVE  IInv'
<1>1. c \in Calls
  BY DEF Calls
<1>2. /\ TypeOK' /\ Locks' /\ Empty' /\ Copies'
      /\ Others(c) /\ call[c].pc = "write" /\ call'[c].pc = "new"
  BY <1>1, WriteKeepsFile
<1>3. UNCHANGED <<kind, reader, queued, delivered, failed, crashes>>
  BY DEF Write
<1>4. \A d \in Calls : /\ At(d, "done") => At(d, "done")'
                       /\ At(d, "new") => At(d, "new")'
  BY <1>1, <1>2 DEF At, Others
<1>5. Relied' => Relied
  BY <1>3, <1>4 DEF Relied, Calls
<1>6. /\ \A i \in DOMAIN inbox : inbox[i].msg \in Calls
      /\ \A i \in DOMAIN reader.seen : reader.seen[i].msg \in Calls
      /\ Msgs \subseteq Calls
  BY TypedIs DEF IInv, Calls
<1>7. Sent'
  BY <1>3, <1>4, <1>6, MarkerWrites DEF IInv, Sent
<1>8. Seen'
  BY <1>3, <1>5, MarkerWrites DEF IInv, Seen
<1>9. Marking'
  BY <1>1, <1>2, <1>3 DEF IInv, Marking, Unread, At, Others, Calls
<1>10. InHand' = InHand /\ Taken' = Taken
  BY <1>3 DEF InHand, Taken, Unread, MsgsOf
<1>11. kind # "poller" => reader.pc = "mark" /\ call[c].index = reader.pick /\ Relied
  BY <1>2 DEF IInv, Marking, At, Relied
<1>12. kind # "poller" /\ reader.pick # 0 =>
         /\ reader.pick \in DOMAIN inbox
         /\ Taken = {inbox[reader.pick].msg}
  BY <1>11 DEF IInv, Marking, Seen, Taken, Unread
<1>13. MarkedComes'
  <2>1. kind = "runner" => reader.pick # 0
    BY <1>11, TypedIs DEF IInv, Marking, Unread
  <2>2. QED
    BY <1>3, <1>10, <1>11, <1>12, <2>1, MarkerWrites DEF IInv, MarkedComes
<1>14. Once'
  <2>1. SUFFICES ASSUME kind # "poller", ~failed
                 PROVE  Once'
    BY <1>3 DEF Once
  <2>2. \A i \in DOMAIN inbox' : delivered[inbox'[i].msg] > 0 => inbox'[i].read
    BY <2>1, MarkerWrites DEF IInv, Once
  <2>3. \A i \in DOMAIN inbox' : inbox'[i].msg \in Taken => inbox'[i].read
    BY <1>11, <1>12, <2>1, MarkerWrites DEF IInv, Sent
  <2>4. QED
    BY <1>3, <1>10, <2>1, <2>2, <2>3 DEF IInv, Once
<1>15. QED
  BY <1>2, <1>7, <1>8, <1>9, <1>13, <1>14 DEF IInv

-----------------------------------------------------------------------------
(***************************************************************************)
(* The steps of the reader.                                                *)
(***************************************************************************)
\* A message counts once more, up to two.
LEMMA DeliveredIs ==
    ASSUME TypeOK, NEW ms, Delivered(ms)
    PROVE  /\ delivered' \in [Msgs -> 0 .. 2]
           /\ \A m \in Msgs :
                /\ m \in ms => delivered'[m] > 0
                /\ m \in ms /\ delivered[m] = 0 => delivered'[m] = 1
                /\ m \notin ms => delivered'[m] = delivered[m]
<1>1. delivered \in [Msgs -> 0 .. 2]
  BY DEF TypeOK
<1>2. ASSUME NEW m \in Msgs
      PROVE  /\ delivered'[m] \in 0 .. 2
             /\ m \in ms => delivered'[m] > 0
             /\ m \in ms /\ delivered[m] = 0 => delivered'[m] = 1
             /\ m \notin ms => delivered'[m] = delivered[m]
  BY <1>1, <1>2 DEF Delivered, More
<1>3. delivered' \in [Msgs -> 0 .. 2]
  BY <1>2 DEF Delivered
<1>4. QED
  BY <1>2, <1>3

\* In a nonempty set of numbers there is a least one.
LEMMA LeastIs ==
    ASSUME NEW is, is \subseteq Nat, is # {}
    PROVE  Least(is) \in is
<1>1. PICK i \in is : \A j \in is : i <= j
  <2>1. IsWellFoundedOn(OpToRel(<, Nat), Nat)
    BY NatLessThanWellFounded
  <2>2. PICK i \in is : \A j \in is : ~(<<j, i>> \in OpToRel(<, Nat))
    BY <2>1, WFMin, Zenon
  <2>3. \A j \in is : ~(j < i)
    BY <2>2 DEF OpToRel
  <2>4. QED
    BY <2>3
<1>2. QED
  BY <1>1 DEF Least

\* The reader picks one of the unread messages.
LEMMA PickIs ==
    ASSUME TypeOK, Unread(reader.seen) # {}
    PROVE  Pick \in Unread(reader.seen)
<1> DEFINE U == Unread(reader.seen)
           of(class) == {i \in U : Class[reader.seen[i].msg] = class}
           is == IF of("shutdown") # {} THEN of("shutdown")
                 ELSE IF of("lead") # {} THEN of("lead") ELSE U
<1>1. U \subseteq Nat
  BY TypedIs DEF Unread
<1>2. is \subseteq U /\ is # {}
  OBVIOUS
<1>3. Pick = Least(is)
  BY DEF Pick
<1> HIDE DEF is
<1>4. Least(is) \in is
  BY <1>1, <1>2, LeastIs
<1>5. QED
  BY <1>2, <1>3, <1>4

\* The reader never sees an empty file: what it sees is the inbox.
LEMMA PollStep ==
    ASSUME IInv, Poll
    PROVE  IInv'
<1>1. ~torn /\ Contents = inbox
  BY DEF Poll, Contents, Unread
<1>2. /\ reader' \in ReaderRecords /\ reader'.pc = "read"
      /\ reader'.seen = inbox
  <2> DEFINE s == Contents
  <2>1. reader' = [NoReader EXCEPT !.pc = "read", !.seen = s]
    BY DEF Poll
  <2>2. s \in Seq(Entries) /\ s = inbox
    BY <1>1, TypedIs DEF IInv
  <2> HIDE DEF s
  <2>3. QED
    BY <2>1, <2>2, NoReaderIs DEF ReaderRecords
<1>3. UNCHANGED <<kind, inbox, torn, lock, call, queued, delivered, failed, crashes>>
  BY DEF Poll, file
<1>4. TypeOK'
  BY <1>2, <1>3 DEF IInv, TypeOK, ReaderRecords
<1>5. Locks' /\ Empty'
  BY <1>1, <1>3 DEF IInv, Locks, Works, Empty, At
<1>6. Copies'
  BY <1>1, <1>3 DEF IInv, Copies
<1>7. Sent' /\ Seen'
  BY <1>2, <1>3 DEF IInv, Sent, Seen, At
<1>8. kind # "poller" => \A k \in Markers : At(k, "new")
  BY DEF IInv, Marking, Poll
<1>9. Marking'
  <2>1. Unread(reader'.seen) # {}
    BY <1>1, <1>2 DEF Poll
  <2>2. QED
    BY <1>2, <1>3, <1>8, <2>1 DEF Marking, Unread, At
<1>10. MarkedComes'
  BY <1>2, <1>3 DEF IInv, MarkedComes, Poll
<1>11. Once'
  <2>1. SUFFICES ASSUME kind # "poller", ~failed
                 PROVE  Once'
    BY <1>3 DEF Once
  <2>2. InHand' = {inbox[i].msg : i \in Unread(inbox)}
    BY <1>2 DEF InHand, MsgsOf, Unread
  <2>3. ASSUME NEW i \in Unread(inbox)
        PROVE  delivered[inbox[i].msg] = 0
    <3>1. i \in DOMAIN inbox /\ ~inbox[i].read
      BY DEF Unread
    <3>2. inbox[i].msg \in Msgs /\ delivered \in [Msgs -> 0 .. 2]
      BY <3>1, TypedIs DEF IInv, TypeOK
    <3>3. ~(delivered[inbox[i].msg] > 0)
      BY <2>1, <3>1 DEF IInv, Once
    <3>4. QED
      BY <3>2, <3>3
  <2>4. QED
    BY <1>2, <1>3, <2>1, <2>2, <2>3 DEF IInv, Once
<1>12. QED
  BY <1>4, <1>5, <1>6, <1>7, <1>9, <1>10, <1>11 DEF IInv

\* A call that begins to mark holds no lock and has no copy.
LEMMA MarkerBegins ==
    ASSUME IInv, NEW k \in Markers, NEW i \in Nat, Marks(k, i),
           UNCHANGED <<kind, inbox, torn, lock, crashes>>,
           kind # "poller" => (Relied' => Relied)
    PROVE  /\ k \in Calls /\ call' \in [Calls -> CallRecords] /\ At(k, "new")
           /\ call'[k].pc = "lock" /\ call'[k].index = i /\ Others(k)
           /\ lock' # Nobody => call'[lock'].pc \in {"read", "open", "write", "dead"}
           /\ Locks' /\ Empty' /\ Copies'
           /\ \A c \in Calls : At(c, "done") => At(c, "done")'
<1>1. /\ k \in Calls /\ call' \in [Calls -> CallRecords] /\ call[k].pc = "new"
      /\ call'[k].pc = "lock" /\ call'[k].index = i /\ Others(k)
  BY TypedIs, MarksIs DEF IInv, Calls, At
<1>2. lock # k
  BY <1>1, NobodyAssumption DEF IInv, TypeOK
<1>3. lock' # Nobody => call'[lock'].pc \in {"read", "open", "write", "dead"}
  BY <1>1, <1>2, HolderKept DEF IInv
<1>4. Locks'
  BY <1>1 DEF IInv, Locks, Works, At, Others
<1>5. Empty'
  BY <1>1, <1>2 DEF IInv, Locks, Empty, At, Others
<1>6. Copies'
  BY <1>1 DEF IInv, Copies, Others
<1>7. QED
  BY <1>1, <1>3, <1>4, <1>5, <1>6 DEF At, Others

LEMMA HandleStep ==
    ASSUME IInv, NEW k \in Markers, Handle(k)
    PROVE  IInv'
<1>1. kind = "poller" /\ kind' = "poller" /\ reader' = NoReader /\ Marks(k, 0)
      /\ UNCHANGED <<inbox, torn, lock, failed, crashes>>
  BY DEF Handle, file
<1>2. /\ call' \in [Calls -> CallRecords]
      /\ lock' # Nobody => call'[lock'].pc \in {"read", "open", "write", "dead"}
      /\ Locks' /\ Empty' /\ Copies'
      /\ \A c \in Calls : At(c, "done") => At(c, "done")'
  BY <1>1, MarkerBegins
<1>3. queued' \subseteq Msgs /\ delivered' \in [Msgs -> 0 .. 2]
  <2>1. InHand \subseteq Msgs
    BY TypedIs DEF IInv, InHand, MsgsOf, Unread
  <2>2. QED
    BY <2>1, DeliveredIs DEF IInv, TypeOK, Handle
<1>4. TypeOK'
  BY <1>1, <1>2, <1>3, NoReaderIs DEF IInv, TypeOK, CallRecords, ReaderRecords
<1>5. Sent'
  <2>1. Msgs \subseteq Calls /\ DOMAIN NoReader.seen = {}
    BY NoReaderIs DEF Calls
  <2>2. QED
    BY <1>1, <1>2, <2>1, TypedIs DEF IInv, Sent, At
<1>6. Seen' /\ Marking' /\ MarkedComes' /\ Once'
  BY <1>1 DEF Seen, Marking, MarkedComes, Once
<1>7. QED
  BY <1>2, <1>4, <1>5, <1>6 DEF IInv

LEMMA DeliverQueuedStep ==
    ASSUME IInv, DeliverQueued
    PROVE  IInv'
<1>1. kind = "poller" /\ UNCHANGED <<kind, inbox, torn, lock, call, reader, failed, crashes>>
      /\ delivered' \in [Msgs -> 0 .. 2] /\ queued' = {}
  BY DeliveredIs DEF IInv, DeliverQueued, file
<1>2. TypeOK'
  BY <1>1 DEF IInv, TypeOK
<1>3. Locks' /\ Empty' /\ Copies'
  BY <1>1 DEF IInv, Locks, Works, Empty, Copies, At
<1>4. Sent' /\ Seen' /\ Marking' /\ MarkedComes' /\ Once'
  BY <1>1 DEF IInv, Sent, Seen, Marking, MarkedComes, Once, At
<1>5. QED
  BY <1>2, <1>3, <1>4 DEF IInv

LEMMA MarkFirstStep ==
    ASSUME IInv, NEW k \in Markers, MarkFirst(k)
    PROVE  IInv'
<1> DEFINE i == IF kind = "runner" THEN Pick ELSE 0
<1>1. /\ kind # "poller" /\ reader.pc = "read" /\ Marks(k, i)
      /\ reader' = [reader EXCEPT !.pc = "mark", !.pick = i]
      /\ UNCHANGED <<kind, inbox, torn, lock, queued, delivered, failed, crashes>>
  BY DEF MarkFirst, file
<1>2. /\ i \in Nat
      /\ IF kind = "runner" THEN i \in Unread(reader.seen) ELSE i = 0
  <2>1. Pick \in Unread(reader.seen)
    BY <1>1, PickIs DEF IInv, Marking
  <2>2. Unread(reader.seen) \subseteq Nat
    BY TypedIs DEF IInv, Unread
  <2>3. QED
    BY <2>1, <2>2
<1> HIDE DEF i
<1>3. /\ reader' \in ReaderRecords /\ reader'.pc = "mark" /\ reader'.pick = i
      /\ reader'.seen = reader.seen
  BY <1>1, <1>2, TypedIs DEF IInv, ReaderRecords
<1>4. Relied
  BY <1>1 DEF Relied
<1>5. /\ k \in Calls /\ call' \in [Calls -> CallRecords]
      /\ call'[k].pc = "lock" /\ call'[k].index = i /\ Others(k)
      /\ lock' # Nobody => call'[lock'].pc \in {"read", "open", "write", "dead"}
      /\ Locks' /\ Empty' /\ Copies'
      /\ \A c \in Calls : At(c, "done") => At(c, "done")'
  BY <1>1, <1>2, <1>4, MarkerBegins
<1>6. TypeOK'
  BY <1>1, <1>3, <1>5 DEF IInv, TypeOK, CallRecords, ReaderRecords
<1>7. Sent'
  <2>1. Msgs \subseteq Calls
    BY DEF Calls
  <2>2. QED
    BY <1>1, <1>3, <1>5, <2>1, TypedIs DEF IInv, Sent, At
<1>8. Seen'
  BY <1>1, <1>3, <1>4 DEF IInv, Seen
<1>9. \A c \in Markers : c # k => At(c, "new") /\ call'[c] = call[c]
  BY <1>1, <1>5 DEF IInv, Marking, Others, Calls
<1>10. Marking'
  <2>1. ASSUME NEW c \in Markers, call'[c].pc # "new"
        PROVE  c = k
    BY <1>9, <2>1 DEF At
  <2>2. \A c \in Markers : call'[c].pc \notin {"done", "dead"}
    BY <1>5, <1>9 DEF At
  <2>3. QED
    BY <1>1, <1>2, <1>3, <1>5, <2>1, <2>2 DEF Marking, Unread, At
<1>11. MarkedComes'
  BY <1>1 DEF IInv, MarkedComes
<1>12. Once'
  <2>1. InHand' = InHand
    BY <1>3 DEF InHand, MsgsOf, Unread
  <2>2. ~At(k, "new")'
    BY <1>5 DEF At
  <2>3. QED
    BY <1>1, <2>1, <2>2 DEF IInv, Once
<1>13. QED
  BY <1>5, <1>6, <1>7, <1>8, <1>10, <1>11, <1>12 DEF IInv

\* The marker is through: what is taken was not delivered before, and all of
\* it is marked.
LEMMA MarkedStep ==
    ASSUME IInv, Marked
    PROVE  IInv'
<1>1. /\ reader.pc = "mark" /\ (\A k \in Markers : At(k, "new")) /\ Delivered(Taken)
      /\ reader' = NoReader
      /\ UNCHANGED <<kind, inbox, torn, lock, call, queued, failed, crashes>>
  BY DEF Marked, Taken, file
<1>2. /\ delivered' \in [Msgs -> 0 .. 2]
      /\ \A m \in Msgs : /\ m \in Taken => delivered'[m] > 0
                         /\ m \in Taken /\ delivered[m] = 0 => delivered'[m] = 1
                         /\ m \notin Taken => delivered'[m] = delivered[m]
  BY <1>1, DeliveredIs DEF IInv
<1>3. /\ reader' \in ReaderRecords /\ reader'.pc = "idle" /\ DOMAIN reader'.seen = {}
  BY <1>1, NoReaderIs
<1>4. TypeOK'
  BY <1>1, <1>2, <1>3 DEF IInv, TypeOK, ReaderRecords
<1>5. Locks'
  BY <1>1 DEF IInv, Locks, Works, At
<1>6. ~Relied'
  BY <1>1, <1>3 DEF Relied, At
<1>7. Empty' /\ Copies'
  BY <1>1, <1>6 DEF IInv, Empty, Copies, At
<1>8. Sent'
  <2>1. \A m \in Msgs : delivered'[m] > 0 /\ kind # "poller" => At(m, "done")
    <3>1. SUFFICES ASSUME NEW m \in Msgs, delivered'[m] > 0, kind # "poller"
                   PROVE  At(m, "done")
      OBVIOUS
    <3>2. CASE m \in Taken
      BY <1>1, <3>1, <3>2, TakenInHand DEF IInv, Sent
    <3>3. CASE m \notin Taken
      BY <1>2, <3>1, <3>3 DEF IInv, Sent
    <3>4. QED
      BY <3>2, <3>3
  <2>2. QED
    BY <1>1, <1>3, <2>1 DEF IInv, Sent, At
<1>9. Seen'
  BY <1>6 DEF Seen
<1>10. Marking'
  BY <1>1, <1>3 DEF Marking, At
<1>11. MarkedComes'
  <2>1. SUFFICES ASSUME kind = "runner", NEW i \in DOMAIN inbox, inbox[i].read
                 PROVE  delivered'[inbox[i].msg] > 0
    BY <1>1 DEF MarkedComes
  <2>2. inbox[i].msg \in Msgs
    BY TypedIs DEF IInv
  <2>3. delivered[inbox[i].msg] > 0 \/ inbox[i].msg \in Taken
    BY <2>1 DEF IInv, MarkedComes
  <2>4. QED
    BY <1>2, <2>2, <2>3
<1>12. Once'
  <2>1. SUFFICES ASSUME kind # "poller", ~failed
                 PROVE  Once'
    BY <1>1 DEF Once
  <2>2. \A m \in Taken : delivered[m] = 0
    BY <1>1, <2>1, TakenInHand DEF IInv, Once
  <2>3. \A m \in Msgs : delivered'[m] <= 1
    BY <1>2, <2>1, <2>2 DEF IInv, Once
  <2>4. \A i \in DOMAIN inbox : delivered'[inbox[i].msg] > 0 => inbox[i].read
    <3>1. SUFFICES ASSUME NEW i \in DOMAIN inbox, delivered'[inbox[i].msg] > 0
                   PROVE  inbox[i].read
      OBVIOUS
    <3>2. inbox[i].msg \in Msgs
      BY TypedIs DEF IInv
    <3>3. CASE inbox[i].msg \in Taken
      BY <1>1, <2>1, <3>3 DEF IInv, Once
    <3>4. CASE inbox[i].msg \notin Taken
      BY <1>2, <2>1, <3>1, <3>2, <3>4 DEF IInv, Once
    <3>5. QED
      BY <3>3, <3>4
  <2>5. QED
    BY <1>1, <1>3, <2>1, <2>3, <2>4 DEF Once
<1>13. QED
  BY <1>4, <1>5, <1>7, <1>8, <1>9, <1>10, <1>11, <1>12 DEF IInv

-----------------------------------------------------------------------------
(***************************************************************************)
(* The theorems.                                                           *)
(***************************************************************************)
LEMMA InitInv == Init => IInv
<1>1. SUFFICES ASSUME Init
               PROVE  IInv
  OBVIOUS
<1>2. \A c \in Calls : call[c] = NoCall
  BY <1>1 DEF Init
<1>3. call \in [Calls -> CallRecords] /\ reader \in ReaderRecords
  BY <1>1, NoCallIs, NoReaderIs DEF Init
<1>4. inbox \in Seq(Entries) /\ DOMAIN inbox = {} /\ DOMAIN reader.seen = {}
  BY <1>1, NoReaderIs DEF Init
<1>5. TypeOK
  <2>1. delivered \in [Msgs -> 0 .. 2] /\ crashes \in 0 .. MaxCrashes
    BY <1>1, MaxCrashesAssumption DEF Init
  <2>2. kind \in Readers /\ torn = FALSE /\ failed = FALSE /\ queued = {} /\ lock = Nobody
    BY <1>1 DEF Init
  <2>3. QED
    BY <1>3, <1>4, <2>1, <2>2 DEF TypeOK, CallRecords, ReaderRecords
<1>6. Locks /\ Empty /\ Copies
  BY <1>1, <1>2, NoCallIs DEF Init, Locks, Works, Empty, Copies, At
<1>7. Sent /\ Seen /\ MarkedComes
  BY <1>1, <1>4 DEF Init, Sent, Seen, MarkedComes
<1>8. Marking /\ Once
  <2>1. \A k \in Markers : k \in Calls
    BY DEF Calls
  <2>2. reader.pc = "idle"
    BY <1>1, NoReaderIs DEF Init
  <2>3. QED
    BY <1>1, <1>2, <1>4, <2>1, <2>2, NoCallIs DEF Init, Marking, Once, At
<1>9. QED
  BY <1>5, <1>6, <1>7, <1>8 DEF IInv

LEMMA NextInv == IInv /\ [Next]_vars => IInv'
<1>1. SUFFICES ASSUME IInv, [Next]_vars
               PROVE  IInv'
  OBVIOUS
<1>2. CASE \E m \in Msgs : Send(m) \/ Crash(m) \/ Expire(m)
  BY <1>1, <1>2, SendStep, CrashStep, ExpireStep
<1>3. CASE \E c \in Calls : Step(c)
  <2>1. PICK c \in Calls : Step(c)
    BY <1>3
  <2>2. CASE Lock(c) \/ LockFails(c) \/ Open(c)
    BY <1>1, <2>2, LockStep, LockFailsStep, OpenStep
  <2>3. CASE Read(c)
    BY <1>1, <2>3, ReadIdleStep, ReadCopyStep
  <2>4. CASE Write(c)
    BY <1>1, <2>4, SenderWriteStep, MarkerWriteStep DEF Calls
  <2>5. QED
    BY <2>1, <2>2, <2>3, <2>4 DEF Step
<1>4. CASE Poll \/ DeliverQueued \/ Marked
  BY <1>1, <1>4, PollStep, DeliverQueuedStep, MarkedStep
<1>5. CASE Handling
  BY <1>1, <1>5, HandleStep, MarkFirstStep DEF Handling
<1>6. CASE UNCHANGED vars
  <2>1. TypeOK'
    BY <1>1, <1>6 DEF IInv, TypeOK, vars, file
  <2>2. Locks' /\ Empty' /\ Copies'
    BY <1>1, <1>6
       DEF IInv, Locks, Works, Empty, Copies, Relied, At, vars, file
  <2>3. UNCHANGED <<kind, inbox, call, reader, delivered, failed>>
    BY <1>6 DEF vars, file
  <2>4. Sent' /\ Seen' /\ Marking'
    BY <1>1, <2>3 DEF IInv, Sent, Seen, Marking, Relied, Unread, At
  <2>5. InHand' = InHand /\ Taken' = Taken
    BY <2>3 DEF InHand, Taken, Unread, MsgsOf
  <2>6. MarkedComes' /\ Once'
    BY <1>1, <2>3, <2>5 DEF IInv, MarkedComes, Once, At
  <2>7. QED
    BY <2>1, <2>2, <2>4, <2>6 DEF IInv
<1>7. QED
  BY <1>1, <1>2, <1>3, <1>4, <1>5, <1>6 DEF Next

LEMMA Inductive == Spec => []IInv
<1>1. QED
  BY InitInv, NextInv, PTL DEF Spec

\* Nothing that is sent to a teammate in the lead's program is lost once it
\* is in the file, and while every call has had the lock no session that
\* marks before it delivers (print.ts 2487, inProcessRunner.ts 832) delivers
\* a message twice: for any number of messages, senders and markers, and
\* whichever senders die, at any point of their calls.
THEOREM NothingIsLostOrDoubled == Spec => []DeliveryInv
<1>1. IInv => DeliveryInv
  <2>1. SUFFICES ASSUME IInv
                 PROVE  DeliveryInv
    OBVIOUS
  <2>2. RunnerLosesNothing
    <3>1. SUFFICES ASSUME kind = "runner", NEW i \in DOMAIN inbox, inbox[i].read
                   PROVE  InHands(inbox[i].msg)
      BY DEF RunnerLosesNothing, MarkedAreInHands
    <3>2. CASE delivered[inbox[i].msg] > 0
      BY <3>2 DEF InHands
    <3>3. CASE reader.pc = "mark" /\ inbox[i].msg \in Taken
      BY <2>1, <3>1, <3>3, TakenInHand DEF InHands
    <3>4. QED
      BY <2>1, <3>1, <3>2, <3>3 DEF IInv, MarkedComes
  <2>3. DeliveredOnce
    BY <2>1 DEF IInv, Once, DeliveredOnce
  <2>4. QED
    BY <2>1, <2>2, <2>3 DEF IInv, DeliveryInv
<1>2. QED
  BY <1>1, Inductive, PTL

\* As long as no sender has died in its call, the file only grows and no
\* message becomes unread again: no call writes back what another one has
\* changed since it was read.
THEOREM FileOnlyGrows == Spec => InboxOnlyGrows
<1> DEFINE Grows == crashes = 0 =>
                      /\ Len(inbox) <= Len(inbox')
                      /\ \A i \in DOMAIN inbox :
                           /\ inbox'[i].msg = inbox[i].msg
                           /\ inbox[i].read => inbox'[i].read
<1>1. IInv /\ [Next]_vars => [Grows]_inbox
  <2>1. SUFFICES ASSUME IInv, Next, inbox' # inbox
                 PROVE  Grows
    BY DEF vars, file
  <2>2. PICK c \in Calls : Write(c)
    BY <2>1
       DEF Next, Send, Crash, Expire, Step, Lock, LockFails, Read, Open, Poll,
       DeliverQueued, Marked, Handling, Handle, MarkFirst, file
  <2>3. Len(inbox) \in Nat
    BY <2>1, TypedIs DEF IInv
  <2>4. CASE c \in Msgs
    BY <2>1, <2>2, <2>3, <2>4, SenderWrites
  <2>5. CASE c \in Markers
    BY <2>1, <2>2, <2>3, <2>5, MarkerWrites
  <2>6. QED
    BY <2>4, <2>5 DEF Calls
<1>2. QED
  BY <1>1, Inductive, PTL DEF Spec, InboxOnlyGrows

-----------------------------------------------------------------------------
(***************************************************************************)
(* CronTasks: the invariant.                                               *)
(***************************************************************************)

\* A process that runs its scheduler has loaded the file before it fires.
Begins ==
    /\ loaded \subseteq {p \in Procs : stage[p] \in {"ready", "stopped"}}
    /\ \A p \in Procs \ loaded : stage[p] \in {"off", "starting", "ready"} =>
          \A t \in Ids : fired[p][t] = 0

\* What is edited was handed to a session, deleted or created.
Caused ==
    /\ \A e \in edits : e.op \in {"fire", "mark", "missed"} => e.ids \subseteq handed
    /\ \A e \in edits : e.op = "delete" => e.ids \subseteq deleted
    /\ \A e \in edits : e.op = "add" => e.ids \subseteq born

\* A task is added by one edit, and is nowhere before.
Adds(e, t) == e \in edits /\ e.op = "add" /\ t \in e.ids
Fresh ==
    /\ \A d, e \in edits, t \in Ids : Adds(d, t) /\ Adds(e, t) => d = e
    /\ \A e \in edits, t \in Ids : Adds(e, t) =>
          /\ disk[t] = None
          /\ \A p \in Procs : known[p][t] = None /\ fired[p][t] = 0
    /\ \A t \in Ids \ born :
          /\ disk[t] = None
          /\ \A p \in Procs : known[p][t] = None /\ fired[p][t] = 0

\* What keeps process p from firing t again.
Later(p, t) == t \in Recurring /\ p \in isOwner /\ nextFireAt[p][t] > now
Removing(p, t) == \E e \in edits : e.by = p /\ e.op = "fire" /\ t \in e.ids
Surfaced(p, t) == /\ nextFireAt[p][t] = Never
                  /\ \E e \in edits : e.by = p /\ e.op = "missed" /\ t \in e.ids
Removed(p, t) == disk[t] = None /\ (known[p][t] # None => changed[p] = 2)

Spent == \A p \in loaded, t \in Ids : stage[p] = "ready" /\ fired[p][t] # 0 =>
    /\ Later(p, t) \/ Removing(p, t) \/ Surfaced(p, t) \/ Removed(p, t)
    /\ known[p][t] = None => disk[t] = None

CTInv == /\ CTTypeOK /\ Begins /\ Caused
         /\ ~disturbed => Fresh /\ NothingIsDropped
         /\ {"missed", "events"} \subseteq Timely => (~disturbed => FiresOnce /\ Spent)

-----------------------------------------------------------------------------
(***************************************************************************)
(* The data.                                                               *)
(***************************************************************************)

LEMMA TaskIs ==
    ASSUME NEW at \in 0 .. MaxNow
    PROVE  /\ NewTask(at) \in Task /\ NewTask(at) # None
           /\ \A r \in Task : [r EXCEPT !.last = at] \in Task /\ [r EXCEPT !.last = at] # None
<1>1. NewTask(at) \in Task /\ \A r \in Task : [r EXCEPT !.last = at] \in Task
  BY DEF NewTask, Task
<1> QED BY <1>1, NoneAssumption

LEMMA ReadIs ==
    ASSUME CTTypeOK
    PROVE  /\ TasksRead \in Files /\ NoTasks \in Files
           /\ \A f \in Files, t \in Ids :
                 /\ t \in Listed(f) <=> f[t] # None
                 /\ t \in Listed(f) => f[t] \in Task /\ f[t].last + 1 \in 0 .. Never
           /\ \A f : Listed(f) \subseteq Ids
           /\ ~garbled => TasksRead = disk
<1>1. \A r \in Task : r.last + 1 \in 0 .. Never
  BY TimeAssumption DEF Task, Never
<1> QED BY <1>1 DEF CTTypeOK, TasksRead, NoTasks, Files, Listed

\* Two records of an edit at work on the same job.
SameJob(d, e) == d.by = e.by /\ d.op = e.op /\ d.ids = e.ids

LEMMA EditIs ==
    ASSUME CTTypeOK, NEW e \in edits
    PROVE  /\ e \in Edits /\ e.by \in Procs /\ e.op \in Ops /\ e.ids \subseteq Ids
           /\ e.ids # {} /\ e.at \in 0 .. MaxNow /\ e.copy \in Files /\ e.mixed \in BOOLEAN
           /\ O!Up(e.by)
BY DEF CTTypeOK, Edits

LEMMA EditField ==
    ASSUME NEW e \in Edits, NEW c \in Files
    PROVE  /\ [e EXCEPT !.pc = "open", !.copy = c] \in Edits
           /\ SameJob([e EXCEPT !.pc = "open", !.copy = c], e)
           /\ [e EXCEPT !.pc = "write"] \in Edits
           /\ SameJob([e EXCEPT !.pc = "write"], e)
           /\ [e EXCEPT !.mixed = TRUE] \in Edits
           /\ SameJob([e EXCEPT !.mixed = TRUE], e)
BY DEF Edits, SameJob

LEMMA BegunIs ==
    ASSUME CTTypeOK, NEW p \in Procs, NEW op \in Ops, NEW ids \in SUBSET Ids
    PROVE  /\ Begun(p, op, ids) \in Edits
           /\ Begun(p, op, ids).by = p /\ Begun(p, op, ids).op = op
           /\ Begun(p, op, ids).ids = ids
<1>1. NoTasks \in Files /\ now \in 0 .. MaxNow
  BY ReadIs DEF CTTypeOK
<1> QED BY <1>1 DEF Begun, Edits

LEMMA HandsOverIs ==
    ASSUME CTTypeOK, NEW p \in Procs, NEW ids \in SUBSET Ids, HandsOver(p, ids)
    PROVE  /\ handed' = handed \cup ids /\ handed' \subseteq Ids
           /\ fired' \in [Procs -> [Ids -> 0 .. 2]]
           /\ \A q \in Procs : q # p => fired'[q] = fired[q]
           /\ \A t \in Ids : fired'[p][t] = IF t \in ids THEN Counted(fired[p][t])
                                            ELSE fired[p][t]
<1>1. \A n \in 0 .. 2 : Counted(n) \in 0 .. 2
  BY DEF Counted
<1> QED BY <1>1 DEF HandsOver, CTTypeOK

LEMMA EditedIs ==
    ASSUME CTTypeOK, NEW e \in edits
    PROVE  /\ Edited(e) \in Files
           /\ \A t \in Ids :
                 /\ t \notin e.ids => Edited(e)[t] = e.copy[t]
                 /\ t \in e.ids /\ e.op = "add" => Edited(e)[t] # None
                 /\ t \in e.ids /\ e.op = "mark" =>
                       (Edited(e)[t] = None <=> e.copy[t] = None)
                 /\ t \in e.ids /\ e.op \notin {"add", "mark"} => Edited(e)[t] = None
<1>1. e.at \in 0 .. MaxNow /\ e.copy \in Files
  BY EditIs
<1>2. /\ NewTask(e.at) \in Task /\ NewTask(e.at) # None
      /\ \A r \in Task : [r EXCEPT !.last = e.at] \in Task /\ [r EXCEPT !.last = e.at] # None
  BY <1>1, TaskIs
<1>3. \A t \in Ids : e.copy[t] # None => e.copy[t] \in Task
  BY <1>1 DEF Files
<1>4. Edited(e) = [t \in Ids |-> Edited(e)[t]]
  BY DEF Edited
<1>5. \A t \in Ids :
          /\ t \notin e.ids => Edited(e)[t] = e.copy[t]
          /\ t \in e.ids /\ e.op = "add" => Edited(e)[t] = NewTask(e.at)
          /\ t \in e.ids /\ e.op = "mark" =>
                Edited(e)[t] = IF e.copy[t] # None THEN [e.copy[t] EXCEPT !.last = e.at]
                               ELSE None
          /\ t \in e.ids /\ e.op \notin {"add", "mark"} => Edited(e)[t] = None
  BY DEF Edited
<1>6. \A t \in Ids : Edited(e)[t] \in Task \cup {None}
  BY <1>1, <1>2, <1>3, <1>5 DEF Files
<1> QED BY <1>2, <1>3, <1>4, <1>5, <1>6 DEF Files

\* What the owner may do to a scheduler.
LEMMA OwnerStep ==
    ASSUME CTTypeOK, O!Next
    PROVE  /\ stage' \in [Procs -> O!Stages] /\ recovered' \in BOOLEAN
           /\ isOwner' \subseteq {p \in Procs : stage'[p] = "ready"}
           /\ leaving' \subseteq isOwner'
           /\ \A p \in Procs :
                 /\ stage'[p] = "ready" /\ stage[p] = "ready" /\ p \in isOwner => p \in isOwner'
                 /\ stage'[p] = "ready" => stage[p] \in {"starting", "ready"}
                 /\ stage'[p] \in {"off", "starting", "ready"} =>
                       stage[p] \in {"off", "starting", "ready"}
                 /\ stage[p] = "gone" => stage'[p] = "gone"
                 /\ stage[p] \in {"ready", "stopped"} =>
                       stage'[p] \in {"ready", "stopped", "gone"}
                 /\ O!Up(p) => O!Up(p)' \/ stage'[p] = "gone"
<1>1. ASSUME NEW q \in Procs, \/ O!Start(q) \/ O!Ready(q) \/ O!TakeOver(q)
                                \/ O!Stop(q) \/ O!Leave(q) \/ O!End(q)
      PROVE  /\ stage' \in [Procs -> O!Stages] /\ recovered' \in BOOLEAN
             /\ isOwner' \subseteq {p \in Procs : stage'[p] = "ready"}
             /\ leaving' \subseteq isOwner'
             /\ \A p \in Procs : p # q => stage'[p] = stage[p] /\ (p \in isOwner => p \in isOwner')
             /\ \/ stage'[q] = stage[q] /\ (q \in isOwner => q \in isOwner')
                \/ stage[q] = "off" /\ stage'[q] = "starting"
                \/ stage[q] = "starting" /\ stage'[q] = "ready"
                \/ stage[q] \in {"starting", "ready"} /\ stage'[q] = "stopped"
                \/ stage[q] \in {"starting", "ready", "stopped"} /\ stage'[q] = "gone"
  <2>1. CASE O!Start(q)
    BY <2>1 DEF CTTypeOK, O!Start, O!Goes, O!Stages
  <2>2. CASE O!Ready(q)
    BY <2>2 DEF CTTypeOK, O!Ready, O!Owns, O!Goes, O!Stages
  <2>3. CASE O!TakeOver(q)
    BY <2>3 DEF CTTypeOK, O!TakeOver, O!Owns
  <2>4. CASE O!Stop(q)
    BY <2>4 DEF CTTypeOK, O!Stop, O!NoOwner, O!Goes, O!Stages
  <2>5. CASE O!Leave(q)
    BY <2>5 DEF CTTypeOK, O!Leave
  <2>6. CASE O!End(q)
    BY <2>6 DEF CTTypeOK, O!End, O!NoOwner, O!Up, O!Goes, O!Stages
  <2> QED BY <1>1, <2>1, <2>2, <2>3, <2>4, <2>5, <2>6
<1>2. CASE O!Recover
  BY <1>2 DEF O!Recover, CTTypeOK, O!Up
<1>3. ASSUME NEW q \in Procs, \/ O!Start(q) \/ O!Ready(q) \/ O!TakeOver(q)
                                \/ O!Stop(q) \/ O!Leave(q) \/ O!End(q)
      PROVE  \A p \in Procs :
                 /\ stage'[p] = "ready" /\ stage[p] = "ready" /\ p \in isOwner => p \in isOwner'
                 /\ stage'[p] = "ready" => stage[p] \in {"starting", "ready"}
                 /\ stage'[p] \in {"off", "starting", "ready"} =>
                       stage[p] \in {"off", "starting", "ready"}
                 /\ stage[p] = "gone" => stage'[p] = "gone"
                 /\ stage[p] \in {"ready", "stopped"} =>
                       stage'[p] \in {"ready", "stopped", "gone"}
                 /\ O!Up(p) => O!Up(p)' \/ stage'[p] = "gone"
  <2> TAKE p \in Procs
  <2>1. CASE p = q
    BY <1>1, <1>3, <2>1 DEF O!Up
  <2>2. CASE p # q
    BY <1>1, <1>3, <2>2 DEF O!Up
  <2> QED BY <2>1, <2>2
<1> QED BY <1>1, <1>2, <1>3 DEF O!Next

-----------------------------------------------------------------------------
(***************************************************************************)
(* The edits in progress.                                                  *)
(***************************************************************************)

\* The edits of S go on, the others are over.
Moved(S) == \E g \in [S -> Edits] : /\ edits' = {g[e] : e \in S}
                                    /\ \A e \in S : SameJob(g[e], e)

LEMMA MovedIs ==
    ASSUME NEW S \in SUBSET edits, Moved(S)
    PROVE  /\ edits' \subseteq Edits
           /\ \A d \in edits' : \E e \in S : SameJob(d, e)
           /\ \A e \in S : \E d \in edits' : SameJob(d, e)
           /\ \A t : (\A d, e \in edits : Adds(d, t) /\ Adds(e, t) => d = e) =>
                     \A d, e \in edits' : Adds(d, t)' /\ Adds(e, t)' => d = e
<1>1. PICK g \in [S -> Edits] : edits' = {g[e] : e \in S} /\ \A e \in S : SameJob(g[e], e)
  BY DEF Moved
<1>2. ASSUME NEW t, \A d, e \in edits : Adds(d, t) /\ Adds(e, t) => d = e,
             NEW d \in edits', NEW e \in edits', Adds(d, t)', Adds(e, t)'
      PROVE  d = e
  <2>1. PICK x \in S : d = g[x]
    BY <1>1
  <2>2. PICK y \in S : e = g[y]
    BY <1>1
  <2>3. Adds(x, t) /\ Adds(y, t)
    BY <1>1, <1>2, <2>1, <2>2 DEF Adds, SameJob
  <2> QED BY <1>2, <2>1, <2>2, <2>3
<1> QED BY <1>1, <1>2

LEMMA ReadMoves ==
    ASSUME CTTypeOK, NEW e \in edits, ReadFile(e)
    PROVE  IF Needless(e) THEN Moved(edits \ {e}) ELSE Moved(edits)
<1>1. edits \subseteq Edits /\ TasksRead \in Files
  BY ReadIs DEF CTTypeOK
<1>2. CASE Needless(e)
  <2> DEFINE g == [x \in edits \ {e} |-> x]
  <2>1. g \in [edits \ {e} -> Edits] /\ edits' = {g[x] : x \in edits \ {e}}
        /\ \A x \in edits \ {e} : SameJob(g[x], x)
    BY <1>1, <1>2 DEF ReadFile, SameJob
  <2> QED BY <1>2, <2>1 DEF Moved
<1>3. CASE ~Needless(e)
  <2> DEFINE f == [e EXCEPT !.pc = "open", !.copy = TasksRead]
             g == [x \in edits |-> IF x = e THEN f ELSE x]
  <2>1. f \in Edits /\ SameJob(f, e) /\ edits' = (edits \ {e}) \cup {f}
    BY <1>1, <1>3, EditField DEF ReadFile, Becomes
  <2> HIDE DEF f
  <2>2. g \in [edits -> Edits] /\ edits' = {g[x] : x \in edits}
    BY <1>1, <2>1
  <2>3. \A x \in edits : SameJob(g[x], x)
    BY <2>1 DEF SameJob
  <2> QED BY <1>3, <2>2, <2>3 DEF Moved
<1> QED BY <1>2, <1>3

LEMMA OpenMoves ==
    ASSUME CTTypeOK, NEW e \in edits, OpenFile(e)
    PROVE  Moved(edits)
<1>1. edits \subseteq Edits
  BY DEF CTTypeOK
<1> DEFINE f == [e EXCEPT !.pc = "write"]
           g == [x \in edits |-> IF x = e THEN f ELSE x]
<1>2. f \in Edits /\ SameJob(f, e) /\ edits' = (edits \ {e}) \cup {f}
  <2>1. TasksRead \in Files
    BY ReadIs
  <2> QED BY <1>1, <2>1, EditField DEF OpenFile, Becomes
<1> HIDE DEF f
<1>3. g \in [edits -> Edits] /\ edits' = {g[x] : x \in edits}
  BY <1>1, <1>2
<1>4. \A x \in edits : SameJob(g[x], x)
  BY <1>2 DEF SameJob
<1> QED BY <1>3, <1>4 DEF Moved

LEMMA FillMoves ==
    ASSUME CTTypeOK, NEW e \in edits, Fill(e)
    PROVE  Moved(edits \ {e})
<1> DEFINE S == edits \ {e}
           f(x) == IF x.pc = "write" THEN [x EXCEPT !.mixed = TRUE] ELSE x
           g == [x \in S |-> f(x)]
<1>1. \A x \in S : f(x) \in Edits /\ SameJob(f(x), x)
  <2> TAKE x \in S
  <2>1. x \in Edits /\ TasksRead \in Files
    BY ReadIs DEF CTTypeOK
  <2> QED BY <2>1, EditField DEF SameJob
<1>2. edits' = {f(x) : x \in S}
  BY DEF Fill
<1> HIDE DEF f
<1>3. g \in [S -> Edits] /\ edits' = {g[x] : x \in S} /\ \A x \in S : SameJob(g[x], x)
  BY <1>1, <1>2
<1> QED BY <1>3 DEF Moved
-----------------------------------------------------------------------------
(***************************************************************************)
(* Types.                                                                  *)
(***************************************************************************)

\* The edits of a step that ends no session: each goes on, or is new.
LEMMA EditsTyped ==
    ASSUME CTTypeOK, NEW S \in SUBSET edits, Moved(S), stage' = stage
    PROVE  edits' \subseteq Edits /\ \A d \in edits' : O!Up(d.by)' /\ d.ids # {}
<1>1. edits' \subseteq Edits /\ \A d \in edits' : \E e \in S : SameJob(d, e)
  BY MovedIs
<1>2. \A e \in S : O!Up(e.by) /\ e.ids # {}
  BY EditIs
<1> QED BY <1>1, <1>2 DEF SameJob, O!Up

LEMMA MoreTyped ==
    ASSUME CTTypeOK, NEW N \in SUBSET Edits, edits' = edits \cup N, stage' = stage,
           \A d \in N : O!Up(d.by) /\ d.ids # {}
    PROVE  edits' \subseteq Edits /\ \A d \in edits' : O!Up(d.by)' /\ d.ids # {}
BY DEF CTTypeOK, O!Up

LEMMA OwnerMovesTyped == ASSUME CTTypeOK, OwnerMoves PROVE CTTypeOK'
<1> DEFINE gone == {p \in Procs : O!Up(p) /\ stage'[p] = "gone"}
<1>1. /\ O!Next /\ edits' = CutOff(gone) /\ loaded' = loaded \ gone
      /\ known' = [p \in Procs |-> IF p \in gone THEN NoTasks ELSE known[p]]
      /\ nextFireAt' = [p \in Procs |-> IF p \in gone THEN NoSchedule ELSE nextFireAt[p]]
      /\ changed' = [p \in Procs |-> IF p \in gone THEN 0 ELSE changed[p]]
      /\ UNCHANGED <<taskFile, now, born, fired, handed, deleted>>
      /\ disturbed' \in BOOLEAN
  BY DEF OwnerMoves, CTTypeOK
<1>2. /\ stage' \in [Procs -> O!Stages] /\ recovered' \in BOOLEAN
      /\ isOwner' \subseteq {p \in Procs : stage'[p] = "ready"} /\ leaving' \subseteq isOwner'
      /\ \A p \in Procs : O!Up(p) => O!Up(p)' \/ stage'[p] = "gone"
  BY <1>1, OwnerStep
<1>3. /\ edits' \subseteq Edits
      /\ \A d \in edits' : O!Up(d.by)' /\ d.ids # {}
  BY <1>1, <1>2, EditIs DEF CutOff
<1>4. NoTasks \in Files /\ NoSchedule \in [Ids -> 0 .. Never]
  <2>1. Unset \in 0 .. Never
    BY TimeAssumption DEF Unset, Never
  <2> QED BY <2>1, ReadIs DEF NoSchedule
<1> HIDE DEF gone
<1>5. /\ loaded' \subseteq Procs /\ known' \in [Procs -> Files]
      /\ nextFireAt' \in [Procs -> [Ids -> 0 .. Never]] /\ changed' \in [Procs -> 0 .. 2]
  BY <1>1, <1>4 DEF CTTypeOK
<1> QED BY <1>1, <1>2, <1>3, <1>5 DEF CTTypeOK, taskFile

LEMMA ClockTyped == ASSUME CTTypeOK, Clock PROVE CTTypeOK'
<1>1. now' \in 0 .. MaxNow
  BY TimeAssumption DEF Clock, CTTypeOK
<1>2. fired' \in [Procs -> [Ids -> 0 .. 2]]
  BY DEF Clock, CTTypeOK
<1> QED BY <1>1, <1>2 DEF Clock, CTTypeOK, owner, taskFile, scheduler, O!Up

LEMMA CreateTyped ==
    ASSUME CTTypeOK, NEW p \in Procs, NEW t \in Ids, Create(p, t)
    PROVE  CTTypeOK'
<1> DEFINE d == Begun(p, "add", {t})
<1>1. d \in Edits /\ d.by = p /\ d.ids = {t}
  BY BegunIs DEF Ops
<1>2. edits' = edits \cup {d} /\ O!Up(p) /\ stage' = stage
  BY DEF Create, owner
<1> HIDE DEF d
<1>3. edits' \subseteq Edits /\ \A e \in edits' : O!Up(e.by)' /\ e.ids # {}
  <2>1. {d} \in SUBSET Edits /\ \A x \in {d} : O!Up(x.by) /\ x.ids # {}
    BY <1>1, <1>2
  <2> QED BY <1>2, <2>1, MoreTyped
<1> QED BY <1>3 DEF Create, CTTypeOK, owner, taskFile, scheduler

LEMMA DeleteTyped ==
    ASSUME CTTypeOK, NEW p \in Procs, NEW t \in Ids, Delete(p, t)
    PROVE  CTTypeOK'
<1> DEFINE d == Begun(p, "delete", {t})
<1>1. d \in Edits /\ d.by = p /\ d.ids = {t}
  BY BegunIs DEF Ops
<1>2. edits' = edits \cup {d} /\ O!Up(p) /\ stage' = stage
  BY DEF Delete, owner
<1> HIDE DEF d
<1>3. edits' \subseteq Edits /\ \A e \in edits' : O!Up(e.by)' /\ e.ids # {}
  <2>1. {d} \in SUBSET Edits /\ \A x \in {d} : O!Up(x.by) /\ x.ids # {}
    BY <1>1, <1>2
  <2> QED BY <1>2, <2>1, MoreTyped
<1> QED BY <1>3 DEF Delete, CTTypeOK, owner, taskFile, scheduler

LEMMA EditingTyped ==
    ASSUME CTTypeOK, NEW e \in edits, Editing(e)
    PROVE  CTTypeOK'
<1>1. edits' \subseteq Edits /\ \A d \in edits' : O!Up(d.by)' /\ d.ids # {}
  BY ReadMoves, OpenMoves, FillMoves, EditsTyped
     DEF Editing, ReadFile, OpenFile, Fill, owner
<1>2. CASE ReadFile(e)
  BY <1>1, <1>2 DEF ReadFile, CTTypeOK, owner, taskFile, scheduler
<1>3. CASE OpenFile(e)
  BY <1>1, <1>3 DEF OpenFile, CTTypeOK, owner, scheduler, history
<1>4. CASE Fill(e)
  <2>1. disk' \in Files
    BY <1>4, EditedIs DEF Fill
  <2>2. Announced(e) \in [Procs -> 0 .. 2]
    BY DEF Announced, CTTypeOK
  <2>3. garbled' \in BOOLEAN
    BY <1>4, EditIs DEF Fill
  <2>4. disturbed' \in BOOLEAN
    BY <1>4 DEF Fill, CTTypeOK
  <2> QED BY <1>1, <1>4, <2>1, <2>2, <2>3, <2>4 DEF Fill, CTTypeOK, owner
<1> QED BY <1>2, <1>3, <1>4 DEF Editing

\* What load(true) surfaces.
Missed == {t \in Listed(TasksRead) \ Recurring : TasksRead[t].created < now}

LEMMA InitialLoadDoes ==
    ASSUME CTTypeOK, NEW p \in Procs, InitialLoad(p)
    PROVE  /\ stage[p] = "ready" /\ p \notin loaded
           /\ Missed \subseteq Ids \ Recurring /\ HandsOver(p, Missed)
           /\ \A q \in Procs : q # p => nextFireAt'[q] = nextFireAt[q]
           /\ \A t \in Ids : nextFireAt'[p][t] = IF t \in Missed THEN Never
                                                 ELSE nextFireAt[p][t]
           /\ nextFireAt' \in [Procs -> [Ids -> 0 .. Never]]
           /\ IF Missed = {} THEN edits' = edits
              ELSE edits' = edits \cup {Begun(p, "missed", Missed)}
           /\ loaded' = loaded \cup {p}
           /\ known' \in [Procs -> Files] /\ known'[p] = TasksRead
           /\ \A q \in Procs : q # p => known'[q] = known[q]
           /\ disturbed' = (disturbed \/ garbled)
           /\ UNCHANGED <<owner, taskFile, changed, now, born, deleted>>
<1>1. Missed \subseteq Ids \ Recurring
  BY DEF Missed, Listed
<1>2. /\ stage[p] = "ready" /\ p \notin loaded
      /\ HandsOver(p, Missed)
      /\ nextFireAt' = [nextFireAt EXCEPT ![p] =
                           [t \in Ids |-> IF t \in Missed THEN Never ELSE @[t]]]
      /\ edits' = IF Missed = {} THEN edits
                  ELSE edits \cup {Begun(p, "missed", Missed)}
      /\ loaded' = loaded \cup {p}
      /\ known' = [known EXCEPT ![p] = TasksRead]
      /\ disturbed' = (disturbed \/ garbled)
      /\ UNCHANGED <<owner, taskFile, changed, now, born, deleted>>
  BY DEF InitialLoad, Missed
<1> HIDE DEF Missed
<1>3. Never \in 0 .. Never
  BY TimeAssumption DEF Never
<1>4. /\ \A q \in Procs : q # p => nextFireAt'[q] = nextFireAt[q]
      /\ \A t \in Ids : nextFireAt'[p][t] = IF t \in Missed THEN Never ELSE nextFireAt[p][t]
      /\ nextFireAt' \in [Procs -> [Ids -> 0 .. Never]]
  BY <1>2, <1>3 DEF CTTypeOK
<1>5. /\ known' \in [Procs -> Files] /\ known'[p] = TasksRead
      /\ \A q \in Procs : q # p => known'[q] = known[q]
  BY <1>2, ReadIs DEF CTTypeOK
<1> QED BY <1>1, <1>2, <1>4, <1>5

LEMMA InitialLoadTyped == ASSUME CTTypeOK, NEW p \in Procs, InitialLoad(p) PROVE CTTypeOK'
<1>1. /\ Missed \in SUBSET Ids /\ HandsOver(p, Missed) /\ stage[p] = "ready"
      /\ loaded' = loaded \cup {p} /\ disturbed' \in BOOLEAN
      /\ UNCHANGED <<owner, taskFile, changed, now, born, deleted>>
  BY InitialLoadDoes DEF CTTypeOK
<1>2. edits' \subseteq Edits /\ \A e \in edits' : O!Up(e.by)' /\ e.ids # {}
  <2>1. CASE Missed = {}
    BY <1>1, <2>1, InitialLoadDoes DEF CTTypeOK, O!Up, owner
  <2>2. CASE Missed # {}
    <3> DEFINE d == Begun(p, "missed", Missed)
    <3>1. d \in Edits /\ d.by = p /\ d.ids = Missed
      BY <1>1, BegunIs DEF Ops
    <3>2. edits' = edits \cup {d} /\ O!Up(p) /\ stage' = stage
      BY <1>1, <2>2, InitialLoadDoes DEF owner, O!Up
    <3> HIDE DEF d
    <3>3. {d} \in SUBSET Edits /\ \A x \in {d} : O!Up(x.by) /\ x.ids # {}
      BY <2>2, <3>1, <3>2
    <3> QED BY <3>2, <3>3, MoreTyped
  <2> QED BY <2>1, <2>2
<1>3. handed' \subseteq Ids /\ fired' \in [Procs -> [Ids -> 0 .. 2]]
  BY <1>1, HandsOverIs
<1>4. nextFireAt' \in [Procs -> [Ids -> 0 .. Never]] /\ known' \in [Procs -> Files]
  BY InitialLoadDoes
<1> QED BY <1>1, <1>2, <1>3, <1>4 DEF CTTypeOK, owner, taskFile

LEMMA ReloadTyped == ASSUME CTTypeOK, NEW p \in Procs, Reload(p) PROVE CTTypeOK'
<1>1. known' \in [Procs -> Files] /\ changed' \in [Procs -> 0 .. 2]
  BY ReadIs DEF Reload, CTTypeOK
<1>2. disturbed' \in BOOLEAN
  BY DEF Reload, CTTypeOK
<1> QED BY <1>1, <1>2 DEF Reload, CTTypeOK, owner, taskFile, O!Up

\* What check() fires, and which of it comes again.
Free(p) == Listed(known[p]) \ InFlight(p)
Due(p) == {t \in Free(p) : now >= FireAt(p, t)}
Again(p) == {t \in Due(p) \cap Recurring : ~Aged(known[p][t])}

NewEdits(p) == {Begun(p, "fire", {t}) : t \in Due(p) \ Again(p)}
                  \cup IF Again(p) = {} THEN {} ELSE {Begun(p, "mark", Again(p))}

LEMMA CheckDoes ==
    ASSUME CTTypeOK, NEW p \in Procs, Check(p)
    PROVE  /\ p \in isOwner /\ p \in loaded /\ stage[p] = "ready" /\ InTime(p)
           /\ HandsOver(p, Due(p)) /\ edits' = edits \cup NewEdits(p)
           /\ \A q \in Procs : q # p => nextFireAt'[q] = nextFireAt[q]
           /\ \A t \in Ids : nextFireAt'[p][t] =
                 IF t \in Again(p) THEN now + 1
                 ELSE IF t \in Due(p) \/ t \notin Listed(known[p]) THEN Unset
                 ELSE IF t \in Free(p) THEN FireAt(p, t)
                 ELSE nextFireAt[p][t]
           /\ nextFireAt' \in [Procs -> [Ids -> 0 .. Never]]
           /\ \A q \in Procs : q # p => changed'[q] = changed[q]
           /\ changed'[p] = IF changed[p] = 0 THEN 0 ELSE 2
           /\ changed' \in [Procs -> 0 .. 2]
           /\ UNCHANGED <<owner, taskFile, loaded, known, now, born, deleted, disturbed>>
<1> DEFINE next == [t \in Ids |-> IF t \in Again(p) THEN now + 1
                                  ELSE IF t \in Due(p) \/ t \notin Listed(known[p]) THEN Unset
                                  ELSE IF t \in Free(p) THEN FireAt(p, t)
                                  ELSE nextFireAt[p][t]]
<1>1. /\ p \in isOwner /\ p \in loaded /\ InTime(p)
      /\ HandsOver(p, Due(p)) /\ edits' = edits \cup NewEdits(p)
      /\ nextFireAt' = [nextFireAt EXCEPT ![p] = next]
      /\ changed' = [changed EXCEPT ![p] = IF @ = 0 THEN 0 ELSE 2]
      /\ UNCHANGED <<owner, taskFile, loaded, known, now, born, deleted, disturbed>>
  BY DEF Check, Free, Due, Again, NewEdits
<1>2. stage[p] = "ready"
  BY <1>1 DEF CTTypeOK
<1>3. /\ Unset \in 0 .. Never /\ now + 1 \in 0 .. Never
      /\ \A t \in Free(p) : FireAt(p, t) \in 0 .. Never
  <2>1. Unset \in 0 .. Never /\ now + 1 \in 0 .. Never
    BY TimeAssumption DEF Unset, Never, CTTypeOK
  <2>2. ASSUME NEW t \in Free(p) PROVE FireAt(p, t) \in 0 .. Never
    <3>1. t \in Ids /\ known[p] \in Files /\ t \in Listed(known[p])
      BY DEF Free, Listed, CTTypeOK
    <3>2. known[p][t].last + 1 \in 0 .. Never
      BY <3>1, ReadIs
    <3> QED BY <3>1, <3>2 DEF FireAt, CTTypeOK
  <2> QED BY <2>1, <2>2
<1>4. next \in [Ids -> 0 .. Never]
  BY <1>3 DEF CTTypeOK
<1>5. \A t \in Ids : next[t] =
                 IF t \in Again(p) THEN now + 1
                 ELSE IF t \in Due(p) \/ t \notin Listed(known[p]) THEN Unset
                 ELSE IF t \in Free(p) THEN FireAt(p, t)
                 ELSE nextFireAt[p][t]
  OBVIOUS
<1> HIDE DEF next
<1>6. /\ \A q \in Procs : q # p => nextFireAt'[q] = nextFireAt[q]
      /\ nextFireAt'[p] = next
      /\ nextFireAt' \in [Procs -> [Ids -> 0 .. Never]]
  BY <1>1, <1>4 DEF CTTypeOK
<1>7. /\ \A q \in Procs : q # p => changed'[q] = changed[q]
      /\ changed'[p] = IF changed[p] = 0 THEN 0 ELSE 2
      /\ changed' \in [Procs -> 0 .. 2]
  BY <1>1 DEF CTTypeOK
<1> QED BY <1>1, <1>2, <1>5, <1>6, <1>7

LEMMA DueIs ==
    ASSUME NEW p
    PROVE  /\ Again(p) \subseteq Due(p) /\ Again(p) \subseteq Recurring
           /\ Due(p) \subseteq Free(p) /\ Free(p) \subseteq Listed(known[p])
           /\ Listed(known[p]) \subseteq Ids
BY DEF Again, Due, Free, Listed

LEMMA NewEditsAre ==
    ASSUME CTTypeOK, NEW p \in Procs
    PROVE  /\ NewEdits(p) \subseteq Edits
           /\ \A d \in NewEdits(p) : /\ d.by = p /\ d.ids # {} /\ d.ids \subseteq Due(p)
                                     /\ d.op \in {"fire", "mark"}
           /\ \A t \in Due(p) \ Again(p) :
                 \E d \in NewEdits(p) : d.by = p /\ d.op = "fire" /\ t \in d.ids
<1>1. \A t \in Due(p) : LET d == Begun(p, "fire", {t})
                        IN  d \in Edits /\ d.by = p /\ d.op = "fire" /\ d.ids = {t}
  BY DueIs, BegunIs DEF Ops
<1>2. LET d == Begun(p, "mark", Again(p))
      IN  d \in Edits /\ d.by = p /\ d.op = "mark" /\ d.ids = Again(p)
  BY DueIs, BegunIs DEF Ops
<1>3. \A d \in NewEdits(p) :
          \/ \E t \in Due(p) \ Again(p) : d = Begun(p, "fire", {t})
          \/ Again(p) # {} /\ d = Begun(p, "mark", Again(p))
  BY DEF NewEdits
<1>4. \A t \in Due(p) \ Again(p) : Begun(p, "fire", {t}) \in NewEdits(p)
  BY DEF NewEdits
<1>5. ASSUME NEW d \in NewEdits(p)
      PROVE  /\ d \in Edits /\ d.by = p /\ d.ids # {} /\ d.ids \subseteq Due(p)
             /\ d.op \in {"fire", "mark"}
  <2>1. CASE \E t \in Due(p) \ Again(p) : d = Begun(p, "fire", {t})
    BY <1>1, <2>1
  <2>2. CASE Again(p) # {} /\ d = Begun(p, "mark", Again(p))
    BY <1>2, <2>2, DueIs
  <2> QED BY <1>3, <2>1, <2>2
<1>6. ASSUME NEW t \in Due(p) \ Again(p)
      PROVE  \E d \in NewEdits(p) : d.by = p /\ d.op = "fire" /\ t \in d.ids
  BY <1>1, <1>4
<1> QED BY <1>5, <1>6

LEMMA CheckTyped == ASSUME CTTypeOK, NEW p \in Procs, Check(p) PROVE CTTypeOK'
<1>1. /\ edits' = edits \cup NewEdits(p) /\ HandsOver(p, Due(p)) /\ stage[p] = "ready"
      /\ UNCHANGED <<owner, taskFile, loaded, known, now, born, deleted, disturbed>>
      /\ nextFireAt' \in [Procs -> [Ids -> 0 .. Never]] /\ changed' \in [Procs -> 0 .. 2]
  BY CheckDoes
<1>2. edits' \subseteq Edits /\ \A e \in edits' : O!Up(e.by)' /\ e.ids # {}
  <2>1. O!Up(p) /\ stage' = stage
    BY <1>1 DEF O!Up, owner
  <2>2. NewEdits(p) \in SUBSET Edits /\ \A d \in NewEdits(p) : O!Up(d.by) /\ d.ids # {}
    BY <2>1, NewEditsAre
  <2> QED BY <1>1, <2>1, <2>2, MoreTyped
<1>3. handed' \subseteq Ids /\ fired' \in [Procs -> [Ids -> 0 .. 2]]
  <2>1. Due(p) \in SUBSET Ids
    BY DueIs
  <2> QED BY <1>1, <2>1, HandsOverIs
<1> QED BY <1>1, <1>2, <1>3 DEF CTTypeOK, owner, taskFile

LEMMA CheckIdleTyped == ASSUME CTTypeOK, NEW p \in Procs, CheckIdle(p) PROVE CTTypeOK'
<1>1. NoSchedule \in [Ids -> 0 .. Never]
  BY TimeAssumption DEF Unset, Never, NoSchedule
<1>2. nextFireAt' \in [Procs -> [Ids -> 0 .. Never]] /\ changed' \in [Procs -> 0 .. 2]
  BY <1>1 DEF CheckIdle, CTTypeOK
<1> QED BY <1>2 DEF CheckIdle, CTTypeOK, owner, taskFile, history, O!Up

LEMMA CTInitTyped == CTInit => CTTypeOK
<1> SUFFICES ASSUME CTInit PROVE CTTypeOK
  OBVIOUS
<1>1. 0 \in 0 .. MaxNow /\ Unset \in 0 .. Never /\ 0 \in 0 .. 2
  BY TimeAssumption DEF Unset, Never
<1>2. NewTask(0) \in Task
  BY <1>1, TaskIs
<1>3. disk \in Files /\ NoTasks \in Files
  BY <1>2 DEF CTInit, Files, NoTasks
<1>4. stage \in [Procs -> O!Stages] /\ recovered \in BOOLEAN /\ isOwner = {} /\ leaving = {}
  BY DEF CTInit, O!Init, O!Stages
<1> QED BY <1>1, <1>3, <1>4, IdsAssumption DEF CTInit, CTTypeOK, NoSchedule

LEMMA CTNextTyped == CTTypeOK /\ [CTNext]_ctVars => CTTypeOK'
<1> SUFFICES ASSUME CTTypeOK, [CTNext]_ctVars PROVE CTTypeOK'
  OBVIOUS
<1>1. CASE CTNext
  BY <1>1, OwnerMovesTyped, ClockTyped, CreateTyped, DeleteTyped, EditingTyped,
     InitialLoadTyped, ReloadTyped, CheckTyped, CheckIdleTyped DEF CTNext
<1>2. CASE UNCHANGED ctVars
  BY <1>2 DEF ctVars, owner, taskFile, scheduler, history, CTTypeOK, O!Up
<1> QED BY <1>1, <1>2
-----------------------------------------------------------------------------
(***************************************************************************)
(* What was begun, and why.                                                *)
(***************************************************************************)

LEMMA OwnerMovesDoes ==
    ASSUME CTTypeOK, OwnerMoves
    PROVE  /\ UNCHANGED <<disk, garbled, now, born, fired, handed, deleted>>
           /\ edits' \subseteq edits
           /\ ~disturbed' => ~disturbed
           /\ loaded' \subseteq loaded
           /\ \A p \in Procs : stage[p] = "gone" => stage'[p] = "gone"
           /\ \A p \in Procs :
                 stage'[p] \in {"off", "starting", "ready"} =>
                    stage[p] \in {"off", "starting", "ready"} /\ (p \in loaded' <=> p \in loaded)
           /\ \A p \in loaded : p \in loaded' /\ stage[p] \in {"ready", "stopped"} =>
                 stage'[p] \in {"ready", "stopped"}
           /\ \A p \in Procs : stage'[p] = "ready" =>
                 /\ stage[p] \in {"starting", "ready"}
                 /\ p \in isOwner /\ stage[p] = "ready" => p \in isOwner'
                 /\ known'[p] = known[p] /\ nextFireAt'[p] = nextFireAt[p]
                 /\ changed'[p] = changed[p]
                 /\ \A e \in edits : e.by = p => e \in edits'
           /\ \A p \in Procs, t \in Ids : known'[p][t] # None => known[p][t] # None
           /\ (\A p \in Procs : stage'[p] # "gone") => edits' = edits
<1> DEFINE gone == {p \in Procs : O!Up(p) /\ stage'[p] = "gone"}
<1>1. /\ O!Next /\ edits' = CutOff(gone) /\ loaded' = loaded \ gone
      /\ known' = [p \in Procs |-> IF p \in gone THEN NoTasks ELSE known[p]]
      /\ nextFireAt' = [p \in Procs |-> IF p \in gone THEN NoSchedule ELSE nextFireAt[p]]
      /\ changed' = [p \in Procs |-> IF p \in gone THEN 0 ELSE changed[p]]
      /\ UNCHANGED <<disk, garbled, now, born, fired, handed, deleted>>
      /\ ~disturbed' => ~disturbed
  BY DEF OwnerMoves, CTTypeOK, taskFile
<1>2. \A p \in Procs :
          /\ stage'[p] = "ready" /\ stage[p] = "ready" /\ p \in isOwner => p \in isOwner'
          /\ stage'[p] = "ready" => stage[p] \in {"starting", "ready"}
          /\ stage'[p] \in {"off", "starting", "ready"} =>
                stage[p] \in {"off", "starting", "ready"}
          /\ stage[p] = "gone" => stage'[p] = "gone"
          /\ stage[p] \in {"ready", "stopped"} =>
                stage'[p] \in {"ready", "stopped", "gone"}
  BY <1>1, OwnerStep
<1>3. \A p \in Procs : p \in gone <=> O!Up(p) /\ stage'[p] = "gone"
  OBVIOUS
<1>4. \A p : p \in gone => p \in Procs
  OBVIOUS
<1> HIDE DEF gone
<1>5. edits' \subseteq edits /\ \A e \in edits : e.by \notin gone => e \in edits'
  BY <1>1 DEF CutOff
<1>6. \A p \in Procs : stage'[p] = "ready" =>
          /\ known'[p] = known[p] /\ nextFireAt'[p] = nextFireAt[p]
          /\ changed'[p] = changed[p]
          /\ \A e \in edits : e.by = p => e \in edits'
  BY <1>1, <1>3, <1>5
<1>7. \A p \in Procs, t \in Ids : known'[p][t] # None => known[p][t] # None
  BY <1>1 DEF NoTasks
<1>8. (\A p \in Procs : stage'[p] # "gone") => edits' = edits
  BY <1>3, <1>4, <1>5
<1>9. \A p \in loaded : p \in loaded' /\ stage[p] \in {"ready", "stopped"} =>
          stage'[p] \in {"ready", "stopped"}
  BY <1>1, <1>2, <1>3 DEF CTTypeOK, O!Up
<1>10. \A p \in Procs :
          stage'[p] \in {"off", "starting", "ready"} =>
             stage[p] \in {"off", "starting", "ready"} /\ (p \in loaded' <=> p \in loaded)
  BY <1>1, <1>2, <1>3
<1>11. \A p \in Procs : stage'[p] = "ready" =>
          /\ stage[p] \in {"starting", "ready"}
          /\ p \in isOwner /\ stage[p] = "ready" => p \in isOwner'
  BY <1>2
<1> QED BY <1>1, <1>2, <1>5, <1>6, <1>7, <1>8, <1>9, <1>10, <1>11

LEMMA EditingKeeps ==
    ASSUME CTTypeOK, NEW e \in edits, Editing(e)
    PROVE  /\ \A d \in edits' : \E x \in edits : SameJob(d, x)
           /\ UNCHANGED <<owner, loaded, known, nextFireAt, now, born, fired, handed, deleted>>
           /\ ~disturbed' => ~disturbed
           /\ \A t : (\A d, x \in edits : Adds(d, t) /\ Adds(x, t) => d = x) =>
                     \A d, x \in edits' : Adds(d, t)' /\ Adds(x, t)' => d = x
<1>1. UNCHANGED <<owner, loaded, known, nextFireAt, now, born, fired, handed, deleted>>
      /\ (~disturbed' => ~disturbed)
  <2>1. CASE ReadFile(e)
    BY <2>1 DEF ReadFile, owner, scheduler
  <2>2. CASE OpenFile(e)
    BY <2>2 DEF OpenFile, owner, scheduler, history
  <2>3. CASE Fill(e)
    BY <2>3 DEF Fill, owner
  <2> QED BY <2>1, <2>2, <2>3 DEF Editing
<1>2. \E S \in SUBSET edits : Moved(S)
  BY ReadMoves, OpenMoves, FillMoves DEF Editing
<1> QED BY <1>1, <1>2, MovedIs

LEMMA InitBegins == CTInit => Begins /\ Caused
BY DEF CTInit, Begins, Caused

LEMMA NextBegins == CTTypeOK /\ Begins /\ [CTNext]_ctVars => Begins'
<1> SUFFICES ASSUME CTTypeOK, Begins, [CTNext]_ctVars PROVE Begins'
  OBVIOUS
<1>1. CASE OwnerMoves
  BY <1>1, OwnerMovesDoes DEF Begins, CTTypeOK
<1>2. CASE Clock
  BY <1>2 DEF Clock, Begins, owner, scheduler
<1>3. ASSUME NEW p \in Procs, NEW t \in Ids, Create(p, t) \/ Delete(p, t) PROVE Begins'
  BY <1>3 DEF Create, Delete, Begins, owner, scheduler
<1>4. ASSUME NEW e \in edits, Editing(e) PROVE Begins'
  BY <1>4, EditingKeeps DEF Begins, owner
<1>5. ASSUME NEW p \in Procs, InitialLoad(p) PROVE Begins'
  <2>1. Missed \in SUBSET Ids /\ HandsOver(p, Missed)
    BY <1>5, InitialLoadDoes
  <2>2. \A q \in Procs : q # p => fired'[q] = fired[q]
    BY <2>1, HandsOverIs
  <2> QED BY <1>5, <2>2, InitialLoadDoes DEF Begins, owner
<1>6. ASSUME NEW p \in Procs, Reload(p) \/ CheckIdle(p) PROVE Begins'
  BY <1>6 DEF Reload, CheckIdle, Begins, owner, history
<1>7. ASSUME NEW p \in Procs, Check(p) PROVE Begins'
  <2>1. Due(p) \in SUBSET Ids /\ HandsOver(p, Due(p))
    BY <1>7, CheckDoes, DueIs
  <2>2. \A q \in Procs : q # p => fired'[q] = fired[q]
    BY <2>1, HandsOverIs
  <2> QED BY <1>7, <2>2, CheckDoes DEF Begins, owner
<1>8. CASE UNCHANGED ctVars
  BY <1>8 DEF ctVars, owner, scheduler, history, Begins
<1> QED BY <1>1, <1>2, <1>3, <1>4, <1>5, <1>6, <1>7, <1>8 DEF CTNext

\* An edit is named by its job.
CausedBy(d) ==
    /\ d.op \in {"fire", "mark", "missed"} => d.ids \subseteq handed
    /\ d.op = "delete" => d.ids \subseteq deleted
    /\ d.op = "add" => d.ids \subseteq born

LEMMA CausedIs == Caused <=> \A d \in edits : CausedBy(d)
BY DEF Caused, CausedBy

LEMMA NextCaused == CTTypeOK /\ Caused /\ [CTNext]_ctVars => Caused'
<1> SUFFICES ASSUME CTTypeOK, Caused, [CTNext]_ctVars PROVE Caused'
  OBVIOUS
<1>1. \A d \in edits : CausedBy(d)
  BY CausedIs
<1>2. (\A d \in edits' : CausedBy(d)') => Caused'
  BY DEF Caused, CausedBy
<1>3. ASSUME handed \subseteq handed', deleted \subseteq deleted', born \subseteq born',
             NEW d, NEW e \in edits, SameJob(d, e)
      PROVE  CausedBy(d)'
  BY <1>1, <1>3 DEF CausedBy, SameJob
<1>4. \A d : SameJob(d, d)
  BY DEF SameJob
<1>5. CASE OwnerMoves
  BY <1>2, <1>3, <1>4, <1>5, OwnerMovesDoes
<1>6. CASE Clock
  BY <1>2, <1>3, <1>4, <1>6 DEF Clock
<1>7. ASSUME NEW p \in Procs, NEW t \in Ids, Create(p, t) PROVE Caused'
  <2>1. edits' = edits \cup {Begun(p, "add", {t})} /\ born' = born \cup {t}
        /\ UNCHANGED <<handed, deleted>>
    BY <1>7 DEF Create
  <2>2. PICK d : d = Begun(p, "add", {t}) /\ d.op = "add" /\ d.ids = {t}
    BY <2>1, BegunIs DEF Ops
  <2>3. CausedBy(d)'
    BY <2>1, <2>2 DEF CausedBy
  <2> QED BY <1>2, <1>3, <1>4, <2>1, <2>2, <2>3
<1>8. ASSUME NEW p \in Procs, NEW t \in Ids, Delete(p, t) PROVE Caused'
  <2>1. edits' = edits \cup {Begun(p, "delete", {t})} /\ deleted' = deleted \cup {t}
        /\ UNCHANGED <<handed, born>>
    BY <1>8 DEF Delete
  <2>2. PICK d : d = Begun(p, "delete", {t}) /\ d.op = "delete" /\ d.ids = {t}
    BY <2>1, BegunIs DEF Ops
  <2>3. CausedBy(d)'
    BY <2>1, <2>2 DEF CausedBy
  <2> QED BY <1>2, <1>3, <1>4, <2>1, <2>2, <2>3
<1>9. ASSUME NEW e \in edits, Editing(e) PROVE Caused'
  BY <1>2, <1>3, <1>9, EditingKeeps
<1>10. ASSUME NEW p \in Procs, InitialLoad(p) PROVE Caused'
  <2>1. /\ Missed \in SUBSET Ids /\ handed' = handed \cup Missed
        /\ UNCHANGED <<born, deleted>>
    BY <1>10, InitialLoadDoes, HandsOverIs
  <2>2. PICK d : d = Begun(p, "missed", Missed) /\ d.op = "missed" /\ d.ids = Missed
    BY <2>1, BegunIs DEF Ops
  <2>3. CausedBy(d)'
    BY <2>1, <2>2 DEF CausedBy
  <2>4. edits' = edits \/ edits' = edits \cup {d}
    BY <1>10, <2>2, InitialLoadDoes
  <2> QED BY <1>2, <1>3, <1>4, <2>1, <2>3, <2>4
<1>11. ASSUME NEW p \in Procs, Reload(p) \/ CheckIdle(p) PROVE Caused'
  BY <1>2, <1>3, <1>4, <1>11 DEF Reload, CheckIdle, history
<1>12. ASSUME NEW p \in Procs, Check(p) PROVE Caused'
  <2>1. /\ Due(p) \in SUBSET Ids /\ HandsOver(p, Due(p)) /\ edits' = edits \cup NewEdits(p)
        /\ UNCHANGED <<born, deleted>>
    BY <1>12, CheckDoes, DueIs
  <2>2. handed' = handed \cup Due(p)
    BY <2>1, HandsOverIs
  <2>3. \A d \in NewEdits(p) : CausedBy(d)'
    BY <2>2, NewEditsAre DEF CausedBy
  <2> QED BY <1>2, <1>3, <1>4, <2>1, <2>2, <2>3
<1>13. CASE UNCHANGED ctVars
  BY <1>13 DEF ctVars, history, Caused
<1> QED BY <1>5, <1>6, <1>7, <1>8, <1>9, <1>10, <1>11, <1>12, <1>13 DEF CTNext

-----------------------------------------------------------------------------
(***************************************************************************)
(* Tasks come and go.                                                      *)
(***************************************************************************)

\* An edit that meets no other changes what it is about, and no more.
LEMMA FillIs ==
    ASSUME CTTypeOK, NEW e \in edits, Fill(e), ~disturbed'
    PROVE  /\ ~disturbed /\ changed' = Announced(e)
           /\ \A t \in Ids :
                 /\ disk'[t] # None => disk[t] # None \/ Adds(e, t)
                 /\ Adds(e, t) => disk'[t] # None
                 /\ disk[t] # None /\ disk'[t] = None =>
                       t \in e.ids /\ e.op \in {"fire", "delete", "missed"}
                 /\ t \in e.ids /\ e.op \in {"fire", "missed"} => disk'[t] = None
<1>1. ~disturbed /\ e.copy = disk /\ disk' = Edited(e) /\ changed' = Announced(e)
  BY DEF Fill
<1>2. e.op \in {"add", "fire", "delete", "mark", "missed"}
  BY EditIs DEF Ops
<1>3. \A t \in Ids :
          /\ t \notin e.ids => disk'[t] = disk[t]
          /\ t \in e.ids /\ e.op = "add" => disk'[t] # None
          /\ t \in e.ids /\ e.op = "mark" => (disk'[t] = None <=> disk[t] = None)
          /\ t \in e.ids /\ e.op \notin {"add", "mark"} => disk'[t] = None
  BY <1>1, EditedIs
<1> QED BY <1>1, <1>2, <1>3 DEF Adds

\* What is known of t: nothing, before it is in the file.
Unseen(t) == disk[t] = None /\ \A p \in Procs : known[p][t] = None /\ fired[p][t] = 0

LEMMA FreshIs ==
    Fresh <=> /\ \A d, e \in edits, t \in Ids : Adds(d, t) /\ Adds(e, t) => d = e
              /\ \A t \in Ids : t \notin born \/ (\E e \in edits : Adds(e, t)) => Unseen(t)
BY DEF Fresh, Unseen

\* A task that is unseen is not among those handed over.
LEMMA HandsSeen ==
    ASSUME CTTypeOK, NEW p \in Procs, NEW ids \in SUBSET Ids, HandsOver(p, ids),
           NEW t \in Ids, t \notin ids, \A q \in Procs : fired[q][t] = 0
    PROVE  \A q \in Procs : fired'[q][t] = 0
BY HandsOverIs
\* A step that adds no task, and shows and hands over none that is unseen.
LEMMA StaysFresh ==
    ASSUME Fresh,
           \A t \in Ids, d, e \in edits' : Adds(d, t)' /\ Adds(e, t)' => d = e,
           \A t \in Ids : (\E e \in edits' : Adds(e, t)') => \E e \in edits : Adds(e, t),
           born \subseteq born', \A t \in Ids : Unseen(t) => Unseen(t)'
    PROVE  Fresh'
<1>1. /\ \A d, e \in edits', t \in Ids : Adds(d, t)' /\ Adds(e, t)' => d = e
      /\ \A t \in Ids : t \notin born' \/ (\E e \in edits' : Adds(e, t)') => Unseen(t)'
  BY FreshIs
<1> QED BY <1>1 DEF Fresh, Unseen

\* New edits that add nothing.
LEMMA NoneAdded ==
    ASSUME Fresh, \A d \in edits' : d \in edits \/ d.op # "add",
           born \subseteq born', \A t \in Ids : Unseen(t) => Unseen(t)'
    PROVE  Fresh'
<1>1. \A t \in Ids, d \in edits' : Adds(d, t)' => Adds(d, t)
  BY DEF Adds
<1>2. \A t \in Ids, d, e \in edits' : Adds(d, t)' /\ Adds(e, t)' => d = e
  BY <1>1 DEF Fresh, Adds
<1>3. \A t \in Ids : (\E e \in edits' : Adds(e, t)') => \E e \in edits : Adds(e, t)
  BY <1>1 DEF Adds
<1> QED BY <1>2, <1>3, StaysFresh

LEMMA InitFresh == CTInit => Fresh /\ NothingIsDropped
<1> SUFFICES ASSUME CTInit PROVE Fresh /\ NothingIsDropped
  OBVIOUS
<1>1. \A t \in Ids : disk[t] # None <=> t \in Existing
  BY TimeAssumption, TaskIs DEF CTInit
<1>2. Fresh
  BY <1>1 DEF CTInit, Fresh, NoTasks
<1>3. NothingIsDropped
  BY <1>1, IdsAssumption DEF CTInit, NothingIsDropped, Listed
<1> QED BY <1>2, <1>3

LEMMA NextFresh ==
    ASSUME CTTypeOK, Caused, ~disturbed => Fresh, [CTNext]_ctVars, ~disturbed'
    PROVE  Fresh'
<1>1. CASE OwnerMoves
  <2>1. Fresh /\ edits' \subseteq edits /\ UNCHANGED <<disk, born, fired>>
    BY <1>1, OwnerMovesDoes
  <2>2. \A t \in Ids : Unseen(t) => Unseen(t)'
    BY <1>1, <2>1, OwnerMovesDoes DEF Unseen
  <2> QED BY <2>1, <2>2, NoneAdded
<1>2. CASE Clock
  BY <1>2 DEF Clock, Fresh, Adds, scheduler, taskFile
<1>3. ASSUME NEW p \in Procs, NEW t \in Ids, Create(p, t) PROVE Fresh'
  <2>1. /\ edits' = edits \cup {Begun(p, "add", {t})} /\ born' = born \cup {t}
        /\ Fresh /\ t \notin born /\ UNCHANGED <<disk, known, fired>>
    BY <1>3 DEF Create, scheduler, taskFile
  <2>2. PICK d : d = Begun(p, "add", {t}) /\ d.op = "add" /\ d.ids = {t}
    BY BegunIs DEF Ops
  <2>3. \A e : ~Adds(e, t)
    BY <2>1 DEF Adds, Caused
  <2>4. \A e, x : Adds(e, x)' <=> Adds(e, x) \/ (e = d /\ x = t)
    BY <2>1, <2>2 DEF Adds
  <2>5. \A x : Unseen(x)' <=> Unseen(x)
    BY <2>1 DEF Unseen
  <2>6. \A e, f \in edits', x \in Ids : Adds(e, x)' /\ Adds(f, x)' => e = f
    <3> SUFFICES ASSUME NEW x \in Ids, NEW e \in edits', NEW f \in edits',
                        Adds(e, x)', Adds(f, x)'
                 PROVE  e = f
      OBVIOUS
    <3>1. CASE x = t
      BY <2>3, <2>4, <3>1
    <3>2. CASE x # t
      <4>1. Adds(e, x) /\ Adds(f, x)
        BY <2>4, <3>2
      <4>2. e \in edits /\ f \in edits
        BY <4>1 DEF Adds
      <4> QED BY <2>1, <4>1, <4>2 DEF Fresh
    <3> QED BY <3>1, <3>2
  <2>7. \A x \in Ids : x \notin born' \/ (\E e \in edits' : Adds(e, x)') => Unseen(x)'
    BY <2>1, <2>4, <2>5, FreshIs DEF Adds
  <2> QED BY <2>6, <2>7 DEF Fresh, Unseen
<1>4. ASSUME NEW p \in Procs, NEW t \in Ids, Delete(p, t) PROVE Fresh'
  <2>1. /\ edits' = edits \cup {Begun(p, "delete", {t})}
        /\ Fresh /\ UNCHANGED <<disk, known, fired, born>>
    BY <1>4 DEF Delete, scheduler, taskFile
  <2>2. PICK d : d = Begun(p, "delete", {t}) /\ d.op = "delete"
    BY BegunIs DEF Ops
  <2>3. \A x \in edits' : x \in edits \/ x.op # "add"
    BY <2>1, <2>2
  <2>4. \A x : Unseen(x)' <=> Unseen(x)
    BY <2>1 DEF Unseen
  <2> QED BY <2>1, <2>3, <2>4, NoneAdded
<1>5. ASSUME NEW e \in edits, Editing(e) PROVE Fresh'
  <2>1. Fresh /\ UNCHANGED <<known, born, fired>>
    BY <1>5, EditingKeeps
  <2>2. \A d \in edits' : \E x \in edits : SameJob(d, x)
    BY <1>5, EditingKeeps
  <2>3. \A t \in Ids : (\E d \in edits' : Adds(d, t)') => \E x \in edits : Adds(x, t)
    BY <2>2 DEF Adds, SameJob
  <2>4. \A t \in Ids, d, x \in edits' : Adds(d, t)' /\ Adds(x, t)' => d = x
    BY <1>5, <2>1, EditingKeeps DEF Fresh
  <2>5. ASSUME disk' = disk PROVE Fresh'
    <3>1. \A t \in Ids : Unseen(t) => Unseen(t)'
      BY <2>1, <2>5 DEF Unseen
    <3> QED BY <2>1, <2>3, <2>4, <3>1, StaysFresh
  <2>6. CASE ReadFile(e) \/ OpenFile(e)
    BY <2>5, <2>6 DEF ReadFile, OpenFile, taskFile
  <2>7. CASE Fill(e)
    <3>1. \A t \in Ids : (\E d \in edits' : Adds(d, t)') => ~Adds(e, t)
      <4> SUFFICES ASSUME NEW t \in Ids, NEW d \in edits', Adds(d, t)' PROVE ~Adds(e, t)
        OBVIOUS
      <4>1. PICK x \in edits \ {e} : SameJob(d, x)
        BY <2>7, FillMoves, MovedIs
      <4>2. Adds(x, t)
        BY <4>1 DEF Adds, SameJob
      <4> QED BY <2>1, <4>1, <4>2 DEF Fresh
    <3>2. \A t \in Ids : t \notin born => ~Adds(e, t)
      BY DEF Adds, Caused
    <3>3. \A t \in Ids : Unseen(t) /\ ~Adds(e, t) => Unseen(t)'
      BY <2>1, <2>7, FillIs DEF Unseen
    <3>4. \A t \in Ids : t \notin born' \/ (\E d \in edits' : Adds(d, t)') => Unseen(t)'
      BY <2>1, <2>3, <3>1, <3>2, <3>3, FreshIs
    <3> QED BY <2>4, <3>4 DEF Fresh, Unseen
  <2> QED BY <1>5, <2>6, <2>7 DEF Editing
<1>6. ASSUME NEW p \in Procs, InitialLoad(p) PROVE Fresh'
  <2>1. /\ Fresh /\ ~garbled /\ TasksRead = disk /\ UNCHANGED <<disk, born>>
        /\ Missed \in SUBSET Ids /\ HandsOver(p, Missed)
    BY <1>6, InitialLoadDoes, ReadIs DEF taskFile
  <2>2. PICK d : d = Begun(p, "missed", Missed) /\ d.op = "missed"
    BY <2>1, BegunIs DEF Ops
  <2>3. \A x \in edits' : x \in edits \/ x.op # "add"
    BY <1>6, <2>2, InitialLoadDoes
  <2>4. ASSUME NEW t \in Ids, Unseen(t) PROVE Unseen(t)'
    <3>1. t \notin Missed
      BY <2>1, <2>4 DEF Missed, Listed, Unseen
    <3>2. \A q \in Procs : fired'[q][t] = 0
      BY <2>1, <2>4, <3>1, HandsSeen DEF Unseen
    <3>3. \A q \in Procs : known'[q][t] = None
      BY <1>6, <2>1, <2>4, InitialLoadDoes DEF Unseen
    <3> QED BY <2>1, <2>4, <3>2, <3>3 DEF Unseen
  <2> QED BY <2>1, <2>3, <2>4, NoneAdded
<1>7. ASSUME NEW p \in Procs, Reload(p) PROVE Fresh'
  <2>1. /\ Fresh /\ TasksRead = disk /\ UNCHANGED <<disk, born, fired, edits>>
        /\ known' = [known EXCEPT ![p] = TasksRead]
    BY <1>7, ReadIs DEF Reload, taskFile
  <2>2. \A t \in Ids : Unseen(t) => Unseen(t)'
    BY <2>1 DEF Unseen, CTTypeOK
  <2> QED BY <2>1, <2>2, NoneAdded
<1>8. ASSUME NEW p \in Procs, Check(p) PROVE Fresh'
  <2>1. /\ Fresh /\ UNCHANGED <<disk, born, known>> /\ edits' = edits \cup NewEdits(p)
        /\ Due(p) \in SUBSET Ids /\ HandsOver(p, Due(p))
    BY <1>8, CheckDoes, DueIs DEF taskFile
  <2>2. \A d \in NewEdits(p) : d.op # "add"
    BY NewEditsAre
  <2>3. ASSUME NEW t \in Ids, Unseen(t) PROVE Unseen(t)'
    <3>1. t \notin Due(p)
      BY <2>3, DueIs DEF Listed, Unseen
    <3>2. \A q \in Procs : fired'[q][t] = 0
      BY <2>1, <2>3, <3>1, HandsSeen DEF Unseen
    <3> QED BY <2>1, <2>3, <3>2 DEF Unseen
  <2> QED BY <2>1, <2>2, <2>3, NoneAdded
<1>9. ASSUME NEW p \in Procs, CheckIdle(p) PROVE Fresh'
  BY <1>9 DEF CheckIdle, Fresh, Adds, taskFile, history
<1>10. CASE UNCHANGED ctVars
  BY <1>10 DEF ctVars, taskFile, scheduler, history, Fresh, Adds
<1> QED BY <1>1, <1>2, <1>3, <1>4, <1>5, <1>6, <1>7, <1>8, <1>9, <1>10 DEF CTNext

\* A task that was created is somewhere.
Somewhere(t) ==
    \/ disk[t] # None \/ t \in handed \cup deleted
    \/ \E e \in edits : Adds(e, t)
    \/ \E p \in Procs : stage[p] = "gone"

LEMMA SomewhereIs ==
    CTTypeOK => (NothingIsDropped <=> (disturbed \/ \A t \in born : Somewhere(t)))
<1> SUFFICES ASSUME CTTypeOK
             PROVE  NothingIsDropped <=> (disturbed \/ \A t \in born : Somewhere(t))
  OBVIOUS
<1>1. \A t \in born : t \in Listed(disk) <=> disk[t] # None
  BY DEF CTTypeOK, Listed
<1> QED BY <1>1 DEF NothingIsDropped, Somewhere, Adds

LEMMA NextDropsNothing ==
    ASSUME CTTypeOK, Caused, ~disturbed => NothingIsDropped, [CTNext]_ctVars,
           CTTypeOK', ~disturbed'
    PROVE  NothingIsDropped'
<1>1. ~disturbed => \A t \in born : Somewhere(t)
  BY SomewhereIs
<1>2. (\A t \in born' : Somewhere(t)') => NothingIsDropped'
  BY DEF NothingIsDropped, Somewhere, Adds, CTTypeOK, Listed
<1>3. ASSUME ~disturbed, born' = born, \A t \in born : disk[t] # None => disk'[t] # None,
             handed \subseteq handed', deleted \subseteq deleted', edits \subseteq edits',
             stage' = stage
      PROVE  NothingIsDropped'
  BY <1>1, <1>2, <1>3 DEF Somewhere, Adds
<1>4. CASE OwnerMoves
  <2>1. CASE \E p \in Procs : stage'[p] = "gone"
    BY <1>2, <2>1 DEF Somewhere
  <2>2. CASE \A p \in Procs : stage'[p] # "gone"
    BY <1>1, <1>2, <1>4, <2>2, OwnerMovesDoes DEF Somewhere, Adds
  <2> QED BY <2>1, <2>2
<1>5. CASE Clock
  BY <1>3, <1>5 DEF Clock, taskFile, owner
<1>6. ASSUME NEW p \in Procs, NEW t \in Ids, Create(p, t) PROVE NothingIsDropped'
  <2>1. /\ edits' = edits \cup {Begun(p, "add", {t})} /\ born' = born \cup {t}
        /\ ~disturbed /\ UNCHANGED <<disk, stage, handed, deleted>>
    BY <1>6 DEF Create, taskFile, owner
  <2>2. PICK d : d = Begun(p, "add", {t}) /\ d.op = "add" /\ d.ids = {t}
    BY BegunIs DEF Ops
  <2>3. Somewhere(t)'
    BY <2>1, <2>2 DEF Somewhere, Adds
  <2>4. \A x \in born : Somewhere(x)'
    BY <1>1, <2>1 DEF Somewhere, Adds
  <2> QED BY <1>2, <2>1, <2>3, <2>4
<1>7. ASSUME NEW p \in Procs, NEW t \in Ids, Delete(p, t) PROVE NothingIsDropped'
  BY <1>3, <1>7 DEF Delete, taskFile, owner
<1>8. ASSUME NEW e \in edits, Editing(e) PROVE NothingIsDropped'
  <2>1. /\ UNCHANGED <<owner, born, handed, deleted>> /\ ~disturbed
    BY <1>8, EditingKeeps
  <2>2. ASSUME NEW t \in born, NEW x \in edits, Adds(x, t), NEW d \in edits', SameJob(d, x)
        PROVE  Somewhere(t)'
    BY <2>2 DEF Somewhere, Adds, SameJob
  <2>3. CASE ReadFile(e)
    <3>1. CASE Needless(e)
      <4>2. \A x \in edits : x.op = "add" => \E d \in edits' : SameJob(d, x)
        BY <2>3, <3>1, ReadMoves, MovedIs DEF Needless
      <4>3. disk' = disk
        BY <2>3 DEF ReadFile, taskFile
      <4> QED BY <1>1, <1>2, <2>1, <2>2, <4>2, <4>3 DEF Somewhere, Adds, owner
    <3>2. CASE ~Needless(e)
      <4>1. \A x \in edits : \E d \in edits' : SameJob(d, x)
        BY <2>3, <3>2, ReadMoves, MovedIs
      <4>2. disk' = disk
        BY <2>3 DEF ReadFile, taskFile
      <4> QED BY <1>1, <1>2, <2>1, <2>2, <4>1, <4>2 DEF Somewhere, owner
    <3> QED BY <3>1, <3>2
  <2>4. CASE OpenFile(e)
    <3>1. \A x \in edits : \E d \in edits' : SameJob(d, x)
      BY <2>4, OpenMoves, MovedIs
    <3>2. disk' = disk
      BY <2>4 DEF OpenFile
    <3> QED BY <1>1, <1>2, <2>1, <2>2, <3>1, <3>2 DEF Somewhere, owner
  <2>5. CASE Fill(e)
    <3>1. ASSUME NEW t \in born PROVE Somewhere(t)'
      <4>1. t \in Ids
        BY DEF CTTypeOK
      <4>2. CASE disk[t] # None
        <5>1. disk'[t] # None \/ t \in handed \cup deleted
          BY <2>5, <4>1, <4>2, FillIs DEF Caused
        <5> QED BY <2>1, <5>1 DEF Somewhere
      <4>3. CASE Adds(e, t)
        BY <2>5, <4>1, <4>3, FillIs DEF Somewhere
      <4>4. ASSUME NEW x \in edits, Adds(x, t), x # e PROVE Somewhere(t)'
        <5>1. PICK d \in edits' : SameJob(d, x)
          BY <2>5, <4>4, FillMoves, MovedIs
        <5> QED BY <2>2, <4>4, <5>1
      <4> QED BY <1>1, <2>1, <4>2, <4>3, <4>4 DEF Somewhere, owner
    <3> QED BY <1>2, <2>1, <3>1
  <2> QED BY <1>8, <2>3, <2>4, <2>5 DEF Editing
<1>9. ASSUME NEW p \in Procs, InitialLoad(p) PROVE NothingIsDropped'
  <2>1. /\ Missed \in SUBSET Ids /\ HandsOver(p, Missed) /\ ~disturbed
        /\ UNCHANGED <<owner, taskFile, born, deleted>> /\ edits \subseteq edits'
    BY <1>9, InitialLoadDoes
  <2> QED BY <1>3, <2>1, HandsOverIs DEF owner, taskFile
<1>10. ASSUME NEW p \in Procs, Reload(p) \/ CheckIdle(p) PROVE NothingIsDropped'
  BY <1>3, <1>10 DEF Reload, CheckIdle, owner, taskFile, history
<1>11. ASSUME NEW p \in Procs, Check(p) PROVE NothingIsDropped'
  <2>1. /\ Due(p) \in SUBSET Ids /\ HandsOver(p, Due(p)) /\ ~disturbed
        /\ UNCHANGED <<owner, taskFile, born, deleted>> /\ edits \subseteq edits'
    BY <1>11, CheckDoes, DueIs
  <2> QED BY <1>3, <2>1, HandsOverIs DEF owner, taskFile
<1>12. CASE UNCHANGED ctVars
  BY <1>3, <1>12 DEF ctVars, owner, taskFile, history
<1> QED BY <1>4, <1>5, <1>6, <1>7, <1>8, <1>9, <1>10, <1>11, <1>12 DEF CTNext
-----------------------------------------------------------------------------
(***************************************************************************)
(* What was fired is not fired again.                                      *)
(***************************************************************************)

Barred(p, t) ==
    /\ Later(p, t) \/ Removing(p, t) \/ Surfaced(p, t) \/ Removed(p, t)
    /\ known[p][t] = None => disk[t] = None

Held == FiresOnce /\ Spent

LEMMA SpentIs ==
    Spent <=> \A p \in loaded, t \in Ids :
                 stage[p] = "ready" /\ fired[p][t] # 0 => Barred(p, t)
BY DEF Spent, Barred

LEMMA StaysBarred ==
    ASSUME NEW p, NEW t, Barred(p, t),
           now' = now \/ t \notin Recurring, p \in isOwner => p \in isOwner',
           nextFireAt'[p][t] = nextFireAt[p][t],
           \A e \in edits : e.by = p => \E d \in edits' : SameJob(d, e),
           disk[t] = None => disk'[t] = None, known'[p][t] = known[p][t],
           changed[p] = 2 => changed'[p] = 2
    PROVE  Barred(p, t)'
<1>1. Removing(p, t) => Removing(p, t)'
  BY DEF Removing, SameJob
<1>2. Surfaced(p, t) => Surfaced(p, t)'
  BY DEF Surfaced, SameJob, Never
<1>3. Later(p, t) => Later(p, t)'
  BY DEF Later
<1>4. Removed(p, t) => Removed(p, t)'
  BY DEF Removed
<1> QED BY <1>1, <1>2, <1>3, <1>4 DEF Barred

LEMMA SameEdits ==
    ASSUME edits \subseteq edits'
    PROVE  \A e \in edits : \E d \in edits' : SameJob(d, e)
BY DEF SameJob

\* A step that hands over nothing keeps to what every process keeps to.
LEMMA StaysHeld ==
    ASSUME CTTypeOK, ~disturbed, Held, loaded' \subseteq loaded,
           \A p \in Procs, t \in Ids : fired'[p][t] = fired[p][t] \/ fired'[p][t] = 0,
           \A p \in loaded', t \in Ids :
              stage'[p] = "ready" /\ fired'[p][t] # 0 /\ fired'[p][t] = fired[p][t] =>
                 stage[p] = "ready" /\ (Barred(p, t) => Barred(p, t)')
    PROVE  Held'
<1>1. FiresOnce'
  BY DEF Held, FiresOnce
<1>2. ASSUME NEW p \in loaded', NEW t \in Ids, stage'[p] = "ready", fired'[p][t] # 0
      PROVE  Barred(p, t)'
  <2>1. p \in loaded /\ p \in Procs /\ fired'[p][t] = fired[p][t]
    BY <1>2 DEF CTTypeOK
  <2>2. stage[p] = "ready" /\ (Barred(p, t) => Barred(p, t)')
    BY <1>2, <2>1
  <2> QED BY <1>2, <2>1, <2>2, SpentIs DEF Held
<1> QED BY <1>1, <1>2 DEF Held, Spent, Barred

\* What is due has not been fired.
LEMMA DueUnfired ==
    ASSUME CTTypeOK, "events" \in Timely, Held, NEW p \in Procs, Check(p),
           NEW t \in Due(p)
    PROVE  fired[p][t] = 0
<1> SUFFICES ASSUME fired[p][t] # 0 PROVE FALSE
  OBVIOUS
<1>1. /\ t \in Ids /\ t \in Listed(known[p]) /\ t \notin InFlight(p)
      /\ now >= FireAt(p, t)
  BY DueIs DEF Due, Free
<1>2. known[p][t] # None
  BY <1>1 DEF Listed
<1>3. changed[p] # 2 /\ p \in loaded /\ stage[p] = "ready"
  BY CheckDoes DEF InTime
<1>4. Barred(p, t)
  BY <1>1, <1>3, SpentIs DEF Held
<1>5. ~Removed(p, t)
  BY <1>2, <1>3 DEF Removed
<1>6. ~Removing(p, t)
  BY <1>1 DEF Removing, InFlight
<1>7. nextFireAt[p][t] > now => nextFireAt[p][t] # Unset
  BY DEF CTTypeOK, Unset
<1>8. ~Later(p, t)
  BY <1>1, <1>7 DEF Later, FireAt, CTTypeOK
<1>9. Never > now
  BY TimeAssumption DEF Never, CTTypeOK
<1>10. ~Surfaced(p, t)
  BY <1>1, <1>7, <1>9 DEF Surfaced, FireAt, CTTypeOK
<1> QED BY <1>4, <1>5, <1>6, <1>8, <1>10 DEF Barred

LEMMA OwnerMovesHolds ==
    ASSUME CTTypeOK, Begins, ~disturbed, Held, OwnerMoves
    PROVE  Held'
<1>1. \A p \in Procs, t \in Ids : fired'[p][t] = fired[p][t]
  BY OwnerMovesDoes
<1>2. ASSUME NEW p \in loaded', NEW t \in Ids, stage'[p] = "ready"
      PROVE  stage[p] = "ready" /\ (Barred(p, t) => Barred(p, t)')
  <2>1. p \in loaded /\ p \in Procs
    BY <1>2, OwnerMovesDoes DEF CTTypeOK
  <2>2. stage[p] = "ready"
    BY <1>2, <2>1, OwnerMovesDoes DEF Begins
  <2>3. /\ p \in isOwner => p \in isOwner'
        /\ known'[p] = known[p] /\ nextFireAt'[p] = nextFireAt[p] /\ changed'[p] = changed[p]
        /\ \A e \in edits : e.by = p => e \in edits'
        /\ now' = now /\ disk' = disk
    BY <1>2, <2>1, <2>2, OwnerMovesDoes
  <2>4. \A e \in edits : e.by = p => \E d \in edits' : SameJob(d, e)
    BY <2>3 DEF SameJob
  <2> QED BY <2>2, <2>3, <2>4, StaysBarred
<1>3. loaded' \subseteq loaded
  BY OwnerMovesDoes
<1> QED BY <1>1, <1>2, <1>3, StaysHeld

LEMMA ClockHolds ==
    ASSUME CTTypeOK, ~disturbed, Held, Clock
    PROVE  Held'
<1>1. \A p \in Procs, t \in Ids : fired'[p][t] = IF t \in Recurring THEN 0 ELSE fired[p][t]
  BY DEF Clock
<1>2. UNCHANGED <<owner, taskFile, edits, scheduler>>
  BY DEF Clock
<1>3. ASSUME NEW p \in loaded', NEW t \in Ids, stage'[p] = "ready", fired'[p][t] # 0
      PROVE  stage[p] = "ready" /\ (Barred(p, t) => Barred(p, t)')
  <2>1. p \in Procs /\ t \notin Recurring /\ stage[p] = "ready"
    BY <1>1, <1>2, <1>3 DEF CTTypeOK, owner, scheduler
  <2>2. \A e \in edits : e.by = p => \E d \in edits' : SameJob(d, e)
    BY <1>2, SameEdits
  <2>3. UNCHANGED <<isOwner, nextFireAt, disk, known, changed>>
    BY <1>2 DEF owner, taskFile, scheduler
  <2> QED BY <2>1, <2>2, <2>3, StaysBarred
<1>4. loaded' \subseteq loaded
  BY <1>2 DEF scheduler
<1> QED BY <1>1, <1>3, <1>4, StaysHeld

\* A step that begins edits, or none, and does nothing else to a scheduler.
LEMMA BeginsHolds ==
    ASSUME CTTypeOK, ~disturbed, Held, edits \subseteq edits',
           UNCHANGED <<owner, taskFile, scheduler, now, fired>>
    PROVE  Held'
<1>1. ASSUME NEW p \in loaded', NEW t \in Ids, stage'[p] = "ready"
      PROVE  stage[p] = "ready" /\ (Barred(p, t) => Barred(p, t)')
  <2>1. stage[p] = "ready" /\ UNCHANGED <<isOwner, nextFireAt, disk, known, changed, now>>
    BY <1>1 DEF owner, taskFile, scheduler
  <2>2. \A e \in edits : e.by = p => \E d \in edits' : SameJob(d, e)
    BY SameEdits
  <2> QED BY <2>1, <2>2, StaysBarred
<1>2. loaded' \subseteq loaded
  BY DEF scheduler
<1> QED BY <1>1, <1>2, StaysHeld

LEMMA EditingHolds ==
    ASSUME CTTypeOK, ~disturbed, ~disturbed', Fresh, Held, NEW e \in edits, Editing(e)
    PROVE  Held'
<1>1. UNCHANGED <<owner, loaded, known, nextFireAt, now, born, fired, handed, deleted>>
  BY EditingKeeps
<1>2. ASSUME NEW p \in loaded', NEW t \in Ids, stage'[p] = "ready", fired'[p][t] # 0
      PROVE  stage[p] = "ready" /\ (Barred(p, t) => Barred(p, t)')
  <2>1. /\ p \in Procs /\ p \in loaded /\ stage[p] = "ready" /\ fired[p][t] # 0
        /\ UNCHANGED <<isOwner, nextFireAt, known, now>>
    BY <1>1, <1>2 DEF CTTypeOK, owner
  <2>2. CASE ReadFile(e) \/ OpenFile(e)
    <3>1. \A x \in edits : \E d \in edits' : SameJob(d, x)
      <4>1. Moved(edits)
        BY <2>2, ReadMoves, OpenMoves DEF ReadFile
      <4> QED BY <4>1, MovedIs
    <3>2. UNCHANGED <<disk, changed>>
      BY <2>2 DEF ReadFile, OpenFile, taskFile, scheduler
    <3> QED BY <2>1, <3>1, <3>2, StaysBarred
  <2>3. CASE Fill(e)
    <3>1. /\ changed' = Announced(e) /\ ~Adds(e, t)
          /\ disk'[t] # None => disk[t] # None \/ Adds(e, t)
          /\ t \in e.ids /\ e.op \in {"fire", "missed"} => disk'[t] = None
      BY <2>1, <2>3, FillIs DEF Fresh
    <3>2. /\ changed[p] = 2 => changed'[p] = 2
          /\ e.by = p /\ e.op \in {"fire", "missed"} => changed'[p] = 2
      BY <2>1, <3>1 DEF Announced
    <3>3. CASE e.by = p /\ e.op \in {"fire", "missed"} /\ t \in e.ids
      BY <2>1, <3>1, <3>2, <3>3 DEF Barred, Removed
    <3>4. CASE ~(e.by = p /\ e.op \in {"fire", "missed"} /\ t \in e.ids)
      <4> SUFFICES ASSUME Barred(p, t) PROVE Barred(p, t)'
        BY <2>1
      <4>1. \A x \in edits : x # e => \E d \in edits' : SameJob(d, x)
        BY <2>3, FillMoves, MovedIs
      <4>2. Removing(p, t) => Removing(p, t)'
        BY <3>4, <4>1 DEF Removing, SameJob
      <4>3. Surfaced(p, t) => Surfaced(p, t)'
        BY <2>1, <3>4, <4>1 DEF Surfaced, SameJob, Never
      <4>4. Later(p, t) => Later(p, t)'
        BY <2>1 DEF Later
      <4>5. Removed(p, t) => Removed(p, t)'
        BY <2>1, <3>1, <3>2 DEF Removed
      <4> QED BY <2>1, <3>1, <4>2, <4>3, <4>4, <4>5 DEF Barred
    <3> QED BY <3>3, <3>4
  <2> QED BY <2>2, <2>3 DEF Editing
<1> QED BY <1>1, <1>2, StaysHeld

\* One process hands over tasks that it had not, and bars them.
LEMMA HandsOverHolds ==
    ASSUME CTTypeOK, ~disturbed, Held, NEW p \in Procs, NEW ids \in SUBSET Ids,
           HandsOver(p, ids), loaded' \subseteq loaded \cup {p}, stage' = stage,
           \A t \in ids : fired[p][t] = 0,
           \A q \in loaded, t \in Ids : q # p => (Barred(q, t) => Barred(q, t)'),
           \A t \in ids : Barred(p, t)',
           \A t \in Ids \ ids : fired[p][t] # 0 => Barred(p, t)'
    PROVE  Held'
<1>1. /\ \A q \in Procs : q # p => fired'[q] = fired[q]
      /\ \A t \in Ids : fired'[p][t] = IF t \in ids THEN Counted(fired[p][t])
                                       ELSE fired[p][t]
  BY HandsOverIs
<1>2. Counted(0) = 1
  BY DEF Counted
<1>3. \A q \in Procs, t \in Ids : fired'[q][t] <= 1
  BY <1>1, <1>2 DEF Held, FiresOnce
<1>4. ASSUME NEW q \in loaded', NEW t \in Ids, stage'[q] = "ready", fired'[q][t] # 0
      PROVE  Barred(q, t)'
  <2>1. CASE q = p
    BY <1>1, <1>4, <2>1
  <2>2. CASE q # p
    <3>1. q \in loaded /\ q \in Procs /\ stage[q] = "ready" /\ fired[q][t] # 0
      BY <1>1, <1>4, <2>2 DEF CTTypeOK
    <3> QED BY <2>2, <3>1, SpentIs DEF Held
  <2> QED BY <2>1, <2>2
<1> QED BY <1>3, <1>4 DEF Held, FiresOnce, Spent, Barred

LEMMA InitialLoadHolds ==
    ASSUME CTTypeOK, Begins, ~disturbed, ~disturbed', Held, NEW p \in Procs, InitialLoad(p)
    PROVE  Held'
<1>1. /\ Missed \in SUBSET Ids /\ HandsOver(p, Missed) /\ loaded' = loaded \cup {p}
      /\ stage[p] = "ready" /\ p \notin loaded /\ TasksRead = disk
      /\ UNCHANGED <<stage, isOwner, disk, changed, now>>
  BY InitialLoadDoes, ReadIs DEF owner, taskFile
<1>2. \A t \in Ids : fired[p][t] = 0
  BY <1>1 DEF Begins
<1>3. ASSUME NEW q \in loaded, NEW t \in Ids, q # p, Barred(q, t) PROVE Barred(q, t)'
  <2>1. q \in Procs /\ nextFireAt'[q] = nextFireAt[q] /\ known'[q] = known[q]
    BY <1>3, InitialLoadDoes DEF CTTypeOK
  <2>2. edits \subseteq edits'
    BY InitialLoadDoes
  <2>3. \A e \in edits : e.by = q => \E d \in edits' : SameJob(d, e)
    BY <2>2, SameEdits
  <2> QED BY <1>1, <1>3, <2>1, <2>3, StaysBarred
<1>4. ASSUME NEW t \in Missed PROVE Barred(p, t)'
  <2>1. t \in Ids /\ disk[t] # None /\ nextFireAt'[p][t] = Never /\ known'[p][t] # None
    BY <1>1, InitialLoadDoes DEF Missed, Listed
  <2>2. PICK d : d = Begun(p, "missed", Missed) /\ d.by = p /\ d.op = "missed" /\ d.ids = Missed
    BY <1>1, BegunIs DEF Ops
  <2>3. d \in edits'
    BY <2>2, InitialLoadDoes
  <2>4. \E e \in edits' : e.by = p /\ e.op = "missed" /\ t \in e.ids
    BY <2>2, <2>3
  <2>5. Surfaced(p, t)'
    BY <2>1, <2>4 DEF Surfaced, Never
  <2> QED BY <2>1, <2>5 DEF Barred
<1> QED BY <1>1, <1>2, <1>3, <1>4, HandsOverHolds

LEMMA ReloadHolds ==
    ASSUME CTTypeOK, ~disturbed, ~disturbed', Held, NEW p \in Procs, Reload(p)
    PROVE  Held'
<1>1. /\ TasksRead = disk /\ known' = [known EXCEPT ![p] = TasksRead]
      /\ changed' = [changed EXCEPT ![p] = 0]
      /\ UNCHANGED <<stage, isOwner, disk, edits, loaded, nextFireAt, now, fired>>
  BY ReadIs DEF Reload, owner, taskFile
<1>2. /\ known'[p] = disk
      /\ \A q \in Procs : q # p => known'[q] = known[q] /\ changed'[q] = changed[q]
  BY <1>1 DEF CTTypeOK
<1>3. ASSUME NEW q \in loaded, NEW t \in Ids, Barred(q, t) PROVE Barred(q, t)'
  <2>1. \A e \in edits : e.by = q => \E d \in edits' : SameJob(d, e)
    BY <1>1, SameEdits
  <2>2. CASE q # p
    BY <1>1, <1>2, <1>3, <2>1, <2>2, StaysBarred DEF CTTypeOK
  <2>3. CASE q = p
    <3>1. Removed(p, t) => Removed(p, t)'
      BY <1>1, <1>2 DEF Removed
    <3>2. /\ Later(p, t) => Later(p, t)'
          /\ Removing(p, t) => Removing(p, t)'
          /\ Surfaced(p, t) => Surfaced(p, t)'
      BY <1>1 DEF Later, Removing, Surfaced, Never
    <3> QED BY <1>1, <1>2, <1>3, <2>3, <3>1, <3>2 DEF Barred
  <2> QED BY <2>2, <2>3
<1>4. loaded' \subseteq loaded /\ stage' = stage /\ fired' = fired
  BY <1>1
<1> QED BY <1>3, <1>4, StaysHeld

LEMMA CheckHolds ==
    ASSUME CTTypeOK, ~disturbed, "events" \in Timely, Held, NEW p \in Procs, Check(p)
    PROVE  Held'
<1>1. /\ Due(p) \in SUBSET Ids /\ HandsOver(p, Due(p)) /\ loaded' \subseteq loaded
      /\ p \in loaded /\ p \in isOwner /\ stage[p] = "ready"
      /\ edits' = edits \cup NewEdits(p) /\ (changed[p] = 2 => changed'[p] = 2)
      /\ UNCHANGED <<stage, isOwner, disk, known, now>>
  BY CheckDoes, DueIs DEF owner, taskFile
<1>2. \A t \in Due(p) : fired[p][t] = 0
  BY DueUnfired
<1>3. edits \subseteq edits'
  BY <1>1
<1>4. ASSUME NEW q \in loaded, NEW t \in Ids, q # p, Barred(q, t) PROVE Barred(q, t)'
  <2>1. q \in Procs /\ nextFireAt'[q] = nextFireAt[q] /\ changed'[q] = changed[q]
    BY <1>4, CheckDoes DEF CTTypeOK
  <2>2. \A e \in edits : e.by = q => \E d \in edits' : SameJob(d, e)
    BY <1>3, SameEdits
  <2> QED BY <1>1, <1>4, <2>1, <2>2, StaysBarred
<1>5. ASSUME NEW t \in Due(p) PROVE Barred(p, t)'
  <2>1. t \in Ids /\ known[p][t] # None
    BY DueIs DEF Listed
  <2>2. CASE t \in Again(p)
    <3>1. t \in Recurring /\ nextFireAt'[p][t] = now + 1
      BY <2>1, <2>2, CheckDoes, DueIs
    <3>2. Later(p, t)'
      BY <1>1, <3>1 DEF Later, CTTypeOK
    <3> QED BY <1>1, <2>1, <3>2 DEF Barred
  <2>3. CASE t \notin Again(p)
    <3>1. Removing(p, t)'
      BY <1>1, <2>3, NewEditsAre DEF Removing
    <3> QED BY <1>1, <2>1, <3>1 DEF Barred
  <2> QED BY <2>2, <2>3
<1>6. ASSUME NEW t \in Ids \ Due(p), fired[p][t] # 0 PROVE Barred(p, t)'
  <2>1. Barred(p, t)
    BY <1>1, <1>6, SpentIs DEF Held
  <2>2. CASE known[p][t] = None
    BY <1>1, <2>1, <2>2 DEF Barred, Removed
  <2>3. CASE known[p][t] # None
    <3>1. t \in Listed(known[p]) /\ t \notin Again(p)
      BY <1>6, <2>3, DueIs DEF Listed
    <3>2. nextFireAt'[p][t] = IF t \in Free(p) THEN FireAt(p, t) ELSE nextFireAt[p][t]
      BY <1>6, <3>1, CheckDoes
    <3>3. nextFireAt[p][t] # Unset => nextFireAt'[p][t] = nextFireAt[p][t]
      BY <3>2 DEF FireAt
    <3>4. Later(p, t) => Later(p, t)'
      BY <1>1, <3>3 DEF Later, Unset, CTTypeOK
    <3>5. Never # Unset
      BY TimeAssumption DEF Never, Unset
    <3>6. Surfaced(p, t) => Surfaced(p, t)'
      BY <1>3, <3>3, <3>5 DEF Surfaced, Never
    <3>7. Removing(p, t) => Removing(p, t)'
      BY <1>3 DEF Removing
    <3>8. Removed(p, t) => Removed(p, t)'
      BY <1>1 DEF Removed
    <3> QED BY <1>1, <2>1, <3>4, <3>6, <3>7, <3>8 DEF Barred
  <2> QED BY <2>2, <2>3
<1> QED BY <1>1, <1>2, <1>4, <1>5, <1>6, HandsOverHolds

LEMMA CheckIdleHolds ==
    ASSUME CTTypeOK, ~disturbed, "missed" \in Timely, Held, NEW p \in Procs, CheckIdle(p)
    PROVE  Held'
<1>1. /\ p \notin isOwner /\ ~Busy(p, {"missed"})
      /\ nextFireAt' = [nextFireAt EXCEPT ![p] = NoSchedule]
      /\ changed' = [changed EXCEPT ![p] = IF @ = 0 THEN 0 ELSE 2]
      /\ UNCHANGED <<stage, isOwner, disk, edits, loaded, known, now, fired>>
  BY DEF CheckIdle, owner, taskFile, history
<1>2. ASSUME NEW q \in loaded, NEW t \in Ids, Barred(q, t) PROVE Barred(q, t)'
  <2>1. q \in Procs /\ (changed[q] = 2 => changed'[q] = 2)
    BY <1>1 DEF CTTypeOK
  <2>2. CASE q # p
    <3>1. nextFireAt'[q] = nextFireAt[q]
      BY <1>1, <2>1, <2>2 DEF CTTypeOK
    <3>2. \A e \in edits : e.by = q => \E d \in edits' : SameJob(d, e)
      BY <1>1, SameEdits
    <3> QED BY <1>1, <1>2, <2>1, <3>1, <3>2, StaysBarred
  <2>3. CASE q = p
    <3>1. ~Later(p, t) /\ ~Surfaced(p, t)
      BY <1>1 DEF Later, Surfaced, Busy
    <3>2. /\ Removing(p, t) => Removing(p, t)'
          /\ Removed(p, t) => Removed(p, t)'
      BY <1>1, <2>1, <2>3 DEF Removing, Removed
    <3> QED BY <1>1, <1>2, <2>3, <3>1, <3>2 DEF Barred
  <2> QED BY <2>2, <2>3
<1>3. loaded' \subseteq loaded /\ stage' = stage /\ fired' = fired
  BY <1>1
<1> QED BY <1>2, <1>3, StaysHeld

LEMMA NextHeld ==
    ASSUME CTTypeOK, Begins, {"missed", "events"} \subseteq Timely,
           ~disturbed => Fresh /\ Held, [CTNext]_ctVars, ~disturbed'
    PROVE  Held'
<1>1. CASE OwnerMoves
  BY <1>1, OwnerMovesDoes, OwnerMovesHolds
<1>2. CASE Clock
  BY <1>2, ClockHolds DEF Clock
<1>3. ASSUME NEW p \in Procs, NEW t \in Ids, Create(p, t) \/ Delete(p, t) PROVE Held'
  BY <1>3, BeginsHolds DEF Create, Delete
<1>4. ASSUME NEW e \in edits, Editing(e) PROVE Held'
  BY <1>4, EditingKeeps, EditingHolds
<1>5. ASSUME NEW p \in Procs, InitialLoad(p) PROVE Held'
  BY <1>5, InitialLoadHolds DEF InitialLoad
<1>6. ASSUME NEW p \in Procs, Reload(p) PROVE Held'
  BY <1>6, ReloadHolds DEF Reload
<1>7. ASSUME NEW p \in Procs, Check(p) PROVE Held'
  BY <1>7, CheckHolds DEF Check
<1>8. ASSUME NEW p \in Procs, CheckIdle(p) PROVE Held'
  BY <1>8, CheckIdleHolds DEF CheckIdle, history
<1>9. CASE UNCHANGED ctVars
  BY <1>9, BeginsHolds DEF ctVars, history
<1> QED BY <1>1, <1>2, <1>3, <1>4, <1>5, <1>6, <1>7, <1>8, <1>9 DEF CTNext

-----------------------------------------------------------------------------
LEMMA CTInitInv == CTInit => CTInv
<1> SUFFICES ASSUME CTInit PROVE CTInv
  OBVIOUS
<1>1. FiresOnce /\ Spent
  BY DEF CTInit, FiresOnce, Spent
<1> QED BY <1>1, CTInitTyped, InitBegins, InitFresh DEF CTInv

LEMMA CTInductive == CTInv /\ [CTNext]_ctVars => CTInv'
<1> SUFFICES ASSUME CTInv, [CTNext]_ctVars PROVE CTInv'
  OBVIOUS
<1>1. CTTypeOK' /\ Begins' /\ Caused'
  BY CTNextTyped, NextBegins, NextCaused DEF CTInv
<1>2. ~disturbed' => Fresh' /\ NothingIsDropped'
  BY <1>1, NextFresh, NextDropsNothing DEF CTInv
<1>3. ASSUME {"missed", "events"} \subseteq Timely, ~disturbed' PROVE FiresOnce' /\ Spent'
  BY <1>3, NextHeld DEF CTInv, Held
<1> QED BY <1>1, <1>2, <1>3 DEF CTInv

LEMMA CTInvHolds == CTSpec => []CTInv
BY CTInitInv, CTInductive, PTL DEF CTSpec

\* The tasks of a project, for any number of sessions, of tasks and of users
\* that create and delete them: no edit of the file loses a task that was not
\* handed over or deleted, until an edit meets another one or a program ends.
\* Nothing is assumed of the timing, and there may be several owners.
THEOREM TasksAreKept == CTSpec => []NothingIsDropped
<1>1. CTInv => NothingIsDropped
  BY DEF CTInv, NothingIsDropped
<1> QED BY <1>1, CTInvHolds, PTL

\* The types of CronTasks, and that an edit belongs to a program that runs,
\* whatever the edits do to each other.
THEOREM CronTypes == CTSpec => []CTTypeOK
<1>1. CTInv => CTTypeOK
  BY DEF CTInv
<1> QED BY <1>1, CTInvHolds, PTL

\* No session fires a one-shot twice, or a recurring task twice in a period,
\* until an edit meets another one: the inFlight set and the schedule bridge
\* the time until the file says so.  What the second between two ticks is
\* enough for is a hypothesis: the watcher's event, and the removal of what
\* was missed.
THEOREM TasksFireOnce ==
    ASSUME {"missed", "events"} \subseteq Timely
    PROVE  CTSpec => []FiringInv
<1>1. CTInv => FiringInv
  BY DEF CTInv, FiringInv, FiresOnce
<1> QED BY <1>1, CTInvHolds, PTL
=============================================================================
