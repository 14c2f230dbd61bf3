------------------------------ MODULE Mailbox ------------------------------
(***************************************************************************)
(* The inbox of one agent of a team: a JSON file that any program appends  *)
(* to and the agent reads and marks.                                       *)
(*                                                                         *)
(*   utils/teammateMailbox.ts       write, read, mark                      *)
(*   hooks/useInboxPoller.ts        reads for a REPL session     (poller)  *)
(*   cli/print.ts                   reads for a headless lead    (print)   *)
(*   utils/swarm/inProcessRunner.ts reads for a teammate that              *)
(*                                  runs in the lead's program   (runner)  *)
(*                                                                         *)
(* A call of writeToMailbox is named by its message; the calls that mark   *)
(* are the Markers.  An action is one file-system call and the code up to  *)
(* the next.  writeFile empties the file and fills it later; readMailbox   *)
(* takes no lock, and reads an empty file as no messages.                  *)
(***************************************************************************)
EXTENDS Naturals, Sequences, FiniteSets

CONSTANTS Msgs, Class,   \* the messages; shutdown, lead or peer
          Markers,       \* bound: mark calls in flight
          Nobody,
          MaxCrashes     \* bound: programs of senders that die

ASSUME NobodyAssumption == Nobody \notin Msgs \cup Markers
ASSUME DisjointAssumption == Msgs \cap Markers = {}
ASSUME ClassAssumption == Class \in [Msgs -> {"shutdown", "lead", "peer"}]
ASSUME MaxCrashesAssumption == MaxCrashes \in Nat

VARIABLES
    kind,       \* which of the readers the agent has
    inbox,      \* the last complete contents of the file
    torn,       \* the file is emptied and not filled yet
    lock,       \* the call that holds the lock, or Nobody
    call,       \* per message and marker: the call in progress
    reader,     \* the reader: pc, what it read, which message it picked
    queued,     \* AppState.inbox: messages for when the session is idle
    delivered,  \* history: 0, 1, or 2 for more often
    failed,     \* some call has run out of lock retries
    crashes     \* (bounded by MaxCrashes)

file == <<inbox, torn, lock>>
vars == <<kind, file, call, reader, queued, delivered, failed, crashes>>

Readers == {"poller", "print", "runner"}
Calls == Msgs \cup Markers
Entries == [msg : Msgs, read : BOOLEAN]
Pcs == {"new", "lock", "read", "open", "write", "done", "dead"}

\* index is 0 for a marker that marks every message.
NoCall == [pc |-> "new", copy |-> <<>>, index |-> 0]
NoReader == [pc |-> "idle", seen |-> <<>>, pick |-> 0]

Init == /\ kind \in Readers
        /\ inbox = <<>> /\ torn = FALSE /\ lock = Nobody
        /\ call = [c \in Calls |-> NoCall]
        /\ reader = NoReader /\ queued = {}
        /\ delivered = [m \in Msgs |-> 0]
        /\ failed = FALSE /\ crashes = 0

At(c, pc) == call[c].pc = pc
Goes(c, pc) == call' = [call EXCEPT ![c].pc = pc]
\* A marker can be used again.
Over(c) == call' = [call EXCEPT ![c] = IF c \in Markers THEN NoCall
                                       ELSE [NoCall EXCEPT !.pc = "done"]]

Contents == IF torn THEN <<>> ELSE inbox
Unread(s) == {i \in DOMAIN s : ~s[i].read}
MsgsOf(s, is) == {s[i].msg : i \in is}
Least(is) == CHOOSE i \in is : \A j \in is : i <= j

-----------------------------------------------------------------------------
(* The calls that change the file.                                         *)

Send(m) == /\ At(m, "new") /\ Goes(m, "lock")
           /\ UNCHANGED <<kind, file, reader, queued, delivered, failed, crashes>>

\* Mutant: the lock keeps nobody out.
LockShared(c) ==
    /\ At(c, "lock") /\ lock' = c /\ Goes(c, "read")
    /\ UNCHANGED <<kind, inbox, torn, reader, queued, delivered, failed, crashes>>

Lock(c) ==
    /\ At(c, "lock") /\ lock = Nobody
    /\ lock' = c /\ Goes(c, "read")
    /\ UNCHANGED <<kind, inbox, torn, reader, queued, delivered, failed, crashes>>

\* The retries run out: the error is logged, and the call returns as if it
\* had done its work.
LockFails(c) ==
    /\ At(c, "lock") /\ lock # Nobody
    /\ failed' = TRUE /\ Over(c)
    /\ UNCHANGED <<kind, file, reader, queued, delivered, crashes>>

\* A marker has nothing to do: the index is out of bounds or marked, or
\* there are no messages.
Idle(c) == /\ c \in Markers
           /\ LET i == call[c].index IN
                IF i = 0 THEN Contents = <<>> ELSE i \notin Unread(Contents)

Read(c) ==
    /\ At(c, "read")
    /\ IF Idle(c) THEN lock' = Nobody /\ Over(c)
       ELSE /\ UNCHANGED lock
            /\ call' = [call EXCEPT ![c].pc = "open", ![c].copy = Contents]
    /\ UNCHANGED <<kind, inbox, torn, reader, queued, delivered, failed, crashes>>

Open(c) ==
    /\ At(c, "open")
    /\ torn' = TRUE /\ Goes(c, "write")
    /\ UNCHANGED <<kind, inbox, lock, reader, queued, delivered, failed, crashes>>

\* Mutant: the mark goes to the message after the one that was read.
ChangedOffByOne(c) ==
    LET s == call[c].copy  k == call[c].index IN
    IF c \in Msgs THEN Append(s, [msg |-> c, read |-> FALSE])
    ELSE [i \in DOMAIN s |-> [s[i] EXCEPT !.read = @ \/ k = 0 \/ i = k + 1]]

Changed(c) ==
    LET s == call[c].copy  k == call[c].index IN
    IF c \in Msgs THEN Append(s, [msg |-> c, read |-> FALSE])
    ELSE [i \in DOMAIN s |-> [s[i] EXCEPT !.read = @ \/ k \in {0, i}]]

Write(c) ==
    /\ At(c, "write")
    /\ inbox' = Changed(c) /\ torn' = FALSE /\ lock' = Nobody
    /\ Over(c)
    /\ UNCHANGED <<kind, reader, queued, delivered, failed, crashes>>

\* A sender's program dies in the middle of its call.
Crash(m) ==
    /\ call[m].pc \in {"lock", "read", "open", "write"} /\ crashes < MaxCrashes
    /\ crashes' = crashes + 1 /\ Goes(m, "dead")
    /\ UNCHANGED <<kind, file, reader, queued, delivered, failed>>

\* Its lock becomes stale after ten seconds: long after the calls that
\* waited for it have run out of retries, and after a reader has gone on.
Expire(m) ==
    /\ At(m, "dead") /\ lock = m
    /\ reader.pc # "read" /\ \A c \in Calls : ~At(c, "lock")
    /\ lock' = Nobody
    /\ UNCHANGED <<kind, inbox, torn, call, reader, queued, delivered, failed, crashes>>

-----------------------------------------------------------------------------
(* The readers.                                                            *)

More(n) == IF n = 0 THEN 1 ELSE 2
Delivered(ms) ==
    delivered' = [m \in Msgs |-> IF m \in ms THEN More(delivered[m])
                                 ELSE delivered[m]]

Marks(k, index) == /\ At(k, "new")
                   /\ call' = [call EXCEPT ![k].pc = "lock", ![k].index = index]

\* The file is read; what is unread in it is in the reader's hands.
Poll ==
    /\ reader.pc = "idle" /\ Unread(Contents) # {}
    /\ reader' = [NoReader EXCEPT !.pc = "read", !.seen = Contents]
    /\ UNCHANGED <<kind, file, call, queued, delivered, failed, crashes>>

InHand == MsgsOf(reader.seen, Unread(reader.seen))

\* useInboxPoller: the messages become a turn, or are queued in AppState;
\* then markMessagesAsRead runs, and nobody waits for it.
Handle(k) ==
    /\ kind = "poller" /\ reader.pc = "read"
    /\ \/ Delivered(InHand) /\ UNCHANGED queued
       \/ queued' = queued \cup InHand /\ UNCHANGED delivered
    /\ Marks(k, 0) /\ reader' = NoReader
    /\ UNCHANGED <<kind, file, failed, crashes>>

\* The session has become idle.
DeliverQueued ==
    /\ kind = "poller" /\ queued # {}
    /\ Delivered(queued) /\ queued' = {}
    /\ UNCHANGED <<kind, file, call, reader, failed, crashes>>

\* waitForNextPromptOrShutdown: a shutdown request first, then the lead's
\* first message, then anybody's.
Pick ==
    LET of(class) == {i \in Unread(reader.seen) :
                         Class[reader.seen[i].msg] = class}
    IN  Least(IF of("shutdown") # {} THEN of("shutdown")
              ELSE IF of("lead") # {} THEN of("lead")
              ELSE Unread(reader.seen))

\* print and the runner mark first, and wait for it.
MarkFirst(k) ==
    /\ kind # "poller" /\ reader.pc = "read"
    /\ LET i == IF kind = "runner" THEN Pick ELSE 0 IN
         /\ Marks(k, i)
         /\ reader' = [reader EXCEPT !.pc = "mark", !.pick = i]
    /\ UNCHANGED <<kind, file, queued, delivered, failed, crashes>>

Marked ==
    /\ reader.pc = "mark" /\ \A k \in Markers : At(k, "new")
    /\ Delivered(IF reader.pick = 0 THEN InHand
                 ELSE {reader.seen[reader.pick].msg})
    /\ reader' = NoReader
    /\ UNCHANGED <<kind, file, call, queued, failed, crashes>>

Step(c) == Lock(c) \/ LockFails(c) \/ Read(c) \/ Open(c) \/ Write(c)

Handling == \E k \in Markers : Handle(k) \/ MarkFirst(k)

Next == \/ \E m \in Msgs : Send(m) \/ Crash(m) \/ Expire(m)
        \/ \E c \in Calls : Step(c)
        \/ Poll \/ DeliverQueued \/ Marked \/ Handling

Spec == Init /\ [][Next]_vars

\* Calls of the file system return, timers fire, locks become stale.
FairSpec == /\ Spec
            /\ \A c \in Calls : WF_vars(Step(c))
            /\ \A m \in Msgs : WF_vars(Expire(m))
            /\ WF_vars(Poll) /\ WF_vars(Handling) /\ WF_vars(Marked)

-----------------------------------------------------------------------------
(* Properties.                                                             *)

\* Every variable stays in its set; the lock's holder is in its critical
\* section or dead in it.
TypeOK ==
    /\ kind \in Readers /\ torn \in BOOLEAN /\ failed \in BOOLEAN
    /\ inbox \in Seq(Entries)
    /\ call \in [Calls -> [pc : Pcs, copy : Seq(Entries), index : Nat]]
    /\ reader \in [pc : {"idle", "read", "mark"}, seen : Seq(Entries), pick : Nat]
    /\ queued \subseteq Msgs /\ delivered \in [Msgs -> 0..2]
    /\ crashes \in 0..MaxCrashes
    /\ lock # Nobody => call[lock].pc \in {"read", "open", "write", "dead"}

\* The file only grows, and no message becomes unread again, unless a
\* sender died while it was writing: no call writes back what another has
\* changed since it was read (the lock of teammateMailbox.ts, and the read
\* under it at 171, 225 and 300).
InboxOnlyGrows ==
    [][crashes = 0 =>
         /\ Len(inbox) <= Len(inbox')
         /\ \A i \in DOMAIN inbox :
              /\ inbox'[i].msg = inbox[i].msg
              /\ inbox[i].read => inbox'[i].read]_inbox

InHands(m) == delivered[m] > 0 \/ m \in queued \/ (reader.pc # "idle" /\ m \in InHand)

MarkedAreInHands ==
    \A i \in DOMAIN inbox : inbox[i].read => InHands(inbox[i].msg)

\* A message of a teammate in the lead's program is marked only if the
\* teammate has it: the index it read still is the message's when the lock
\* is taken, also after a sender has died (inProcessRunner.ts 832).
RunnerLosesNothing == kind = "runner" => MarkedAreInHands

\* Readers that mark before they deliver (print.ts 2487) get a message twice
\* only when the lock could not be had.
DeliveredOnce ==
    kind # "poller" /\ ~failed => \A m \in Msgs : delivered[m] <= 1

\* Nothing is lost and nothing comes twice.
DeliveryInv == TypeOK /\ RunnerLosesNothing /\ DeliveredOnce

\* Whatever a teammate is sent it gets, shutdown requests and messages of
\* the lead that overtake it notwithstanding.
EveryMessageArrives ==
    \A m \in Msgs :
        (kind = "runner" /\ m \in MsgsOf(inbox, DOMAIN inbox))
            ~> (delivered[m] > 0 \/ crashes > 0)

\* useInboxPoller.ts:860: "Mark messages as read only after they have been
\* successfully delivered or reliably queued in AppState."
PollerLosesNothing == kind = "poller" => MarkedAreInHands
=============================================================================
