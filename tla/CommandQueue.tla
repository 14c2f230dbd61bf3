---------------------------- MODULE CommandQueue ----------------------------
(***************************************************************************)
(* utils/messageQueueManager.ts and utils/queueProcessor.ts: the unified   *)
(* command queue.  The array is a set of entries that carry the position   *)
(* at which they were pushed; entries are compared by identity in the code *)
(* (remove() uses includes), which the position gives.                     *)
(*                                                                         *)
(* A command is abstracted to what the code looks at: its mode, its        *)
(* priority, whether its text starts with a slash, whether it is addressed *)
(* to the main thread (agentId undefined) and whether it is meta (isMeta). *)
(***************************************************************************)
EXTENDS Naturals, FiniteSets

CONSTANTS Cmds,   \* the commands that may be submitted
          Attr    \* what the code reads of each of them

Modes == {"prompt", "bash", "task-notification"}
Prios == {"now", "next", "later"}

\* Who hands the command over: the user, a background task, the mailbox or
\* task-list pollers, the plan-mode exit, or a slash command's nextInput.
Sources == {"user", "notify", "incoming", "initial", "chain"}

ASSUME AttrAssumption ==
    Attr \in [Cmds -> [mode : Modes, prio : Prios, slash : BOOLEAN,
                       main : BOOLEAN, meta : BOOLEAN, src : Sources]]

\* "again" marks an entry that onQuery pushed back as a plain prompt.
Entries == [cmd : Cmds, at : Nat, again : BOOLEAN]

Mode(e)  == IF e.again THEN "prompt" ELSE Attr[e.cmd].mode
Prio(e)  == IF e.again THEN "next"   ELSE Attr[e.cmd].prio
Slash(e) == ~e.again /\ Attr[e.cmd].slash
Main(e)  == e.again \/ Attr[e.cmd].main
Meta(e)  == ~e.again /\ Attr[e.cmd].meta

PRIORITY_ORDER == [now |-> 0, next |-> 1, later |-> 2]
Rank(e) == PRIORITY_ORDER[Prio(e)]

\* The scan of peek and dequeue: the first entry of the smallest rank.
Precedes(e, f) == Rank(e) < Rank(f) \/ (Rank(e) = Rank(f) /\ e.at < f.at)
MostUrgent(e, q) == \A f \in q \ {e} : Precedes(e, f)

MainThread(q) == {e \in q : Main(e)}
Editable(q)   == {e \in q : Mode(e) # "task-notification" /\ ~Meta(e)}
Notifications(q) == {e \in q : Mode(e) = "task-notification"}

\* getCommandsByMaxPriority
UpTo(q, prio) == {e \in q : Rank(e) <= PRIORITY_ORDER[prio]}

\* What processQueueIfReady takes when e is the most urgent entry: e alone
\* if it is a slash or bash command, or else every plain command of its mode.
Batch(e, q) ==
    IF Slash(e) \/ Mode(e) = "bash"
    THEN {e}
    ELSE {f \in q : ~Slash(f) /\ Mode(f) = Mode(e)}

\* What the main thread's query loop takes between two model calls: plain
\* prompts and notifications (bash commands are not turned into
\* attachments), the "later" ones only after the Sleep tool ran.
Drainable(q, sleepRan) ==
    {e \in UpTo(MainThread(q), IF sleepRan THEN "later" ELSE "next") :
        ~Slash(e) /\ Mode(e) # "bash"}
=============================================================================
