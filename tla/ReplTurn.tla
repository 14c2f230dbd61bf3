------------------------------ MODULE ReplTurn ------------------------------
(***************************************************************************)
(* The turns of the REPL: who may start a query, what happens to the       *)
(* commands that arrive meanwhile, and what Escape does.                   *)
(*                                                                         *)
(*   utils/handlePromptSubmit.ts   submit, executeUserInput                *)
(*   hooks/useQueueProcessor.ts    the effect that empties the queue       *)
(*   screens/REPL.tsx              onQuery, onCancel, incoming prompts     *)
(*   hooks/useCancelRequest.ts     Escape, kill-agents                     *)
(*   query.ts                      the drain between two model calls       *)
(*                                                                         *)
(* The program is one JavaScript thread: an action is what runs between    *)
(* two awaits that really wait.  A turn is a call of executeUserInput or   *)
(* of onQuery; its pc says which await it is in:                           *)
(*   free     no call uses the slot                                        *)
(*   initial  processInitialMessage awaits the session-start hooks         *)
(*   input    executeUserInput awaits processUserInput                     *)
(*   query    onQuery awaits the query, generation gen                     *)
(***************************************************************************)
EXTENDS QueryGuard, CommandQueue

CONSTANTS Turns,       \* slots for calls in flight at the same time
          None,        \* no turn, no command
          MaxCancels   \* bound: how often the user cancels with Escape

ASSUME NoneAssumption == None \notin Turns /\ None \notin Cmds
ASSUME MaxCancelsAssumption == MaxCancels \in Nat

VARIABLES
    guard,       \* the QueryGuard of the session
    turn,        \* per slot: the call in flight
    controller,  \* the turn whose AbortController is in React state, or None
    queue,       \* the entries of commandQueue
    tick,        \* the position of the next push
    dialog,      \* an immediate local-JSX command shows its UI
    last,        \* the last user message, if only synthetic ones follow it
    fresh,       \* commands not handed over yet
    fate,        \* per command: what became of it
    cancels      \* Escapes so far (bounded by MaxCancels)

flow == <<guard, turn, controller>>
vars == <<guard, turn, controller, queue, tick, dialog, last, fresh, fate,
          cancels>>

Fates == {"appended",   \* became a user message of a turn
          "attached",   \* became an attachment of a running turn
          "returned",   \* went back to the input box
          "handled",    \* a local command that leaves no message
          "failed",     \* processUserInput threw
          "dropped",    \* meta message of a turn that could not start
          "cleared",    \* kill-agents emptied the queue
          "moved"}      \* went with the turn to a background session

\* The call's AbortSignal: live, or the reason of its first abort().
Signals == {"live", "user-cancel", "interrupt", "background"}

Calls == [pc : {"free", "initial", "input", "query"},
          batch : SUBSET Entries, gen : Nat, signal : Signals,
          ask : BOOLEAN, snap : SUBSET Entries]

Call(pc, es, gen, ask) ==
    [pc |-> pc, batch |-> es, gen |-> gen, signal |-> "live", ask |-> ask,
     snap |-> {}]

NoCall == Call("free", {}, 0, FALSE)

CmdsOf(es) == {e.cmd : e \in es}

\* abortController?.abort(reason) on the controller in React state.
Abort(reason) ==
    IF controller # None /\ turn[controller].signal = "live"
    THEN [turn EXCEPT ![controller].signal = reason]
    ELSE turn

\* The slot is reused only when React state no longer points at its call.
Free(t) == turn[t].pc = "free" /\ controller # t

Settle(cs, f) == [c \in Cmds |-> IF c \in cs THEN fate[c] \cup {f} ELSE fate[c]]

Init ==
    /\ guard = NewGuard
    /\ turn = [t \in Turns |-> NoCall]
    /\ controller = None
    /\ queue = {}
    /\ tick = 0
    /\ dialog = FALSE
    /\ last = None
    /\ fresh = Cmds
    /\ fate = [c \in Cmds |-> {}]
    /\ cancels = 0

-----------------------------------------------------------------------------
(* Handing a command over. *)

Take(c, src) == c \in fresh /\ Attr[c].src = src /\ fresh' = fresh \ {c}

EntryOf(c) == [cmd |-> c, at |-> tick, again |-> FALSE]

Push(c) == queue' = queue \cup {EntryOf(c)} /\ tick' = tick + 1

\* A slash command may chain: its nextInput is pushed as a prompt.
Chain(slash) ==
    \/ UNCHANGED <<queue, tick, fresh>>
    \/ slash /\ \E c \in Cmds : Take(c, "chain") /\ Push(c)

\* handlePromptSubmit while a turn is active (or an external one loads): the
\* input is queued; a turn that only waits in an interruptible tool is told
\* to stop.
SubmitBusy(c) ==
    /\ Take(c, "user")
    /\ \E external, interruptible \in BOOLEAN :
        /\ IsActive(guard) \/ external
        /\ turn' = IF interruptible THEN Abort("interrupt") ELSE turn
    /\ Push(c)
    /\ UNCHANGED <<guard, controller, dialog, last, fate, cancels>>

\* A background task reports through enqueuePendingNotification.
Notify(c) ==
    /\ Take(c, "notify")
    /\ Push(c)
    /\ UNCHANGED <<flow, dialog, last, fate, cancels>>

-----------------------------------------------------------------------------
(* executeUserInput: a fresh controller, reserve() (its result is not       *)
(* looked at), then the await of processUserInput.                          *)

Execute(t, es) ==
    /\ Free(t)
    /\ controller' = t
    /\ guard' = Reserve(guard)
    /\ turn' = [turn EXCEPT ![t] = Call("input", es, 0, FALSE)]

\* handlePromptSubmit with nothing active.
SubmitNow(c, t) ==
    /\ ~IsActive(guard)
    /\ Take(c, "user")
    /\ Execute(t, {EntryOf(c)})
    /\ tick' = tick + 1
    /\ UNCHANGED <<queue, dialog, last, fate, cancels>>

\* Mutant: peek without the main-thread filter.
ProcessQueueUnfilteredPeek(t) ==
    /\ ~IsActive(guard)
    /\ ~dialog
    /\ \E e \in MainThread(queue) :
        /\ MostUrgent(e, queue)
        /\ Execute(t, Batch(e, MainThread(queue)))
        /\ queue' = queue \ Batch(e, MainThread(queue))
    /\ UNCHANGED <<tick, dialog, last, fresh, fate, cancels>>

\* The effect of useQueueProcessor.
ProcessQueue(t) ==
    /\ ~IsActive(guard)
    /\ ~dialog
    /\ \E e \in MainThread(queue) :
        /\ MostUrgent(e, MainThread(queue))
        /\ Execute(t, Batch(e, MainThread(queue)))
        /\ queue' = queue \ Batch(e, MainThread(queue))
    /\ UNCHANGED <<tick, dialog, last, fresh, fate, cancels>>

-----------------------------------------------------------------------------
(* onQuery: tryStart() decides.  A call that is refused pushes the text of  *)
(* its user messages back as prompts and forgets the meta ones.             *)

Said(es) == {e \in es : ~Meta(e)}

Starts(t, es, ask) ==
    /\ CanStart(guard)
    /\ guard' = Start(guard)
    /\ turn' = [turn EXCEPT ![t] =
                  [@ EXCEPT !.pc = "query", !.batch = es, !.ask = ask,
                            !.gen = guard.generation + 1]]
    /\ \/ Said(es) = {} /\ last' = last
       \/ \E e \in Said(es) : /\ \A f \in Said(es) : f.at <= e.at
                             /\ last' = e.cmd
    /\ fate' = Settle(CmdsOf(es), "appended")
    /\ UNCHANGED <<queue, tick, fresh>>

\* The entry that replaces e of the batch es: at the end of the queue, in the
\* order of the batch.
Again(e, es) ==
    [cmd |-> e.cmd, again |-> TRUE,
     at |-> tick + Cardinality({f \in Said(es) : f.at < e.at})]

\* Mutant: a refused onQuery just returns.
PushBackNothing(es) == UNCHANGED <<queue, tick>> /\ fate' = fate

PushBack(es) ==
    /\ queue' = queue \cup {Again(e, es) : e \in Said(es)}
    /\ tick' = tick + Cardinality(Said(es))
    /\ fate' = Settle(CmdsOf(es \ Said(es)), "dropped")

Refused(t, es) ==
    /\ ~CanStart(guard)
    /\ guard' = guard
    /\ turn' = [turn EXCEPT ![t] = NoCall]
    /\ PushBack(es)
    /\ UNCHANGED <<last, fresh>>

OnQuery(t, es, ask) == Starts(t, es, ask) \/ Refused(t, es)

\* processUserInput returned messages for the batch.  Only the first
\* command decides whether the model is asked.  (After a refusal the
\* finally's cancelReservation() finds the guard running: no effect.)
InputDone(t) ==
    /\ turn[t].pc = "input"
    /\ \E ask \in BOOLEAN : OnQuery(t, turn[t].batch, ask)
    /\ dialog' = FALSE
    /\ UNCHANGED <<controller, cancels>>

\* A local slash command that leaves no message: the reservation is released
\* and the controller cleared, whoever they belong to by now.
InputLocal(t) ==
    /\ turn[t].pc = "input"
    /\ \A e \in turn[t].batch : Slash(e)
    /\ guard' = CancelReservation(guard)
    /\ controller' = None
    /\ turn' = [turn EXCEPT ![t] = NoCall]
    /\ Chain(TRUE)
    /\ fate' = Settle(CmdsOf(turn[t].batch), "handled")
    /\ dialog' = FALSE
    /\ UNCHANGED <<last, cancels>>

\* Mutant: no finally, the reservation stays.
InputThrowKeepsGuard(t) ==
    /\ turn[t].pc = "input"
    /\ turn' = [turn EXCEPT ![t] = NoCall]
    /\ fate' = Settle(CmdsOf(turn[t].batch), "failed")
    /\ UNCHANGED <<guard, controller, queue, tick, dialog, last, fresh, cancels>>

\* processUserInput threw: only the finally runs.
InputThrow(t) ==
    /\ turn[t].pc = "input"
    /\ guard' = CancelReservation(guard)
    /\ turn' = [turn EXCEPT ![t] = NoCall]
    /\ fate' = Settle(CmdsOf(turn[t].batch), "failed")
    /\ UNCHANGED <<controller, queue, tick, dialog, last, fresh, cancels>>

\* handleIncomingPrompt: teammates' messages, task-list items; it defers to
\* what the user has queued.
Incoming(c, t) ==
    /\ ~IsActive(guard)
    /\ \A e \in queue : Mode(e) = "task-notification"
    /\ Free(t)
    /\ c \in fresh /\ Attr[c].src = "incoming"
    /\ controller' = t
    /\ guard' = Start(guard)
    /\ turn' = [turn EXCEPT ![t] =
                  Call("query", {EntryOf(c)}, guard.generation + 1, TRUE)]
    /\ tick' = tick + 1
    /\ last' = IF Attr[c].meta THEN last ELSE c
    /\ fate' = Settle({c}, "appended")
    /\ fresh' = fresh \ {c}
    /\ UNCHANGED <<queue, dialog, cancels>>

\* processInitialMessage: the effect sees an idle REPL, then awaits.
InitialArrive(c, t) ==
    /\ ~IsActive(guard)
    /\ Free(t)
    /\ Take(c, "initial")
    /\ turn' = [turn EXCEPT ![t] = Call("initial", {EntryOf(c)}, 0, FALSE)]
    /\ tick' = tick + 1
    /\ UNCHANGED <<guard, controller, queue, dialog, last, fate, cancels>>

\* ... and starts without looking again: the new controller is installed
\* before tryStart() has decided.
InitialLaunch(t) ==
    /\ turn[t].pc = "initial"
    /\ controller' = t
    /\ OnQuery(t, turn[t].batch, TRUE)
    /\ UNCHANGED <<dialog, cancels>>

-----------------------------------------------------------------------------
(* While a query runs. *)

\* The model says something: the last user message now has an answer.
Reply(t) ==
    /\ turn[t].pc = "query" /\ turn[t].ask /\ turn[t].signal = "live"
    /\ last # None
    /\ last' = None
    /\ UNCHANGED <<flow, queue, tick, dialog, fresh, fate, cancels>>

\* Between two model calls the query takes a snapshot of the queue ...
DrainStart(t) ==
    /\ turn[t].pc = "query" /\ turn[t].ask /\ turn[t].signal = "live"
    /\ turn[t].snap = {}
    /\ \E sleepRan \in BOOLEAN :
        /\ Drainable(queue, sleepRan) # {}
        /\ turn' = [turn EXCEPT ![t].snap = Drainable(queue, sleepRan)]
    /\ UNCHANGED <<guard, controller, queue, tick, dialog, last, fresh, fate,
                   cancels>>

\* Mutant: the attached commands stay in the queue.
DrainEndKeepsQueue(t) ==
    /\ turn[t].snap # {}
    /\ fate' = Settle(CmdsOf(turn[t].snap), "attached")
    /\ turn' = [turn EXCEPT ![t].snap = {}]
    /\ UNCHANGED <<guard, controller, queue, tick, dialog, last, fresh, cancels>>

\* ... awaits the attachments made from it, and removes it from the queue.
DrainEnd(t) ==
    /\ turn[t].snap # {}
    /\ queue' = queue \ turn[t].snap
    /\ fate' = Settle(CmdsOf(turn[t].snap), "attached")
    /\ turn' = [turn EXCEPT ![t].snap = {}]
    /\ UNCHANGED <<guard, controller, tick, dialog, last, fresh, cancels>>

\* Undo of a turn that the user cut off before an answer: the last user
\* message goes back to the input box, if that is empty and the guard g,
\* as onQuery's finally finds it, is idle.
Restores(t, g) ==
    /\ turn[t].signal = "user-cancel"
    /\ ~IsActive(g)
    /\ queue = {}
    /\ last # None

\* onQuery was called by processInitialMessage or by handleIncomingPrompt,
\* not by executeUserInput.  (What they push back on a refusal comes again
\* through the queue.)
Direct(t) == \E e \in turn[t].batch :
                ~e.again /\ Attr[e.cmd].src \in {"initial", "incoming"}

\* The outer finally of executeUserInput: cancelReservation(), which takes
\* the reservation of a later call when the query was cut off meanwhile.
Finally(t, g) == IF Direct(t) THEN g ELSE CancelReservation(g)

\* The query is over: onQuery's finally, then the rest of executeUserInput,
\* its own finally included.  A query that asked nothing clears the
\* controller in any case; the others do so only as owners of the guard.
Finish(t) ==
    /\ turn[t].pc = "query" /\ turn[t].snap = {}
    /\ guard' = Finally(t, End(guard, turn[t].gen))
    /\ controller' = IF Ends(guard, turn[t].gen) \/ ~turn[t].ask
                     THEN None ELSE controller
    /\ \/ UNCHANGED <<last, fate>>
       \/ /\ Restores(t, End(guard, turn[t].gen))
          /\ fate' = [fate EXCEPT ![last] = (@ \ {"appended"}) \cup {"returned"}]
          /\ last' = None
    /\ turn' = [turn EXCEPT ![t] = NoCall]
    /\ Chain(\E e \in turn[t].batch : Slash(e))
    /\ UNCHANGED <<dialog, cancels>>

-----------------------------------------------------------------------------
(* The user and the rest of the program. *)

\* Escape with a live controller: handleCancel's first branch, onCancel.
Cancel ==
    /\ cancels < MaxCancels
    /\ ~dialog
    /\ controller # None /\ turn[controller].signal = "live"
    /\ guard' = ForceEnd(guard)
    /\ turn' = Abort("user-cancel")
    /\ controller' = None
    /\ cancels' = cancels + 1
    /\ UNCHANGED <<queue, tick, dialog, last, fresh, fate>>

\* Up-arrow, or Escape with nothing to cancel: popAllEditable.
PopAll ==
    /\ Editable(queue) # {}
    /\ queue' = queue \ Editable(queue)
    /\ fate' = Settle(CmdsOf(Editable(queue)), "returned")
    /\ UNCHANGED <<flow, tick, dialog, last, fresh, cancels>>

\* The second press of kill-agents: clearCommandQueue, then one notification.
KillAgents(c) ==
    /\ Take(c, "notify")
    /\ queue' = {EntryOf(c)}
    /\ tick' = tick + 1
    /\ fate' = Settle(CmdsOf(queue), "cleared")
    /\ UNCHANGED <<flow, dialog, last, cancels>>

\* Ctrl+B: the turn goes on in the background, with the notifications.
Background ==
    /\ IsActive(guard) /\ controller # None
    /\ turn[controller].signal = "live"
    /\ turn' = Abort("background")
    /\ queue' = queue \ Notifications(queue)
    /\ fate' = Settle(CmdsOf(Notifications(queue)), "moved")
    /\ UNCHANGED <<guard, controller, tick, dialog, last, fresh, cancels>>

\* The effect that lets a 'now' command interrupt the turn.
NowInterrupt ==
    /\ \E e \in queue : Prio(e) = "now"
    /\ controller # None /\ turn[controller].signal = "live"
    /\ turn' = Abort("interrupt")
    /\ UNCHANGED <<guard, controller, queue, tick, dialog, last, fresh, fate,
                   cancels>>

\* An immediate local-JSX command runs beside the turn (or an external one)
\* and shows its UI.
OpenDialog(c) ==
    /\ \E external \in BOOLEAN : IsActive(guard) \/ external
    /\ ~dialog
    /\ Take(c, "user") /\ Attr[c].slash
    /\ dialog' = TRUE
    /\ fate' = Settle({c}, "handled")
    /\ UNCHANGED <<flow, queue, tick, last, cancels>>

CloseDialog ==
    /\ dialog
    /\ dialog' = FALSE
    /\ Chain(TRUE)
    /\ UNCHANGED <<flow, last, fate, cancels>>

-----------------------------------------------------------------------------
Arrive ==
    \E c \in Cmds :
        \/ SubmitBusy(c) \/ Notify(c) \/ KillAgents(c) \/ OpenDialog(c)
        \/ \E t \in Turns : SubmitNow(c, t) \/ Incoming(c, t)
                           \/ InitialArrive(c, t)

Advance(t) ==
    \/ ProcessQueue(t)
    \/ InputDone(t) \/ InputLocal(t) \/ InputThrow(t) \/ InitialLaunch(t)
    \/ Reply(t) \/ DrainStart(t) \/ DrainEnd(t) \/ Finish(t)

User == Cancel \/ PopAll \/ Background \/ NowInterrupt \/ CloseDialog

Next == Arrive \/ (\E t \in Turns : Advance(t)) \/ User

Spec == Init /\ [][Next]_vars

\* The event loop runs what is ready: the effect of useQueueProcessor, and
\* the continuation of every await, since input processing, hooks and the
\* query end (each is bounded by a timeout or by its abort signal).  Nothing
\* is assumed of the user, of the model's answers or of what arrives.
Fairness ==
    /\ WF_vars(\E t \in Turns : ProcessQueue(t))
    /\ \A t \in Turns :
        /\ WF_vars(InputDone(t) \/ InputLocal(t) \/ InputThrow(t))
        /\ WF_vars(InitialLaunch(t))
        /\ WF_vars(DrainEnd(t))
        /\ WF_vars(Finish(t))

FairSpec == Spec /\ Fairness

-----------------------------------------------------------------------------
(* Properties. *)

TypeOK ==
    /\ guard \in Guards
    /\ turn \in [Turns -> Calls]
    /\ controller \in Turns \cup {None}
    /\ queue \subseteq Entries
    /\ tick \in Nat
    /\ dialog \in BOOLEAN
    /\ last \in Cmds \cup {None}
    /\ fresh \subseteq Cmds
    /\ fate \in [Cmds -> SUBSET Fates]
    /\ cancels \in Nat

Owns(t) == turn[t].pc = "query" /\ turn[t].gen = guard.generation

\* The guard is never stuck: while it says running exactly one query in
\* flight holds its generation (so that some end() will release it), and
\* while it says dispatching some executeUserInput is still to run its
\* finally.  Whatever cancels, late starts and stolen reservations happened.
GuardAccounted ==
    /\ guard.status = "running" =>
        \E t \in Turns : Owns(t) /\ \A u \in Turns : Owns(u) => u = t
    /\ guard.status = "dispatching" => \E t \in Turns : turn[t].pc = "input"

\* No accepted command vanishes: it waits in the queue or in a call that
\* has not reached onQuery, or its fate is known.  (A refused onQuery, a
\* drain, an undo and a pop all move commands.)
NothingVanishes ==
    \A c \in Cmds \ fresh :
        \/ c \in CmdsOf(queue)
        \/ \E t \in Turns : /\ turn[t].pc \in {"input", "initial"}
                            /\ c \in CmdsOf(turn[t].batch)
        \/ fate[c] # {}

\* queueProcessor.ts: "Different modes are never mixed", and slash and bash
\* commands are processed one at a time.
BatchesAreUniform ==
    \A t \in Turns : \A e, f \in turn[t].batch :
        Mode(e) = Mode(f) /\ (e # f => ~Slash(e) /\ Mode(e) # "bash")

\* Nothing reaches the model twice: not as a user message and as an
\* attachment.  True as long as nobody cancels a turn (a cancelled query
\* still delivers the snapshot it took).
DeliveredOnce ==
    cancels = 0 => \A c \in Cmds : ~({"appended", "attached"} \subseteq fate[c])

\* A running query keeps the guard until it ends itself or Escape takes it:
\* the end of a superseded query, a late start, a cancelReservation of
\* another call leave it alone.
OwnerIsNotDisturbed ==
    [][\A t \in Turns :
         guard.status = "running" /\ Owns(t) /\ cancels' = cancels
            => \/ guard' = guard /\ turn'[t].pc = "query"
               \/ guard' = End(guard, turn[t].gen) /\ turn'[t].pc = "free"]_vars

\* The REPL always comes back to the prompt.
GuardIsReleased == []<>(guard.status = "idle")

\* A main-thread command does not stay in the queue, unless the user keeps
\* an immediate command's UI open.
QueueMoves ==
    \A c \in Cmds :
        (\E e \in MainThread(queue) : e.cmd = c)
            ~> (dialog \/ ~\E e \in MainThread(queue) : e.cmd = c)

\* The REPL implements OneQuery: the owner is the turn that holds the
\* guard's generation.
Owner == IF guard.status = "running" THEN CHOOSE t \in Turns : Owns(t) ELSE None

Abstract == INSTANCE OneQuery WITH owner <- Owner, era <- guard.generation

ImplementsOneQuery == Abstract!Spec

-----------------------------------------------------------------------------
(* What the comments claim. *)

\* handlePromptSubmit.ts:417: "queryGuard guarantees no concurrent
\* executeUserInput call".
NoConcurrentInput ==
    \A t, u \in Turns :
        turn[t].pc = "input" /\ turn[u].pc = "input" => t = u

\* useCancelRequest.ts:96: "users can always interrupt Claude": the query
\* that runs is the one whose controller Escape aborts.
EscapeReachesTheQuery ==
    \A t \in Turns :
        guard.status = "running" /\ Owns(t) /\ turn[t].signal = "live"
            => controller = t

\* messageQueueManager.ts:50: "Within the same priority, commands are
\* processed FIFO": what the processor takes has nothing older of the same
\* priority waiting behind it.
FifoWithinPriority ==
    [][\A t \in Turns :
         ProcessQueue(t) =>
            \A e \in turn'[t].batch, f \in MainThread(queue') :
                Prio(e) = Prio(f) => e.at < f.at]_vars
=============================================================================
