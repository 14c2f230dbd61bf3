--------------------------- MODULE ToolPermission ---------------------------
(***************************************************************************)
(* The requests for permission to run a tool: useCanUseTool.tsx, the       *)
(* interactive handler, and the queue of dialogs of REPL.tsx.  A request   *)
(* that the rules leave open becomes a dialog, and the user, a             *)
(* PermissionRequest hook, a channel (KAIROS_CHANNELS) and a recheck of    *)
(* the rules race to answer it; claim() decides.  React renders the head   *)
(* of the queue some time after the queue has changed.                     *)
(***************************************************************************)
EXTENDS Naturals, Sequences, FiniteSets, SequencesExt

CONSTANTS Blocks,        \* tool_use ids
          None,          \* no dialog, and a request not yet claimed
          MaxTyping      \* times the user starts to type in the prompt

ASSUME PermissionAssumption ==
    /\ IsFiniteSet(Blocks)
    /\ None \notin Blocks /\ None \notin {"allow", "reject"}
    /\ MaxTyping \in Nat

VARIABLES
    req,      \* what each request is doing
    confirm,  \* toolUseConfirmQueue
    shown,    \* the request whose dialog is on the screen
    typing,   \* isPromptInputActive: dialogs are held back
    typed,    \* times the user started to type (bounded by MaxTyping)
    recheck,  \* the setImmediate of setToolPermissionContext is pending
    aborted,  \* the signal of the query's abort controller
    dropped   \* history: requests taken off the queue with no answer

permVars == <<req, confirm, shown, typing, typed, recheck, aborted, dropped>>

\* claim is what the claimer decided; hook and fresh are the two
\* asynchronous racers: the hook, and a recheck that has read the rules.
NewRequest == [pc |-> "idle", claim |-> None, hook |-> FALSE, fresh |-> FALSE]

PermInit ==
    /\ req = [b \in Blocks |-> NewRequest]
    /\ confirm = <<>> /\ shown = None
    /\ typing = FALSE /\ typed = 0
    /\ recheck = FALSE /\ aborted = FALSE /\ dropped = {}

Doing(b, pc) == req[b].pc = pc
Open(b) == Doing(b, "asking") /\ req[b].claim = None

\* What a claimed request resolves to, at once; an onAllow of the user first
\* awaits the update of the rules, and is delivered by Deliver.
Resolved(b, d) == [req EXCEPT ![b].claim = d, ![b].pc =
                      IF d = "allow" THEN "allowed" ELSE "refused"]

\* removeFromQueue: the filter finds a block at one position at most, for no
\* block is twice in the queue (DialogsMatchRequests).
Removed(b) == IF \E i \in DOMAIN confirm : confirm[i] = b
              THEN RemoveAt(confirm, CHOOSE i \in DOMAIN confirm : confirm[i] = b)
              ELSE confirm
Head0(s) == IF s = <<>> THEN None ELSE Head(s)

\* onDone of the dialog: the head of the queue goes, whoever it is.
Popped == IF confirm = <<>> THEN <<>> ELSE Tail(confirm)

-----------------------------------------------------------------------------
(***************************************************************************)
(* canUseTool: from the call to the dialog.                                *)
(***************************************************************************)

\* resolveIfAborted: a request that finds the query aborted refuses.
IfAborted(b, pc) ==
    req' = [req EXCEPT ![b].pc = IF aborted THEN "refused" ELSE pc]

\* The promise that canUseTool returns is made.
Ask(b) ==
    /\ Doing(b, "idle")
    /\ IfAborted(b, "checking")
    /\ UNCHANGED <<confirm, shown, typing, typed, recheck, aborted, dropped>>

\* hasPermissionsToUseTool settles: an allow is final, a deny or an ask goes
\* on to await the tool's description, an error aborts the query.
Check(b) ==
    /\ Doing(b, "checking")
    /\ \/ /\ IfAborted(b, "allowed")
          /\ UNCHANGED aborted
       \/ /\ \E pc \in {"denying", "describing"} :
                req' = [req EXCEPT ![b].pc = pc]
          /\ UNCHANGED aborted
       \/ /\ req' = [req EXCEPT ![b].pc = "refused"]
          /\ aborted' = TRUE
    /\ UNCHANGED <<confirm, shown, typing, typed, recheck, dropped>>

\* The rules deny.
Deny(b) ==
    /\ Doing(b, "denying")
    /\ req' = [req EXCEPT ![b].pc = "refused"]
    /\ UNCHANGED <<confirm, shown, typing, typed, recheck, aborted, dropped>>

\* A mutant of Describe: returns on abort without an answer.
DescribeSilent(b) ==
    /\ Doing(b, "describing") /\ ~aborted
    /\ req' = [req EXCEPT ![b].pc = "asking", ![b].hook = TRUE]
    /\ confirm' = Append(confirm, b)
    /\ UNCHANGED <<shown, typing, typed, recheck, aborted, dropped>>

\* handleInteractivePermission: the dialog joins the queue, the hooks start.
Describe(b) ==
    /\ Doing(b, "describing")
    /\ IF aborted
       THEN /\ req' = [req EXCEPT ![b].pc = "refused"]
            /\ UNCHANGED confirm
       ELSE /\ req' = [req EXCEPT ![b].pc = "asking", ![b].hook = TRUE]
            /\ confirm' = Append(confirm, b)
    /\ UNCHANGED <<shown, typing, typed, recheck, aborted, dropped>>

-----------------------------------------------------------------------------
(***************************************************************************)
(* The racers.                                                             *)
(***************************************************************************)

\* Mutants of Answered: the claim is not looked at; the dialog stays.
AnsweredUnclaimed(b, d) ==
    /\ req' = [Resolved(b, d) EXCEPT ![b].hook = FALSE]
    /\ confirm' = Removed(b)
AnsweredInPlace(b, d) ==
    /\ req' = IF Open(b) THEN [Resolved(b, d) EXCEPT ![b].hook = FALSE]
                         ELSE [req EXCEPT ![b].hook = FALSE]
    /\ UNCHANGED confirm

\* An answer that came from outside the dialog takes the dialog away.
Answered(b, d) ==
    IF Open(b)
    THEN /\ req' = [Resolved(b, d) EXCEPT ![b].hook = FALSE]
         /\ confirm' = Removed(b)
    ELSE /\ req' = [req EXCEPT ![b].hook = FALSE]
         /\ UNCHANGED confirm

\* The hooks have run.  Their permission updates and their interrupt take
\* effect in runHooks, before the claim, and so even when the claim is lost.
HookAnswer(b) ==
    /\ req[b].hook
    /\ \/ /\ req' = [req EXCEPT ![b].hook = FALSE]
          /\ UNCHANGED <<confirm, recheck, aborted>>
       \/ /\ Answered(b, "allow")
          /\ recheck' \in {recheck, TRUE}
          /\ UNCHANGED aborted
       \/ /\ Answered(b, "reject")
          /\ aborted' \in {aborted, TRUE}
          /\ UNCHANGED recheck
    /\ UNCHANGED <<shown, typing, typed, dropped>>

\* A reply on a channel; an abort ends the subscription.  A denial carries a
\* text, so it does not abort.
ChannelReply(b, d) ==
    /\ Open(b) /\ ~aborted
    /\ req' = Resolved(b, d)
    /\ confirm' = Removed(b)
    /\ UNCHANGED <<shown, typing, typed, recheck, aborted, dropped>>

\* onDone after an answer to dialog b: the queue's head goes and React
\* renders with the key press.
Done(b) ==
    /\ confirm' = Popped
    /\ shown' = Head0(confirm')
    /\ dropped' = dropped \cup ({Head0(confirm)} \ {None, b})

\* onAllow: the claim comes first, then the new rules, if any, are awaited.
Allow(b) ==
    /\ shown = b
    /\ IF Open(b)
       THEN /\ req' = [req EXCEPT ![b].claim = "allow"]
            /\ recheck' \in {recheck, TRUE}
       ELSE UNCHANGED <<req, recheck>>
    /\ Done(b)
    /\ UNCHANGED <<typing, typed, aborted>>

\* ... and the decision is delivered.
Deliver(b) ==
    /\ Doing(b, "asking") /\ req[b].claim = "allow"
    /\ req' = [req EXCEPT ![b].pc = "allowed"]
    /\ UNCHANGED <<confirm, shown, typing, typed, recheck, aborted, dropped>>

\* onReject: without a text the query is aborted.
Reject(b) ==
    /\ shown = b
    /\ IF Open(b)
       THEN /\ req' = Resolved(b, "reject")
            /\ aborted' \in {aborted, TRUE}
       ELSE UNCHANGED <<req, aborted>>
    /\ Done(b)
    /\ UNCHANGED <<typing, typed, recheck>>

\* The rules have changed: every dialog in the queue checks them again.
RecheckAll ==
    /\ recheck /\ recheck' = FALSE
    /\ req' = [b \in Blocks |-> IF b \in Range(confirm) /\ Open(b)
                                THEN [req[b] EXCEPT !.fresh = TRUE]
                                ELSE req[b]]
    /\ UNCHANGED <<confirm, shown, typing, typed, aborted, dropped>>

\* recheckPermission after its await: an allow claims, anything else leaves
\* the dialog.
Recheck(b) ==
    /\ req[b].fresh
    /\ \/ /\ Open(b)
          /\ req' = [Resolved(b, "allow") EXCEPT ![b].fresh = FALSE]
          /\ confirm' = Removed(b)
       \/ /\ req' = [req EXCEPT ![b].fresh = FALSE]
          /\ UNCHANGED confirm
    /\ UNCHANGED <<shown, typing, typed, recheck, aborted, dropped>>

-----------------------------------------------------------------------------
(***************************************************************************)
(* The screen.                                                             *)
(***************************************************************************)

\* getFocusedInputDialog: a prompt being typed hides the dialogs.
Render ==
    /\ shown' = IF typing THEN None ELSE Head0(confirm)
    /\ shown' # shown
    /\ UNCHANGED <<req, confirm, typing, typed, recheck, aborted, dropped>>

\* With no dialog on the screen a key goes to the prompt; the key press
\* renders.
Type ==
    /\ ~typing /\ shown = None /\ typed < MaxTyping
    /\ typing' = TRUE /\ typed' = typed + 1
    /\ UNCHANGED <<req, confirm, shown, recheck, aborted, dropped>>

StopTyping ==
    /\ typing /\ typing' = FALSE
    /\ UNCHANGED <<req, confirm, shown, typed, recheck, aborted, dropped>>

\* Esc with no dialog on the screen: useCancelRequest empties the queue and
\* onCancel aborts.
Escape ==
    /\ shown = None /\ ~aborted
    /\ aborted' = TRUE
    /\ confirm' = <<>>
    /\ dropped' = dropped \cup Range(confirm)
    /\ UNCHANGED <<req, shown, typing, typed, recheck>>

-----------------------------------------------------------------------------
\* A request once made, but for its abort check; and the screen.
Asked(b) == \/ Check(b) \/ Deny(b) \/ Describe(b) \/ HookAnswer(b)
            \/ Allow(b) \/ Deliver(b) \/ Reject(b) \/ Recheck(b)
            \/ \E d \in {"allow", "reject"} : ChannelReply(b, d)
Screen == RecheckAll \/ Render \/ Type \/ StopTyping \/ Escape
=============================================================================
