------------------------------ MODULE ToolTurn ------------------------------
(***************************************************************************)
(* One iteration of the query loop of query.ts, from the request to the    *)
(* model to the results of its tools: the tool_use blocks stream in, a     *)
(* failed stream falls back to another mode or another model, runTools     *)
(* runs the blocks in batches, and each block passes its PreToolUse hooks  *)
(* and the request for permission of ToolPermission before it runs.        *)
(* Whatever happens, the conversation must pair every tool_use with one    *)
(* tool_result: the API refuses any other.                                 *)
(***************************************************************************)
EXTENDS ToolPermission

CONSTANTS Safeties,      \* which blocks may be concurrency-safe
          Cap,           \* getMaxToolUseConcurrency()
          MaxFallbacks   \* fallbacks of the request

ASSUME TurnAssumption ==
    /\ Blocks = 1 .. Cardinality(Blocks)
    /\ Safeties \subseteq SUBSET Blocks
    /\ Cap \in Nat \ {0} /\ MaxFallbacks \in Nat

VARIABLES
    phase,    \* of the iteration
    safe,     \* the blocks that are concurrency-safe
    first,    \* the first block of this attempt
    made,     \* blocks streamed, in this attempt and before
    fell,     \* the stream has failed and the request is sent unstreamed
    retries,  \* fallbacks (bounded by MaxFallbacks)
    gone,     \* tombstoned blocks
    job,      \* what each block of runTools is doing
    results,  \* tool_results of each block in the conversation
    stopped   \* shouldPreventContinuation

turnVars == <<phase, safe, first, made, fell, retries, gone, job, results,
              stopped>>
vars == <<permVars, turnVars>>

Streamed == 1 .. made
Current == first .. made       \* toolUseBlocks
Active(b) == job[b] \in {"hooks", "asking", "running"}

Init ==
    /\ PermInit
    /\ phase = "streaming" /\ safe \in Safeties
    /\ first = 1 /\ made = 0 /\ fell = FALSE /\ retries = 0
    /\ gone = {} /\ stopped = FALSE
    /\ job = [b \in Blocks |-> "none"]
    /\ results = [b \in Blocks |-> 0]

\* yieldMissingToolResultBlocks
WithMissing == [b \in Blocks |->
                   IF b \in Current THEN results[b] + 1 ELSE results[b]]

-----------------------------------------------------------------------------
(***************************************************************************)
(* The request.                                                            *)
(***************************************************************************)

\* A content block of the stream is complete and carries a tool_use.
Stream ==
    /\ phase = "streaming" /\ ~fell
    /\ made + 1 \in Blocks
    /\ made' = made + 1
    /\ UNCHANGED <<permVars, phase, safe, first, fell, retries, gone, job,
                   results, stopped>>

\* onStreamingFallback: the stream broke, the request goes out again
\* unstreamed.  Nothing is taken back until that answers.
StreamBreaks ==
    /\ phase = "streaming" /\ ~fell /\ retries < MaxFallbacks
    /\ fell' = TRUE /\ retries' = retries + 1
    /\ UNCHANGED <<permVars, phase, safe, first, made, gone, job, results,
                   stopped>>

\* A mutant of Unstreamed: toolUseBlocks is not emptied.
UnstreamedAdds ==
    /\ phase = "streaming" /\ fell
    /\ \E n \in made .. Cardinality(Blocks) :
          /\ gone' = gone \cup Current
          /\ made' = n
          /\ phase' = IF aborted \/ n = made THEN "ended" ELSE "tools"
    /\ UNCHANGED <<permVars, safe, fell, first, retries, job, results,
                   stopped>>

\* Its first message tombstones what the stream had yielded; the one
\* assistant message brings all the blocks.
Unstreamed ==
    /\ phase = "streaming" /\ fell
    /\ \E n \in made .. Cardinality(Blocks) :
          /\ gone' = gone \cup Current
          /\ first' = made + 1 /\ made' = n
          /\ phase' = IF aborted \/ n = made THEN "ended" ELSE "tools"
          /\ results' = [b \in Blocks |->
                            IF aborted /\ b \in made + 1 .. n THEN 1
                                                          ELSE results[b]]
    /\ UNCHANGED <<permVars, safe, fell, retries, job, stopped>>

\* FallbackTriggeredError: the tool_uses already yielded get an error for a
\* result, and the next model starts anew.
ModelFallback ==
    /\ phase = "streaming" /\ retries < MaxFallbacks
    /\ retries' = retries + 1
    /\ results' = WithMissing
    /\ first' = made + 1 /\ fell' = FALSE
    /\ UNCHANGED <<permVars, phase, safe, made, gone, job, stopped>>

\* The stream is over: an abort is seen first, then the blocks.
StreamEnds ==
    /\ phase = "streaming" /\ ~fell
    /\ IF aborted
       THEN phase' = "ended" /\ results' = WithMissing
       ELSE /\ phase' = IF Current = {} THEN "ended" ELSE "tools"
            /\ UNCHANGED results
    /\ UNCHANGED <<permVars, safe, first, made, fell, retries, gone, job,
                   stopped>>

\* Any other error of the request.
StreamFails ==
    /\ phase = "streaming"
    /\ phase' = "ended" /\ results' = WithMissing
    /\ UNCHANGED <<permVars, safe, first, made, fell, retries, gone, job,
                   stopped>>

-----------------------------------------------------------------------------
(***************************************************************************)
(* runTools.                                                               *)
(***************************************************************************)

\* partitionToolCalls: consecutive safe blocks are one batch.
Together(a, b) == a .. b \subseteq safe

\* A mutant of MayBegin: one batch does not wait for the one before.
MayBeginEarly(b) ==
    /\ job[b] = "none" /\ \A a \in Current : a < b => job[a] # "none"
    /\ Cardinality({a \in Current : Active(a)}) < Cap

\* A batch follows the batches before it; all() starts the generators of a
\* batch in order, Cap at a time.
MayBegin(b) ==
    /\ job[b] = "none"
    /\ \A a \in Current : a < b =>
          IF Together(a, b) THEN job[a] # "none" ELSE job[a] = "done"
    /\ Cardinality({a \in Current : Active(a)}) < Cap

\* Block b yields its result and is done.
Yield(b) ==
    /\ job' = [job EXCEPT ![b] = "done"]
    /\ results' = [results EXCEPT ![b] = @ + 1]

\* runToolUse: an unknown tool or an invalid input is an error, an aborted
\* query cancels, and the others go on to their hooks.
Begin(b) ==
    /\ phase = "tools" /\ b \in Current /\ MayBegin(b)
    /\ \/ Yield(b)
       \/ /\ ~aborted
          /\ job' = [job EXCEPT ![b] = "hooks"]
          /\ UNCHANGED results
    /\ UNCHANGED <<permVars, phase, safe, first, made, fell, retries, gone,
                   stopped>>

\* The PreToolUse hooks and resolveHookPermissionDecision: they stop or deny
\* the tool, allow it where no rule objects, or leave it to canUseTool.
\* preventContinuation ends the turn after the tools.
PreHooks(b) ==
    /\ job[b] = "hooks"
    /\ stopped' \in {stopped, TRUE}
    /\ \/ Yield(b) /\ UNCHANGED permVars
       \/ /\ job' = [job EXCEPT ![b] = "running"]
          /\ UNCHANGED <<results, permVars>>
       \/ /\ job' = [job EXCEPT ![b] = "asking"]
          /\ Ask(b)
          /\ UNCHANGED results
    /\ UNCHANGED <<phase, safe, first, made, fell, retries, gone>>

\* canUseTool answers: no.
Refused(b) ==
    /\ job[b] = "asking" /\ Doing(b, "refused")
    /\ Yield(b)
    /\ UNCHANGED <<permVars, phase, safe, first, made, fell, retries, gone,
                   stopped>>

\* canUseTool answers: yes.  The abort signal is not looked at again.
Start(b) ==
    /\ job[b] = "asking" /\ Doing(b, "allowed")
    /\ job' = [job EXCEPT ![b] = "running"]
    /\ UNCHANGED <<permVars, phase, safe, first, made, fell, retries, gone,
                   results, stopped>>

\* tool.call returns or throws, and the PostToolUse hooks have run.
Finish(b) ==
    /\ job[b] = "running"
    /\ Yield(b)
    /\ stopped' \in {stopped, TRUE}
    /\ UNCHANGED <<permVars, phase, safe, first, made, fell, retries, gone>>

\* All blocks are done: the turn ends, or the loop asks the model again.
ToolsEnd ==
    /\ phase = "tools" /\ \A b \in Current : job[b] = "done"
    /\ phase' = IF aborted \/ stopped THEN "ended" ELSE "next"
    /\ UNCHANGED <<permVars, safe, first, made, fell, retries, gone, job,
                   results, stopped>>

-----------------------------------------------------------------------------
Request == \/ Stream \/ StreamBreaks \/ Unstreamed \/ ModelFallback
           \/ StreamEnds \/ StreamFails
Tool(b) == Begin(b) \/ PreHooks(b) \/ Refused(b) \/ Start(b) \/ Finish(b)

\* Once the query is over the dialogs and racers of it may go on; only what
\* happens while it runs is followed here.
Next ==
    \/ Request
    \/ \E b \in Blocks : Tool(b)
    \/ ToolsEnd
    \/ /\ phase \in {"streaming", "tools"}
       /\ Screen \/ \E b \in Blocks : Asked(b)
       /\ UNCHANGED turnVars

Spec == Init /\ [][Next]_vars

\* What goes on by itself, the user answering what is on the screen included;
\* hooks and channels may stay silent and nobody has to press Esc.
Progress ==
    \/ Request
    \/ \E b \in Blocks : Tool(b)
    \/ ToolsEnd
    \/ /\ phase = "tools"
       /\ \/ Render \/ StopTyping
          \/ \E b \in Blocks : \/ Check(b) \/ Deny(b) \/ Describe(b)
                                \/ Allow(b) \/ Deliver(b) \/ Reject(b)
       /\ UNCHANGED turnVars

FairSpec == Spec /\ WF_vars(Progress)

-----------------------------------------------------------------------------
(***************************************************************************)
(* Properties.                                                             *)
(***************************************************************************)

\* The types of the variables of both modules.
TypeOK ==
    /\ req \in [Blocks -> [pc : {"idle", "checking", "denying", "describing",
                                 "asking", "allowed", "refused"},
                           claim : {None, "allow", "reject"},
                           hook : BOOLEAN, fresh : BOOLEAN]]
    /\ Range(confirm) \subseteq Blocks
    /\ shown \in Blocks \cup {None}
    /\ typing \in BOOLEAN /\ typed \in 0 .. MaxTyping
    /\ recheck \in BOOLEAN /\ aborted \in BOOLEAN
    /\ dropped \subseteq Blocks
    /\ phase \in {"streaming", "tools", "ended", "next"}
    /\ safe \in Safeties
    /\ made \in {0} \cup Blocks /\ first \in 1 .. made + 1
    /\ fell \in BOOLEAN /\ retries \in 0 .. MaxFallbacks
    /\ gone \subseteq Streamed
    /\ job \in [Blocks -> {"none", "hooks", "asking", "running", "done"}]
    /\ results \in [Blocks -> 0 .. 1]
    /\ stopped \in BOOLEAN

\* Every tool_use of the conversation has one tool_result when the iteration
\* is over, and none ever has two, whatever fell back, failed or was aborted
\* on the way; a tombstoned one has none (query.ts, "any tool_use without its
\* tool_result" is refused by the API).
Paired ==
    /\ \A b \in Blocks : results[b] <= IF b \in Streamed \ gone THEN 1 ELSE 0
    /\ phase \in {"ended", "next"} =>
          \A b \in Streamed \ gone : results[b] = 1

\* A tool that is not concurrency-safe has the turn to itself, its hooks and
\* its dialog included, and no more than Cap are under way.
UnsafeRunsAlone ==
    /\ Cardinality({b \in Blocks : Active(b)}) <= Cap
    /\ \A a, b \in Blocks :
          Active(a) /\ Active(b) /\ a < b => Together(a, b)

\* The queue of dialogs and the requests without answer match: nobody is
\* asked about a tool that was decided, and an open request that is off the
\* queue was taken off by Esc or by the end of another's dialog.
DialogsMatchRequests ==
    /\ \A i, j \in DOMAIN confirm : confirm[i] = confirm[j] => i = j
    /\ \A b \in Blocks : b \in Range(confirm) => Open(b)
    /\ \A b \in Blocks : Open(b) => b \in Range(confirm) \cup dropped

\* Types, and the dialogs as they should be, at any moment of a turn.
DialogInv == TypeOK /\ DialogsMatchRequests

\* The first to claim decides: no later answer changes it, a tool that was
\* rejected never runs and one that was allowed is not refused
\* (createResolveOnce).
FirstAnswerDecides ==
    [][\A b \in Blocks : req[b].claim # None =>
          /\ req'[b].claim = req[b].claim
          /\ req[b].claim = "reject" => job'[b] # "running"
          /\ req[b].claim = "allow" => req'[b].pc # "refused"]_vars

\* The tools of a turn come to an end, unless a dialog was taken off the
\* queue with no answer (see KeepsDialogs).
TurnEnds == (phase = "tools") ~> (phase # "tools" \/ dropped # {})

\* What interactiveHandler.ts:53 says of the handler: it "sets up callbacks
\* that eventually call resolve()".  An Esc while the prompt hides the
\* dialogs, or an answer to a dialog that a hook has just answered, takes a
\* request off the queue and nothing resolves it.
KeepsDialogs == dropped = {}
=============================================================================
