------------------------------ MODULE TierChain ------------------------------
(***************************************************************************)
(* The failover between model tiers (opus, sonnet, haiku) of query.ts: a   *)
(* request that fails for good on one tier is sent again on the next one   *)
(* that is bound to another provider.  One conversation runs a main query  *)
(* loop at a time, and beside it forked agents (compaction, suggestions,   *)
(* memory consolidation), each a query loop of its own; all of them share  *)
(* one options object, with the model and the session's fallback extras.   *)
(* (When an MCP server connects in the middle of a query, refreshTools     *)
(* gives the main loop a copy of it; that is left out.)                    *)
(*                                                                         *)
(* A provider stands for a type, URL, key and model; a provider serves one *)
(* model.  A request in flight ends as it likes: with an answer, with an   *)
(* error that makes withRetry throw FallbackTriggeredError, or with        *)
(* another error.                                                          *)
(***************************************************************************)
EXTENDS Naturals, FiniteSets

CONSTANTS NumTiers,            \* length of MODEL_TIERS
          Providers,           \* what a tier can be bound to
          Env,                 \* the connection of a tier without binding
          Named,               \* a model that is no tier codename
          Main,                \* the main query loop
          Forks,               \* forked agents of one query
          Bindings,            \* the providers.json files to start from
          Explicits,           \* values of --fallback-model, None for none
          MAX_TIER_FALLBACKS,
          MaxIterations,       \* iterations of a query loop
          MaxQueries,          \* main queries
          RoundLimit           \* the round counter stops here

Tiers == 1 .. NumTiers
None == 0                      \* undefined
Models == Tiers \cup {Named}
Loops == Forks \cup {Main}

ASSUME TierAssumption ==
    /\ NumTiers \in Nat \ {0}
    /\ Env \notin Providers
    /\ Named \notin Nat
    /\ Main \notin Forks /\ IsFiniteSet(Forks)
    /\ Bindings \subseteq [Tiers -> Providers \cup {Env}]
    /\ Explicits \subseteq Models \cup {None}
    /\ MAX_TIER_FALLBACKS \in Nat \ {0}
    /\ MaxIterations \in Nat /\ MaxQueries \in Nat
    /\ RoundLimit \in Nat /\ RoundLimit > MAX_TIER_FALLBACKS

VARIABLES
    bindings,  \* tier -> what providers.json binds it to
    app,       \* AppState.mainLoopModel
    opts,      \* the options object that the loops of this query share
    loop,      \* the query loops
    queries    \* main queries begun (bounded by MaxQueries)

vars == <<bindings, app, opts, loop, queries>>

\* mainLoopModel and the ccLite extras; cooling: the last fallback is less
\* than TIER_RESTORE_COOLDOWN_MS ago.
NewOptions(m) == [model |-> m, home |-> None, current |-> None,
                  sticky |-> FALSE, rounds |-> 0, cooling |-> FALSE]

\* codename and pending are tierCodenameOfCurrentChain and
\* pendingRestoreToChainHead of State; route is the tier whose connection
\* the request in flight uses, model the one it names.
Idle == [pc |-> "idle", kind |-> "main", explicit |-> None, iter |-> 0,
         codename |-> None, pending |-> FALSE, model |-> None, route |-> 1,
         target |-> None]

At(l, pc) == loop[l].pc = pc

\* The loop between two requests: what the attempts of an iteration used is
\* gone with the iteration.
Rest(s, pc) == [s EXCEPT !.pc = pc, !.model = None, !.route = 1,
                         !.target = None]
Ended(s) == [Idle EXCEPT !.pc = "ended", !.explicit = s.explicit]
Tier(m) == IF m \in Tiers THEN m ELSE None

-----------------------------------------------------------------------------
(***************************************************************************)
(* The rules at the start of a query.                                      *)
(***************************************************************************)

\* A /model switch, seen as a model that is not where the chain was left,
\* rebases the chain.
Rebased(o) ==
    CASE o.model \notin Tiers -> o
      [] o.model \in Tiers /\ o.current = None ->
            [o EXCEPT !.home = IF @ = None THEN o.model ELSE @,
                      !.current = o.model]
      [] o.model \in Tiers /\ o.current \notin {None, o.model} ->
            [NewOptions(o.model) EXCEPT !.home = o.model,
                                        !.current = o.model]
      [] OTHER -> o

\* A chain left on a degraded tier goes back to its head.
Restored(o) ==
    IF /\ o.home \in Tiers /\ ~o.sticky /\ ~o.cooling
       /\ o.current \notin {None, o.home}
    THEN [o EXCEPT !.model = o.home, !.current = o.home]
    ELSE o

Entered(o) == Restored(Rebased(o))

Entry(o, kind, explicit) ==
    [Idle EXCEPT !.pc = "iteration", !.kind = kind, !.explicit = explicit,
                 !.iter = 1, !.codename = Tier(o.model)]

-----------------------------------------------------------------------------
(***************************************************************************)
(* Walking the chain.                                                      *)
(***************************************************************************)

\* Mutant: neighbours bound to one provider are not skipped.
HopsToTheSame(t) == {u \in Tiers : u > t /\ \A v \in t .. u :
                                               bindings[v] # Env}

\* The tiers below t, reached over bound tiers only, whose provider is not
\* the one of the tier just above.
Hops(t) == {u \in Tiers : /\ u > t
                          /\ \A v \in t .. u : bindings[v] # Env
                          /\ bindings[u] # bindings[u - 1]}

NextTier(t) == IF \E u \in Hops(t) : TRUE
               THEN CHOOSE u \in Hops(t) : \A v \in Hops(t) : u <= v
               ELSE None

\* Mutant: the rounds are not looked at.
TargetUncapped(codename, explicit, o) ==
    CASE explicit # None -> explicit
      [] explicit = None /\ codename # None -> NextTier(codename)
      [] OTHER -> None

Target(codename, explicit, o) ==
    CASE explicit # None -> explicit
      [] explicit = None /\ o.rounds < MAX_TIER_FALLBACKS
            /\ codename # None -> NextTier(codename)
      [] OTHER -> None

\* The tier whose connection a request gets: without a codename the one of
\* its source, opus for the loops here (client.ts, tierForQuerySource).
Route(codename) == IF codename = None THEN 1 ELSE codename

-----------------------------------------------------------------------------
Init ==
    /\ bindings \in Bindings
    /\ app \in Models
    /\ opts = NewOptions(app)
    /\ loop = [l \in Loops |-> Idle]
    /\ queries = 0

\* The user may have picked a model since the last query (a pick counts when
\* a query begins).  A fork left from an earlier query shares its options
\* with nobody and is no longer followed.
BeginQuery ==
    /\ loop[Main].pc \in {"idle", "ended"}
    /\ queries < MaxQueries
    /\ queries' = queries + 1
    /\ \E m \in Models : /\ app' = m
                                   /\ opts' = Entered(NewOptions(m))
    /\ \E explicit \in Explicits :
           loop' = [l \in Loops |-> IF l = Main
                                    THEN Entry(opts', "main", explicit)
                                    ELSE Idle]
    /\ UNCHANGED bindings

Compacting == \E f \in Forks : loop[f].kind = "compact"

\* Compaction at the head of an iteration, which the main loop awaits, or
\* the background agents of the stop hooks, which nobody awaits and which
\* call query() some time later.
Fork(f) ==
    /\ At(f, "idle")
    /\ \E kind \in {"compact", "background"} :
           /\ kind = "compact" => At(Main, "iteration") /\ ~Compacting
           /\ kind = "background" => At(Main, "stopping")
           /\ loop' = [loop EXCEPT ![f].pc = "entering", ![f].kind = kind]
    /\ UNCHANGED <<bindings, app, opts, queries>>

Enter(f) ==
    /\ At(f, "entering")
    /\ opts' = Entered(opts)
    /\ loop' = [loop EXCEPT ![f] = Entry(opts', @.kind, None)]
    /\ UNCHANGED <<bindings, app, queries>>

\* The restore at the head of an iteration.
Climbs(l) == /\ loop[l].pending /\ ~opts.cooling
             /\ None \notin {loop[l].codename, opts.home}
             /\ loop[l].codename # opts.home

\* The head of an iteration up to callModel.
Send(l) ==
    /\ At(l, "iteration")
    /\ l = Main => ~Compacting
    /\ opts' = IF Climbs(l) THEN [opts EXCEPT !.model = opts.home,
                                              !.current = opts.home]
               ELSE opts
    /\ LET codename == IF Climbs(l) THEN opts.home ELSE loop[l].codename
           to == Target(codename, loop[l].explicit, opts')
       IN loop' = [loop EXCEPT ![l] = [loop[l] EXCEPT
                  !.pc = "request", !.pending = loop[l].pending /\ ~Climbs(l),
                  !.codename = codename, !.model = opts'.model,
                  !.route = Route(codename), !.target = to]]
    /\ UNCHANGED <<bindings, app, queries>>

\* Mutant: the next target stays the one of the first hop.
FallbackStale(l, balance) ==
    /\ At(l, "request")
    /\ loop[l].target # None
    /\ opts' = [opts EXCEPT !.cooling = TRUE, !.current = loop[l].target,
                            !.rounds = IF @ < RoundLimit THEN @ + 1 ELSE @]
    /\ app' = app
    /\ loop' = [loop EXCEPT ![l].pc = "moving",
                            ![l].model = loop[l].target,
                            ![l].codename = loop[l].target]
    /\ UNCHANGED <<bindings, queries>>

\* FallbackTriggeredError is caught, up to the yield of the missing results.
Fallback(l, balance) ==
    LET to == loop[l].target
        after == [opts EXCEPT
                    !.cooling = TRUE,
                    !.rounds = IF @ < RoundLimit THEN @ + 1 ELSE @,
                    !.sticky = @ \/ balance,
                    !.home = IF balance THEN to ELSE @,
                    !.current = IF to \in Tiers THEN to ELSE @]
        codename == IF to \in Tiers THEN to ELSE loop[l].codename
    IN /\ At(l, "request")
       /\ to # None
       /\ opts' = after
       /\ app' = IF l = Main THEN to ELSE app
       /\ loop' = [loop EXCEPT ![l] = [loop[l] EXCEPT
                     !.pc = "moving", !.model = to, !.codename = codename,
                     !.target = Target(codename, loop[l].explicit, after)]]
       /\ UNCHANGED <<bindings, queries>>

\* The rest of the catch block, and the next attempt.
Retry(l) ==
    /\ At(l, "moving")
    /\ opts' = [opts EXCEPT !.model = loop[l].model]
    /\ loop' = [loop EXCEPT ![l].pc = "request",
                            ![l].route = Route(loop[l].codename)]
    /\ UNCHANGED <<bindings, app, queries>>

\* An answer on a degraded tier marks the head of the chain for restoring.
Answer(l) ==
    /\ At(l, "request")
    /\ loop' = [loop EXCEPT ![l] = [Rest(loop[l], "answered") EXCEPT
                  !.pending = \/ loop[l].pending
                              \/ /\ loop[l].codename # None /\ ~opts.sticky
                                 /\ opts.home \notin
                                        {None, loop[l].codename}]]
    /\ UNCHANGED <<bindings, app, opts, queries>>

\* Any other error, or an abort, ends the query.
Fail(l) ==
    /\ At(l, "request")
    /\ loop' = [loop EXCEPT ![l] = Ended(@)]
    /\ UNCHANGED <<bindings, app, opts, queries>>

\* The stop hooks of the main loop, which start the background agents.
StopHooks ==
    /\ At(Main, "answered")
    /\ loop' = [loop EXCEPT ![Main].pc = "stopping"]
    /\ UNCHANGED <<bindings, app, opts, queries>>

\* Every continue site writes a State without the codename and without the
\* mark: after tool results, after a hook that blocks stopping.  Compaction
\* has one turn.
Continued(s) == [s EXCEPT !.pc = "iteration", !.iter = @ + 1,
                          !.codename = None, !.pending = FALSE]

Continue(l) ==
    /\ loop[l].pc \in {"answered", "stopping"}
    /\ loop[l].iter < MaxIterations
    /\ loop[l].kind # "compact"
    /\ loop' = [loop EXCEPT ![l] = Continued(@)]
    /\ UNCHANGED <<bindings, app, opts, queries>>

End(l) ==
    /\ At(l, IF l = Main THEN "stopping" ELSE "answered")
    /\ loop' = [loop EXCEPT ![l] = Ended(@)]
    /\ UNCHANGED <<bindings, app, opts, queries>>

CooldownEnds ==
    /\ opts.cooling
    /\ opts' = [opts EXCEPT !.cooling = FALSE]
    /\ UNCHANGED <<bindings, app, loop, queries>>

Attempt(l) == \/ \E balance \in BOOLEAN : Fallback(l, balance)
              \/ Retry(l)
              \/ Answer(l)
              \/ Fail(l)

Next == \/ BeginQuery
        \/ \E f \in Forks : Fork(f) \/ Enter(f)
        \/ \E l \in Loops : \/ Send(l)
                            \/ Attempt(l)
                            \/ Continue(l)
                            \/ End(l)
        \/ StopHooks
        \/ CooldownEnds

Spec == Init /\ [][Next]_vars

\* A request ends: it is answered, or its retries and its timeout run out.
FairSpec == Spec /\ \A l \in Loops : WF_vars(Attempt(l))
-----------------------------------------------------------------------------
TypeOK ==
    /\ bindings \in [Tiers -> Providers \cup {Env}]
    /\ app \in Models
    /\ opts \in [model : Models, home : Models \cup {None},
                 current : Tiers \cup {None}, sticky : BOOLEAN,
                 rounds : 0 .. RoundLimit, cooling : BOOLEAN]
    /\ loop \in [Loops -> [pc : {"idle", "entering", "iteration", "request",
                                 "moving", "answered", "stopping", "ended"},
                           kind : {"main", "compact", "background"},
                           explicit : Models \cup {None}, iter : Nat,
                           codename : Tiers \cup {None}, pending : BOOLEAN,
                           model : Models \cup {None}, route : Tiers,
                           target : Models \cup {None}]]
    /\ queries \in 0 .. MaxQueries

\* Without --fallback-model a request that failed goes to another provider,
\* one that providers.json names, and to a lower tier, also when the loops
\* move the shared options under each other (the chain of query.ts 369-402).
HopsAreReal ==
    [][\A l \in Loops :
          (At(l, "moving") /\ loop'[l].pc = "request"
           /\ loop[l].explicit = None)
          => /\ loop'[l].route > loop[l].route
             /\ bindings[loop'[l].route] \notin {Env, bindings[loop[l].route]}]_vars

\* The shared count of rounds is checked when a target is chosen and raised
\* when it is used, so it may pass its cap, by less than one round for each
\* loop (query.ts 385-390, 1131-1137).
RoundsBounded ==
    loop[Main].explicit = None
        => opts.rounds < MAX_TIER_FALLBACKS + Cardinality(Loops)

\* Without --fallback-model no request is sent from tier to tier for ever:
\* the target is taken anew after every hop (query.ts 784-788, 1163-1171).
FallbackTerminates ==
    \A l \in Loops :
        (At(l, "request") /\ loop[l].explicit = None)
            ~> loop[l].pc \in {"answered", "ended", "idle"}

-----------------------------------------------------------------------------
(***************************************************************************)
(* What comments say and the code does not do.                             *)
(***************************************************************************)

\* The request goes to the provider that its model is bound to (query.ts
\* 883-888).
RequestFollowsTheModel ==
    \A l \in Loops : (At(l, "request") /\ loop[l].model \in Tiers)
                     => bindings[loop[l].route] = bindings[loop[l].model]

\* A forked agent leaves the model of its parent alone (utils/forkedAgent.ts
\* 255, services/SessionMemory/sessionMemory.ts 316).
ForkLeavesTheModelAlone ==
    [][opts'.model # opts.model => loop'[Main] # loop[Main]]_vars

\* The fallbacks of a query are capped, so that a wedged gateway cannot
\* ping-pong models for ever (query.ts 271).
RoundsCapped == opts.rounds <= MAX_TIER_FALLBACKS
=============================================================================
