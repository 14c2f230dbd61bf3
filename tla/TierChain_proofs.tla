-------------------------- MODULE TierChain_proofs --------------------------
(***************************************************************************)
(* Proofs about TierChain, for any number of tiers, any providers and any  *)
(* number of forks.                                                        *)
(***************************************************************************)
EXTENDS TierChain, FiniteSetTheorems, WellFoundedInduction, TLAPS

Pcs == {"idle", "entering", "iteration", "request", "moving", "answered",
        "stopping", "ended"}
Kinds == {"main", "compact", "background"}
MaybeModel == Models \cup {None}
MaybeTier == Tiers \cup {None}
Rounds == 0 .. RoundLimit

Options == [model : Models, home : MaybeModel, current : MaybeTier,
            sticky : BOOLEAN, rounds : Rounds, cooling : BOOLEAN]
States == [pc : Pcs, kind : Kinds, explicit : MaybeModel, iter : Nat,
           codename : MaybeTier, pending : BOOLEAN, model : MaybeModel,
           route : Tiers, target : MaybeModel]

Typed == /\ bindings \in [Tiers -> Providers \cup {Env}]
         /\ app \in Models
         /\ opts \in Options
         /\ loop \in [Loops -> States]
         /\ queries \in 0 .. MaxQueries

LEMMA TypedIsTypeOK == Typed <=> TypeOK
BY DEF Typed, TypeOK, Options, States, Pcs, Kinds, MaybeModel, MaybeTier,
       Rounds

\* What the constants give.
LEMMA Basics ==
    /\ Tiers \subseteq Models /\ 1 \in Tiers /\ None \notin Models
    /\ Tiers \subseteq MaybeTier /\ Models \subseteq MaybeModel
    /\ MaybeTier \subseteq MaybeModel
    /\ None \in MaybeTier /\ None \in MaybeModel
    /\ 0 \in Rounds /\ Main \in Loops /\ Forks \subseteq Loops
    /\ \A x \in MaybeModel : x # None => x \in Models
    /\ \A x \in MaybeTier : x # None => x \in Tiers
BY TierAssumption DEF Tiers, Models, None, MaybeTier, MaybeModel, Rounds, Loops

-----------------------------------------------------------------------------
\* The operators.
LEMMA NewOptionsType ==
    ASSUME NEW m \in Models
    PROVE  NewOptions(m) \in Options /\ NewOptions(m).rounds = 0
BY Basics DEF NewOptions, Options

\* Rebasing starts the count of rounds again, or leaves it.
LEMMA EnteredType ==
    ASSUME NEW o \in Options
    PROVE  /\ Entered(o) \in Options
           /\ Entered(o).rounds \in {0, o.rounds}
<1>1. /\ Rebased(o) \in Options
      /\ Rebased(o).rounds \in {0, o.rounds}
  <2>1. CASE o.model \notin Tiers
    BY <2>1 DEF Rebased
  <2>2. CASE o.model \in Tiers /\ o.current = None
    <3>1. Rebased(o) = [o EXCEPT !.home = IF @ = None THEN o.model ELSE @,
                                 !.current = o.model]
      BY <2>2 DEF Rebased
    <3>2. QED
      BY <2>2, <3>1, Basics DEF Options
  <2>3. CASE o.model \in Tiers /\ o.current \notin {None, o.model}
    <3>1. Rebased(o) = [NewOptions(o.model) EXCEPT !.home = o.model,
                                                   !.current = o.model]
      BY <2>3 DEF Rebased
    <3>2. QED
      BY <2>3, <3>1, Basics DEF Options, NewOptions
  <2>4. CASE o.model \in Tiers /\ o.current = o.model
    BY <2>4, Basics DEF Rebased
  <2>5. QED
    BY <2>1, <2>2, <2>3, <2>4
<1>2. ASSUME NEW p \in Options
      PROVE  Restored(p) \in Options /\ Restored(p).rounds = p.rounds
  BY Basics DEF Restored, Options
<1>3. QED
  BY <1>1, <1>2 DEF Entered

LEMMA EntryType ==
    ASSUME NEW o \in Options, NEW kind \in Kinds, NEW e \in MaybeModel
    PROVE  /\ Entry(o, kind, e) \in States
           /\ Entry(o, kind, e).target = None
           /\ Entry(o, kind, e).explicit = e
<1>1. Tier(o.model) \in MaybeTier
  BY Basics DEF Tier
<1>2. "iteration" \in Pcs
  BY DEF Pcs
<1>3. QED
  BY <1>1, <1>2, Basics DEF Entry, Idle, States

\* A set of tiers that is not empty has a least member.
LEMMA LeastTier ==
    ASSUME NEW S \in SUBSET Nat, S # {}
    PROVE  \E u \in S : \A v \in S : u <= v
<1>1. PICK u \in S : \A v \in S : ~ (<<v, u>> \in OpToRel(<, Nat))
  BY WFMin, NatLessThanWellFounded
<1>2. \A v \in S : ~ (v < u)
  BY <1>1 DEF OpToRel
<1>3. QED
  BY <1>2

LEMMA NextTierIsAHop ==
    ASSUME NEW t \in Tiers
    PROVE  /\ NextTier(t) \in MaybeTier
           /\ NextTier(t) # None => /\ NextTier(t) \in Hops(t)
                                    /\ \A v \in Hops(t) : NextTier(t) <= v
<1>1. Hops(t) \subseteq Tiers /\ Tiers \subseteq Nat
  BY DEF Hops, Tiers
<1>2. CASE Hops(t) = {}
  BY <1>2, Basics DEF NextTier
<1>3. CASE Hops(t) # {}
  <2>1. \E u \in Hops(t) : \A v \in Hops(t) : u <= v
    BY <1>1, <1>3, LeastTier
  <2>2. /\ NextTier(t) \in Hops(t)
        /\ \A v \in Hops(t) : NextTier(t) <= v
    BY <1>3, <2>1 DEF NextTier
  <2>3. QED
    BY <1>1, <2>2, Basics
<1>4. QED
  BY <1>2, <1>3

\* The next tier is lower and bound, and not to the provider of this one:
\* the tiers that the chain skips on the way share the provider of this one.
LEMMA NextTierIsElsewhere ==
    ASSUME Typed, NEW t \in Tiers, NextTier(t) # None
    PROVE  /\ NextTier(t) \in Tiers /\ NextTier(t) > t
           /\ bindings[NextTier(t)] \notin {Env, bindings[t]}
<1> DEFINE u == NextTier(t)
           Odd == {v \in t .. u - 1 : bindings[v] # bindings[t]}
<1>1. /\ u \in Tiers /\ t \in Nat /\ u \in Nat /\ u > t
      /\ \A v \in t .. u : bindings[v] # Env
      /\ bindings[u] # bindings[u - 1]
      /\ \A v \in Hops(t) : u <= v
  BY NextTierIsAHop DEF Hops, Tiers
<1> HIDE DEF u
<1>2. Odd = {}
  <2>1. SUFFICES ASSUME Odd # {} PROVE FALSE
    OBVIOUS
  <2>2. Odd \in SUBSET Nat
    BY <1>1
  <2>3. PICK v \in Odd : \A w \in Odd : v <= w
    BY <2>1, <2>2, LeastTier
  <2>4. v \in Nat /\ v > t /\ v < u /\ v \in Tiers
    <3>1. v \in t .. u - 1 /\ bindings[v] # bindings[t]
      BY <2>3
    <3>2. v # t
      BY <3>1
    <3>3. v \in Nat /\ v > t /\ v < u
      BY <1>1, <3>1, <3>2
    <3>4. QED
      BY <1>1, <3>3, TierAssumption DEF Tiers
  <2>5. bindings[v - 1] = bindings[t]
    BY <1>1, <2>3, <2>4
  <2>6. v \in Hops(t)
    BY <1>1, <2>3, <2>4, <2>5 DEF Hops
  <2>7. QED
    BY <1>1, <2>4, <2>6
<1>3. bindings[u - 1] = bindings[t]
  BY <1>1, <1>2
<1>4. QED
  BY <1>1, <1>3 DEF u

LEMMA TargetType ==
    ASSUME NEW c \in MaybeTier, NEW e \in MaybeModel, NEW o \in Options
    PROVE  /\ Target(c, e, o) \in MaybeModel
           /\ e = None /\ Target(c, e, o) # None =>
                 /\ o.rounds < MAX_TIER_FALLBACKS
                 /\ c # None /\ Target(c, e, o) = NextTier(c)
<1>1. CASE e # None
  BY <1>1 DEF Target
<1>2. CASE e = None /\ o.rounds < MAX_TIER_FALLBACKS /\ c # None
  BY <1>2, NextTierIsAHop, Basics DEF Target
<1>3. CASE e = None /\ ~(o.rounds < MAX_TIER_FALLBACKS /\ c # None)
  BY <1>3, Basics DEF Target
<1>4. QED
  BY <1>1, <1>2, <1>3

-----------------------------------------------------------------------------
(***************************************************************************)
(* What a step makes of the loops: one of them goes on, or a new query     *)
(* begins.                                                                 *)
(***************************************************************************)

\* Where a loop stands in its chain: without --fallback-model the target is
\* the next tier of the codename, whose connection the request uses; between
\* the catch and the next attempt the codename is the next tier of the route.
\* No loop comes to an iteration with the mark to climb back.
OnChain(s) ==
    /\ s.pc = "iteration" => ~s.pending
    /\ s.pc = "moving" => s.model # None
    /\ s.explicit = None =>
          /\ s.pc \in {"request", "moving"} /\ s.target # None =>
                s.codename # None /\ s.target = NextTier(s.codename)
          /\ s.pc = "request" /\ s.target # None => s.route = s.codename
          /\ s.pc = "moving" => /\ s.codename # None
                                /\ s.codename = NextTier(s.route)

\* The rounds may grow past the cap only by loops that chose a target
\* before it was reached.
Waiting == {l \in Loops : loop[l].target # None}
Counted ==
    loop[Main].explicit = None =>
        \/ opts.rounds < MAX_TIER_FALLBACKS
        \/ opts.rounds + Cardinality(Waiting)
              < MAX_TIER_FALLBACKS + Cardinality(Loops)

ChainInv == /\ Typed
            /\ \A l \in Loops : OnChain(loop[l])
            /\ \A f \in Forks : loop[f].explicit = None
            /\ Counted

\* The step of one loop that holds no more targets than before and raises
\* no round.
Calm(l, s) ==
    /\ loop' = [loop EXCEPT ![l] = s]
    /\ s \in States /\ OnChain(s)
    /\ s.explicit = loop[l].explicit
    /\ opts' \in Options /\ opts'.rounds \in {0, opts.rounds}
    /\ \/ s.target \in {None, loop[l].target}
       \/ loop[l].explicit = None => opts'.rounds < MAX_TIER_FALLBACKS
    /\ app' \in Models
    /\ UNCHANGED <<bindings, queries>>

LEMMA LoopsAreFinite ==
    /\ IsFiniteSet(Loops) /\ Cardinality(Loops) \in Nat \ {0}
    /\ \A S \in SUBSET Loops : /\ IsFiniteSet(S)
                               /\ Cardinality(S) \in Nat
                               /\ Cardinality(S) <= Cardinality(Loops)
<1>1. IsFiniteSet(Loops) /\ Main \in Loops
  BY TierAssumption, FS_AddElement DEF Loops
<1>2. Cardinality(Loops) \in Nat /\ Cardinality(Loops) # 0
  BY <1>1, FS_CardinalityType, FS_EmptySet
<1>3. QED
  BY <1>1, <1>2, FS_Subset, FS_CardinalityType

LEMMA BindingsFixed ==
    ASSUME bindings' = bindings, NEW c \in MaybeTier
    PROVE  NextTier(c)' = NextTier(c)
BY DEF NextTier, Hops

LEMMA CalmKeeps ==
    ASSUME ChainInv, NEW l \in Loops, NEW s, Calm(l, s)
    PROVE  ChainInv'
<1>1. /\ loop \in [Loops -> States] /\ loop' \in [Loops -> States]
      /\ loop'[l] = s /\ \A k \in Loops \ {l} : loop'[k] = loop[k]
      /\ opts \in Options /\ opts' \in Options
  BY DEF ChainInv, Typed, Calm
<1>2. Typed'
  BY <1>1 DEF ChainInv, Typed, Calm
<1>3. \A k \in Loops : OnChain(loop[k])'
  <2>1. \A c \in MaybeTier : NextTier(c)' = NextTier(c)
    BY BindingsFixed DEF Calm
  <2>2. ASSUME NEW k \in Loops PROVE OnChain(loop[k])'
    <3>1. OnChain(loop'[k]) /\ loop'[k] \in States
      BY <1>1 DEF ChainInv, Calm
    <3>2. loop'[k].codename \in MaybeTier /\ loop'[k].route \in MaybeTier
      BY <3>1, Basics DEF States
    <3>3. QED
      BY <2>1, <3>1, <3>2 DEF OnChain
  <2>3. QED
    BY <2>2
<1>4. \A k \in Loops : loop'[k].explicit = loop[k].explicit
  BY <1>1 DEF Calm
<1>5. Counted'
  <2>1. SUFFICES ASSUME loop'[Main].explicit = None,
                        ~(opts'.rounds < MAX_TIER_FALLBACKS)
                 PROVE  opts'.rounds + Cardinality(Waiting')
                           < MAX_TIER_FALLBACKS + Cardinality(Loops)
    BY DEF Counted
  <2>2. opts'.rounds = opts.rounds
    BY <2>1, TierAssumption DEF Calm
  <2>3. loop[l].explicit = None
    BY <1>4, <2>1, Basics DEF ChainInv, Loops
  <2>4. Waiting' \subseteq Waiting /\ Waiting \subseteq Loops
    BY <1>1, <2>1, <2>3 DEF Waiting, Calm
  <2>5. /\ Cardinality(Waiting') <= Cardinality(Waiting)
        /\ Cardinality(Waiting') \in Nat /\ Cardinality(Waiting) \in Nat
        /\ Cardinality(Loops) \in Nat
    BY <2>4, LoopsAreFinite, FS_Subset
  <2>6. opts.rounds \in Nat /\ MAX_TIER_FALLBACKS \in Nat
    BY <1>1, TierAssumption DEF Options, Rounds
  <2>7. opts.rounds + Cardinality(Waiting)
           < MAX_TIER_FALLBACKS + Cardinality(Loops)
    BY <1>4, <2>1, <2>2, Basics DEF ChainInv, Counted
  <2>8. QED
    BY <2>2, <2>5, <2>6, <2>7
<1>6. QED
  BY <1>2, <1>3, <1>4, <1>5, Basics DEF ChainInv

-----------------------------------------------------------------------------
(***************************************************************************)
(* The actions.  All but the start of a query and the fallback are calm,   *)
(* and all but Retry take no loop from "moving" to a request.              *)
(***************************************************************************)

Hopped(l) ==
    (At(l, "moving") /\ loop'[l].pc = "request" /\ loop[l].explicit = None)
    => /\ loop'[l].route > loop[l].route
       /\ bindings[loop'[l].route] \notin {Env, bindings[loop[l].route]}

Good == ChainInv' /\ \A l \in Loops : Hopped(l)

LEMMA CalmIsGood ==
    ASSUME ChainInv, NEW l \in Loops, NEW s, Calm(l, s),
           ~(loop[l].pc = "moving" /\ s.pc = "request")
    PROVE  Good
<1>1. \A k \in Loops : loop'[k] = IF k = l THEN s ELSE loop[k]
  BY DEF ChainInv, Typed, Calm
<1>2. ASSUME NEW k \in Loops PROVE ~(At(k, "moving") /\ loop'[k].pc = "request")
  BY <1>1 DEF At
<1>3. QED
  BY <1>2, CalmKeeps DEF Good, Hopped

LEMMA ForkIsGood ==
    ASSUME ChainInv, NEW f \in Forks, Fork(f)
    PROVE  Good
<1>1. f \in Loops /\ loop[f] \in States /\ opts \in Options /\ app \in Models
  BY Basics DEF ChainInv, Typed
<1>2. PICK kind \in Kinds :
          loop' = [loop EXCEPT ![f].pc = "entering", ![f].kind = kind]
  BY DEF Fork, Kinds
<1> DEFINE s == [loop[f] EXCEPT !.pc = "entering", !.kind = kind]
<1>3. loop' = [loop EXCEPT ![f] = s]
  BY <1>1, <1>2 DEF ChainInv, Typed
<1>4. /\ s \in States /\ s.pc = "entering" /\ s.explicit = loop[f].explicit
      /\ s.target = loop[f].target
  BY <1>1 DEF States, Pcs
<1> HIDE DEF s
<1>5. Calm(f, s)
  BY <1>1, <1>3, <1>4 DEF Calm, OnChain, Fork
<1>6. QED
  BY <1>1, <1>4, <1>5, CalmIsGood

LEMMA EnterIsGood ==
    ASSUME ChainInv, NEW f \in Forks, Enter(f)
    PROVE  Good
<1>1. f \in Loops /\ loop[f] \in States /\ opts \in Options /\ app \in Models
  BY Basics DEF ChainInv, Typed
<1>2. opts' \in Options /\ opts'.rounds \in {0, opts.rounds}
  BY <1>1, EnteredType DEF Enter
<1> DEFINE s == Entry(opts', loop[f].kind, None)
<1>3. loop[f].kind \in Kinds /\ loop[f].explicit = None
  BY <1>1 DEF States, ChainInv
<1>4. s \in States /\ s.target = None /\ s.explicit = None
  BY <1>2, <1>3, EntryType, Basics
<1>5. s.pc = "iteration" /\ ~s.pending
  BY DEF Entry, Idle
<1>6. loop' = [loop EXCEPT ![f] = s]
  BY DEF Enter
<1> HIDE DEF s
<1>7. Calm(f, s)
  BY <1>1, <1>2, <1>3, <1>4, <1>5, <1>6 DEF Calm, OnChain, Enter
<1>8. QED
  BY <1>1, <1>5, <1>7, CalmIsGood

LEMMA SendIsGood ==
    ASSUME ChainInv, NEW l \in Loops, Send(l)
    PROVE  Good
<1>1. /\ loop[l] \in States /\ opts \in Options /\ app \in Models
      /\ loop[l].pc = "iteration"
  BY DEF ChainInv, Typed, Send, At
<1>2. ~Climbs(l)
  BY <1>1 DEF ChainInv, OnChain, Climbs
<1>3. opts' = opts
  BY <1>2 DEF Send
<1> DEFINE c == IF Climbs(l) THEN opts.home ELSE loop[l].codename
           to == Target(c, loop[l].explicit, opts')
           s == [loop[l] EXCEPT
                   !.pc = "request", !.pending = loop[l].pending /\ ~Climbs(l),
                   !.codename = c, !.model = opts'.model,
                   !.route = Route(c), !.target = to]
<1>4. loop' = [loop EXCEPT ![l] = s]
  BY DEF Send
<1>5. /\ c \in MaybeTier /\ loop[l].explicit \in MaybeModel
      /\ opts'.model \in MaybeModel /\ Route(c) \in Tiers
      /\ c # None => Route(c) = c
  BY <1>1, <1>2, <1>3, Basics DEF States, Options, Route
<1>6. /\ to \in MaybeModel
      /\ loop[l].explicit = None /\ to # None =>
            /\ opts.rounds < MAX_TIER_FALLBACKS
            /\ c # None /\ to = NextTier(c)
  BY <1>1, <1>3, <1>5, TargetType
<1> HIDE DEF to, c
<1>7. /\ s \in States /\ s.pc = "request" /\ s.explicit = loop[l].explicit
      /\ s.target = to /\ s.codename = c /\ s.route = Route(c)
  BY <1>1, <1>2, <1>5, <1>6 DEF States, Pcs
<1> HIDE DEF s
<1>8. OnChain(s)
  BY <1>5, <1>6, <1>7 DEF OnChain
<1>9. Calm(l, s)
  <2>1. \/ s.target \in {None, loop[l].target}
        \/ loop[l].explicit = None => opts'.rounds < MAX_TIER_FALLBACKS
    BY <1>3, <1>6, <1>7
  <2>2. QED
    BY <1>1, <1>3, <1>4, <1>7, <1>8, <2>1 DEF Calm, Send
<1>10. QED
  BY <1>1, <1>9, CalmIsGood

\* The steps that end or go between requests.
LEMMA RestIsGood ==
    ASSUME ChainInv, NEW l \in Loops, NEW s \in States,
           loop' = [loop EXCEPT ![l] = s],
           s.pc \in {"iteration", "answered", "stopping", "ended"},
           s.pc = "iteration" => ~s.pending,
           s.explicit = loop[l].explicit,
           s.target \in {None, loop[l].target},
           UNCHANGED <<bindings, app, opts, queries>>
    PROVE  Good
<1>1. OnChain(s)
  BY DEF OnChain
<1>2. opts' \in Options /\ opts' = opts /\ app' \in Models
  BY DEF ChainInv, Typed
<1>3. Calm(l, s)
  BY <1>1, <1>2 DEF Calm
<1>4. QED
  BY <1>3, CalmIsGood

LEMMA AnswerIsGood ==
    ASSUME ChainInv, NEW l \in Loops, Answer(l)
    PROVE  Good
<1> DEFINE p == \/ loop[l].pending
                \/ /\ loop[l].codename # None /\ ~opts.sticky
                   /\ opts.home \notin {None, loop[l].codename}
           s == [loop[l] EXCEPT !.pc = "answered", !.model = None,
                                !.route = 1, !.target = None, !.pending = p]
<1>1. loop[l] \in States /\ p \in BOOLEAN
  BY DEF ChainInv, Typed, States
<1>2. [Rest(loop[l], "answered") EXCEPT !.pending = p] = s
  BY <1>1 DEF Rest, States
<1>3. loop' = [loop EXCEPT ![l] = s]
  <2>1. loop' = [loop EXCEPT ![l] =
                    [Rest(loop[l], "answered") EXCEPT !.pending = p]]
    BY DEF Answer
  <2>2. QED
    BY <1>2, <2>1
<1> HIDE DEF p
<1>4. /\ s \in States /\ s.pc = "answered" /\ s.explicit = loop[l].explicit
      /\ s.target = None
  BY <1>1, Basics DEF States, Pcs
<1> HIDE DEF s
<1>5. QED
  BY <1>3, <1>4, RestIsGood DEF Answer

LEMMA EndIsGood ==
    ASSUME ChainInv, NEW l \in Loops, Fail(l) \/ End(l)
    PROVE  Good
<1> DEFINE s == Ended(loop[l])
<1>1. loop[l] \in States
  BY DEF ChainInv, Typed
<1>2. /\ s \in States /\ s.pc = "ended" /\ s.explicit = loop[l].explicit
      /\ s.target = None
  BY <1>1, Basics DEF Ended, Idle, States, Pcs, Kinds
<1>3. loop' = [loop EXCEPT ![l] = s]
  BY DEF Fail, End
<1> HIDE DEF s
<1>4. QED
  BY <1>2, <1>3, RestIsGood DEF Fail, End

LEMMA StopHooksIsGood ==
    ASSUME ChainInv, StopHooks
    PROVE  Good
<1> DEFINE s == [loop[Main] EXCEPT !.pc = "stopping"]
<1>1. Main \in Loops /\ loop[Main] \in States /\ loop \in [Loops -> States]
  BY Basics DEF ChainInv, Typed
<1>2. /\ s \in States /\ s.pc = "stopping" /\ s.explicit = loop[Main].explicit
      /\ s.target = loop[Main].target
  BY <1>1 DEF States, Pcs
<1>3. loop' = [loop EXCEPT ![Main] = s]
  BY <1>1 DEF StopHooks
<1> HIDE DEF s
<1>4. QED
  BY <1>1, <1>2, <1>3, RestIsGood DEF StopHooks

LEMMA ContinueIsGood ==
    ASSUME ChainInv, NEW l \in Loops, Continue(l)
    PROVE  Good
<1> DEFINE s == Continued(loop[l])
<1>1. loop[l] \in States
  BY DEF ChainInv, Typed
<1>2. /\ s \in States /\ s.pc = "iteration" /\ s.pending = FALSE
      /\ s.explicit = loop[l].explicit /\ s.target = loop[l].target
  <2>1. s = [loop[l] EXCEPT !.pc = "iteration", !.iter = loop[l].iter + 1,
                            !.codename = None, !.pending = FALSE]
    BY <1>1 DEF Continued
  <2>2. loop[l].iter + 1 \in Nat
    BY <1>1 DEF States
  <2>3. QED
    BY <1>1, <2>1, <2>2, Basics DEF States, Pcs
<1>3. loop' = [loop EXCEPT ![l] = s]
  BY DEF Continue
<1> HIDE DEF s
<1>4. QED
  BY <1>2, <1>3, RestIsGood DEF Continue

LEMMA CooldownIsGood ==
    ASSUME ChainInv, CooldownEnds
    PROVE  Good
<1>1. Main \in Loops /\ loop \in [Loops -> States] /\ opts \in Options
  BY Basics DEF ChainInv, Typed
<1>2. opts' \in Options /\ opts'.rounds = opts.rounds
  BY <1>1 DEF CooldownEnds, Options
<1>3. Calm(Main, loop[Main])
  BY <1>1, <1>2 DEF Calm, CooldownEnds, ChainInv, Typed
<1>4. QED
  BY <1>1, <1>3, CalmIsGood

LEMMA StutterIsGood ==
    ASSUME ChainInv, UNCHANGED vars
    PROVE  Good
<1>1. Main \in Loops /\ loop \in [Loops -> States] /\ opts \in Options
  BY Basics DEF ChainInv, Typed
<1>2. Calm(Main, loop[Main])
  BY <1>1 DEF Calm, vars, ChainInv, Typed
<1>3. QED
  BY <1>1, <1>2, CalmIsGood

-----------------------------------------------------------------------------
(***************************************************************************)
(* The hop: Fallback and Retry.                                            *)
(***************************************************************************)

LEMMA RetryIsGood ==
    ASSUME ChainInv, NEW l \in Loops, Retry(l)
    PROVE  Good
<1> DEFINE s == [loop[l] EXCEPT !.pc = "request",
                                !.route = Route(loop[l].codename)]
<1>1. /\ loop[l] \in States /\ opts \in Options /\ app \in Models
      /\ loop[l].pc = "moving" /\ loop \in [Loops -> States]
  BY DEF ChainInv, Typed, Retry, At
<1>2. loop' = [loop EXCEPT ![l] = s]
  BY <1>1 DEF Retry
<1>3. Route(loop[l].codename) \in Tiers
  BY <1>1, Basics DEF Route, States
<1>4. /\ s \in States /\ s.pc = "request" /\ s.explicit = loop[l].explicit
      /\ s.target = loop[l].target /\ s.codename = loop[l].codename
      /\ s.route = Route(loop[l].codename)
  BY <1>1, <1>3 DEF States, Pcs
<1> HIDE DEF s
<1>5. OnChain(s)
  BY <1>1, <1>4 DEF ChainInv, OnChain, Route
<1>6. Calm(l, s)
  <2>1. opts' \in Options /\ opts'.rounds = opts.rounds
    <3>1. loop[l].model \in Models
      BY <1>1, Basics DEF ChainInv, OnChain, States
    <3>2. QED
      BY <1>1, <3>1 DEF Retry, Options
  <2>2. QED
    BY <1>1, <1>2, <1>4, <1>5, <2>1 DEF Calm, Retry
<1>7. ASSUME loop[l].explicit = None
      PROVE  /\ s.route > loop[l].route
             /\ bindings[s.route] \notin {Env, bindings[loop[l].route]}
  <2>1. /\ loop[l].codename # None
        /\ loop[l].codename = NextTier(loop[l].route)
        /\ loop[l].route \in Tiers
    BY <1>1, <1>7 DEF ChainInv, OnChain, States
  <2>2. s.route = NextTier(loop[l].route)
    BY <1>4, <2>1 DEF Route
  <2>3. QED
    BY <2>1, <2>2, NextTierIsElsewhere DEF ChainInv
<1>8. ASSUME NEW k \in Loops PROVE Hopped(k)
  <2>1. CASE k = l
    BY <1>1, <1>2, <1>7, <2>1 DEF Hopped, Retry
  <2>2. CASE k # l
    BY <1>1, <1>2, <2>2 DEF Hopped, At
  <2>3. QED
    BY <2>1, <2>2
<1>9. QED
  BY <1>6, <1>8, CalmKeeps DEF Good

LEMMA FallbackIsGood ==
    ASSUME ChainInv, NEW l \in Loops, NEW balance \in BOOLEAN,
           Fallback(l, balance)
    PROVE  Good
<1> DEFINE to == loop[l].target
           after == [opts EXCEPT
                       !.cooling = TRUE,
                       !.rounds = IF @ < RoundLimit THEN @ + 1 ELSE @,
                       !.sticky = @ \/ balance,
                       !.home = IF balance THEN to ELSE @,
                       !.current = IF to \in Tiers THEN to ELSE @]
           c == IF to \in Tiers THEN to ELSE loop[l].codename
           next == Target(c, loop[l].explicit, after)
           s == [loop[l] EXCEPT !.pc = "moving", !.model = to,
                                !.codename = c, !.target = next]
<1>1. /\ loop[l] \in States /\ opts \in Options /\ app \in Models
      /\ loop \in [Loops -> States]
      /\ loop[l].pc = "request" /\ to # None
  BY DEF ChainInv, Typed, Fallback, At
<1>2. /\ opts' = after /\ loop' = [loop EXCEPT ![l] = s]
      /\ app' \in {to, app} /\ UNCHANGED <<bindings, queries>>
  BY DEF Fallback
<1>3. to \in Models /\ c \in MaybeTier
  BY <1>1, Basics DEF States
<1>4. /\ after \in Options
      /\ after.rounds \in {opts.rounds, opts.rounds + 1}
  <2>1. opts.rounds \in Nat /\ opts.rounds <= RoundLimit /\ RoundLimit \in Nat
    BY <1>1, TierAssumption DEF Options, Rounds
  <2>2. (IF opts.rounds < RoundLimit THEN opts.rounds + 1 ELSE opts.rounds)
           \in Rounds \cap {opts.rounds, opts.rounds + 1}
    BY <2>1 DEF Rounds
  <2>3. QED
    BY <1>1, <1>3, <2>2, Basics DEF Options
<1>5. /\ next \in MaybeModel
      /\ loop[l].explicit = None /\ next # None =>
            /\ after.rounds < MAX_TIER_FALLBACKS
            /\ c # None /\ next = NextTier(c)
  <2> HIDE DEF after, c
  <2>1. loop[l].explicit \in MaybeModel
    BY <1>1 DEF States
  <2>2. QED
    BY <1>3, <1>4, <2>1, TargetType
<1>6. loop[l].explicit = None =>
         /\ to \in Tiers /\ c = to /\ c # None
         /\ c = NextTier(loop[l].route)
  <2>1. loop[l].explicit = None =>
           /\ loop[l].codename # None /\ loop[l].codename \in MaybeTier
           /\ to = NextTier(loop[l].codename)
           /\ loop[l].route = loop[l].codename
    BY <1>1 DEF ChainInv, OnChain, States
  <2>2. QED
    BY <1>1, <2>1, NextTierIsAHop, Basics
<1> HIDE DEF to, after, c, next
<1>7. /\ s \in States /\ s.pc = "moving" /\ s.explicit = loop[l].explicit
      /\ s.model = to /\ s.target = next /\ s.codename = c
      /\ s.route = loop[l].route
  BY <1>1, <1>3, <1>5, Basics DEF States, Pcs
<1> HIDE DEF s
<1>8. OnChain(s)
  BY <1>1, <1>5, <1>6, <1>7 DEF OnChain
<1>9. /\ loop' \in [Loops -> States] /\ loop'[l] = s
      /\ \A k \in Loops \ {l} : loop'[k] = loop[k]
  BY <1>1, <1>2, <1>7
<1>10. Typed'
  BY <1>1, <1>2, <1>3, <1>4, <1>9 DEF ChainInv, Typed
<1>11. ASSUME NEW k \in Loops PROVE OnChain(loop[k])'
  <2>1. \A t \in MaybeTier : NextTier(t)' = NextTier(t)
    BY <1>2, BindingsFixed
  <2>2. OnChain(loop'[k]) /\ loop'[k] \in States
    BY <1>8, <1>9 DEF ChainInv
  <2>3. loop'[k].codename \in MaybeTier /\ loop'[k].route \in MaybeTier
    BY <2>2, Basics DEF States
  <2>4. QED
    BY <2>1, <2>2, <2>3 DEF OnChain
<1>12. \A k \in Loops : loop'[k].explicit = loop[k].explicit
  BY <1>7, <1>9
<1>13. Counted'
  <2>1. SUFFICES ASSUME loop'[Main].explicit = None,
                        ~(opts'.rounds < MAX_TIER_FALLBACKS)
                 PROVE  opts'.rounds + Cardinality(Waiting')
                           < MAX_TIER_FALLBACKS + Cardinality(Loops)
    BY DEF Counted
  <2>2. loop[l].explicit = None /\ loop[Main].explicit = None
    BY <1>12, <2>1, Basics DEF ChainInv, Loops
  <2>3. s.target = None
    BY <1>2, <1>5, <1>7, <2>1, <2>2
  <2>4. Waiting' = Waiting \ {l} /\ l \in Waiting /\ Waiting \subseteq Loops
    BY <1>1, <1>9, <2>3 DEF Waiting, to
  <2>5. /\ Cardinality(Waiting') = Cardinality(Waiting) - 1
        /\ Cardinality(Waiting) \in Nat /\ Cardinality(Loops) \in Nat
        /\ Cardinality(Waiting) <= Cardinality(Loops)
    BY <2>4, LoopsAreFinite, FS_RemoveElement
  <2>6. /\ opts.rounds \in Nat /\ MAX_TIER_FALLBACKS \in Nat
        /\ opts'.rounds \in {opts.rounds, opts.rounds + 1}
    BY <1>1, <1>2, <1>4, TierAssumption DEF Options, Rounds
  <2>7. \/ opts.rounds < MAX_TIER_FALLBACKS
        \/ opts.rounds + Cardinality(Waiting)
              < MAX_TIER_FALLBACKS + Cardinality(Loops)
    BY <2>2 DEF ChainInv, Counted
  <2>8. QED
    BY <2>1, <2>5, <2>6, <2>7
<1>14. \A k \in Loops : Hopped(k)
  BY <1>7, <1>9 DEF Hopped, At
<1>15. QED
  BY <1>10, <1>11, <1>12, <1>13, <1>14, Basics DEF Good, ChainInv

-----------------------------------------------------------------------------
LEMMA QueryIsGood ==
    ASSUME ChainInv, BeginQuery
    PROVE  Good
<1>1. PICK m \in Models : app' = m /\ opts' = Entered(NewOptions(m))
  BY DEF BeginQuery
<1>2. opts' \in Options /\ opts'.rounds = 0
  BY <1>1, NewOptionsType, EnteredType
<1>3. PICK e \in Explicits :
          loop' = [l \in Loops |-> IF l = Main THEN Entry(opts', "main", e)
                                               ELSE Idle]
  BY DEF BeginQuery
<1>4. e \in MaybeModel /\ "main" \in Kinds
  BY TierAssumption DEF MaybeModel, Kinds
<1> DEFINE s == Entry(opts', "main", e)
<1>5. /\ s \in States /\ s.pc = "iteration" /\ ~s.pending
  BY <1>2, <1>4, EntryType DEF Entry, Idle
<1>6. /\ Idle \in States /\ Idle.pc = "idle" /\ Idle.explicit = None
  BY Basics DEF Idle, States, Pcs, Kinds
<1> HIDE DEF s
<1>7. Typed'
  <2>1. loop' \in [Loops -> States]
    BY <1>3, <1>5, <1>6 DEF s
  <2>2. queries' \in 0 .. MaxQueries
    BY TierAssumption DEF BeginQuery, ChainInv, Typed
  <2>3. QED
    BY <1>1, <1>2, <2>1, <2>2 DEF BeginQuery, ChainInv, Typed
<1>8. ASSUME NEW k \in Loops
      PROVE  /\ loop'[k].pc \in {"iteration", "idle"}
             /\ loop'[k].pc = "iteration" => ~loop'[k].pending
             /\ k \in Forks => loop'[k].explicit = None
  BY <1>3, <1>5, <1>6, TierAssumption DEF s
<1>9. \A k \in Loops : OnChain(loop[k])' /\ Hopped(k)
  BY <1>8 DEF OnChain, Hopped
<1>10. Counted'
  BY <1>2, TierAssumption DEF Counted
<1>11. QED
  BY <1>7, <1>8, <1>9, <1>10, Basics DEF Good, ChainInv

LEMMA ChainStarts == Init => ChainInv
<1> SUFFICES ASSUME Init PROVE ChainInv
  OBVIOUS
<1>1. /\ Idle \in States /\ Idle.pc = "idle" /\ Idle.explicit = None
  BY Basics DEF Idle, States, Pcs, Kinds
<1>2. Typed
  BY <1>1, NewOptionsType, TierAssumption DEF Init, Typed
<1>3. /\ \A l \in Loops : loop[l].pc = "idle" /\ loop[l].explicit = None
  BY <1>1 DEF Init
<1>4. Counted
  BY NewOptionsType, TierAssumption DEF Init, Counted
<1>5. QED
  BY <1>2, <1>3, <1>4, Basics DEF ChainInv, OnChain

LEMMA ChainSteps == ChainInv /\ [Next]_vars => Good
<1> SUFFICES ASSUME ChainInv, [Next]_vars PROVE Good
  OBVIOUS
<1>1. CASE BeginQuery
  BY <1>1, QueryIsGood
<1>2. ASSUME NEW f \in Forks, Fork(f) \/ Enter(f) PROVE Good
  BY <1>2, ForkIsGood, EnterIsGood
<1>3. ASSUME NEW l \in Loops, Send(l) \/ Continue(l) \/ End(l) PROVE Good
  BY <1>3, SendIsGood, ContinueIsGood, EndIsGood
<1>4. ASSUME NEW l \in Loops, Attempt(l) PROVE Good
  BY <1>4, FallbackIsGood, RetryIsGood, AnswerIsGood, EndIsGood DEF Attempt
<1>5. CASE StopHooks \/ CooldownEnds \/ UNCHANGED vars
  BY <1>5, StopHooksIsGood, CooldownIsGood, StutterIsGood
<1>6. QED
  BY <1>1, <1>2, <1>3, <1>4, <1>5 DEF Next

-----------------------------------------------------------------------------
\* The types of the variables.
THEOREM TypeCorrect == Spec => []TypeOK
<1>1. ChainInv /\ [Next]_vars => ChainInv'
  BY ChainSteps DEF Good
<1>2. ChainInv => TypeOK
  BY TypedIsTypeOK DEF ChainInv
<1>3. QED
  BY <1>1, <1>2, ChainStarts, PTL DEF Spec

\* The rounds pass their cap by less than one for each loop.
THEOREM RoundsStayBounded == Spec => []RoundsBounded
<1>1. ChainInv /\ [Next]_vars => ChainInv'
  BY ChainSteps DEF Good
<1>2. ChainInv => RoundsBounded
  <2>1. SUFFICES ASSUME ChainInv, loop[Main].explicit = None
                 PROVE  opts.rounds < MAX_TIER_FALLBACKS + Cardinality(Loops)
    BY DEF RoundsBounded
  <2>2. /\ Waiting \subseteq Loops /\ opts.rounds \in Nat
        /\ MAX_TIER_FALLBACKS \in Nat
    BY <2>1, TierAssumption DEF Waiting, ChainInv, Typed, Options, Rounds
  <2>3. /\ Cardinality(Waiting) \in Nat
        /\ Cardinality(Loops) \in Nat \ {0}
    BY <2>2, LoopsAreFinite
  <2>4. QED
    BY <2>1, <2>2, <2>3 DEF ChainInv, Counted
<1>3. QED
  BY <1>1, <1>2, ChainStarts, PTL DEF Spec

\* Without --fallback-model a hop goes to a lower tier, that is bound, and to
\* another provider than the one that failed, though only neighbours are
\* compared on the way.
THEOREM EveryHopIsReal == Spec => HopsAreReal
<1>1. ChainInv /\ [Next]_vars => ChainInv'
  BY ChainSteps DEF Good
<1>2. ChainInv /\ [Next]_vars =>
         [\A l \in Loops :
            (At(l, "moving") /\ loop'[l].pc = "request"
             /\ loop[l].explicit = None)
            => /\ loop'[l].route > loop[l].route
               /\ bindings[loop'[l].route]
                     \notin {Env, bindings[loop[l].route]}]_vars
  BY ChainSteps DEF Good, Hopped
<1>3. QED
  BY <1>1, <1>2, ChainStarts, PTL DEF Spec, HopsAreReal
=============================================================================
