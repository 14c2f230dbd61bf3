----------------------------- MODULE MCTierChain -----------------------------
(***************************************************************************)
(* Instances of TierChain for TLC: three tiers over two providers, bound   *)
(* so that two neighbours share one, the outer two share one, or the       *)
(* middle one has none.                                                    *)
(***************************************************************************)
EXTENDS TierChain, TLC

CONSTANTS relay, direct

MCBindings == {<<relay, relay, direct>>, <<relay, direct, relay>>,
               <<relay, Env, direct>>}

\* No --fallback-model, or the second tier.
MCExplicits == {None, 2}
NoExplicit == {None}

\* For a run of the invariants alone: liveness is not checked under symmetry.
ForkSymmetry == Permutations(Forks)
=============================================================================
