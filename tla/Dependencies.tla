---------------------------- MODULE Dependencies ----------------------------
(***************************************************************************)
(* The dependency graph and what overrides do to it: which calls FastAPI   *)
(* makes for a dependency, and which cached values _cache.py declares      *)
(* unusable under the overrides pushed since they were cached.             *)
(***************************************************************************)
EXTENDS Naturals, Sequences, FiniteSets, SequencesExt

CONSTANTS
    Calls,      \* dependency callables and the callables that replace them
    Deps        \* Deps[c]: the Depends() parameters of c, in order; no cycles

ASSUME DependenciesAssumption ==
    /\ Deps \in [Calls -> Seq(Calls)]
    /\ \A S \in SUBSET Calls : S # {} => \E c \in S : Range(Deps[c]) \cap S = {}

\* The calls that c depends on, c itself included.
Reach[c \in Calls] == {c} \cup UNION {Reach[d] : d \in Range(Deps[c])}

\* What an override block carries: a replacement for some of the calls.
OverrideMaps == UNION {[S -> Calls] : S \in SUBSET Calls}

\* The values of new, and those of f for what new has not.
Overlay(new, f) == [k \in DOMAIN new \cup DOMAIN f |-> IF k \in DOMAIN new THEN new[k] ELSE f[k]]

-----------------------------------------------------------------------------
\* fastapi.dependencies.utils.solve_dependencies (external); eff[c] is the call made
\* in place of c

\* It solves the parameters of the replacement first, then makes the call; a dependency
\* that occurs twice is visited twice.
SolveOrder(eff, root) ==
    LET order[c \in Calls] ==
            LET params == Deps[eff[c]]
            IN  Append(FlattenSeq([i \in 1..Len(params) |-> order[params[i]]]), c)
    IN  order[root]

\* The calls that a value of c is made of, when everything is built from nothing.
Fresh(eff, root) ==
    LET made[c \in Calls] == {eff[c]} \cup UNION {made[d] : d \in Range(Deps[eff[c]])}
    IN  made[root]

-----------------------------------------------------------------------------
\* _cache.py

\* Bug: only the overridden calls themselves, not what is built from them.
OverriddenCallsShallow(root, overrides) == Reach[root] \cap overrides

\* overridden_calls(): the calls under root that are overridden or depend on one that
\* is.  The walk follows the parameters as declared, whatever replaces a call.
OverriddenCalls(root, overrides) ==
    {c \in Reach[root] : Reach[c] \cap overrides # {}}
=============================================================================
