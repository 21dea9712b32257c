---------------------------- MODULE MCInjection ----------------------------
(***************************************************************************)
(* A session (a generator), a repository built on it, and a clock that the *)
(* factory of the repository and the teardown of the session resolve by    *)
(* hand.  The session and the repository have a fake.                      *)
(***************************************************************************)
EXTENDS Injection

CONSTANTS repo, session, clock, fake, fakeClock

\* Tasks are interchangeable; no run that uses this checks liveness.
TaskSymmetry == Permutations(Tasks)

MCDeps == (repo :> <<session>>) @@ [c \in Calls |-> <<>>]
MCWithin == (repo :> {clock}) @@ (session :> {clock}) @@ [c \in Calls |-> {}]
MCOverrides == {Nothing, session :> fake, repo :> fake}

\* A fake with a dependency of its own, overridden in the same block.
MCDepsOfFake == (repo :> <<session>>) @@ (fake :> <<clock>>) @@ [c \in Calls |-> <<>>]
MCOverridesBoth == {Nothing, (repo :> fake) @@ (clock :> fakeClock)}
=============================================================================
