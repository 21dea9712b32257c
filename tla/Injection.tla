----------------------------- MODULE Injection -----------------------------
(***************************************************************************)
(* Injection contexts, override blocks and resolution: ctx.py, deps.py,    *)
(* resolve.py, inject.py, overrides.py and _cache.py at work in several    *)
(* asyncio tasks.                                                          *)
(*                                                                         *)
(* A task is a stack of frames: the contexts it has entered and the        *)
(* resolutions it is inside of.  Between two frames, and in the body of a  *)
(* factory or of a generator's teardown, user code runs and may do         *)
(* anything the API offers.  The contexts' lock is the one FamilyMutex     *)
(* specifies and RLock implements.                                         *)
(*                                                                         *)
(* A context identifier is free again when its block ends.                 *)
(***************************************************************************)
EXTENDS Dependencies

CONSTANTS
    Tasks,      \* asyncio tasks
    Ctxs,       \* identifiers of InjectionContext objects: how many exist at once
    NoCtx,      \* no context, no task
    Roots,      \* what application code resolves
    Within,     \* Within[c]: what the body or the teardown of c resolves by hand
    Generators, \* calls that are torn down with their context
    Overrides,  \* the override maps that application code uses
    FanOut,     \* may a factory spawn tasks that resolve?
    MaxOpen,    \* bound: no override block is opened when so many generators are open
    MaxDepth    \* how deep stacks of frames are that Fairness is about

ASSUME InjectionAssumption ==
    /\ NoCtx \notin Ctxs \cup Tasks
    /\ Roots \subseteq Calls
    /\ Within \in [Calls -> SUBSET Calls]
    /\ Generators \subseteq Calls
    /\ Overrides \subseteq OverrideMaps
    /\ FanOut \in BOOLEAN
    /\ MaxOpen \in Nat /\ MaxDepth \in Nat

\* No replacement depends on what it replaces, however override blocks are nested: FastAPI
\* would solve it forever.
ASSUME OverridesAssumption ==
    \A eff \in [Calls -> Calls] :
        (\A k \in Calls : eff[k] = k \/ \E o \in Overrides : k \in DOMAIN o /\ eff[k] = o[k])
        => \A S \in SUBSET Calls : S # {} => \E k \in S : Range(Deps[eff[k]]) \cap S = {}

VARIABLES
    alive,      \* tasks that run
    frames,     \* frames[t]: what t is inside of, innermost last
    base,       \* base[t]: _injection_ctx in the context t was created with
    parent,     \* parent[t]: [task, at], who waits for t, and in which frame
    ctxs,       \* ctxs[c]: the InjectionContext, as far as it never changes
    cache,      \* cache[c]: dependency_cache
    stack,      \* stack[c]: the generators on the AsyncExitStack of c's request
    family,     \* family[c], nest[c]: the lock of c, see FamilyMutex
    nest

tasks == <<alive, frames, base, parent>>
vars == <<tasks, ctxs, cache, stack, family, nest>>

Nothing == [x \in {} |-> x]      \* the empty dict
NoParent == [task |-> NoCtx, at |-> 0]
Unused == [own |-> Nothing, chain |-> <<>>, inherits |-> FALSE, scope |-> NoCtx, bound |-> FALSE]

Init ==
    /\ alive = {}
    /\ frames = [t \in Tasks |-> <<>>]
    /\ base = [t \in Tasks |-> NoCtx]
    /\ parent = [t \in Tasks |-> NoParent]
    /\ ctxs = [c \in Ctxs |-> Unused]
    /\ cache = [c \in Ctxs |-> Nothing]
    /\ stack = [c \in Ctxs |-> <<>>]
    /\ family = [c \in Ctxs |-> [t \in Tasks |-> t]]
    /\ nest = [c \in Ctxs |-> [t \in Tasks |-> 0]]

-----------------------------------------------------------------------------
\* Frames

\* body: does user code run in the context, or only the resolution it was opened for?
CtxFrame(c, body) == [kind |-> "ctx", ctx |-> c, body |-> body, closing |-> FALSE]
Resolution(c, root, phase, todo, vals) ==
    [kind |-> "resolve", ctx |-> c, root |-> root, phase |-> phase, todo |-> todo, vals |-> vals]
ResolveFrame(c, root) == Resolution(c, root, "lock", <<>>, Nothing)

Top(t) == Last(frames[t])
SetTop(t, f) == frames' = [frames EXCEPT ![t] = Append(Front(@), f)]
Pop(t) == frames' = [frames EXCEPT ![t] = Front(@)]
OnTop(t, kind) == frames[t] # <<>> /\ Top(t).kind = kind
InPhase(t, phase) == OnTop(t, "resolve") /\ Top(t).phase = phase

\* Where user code runs: application code, the body of a factory, a teardown.
InApp(t) ==
    /\ t \in alive
    /\ frames[t] = <<>> \/ (OnTop(t, "ctx") /\ Top(t).body /\ ~Top(t).closing)
InBody(t) == InPhase(t, "build")
InTeardown(t) == OnTop(t, "ctx") /\ Top(t).closing /\ stack[Top(t).ctx] # <<>>

\* The tasks spawned in the innermost frame of t are done.
Joined(t) == \A u \in alive : parent[u].task = t => parent[u].at < Len(frames[t])

-----------------------------------------------------------------------------
\* InjectionContext

\* Bug: the variable is reset after the exit stack has been unwound.
CurrentUntilClosed(t) ==
    LET entered == {i \in 1..Len(frames[t]) : frames[t][i].kind = "ctx"}
    IN  IF entered = {} THEN base[t] ELSE frames[t][Max(entered)].ctx

\* _injection_ctx.get(): _enter_ctx resets the variable before the context is closed.
Current(t) ==
    LET entered == {i \in 1..Len(frames[t]) : frames[t][i].kind = "ctx" /\ ~frames[t][i].closing}
    IN  IF entered = {} THEN base[t] ELSE frames[t][Max(entered)].ctx

\* dependency_overrides: the innermost context wins.
Effective(c) ==
    LET chain == ctxs[c].chain
        where(k) == {i \in 1..Len(chain) : k \in DOMAIN ctxs[chain[i]].own}
    IN  [k \in Calls |-> IF where(k) = {} THEN k ELSE ctxs[chain[Min(where(k))]].own[k]]

\* Bug: only the parent lends its cache.
InheritedFromParent(c) ==
    {i \in {2} : Len(ctxs[c].chain) >= i /\ ctxs[c].inherits}

\* inherited_cache_ctxs: how many contexts up the chain of c lend it their cache.
Inherited(c) ==
    LET chain == ctxs[c].chain
    IN  {i \in 2..Len(chain) : \A j \in 1..(i - 1) : ctxs[chain[j]].inherits}

\* Bug: only the overrides of the context itself count.
IntroducedByOwn(c, i) == DOMAIN ctxs[c].own

\* The calls overridden in the contexts inside of the i-th of the chain.
Introduced(c, i) == UNION {DOMAIN ctxs[ctxs[c].chain[j]].own : j \in 1..(i - 1)}

\* cache_for() and ContextCache.__getitem__: which contexts of the chain of c have a usable
\* value of k in a resolution of root, the caches being as given.
Usable(caches, c, root, k) ==
    LET chain == ctxs[c].chain
    IN  {i \in {1} \cup Inherited(c) :
            /\ k \in DOMAIN caches[chain[i]]
            /\ i > 1 => k \notin OverriddenCalls(root, Introduced(c, i))}

Lookup(caches, c, root, k) == caches[ctxs[c].chain[Min(Usable(caches, c, root, k))]][k]

-----------------------------------------------------------------------------
\* Entering contexts

HasFreeCtx == \E c \in Ctxs : ctxs[c] = Unused
FreeCtx == CHOOSE c \in Ctxs : ctxs[c] = Unused
Chain(c) == IF c = NoCtx THEN <<>> ELSE ctxs[c].chain

\* injection_ctx(): a lock, a cache and an exit stack of its own; the contexts around it
\* matter for their overrides only.
OwnCtx(c, outer, o) ==
    [own |-> o, chain |-> <<c>> \o Chain(outer), inherits |-> FALSE, scope |-> c, bound |-> TRUE]

\* Bug: an override block with a lock of its own.
OverrideCtxRelocked(c, outer, o) ==
    [own |-> o, chain |-> <<c>> \o Chain(outer), inherits |-> TRUE, scope |-> c,
     bound |-> outer # NoCtx /\ ctxs[outer].bound]

\* InjectionContext.override(): a copy of the context with an empty cache in front of its
\* cache, the same request (and exit stack) and the same lock.  push_overrides() outside
\* of every context overrides a new one that has no request.
OverrideCtx(c, outer, o) ==
    [own |-> o, chain |-> <<c>> \o Chain(outer), inherits |-> TRUE,
     scope |-> IF outer = NoCtx THEN c ELSE ctxs[outer].scope,
     bound |-> outer # NoCtx /\ ctxs[outer].bound]

\* `async with injection_ctx(o)`.
OpenCtx(t, o) ==
    /\ InApp(t)
    /\ HasFreeCtx
    /\ ctxs' = [ctxs EXCEPT ![FreeCtx] = OwnCtx(FreeCtx, Current(t), o)]
    /\ frames' = [frames EXCEPT ![t] = Append(@, CtxFrame(FreeCtx, TRUE))]
    /\ UNCHANGED <<alive, base, parent, cache, stack, family, nest>>

\* `with push_overrides(o)`.  What a block opens stays open when it ends: MaxOpen keeps
\* a context in which block follows block within bounds.
PushOverrides(t, o) ==
    /\ InApp(t)
    /\ HasFreeCtx
    /\ Current(t) # NoCtx => Len(stack[ctxs[Current(t)].scope]) < MaxOpen
    /\ ctxs' = [ctxs EXCEPT ![FreeCtx] = OverrideCtx(FreeCtx, Current(t), o)]
    /\ frames' = [frames EXCEPT ![t] = Append(@, CtxFrame(FreeCtx, TRUE))]
    /\ UNCHANGED <<alive, base, parent, cache, stack, family, nest>>

\* What a task was spawned to resolve: in a factory, what the factory resolves by hand;
\* in application code, whatever that may resolve.
Errand[t \in Tasks] ==
    LET p == parent[t]
    IN  CASE p.task = NoCtx -> Roots
          [] p.at > 0 /\ frames[p.task][p.at].kind = "resolve" ->
                LET f == frames[p.task][p.at] IN Within[Effective(f.ctx)[Head(f.todo)]]
          [] OTHER -> Errand[p.task]

\* What the user code that runs in t may resolve.
Resolvable(t) ==
    CASE InApp(t) -> Errand[t]
      [] InBody(t) -> Within[Effective(Top(t).ctx)[Head(Top(t).todo)]]
      [] InTeardown(t) -> Within[Last(stack[Top(t).ctx])]
      [] OTHER -> {}

\* ensure_injection_ctx(): is there no context, or none with a request, or is a new one
\* asked for?
NeedsOwnCtx(c, new) == c = NoCtx \/ new \/ ~ctxs[c].bound

Ensure(t, root, new, body) ==
    LET c == Current(t)
    IN  /\ root \in Resolvable(t)
        /\ IF NeedsOwnCtx(c, new)
           THEN /\ HasFreeCtx
                /\ ctxs' = [ctxs EXCEPT ![FreeCtx] = OwnCtx(FreeCtx, c, Nothing)]
                /\ frames' = [frames EXCEPT ![t] =
                        @ \o <<CtxFrame(FreeCtx, body), ResolveFrame(FreeCtx, root)>>]
           ELSE /\ frames' = [frames EXCEPT ![t] = Append(@, ResolveFrame(c, root))]
                /\ UNCHANGED ctxs
        /\ UNCHANGED <<alive, base, parent, cache, stack, family, nest>>

\* resolve(root, new_ctx=new): a context opened for it ends with it.
CallResolve(t, root, new) == Ensure(t, root, new, FALSE)

\* A function under inject(new_ctx=new) that depends on root: its body runs in the context.
CallInjected(t, root, new) == Ensure(t, root, new, TRUE)

-----------------------------------------------------------------------------
\* solve_arguments() and solve_dependencies()

Scope(t) == ctxs[Top(t).ctx].scope

\* Bug: no lock at all.
MayEnterAlways(s, t) == TRUE

\* Bug: a plain lock, that keeps its own holder out.
MayEnterOnce(s, t) == \A u \in Tasks : nest[s][u] = 0

MayEnter(s, t) == \A u \in Tasks : nest[s][u] > 0 => family[s][u] = family[s][t]

\* What a resolution does without being suspended: it takes the usable values from the
\* caches up to the next call that has none, and makes that call.
Settle(c, root, todo, vals, caches) ==
    LET misses == {i \in 1..Len(todo) : Usable(caches, c, root, todo[i]) = {}}
        hits == IF misses = {} THEN Len(todo) ELSE Min(misses) - 1
        found == {todo[i] : i \in 1..hits}
    IN  Resolution(c, root, IF misses = {} THEN "done" ELSE "build",
                   SubSeq(todo, hits + 1, Len(todo)),
                   Overlay([k \in found |-> Lookup(caches, c, root, k)], vals))

\* `async with ctx.lock`; the overrides are read inside.
EnterLock(t) ==
    LET c == Top(t).ctx
        order == SolveOrder(Effective(c), Top(t).root)
    IN  /\ InPhase(t, "lock")
        /\ MayEnter(Scope(t), t)
        /\ nest' = [nest EXCEPT ![Scope(t)][t] = @ + 1]
        /\ SetTop(t, Settle(c, Top(t).root, order, Nothing, cache))
        /\ UNCHANGED <<alive, base, parent, ctxs, cache, stack, family>>

\* The value of the call: what it is made of, and the generators it is built on, by
\* their places on the exit stack.
Built(t) ==
    LET f == Top(t)
        call == Effective(f.ctx)[Head(f.todo)]
        args == {f.vals[d] : d \in Range(Deps[call])}
        place == Len(stack[Scope(t)]) + 1
    IN  [made |-> {call} \cup UNION {v.made : v \in args},
         gens |-> (IF call \in Generators THEN {place} ELSE {}) \cup UNION {v.gens : v \in args}]

\* The body of the factory is done: a generator goes on the exit stack, and the value
\* into the context's cache unless one is visible by now.
Build(t) ==
    LET f == Top(t)
        k == Head(f.todo)
        call == Effective(f.ctx)[k]
        new == [d \in {k} |-> Built(t)]
        filled == IF Usable(cache, f.ctx, f.root, k) = {}
                  THEN [cache EXCEPT ![f.ctx] = Overlay(new, @)] ELSE cache
    IN  /\ InPhase(t, "build")
        /\ Joined(t)
        /\ stack' = IF call \in Generators
                    THEN [stack EXCEPT ![Scope(t)] = Append(@, call)] ELSE stack
        /\ cache' = filled
        /\ SetTop(t, Settle(f.ctx, f.root, Tail(f.todo), Overlay(new, f.vals), filled))
        /\ UNCHANGED <<alive, base, parent, ctxs, family, nest>>

\* The lock is left and the value returned.
Return(t) ==
    /\ InPhase(t, "done")
    /\ nest' = [nest EXCEPT ![Scope(t)][t] = @ - 1]
    /\ Pop(t)
    /\ UNCHANGED <<alive, base, parent, ctxs, cache, stack, family>>

\* Bug: a failure leaves the lock taken.
FailLocked(t) ==
    /\ InPhase(t, "build")
    /\ Joined(t)
    /\ Pop(t)
    /\ UNCHANGED <<alive, base, parent, ctxs, cache, stack, family, nest>>

\* The factory raises or is cancelled: the lock is left, what was cached before stays.
Fail(t) ==
    /\ InPhase(t, "build")
    /\ Joined(t)
    /\ nest' = [nest EXCEPT ![Scope(t)][t] = @ - 1]
    /\ Pop(t)
    /\ UNCHANGED <<alive, base, parent, ctxs, cache, stack, family>>

\* Bug: a cancelled wait gives back a lock it never got.
AbandonReleases(t) ==
    /\ InPhase(t, "lock")
    /\ nest' = [nest EXCEPT ![Scope(t)][t] = @ - 1]
    /\ Pop(t)
    /\ UNCHANGED <<alive, base, parent, ctxs, cache, stack, family>>

\* The wait for the lock is cancelled.
Abandon(t) ==
    /\ InPhase(t, "lock")
    /\ Pop(t)
    /\ UNCHANGED <<alive, base, parent, ctxs, cache, stack, family, nest>>

-----------------------------------------------------------------------------
\* Leaving contexts

Forget(c) ==
    /\ ctxs' = [ctxs EXCEPT ![c] = Unused]
    /\ cache' = [cache EXCEPT ![c] = Nothing]

\* The end of an override block.
LeaveOverrides(t) ==
    LET c == Top(t).ctx
    IN  /\ OnTop(t, "ctx")
        /\ ctxs[c].inherits
        /\ Joined(t)
        /\ Pop(t)
        /\ Forget(c)
        /\ UNCHANGED <<alive, base, parent, stack, family, nest>>

\* The end of an injection_ctx() block: first _injection_ctx.reset() ...
LeaveCtx(t) ==
    /\ OnTop(t, "ctx") /\ ~Top(t).closing
    /\ ~ctxs[Top(t).ctx].inherits
    /\ Joined(t)
    /\ SetTop(t, [Top(t) EXCEPT !.closing = TRUE])
    /\ UNCHANGED <<alive, base, parent, ctxs, cache, stack, family, nest>>

\* ... then the exit stack is unwound, one teardown after the other ...
Teardown(t) ==
    LET c == Top(t).ctx
    IN  /\ InTeardown(t)
        /\ stack' = [stack EXCEPT ![c] = Front(@)]
        /\ UNCHANGED <<tasks, ctxs, cache, family, nest>>

\* ... and the context is gone.
Closed(t) ==
    LET c == Top(t).ctx
    IN  /\ OnTop(t, "ctx") /\ Top(t).closing
        /\ stack[c] = <<>>
        /\ Pop(t)
        /\ Forget(c)
        /\ UNCHANGED <<alive, base, parent, stack, family, nest>>

-----------------------------------------------------------------------------
\* Tasks

\* The task of a request: no context yet.  Tasks of different requests share nothing, so
\* one is enough.
Start(t) ==
    /\ alive = {}
    /\ alive' = alive \cup {t}
    /\ UNCHANGED <<frames, base, parent, ctxs, cache, stack, family, nest>>

\* RLock: is the lock of s held by the context of t?
Owns(s, t) == \E u \in Tasks : nest[s][u] > 0 /\ family[s][u] = family[s][t]

\* asyncio.create_task(): the context variables are copied.  t waits for u before it
\* leaves the frame it is in (gather(), TaskGroup).
Spawn(t, u) ==
    /\ InApp(t) \/ (FanOut /\ InBody(t) /\ Resolvable(t) # {})
    /\ u \notin alive
    /\ alive' = alive \cup {u}
    /\ base' = [base EXCEPT ![u] = Current(t)]
    /\ parent' = [parent EXCEPT ![u] = [task |-> t, at |-> Len(frames[t])]]
    /\ family' = [s \in Ctxs |->
            IF Owns(s, t) THEN [family[s] EXCEPT ![u] = family[s][t]] ELSE family[s]]
    /\ UNCHANGED <<frames, ctxs, cache, stack, nest>>

End(t) ==
    /\ t \in alive
    /\ frames[t] = <<>>
    /\ Joined(t)
    /\ alive' = alive \ {t}
    /\ base' = [base EXCEPT ![t] = NoCtx]
    /\ parent' = [parent EXCEPT ![t] = NoParent]
    /\ family' = [s \in Ctxs |-> [family[s] EXCEPT ![t] = t]]
    /\ UNCHANGED <<frames, ctxs, cache, stack, nest>>

Next ==
    \/ \E t \in Tasks, o \in Overrides : OpenCtx(t, o) \/ PushOverrides(t, o)
    \/ \E t \in Tasks, root \in Calls, new \in BOOLEAN :
          CallResolve(t, root, new) \/ CallInjected(t, root, new)
    \/ \E t \in Tasks : EnterLock(t) \/ Build(t) \/ Return(t)
    \/ \E t \in Tasks : Fail(t) \/ Abandon(t)
    \/ \E t \in Tasks : LeaveOverrides(t) \/ LeaveCtx(t) \/ Teardown(t) \/ Closed(t)
    \/ \E t, u \in Tasks : Spawn(t, u)
    \/ \E t \in Tasks : Start(t) \/ End(t)

\* What is on top of the frames of t moves on.
MovesOn(t) ==
    \/ EnterLock(t) \/ Build(t) \/ Return(t)
    \/ LeaveOverrides(t) \/ LeaveCtx(t) \/ Teardown(t) \/ Closed(t)

\* The event loop resumes what can run, the lock is fair (RLock!WaiterServed), and user
\* code ends: in every frame it gets to the point where the frame moves on, whatever it
\* resolves or fails to resolve on the way.
Fairness ==
    \A t \in Tasks :
        /\ \A n \in 1..MaxDepth : SF_vars(Len(frames[t]) = n /\ MovesOn(t))
        /\ SF_vars(End(t))

Spec == Init /\ [][Next]_vars
FairSpec == Spec /\ Fairness

-----------------------------------------------------------------------------
\* Properties

Value == [made : SUBSET Calls, gens : SUBSET Nat]
PartialMap(S, T) == UNION {[D -> T] : D \in SUBSET S}

TypeOK ==
    /\ alive \subseteq Tasks
    /\ base \in [Tasks -> Ctxs \cup {NoCtx}]
    /\ parent \in [Tasks -> [task : Tasks \cup {NoCtx}, at : Nat]]
    /\ \A c \in Ctxs :
          /\ DOMAIN ctxs[c].own \subseteq Calls
          /\ ctxs[c].chain \in Seq(Ctxs)
          /\ ctxs[c].scope \in Ctxs \cup {NoCtx}
          /\ DOMAIN cache[c] \subseteq Calls
          /\ \A k \in DOMAIN cache[c] : cache[c][k].made \subseteq Calls
          /\ stack[c] \in Seq(Generators)
    /\ family \in [Ctxs -> [Tasks -> Tasks]]
    /\ nest \in [Ctxs -> [Tasks -> Nat]]
    /\ \A t \in Tasks : \A i \in 1..Len(frames[t]) :
          /\ frames[t][i].ctx \in Ctxs
          /\ ctxs[frames[t][i].ctx] # Unused

\* The resolutions under way, as <<task, frame>>.
Resolving == UNION {{<<t, i>> : i \in {j \in 1..Len(frames[t]) : frames[t][j].kind = "resolve"}} :
                    t \in Tasks}
Frame(r) == frames[r[1]][r[2]]
Building == {r \in Resolving : Frame(r).phase = "build"}
Key(r) == Head(Frame(r).todo)

\* A context builds a dependency once: nobody starts to build what somebody else builds
\* in the same context, or what is in its cache (README: "stays a single instance";
\* tests/test_concurrency.py).
SingleInstance ==
    /\ \A r, s \in Building : Frame(r).ctx = Frame(s).ctx /\ Key(r) = Key(s) => r = s
    /\ \A r \in Building : Key(r) \notin DOMAIN cache[Frame(r).ctx]

\* The overrides in force in c: those of the inner blocks on top of those of the outer.
InForce(c) ==
    LET chain == ctxs[c].chain
        inside[i \in 0..Len(chain)] ==
            IF i = 0 THEN Nothing ELSE Overlay(inside[i - 1], ctxs[chain[i]].own)
    IN  Overlay(inside[Len(chain)], [k \in Calls |-> k])

\* A resolution hands out only values built as its context's overrides say, wherever
\* they were cached (README: everything "built from" an overridden dependency is
\* resolved again; test_push_overrides_inside_a_used_ctx).
NeverStale ==
    \A r \in Resolving : \A k \in DOMAIN Frame(r).vals :
        Frame(r).vals[k].made = Fresh(InForce(Frame(r).ctx), k)

\* What a context around the override blocks has, and none of them touches, is not built
\* again, not even while that context is at work in another task
\* (test_push_overrides_reuses_what_it_does_not_override).
ReusesOuter ==
    \A r \in Building :
        LET chain == ctxs[Frame(r).ctx].chain
        IN  \A i \in 2..Len(chain) :
                /\ \A j \in 1..(i - 1) : ctxs[chain[j]].inherits
                /\ Key(r) \in DOMAIN cache[chain[i]]
                => \E j \in 1..(i - 1) : Reach[Key(r)] \cap DOMAIN ctxs[chain[j]].own # {}

\* No resolution works with, or can still find, a value whose generator was torn down.
NoUseAfterTeardown ==
    /\ \A r \in Resolving : \A k \in DOMAIN Frame(r).vals :
          Frame(r).vals[k].gens \subseteq 1..Len(stack[ctxs[Frame(r).ctx].scope])
    /\ \A r \in Resolving : \A t \in Tasks : \A i \in 1..Len(frames[t]) :
          frames[t][i].kind = "ctx" /\ frames[t][i].closing
              => ctxs[Frame(r).ctx].scope # frames[t][i].ctx

\* Nothing is torn down while somebody may still build on it: while a context is being
\* closed nobody is inside its lock.
ClosedQuietly ==
    \A t \in Tasks : \A i \in 1..Len(frames[t]) :
        frames[t][i].kind = "ctx" /\ frames[t][i].closing
            => \A u \in Tasks : nest[frames[t][i].ctx][u] = 0

\* t cannot go on before u does.
WaitsFor(t, u) ==
    \/ InPhase(t, "lock") /\ ~MayEnter(Scope(t), t) /\ nest[Scope(t)][u] > 0
    \/ u \in alive /\ parent[u] = [task |-> t, at |-> Len(frames[t])]

\* No group of tasks waits for each other, over locks of nested contexts and over tasks
\* that are waited for (test_nested_resolve_does_not_deadlock).
NoCircularWait ==
    \A group \in (SUBSET Tasks) \ {{}} : \E t \in group : \A u \in group : ~WaitsFor(t, u)

\* The lock is used as its specification allows.
Lock(c) == INSTANCE FamilyMutex WITH family <- family[c], nest <- nest[c]
LocksHonoured ==
    /\ \A c \in Ctxs : Lock(c)!Init
    /\ [][\A c \in Ctxs : [Lock(c)!Next]_(<<family[c], nest[c]>>)]_<<family, nest>>

\* Every resolution ends: no order of locks, failures and nested resolutions blocks it.
ResolutionEnds ==
    \A t \in Tasks : OnTop(t, "resolve") ~> ~(\E i \in 1..Len(frames[t]) : frames[t][i].kind = "resolve")
=============================================================================
