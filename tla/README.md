# A verification of fastapi-injected in TLA+

fastapi-injected lets code that is not a route resolve FastAPI dependencies: in an
injection context, `resolve()` and `@inject` call FastAPI's own solver with a cache, a
request, an exit stack and a set of overrides that the context provides. The hard part is
not the solver but what is around it: which context a task is in, whose cache may be read,
who may build at the same time, and what is torn down when.

These modules model that part, check it with TLC on small instances, and prove with TLAPS, for
every instance, most of what the runs check of the lock, the contexts, the request's body,
the life of a connection and what is made at runtime.

    tlasany M.tla                                       parse
    tlc -workers 2 -config Injection.cfg MCInjection    check one run
    tlapm M.tla                                         check the proofs of M, one of RLockProofs,
                                                        RequestBodyProofs, Recursion, DependenciesProofs,
                                                        InjectionProofs, InjectionSharing,
                                                        RequestLifecycleProofs, RuntimeCallsProofs

## 1. The system

| component | source (`fastapi_injected/`) | state | operations |
|---|---|---|---|
| context lock | `_rlock.py` | an `asyncio.Lock`, a depth, the context variable `_held_locks` | `acquire`, `release`, `async with` |
| injection contexts | `ctx.py` | context variable `_injection_ctx`; per context a cache, a request with an exit stack, a parent, own overrides, a lock | `injection_ctx`, `ensure_injection_ctx`, `override`, `cache_for` |
| context caches | `_cache.py` | the cache of a context in front of those around it | lookup, insertion, `overridden_calls` |
| overrides | `overrides.py`, `_overrides.py` | a map per block; a provider's `dependency_overrides` | `push_overrides`, `override_app`, `normalize_overrides` |
| resolution | `deps.py`, `resolve.py`, `inject.py` | none of its own (a bounded `lru_cache` of dependants) | `resolve`, `inject`, `solve_arguments` |
| request body | `_body.py`, requests of `ctx.py` | one body stream, its bytes, its parsed form | `request_body`, synthetic and rebound requests |
| FastAPI integration | `fastapi.py` | the dependency cache in the connection's scope | middleware, `bind_injection_ctx`, patched `solve_dependencies` |
| call proxies | `_calls.py` | the call behind a proxy until it is released | `CallProxy`, `DetachedOverrides` |
| signatures and binding | `signature.py`, `_bind.py` | none | pure functions on parameter lists |
| reflection | `reflect/` | none; `add_route_dependency` changes a route | walks over routes and dependants, `match_route`, `add_route_dependency` |
| annotations and typing | `_deps_tp.py`, `types.py`, `_dataclass.py`, `_given.py`, `_injected.py`, `ext.py` | none | case distinctions on typing objects |

How they interact. `resolve()` asks `ensure_injection_ctx()` for a context: the current one,
or a new one when there is none, when the caller wants a new one, or when the current one
carries overrides only. It enters the context's lock, reads the body of the context's
request, and calls `solve_dependencies` with a `ContextCache` that reads through to the
contexts around an override block. Factories are user code: they may resolve again (the lock
is reentrant), open contexts, or spawn tasks, which start with a copy of the context
variables - of the current context, and of the ownership of locks. A dependency made
at runtime (a bound function, a marker that carries data) is shown to FastAPI behind a
`CallProxy`, so is what overrides put in its place, and both are released when the resolve
ends. Generators are pushed on
the exit stack in the request's scope, which an override block shares with the context
around it; a context resets the context variable and then unwinds the stack.

What is hard about it:

* **Interleaving.** All state is shared between the tasks of a request: two of them resolve
  in one context, in an override block and the context around it, or in nested contexts.
* **Copied context variables.** A copy of `_held_locks` is made when a task is created and
  is not updated when the lock is released elsewhere.
* **Stale values.** An override block sees the caches around it, except for what its
  overrides touch, directly or through dependencies, in this block or one in between.
* **Cancellation and failure** while a task waits for the lock, has just been woken, or is
  in a factory with the lock held.
* **Process-wide memory.** FastAPI's caches and the `lru_cache` of `deps.py` keep what they are
  shown; what was made for one request must be out of them when its resolves have ended.
* **Two views of one application.** Reflection reads routes and dependants, requests are
  served by routers and handlers built from them.
* **Teardown order.** What a teardown resolves, and who can still find a value that was
  torn down.

What makes each component correct:

* lock: exclusion between families of tasks, a counter that matches the open blocks, no
  error from a regular exit, no lost wake-up, no starvation;
* contexts and caches: one instance per context, nothing stale, reuse of what is not
  overridden, nothing used after its teardown;
* resolution: no deadlock over nested contexts, every resolution ends;
* body: read once, in one piece, and closed after its last reader;
* integration: one instance for middleware, route and endpoint, and what the connection's cache
  gives them is up;
* proxies: a released proxy keeps nothing alive and nothing needs it;
* binding: every argument arrives at its own parameter, however often a function is extended
  before and after it is bound;
* reflection: what it lists and matches is what the router does and the handler calls.

## 2. The modules

| module | what it is |
|---|---|
| `FamilyMutex` | abstract specification of the lock: tasks form families, one family is inside at a time |
| `RLock` | the lock as coded, on top of an `asyncio.Lock`; implements `FamilyMutex` |
| `RLockProofs` | the inductive invariant of `RLock` and the theorems |
| `Dependencies` | the dependency graph, the order of FastAPI's calls, `overridden_calls()` |
| `Recursion` | induction and recursive definition over a graph without cycles, as theorems about sets and functions; the concatenation of sequences |
| `DependenciesProofs` | what `Reach`, `SolveOrder` and `Fresh` compute, for every graph |
| `Injection` | contexts, override blocks, caches, resolutions and teardowns in several tasks; uses one `FamilyMutex` per context as its lock |
| `InjectionProofs` | the inductive invariant of `Injection`: types, teardown, the use of the locks |
| `InjectionSharing` | what a context has is right and is used again: nothing stale, one instance, nothing built again, no deadlock |
| `MCInjection` | a session, a repository, a clock and fakes for TLC |
| `RequestBody` | the one body of a request, read as bytes or as a form from several contexts |
| `RequestBodyProofs` | the inductive invariant of `RequestBody` and the theorems |
| `RequestLifecycle` | one connection under `add_injection()`: set-up, routing, middleware, route, endpoint, three exit stacks and one cache; extends `Dependencies` and `Routes` |
| `RequestLifecycleProofs` | the inductive invariant of `RequestLifecycle` and the theorems |
| `Routes` | the nested routes of an application: `match_route()`, `iter_routes()` and `find_route()`, next to Starlette's dispatch |
| `MCRequestLifecycle` | a chain of three generators, a user, a guard and the arrangements of five routes for TLC |
| `Binding` | parameters and arguments: `Signature`, `bind_deps()`, the wrapper of `inject()` |
| `RuntimeCalls` | dependencies made at runtime, resolved by several tasks behind proxies while `override_app()` blocks come and go; extends `Binding` |
| `RuntimeCallsProofs` | the inductive invariant of `RuntimeCalls` and the theorems |
| `MCRuntimeCalls` | two functions, a marker and a fake to bind, extend and override for TLC |

`Injection` composes with `RLock` through `FamilyMutex`: the property `LocksHonoured` says
that it moves the lock only as `FamilyMutex` allows, and `KeepsPromise` that `RLock` is such
a lock.

### RLock

| model | code |
|---|---|
| `locked`, `waiters`, `woken`, `cancelled` | `asyncio.Lock`: the flag, the FIFO of futures, the futures with a result, the cancelled ones |
| `depth` | `RLock._depth` |
| `held[t]` | the lock is in `_held_locks` in the context of task `t` |
| `nest[t]` | how many `async with lock` blocks `t` is in |
| `family[t]` | history: the task that took the lock from which `t`'s ownership was copied |
| `AcquireOwned`, `AcquireFree`, `AcquireWait` + `Granted` | `acquire()`: owned; free; `await self._lock.acquire()` and the two lines after it |
| `Leave` (`Release`) | `__aexit__`, `release()` |
| `Cancel`, `GiveUp` | a cancelled wait: cancellation is requested, then the task runs and `asyncio.Lock` passes the wake-up on |
| `Start`, `Spawn`, `Finish` | tasks: a server's, a child with a copied context, the end of one |

Between two awaits a task is atomic, so each action is what runs between two suspensions.
`acquire()` suspends only in `asyncio.Lock.acquire`, and there only when it has to wait.
The constant `Detached` says whether a task may outlive the tenure of the lock it was
spawned in; with `FALSE` the holder waits for such tasks before it leaves its last block
(`gather`, `TaskGroup`), with `TRUE` it need not.

### Injection

A task is a stack of frames: `ctx` frames for the contexts it has entered, `resolve` frames
for the calls of `solve_arguments` it is in. `_injection_ctx` is the innermost `ctx` frame
that is not being closed, or the value the task was created with. A context is a record:
its own overrides, its chain (itself and its parents), whether it inherits caches, whose exit
stack and lock it uses (`scope`: `override()` copies both), and whether it has a request.

| model | code |
|---|---|
| `OpenCtx`, `LeaveCtx`, `Teardown`, `Closed` | `injection_ctx()`: entered; variable reset; exit stack unwound, one generator at a time; gone |
| `PushOverrides`, `LeaveOverrides` | `push_overrides()`, `InjectionContext.override()` |
| `CallResolve`, `CallInjected` (`Ensure`, `NeedsOwnCtx`) | `resolve()`, the wrapper of `inject`, `ensure_injection_ctx()` |
| `EnterLock`, `Build`, `Return`, `Fail`, `Abandon` | `solve_arguments()`: the lock, one factory after another, the end, an exception or cancellation, a cancelled wait |
| `Settle` | what the solver does without suspending: cache hits up to the next factory |
| `Usable`, `Lookup`, `Inherited`, `Introduced` | `ContextCache.__getitem__`, `cache_for()`, `inherited_cache_ctxs` |
| `Effective` | `dependency_overrides` |

A value is abstracted to what it was made of (`made`: the calls, transitively) and on which
generators it depends (`gens`: their places on the exit stack). With this, "stale" and
"torn down" are visible: a value is right when it is made of what the overrides in force say
(`Fresh`), and alive when its generators are still on the stack.

User code is nondeterministic: in application code any context may be opened, any overrides
pushed, any root resolved, any task spawned; the body of a factory and the teardown of a
generator may resolve what `Within` gives them. A task that a factory spawns (`FanOut`) resolves what
the factory would resolve by hand itself (`Errand`), so no factory resolves what is made from it.

### RequestBody

All contexts of a request wrap it in a `_ReboundRequest`, and those leave the body, the
parsed form and the stream to the request they were made from. So the model has one of each,
and as many stacks and locks as contexts. Starlette's `Request` is external.

| model | code |
|---|---|
| `received`, `consumed`, `body`, `form` | the messages handed out by `receive()`; `_stream_consumed`, `_body`, `_form` of the request |
| `shape` | what the route declares: FastAPI has read it as such before any dependency runs |
| `OpenCtx`, `LeaveCtx`, `FormStack` | `injection_ctx()` and the stack that the close of a form is registered with, `fastapi_middleware_astack` |
| `MayRead` | `async with ctx.lock` of `solve_arguments()`: one reader per context |
| `InShape` | `_body_shape()` |
| `TakeForm`, `TakeBody` | `_read_form()`, `_read_body()`: it was read before |
| `ReadSynthetic`, `ParseAtOnce` | a synthetic request answers at once; a form is parsed from the body that is there |
| `StartReading`, `Receive`, `Parsed`, `Hand` | the check whether the form was parsed, then one message after another, then the writing of uploads |
| `StreamConsumed`, `Interrupted` | Starlette's error; a read that is cancelled or loses its client |

A message is its number, a body the set of the messages it was joined from. `FormData` is a
record of what it was parsed from and how often it was closed.

### RequestLifecycle

| model | code |
|---|---|
| `stage` | where the task of the connection is: middleware before the route, FastAPI solving, endpoint, unwinding, middleware after |
| `caches["connection"]`, `CacheOf` | the cache in the scope; `_solve_dependencies()` gives it to FastAPI, both contexts are opened on it |
| `stacks` | the exit stacks of the middleware's context, of FastAPI and of `bind_injection_ctx` |
| `CallApp`, `Build`, `Return`, `Fail` | `InjectionMiddleware.__call__` calls the application, whatever its tasks do; the solver, for the route and by hand |
| `Resolve`, `Spawn`, `Join` | application code under the lock of its context, a middleware's and its tasks' also beside and behind the route |
| `Joined` | a middleware, or an endpoint, waits for its tasks before its context ends; a middleware's may still run while the route is served |
| `built` | every value: of which call, where and by whom it was made, on which generators, whether it is up |
| `UnwindRoute`, `Returned`, `UnwindMiddleware` | FastAPI's stack, whose last entry is the exit of `bind_injection_ctx`; the end of the middleware's context |
| `AddRouteDependency`, `dependant`, `handler` | `add_route_dependency()`: the dependant that reflection reads, and the handler that solves it |
| `matched`, `dispatched` | what `match_route()` returns for the request, and what the router does with it |

`Injection` is about any contexts; `RequestLifecycle` fixes the two of a connection and adds
what is outside of them: FastAPI solves the route in the same cache with no lock at all and
on a stack of its own. A task that the middleware left running resolves beside it under the lock of the
middleware's context, which keeps nobody of the route out. So `OneInstance` has an exception
(`Beside`): two values of one call are one of such a task and one of the route or its endpoint.
Everything else that middleware, route and endpoint resolve is one instance. `DownBehindRoute` says who
can be handed a torn down value: a middleware, or a task of its, behind the route, and
only one that route or endpoint made.

An application maps its root, mounts and included routers to lists of routes; an included
router is expanded in place (`Contexts`), a mount is entered. The walks of `Routes` are
recursive functions over these: `MatchRoute` and `Dispatch` differ in one conjunct, whether
a mount that holds nothing for the request is passed over. Set-up, with
guards put on any of the routes, comes before the connection, and the endpoint it reaches
decides which dependencies are solved; a request without an endpoint (404 or 405) ends there.

### Binding and RuntimeCalls

A signature is a sequence of parameters with a name, a kind and the call of their
`Depends()` marker, if any. `PyCall` is Python's own binding of arguments to parameters;
what reaches a function after `inject`'s wrapper, `remap_dep_args` and the wrapper of
`Signature.wrap` is a function from its parameter names to arguments, or an error.

| model | code |
|---|---|
| `Add`, `AddDep`, `Drop`, `Prepend`, `Prepare`, `Strip` | the methods of `Signature` |
| `SignatureWithDeps`, `TakeDepArgs`, `CallBound`, `CallInjected` | `signature_with_deps()`, `take_dep_args()`, `remap_dep_args()`, `inject()` |
| `Among` | the comprehensions that keep some of the parameters, in their order |
| `made`, `Bind`, `Extend` | the functions that `bind_deps()` and `Signature.add_dep().wrap()` have made so far |
| `bound`, `again` | history: the dependencies that were bound, each meant for the next parameter that is left (README.md:302), and whether they were bound one after another |
| `IsStatic` | `is_static_call()`: written in source code, known by a constant |
| `analysed`, `ClearDependantCache` | the `lru_cache` of `_create_annotation_dependant()` |
| `shown` | what FastAPI was shown without a proxy, and keeps |
| `proxies`: whose, from which list, for what | the `CallProxy` objects that lead somewhere: those of the root, and those that `DetachedOverrides` handed out |
| `jobs`, `Open`, `Enter`, `Return`, `Close` | `resolve()`: the dependant opened, the lock taken, one call after another, the end by return, error or cancellation |
| `Graph`, `Behind` | the dependants that FastAPI builds from the signatures: what a call depends on, and all it leads to |
| `Proceed` | what the solver does between two awaits: overrides looked up live, dependencies first, cached values taken |
| `cache`, `CacheKey` | the cache of the context, keyed by what a proxy stands for |
| `app`, `EnterBlock`, `AddEntry`, `LeaveBlock` | the app's `dependency_overrides` under `override_app()` |

A released proxy is not in `proxies`, so "nothing is kept" and "nothing that is needed was
released" are statements about one set. Equality and hash of a proxy are those of its call,
which is why calls, not proxies, are the keys. What is written in source code depends on
source code only (`RuntimeCallsAssumption`): it lives as long as the process anyway. What
overrides replace, and replace it by, exists from the start, calls made at runtime
included; nothing depends on itself, whichever of the entries are in force
(`AcyclicAssumption`), since FastAPI would never end.

## 3. The runs

| run | instance | shows |
|---|---|---|
| `rlock` | 4 tasks, 3 entries or spawns by owners in one tenure, `Detached = FALSE` | every property of the lock, the refinement and that nobody starves |
| `rlock_detached` | 3 tasks, `Detached = TRUE` | **violation** of `MutualExclusion`, see 5 |
| `injection` | 2 tasks, 2 contexts, a session, a repository built on it, a clock, a fake; overrides of either; 1 open generator when a block begins | the safety properties of contexts under concurrency |
| `injection_nested` | 1 task, 3 contexts | staleness and reuse over two levels of blocks |
| `injection_live` | 2 tasks, 1 context, factories that spawn, fairness | every resolution ends |
| `injection_fake_deps` | 1 task, 2 contexts, a fake that has a dependency, both overridden in one block | **violation** of `NeverStale`, see 5 |
| `injection_fan_out` | 2 tasks, a session whose factory resolves a clock by hand and in a task | **violation** of `SingleInstance`, see 5 |
| `request_body` | 3 tasks, 3 messages, a server's and a synthetic request, `Overlap = Again = FALSE` | the same messages for every reader, one form, open for all its readers, closed once; every read ends |
| `request_body_overlap` | 2 tasks, 2 messages, `Overlap = TRUE` | **violation** of `OnePiece`, see 5 |
| `lifecycle` | the connection and a task of its middleware or endpoint, a pool, a session on it, a repository on that, a user, a guard; 840 applications with 3 endpoints and 24 requests to each, 3 of these connections followed to their end | one instance for everybody, with the exception of a task beside the route; who can be handed what is torn down; order and completeness of teardown; what reflection matches, lists and audits is what is served |
| `runtime_calls` | 2 tasks in one context, 4 functions of source code, a marker and a fake made at runtime, 2 made objects with 8 recipes, override blocks 2 deep | nothing made at runtime outlives its resolves, proxies last as long as they are needed, one value per context, every argument arrives where what is bound was bound at once, blocks restore |
| `lifecycle_teardown` | the connection's task alone | **violation** of `DependentsFirst`, see 5 |

The bounds, and why they are enough:

* `MaxWork` bounds how often owners enter or spawn in one tenure: 3 allows a child and a
  nested block in each of holder and child. Four tasks give a holder, a child, and two
  waiters, the smallest queue in which a cancelled head has somebody behind it.
* `Ctxs` bounds the contexts that exist at once; an identifier is used again after its
  block. Two contexts give a block in a context, a block in a block, and nested contexts
  with a lock each; three give a block in a block in a context, the smallest chain in
  which `introduced` accumulates.
* `MaxOpen`: generators built in an override block go on the stack of the request, so
  a loop of blocks grows it without limit. The bound only forbids to *begin* a block
  when one generator is open.
* `MaxDepth` is not a guard: it is the depth that `Ctxs`, `Roots` and `Within` allow, and
  says over which frames `Fairness` quantifies. No safety property depends on it.
* `OverridesAssumption` is about the arrangement, not a bound: FastAPI never ends when a
  replacement depends on what it replaces, so such overrides are not in any instance.
* Requests share no state, so one request is modelled: `Start` waits until no task is left.
* `Messages = 3`: a first message, one in the middle and one that ends the stream. Three tasks
  are two readers in the outermost context and one in its own, or the other way round.
* `Overlap = FALSE` keeps contexts of a server's request from reading at the same time, which
  is what the code needs and does not enforce; `request_body_overlap` lifts it.
  `Again = FALSE` gives a request to one outermost context: with `TRUE`, a context
  made from the original request inside of another registers the close of the form with its
  own stack and closes a form that others hold. No document says which is right.
* An interrupted read takes its messages with it and whoever reads next gets the rest (section 5):
  `lost` has them, and only `Interrupted` adds to it. `OnePiece` says that all readers, of the body
  or of the form, get the same: all messages but those.
* `injection_live` has one context: `ResolutionEnds` is about a lock that is always left. That locks of
  several contexts do not wait for each other is `NoCircularWait`, of `injection`.
* In `lifecycle` the helper task is started once, by the middleware, which then may or may not wait for it
  before the route, or by the endpoint. Three generators in a chain are the
  smallest case where each of middleware, route and endpoint builds one on top of another's.
* A holder of a lock waits for its tasks (`Detached = FALSE`, `Joined` of `Injection`), so copies of
  the ownership that outlive it, and the last one out that is not the taker, occur in
  `rlock_detached` only; nor does a context end while its tasks run. The code enforces neither.
* `lifecycle` routes 24 requests in every acyclic arrangement of a mount, an included router
  and three endpoints, two of them with one template and one that takes any two segments:
  the nestings and orders in which full, partial and no match, in a mount and behind it, can
  differ. `Followed` bounds the connections that go on from there: to an endpoint in a mount with an
  endpoint that takes its paths in front of it, to that endpoint, and to a mount that ends the request.
* `MaxBlocks = 2` is a block in a block. The recipes of `runtime_calls` bind one to three
  parameters (the third can be passed by keyword only), bind what was bound, bind a bound
  function as a dependency of another one, and extend what was bound and bind what was extended.
  `MaxBuilt = 2` is a counter that stops where `OneEntry` is violated.
* `CHECK_DEADLOCK FALSE` where a request or a connection really ends.
* Tasks are symmetric in `injection`, where no liveness is checked.

Fairness. `RLock`: weak fairness for a woken or cancelled waiter (the event loop runs
it), for leaving a block and for the end of a task (user code ends). There is none for
entering, spawning, starting or cancelling. `Injection`: strong fairness, per depth of the stack, for the
top frame to move on: the lock is fair (`WaiterServed`), factories and blocks end, whatever
they resolve or fail to resolve on the way. It is strong because a factory that resolves
by hand disables and enables the end of its own body at will. `RequestBody`: weak fairness for
the next message and for the parser: a client sends what it announced, or its
disconnection is an `Interrupted`. `RequestLifecycle`: weak fairness for a resolution,
strong fairness for the connection's own way and for the end of a task, which other
resolutions of user code disable again and again. None for failures, spawns and
resolutions.

## 4. The proofs

Every theorem holds for every value of the constants that its module's assumptions and its own
hypotheses allow. Proved so far:

| module | theorem | states | under |
|---|---|---|---|
| `RLockProofs` | `TypeCorrect`, `Exclusion`, `Counting`, `NoError`, `WakeUp` | `TypeOK`, `MutualExclusion`, `DepthMatchesBlocks`, `NoReleaseError`, `NoLostWakeup` | `~Detached` |
| | `Refinement` | `KeepsPromise`: `RLock` implements `FamilyMutex` | `~Detached` |
| `RequestBodyProofs` | `TypeCorrect` | `TypeOK` | |
| | `ClosedOnce`, `StaysOpen`, `ReadWhole`, `FailsByForm` | `FormClosedOnce`, `FormStaysOpen`, `OnePiece`, `ConsumedOnlyByForm` | `~Overlap`, `OneStack` |
| `DependenciesProofs` | `SolveOrderFacts`, `SolveOrderReaches` | FastAPI calls dependencies first, and what `iter_calls()` lists | |
| `InjectionProofs` | `TypeCorrect`, `NeverTornDown`, `QuietClose` | `TypeOK`, `NoUseAfterTeardown`, `ClosedQuietly` | |
| | `LocksAsSpecified` | `LocksHonoured`: contexts use their locks as `FamilyMutex` allows | |
| `InjectionSharing` | `UpToDate` | `NeverStale` | `Replaced` |
| | `OuterReused`, `NoCircle` | `ReusesOuter`, `NoCircularWait` | `~FanOut` |
| | `BuiltOnce` | `SingleInstance` | `~FanOut`, `OneLevel(H)` |
| `RequestLifecycleProofs` | `TypeCorrect`, `Shared` | `TypeOK`, `OneInstance` | |
| | `Guarded` | `GuardRuns` | |
| | `MatchedWhatIsRouted`, `MatchedWhatIsListed`, `MatchedWhatIsFound` | `MatchedIsRouted`, `MatchedIsListed`, `MatchedIsFound` | |
| | `UpInUse`, `Teardown` | `DownBehindRoute`, `DependentsFirstOtherwise` | |
| `RuntimeCallsProofs` | `RuntimeTypes`, `NothingIsKept`, `ProxiesAlwaysServe` | `TypeOK`, `NothingKept`, `ProxiesServe` | |
| | `OneEntryEach`, `BlocksAlwaysRestore` | `OneEntry`, `BlocksRestore` | |
| | `ArgumentsArrive` | `ArgumentsInPlace` | `OrdinarySigns` |

The hypotheses:

* `~Detached`: a holder of the lock waits for the tasks it spawned inside of it. Without it
  `MutualExclusion` fails (`rlock_detached`). Under it a copy of the ownership is gone when its tenure ends,
  so `OwnershipIsCurrent` is about `release()` only, which takes the lock out of the releaser's own
  context; it is a lemma (`Ownership`).
* `~Overlap`: contexts of one request do not read its body at the same time. Without it `OnePiece`
  fails (`request_body_overlap`). `OneStack`: contexts of a synthetic request are made
  from the outermost one's, so that its form is closed by one exit stack, as FastAPI's closes that of
  a server's request (`Again = FALSE`, section 3).
* `Replaced`: what a replacement depends on is among what the replaced call depends on, or
  cannot be reached by any override. That is what `overridden_calls()` takes for granted by
  walking the parameters as declared: without it `NeverStale` fails (`injection_fake_deps`).
* `~FanOut`: the body of a factory spawns no task that resolves; application code spawns what it
  likes. Without it `SingleInstance` fails (`injection_fan_out`).
* `OneLevel(H)`: what factories and teardowns resolve by hand is in `H`, and the calls in `H`, what
  they depend on and what replaces them resolve nothing by hand. The lock is
  reentrant, so a factory whose body resolves, directly or through others, a dependency that its
  own task is building finds no value in the cache and builds it again; with one level of calls
  by hand that cannot be. In `injection` and `injection_nested` `H = {clock}`.
* `OrdinarySigns`: what a caller passes by position stands before what is filled in, nothing is
  positional-only, no variable parameter (`*args`, `**kwargs`) is a dependency, and no parameter of
  the source code is called like those that `bind_deps()` and `add_dep()` add. A function with a
  dependency before a positional parameter gets the caller's argument there, and what is
  positional-only cannot be called by keyword: both are Python's rules, while `ArgumentsInPlace`
  lets the caller pass any number of its parameters by position (none where some are bound, section 5)
  and the others by keyword. TLC evaluates the hypothesis with the run (`MCRuntimeCalls`).
* The assumptions on constants: graphs of dependencies have no cycle, and replacing calls
  makes none (`OverridesAssumption`, `AcyclicAssumption`); no application holds itself, so that
  the walks over it end (`RequestLifecycleAssumption`), and a route is either an endpoint or holds
  others (`RoutesAssumption`).

`InjectionProofs` has no hypothesis: tasks are spawned in factories as well (`FanOut`), and
whatever fails fails. Nor has `RequestLifecycleProofs`: a middleware and its tasks resolve before, beside and
behind the route.

### RLock

No property is inductive. The invariant is `IInv == TypeOK /\ Counted /\ OneFamily /\ Queued`:

* `Counted`: the open blocks are finitely many and `depth` is their number, so a decrement
  and a block that ends stay together, whoever ends it;
* `OneFamily`: whoever is inside owns the lock, and all owners have the same family, whose
  head is inside. That is what makes a copy of the ownership harmless: the head cannot
  leave while a member runs (`Joined`), so when the counter reaches 0 the task that
  releases is the head, the only owner, and its context is the one that must forget;
* `Queued`: the queue lists the waiting tasks without repetition, only its head can be
  woken, and only while the lock is free. So a granted task is the head, nobody is inside,
  and the wake-up of a cancelled head goes to its successor.

`RemoveAtFacts` and `DequeueFacts` say what the removal of a waiter does to the queue,
`EnterBlocks` and `LeaveBlocks` what a block does to the cardinality. The refinement maps
every step to `Begin`, `Enter`, `Exit`, `End` or a stutter.

### RequestBody

`IInv` says that one reader is at work, that what it has and what interrupted readers took make up
exactly what was received (`Pieces`), that bytes and form, once kept, are all messages without the latter,
and that an open form has one close call, on a stack that is unwound later than any context that could hand it out ends.
`TypeCorrect` needs none of this and holds however contexts overlap.

### Dependencies

`Reach`, `SolveOrder` and `Fresh` are recursive along the graph. The library's induction takes a
predicate as a parameter, which the provers cannot instantiate, so `Recursion` states
induction (`GraphInduction`) and definition (`GraphRecursion`) over a graph without cycles
for sets and functions, and `DependenciesProofs` unfolds the three with it. `SolveOrderFacts`
is what a factory relies on, that its arguments are there; `FreshAgrees` is why a value of a
context further out may be used: two overrides that agree on a set closed under
dependencies make the same of its calls.

### Injection

The invariant of `InjectionProofs` is `IInv == Typed /\ Nested /\ Counted /\ InOrder /\ Kept`:

* `Nested`: a task's frames are layered as its chain of contexts is, no context is entered
  twice, a spawned task lies within a frame of its parent that is still open (`Families`),
  and every context is entered by somebody who cannot leave it before those that work in it
  do (`Enclosed`). From it follows that a closing context is nobody's, `QuietClose`;
* `Counted`: `nest[s][t]` is the number of resolutions of `t` that are inside the lock of `s`,
  across failures, cancelled waits and nested resolutions. `LocksAsSpecified` follows, and
  with `Refinement` of `RLockProofs` the two models compose;
* `InOrder`: what is left to call, with what has been made, has everything it is made from;
* `Kept`: every value that is cached or in hand stands on generators that are on the exit
  stack of its scope. With `Nested` it gives `NeverTornDown`.

The step lemmas are grouped by what a step does to the frames (push, pop, change of the top),
to the contexts (opened, forgotten, closing) and to the locks, since most actions are
combinations of these. `InjectionSharing` first adds two parts: `Linked`, that the chain of a context
goes on as that of its parent, and `Sourced`, that every cached or collected value is
`Fresh` in its context. The step that matters is a hit in a cache further out
(`LookupTrue`): the calls that the blocks in between override are not among what the value
is made of, so `FreshAgrees` applies. `InForceIs` shows that the dictionary that is merged in
`dependency_overrides` and the innermost override are the same.

The rest of `InjectionSharing` shows what the lock is for. That all who are inside of one lock are of one
family is not enough: a family may be several tasks. The invariant is `SInv`, on top of `IInv`:

* `OneTask`: all resolutions that are inside of a lock are those of one task. It is
  inductive because of where tasks come from: `Adopted` and `Inside` say that whoever has
  somebody else's family in the lock of `s` was spawned in a context inside of `s`
  (`Under`), that is one with another lock further in, and stays there. Such a task never
  asks for the lock of `s` itself. Application code that runs above a resolution is
  in a context opened there (`AppUnder`), and without `FanOut` no other code spawns;
* `Untaken`: what is being built is in none of the caches that may be read, unless a block in
  between overrides it. It is preserved because who fills such a cache is inside of the same
  lock, hence the same task in the same context (`SameLock`, `BuildsAlone`);
* `FromBlocks`, `Youngest` and `Innermost`: who waits for a task does so in application code, and among
  tasks, or contexts, there is one that none of the others was spawned by, or lies inside of.

`NoCircle` takes the innermost lock that a group waits for: its holder waits for a task that it
spawned inside of it, that one for another that it spawned, and so on, while all of them are
inside of that lock, where nobody of the group waits for a lock; the youngest waits for nobody.
`BuiltOnce` adds `MInv(H)`: above a resolution of the same context is only what is resolved by
hand, in `H` (`ByHand`), and what is being built is not in the context's own cache (`Missing`).

### RequestLifecycle

The invariant is `IInv`, and no part of it assumes when a middleware or its tasks resolve:

* `Handled`: a route's handler calls what reflection finds on it, and what it calls is made or to be made
  until its endpoint runs;
* `Cached`: every value that was made has its call in the one cache, and no other cache is used;
* `Alive`: tasks end before the code that waits for them, and one task solves at a time in each place, that of
  the middleware, of the route and of its endpoint. Between the places nothing keeps two tasks apart;
* `Solving`: a job has values of the calls it has taken, and makes or has what its next call is made from;
* `Single`: `OneInstance`, and who is about to make what is already made is in a `Race` with who made
  it: one of them is a task of the middleware, the other the route or its endpoint. What `Main` resolves as the
  middleware cannot be in one, since it is not in the route then;
* `Stacked`, `Phases`: the three stacks hold the generators of their places that are up, in the order in
  which they were made, and what is made where at which stage. So what is made from a generator stands
  later on its stack or on one that is unwound earlier - with the exceptions that `Teardown` names.

`Guarded` needs routing as
well: the endpoint that runs is the one that the router chose, which is the one that `match_route()`
names (`MatchIsRouted`), which is listed (`MatchIsListed`), so that the audit has seen it; its handler
calls what reflection finds on it.

Routing is fixed when the connection begins (`Routing`); what is to be shown of it is about every
tree of routes. Mounts nest through included routers, so the walks of `iter_routes()`,
`match_route()` and the router descend along `Mounted`, which has no circle because an application
does not hold itself (`MountedAcyclic`). Each walk satisfies its equation
(`IterRoutesUnfolds`, `MatchUnfolds`, `DispatchUnfolds`), and the rest is induction over
the mounts:

* `MatchIsRouted`: what `match_route()` passes over and the router does not is a mount without a
  match. If the router ends at an endpoint, there is none before it, in no mount on the way;
* `MatchIsFirst`: an answer that has the method is the first of all that are listed and match. In front
  of it are routes and mounts without a match, and where anything that is listed of a
  mount matches, `match_route()` finds something there (`MatchFinds`). `find_route()` looks
  for less than what matches, in the order of the same list, and stops no earlier. An answer with
  another method, a partial match, need not be the first, and is not what `MatchedIsFound` claims.

### RuntimeCalls

The invariant is `RInv`, and what it has to say beyond the properties is about what is there and
what is still to come:

* `Typed` keeps the signatures of made objects valid and short of dangling: `AddDepFacts` and
  `SignatureWithDepsFacts` say what `Signature.add_dep()` and `bind_deps()` make of one,
  and `AmongFacts`, `AmongValid` and `ConcatValid` what filters and concatenation do to parameters;
* `Grounded`: every dependency of what exists exists, and no mixture of the entries closes a
  circle. A made object can only depend on what was there before it, and no entry can name it;
* `Served`: what a task may call, source code and what it has a proxy for (`Mine`), is closed
  under dependencies, and all visits that its solver has left are to such calls. An override that
  is looked up leads somewhere else, so this rests on what is handed out on the way:
  `ProceedAllowed` says that the solver never goes further than the proxies of the root
  and of the overrides that it was handed;
* `Forgotten`: every proxy is of what its task uses, no task that is idle has one, and FastAPI was
  shown nothing else that was made at runtime;
* `Solving`: one task solves at a time, and stands at a call that has no value. With
  `BuiltIsCached` it gives `OneEntryEach`;
* `Restoring`: the outermost open block restores what the app started with, whatever the inner ones and
  the code inside of them do.

`Proceed` is a recursive function over lists of visits that grow and shrink. That it ends
(`WorkEnds`) is an induction over the graph that the overrides in force leave, and within
it over the list (`WalkEnds`, `ListTaken`); `ProceedKeeps` then carries what every visit keeps
to the result. `From` is the least set that has a node and what its elements lead to
(`FromLeast`, `FromClosed`), so it stays the same when objects are made (`FromExtended`).

`ArgumentsArrive` needs another invariant, `Worn`: whatever was bound at once and extended, a signature is
that of the function underneath, with the first positional parameters replaced one by one
(`Wears`). Binding replaces from the front and keeps the rest (`BoundAgain`, `WearsBound`), which is what was
meant when nothing was bound before (`BoundOnce`), and what is added comes behind all that can be passed by position (`WearsAdded`). From it follows what
a call does (`CallArrives`): the wrapper passes everything the caller and the solver have by
keyword (`Passed`), `take_dep_args()` finds exactly what was bound, in its order (`BoundTaken`),
what is left are the parameters behind it (`RestFacts`), and Python puts both where they belong
(`CallFits`). TLC checked `Worn` on the run's instance before it was proved.

### Only model-checked

* `WaiterServed`, `ResolutionEnds`, `ReadEnds`, `AllTornDown`: liveness under fairness is out of the
  prover's reach.

## 5. Where the code and its documentation disagree

* **A stale ownership** (`rlock_detached`). A task spawned inside the lock that still runs
  when its holder has left keeps the lock in its `_held_locks`. If another task holds the
  lock by then, the stray task passes `owned()`, increments the other's counter and is
  inside together with it.
* **A replacement's dependencies** (`injection_fake_deps`). `overridden_calls()` walks the
  parameters as declared. A fake that depends on a call overridden in the same block gets
  the value that the context around it has cached, not the override.
* **Factories that fan out** (`injection_fan_out`). Tasks spawned in a factory own the
  lock, so they solve in the same context at once, with each other and with the factory. A session whose
  factory resolves a clock in a task and by hand at the same time gets two clocks, though nothing here
  depends on itself; README.md:395 promises one instance.
* **Two contexts, one stream** (`request_body_overlap`). The lock belongs to a context, the
  stream to the request. Two contexts that read a body at the same time each get
  the messages they happened to receive.
* **The bound context closes last** (`lifecycle_teardown`). `bind_injection_ctx` is the first entry
  of FastAPI's exit stack, and a generator resolved by hand in the endpoint is on the
  stack of the bound context: the dependencies of the route it is built on are torn down
  before it. `DependentsFirst` is about what route and endpoint make. `DependentsFirstOtherwise` is about
  everything and lists the exceptions (`EndsLater`): the endpoint's on top of the route's, and
  a middleware's, made beside or behind the route, on top of what route or endpoint made.

More were met while modelling. The properties state the exception, and no run
is about them alone:

* **A task beside the route.** FastAPI solves a route with no lock (`fastapi.py:48`), and the endpoint has
  another one than the middleware. A task that the middleware spawned and left running may
  resolve what the route resolves at that moment, and both build it, although README.md:395 promises a single
  instance "for the whole request". `OneInstance` excepts it (`Beside`).
* **A middleware behind the route.** When the route has returned, the cache of the connection still has its values,
  whose generators are torn down, and a middleware that resolves then is handed them
  (`fastapi.py:114`). No document rules it in or out; `DownBehindRoute` excepts it.
* **The rest of a body.** A read that is cancelled keeps nothing of what it has received, and the next reader
  takes the messages that are left for the whole body (`_body.py:53`). No document speaks of it.
* **Called by position.** The wrapper of `bind_deps()` passes `*args` first and what was bound
  behind them (`_bind.py:88`). README.md:302 says that `bind_deps(describe, Given(doc))` "is a
  function of `(role)`", but when it is injected and called as `g("admin")`, what runs is
  `describe("admin", doc)`. By keyword, as FastAPI calls it, all is well: `ArgumentsInPlace`.
* **Bound again.** `bind_deps()` of a bound function replaces what was bound first instead of
  binding what is left (`_bind.py:56`): the first parameters are the bound ones. By README.md:302 the next
  marker should be bound to `role`; it goes to `doc`, and the first one is lost. The history `bound` says what
  README.md means, and `ArgumentsInPlace` leaves functions out that are bound again. Binding a parameter that
  takes a keyword only is accepted, and every call fails.
* **Behind an empty mount.** Starlette lets the first mount whose path fits answer, with 404 if
  it has no route. `match_route()` goes on (`reflect/_routes.py:178`) and may name a
  later route as "the route that would handle a request" (README.md:362): `MatchedIsRouted`
  claims agreement for requests that some endpoint gets.

## 6. Plan

Done: the lock with its proofs, contexts and caches, the body, the life of a connection with
its routing, runtime calls with binding and application overrides.

Proved: the lock, the body, the order of calls, teardown, locks and freshness of contexts,
the life of a connection with its routing; that a context builds once, and that tasks do not wait for each other
in a circle; that what is made at runtime is forgotten and served, and called with its own arguments. Every
safety property of a passing run is a theorem, `OwnershipIsCurrent` a lemma.

Open, models: `override_app()` blocks of several tasks that overlap; a provider's overrides
that change while values are cached.

Not modelled, and why:

* annotations and typing, the classification of parameters, `Signature.update` and `rename`:
  case distinctions on typing objects, without state or order;
* `iter_security`, `iter_params`, `iter_routers`, `find_dependant` and the OpenAPI walks: they
  list what is there, and nothing else depends on it. `iter_calls(expand=)` calls user code;
* `add_lifespan`: two context managers one inside the other;
* the serialization of synthetic requests: data only. The shared handshake of a websocket: two
  attributes that are read and written through;
* `inject()` of a function made at runtime: analysed once without proxies, as the code has it,
  so FastAPI keeps its dependencies; no document says otherwise;
* hosts: a `Host` is a mount whose condition is on a header instead of the path.
