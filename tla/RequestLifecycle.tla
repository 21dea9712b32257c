-------------------------- MODULE RequestLifecycle --------------------------
(***************************************************************************)
(* One connection of an application under add_injection(), fastapi.py.     *)
(*                                                                         *)
(* The middleware opens a context ("middleware") around everything.        *)
(* FastAPI solves the dependencies of the route: the first of them,        *)
(* bind_injection_ctx, opens a second context ("bound") for the route, and *)
(* the patched solve_dependencies makes FastAPI use the cache of the       *)
(* connection, which both contexts share.  Each of the three has an exit   *)
(* stack of its own, and bind_injection_ctx is the first entry of          *)
(* FastAPI's ("route").                                                    *)
(*                                                                         *)
(* Before that the application is set up: its routes are given, and        *)
(* add_route_dependency() puts a guard on some of them.                    *)
(***************************************************************************)
EXTENDS Dependencies, Routes

CONSTANTS
    Tasks,      \* asyncio tasks of the connection, each is started once
    Main,       \* the one that runs the middleware and the route
    Apps,       \* applications to choose from; nothing holds itself
    Requests,   \* [path, method]
    Followed,   \* bound: the <<app, request>> whose connection is followed beyond routing
    RouteDeps,  \* RouteDeps[r]: what the parameters of the endpoint r depend on, in order
    Guard,      \* the call that add_route_dependency() adds to a route
    Roots,      \* what application code resolves
    Generators  \* calls that are torn down

ASSUME RequestLifecycleAssumption ==
    /\ Main \in Tasks
    /\ Apps \subseteq [Containers -> Seq(Mounts \cup Includes \cup Endpoints)]
    /\ \A a \in Apps, S \in SUBSET Containers : S # {} => \E n \in S : Range(a[n]) \cap S = {}
    /\ \A r \in Requests : r.path \in Seq(Segments)
    /\ Followed \subseteq Apps \X Requests
    /\ RouteDeps \in [Endpoints -> Seq(Calls)]
    /\ Guard \in Calls
    /\ Roots \subseteq Calls /\ Generators \subseteq Calls

VARIABLES
    app,        \* the application
    dependant,  \* dependant[r]: the dependencies that reflection finds on the route r
    handler,    \* handler[r]: the calls that its request handler makes for them
    request,
    matched,    \* what match_route() tells a middleware of the request
    dispatched, \* the endpoint that the router has for it, Root if there is none
    stage,      \* where Main is
    within,     \* within[t]: the context that the task t was spawned in, if it runs
    jobs,       \* jobs[t]: what t solves
    caches,     \* caches[c][k]: an index of built, 0 if there is none
    built,      \* every value made in the connection, and who made it where
    stacks      \* the exit stacks: indexes of built

setup == <<app, dependant, handler, request, matched, dispatched>>
connection == <<stage, within, jobs, caches, built, stacks>>
vars == <<setup, connection>>

Places == {"middleware", "route", "bound"}
Caches == {"connection"} \cup Places
NoJob == [place |-> "none", todo |-> <<>>, vals |-> [k \in {} |-> 0]]

\* The order of FastAPI's calls for some dependencies; nothing is overridden here.
Order(deps) == FlattenSeq([i \in 1..Len(deps) |-> SolveOrder([c \in Calls |-> c], deps[i])])

Init ==
    /\ app \in Apps
    /\ dependant = RouteDeps /\ handler = [r \in Endpoints |-> Order(RouteDeps[r])]
    /\ request \in Requests
    /\ matched = MatchRoute(app, request)
    /\ dispatched = Dispatch(app, request)
    /\ stage = "setup"
    /\ within = [t \in Tasks |-> "none"]
    /\ jobs = [t \in Tasks |-> NoJob]
    /\ caches = [c \in Caches |-> [k \in Calls |-> 0]]
    /\ built = <<>>
    /\ stacks = [p \in Places |-> <<>>]

-----------------------------------------------------------------------------
\* Setting up

SettingUp == stage = "setup" /\ <<app, request>> \in Followed

\* Bug: the handler is not built again.
AddRouteDependencyUnserved(r) ==
    /\ SettingUp
    /\ Guard \notin Range(dependant[r])
    /\ dependant' = [dependant EXCEPT ![r] = <<Guard>> \o @]
    /\ UNCHANGED <<app, handler, request, matched, dispatched, connection>>

\* add_route_dependency(), before the router of the route is included anywhere: what is
\* not a parameter of the endpoint is solved first.
AddRouteDependency(r) ==
    /\ SettingUp
    /\ Guard \notin Range(dependant[r])
    /\ dependant' = [dependant EXCEPT ![r] = <<Guard>> \o @]
    /\ handler' = [handler EXCEPT ![r] = Order(dependant'[r])]
    /\ UNCHANGED <<app, request, matched, dispatched, connection>>

\* InjectionMiddleware.__call__(): the context of the middleware is opened.
Connect ==
    /\ SettingUp
    /\ stage' = "before"
    /\ UNCHANGED <<setup, within, jobs, caches, built, stacks>>

-----------------------------------------------------------------------------
\* solve_dependencies()

\* Bug: FastAPI is not given the cache of the connection.
CacheOfItsOwn(place) == IF place = "route" THEN "route" ELSE "connection"

\* scope[_DEPENDENCY_CACHE_KEY], whoever asks.
CacheOf(place) == "connection"

\* What t does next: it takes what is cached, up to the first call that is not.
Settle(job, cache) ==
    LET misses == {i \in 1..Len(job.todo) : cache[job.todo[i]] = 0}
        hits == IF misses = {} THEN Len(job.todo) ELSE Min(misses) - 1
    IN  [job EXCEPT !.todo = SubSeq(@, hits + 1, Len(@)),
                    !.vals = Overlay([k \in {job.todo[i] : i \in 1..hits} |-> cache[k]], @)]

Begin(place, order) ==
    Settle([place |-> place, todo |-> order, vals |-> NoJob.vals], caches[CacheOf(place)])

Busy(t) == jobs[t] # NoJob
Building(t) == jobs[t].todo # <<>>

\* The context of the code that t runs.
Ctx(t) ==
    CASE t # Main /\ within[t] # "done" -> within[t]
      [] t = Main /\ stage \in {"before", "after"} -> "middleware"
      [] t = Main /\ stage = "endpoint" -> "bound"
      [] OTHER -> "none"

\* Application code resolves by hand, under the lock of its context: a middleware and its
\* tasks before, beside and behind the route, the endpoint and its tasks.
Resolve(t, root) ==
    /\ ~Busy(t)
    /\ Ctx(t) # "none"
    /\ \A u \in Tasks : jobs[u].place # Ctx(t)
    /\ jobs' = [jobs EXCEPT ![t] = Begin(Ctx(t), Order(<<root>>))]
    /\ UNCHANGED <<setup, stage, within, caches, built, stacks>>

\* A factory returns, or a generator yields.
Build(t) ==
    LET job == jobs[t]
        k == Head(job.todo)
        new == Len(built) + 1
        cache == CacheOf(job.place)
        gens == (IF k \in Generators THEN {new} ELSE {})
                \cup UNION {built[job.vals[d]].gens : d \in Range(Deps[k])}
        filled == IF caches[cache][k] = 0 THEN [caches EXCEPT ![cache][k] = new] ELSE caches
        made == [place |-> job.place, todo |-> Tail(job.todo),
                 vals |-> Overlay([d \in {k} |-> new], job.vals)]
        rest == Settle(made, filled[cache])
    IN  /\ Building(t)
        /\ built' = Append(built,
              [call |-> k, place |-> job.place, by |-> t, gens |-> gens, up |-> TRUE])
        /\ stacks' = IF k \in Generators
                     THEN [stacks EXCEPT ![job.place] = Append(@, new)] ELSE stacks
        /\ caches' = filled
        /\ jobs' = [jobs EXCEPT ![t] = rest]
        /\ UNCHANGED <<setup, stage, within>>

\* Everything is there; the endpoint of a route runs.
Return(t) ==
    /\ Busy(t) /\ ~Building(t)
    /\ jobs' = [jobs EXCEPT ![t] = NoJob]
    /\ stage' = IF jobs[t].place = "route" THEN "endpoint" ELSE stage
    /\ UNCHANGED <<setup, within, caches, built, stacks>>

Down(which) == [i \in DOMAIN built |-> [built[i] EXCEPT !.up = @ /\ i \notin which]]

\* Bug: a route that fails before its endpoint runs is not unwound.
FailUnclosed(t) ==
    /\ Building(t)
    /\ jobs' = [jobs EXCEPT ![t] = NoJob]
    /\ stage' = IF jobs[t].place = "route" THEN "after" ELSE stage
    /\ UNCHANGED <<setup, within, caches, built, stacks>>

\* Bug: the error of a route's dependency is swallowed.
FailSwallowed(t) ==
    /\ Building(t)
    /\ jobs' = [jobs EXCEPT ![t] = NoJob]
    /\ UNCHANGED <<setup, stage, within, caches, built, stacks>>

\* A factory raises; if it is one of the route, the endpoint does not run.
Fail(t) ==
    /\ Building(t)
    /\ jobs' = [jobs EXCEPT ![t] = NoJob]
    /\ stage' = IF jobs[t].place = "route" THEN "closing" ELSE stage
    /\ UNCHANGED <<setup, within, caches, built, stacks>>

-----------------------------------------------------------------------------
\* The way of the connection

\* Tasks of the middleware or of the endpoint, which waits for them before it ends; those of
\* the middleware may run beside the route.
Spawn(u) ==
    /\ u # Main /\ within[u] = "none"
    /\ ~Busy(Main) /\ Ctx(Main) # "none"
    /\ within' = [within EXCEPT ![u] = Ctx(Main)]
    /\ UNCHANGED <<setup, stage, jobs, caches, built, stacks>>

Running(u) == within[u] \in {"middleware", "bound"}

Join(u) ==
    /\ Running(u)
    /\ ~Busy(u)
    /\ within' = [within EXCEPT ![u] = "done"]
    /\ UNCHANGED <<setup, stage, jobs, caches, built, stacks>>

\* The code that Main runs in a context waits for the tasks it has spawned there.
Joined(place) == ~Busy(Main) /\ \A u \in Tasks : within[u] # place

\* An endpoint answers to methods of its own only.
Routed == dispatched \in Endpoints /\ request.method \in Methods[dispatched]

\* self.app(scope, receive, send), as far as FastAPI's solve_dependencies() for the route:
\* bind_injection_ctx first, then what its handler solves.  A request without a route is
\* answered at once.
CallApp ==
    /\ stage = "before"
    /\ ~Busy(Main)
    /\ IF Routed
       THEN /\ jobs' = [jobs EXCEPT ![Main] = Begin("route", handler[dispatched])]
            /\ stage' = "solving"
       ELSE stage' = "after" /\ UNCHANGED jobs
    /\ UNCHANGED <<setup, within, caches, built, stacks>>

\* The endpoint has returned, the response is sent.
Respond ==
    /\ stage = "endpoint"
    /\ Joined("bound")
    /\ stage' = "closing"
    /\ UNCHANGED <<setup, within, jobs, caches, built, stacks>>

\* Bug: what was opened first is closed first.
PopOldest(place) ==
    /\ built' = Down({Head(stacks[place])})
    /\ stacks' = [stacks EXCEPT ![place] = Tail(@)]
    /\ UNCHANGED <<setup, stage, within, jobs, caches>>

Pop(place) ==
    /\ built' = Down({Last(stacks[place])})
    /\ stacks' = [stacks EXCEPT ![place] = Front(@)]
    /\ UNCHANGED <<setup, stage, within, jobs, caches>>

\* Bug: the middleware's context ends with the route.
MiddlewareFirst ==
    /\ stage = "closing"
    /\ \/ stacks["middleware"] # <<>> /\ Pop("middleware")
       \/ stacks["middleware"] = <<>> /\ stacks["route"] # <<>> /\ Pop("route")
       \/ stacks["middleware"] = <<>> /\ stacks["route"] = <<>> /\ stacks["bound"] # <<>>
          /\ Pop("bound")

\* FastAPI's exit stack is unwound; its last entry is the exit of bind_injection_ctx, which
\* unwinds the stack of the bound context.
UnwindRoute ==
    /\ stage = "closing"
    /\ \/ stacks["route"] # <<>> /\ Pop("route")
       \/ stacks["route"] = <<>> /\ stacks["bound"] # <<>> /\ Pop("bound")

Returned ==
    /\ stage = "closing"
    /\ stacks["route"] = <<>> /\ stacks["bound"] = <<>>
    /\ stage' = "after"
    /\ UNCHANGED <<setup, within, jobs, caches, built, stacks>>

\* The context of the middleware ends.
UnwindMiddleware ==
    /\ stage \in {"after", "over"}
    /\ Joined("middleware")
    /\ stacks["middleware"] # <<>>
    /\ built' = Down({Last(stacks["middleware"])})
    /\ stacks' = [stacks EXCEPT !["middleware"] = Front(@)]
    /\ stage' = "over"
    /\ UNCHANGED <<setup, within, jobs, caches>>

Over ==
    /\ stage = "after" /\ Joined("middleware")
    /\ stacks["middleware"] = <<>>
    /\ stage' = "over"
    /\ UNCHANGED <<setup, within, jobs, caches, built, stacks>>

Next ==
    \/ \E r \in Endpoints : AddRouteDependency(r)
    \/ Connect
    \/ \E t \in Tasks, root \in Roots : Resolve(t, root)
    \/ \E t \in Tasks : Build(t) \/ Return(t) \/ Fail(t)
    \/ \E u \in Tasks : Spawn(u) \/ Join(u)
    \/ CallApp \/ Respond \/ UnwindRoute \/ Returned \/ UnwindMiddleware \/ Over

\* User code ends, whatever it resolves on the way.
Fairness ==
    /\ SF_vars(CallApp \/ Respond \/ UnwindRoute \/ Returned \/ UnwindMiddleware \/ Over)
    /\ \A t \in Tasks : WF_vars(Build(t) \/ Return(t)) /\ SF_vars(Join(t))

Spec == Init /\ [][Next]_vars /\ Fairness

-----------------------------------------------------------------------------
\* Properties

TypeOK ==
    /\ app \in [Containers -> Seq(Mounts \cup Includes \cup Endpoints)]
    /\ dependant \in [Endpoints -> Seq(Calls)] /\ handler \in [Endpoints -> Seq(Calls)]
    /\ stage \in {"setup", "before", "solving", "endpoint", "closing", "after", "over"}
    /\ within \in [Tasks -> {"none", "middleware", "bound", "done"}]
    /\ caches \in [Caches -> [Calls -> 0..Len(built)]]
    /\ \A i \in DOMAIN built :
          built[i] \in [call : Calls, place : Places, by : Tasks, gens : SUBSET (1..i), up : BOOLEAN]
    /\ \A p \in Places : Range(stacks[p]) \subseteq DOMAIN built
    /\ \A t \in Tasks :
          /\ jobs[t].place \in Places \cup {"none"}
          /\ Range(jobs[t].vals) \subseteq DOMAIN built
    /\ stage = "solving" <=> jobs[Main].place = "route"

\* A value made for a task of the middleware while the route, or its endpoint, made one of
\* the same call: FastAPI solves the route with no lock, the endpoint has another one.
Beside(i, j) ==
    /\ built[i].place = "middleware" /\ built[i].by # Main
    /\ built[j].place \in {"route", "bound"}

\* Middleware, route, endpoint and their tasks get the same instance of a dependency
\* (README: it "stays a single instance for the whole request"), unless a task that the
\* middleware left running makes it at the same time as the route.
OneInstance ==
    \A i, j \in DOMAIN built :
        built[i].call = built[j].call => i = j \/ Beside(i, j) \/ Beside(j, i)

\* Nobody gets a value that is torn down while the route is solved or its endpoint runs,
\* or one that was made on the stack of the own context.  What a middleware resolves behind
\* the route may be torn down: the cache still has what route and endpoint made.
DownBehindRoute ==
    \A t \in Tasks : \A k \in DOMAIN jobs[t].vals : \A i \in built[jobs[t].vals[k]].gens :
        built[i].up \/ /\ stage \in {"closing", "after"}
                       /\ jobs[t].place = "middleware" /\ built[i].place # "middleware"

\* j is built on the generator i, which was torn down first.
Stranded(j, i) ==
    /\ j # i /\ i \in built[j].gens
    /\ built[j].call \in Generators
    /\ built[j].up /\ ~built[i].up

\* What route and endpoint make is torn down before what it is built on, as FastAPI does
\* (README: generator factories "get proper teardown").
DependentsFirst ==
    \A i, j \in DOMAIN built : built[j].place # "middleware" => ~Stranded(j, i)

\* The exit stack of the route ends before that of its bound context, and this one before
\* that of the middleware.
EndsLater(p, q) == <<p, q>> \in {<<"bound", "route">>, <<"middleware", "route">>, <<"middleware", "bound">>}

\* The exceptions are what was resolved by hand on top of a value whose exit stack ends
\* earlier: an endpoint's on the route's, and a middleware's, made beside or behind the
\* route, on either.
DependentsFirstOtherwise ==
    \A i, j \in DOMAIN built : Stranded(j, i) => EndsLater(built[j].place, built[i].place)

\* What match_route() tells a middleware is the route that gets the request (README: "the
\* route that would handle a request"), if any does: a mount that enters the request and
\* holds no route for it ends it, and match_route() goes on behind the mount.
MatchedIsRouted == dispatched # Root => matched.route = dispatched

\* What match_route() returns is listed by iter_routes(), with the same path (README: "for
\* every route, with mounts, hosts and included routers expanded and the path prefixed
\* accordingly").
MatchedIsListed ==
    matched # NoRoute => matched \in Range(IterApiRoutes(app))

\* The template that match_route() returns names the route again: find_route() with it
\* and the method gets that route, although other routes may have the same template.
MatchedIsFound ==
    matched # NoRoute /\ request.method \in Methods[matched.route] =>
        FindRoute(app, request.method, matched.path) = matched

\* iter_calls(), which reports each call once.
IterCalls(deps) == UNION {Reach[d] : d \in Range(deps)}

\* Once "the usual authorization test" of the README passes for the application, no
\* endpoint runs in a connection that has not called the guard.
GuardRuns ==
    LET unguarded == {r \in Endpoints : Guard \notin IterCalls(dependant[r])}
    IN  stage = "endpoint" /\ IterRoutesWhere(app, unguarded) = {}
        => \E i \in DOMAIN built : built[i].call = Guard

\* In the end every generator is torn down, whatever failed.
AllTornDown == <>[](\A i \in DOMAIN built : built[i].call \in Generators => ~built[i].up)
=============================================================================
