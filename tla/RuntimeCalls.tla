---------------------------- MODULE RuntimeCalls ----------------------------
(***************************************************************************)
(* Dependencies made at runtime, resolved by the tasks of one context:     *)
(* bind_deps() makes them, open_dependant() of deps.py shows them to       *)
(* FastAPI, _calls.py keeps FastAPI from holding on to them, and the cache *)
(* of the context finds their values again.  Meanwhile override_app()      *)
(* blocks change what the app replaces.                                    *)
(*                                                                         *)
(* FastAPI remembers every call it is shown, for as long as the process    *)
(* runs.  It is shown a runtime call behind a proxy, and a released proxy  *)
(* leads nowhere.                                                          *)
(***************************************************************************)
EXTENDS Binding

CONSTANTS
    Tasks,
    Calls,          \* dependency callables
    Static,         \* those written in source code; the rest is made at runtime
    Objects,        \* those that bind_deps() and Signature.add_dep() make
    Signs,          \* the signatures of the others
    Recipes,        \* what is bound: [object, func, deps]
    Extensions,     \* what is added: [object, func, dep]
    Roots,          \* what is resolved
    AppOverrides,   \* the app's dependency_overrides at the start
    Entries,        \* what override blocks put there
    MaxBlocks       \* override_app() blocks inside each other

\* What exists from the start, and its parameters.
Given == Calls \ Objects
Parameters == [name : STRING, kind : Range(Kinds), dep : Given \cup {NoDep}]
Replacements == UNION {[S -> Given] : S \in SUBSET Given}

ASSUME RuntimeCallsAssumption ==
    /\ NoDep \notin Calls
    /\ Static \subseteq Calls /\ Roots \subseteq Calls
    /\ Objects \subseteq Calls \ Static
    /\ Signs \in [Given -> Seq(Parameters)] /\ \A c \in Given : Valid(Signs[c])
    /\ \A c \in Static : \A i \in DOMAIN Signs[c] : Signs[c][i].dep \in Static \cup {NoDep}
    /\ \A r \in Recipes :
          r \in [object : Objects, func : Calls, deps : Seq(Calls)] /\ Len(r.deps) <= Len(DepArg)
    /\ Extensions \subseteq [object : Objects, func : Calls, dep : Calls]
    /\ Entries \cup {AppOverrides} \subseteq Replacements
    /\ MaxBlocks \in Nat

\* Nothing depends on itself, whatever mixture of the entries replaces it.
ASSUME AcyclicAssumption ==
    \A call \in [Given -> Given] :
        (\A k \in Given : \/ call[k] = k
                          \/ \E e \in Entries \cup {AppOverrides} : k \in DOMAIN e /\ call[k] = e[k])
        => \A S \in SUBSET Given : S # {} =>
              \E k \in S : \A i \in DOMAIN Signs[call[k]] : Signs[call[k]][i].dep \notin S

VARIABLES
    made,       \* made[o] for the objects that exist: the function underneath, the
                \*   signature, and as history what was bound to its leading parameters
                \*   in the end, and whether markers met others bound before
    analysed,   \* annotations in the lru_cache of _create_annotation_dependant()
    shown,      \* runtime calls that FastAPI was shown as they are
    proxies,    \* the proxies that are not released: whose, from which list, for what
    jobs,       \* jobs[t]: the resolve of t
    cache,      \* the calls that the context has a value of
    built,      \* built[c]: how often the context built c, up to MaxBuilt
    app,        \* the app's dependency_overrides
    blocks      \* what each open override_app() block restores

calls == <<analysed, shown, proxies, jobs, cache, built>>
vars == <<made, calls, app, blocks>>

Runtime == Calls \ Static
MaxBuilt == 2
NoJob == [root |-> NoDep, phase |-> "idle", todo |-> <<>>]

Init ==
    /\ made = [o \in {} |-> 0]
    /\ analysed = {} /\ shown = {} /\ proxies = {}
    /\ jobs = [t \in Tasks |-> NoJob]
    /\ cache = {}
    /\ built = [c \in Calls |-> 0]
    /\ app = AppOverrides
    /\ blocks = <<>>

-----------------------------------------------------------------------------
\* bind_deps() and Signature

Exists(c) == c \in Objects => c \in DOMAIN made
Existing == {c \in Calls : Exists(c)}
Func(c) == IF c \in Objects THEN made[c].func ELSE c
Sign(c) == IF c \in Objects THEN made[c].sign ELSE Signs[c]
Bound(c) == IF c \in Objects THEN made[c].bound ELSE <<>>
Again(c) == c \in Objects /\ made[c].again

\* What FastAPI solves for a call, in the order of its signature.
Deps(c) == [i \in DOMAIN Prepare(Sign(c)) |-> Prepare(Sign(c))[i].dep]
Graph == [c \in Existing |-> Range(Deps(c))]

\* What a node leads to in a graph, the node included.
From(graph, node) ==
    LET from[n \in DOMAIN graph] == {n} \cup UNION {from[m] : m \in graph[n]} IN from[node]
Behind(c) == From(Graph, c)

Make(o, object) ==
    /\ made' = [p \in DOMAIN made \cup {o} |-> IF p = o THEN object ELSE made[p]]
    /\ UNCHANGED <<calls, app, blocks>>

\* bind_deps(): it raises if the markers do not fit.  What is bound is a function of the
\* parameters that are left (README), so further markers are meant for these.
Bind(o, f, deps) ==
    /\ ~Exists(o) /\ \A c \in {f} \cup Range(deps) : Exists(c)
    /\ Binds(Sign(f), deps)
    /\ Make(o, [func |-> Func(f), sign |-> SignatureWithDeps(Sign(f), deps),
                bound |-> Bound(f) \o deps,
                again |-> Again(f) \/ (Bound(f) # <<>> /\ deps # <<>>)])

\* Signature.of(f).add_dep("extra", dep).wrap(f), for an f that takes **kwargs.
Extend(o, f, dep) ==
    /\ ~Exists(o) /\ Exists(f) /\ Exists(dep)
    /\ OfKind(Signs[Func(f)], {Kinds[5]}) # <<>>
    /\ Make(o, [func |-> Func(f), sign |-> AddDep(Sign(f), "extra", dep),
                bound |-> Bound(f), again |-> Again(f)])

-----------------------------------------------------------------------------
\* What FastAPI is shown

IsStatic(c) == c \in Static

Proxy(t, list, c) == [task |-> t, list |-> list, call |-> c]

\* A proxy hands out the dependencies of its call behind proxies of the same list.
ProxyAll(t, list, c) == {Proxy(t, list, d) : d \in {e \in Behind(c) : ~IsStatic(e)}}

\* Bug: a proxy releases itself, not what is on its list.
ReleaseOne(t) == {p \in proxies : p.task = t => p.list = "root" /\ p.call # jobs[t].root}

\* Bug: tasks that resolve the same call share its proxy.
ReleaseShared(t) == {p \in proxies : p.task # t /\ p.call \notin Behind(jobs[t].root)}

\* CallProxy.__exit__, DetachedOverrides.__exit__: both lists of t.
Release(t) == {p \in proxies : p.task # t}

-----------------------------------------------------------------------------
\* solve_dependencies() (external)

Visit(c) == [key |-> c, call |-> c, ready |-> FALSE]

\* The work up to the next call, which another task can run before: the override is
\* looked up at each visit, the dependencies come first, and a cached value ends it.
Proceed(todo, values) ==
    LET onward[s \in [todo : Seq([key : Existing, call : Existing, ready : BOOLEAN]),
                      handed : SUBSET Existing]] ==
            LET at == Head(s.todo)
                call == IF at.key \in DOMAIN app THEN app[at.key] ELSE at.key
                deps == [i \in DOMAIN Deps(call) |-> Visit(Deps(call)[i])]
            IN  IF s.todo = <<>> \/ (at.ready /\ at.key \notin values) THEN s
                ELSE IF at.ready THEN onward[[s EXCEPT !.todo = Tail(@)]]
                ELSE onward[[todo |-> deps \o <<[key |-> at.key, call |-> call, ready |-> TRUE]>>
                                      \o Tail(s.todo),
                             handed |-> s.handed
                                \cup IF at.key \in DOMAIN app THEN {call} ELSE {}]]
    IN  onward[[todo |-> todo, handed |-> {}]]

\* DetachedOverrides.__getitem__: an override that FastAPI takes is handed out behind a
\* proxy, too.
Show(t, next, values) ==
    /\ jobs' = [jobs EXCEPT ![t].phase = "solving", ![t].todo = next.todo]
    /\ proxies' = proxies \cup UNION {ProxyAll(t, "handed", c) : c \in next.handed}
    /\ shown' = shown \cup (next.handed \cap Runtime \cap {c \in Calls : IsStatic(c)})
    /\ cache' = values

-----------------------------------------------------------------------------
\* resolve()

Idle(t) == jobs[t].phase = "idle"

\* open_dependant(): what is written in source code is analysed once, the rest each time.
Open(t, c) ==
    /\ Idle(t) /\ Exists(c)
    /\ jobs' = [jobs EXCEPT ![t] = [root |-> c, phase |-> "waiting", todo |-> <<>>]]
    /\ IF IsStatic(c)
       THEN /\ analysed' = analysed \cup {c}
            /\ shown' = shown \cup (Behind(c) \cap Runtime)
            /\ UNCHANGED proxies
       ELSE /\ proxies' = proxies \cup ProxyAll(t, "root", c)
            /\ UNCHANGED <<analysed, shown>>
    /\ UNCHANGED <<made, cache, built, app, blocks>>

\* Bug: the lock of the context is not taken.
LockAnyway == TRUE

LockFree == \A t \in Tasks : jobs[t].phase # "solving"

\* solve_arguments(): the lock of the context is free.
Enter(t) ==
    /\ jobs[t].phase = "waiting"
    /\ LockFree
    /\ Show(t, Proceed(<<Visit(jobs[t].root)>>, cache), cache)
    /\ UNCHANGED <<made, analysed, built, app, blocks>>

Calling(t) == jobs[t].phase = "solving" /\ jobs[t].todo # <<>>

\* Bug: the value is kept under the proxy.
CacheKeyProxied(c) == IF IsStatic(c) THEN {c} ELSE {}

\* _cache_key(): the value is kept under the call that the proxy stands for.
CacheKey(c) == {c}

\* A call returns, and its value is kept in the context.
Return(t) ==
    LET key == Head(jobs[t].todo).key
        values == cache \cup CacheKey(key)
    IN  /\ Calling(t)
        /\ built' = [built EXCEPT ![key] = IF @ < MaxBuilt THEN @ + 1 ELSE @]
        /\ Show(t, Proceed(Tail(jobs[t].todo), values), values)
        /\ UNCHANGED <<made, analysed, app, blocks>>

\* The resolve is over: it has its value, a call raised, or the task was cancelled while
\* it called or waited.
Close(t) ==
    /\ ~Idle(t)
    /\ jobs' = [jobs EXCEPT ![t] = NoJob]
    /\ proxies' = Release(t)
    /\ UNCHANGED <<made, analysed, shown, cache, built, app, blocks>>

\* The context ends, and another one begins.
NewContext ==
    /\ \A t \in Tasks : Idle(t)
    /\ cache # {}
    /\ cache' = {} /\ built' = [c \in Calls |-> 0]
    /\ UNCHANGED <<made, analysed, shown, proxies, jobs, app, blocks>>

\* clear_dependant_cache()
ClearDependantCache ==
    /\ analysed # {}
    /\ analysed' = {}
    /\ UNCHANGED <<made, shown, proxies, jobs, cache, built, app, blocks>>

-----------------------------------------------------------------------------
\* override_app()

Updated(overrides) ==
    [c \in DOMAIN app \cup DOMAIN overrides |->
        IF c \in DOMAIN overrides THEN overrides[c] ELSE app[c]]

EnterBlock(overrides) ==
    /\ Len(blocks) < MaxBlocks
    /\ blocks' = Append(blocks, app)
    /\ app' = Updated(overrides)
    /\ UNCHANGED <<made, calls>>

\* Code inside of a block writes to app.dependency_overrides.
AddEntry(overrides) ==
    /\ blocks # <<>>
    /\ Updated(overrides) # app
    /\ app' = Updated(overrides)
    /\ UNCHANGED <<made, calls, blocks>>

\* Bug: the previous entries are put back, the new ones stay.
LeaveBlockUncleared ==
    /\ blocks # <<>>
    /\ app' = [c \in DOMAIN app \cup DOMAIN Last(blocks) |->
                  IF c \in DOMAIN Last(blocks) THEN Last(blocks)[c] ELSE app[c]]
    /\ blocks' = Front(blocks)
    /\ UNCHANGED <<made, calls>>

LeaveBlock ==
    /\ blocks # <<>>
    /\ app' = Last(blocks)
    /\ blocks' = Front(blocks)
    /\ UNCHANGED <<made, calls>>

Next ==
    \/ \E r \in Recipes : Bind(r.object, r.func, r.deps)
    \/ \E r \in Extensions : Extend(r.object, r.func, r.dep)
    \/ \E t \in Tasks : \/ \E c \in Roots : Open(t, c)
                        \/ Enter(t) \/ Return(t) \/ Close(t)
    \/ NewContext \/ ClearDependantCache
    \/ \E e \in Entries : EnterBlock(e) \/ AddEntry(e)
    \/ LeaveBlock

Spec == Init /\ [][Next]_vars

-----------------------------------------------------------------------------
\* Properties

TypeOK ==
    /\ DOMAIN made \subseteq Objects
    /\ \A o \in DOMAIN made :
          /\ made[o].func \in Calls \ Objects
          /\ Valid(made[o].sign)
          /\ Range(made[o].bound) \subseteq Calls
          /\ made[o].again \in BOOLEAN
    /\ analysed \subseteq Roots /\ shown \subseteq Runtime /\ cache \subseteq Calls
    /\ proxies \subseteq [task : Tasks, list : {"root", "handed"}, call : Runtime]
    /\ \A t \in Tasks : jobs[t].phase \in {"idle", "waiting", "solving"}
    /\ \A t, u \in Tasks : jobs[t].phase = "solving" /\ jobs[u].phase = "solving" => t = u
    /\ built \in [Calls -> 0..MaxBuilt]
    /\ Len(blocks) <= MaxBlocks

\* What is made at runtime is held by process-wide memory only while a resolve uses it
\* (README: "what it carries is released with the resolve instead of living as long as
\* the process"), however the resolve ends and whatever the app replaced meanwhile.
NothingKept ==
    LET held == shown \cup {p.call : p \in proxies}
                \cup (Runtime \cap UNION {Behind(c) : c \in analysed})
        replacements == UNION {Range(e) : e \in Entries \cup {AppOverrides}}
        used(t) == UNION {Behind(c) : c \in {jobs[t].root} \cup replacements}
    IN  held \subseteq UNION {used(t) : t \in {u \in Tasks : ~Idle(u)}}

\* A proxy is not released while a resolve still has to call through it, also when
\* another task resolves the same call and finishes first.
ProxiesServe ==
    \A t \in Tasks : \A w \in Range(jobs[t].todo) \cup
            (IF jobs[t].phase = "waiting" THEN {Visit(jobs[t].root)} ELSE {}) :
        w.call \in Runtime => \E p \in proxies : p.task = t /\ p.call = w.call

\* A runtime dependency is resolved once per context, although each resolve shows FastAPI
\* a new proxy for it (README: markers for equal values "share a cache entry").
OneEntry == \A c \in Calls : built[c] <= 1

\* A dependency resolves to a value of the same name, any other argument is named after
\* its parameter.
Own(p) == IF p.dep = NoDep THEN p.name ELSE p.dep

\* What the parameters of the function underneath should get, called by keywords or by
\* FastAPI: the leading ones what was bound to them, the others their own.
Expected(func, sign, bound) ==
    LET taken == {p \in Range(func) \cup {q \in Range(sign) : q.name = "extra"} : p.kind \notin Variable}
        at(n) == {i \in DOMAIN bound : func[i].name = n}
    IN  [n \in {p.name : p \in taken} |->
            IF at(n) # {} THEN bound[CHOOSE i \in at(n) : TRUE] ELSE Own(CHOOSE p \in taken : p.name = n)]

\* Those whose bound parameters can be passed by position, all bound at once.  Binding
\* others is accepted, and fails at the call; to bind the rest later replaces what was
\* bound first, against the README.
WellBound == {o \in DOMAIN made :
    ~Again(o) /\ Len(Bound(o)) <= Len(Slots(Signs[Func(o)]))}

\* What the caller of an injected object passes: all names that its signature leaves, the
\* first n of them by position.
CallPublic(func, sign, n) ==
    LET public == Strip(sign)
        args == [i \in 1..n |-> public[i].name]
        left == Names(OfKind(public, Range(Kinds) \ Variable)) \ Range(args)
    IN  CallInjected(func, sign, args, [x \in left |-> x])

\* A function whose parameters can all be passed by keywords, those that a caller passes by
\* position before those that are filled in, and without the names used here.
Ordinary(func) ==
    \A i \in DOMAIN func :
        /\ func[i].name \notin {"extra"} \cup Range(DepArg)
        /\ func[i].kind # Kinds[1]
        /\ func[i].dep # NoDep =>
              /\ func[i].kind \notin Variable
              /\ \A j \in DOMAIN func : i < j /\ func[j].kind \in Positional => func[j].dep # NoDep

OrdinarySigns == \A c \in Given : Ordinary(Signs[c])

\* However often a function is extended, before and after it is bound, every argument
\* arrives at its own parameter when it is called by keywords, as FastAPI does (README:
\* bind_deps "binds such markers to the leading parameters of a function"), and when it is
\* called by position if nothing is bound.  Two cases are left out, in which the code does
\* not keep what the README says: a bound function that is called by position gets the
\* bound arguments behind those of the caller, and one that is bound again loses them.
ArgumentsInPlace ==
    \A o \in WellBound :
        \A n \in 0..(IF Bound(o) = <<>> THEN Len(Slots(Strip(Sign(o)))) ELSE 0) :
            CallPublic(Signs[Func(o)], Sign(o), n) = Expected(Signs[Func(o)], Sign(o), Bound(o))

\* Outside of all blocks the app has the overrides it started with (README: override_app
\* "restores the previous mapping afterwards, including entries added inside the block").
BlocksRestore == blocks = <<>> => app = AppOverrides
=============================================================================
