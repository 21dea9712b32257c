-------------------------- MODULE InjectionProofs --------------------------
(***************************************************************************)
(* Contexts nest, and what works in a context is left before the context   *)
(* is: the proofs of type correctness, of the teardown properties and of   *)
(* the locks' use, for every graph, override map and number of tasks.      *)
(***************************************************************************)
EXTENDS Injection, DependenciesProofs, FiniteSetTheorems

-----------------------------------------------------------------------------
\* The inductive invariant

\* What is on the stack of a task.
CtxFrames == [kind : {"ctx"}, ctx : Ctxs, body : BOOLEAN, closing : BOOLEAN]
ResolveFrames ==
    [kind : {"resolve"}, ctx : Ctxs, root : Calls, phase : {"lock", "build", "done"},
     todo : Seq(Calls), vals : PartialMap(Calls, Value)]
Frames == CtxFrames \cup ResolveFrames
Parents == [task : Tasks \cup {NoCtx}, at : Nat]
Contexts ==
    [own : Overrides \cup {Nothing}, chain : Seq(Ctxs), inherits : BOOLEAN,
     scope : Ctxs \cup {NoCtx}, bound : BOOLEAN]

\* Every variable has its type.
Typed ==
    /\ alive \subseteq Tasks
    /\ frames \in [Tasks -> Seq(Frames)]
    /\ base \in [Tasks -> Ctxs \cup {NoCtx}]
    /\ parent \in [Tasks -> Parents]
    /\ ctxs \in [Ctxs -> Contexts]
    /\ cache \in [Ctxs -> PartialMap(Calls, Value)]
    /\ stack \in [Ctxs -> Seq(Generators)]
    /\ family \in [Ctxs -> [Tasks -> Tasks]]
    /\ nest \in [Ctxs -> [Tasks -> Nat]]

Used(c) == ctxs[c] # Unused
IsCtx(f) == f.kind = "ctx"
IsResolve(f) == f.kind = "resolve"
Opens(f) == IsCtx(f) /\ ~f.closing
Entered(t, i, c) == i \in 1..Len(frames[t]) /\ IsCtx(frames[t][i]) /\ frames[t][i].ctx = c

\* _injection_ctx on top of the first n of the frames fs.
CurrentIn(fs, b, n) ==
    LET entered == {i \in 1..n : Opens(fs[i])}
    IN  IF entered = {} THEN b ELSE fs[Max(entered)].ctx
CurrentAt(t, n) == CurrentIn(frames[t], base[t], n)

\* A frame whose body may have spawned tasks.
Firm(f) == Opens(f) \/ (IsResolve(f) /\ f.phase = "build")

\* The tasks that t waits for were spawned in its first n frames.
Below(t, n) == \A u \in alive : parent[u].task = t => parent[u].at <= n

\* A task was given the context its parent was in, and works for it in that frame still.
Placed(t) ==
    \/ parent[t].task = NoCtx /\ base[t] = NoCtx
    \/ /\ parent[t].task \in alive
       /\ parent[t].at \in 0..Len(frames[parent[t].task])
       /\ base[t] = CurrentAt(parent[t].task, parent[t].at)
       /\ parent[t].at > 0 => Firm(frames[parent[t].task][parent[t].at])

\* A task that is not alive is nowhere; the others form a forest.
Families ==
    /\ \A t \in Tasks \ alive : frames[t] = <<>> /\ base[t] = NoCtx /\ parent[t].task = NoCtx
    /\ \A t \in alive : Placed(t)
    /\ \A S \in SUBSET alive : S # {} => \E t \in S : parent[t].task \notin S

\* A context is what OwnCtx or OverrideCtx made of it around the one outside.
Around(c, outer) ==
    /\ Used(c)
    /\ ctxs[c].chain = <<c>> \o Chain(outer)
    /\ IF ctxs[c].inherits
       THEN ctxs[c].scope = IF outer = NoCtx THEN c ELSE ctxs[outer].scope
       ELSE ctxs[c].scope = c

\* Each frame is in the context that was current below it.
LayeredAt(t, i) ==
    LET f == frames[t][i]
        outer == CurrentAt(t, i - 1)
    IN  /\ IsCtx(f) => Around(f.ctx, outer) /\ (f.closing => ~ctxs[f.ctx].inherits)
        /\ IsResolve(f) => f.ctx = outer
Layered == \A t \in Tasks : \A i \in 1..Len(frames[t]) : LayeredAt(t, i)

\* A context is entered once, and exists as long as that.
EnteredOnce ==
    /\ \A t, u \in Tasks : \A i, j \in Nat : \A c \in Ctxs :
          Entered(t, i, c) /\ Entered(u, j, c) => t = u /\ i = j
    /\ \A c \in Ctxs : Used(c) => \E t \in Tasks : \E i \in Nat : Entered(t, i, c)

\* The current context and all those around it are open: the task itself entered them, or
\* one of those that wait for it.
EnclosedAt(t, n, c) ==
    /\ \E u \in Tasks : \E i \in Nat : Entered(u, i, c) /\ ~frames[u][i].closing
    /\ (\E i \in 1..n : Entered(t, i, c)) \/ c \in Range(Chain(base[t]))
Enclosed ==
    \A t \in Tasks : \A n \in 0..Len(frames[t]) :
        /\ CurrentAt(t, n) = NoCtx \/ Used(CurrentAt(t, n))
        /\ \A c \in Range(Chain(CurrentAt(t, n))) : EnclosedAt(t, n, c)

\* Chains are made of contexts; a context shares its scope with those that lend to it.
Chained ==
    \A c \in Ctxs : Used(c) =>
        /\ ctxs[c].chain # <<>> /\ ctxs[c].chain[1] = c
        /\ \A x \in Range(ctxs[c].chain) : Used(x)
        /\ ctxs[c].scope \in Range(ctxs[c].chain)
        /\ \A i \in Inherited(c) : ctxs[ctxs[c].chain[i]].scope = ctxs[c].scope

Nested == Families /\ Layered /\ EnteredOnce /\ Enclosed /\ Chained

\* Every block of a lock is a resolution that got it.
Holds(t, i, s) ==
    /\ i \in 1..Len(frames[t]) /\ IsResolve(frames[t][i]) /\ frames[t][i].phase # "lock"
    /\ ctxs[frames[t][i].ctx].scope = s
Holding(t, s) == {i \in 1..Len(frames[t]) : Holds(t, i, s)}
Counted == \A s \in Ctxs, t \in Tasks : nest[s][t] = Cardinality(Holding(t, s))

\* What has to be called has its arguments by then.
Prepared(eff, todo, vals) ==
    \A i \in 1..Len(todo) :
        Range(Deps[eff[todo[i]]]) \subseteq DOMAIN vals \cup {todo[j] : j \in 1..(i - 1)}
Ready(f) ==
    /\ f.phase = "build" => f.todo # <<>>
    /\ Prepared(Effective(f.ctx), f.todo, f.vals)
InOrder == \A t \in Tasks : \A i \in 1..Len(frames[t]) : IsResolve(frames[t][i]) => Ready(frames[t][i])

\* The generators under a value are on the exit stack of c's request.
Standing(v, c) == v.gens \subseteq 1..Len(stack[ctxs[c].scope])
KeptAt(t, i) ==
    LET f == frames[t][i]
    IN  /\ Opens(f) => \A k \in DOMAIN cache[f.ctx] : Standing(cache[f.ctx][k], f.ctx)
        /\ IsResolve(f) => \A k \in DOMAIN f.vals : Standing(f.vals[k], f.ctx)
Kept ==
    /\ \A c \in Ctxs : ~Used(c) => cache[c] = Nothing
    /\ \A t \in Tasks : \A i \in 1..Len(frames[t]) : KeptAt(t, i)

IInv == Typed /\ Nested /\ Counted /\ InOrder /\ Kept

-----------------------------------------------------------------------------
\* Sequences and maps

\* What Append, Front and Last do, by index.
LEMMA AppendFacts ==
    ASSUME NEW S, NEW s \in Seq(S), NEW x \in S
    PROVE  /\ Append(s, x) \in Seq(S) /\ Len(s) \in Nat /\ Len(Append(s, x)) = Len(s) + 1
           /\ \A i \in 1..Len(s) : Append(s, x)[i] = s[i]
           /\ Append(s, x)[Len(s) + 1] = x
BY AppendProperties, LenProperties

\* Everything but the last element.
LEMMA FrontFacts ==
    ASSUME NEW S, NEW s \in Seq(S), s # <<>>
    PROVE  /\ Front(s) \in Seq(S) /\ Len(s) \in Nat \ {0} /\ Len(Front(s)) = Len(s) - 1
           /\ \A i \in 1..(Len(s) - 1) : Front(s)[i] = s[i]
           /\ Last(s) = s[Len(s)] /\ Last(s) \in S
<1> DEFINE n == Len(s)
<1>1. n \in Nat \ {0} /\ Last(s) = s[n]
  BY EmptySeq DEF Last
<1>2. \A i \in 1..n : s[i] \in S
  BY ElementOfSeq
<1>3. Front(s) = SubSeq(s, 1, n - 1)
  BY DEF Front
<1>4. 1 \in Int /\ n - 1 \in Int /\ n - 1 - 1 + 1 = n - 1 /\ (~(1 <= n - 1) => n - 1 = 0)
  <2> HIDE DEF n
  <2> QED
    BY <1>1
<1>5. \A i \in 1..(n - 1) : s[i] \in S /\ 1 + i - 1 = i
  <2> HIDE DEF n
  <2> QED
    BY <1>1, <1>2
<1> HIDE DEF n
<1>6. /\ SubSeq(s, 1, n - 1) \in Seq(S)
      /\ Len(SubSeq(s, 1, n - 1)) = IF 1 <= n - 1 THEN n - 1 - 1 + 1 ELSE 0
      /\ \A i \in 1..(n - 1 - 1 + 1) : SubSeq(s, 1, n - 1)[i] = s[1 + i - 1]
  BY <1>4, <1>5, SubSeqProperties
<1>7. Len(Front(s)) = n - 1
  BY <1>3, <1>4, <1>6
<1>8. \A i \in 1..(n - 1) : Front(s)[i] = s[i]
  BY <1>3, <1>4, <1>5, <1>6
<1>9. n \in 1..n
  BY <1>1
<1> QED
  BY <1>1, <1>2, <1>3, <1>6, <1>7, <1>8, <1>9 DEF n

\* The last element replaced.
LEMMA ReplaceLast ==
    ASSUME NEW S, NEW s \in Seq(S), s # <<>>, NEW x \in S
    PROVE  /\ Append(Front(s), x) \in Seq(S) /\ Len(Append(Front(s), x)) = Len(s)
           /\ \A i \in 1..(Len(s) - 1) : Append(Front(s), x)[i] = s[i]
           /\ Append(Front(s), x)[Len(s)] = x
<1>1. /\ Front(s) \in Seq(S) /\ Len(s) \in Nat \ {0} /\ Len(Front(s)) = Len(s) - 1
      /\ \A i \in 1..(Len(s) - 1) : Front(s)[i] = s[i]
  BY FrontFacts
<1>2. /\ Append(Front(s), x) \in Seq(S) /\ Len(Append(Front(s), x)) = Len(Front(s)) + 1
      /\ \A i \in 1..Len(Front(s)) : Append(Front(s), x)[i] = Front(s)[i]
      /\ Append(Front(s), x)[Len(Front(s)) + 1] = x
  BY <1>1, AppendFacts
<1>3. Len(s) - 1 + 1 = Len(s)
  BY <1>1
<1> QED
  BY <1>1, <1>2, <1>3

\* Partial maps are functions on some of their arguments.
LEMMA MapFacts ==
    ASSUME NEW S, NEW T, NEW f
    PROVE  f \in PartialMap(S, T) <=> DOMAIN f \subseteq S /\ f \in [DOMAIN f -> T]
BY DEF PartialMap

\* An overlay, by key.
LEMMA OverlayAt ==
    ASSUME NEW f, NEW g
    PROVE  /\ DOMAIN Overlay(f, g) = DOMAIN f \cup DOMAIN g
           /\ \A k \in DOMAIN f : Overlay(f, g)[k] = f[k]
           /\ \A k \in DOMAIN g \ DOMAIN f : Overlay(f, g)[k] = g[k]
BY DEF Overlay

\* An overlay of partial maps is one.
LEMMA OverlayMap ==
    ASSUME NEW S, NEW T, NEW f \in PartialMap(S, T), NEW g \in PartialMap(S, T)
    PROVE  Overlay(f, g) \in PartialMap(S, T)
<1>1. /\ DOMAIN Overlay(f, g) = DOMAIN f \cup DOMAIN g
      /\ Overlay(f, g) = [k \in DOMAIN f \cup DOMAIN g |-> IF k \in DOMAIN f THEN f[k] ELSE g[k]]
  BY DEF Overlay
<1>2. DOMAIN f \subseteq S /\ f \in [DOMAIN f -> T] /\ DOMAIN g \subseteq S /\ g \in [DOMAIN g -> T]
  BY MapFacts
<1>3. Overlay(f, g) \in [DOMAIN f \cup DOMAIN g -> T]
  BY <1>1, <1>2
<1> QED
  BY <1>1, <1>2, <1>3, MapFacts

\* The least of a set of numbers.
LEMMA MinFacts ==
    ASSUME NEW T \in SUBSET Nat, T # {}
    PROVE  Min(T) \in T /\ \A k \in T : Min(T) <= k
BY LeastNatural DEF Min

\* The greatest of a set of positions.
LEMMA MaxFacts ==
    ASSUME NEW n \in Nat, NEW T \in SUBSET (1..n), T # {}
    PROVE  Max(T) \in T /\ \A k \in T : Max(T) >= k
<1> DEFINE U == {m \in 0..n : \A k \in T : k <= m}
<1>1. n \in U /\ U \in SUBSET Nat
  OBVIOUS
<1>2. PICK m \in U : \A k \in U : m <= k
  <2> HIDE DEF U
  <2> QED
    BY <1>1, LeastNatural
<1>3. m \in T
  <2> SUFFICES ASSUME m \notin T
               PROVE  FALSE
    OBVIOUS
  <2>1. m \in Nat /\ \A k \in T : k \in Nat \ {0} /\ k <= m /\ k # m
    BY <1>2
  <2>2. m # 0 /\ m <= n
    <3>1. PICK x \in T : TRUE
      OBVIOUS
    <3>2. m \in 0..n
      BY <1>2
    <3> HIDE DEF U
    <3> QED
      BY <2>1, <3>1, <3>2
  <2>3. m - 1 \in 0..n /\ \A k \in T : k <= m - 1
    <3> HIDE DEF U
    <3> QED
      BY <2>1, <2>2
  <2>4. m - 1 \in U
    BY <2>3
  <2> QED
    BY <1>2, <2>1, <2>2, <2>4
<1>4. \A k \in T : m >= k
  BY <1>2
<1> QED
  BY <1>3, <1>4 DEF Max

-----------------------------------------------------------------------------
\* Frames and the current context

\* A frame is that of a context or that of a resolution.
LEMMA FrameFacts ==
    ASSUME NEW f \in Frames
    PROVE  /\ f.ctx \in Ctxs
           /\ IsCtx(f) => f \in CtxFrames /\ ~IsResolve(f) /\ f.closing \in BOOLEAN
           /\ ~IsCtx(f) => f \in ResolveFrames /\ IsResolve(f) /\ ~Opens(f)
BY DEF Frames, CtxFrames, ResolveFrames, IsCtx, IsResolve, Opens

\* The frames of a task by index.
LEMMA FramesAt ==
    ASSUME Typed, NEW t \in Tasks
    PROVE  /\ frames[t] \in Seq(Frames) /\ Len(frames[t]) \in Nat
           /\ \A i \in 1..Len(frames[t]) : frames[t][i] \in Frames
           /\ frames[t] = <<>> <=> Len(frames[t]) = 0
<1>1. frames[t] \in Seq(Frames)
  BY DEF Typed
<1> QED
  BY <1>1, LenProperties, ElementOfSeq, EmptySeq

\* The current context depends on the frames that open one.
LEMMA CurrentAgrees ==
    ASSUME NEW fs, NEW gs, NEW b, NEW n \in Nat,
           \A i \in 1..n : Opens(fs[i]) = Opens(gs[i]) /\ fs[i].ctx = gs[i].ctx
    PROVE  CurrentIn(fs, b, n) = CurrentIn(gs, b, n)
<1> DEFINE E == {i \in 1..n : Opens(fs[i])}
<1>1. E = {i \in 1..n : Opens(gs[i])}
  OBVIOUS
<1>2. E # {} => Max(E) \in 1..n
  <2>1. E \in SUBSET (1..n)
    OBVIOUS
  <2> HIDE DEF E
  <2> QED
    BY <2>1, MaxFacts
<1>3. E # {} => fs[Max(E)].ctx = gs[Max(E)].ctx
  BY <1>2
<1> QED
  BY <1>1, <1>3 DEF CurrentIn

\* Frames that open no context do not change it.
LEMMA CurrentAbove ==
    ASSUME NEW fs, NEW b, NEW k \in Nat, NEW n \in Nat, k <= n,
           \A i \in (k + 1)..n : ~Opens(fs[i])
    PROVE  CurrentIn(fs, b, n) = CurrentIn(fs, b, k)
<1>1. {i \in 1..n : Opens(fs[i])} = {i \in 1..k : Opens(fs[i])}
  OBVIOUS
<1> QED
  BY <1>1 DEF CurrentIn

\* A frame that opens a context has its own.
LEMMA CurrentOpened ==
    ASSUME NEW fs, NEW b, NEW n \in Nat, Opens(fs[n + 1])
    PROVE  CurrentIn(fs, b, n + 1) = fs[n + 1].ctx
<1> DEFINE E == {i \in 1..(n + 1) : Opens(fs[i])}
<1>1. n + 1 \in E /\ E \in SUBSET (1..(n + 1)) /\ n + 1 \in Nat
  OBVIOUS
<1>2. Max(E) \in E /\ \A k \in E : Max(E) >= k
  <2> HIDE DEF E
  <2> QED
    BY <1>1, MaxFacts
<1>3. Max(E) \in 1..(n + 1) /\ Max(E) >= n + 1
  BY <1>1, <1>2
<1>4. Max(E) = n + 1
  <2> HIDE DEF E
  <2> QED
    BY <1>3
<1> QED
  BY <1>1, <1>4 DEF CurrentIn

\* Without frames it is the one the task was created with; a frame that opens one has its own.
LEMMA CurrentSteps ==
    ASSUME NEW fs, NEW b, NEW n \in Nat
    PROVE  /\ CurrentIn(fs, b, 0) = b
           /\ Opens(fs[n + 1]) => CurrentIn(fs, b, n + 1) = fs[n + 1].ctx
           /\ ~Opens(fs[n + 1]) => CurrentIn(fs, b, n + 1) = CurrentIn(fs, b, n)
<1>1. CurrentIn(fs, b, 0) = b
  BY DEF CurrentIn
<1>2. ASSUME ~Opens(fs[n + 1])
      PROVE  CurrentIn(fs, b, n + 1) = CurrentIn(fs, b, n)
  <2>1. \A i \in (n + 1)..(n + 1) : i = n + 1
    OBVIOUS
  <2> QED
    BY <1>2, <2>1, CurrentAbove
<1> QED
  BY <1>1, <1>2, CurrentOpened

\* _injection_ctx.get() is the current context on top of all frames.
LEMMA CurrentOnTop ==
    ASSUME NEW t
    PROVE  Current(t) = CurrentAt(t, Len(frames[t]))
BY DEF Current, CurrentAt, CurrentIn, Opens, IsCtx

\* It is a context or none.
LEMMA CurrentType ==
    ASSUME Typed, NEW t \in Tasks, NEW n \in 0..Len(frames[t])
    PROVE  CurrentAt(t, n) \in Ctxs \cup {NoCtx}
<1> DEFINE E == {i \in 1..n : Opens(frames[t][i])}
<1>1. base[t] \in Ctxs \cup {NoCtx}
  BY DEF Typed
<1>2. E # {} => Max(E) \in 1..Len(frames[t])
  <2>1. E \in SUBSET (1..n) /\ n \in Nat /\ 1..n \subseteq 1..Len(frames[t])
    BY FramesAt
  <2> HIDE DEF E
  <2> QED
    BY <2>1, MaxFacts
<1>3. E # {} => frames[t][Max(E)].ctx \in Ctxs
  <2> HIDE DEF E
  <2> QED
    BY <1>2, FramesAt, FrameFacts
<1> QED
  BY <1>1, <1>3 DEF CurrentAt, CurrentIn

\* The frames that a step leaves alone keep their context.
LEMMA CurrentKept ==
    ASSUME NEW t, NEW n \in Nat, base'[t] = base[t], \A i \in 1..n : frames'[t][i] = frames[t][i]
    PROVE  CurrentAt(t, n)' = CurrentAt(t, n)
<1>1. CurrentIn(frames'[t], base[t], n) = CurrentIn(frames[t], base[t], n)
  BY CurrentAgrees
<1> QED
  BY <1>1 DEF CurrentAt

-----------------------------------------------------------------------------
\* Steps inside of contexts

\* The frames of t are the same up to the k-th; above it there are at most resolutions in
\* the context that is current there, and no task spawned there is left.
Inner(t, k) ==
    /\ \A u \in Tasks \ {t} : frames'[u] = frames[u]
    /\ k <= Len(frames[t]) /\ k <= Len(frames'[t])
    /\ \A i \in 1..k : frames'[t][i] = frames[t][i]
    /\ \A i \in (k + 1)..Len(frames[t]) : IsResolve(frames[t][i])
    /\ \A i \in (k + 1)..Len(frames'[t]) :
          IsResolve(frames'[t][i]) /\ frames'[t][i].ctx = CurrentAt(t, k)
    /\ Below(t, k)
    /\ UNCHANGED <<alive, base, parent, ctxs>>

\* Such a step changes nothing about who is in which context.
LEMMA InnerKeeps ==
    ASSUME Typed, Nested, Typed', NEW t \in alive, NEW k \in Nat, Inner(t, k)
    PROVE  Nested'
<1> USE DEF Inner
<1>1. t \in Tasks /\ alive' = alive /\ base' = base /\ parent' = parent /\ ctxs' = ctxs
  BY DEF Typed
<1>2. \A u \in Tasks : /\ Len(frames[u]) \in Nat /\ Len(frames'[u]) \in Nat
                       /\ \A i \in 1..Len(frames[u]) : frames[u][i] \in Frames
                       /\ \A i \in 1..Len(frames'[u]) : frames'[u][i] \in Frames
  BY FramesAt DEF Typed
<1>3. ASSUME NEW u \in Tasks, u # t, NEW n \in Nat
      PROVE  CurrentAt(u, n)' = CurrentAt(u, n)
  BY <1>1, <1>3, CurrentKept
<1>4. ASSUME NEW n \in 0..k
      PROVE  CurrentAt(t, n)' = CurrentAt(t, n)
  BY <1>1, CurrentKept
<1>5. ASSUME NEW n \in k..Len(frames'[t])
      PROVE  CurrentAt(t, n)' = CurrentAt(t, k)
  <2>1. n \in Nat /\ k <= n /\ \A i \in (k + 1)..n : i \in 1..Len(frames'[t]) /\ i \in (k + 1)..Len(frames'[t])
    BY <1>1, <1>2
  <2>2. \A i \in (k + 1)..n : ~Opens(frames'[t][i])
    BY <1>1, <1>2, <2>1, FrameFacts
  <2>3. CurrentIn(frames'[t], base'[t], n) = CurrentIn(frames'[t], base'[t], k)
    BY <2>1, <2>2, CurrentAbove
  <2> QED
    BY <1>4, <2>3 DEF CurrentAt
<1>6. ASSUME NEW u \in Tasks, NEW i \in Nat, NEW c
      PROVE  Entered(u, i, c)' <=> Entered(u, i, c)
  <2>1. CASE u # t
    <3>1. frames'[u] = frames[u]
      BY <2>1
    <3> QED
      BY <3>1 DEF Entered, IsCtx
  <2>2. CASE u = t /\ i <= k
    <3>1. i \in 1..Len(frames[t]) <=> i \in 1..Len(frames'[t])
      BY <1>1, <1>2, <2>2
    <3>2. i \in 1..Len(frames[t]) => frames'[t][i] = frames[t][i]
      BY <1>1, <1>2, <2>2
    <3> QED
      BY <2>2, <3>1, <3>2 DEF Entered, IsCtx
  <2>3. CASE u = t /\ i > k
    <3>1. i \in 1..Len(frames[t]) => IsResolve(frames[t][i])
      BY <1>1, <1>2, <2>3
    <3>2. i \in 1..Len(frames'[t]) => IsResolve(frames'[t][i])
      BY <1>1, <1>2, <2>3
    <3>3. ~Entered(t, i, c)
      BY <1>1, <1>2, <3>1, FrameFacts DEF Entered
    <3>4. ~Entered(t, i, c)'
      BY <1>1, <1>2, <3>2 DEF Entered, IsCtx, IsResolve
    <3> QED
      BY <2>3, <3>3, <3>4
  <2> QED
    BY <2>1, <2>2, <2>3
<1>7. \A u \in Tasks : \A i \in Nat : \A c :
          Entered(u, i, c) => frames'[u][i] = frames[u][i]
  <2> SUFFICES ASSUME NEW i \in Nat, NEW c, Entered(t, i, c)
               PROVE  frames'[t][i] = frames[t][i]
    BY <1>1 DEF Entered
  <2>1. ~(i > k)
    BY <1>1, <1>2, FrameFacts DEF Entered
  <2> QED
    BY <2>1 DEF Entered
<1>8. Families'
  <2>1. ASSUME NEW u \in Tasks \ alive
        PROVE  frames'[u] = <<>> /\ base'[u] = NoCtx /\ parent'[u].task = NoCtx
    BY <1>1 DEF Nested, Families, Placed
  <2>2. ASSUME NEW u \in alive, parent[u].task \in alive,
               parent[u].at \in 0..Len(frames[parent[u].task]),
               base[u] = CurrentAt(parent[u].task, parent[u].at),
               parent[u].at > 0 => Firm(frames[parent[u].task][parent[u].at])
        PROVE  /\ parent[u].at \in 0..Len(frames'[parent[u].task])
               /\ base[u] = CurrentAt(parent[u].task, parent[u].at)'
               /\ parent[u].at > 0 => Firm(frames'[parent[u].task][parent[u].at])
    <3>1. CASE parent[u].task # t
      <4>1. parent[u].task \in Tasks /\ parent[u].at \in Nat
        BY <1>2, <2>2 DEF Typed
      <4> QED
        BY <1>3, <2>2, <3>1, <4>1
    <3>2. CASE parent[u].task = t
      <4>1. parent[u].at \in 0..k
        BY <1>1, <1>2, <2>2, <3>2 DEF Below
      <4>2. parent[u].at \in 0..Len(frames'[t]) /\ (parent[u].at > 0 => parent[u].at \in 1..k)
        BY <1>1, <1>2, <4>1
      <4> QED
        BY <1>4, <2>2, <3>2, <4>1, <4>2
    <3> QED
      BY <3>1, <3>2
  <2>3. ASSUME NEW u \in alive
        PROVE  \/ parent[u].task = NoCtx /\ base[u] = NoCtx
               \/ /\ parent[u].task \in alive
                  /\ parent[u].at \in 0..Len(frames'[parent[u].task])
                  /\ base[u] = CurrentAt(parent[u].task, parent[u].at)'
                  /\ parent[u].at > 0 => Firm(frames'[parent[u].task][parent[u].at])
    BY <2>2 DEF Nested, Families, Placed
  <2>4. \A S \in SUBSET alive : S # {} => \E u \in S : parent[u].task \notin S
    BY DEF Nested, Families, Placed
  <2>5. \A u \in alive : Placed(u)'
    BY <1>1, <2>3 DEF Placed, Firm, Opens, IsCtx, IsResolve
  <2> QED
    BY <1>1, <2>1, <2>4, <2>5 DEF Families
<1>9. Layered'
  <2> SUFFICES ASSUME NEW u \in Tasks, NEW i \in 1..Len(frames'[u])
               PROVE  LayeredAt(u, i)'
    BY DEF Layered
  <2> DEFINE f == frames'[u][i]
             outer == CurrentAt(u, i - 1)'
             Fits == /\ IsCtx(f) => Around(f.ctx, outer) /\ (f.closing => ~ctxs[f.ctx].inherits)
                     /\ IsResolve(f) => f.ctx = outer
  <2>0. ASSUME Fits PROVE LayeredAt(u, i)'
    BY ONLY <1>1, <2>0 DEF LayeredAt, Around, IsCtx, IsResolve, Chain, Used, CurrentAt
  <2> SUFFICES Fits
    BY <2>0
  <2>1. CASE u = t /\ i > k
    <3>1. i \in (k + 1)..Len(frames'[t]) /\ i - 1 \in k..Len(frames'[t])
      BY <1>1, <1>2, <2>1
    <3>2. frames'[t][i].ctx = CurrentAt(t, i - 1)' /\ ~IsCtx(frames'[t][i])
      BY <1>1, <1>2, <1>5, <2>1, <3>1, FrameFacts
    <3> QED
      BY <2>1, <3>2
  <2>2. CASE u # t \/ i <= k
    <3>1. i \in 1..Len(frames[u]) /\ frames'[u][i] = frames[u][i] /\ i - 1 \in Nat
      BY <1>1, <1>2, <2>2
    <3>2. CurrentAt(u, i - 1)' = CurrentAt(u, i - 1)
      <4>1. u = t => i - 1 \in 0..k
        BY <1>1, <1>2, <2>2
      <4> QED
        BY <1>3, <1>4, <3>1, <4>1
    <3> QED
      BY <3>1, <3>2 DEF Nested, Layered, LayeredAt
  <2> QED
    BY <1>1, <1>2, <2>1, <2>2
<1>10. EnteredOnce'
  BY <1>1, <1>6 DEF Nested, EnteredOnce, Used
<1>11. Enclosed'
  <2>1. ASSUME NEW u \in Tasks, NEW n \in 0..Len(frames'[u])
        PROVE  /\ CurrentAt(u, n)' = NoCtx \/ Used(CurrentAt(u, n)')
               /\ \A c \in Range(Chain(CurrentAt(u, n)')) : EnclosedAt(u, n, c)'
    <3>1. PICK m \in 0..Len(frames[u]) : m <= n /\ CurrentAt(u, n)' = CurrentAt(u, m)
      <4>1. CASE u # t
        BY <1>3, <4>1
      <4>2. CASE u = t /\ n <= k
        BY <1>1, <1>2, <1>4, <4>2
      <4>3. CASE u = t /\ n > k
        <5>1. n \in k..Len(frames'[t]) /\ k \in 0..Len(frames[t]) /\ k <= n
          BY <1>1, <1>2, <4>3
        <5> QED
          BY <1>5, <4>3, <5>1
      <4> QED
        BY <1>2, <4>1, <4>2, <4>3
    <3>2. 1..m \subseteq 1..n /\ 1..n \subseteq Nat
      BY <1>2, <3>1
    <3> DEFINE x == CurrentAt(u, m)
    <3>3. /\ x = NoCtx \/ Used(x)
          /\ \A c \in Range(Chain(x)) : EnclosedAt(u, m, c)
      BY DEF Nested, Enclosed
    <3> HIDE DEF x
    <3>4. ASSUME NEW c \in Range(Chain(x))
          PROVE  EnclosedAt(u, n, c)'
      <4>1. PICK v \in Tasks, i \in Nat : Entered(v, i, c) /\ ~frames[v][i].closing
        BY <3>3 DEF EnclosedAt
      <4>2. Entered(v, i, c)' /\ ~frames'[v][i].closing
        BY <1>6, <1>7, <4>1
      <4>3. (\E j \in 1..n : Entered(u, j, c)') \/ c \in Range(Chain(base[u]))
        BY <1>6, <3>2, <3>3 DEF EnclosedAt
      <4> QED
        BY <1>1, <4>2, <4>3 DEF EnclosedAt, Chain
    <3> QED
      BY <3>1, <3>3, <3>4 DEF x
  <2> QED
    BY <1>1, <2>1 DEF Enclosed, Chain, Used
<1>12. Chained'
  BY <1>1 DEF Nested, Chained, Used, Inherited
<1> QED
  BY <1>8, <1>9, <1>10, <1>11, <1>12 DEF Nested

-----------------------------------------------------------------------------
\* Leaving and entering contexts

\* The range of a sequence is what it holds.
LEMMA RangeFacts ==
    ASSUME NEW S, NEW s \in Seq(S)
    PROVE  /\ Range(s) \subseteq S
           /\ \A x : x \in Range(s) <=> \E i \in 1..Len(s) : x = s[i]
<1>1. DOMAIN s = 1..Len(s) /\ \A i \in 1..Len(s) : s[i] \in S
  BY LenProperties, ElementOfSeq
<1> QED
  BY <1>1 DEF Range

\* The chain of a context, or the empty one.
LEMMA ChainType ==
    ASSUME Typed, NEW c \in Ctxs \cup {NoCtx}
    PROVE  Chain(c) \in Seq(Ctxs)
<1>1. <<>> \in Seq(Ctxs)
  BY EmptySeq
<1> QED
  BY <1>1 DEF Chain, Typed, Contexts

\* Outside of every context there is no chain.
LEMMA NoChain == Range(Chain(NoCtx)) = {}
<1> DEFINE s == Chain(NoCtx)
<1>1. s \in Seq(Ctxs) /\ Len(s) = 0
  BY EmptySeq DEF Chain
<1> HIDE DEF s
<1>2. DOMAIN s = {}
  BY <1>1, LenProperties
<1> QED
  BY <1>2 DEF s, Range

\* A new context comes in front of the chain of the one outside.
LEMMA ChainGrows ==
    ASSUME NEW c \in Ctxs, NEW s \in Seq(Ctxs)
    PROVE  /\ <<c>> \o s \in Seq(Ctxs) /\ Len(s) \in Nat /\ Len(<<c>> \o s) = Len(s) + 1
           /\ (<<c>> \o s)[1] = c
           /\ \A i \in 2..(Len(s) + 1) : i - 1 \in 1..Len(s) /\ (<<c>> \o s)[i] = s[i - 1]
           /\ Range(<<c>> \o s) = {c} \cup Range(s)
<1>1. <<c>> \in Seq(Ctxs) /\ Len(<<c>>) = 1 /\ <<c>>[1] = c /\ Len(s) \in Nat
  BY LenProperties
<1> DEFINE r == <<c>> \o s
<1>2. /\ r \in Seq(Ctxs) /\ Len(r) = 1 + Len(s)
      /\ \A i \in 1..(1 + Len(s)) : r[i] = IF i <= 1 THEN <<c>>[i] ELSE s[i - 1]
  BY <1>1, ConcatProperties
<1> HIDE DEF r
<1>3. Len(r) = Len(s) + 1 /\ r[1] = c
  BY <1>1, <1>2
<1>4. \A i \in 2..(Len(s) + 1) : i - 1 \in 1..Len(s) /\ r[i] = s[i - 1]
  BY <1>1, <1>2
<1>5. ASSUME NEW x \in Range(r)
      PROVE  x \in {c} \cup Range(s)
  <2>1. PICK i \in 1..(Len(s) + 1) : x = r[i]
    BY <1>2, <1>3, RangeFacts
  <2>2. i = 1 \/ i \in 2..(Len(s) + 1)
    BY <1>1
  <2>3. i # 1 => x \in Range(s)
    BY <1>4, <2>1, <2>2, RangeFacts
  <2> QED
    BY <1>3, <2>1, <2>3
<1>6. ASSUME NEW x \in {c} \cup Range(s)
      PROVE  x \in Range(r)
  <2>1. CASE x = c
    <3>1. 1 \in 1..Len(r)
      BY <1>1, <1>3
    <3> QED
      BY <1>2, <1>3, <2>1, <3>1, RangeFacts
  <2>2. CASE x # c
    <3>1. PICK i \in 1..Len(s) : x = s[i]
      BY <2>2, RangeFacts
    <3>2. i + 1 \in 2..(Len(s) + 1) /\ i + 1 - 1 = i /\ i + 1 \in 1..Len(r)
      BY <1>1, <1>3
    <3>3. x = r[i + 1]
      BY <1>4, <3>1, <3>2
    <3> QED
      BY <1>2, <3>2, <3>3, RangeFacts
  <2> QED
    BY <2>1, <2>2
<1> QED
  BY <1>1, <1>2, <1>3, <1>4, <1>5, <1>6 DEF r

\* While the topmost frame of t is a context and no task spawned there is left, nothing
\* but what t does now is inside of that context.
LEMMA OnlyAbove ==
    ASSUME Typed, Nested, NEW t \in Tasks, NEW c,
           Entered(t, Len(frames[t]), c), Below(t, Len(frames[t]) - 1),
           NEW u \in Tasks, NEW m \in 0..Len(frames[u]), c \in Range(Chain(CurrentAt(u, m)))
    PROVE  u = t /\ m = Len(frames[t])
<1> DEFINE S == {v \in alive : c \in Range(Chain(base[v]))}
           n == Len(frames[t])
<1>0. \A v \in Tasks : Len(frames[v]) \in Nat
  BY FramesAt
<1>1. n \in Nat \ {0} /\ c \in Ctxs
  BY FramesAt, FrameFacts DEF Entered
<1>2. \A v \in Tasks : \A i \in Nat : Entered(v, i, c) => v = t /\ i = n
  BY <1>1 DEF Nested, EnteredOnce
<1>3. c \notin Range(Chain(NoCtx))
  BY NoChain
<1>4. ASSUME S # {}
      PROVE  FALSE
  <2>1. PICK v \in S : parent[v].task \notin S
    BY <1>4 DEF Nested, Families, Placed
  <2> DEFINE p == parent[v].task
             k == parent[v].at
  <2>2. p \in alive /\ k \in 0..Len(frames[p]) /\ base[v] = CurrentAt(p, k)
    BY <1>3, <2>1 DEF Nested, Families, Placed
  <2>3. EnclosedAt(p, k, c)
    BY <2>1, <2>2 DEF Nested, Enclosed, Typed
  <2>4. ~(\E i \in 1..k : Entered(p, i, c))
    <3> SUFFICES ASSUME NEW i \in 1..k, Entered(p, i, c)
                 PROVE  FALSE
      OBVIOUS
    <3>1. k \in Nat /\ i \in Nat /\ i <= k
      BY <1>0, <2>2 DEF Typed
    <3>2. p = t /\ i = n
      BY <1>2, <2>2, <3>1 DEF Typed
    <3>3. k <= n - 1
      BY <2>1, <3>2 DEF Below
    <3> QED
      BY <1>1, <3>1, <3>2, <3>3
  <2> QED
    BY <2>1, <2>2, <2>3, <2>4 DEF EnclosedAt
<1>5. c \notin Range(Chain(base[u]))
  <2>1. u \notin alive => base[u] = NoCtx
    BY DEF Nested, Families, Placed
  <2> QED
    BY <1>3, <1>4, <2>1
<1>6. PICK i \in 1..m : Entered(u, i, c)
  BY <1>5 DEF Nested, Enclosed, EnclosedAt
<1>7. i \in Nat /\ i <= m /\ m <= Len(frames[u])
  BY <1>0
<1>8. u = t /\ i = n
  BY <1>2, <1>6, <1>7
<1> QED
  BY <1>0, <1>7, <1>8

\* The variable is reset: the topmost context is on its way out.
LEMMA CloseKeeps ==
    ASSUME Typed, Nested, Typed', NEW t \in alive, NEW c, NEW n,
           n = Len(frames[t]), Entered(t, n, c), ~ctxs[c].inherits, Below(t, n - 1),
           \A u \in Tasks \ {t} : frames'[u] = frames[u],
           Len(frames'[t]) = n, \A i \in 1..(n - 1) : frames'[t][i] = frames[t][i],
           frames'[t][n].kind = "ctx", frames'[t][n].ctx = c, frames'[t][n].closing,
           UNCHANGED <<alive, base, parent, ctxs>>
    PROVE  Nested'
<1>1. t \in Tasks /\ alive' = alive /\ base' = base /\ parent' = parent /\ ctxs' = ctxs
  BY DEF Typed
<1>2. \A u \in Tasks : /\ Len(frames[u]) \in Nat /\ Len(frames'[u]) = Len(frames[u])
                       /\ \A i \in 1..Len(frames[u]) : frames[u][i] \in Frames
  BY <1>1, FramesAt
<1>3. n \in Nat \ {0} /\ c \in Ctxs
  BY <1>1, <1>2, FrameFacts DEF Entered
<1>4. ASSUME NEW u \in Tasks, NEW i \in 1..Len(frames[u]), u # t \/ i # n
      PROVE  frames'[u][i] = frames[u][i]
  <2>1. u = t => i \in 1..(n - 1)
    BY <1>2, <1>3, <1>4
  <2> QED
    BY <2>1
<1>5. ASSUME NEW u \in Tasks, NEW m \in 0..Len(frames[u]), u # t \/ m # n
      PROVE  CurrentAt(u, m)' = CurrentAt(u, m)
  <2>1. m \in Nat /\ \A i \in 1..m : i \in 1..Len(frames[u]) /\ (u # t \/ i # n)
    BY <1>2, <1>5
  <2>2. \A i \in 1..m : frames'[u][i] = frames[u][i]
    BY <1>4, <2>1
  <2> QED
    BY <1>1, <2>1, <2>2, CurrentKept
<1>6. CurrentAt(t, n)' = CurrentAt(t, n - 1)
  <2>1. ~Opens(frames'[t][n])
    BY DEF Opens
  <2>2. n - 1 \in Nat /\ n - 1 + 1 = n /\ n - 1 \in 0..Len(frames[t]) /\ n - 1 # n
    BY <1>3
  <2>3. CurrentIn(frames'[t], base'[t], n) = CurrentIn(frames'[t], base'[t], n - 1)
    BY <2>1, <2>2, CurrentSteps
  <2>4. CurrentAt(t, n - 1)' = CurrentAt(t, n - 1)
    BY <1>1, <1>5, <2>2
  <2> QED
    BY <2>3, <2>4 DEF CurrentAt
<1>7. ASSUME NEW u \in Tasks, NEW i \in Nat, NEW x
      PROVE  Entered(u, i, x)' <=> Entered(u, i, x)
  <2>1. CASE u = t /\ i = n
    BY <1>1, <1>2, <1>3, <2>1 DEF Entered, IsCtx
  <2>2. CASE u # t \/ i # n
    BY <1>2, <1>4, <2>2 DEF Entered, IsCtx
  <2> QED
    BY <2>1, <2>2
<1>8. ASSUME NEW u \in Tasks, NEW m \in 0..Len(frames[u]), u # t \/ m # n
      PROVE  c \notin Range(Chain(CurrentAt(u, m)))
  BY <1>1, <1>8, OnlyAbove
<1>9. Families'
  <2>1. ASSUME NEW u \in Tasks \ alive
        PROVE  frames'[u] = <<>> /\ base'[u] = NoCtx /\ parent'[u].task = NoCtx
    BY <1>1 DEF Nested, Families, Placed
  <2>2. ASSUME NEW u \in alive, parent[u].task \in alive,
               parent[u].at \in 0..Len(frames[parent[u].task]),
               base[u] = CurrentAt(parent[u].task, parent[u].at),
               parent[u].at > 0 => Firm(frames[parent[u].task][parent[u].at])
        PROVE  /\ parent[u].at \in 0..Len(frames'[parent[u].task])
               /\ base[u] = CurrentAt(parent[u].task, parent[u].at)'
               /\ parent[u].at > 0 => Firm(frames'[parent[u].task][parent[u].at])
    <3>1. parent[u].task \in Tasks /\ parent[u].at \in Nat
      BY <2>2, <1>2 DEF Typed
    <3>2. parent[u].task # t \/ parent[u].at # n
      <4>1. parent[u].task = t => parent[u].at <= n - 1
        BY DEF Below
      <4> QED
        BY <1>3, <3>1, <4>1
    <3>3. parent[u].at > 0 => frames'[parent[u].task][parent[u].at] = frames[parent[u].task][parent[u].at]
      <4>1. parent[u].at > 0 => parent[u].at \in 1..Len(frames[parent[u].task])
        BY <2>2, <3>1, <1>2
      <4> QED
        BY <1>4, <3>1, <3>2, <4>1
    <3> QED
      BY <1>2, <1>5, <2>2, <3>1, <3>2, <3>3
  <2>3. ASSUME NEW u \in alive
        PROVE  \/ parent[u].task = NoCtx /\ base[u] = NoCtx
               \/ /\ parent[u].task \in alive
                  /\ parent[u].at \in 0..Len(frames'[parent[u].task])
                  /\ base[u] = CurrentAt(parent[u].task, parent[u].at)'
                  /\ parent[u].at > 0 => Firm(frames'[parent[u].task][parent[u].at])
    BY <2>2 DEF Nested, Families, Placed
  <2>4. \A S \in SUBSET alive : S # {} => \E u \in S : parent[u].task \notin S
    BY DEF Nested, Families, Placed
  <2>5. \A u \in alive : Placed(u)'
    BY <1>1, <2>3 DEF Placed, Firm, Opens, IsCtx, IsResolve
  <2> QED
    BY <1>1, <2>1, <2>4, <2>5 DEF Families
<1>10. Layered'
  <2> SUFFICES ASSUME NEW u \in Tasks, NEW i \in 1..Len(frames'[u])
               PROVE  LayeredAt(u, i)'
    BY DEF Layered
  <2>0. i \in 1..Len(frames[u])
    BY <1>2
  <2>1. i - 1 \in 0..Len(frames[u]) /\ (u # t \/ i - 1 # n)
    BY <1>2, <2>0
  <2>2. CurrentAt(u, i - 1)' = CurrentAt(u, i - 1)
    BY <1>5, <2>1
  <2>3. LET f == frames[u][i]
        IN  /\ IsCtx(f) => Around(f.ctx, CurrentAt(u, i - 1)) /\ (f.closing => ~ctxs[f.ctx].inherits)
            /\ IsResolve(f) => f.ctx = CurrentAt(u, i - 1)
    BY <2>0 DEF Nested, Layered, LayeredAt
  <2>6. LET f == frames'[u][i]
            outer == CurrentAt(u, i - 1)'
        IN  /\ IsCtx(f) => Around(f.ctx, outer) /\ (f.closing => ~ctxs[f.ctx].inherits)
            /\ IsResolve(f) => f.ctx = outer
    <3>1. CASE u = t /\ i = n
      BY <2>2, <2>3, <3>1 DEF Entered, IsCtx, IsResolve
    <3>2. CASE u # t \/ i # n
      BY <1>4, <2>0, <2>2, <2>3, <3>2
    <3> QED
      BY <3>1, <3>2
  <2> QED
    BY <1>1, <2>6 DEF LayeredAt, Around, IsCtx, IsResolve, Chain, Used
<1>11. EnteredOnce'
  BY <1>1, <1>7 DEF Nested, EnteredOnce, Used
<1>12. Enclosed'
  <2>1. ASSUME NEW u \in Tasks, NEW n2 \in 0..Len(frames[u])
        PROVE  /\ CurrentAt(u, n2)' = NoCtx \/ Used(CurrentAt(u, n2)')
               /\ \A x \in Range(Chain(CurrentAt(u, n2)')) : EnclosedAt(u, n2, x)'
    <3>1. PICK m \in 0..Len(frames[u]) : /\ m <= n2 /\ CurrentAt(u, n2)' = CurrentAt(u, m)
                                         /\ u # t \/ m # n
      <4>1. CASE u # t \/ n2 # n
        BY <1>2, <1>5, <4>1
      <4>2. CASE u = t /\ n2 = n
        <5>1. n - 1 \in 0..Len(frames[u]) /\ n - 1 <= n /\ n - 1 # n
          BY <1>3, <4>2
        <5> QED
          BY <1>6, <4>2, <5>1
      <4> QED
        BY <4>1, <4>2
    <3>2. 1..m \subseteq 1..n2 /\ 1..n2 \subseteq Nat
      BY <1>2, <3>1
    <3> DEFINE y == CurrentAt(u, m)
    <3>3. /\ y = NoCtx \/ Used(y)
          /\ \A x \in Range(Chain(y)) : EnclosedAt(u, m, x) /\ x # c
      BY <1>8, <3>1 DEF Nested, Enclosed
    <3> HIDE DEF y
    <3>4. ASSUME NEW x \in Range(Chain(y))
          PROVE  EnclosedAt(u, n2, x)'
      <4>1. PICK v \in Tasks, i \in Nat : Entered(v, i, x) /\ ~frames[v][i].closing
        BY <3>3 DEF EnclosedAt
      <4>2. Entered(v, i, x)' /\ ~frames'[v][i].closing
        <5>1. v # t \/ i # n
          BY <3>3, <4>1 DEF Entered
        <5>2. frames'[v][i] = frames[v][i]
          BY <1>4, <4>1, <5>1 DEF Entered
        <5> QED
          BY <1>7, <4>1, <5>2
      <4>3. (\E j \in 1..n2 : Entered(u, j, x)') \/ x \in Range(Chain(base[u]))
        BY <1>7, <3>2, <3>3 DEF EnclosedAt
      <4> QED
        BY <1>1, <4>2, <4>3 DEF EnclosedAt, Chain
    <3> QED
      BY <3>1, <3>3, <3>4 DEF y
  <2> QED
    BY <1>1, <1>2, <2>1 DEF Enclosed, Chain, Used
<1>13. Chained'
  BY <1>1 DEF Nested, Chained, Used, Inherited
<1> QED
  BY <1>9, <1>10, <1>11, <1>12, <1>13 DEF Nested

\* The topmost context is left and forgotten.
LEMMA ForgetKeeps ==
    ASSUME Typed, Nested, Typed', NEW t \in alive, NEW c, NEW n,
           n = Len(frames[t]), Entered(t, n, c), Below(t, n - 1),
           \A u \in Tasks \ {t} : frames'[u] = frames[u],
           Len(frames'[t]) = n - 1, \A i \in 1..(n - 1) : frames'[t][i] = frames[t][i],
           ctxs' = [ctxs EXCEPT ![c] = Unused],
           UNCHANGED <<alive, base, parent>>
    PROVE  Nested'
<1>1. t \in Tasks /\ alive' = alive /\ base' = base /\ parent' = parent
  BY DEF Typed
<1>2. \A u \in Tasks : /\ Len(frames[u]) \in Nat /\ Len(frames'[u]) \in Nat
                       /\ Len(frames'[u]) <= Len(frames[u])
                       /\ \A i \in 1..Len(frames[u]) : frames[u][i] \in Frames
  BY <1>1, FramesAt
<1>3. n \in Nat \ {0} /\ c \in Ctxs
  BY <1>1, <1>2, FrameFacts DEF Entered
<1>4. ASSUME NEW u \in Tasks
      PROVE  /\ Len(frames'[u]) = IF u = t THEN n - 1 ELSE Len(frames[u])
             /\ \A i \in 1..Len(frames'[u]) :
                   i \in 1..Len(frames[u]) /\ (u # t \/ i # n) /\ frames'[u][i] = frames[u][i]
  BY <1>2, <1>3, SMTT(20)
<1>5. ASSUME NEW u \in Tasks, NEW m \in 0..Len(frames'[u])
      PROVE  /\ m \in 0..Len(frames[u]) /\ (u # t \/ m # n)
             /\ CurrentAt(u, m)' = CurrentAt(u, m)
  <2>1. m \in Nat /\ \A i \in 1..m : i \in 1..Len(frames'[u])
    BY <1>2
  <2>2. \A i \in 1..m : frames'[u][i] = frames[u][i]
    BY <1>4, <2>1
  <2>3. m \in 0..Len(frames[u]) /\ (u # t \/ m # n)
    BY <1>2, <1>3, <1>4
  <2> QED
    BY <1>1, <2>1, <2>2, <2>3, CurrentKept
<1>6. ASSUME NEW u \in Tasks, NEW i \in Nat, NEW x
      PROVE  Entered(u, i, x)' <=> Entered(u, i, x) /\ (u # t \/ i # n)
  <2>1. i \in 1..Len(frames'[u]) <=> i \in 1..Len(frames[u]) /\ (u # t \/ i # n)
    BY <1>2, <1>3, <1>4
  <2> QED
    BY <1>4, <2>1 DEF Entered, IsCtx
<1>7. ASSUME NEW u \in Tasks, NEW i \in Nat, NEW x, Entered(u, i, x)
      PROVE  /\ x = c <=> u = t /\ i = n
             /\ x \in Ctxs
  <2>1. x \in Ctxs
    BY <1>2, <1>7, FrameFacts DEF Entered
  <2> QED
    BY <1>1, <1>3, <1>7, <2>1, SMTT(20) DEF Nested, EnteredOnce, Entered
<1>8. ASSUME NEW u \in Tasks, NEW m \in 0..Len(frames[u]), u # t \/ m # n
      PROVE  c \notin Range(Chain(CurrentAt(u, m))) /\ CurrentAt(u, m) # c
  <2>1. c \notin Range(Chain(CurrentAt(u, m)))
    BY <1>1, <1>8, OnlyAbove
  <2>2. CurrentAt(u, m) = c => c \in Range(Chain(CurrentAt(u, m)))
    <3> SUFFICES ASSUME CurrentAt(u, m) = c
                 PROVE  c \in Range(ctxs[c].chain)
      BY <1>3, InjectionAssumption DEF Chain
    <3>1. Used(c)
      BY <1>3, InjectionAssumption DEF Nested, Enclosed
    <3>2. ctxs[c].chain \in Seq(Ctxs) /\ ctxs[c].chain # <<>> /\ ctxs[c].chain[1] = c
      BY <1>3, <3>1 DEF Nested, Chained, Typed, Contexts
    <3>3. 1 \in 1..Len(ctxs[c].chain)
      BY <3>2, EmptySeq
    <3> QED
      BY <3>2, <3>3, RangeFacts
  <2> QED
    BY <2>1, <2>2
<1>9. ASSUME NEW x \in Ctxs
      PROVE  /\ x # c => ctxs'[x] = ctxs[x]
             /\ Used(x)' <=> Used(x) /\ x # c
  BY <1>3 DEF Typed, Used
<1>10. ASSUME NEW u \in Tasks, NEW m \in 0..Len(frames'[u])
       PROVE  /\ Chain(CurrentAt(u, m))' = Chain(CurrentAt(u, m))
              /\ CurrentAt(u, m) \in Ctxs => ctxs'[CurrentAt(u, m)] = ctxs[CurrentAt(u, m)]
  <2>1. CurrentAt(u, m) # c /\ CurrentAt(u, m)' = CurrentAt(u, m)
    BY <1>5, <1>8
  <2>2. CurrentAt(u, m) \in Ctxs \cup {NoCtx}
    BY <1>5, CurrentType
  <2> QED
    BY <1>9, <2>1, <2>2 DEF Chain
<1>11. Families'
  <2>1. ASSUME NEW u \in Tasks \ alive
        PROVE  frames'[u] = <<>> /\ base'[u] = NoCtx /\ parent'[u].task = NoCtx
    BY <1>1 DEF Nested, Families, Placed
  <2>2. ASSUME NEW u \in alive, parent[u].task \in alive,
               parent[u].at \in 0..Len(frames[parent[u].task]),
               base[u] = CurrentAt(parent[u].task, parent[u].at),
               parent[u].at > 0 => Firm(frames[parent[u].task][parent[u].at])
        PROVE  /\ parent[u].at \in 0..Len(frames'[parent[u].task])
               /\ base[u] = CurrentAt(parent[u].task, parent[u].at)'
               /\ parent[u].at > 0 => Firm(frames'[parent[u].task][parent[u].at])
    <3>1. parent[u].task \in Tasks /\ parent[u].at \in Nat
      BY <1>2, <2>2 DEF Typed
    <3>2. parent[u].at \in 0..Len(frames'[parent[u].task])
      <4>1. parent[u].task = t => parent[u].at <= n - 1
        BY DEF Below
      <4> QED
        BY <1>2, <1>3, <1>4, <2>2, <3>1, <4>1
    <3>3. parent[u].at > 0 => frames'[parent[u].task][parent[u].at] = frames[parent[u].task][parent[u].at]
      <4>1. parent[u].at > 0 => parent[u].at \in 1..Len(frames'[parent[u].task])
        BY <1>2, <3>1, <3>2
      <4> QED
        BY <1>4, <3>1, <4>1
    <3> QED
      BY <1>5, <2>2, <3>1, <3>2, <3>3
  <2>3. ASSUME NEW u \in alive
        PROVE  \/ parent[u].task = NoCtx /\ base[u] = NoCtx
               \/ /\ parent[u].task \in alive
                  /\ parent[u].at \in 0..Len(frames'[parent[u].task])
                  /\ base[u] = CurrentAt(parent[u].task, parent[u].at)'
                  /\ parent[u].at > 0 => Firm(frames'[parent[u].task][parent[u].at])
    BY <2>2 DEF Nested, Families, Placed
  <2>4. \A S \in SUBSET alive : S # {} => \E u \in S : parent[u].task \notin S
    BY DEF Nested, Families, Placed
  <2> QED
    BY <1>1, <2>1, <2>3, <2>4 DEF Families, Placed, Firm, Opens, IsCtx, IsResolve
<1>12. Layered'
  <2> SUFFICES ASSUME NEW u \in Tasks, NEW i \in 1..Len(frames'[u])
               PROVE  LayeredAt(u, i)'
    BY DEF Layered
  <2>0. PICK f, outer : f = frames[u][i] /\ outer = CurrentAt(u, i - 1)
    OBVIOUS
  <2>1. /\ i \in 1..Len(frames[u]) /\ (u # t \/ i # n) /\ frames'[u][i] = f
        /\ i - 1 \in 0..Len(frames'[u]) /\ i \in Nat
    BY <1>2, <1>4, <2>0
  <2>2. CurrentAt(u, i - 1)' = outer
    BY <1>5, <2>0, <2>1
  <2>3. /\ IsCtx(f) => Around(f.ctx, outer) /\ (f.closing => ~ctxs[f.ctx].inherits)
        /\ IsResolve(f) => f.ctx = outer
    BY <2>0, <2>1 DEF Nested, Layered, LayeredAt
  <2>4. ASSUME IsCtx(f)
        PROVE  f.ctx \in Ctxs /\ f.ctx # c
    BY <1>7, <2>0, <2>1, <2>4 DEF Entered
  <2>5. outer \in Ctxs \cup {NoCtx} /\ (outer # NoCtx => ctxs'[outer] = ctxs[outer])
    BY <1>5, <1>10, <2>0, <2>1, CurrentType
  <2>6. IsCtx(f) => Around(f.ctx, outer)'
    BY <1>9, <2>3, <2>4, <2>5 DEF Around, Chain, Used
  <2>7. IsCtx(f) /\ f.closing => ~ctxs'[f.ctx].inherits
    BY <1>9, <2>3, <2>4
  <2> QED
    BY <2>1, <2>2, <2>3, <2>6, <2>7 DEF LayeredAt, IsCtx, IsResolve, Around, Chain, Used
<1>13. EnteredOnce'
  <2>1. \A x \in Ctxs : Used(x)' => \E u \in Tasks : \E i \in Nat : Entered(u, i, x)'
    <3> SUFFICES ASSUME NEW x \in Ctxs, Used(x), x # c
                 PROVE  \E u \in Tasks : \E i \in Nat : Entered(u, i, x)'
      BY <1>9
    <3>1. PICK u \in Tasks, i \in Nat : Entered(u, i, x)
      BY DEF Nested, EnteredOnce
    <3> QED
      BY <1>6, <1>7, <3>1
  <2>2. \A u, v \in Tasks : \A i, j \in Nat : \A x \in Ctxs :
            Entered(u, i, x)' /\ Entered(v, j, x)' => u = v /\ i = j
    BY <1>6 DEF Nested, EnteredOnce
  <2> QED
    BY <2>1, <2>2 DEF EnteredOnce
<1>14. Enclosed'
  <2>1. ASSUME NEW u \in Tasks, NEW m \in 0..Len(frames'[u])
        PROVE  /\ CurrentAt(u, m)' = NoCtx \/ Used(CurrentAt(u, m))'
               /\ \A x \in Range(Chain(CurrentAt(u, m))') : EnclosedAt(u, m, x)'
    <3>0. PICK y : y = CurrentAt(u, m)
      OBVIOUS
    <3>1. m \in 0..Len(frames[u]) /\ (u # t \/ m # n) /\ CurrentAt(u, m)' = y /\ 1..m \subseteq Nat
      BY <1>2, <1>5, <3>0
    <3>2. /\ y = NoCtx \/ Used(y)
          /\ \A x \in Range(Chain(y)) : EnclosedAt(u, m, x) /\ x # c
      BY <1>8, <3>0, <3>1 DEF Nested, Enclosed
    <3>3. y \in Ctxs \cup {NoCtx} /\ y # c
      BY <1>8, <3>0, <3>1, CurrentType
    <3>4. y = NoCtx \/ Used(y)'
      BY <1>9, <3>2, <3>3
    <3>5. Chain(CurrentAt(u, m))' = Chain(y)
      BY <1>10, <3>0
    <3>6. ASSUME NEW x \in Range(Chain(y))
          PROVE  EnclosedAt(u, m, x)'
      <4>1. PICK v \in Tasks, i \in Nat : Entered(v, i, x) /\ ~frames[v][i].closing
        BY <3>2 DEF EnclosedAt
      <4>2. Entered(v, i, x)' /\ ~frames'[v][i].closing
        <5>1. Entered(v, i, x)'
          BY <1>6, <1>7, <3>2, <4>1
        <5>2. frames'[v][i] = frames[v][i]
          BY <1>4, <5>1 DEF Entered
        <5> QED
          BY <4>1, <5>1, <5>2
      <4>3. (\E j \in 1..m : Entered(u, j, x)') \/ x \in Range(Chain(base[u]))
        <5> SUFFICES ASSUME NEW j \in 1..m, Entered(u, j, x)
                     PROVE  Entered(u, j, x)'
          BY <3>2 DEF EnclosedAt
        <5> QED
          BY <1>6, <1>7, <3>1, <3>2
      <4>4. Chain(base[u])' = Chain(base[u])
        <5>1. 0 \in 0..Len(frames'[u]) /\ CurrentAt(u, 0) = base[u] /\ CurrentAt(u, 0)' = base'[u]
          BY <1>2, CurrentSteps DEF CurrentAt
        <5> QED
          BY <1>10, <5>1 DEF Chain
      <4> QED
        BY <1>1, <4>2, <4>3, <4>4 DEF EnclosedAt
    <3> QED
      BY <3>1, <3>4, <3>5, <3>6 DEF Used
  <2> QED
    BY <1>1, <2>1 DEF Enclosed
<1>15. Chained'
  <2> SUFFICES ASSUME NEW x \in Ctxs, Used(x), x # c
               PROVE  /\ ctxs'[x].chain # <<>> /\ ctxs'[x].chain[1] = x
                      /\ \A y \in Range(ctxs'[x].chain) : Used(y)'
                      /\ ctxs'[x].scope \in Range(ctxs'[x].chain)
                      /\ \A i \in Inherited(x)' : ctxs'[ctxs'[x].chain[i]].scope = ctxs'[x].scope
    BY <1>9 DEF Chained
  <2>1. ctxs'[x] = ctxs[x] /\ ctxs[x].chain \in Seq(Ctxs)
    BY <1>9 DEF Typed, Contexts
  <2>2. c \notin Range(ctxs[x].chain)
    <3>1. PICK u \in Tasks, i \in Nat : Entered(u, i, x)
      BY DEF Nested, EnteredOnce
    <3>2. i \in 1..Len(frames[u]) /\ i - 1 \in 0..Len(frames[u]) /\ (u # t \/ i - 1 # n)
      BY <1>2, <3>1 DEF Entered
    <3>3. ctxs[x].chain = <<x>> \o Chain(CurrentAt(u, i - 1))
      BY <3>1, <3>2 DEF Nested, Layered, LayeredAt, Around, Entered
    <3>4. Chain(CurrentAt(u, i - 1)) \in Seq(Ctxs)
      BY <3>2, CurrentType, ChainType
    <3>5. Range(ctxs[x].chain) = {x} \cup Range(Chain(CurrentAt(u, i - 1)))
      BY <3>3, <3>4, ChainGrows
    <3> QED
      BY <1>8, <3>2, <3>5
  <2>3. \A y \in Range(ctxs[x].chain) : y \in Ctxs /\ y # c /\ Used(y) /\ ctxs'[y] = ctxs[y]
    BY <1>9, <2>1, <2>2, RangeFacts DEF Nested, Chained
  <2>4. \A i \in 1..Len(ctxs[x].chain) : ctxs[x].chain[i] \in Range(ctxs[x].chain)
    BY <2>1, RangeFacts
  <2>5. Len(ctxs[x].chain) \in Nat
    BY <2>1, LenProperties
  <2>6. Inherited(x)' = Inherited(x)
    <3>1. \A i \in 2..Len(ctxs[x].chain) : \A j \in 1..(i - 1) : j \in 1..Len(ctxs[x].chain)
      BY <2>5
    <3>2. \A j \in 1..Len(ctxs[x].chain) : ctxs'[ctxs[x].chain[j]] = ctxs[ctxs[x].chain[j]]
      BY <2>3, <2>4
    <3> QED
      BY <2>1, <3>1, <3>2 DEF Inherited
  <2>7. \A i \in Inherited(x) : i \in 1..Len(ctxs[x].chain)
    BY <2>5 DEF Inherited
  <2> QED
    BY <1>9, <2>1, <2>3, <2>4, <2>6, <2>7 DEF Nested, Chained
<1> QED
  BY <1>11, <1>12, <1>13, <1>14, <1>15 DEF Nested

\* What is made of a context that is not in use.
Makes(c, x, outer) ==
    /\ x.chain = <<c>> \o Chain(outer)
    /\ IF x.inherits
       THEN x.scope = IF outer = NoCtx THEN c ELSE ctxs[outer].scope
       ELSE x.scope = c

\* The chain of a new context is a chain.
LEMMA NewChain ==
    ASSUME Typed, Nested, NEW c \in Ctxs, NEW x, NEW outer \in Ctxs \cup {NoCtx},
           ~Used(c), outer = NoCtx \/ Used(outer), Makes(c, x, outer), Typed',
           ctxs' = [ctxs EXCEPT ![c] = x]
    PROVE  Chained' /\ Used(c)' /\ \A d \in Ctxs : Used(d) => ctxs'[d] = ctxs[d] /\ Used(d)'
<1> DEFINE s == Chain(outer)
           r == x.chain
<1>1. s \in Seq(Ctxs)
  BY ChainType
<1>2. /\ r \in Seq(Ctxs) /\ Len(s) \in Nat /\ Len(r) = Len(s) + 1 /\ r[1] = c
      /\ \A i \in 2..(Len(s) + 1) : i - 1 \in 1..Len(s) /\ r[i] = s[i - 1]
      /\ Range(r) = {c} \cup Range(s)
  <2>1. r = <<c>> \o s
    BY DEF Makes
  <2> HIDE DEF r, s
  <2> QED
    BY <1>1, <2>1, ChainGrows
<1>3. r # <<>>
  <2>1. Len(r) # 0
    <3> HIDE DEF r, s
    <3> QED
      BY <1>2
  <2> QED
    BY <2>1, EmptySeq
<1>4. ctxs'[c] = x /\ \A d \in Ctxs \ {c} : ctxs'[d] = ctxs[d]
  BY DEF Typed
<1>5. Used(c)'
  BY <1>3, <1>4 DEF Used, Unused
<1>6. \A d \in Ctxs : Used(d) => ctxs'[d] = ctxs[d] /\ Used(d)'
  BY <1>4 DEF Used
<1>7. ASSUME NEW d \in Ctxs, Used(d)
      PROVE  \A y \in Range(ctxs[d].chain) : y \in Ctxs /\ Used(y) /\ ctxs'[y] = ctxs[y]
  <2>1. ctxs[d].chain \in Seq(Ctxs)
    BY DEF Typed, Contexts
  <2> QED
    BY <1>6, <1>7, <2>1, RangeFacts DEF Nested, Chained
<1>8. ASSUME NEW d \in Ctxs, Used(d)
      PROVE  /\ ctxs'[d].chain # <<>> /\ ctxs'[d].chain[1] = d
             /\ \A y \in Range(ctxs'[d].chain) : Used(y)'
             /\ ctxs'[d].scope \in Range(ctxs'[d].chain)
             /\ \A i \in Inherited(d)' : ctxs'[ctxs'[d].chain[i]].scope = ctxs'[d].scope
  <2>1. ctxs'[d] = ctxs[d] /\ ctxs[d].chain \in Seq(Ctxs) /\ Len(ctxs[d].chain) \in Nat
    BY <1>6, <1>8, LenProperties DEF Typed, Contexts
  <2>2. \A j \in 1..Len(ctxs[d].chain) : ctxs'[ctxs[d].chain[j]] = ctxs[ctxs[d].chain[j]]
    BY <1>7, <1>8, <2>1, RangeFacts
  <2>3. Inherited(d)' = Inherited(d)
    <3>1. \A i \in 2..Len(ctxs[d].chain) : \A j \in 1..(i - 1) : j \in 1..Len(ctxs[d].chain)
      BY <2>1
    <3> QED
      BY <2>1, <2>2, <3>1, ZenonT(30) DEF Inherited
  <2>4. \A i \in Inherited(d) : i \in 1..Len(ctxs[d].chain)
    BY <2>1 DEF Inherited
  <2> QED
    BY <1>6, <1>7, <1>8, <2>1, <2>2, <2>3, <2>4 DEF Nested, Chained
<1>9. \A y \in Range(s) : outer # NoCtx /\ y \in Ctxs /\ Used(y) /\ ctxs'[y] = ctxs[y]
  <2>1. \A y \in Range(s) : outer # NoCtx
    BY NoChain
  <2>2. outer # NoCtx => s = ctxs[outer].chain
    BY DEF Chain
  <2> HIDE DEF s
  <2> QED
    BY <1>7, <2>1, <2>2
<1>10. outer # NoCtx => outer \in Ctxs /\ Used(outer) /\ s = ctxs[outer].chain
  BY DEF Chain
<1>11. x.scope \in Range(r)
  <2>1. outer # NoCtx => ctxs[outer].scope \in Range(s)
    <3> HIDE DEF s
    <3> QED
      BY <1>10 DEF Nested, Chained
  <2> QED
    BY <1>2, <2>1 DEF Makes
<1>12. ASSUME NEW i \in Inherited(c)'
       PROVE  ctxs'[r[i]].scope = x.scope
  <2>1. i \in 2..(Len(s) + 1) /\ \A j \in 1..(i - 1) : ctxs'[r[j]].inherits
    <3>1. i \in 2..Len(ctxs'[c].chain) /\ \A j \in 1..(i - 1) : ctxs'[ctxs'[c].chain[j]].inherits
      BY <1>12 DEF Inherited
    <3>2. ctxs'[c].chain = r
      BY <1>4
    <3> HIDE DEF r, s
    <3> QED
      BY <1>2, <3>1, <3>2
  <2>2. i - 1 \in 1..Len(s) /\ r[i] = s[i - 1] /\ i \in Nat
    BY <1>2, <2>1
  <2>3. s[i - 1] \in Range(s)
    <3> HIDE DEF s
    <3> QED
      BY <1>1, <2>2, RangeFacts
  <2>4. outer # NoCtx /\ ctxs'[r[i]] = ctxs[s[i - 1]]
    BY <1>9, <2>2, <2>3
  <2>5. x.scope = ctxs[outer].scope
    <3>1. 1 \in 1..(i - 1)
      BY <2>1
    <3>2. x.inherits
      BY <1>2, <1>4, <2>1, <3>1
    <3> QED
      BY <2>4, <3>2 DEF Makes
  <2>6. CASE i = 2
    <3>1. s[1] = outer
      BY <1>10, <2>4 DEF Nested, Chained
    <3> QED
      BY <2>2, <2>4, <2>5, <2>6, <3>1
  <2>7. CASE i # 2
    <3>1. i - 1 \in 2..Len(s)
      <4> HIDE DEF s
      <4> QED
        BY <2>1, <2>2, <2>7
    <3>2. ASSUME NEW j \in 1..(i - 1 - 1)
          PROVE  ctxs[s[j]].inherits
      <4>1. j + 1 \in 1..(i - 1) /\ j + 1 \in 2..(Len(s) + 1) /\ j + 1 - 1 = j /\ j \in 1..Len(s)
        <5> HIDE DEF s
        <5> QED
          BY <1>2, <2>1, <2>2
      <4>2. r[j + 1] = s[j] /\ ctxs'[r[j + 1]].inherits
        BY <1>2, <2>1, <4>1
      <4>3. s[j] \in Range(s)
        <5> HIDE DEF s
        <5> QED
          BY <1>1, <4>1, RangeFacts
      <4> QED
        BY <1>9, <4>2, <4>3
    <3>3. i - 1 \in Inherited(outer)
      BY <1>10, <2>4, <3>1, <3>2 DEF Inherited
    <3>4. ctxs[s[i - 1]].scope = ctxs[outer].scope
      BY <1>10, <2>4, <3>3 DEF Nested, Chained
    <3> QED
      BY <2>4, <2>5, <3>4
  <2> QED
    BY <2>6, <2>7
<1>13. /\ ctxs'[c].chain # <<>> /\ ctxs'[c].chain[1] = c
       /\ \A y \in Range(ctxs'[c].chain) : Used(y)'
       /\ ctxs'[c].scope \in Range(ctxs'[c].chain)
       /\ \A i \in Inherited(c)' : ctxs'[ctxs'[c].chain[i]].scope = ctxs'[c].scope
  <2>1. \A y \in Range(r) : Used(y)'
    <3> HIDE DEF r, s
    <3> QED
      BY <1>2, <1>5, <1>6, <1>9
  <2> QED
    BY <1>2, <1>3, <1>4, <1>11, <1>12, <2>1
<1>14. \A d \in Ctxs : Used(d)' => d = c \/ Used(d)
  BY <1>4 DEF Used
<1>15. Chained'
  BY <1>8, <1>13, <1>14 DEF Chained
<1> QED
  BY <1>5, <1>6, <1>15

\* A context is entered, and perhaps a resolution begins in it.
LEMMA OpenKeeps ==
    ASSUME Typed, Nested, Typed', NEW t \in alive, NEW c \in Ctxs, NEW x, NEW n,
           n = Len(frames[t]), ~Used(c), Makes(c, x, CurrentAt(t, n)),
           ctxs' = [ctxs EXCEPT ![c] = x],
           \A u \in Tasks \ {t} : frames'[u] = frames[u],
           Len(frames'[t]) > n, \A i \in 1..n : frames'[t][i] = frames[t][i],
           frames'[t][n + 1].kind = "ctx", frames'[t][n + 1].ctx = c, ~frames'[t][n + 1].closing,
           \A i \in (n + 2)..Len(frames'[t]) : IsResolve(frames'[t][i]) /\ frames'[t][i].ctx = c,
           UNCHANGED <<alive, base, parent>>
    PROVE  Nested'
<1>1. t \in Tasks /\ alive' = alive /\ base' = base /\ parent' = parent
  BY DEF Typed
<1>2. \A u \in Tasks : /\ Len(frames[u]) \in Nat /\ Len(frames'[u]) \in Nat
                       /\ Len(frames[u]) <= Len(frames'[u])
                       /\ \A i \in 1..Len(frames[u]) : frames[u][i] \in Frames
                       /\ \A i \in 1..Len(frames'[u]) : frames'[u][i] \in Frames
  <2>1. \A u \in Tasks : frames'[u] \in Seq(Frames)
    BY DEF Typed
  <2>2. \A u \in Tasks : /\ Len(frames'[u]) \in Nat
                         /\ \A i \in 1..Len(frames'[u]) : frames'[u][i] \in Frames
    BY <2>1, LenProperties, ElementOfSeq
  <2> QED
    BY <1>1, <2>2, FramesAt
<1>3. n \in Nat /\ n \in 0..Len(frames[t])
  BY <1>1, <1>2
<1>4. ASSUME NEW u \in Tasks, NEW i \in 1..Len(frames[u])
      PROVE  i \in 1..Len(frames'[u]) /\ frames'[u][i] = frames[u][i]
  BY <1>2
<1>5. ASSUME NEW u \in Tasks, NEW m \in 0..Len(frames[u])
      PROVE  CurrentAt(u, m)' = CurrentAt(u, m)
  <2>1. m \in Nat /\ \A i \in 1..m : i \in 1..Len(frames[u])
    BY <1>2
  <2>2. \A i \in 1..m : frames'[u][i] = frames[u][i]
    BY <1>4, <2>1
  <2> QED
    BY <1>1, <2>1, <2>2, CurrentKept
<1>6. ASSUME NEW m \in (n + 1)..Len(frames'[t])
      PROVE  CurrentAt(t, m)' = c
  <2>1. Opens(frames'[t][n + 1])
    BY DEF Opens, IsCtx
  <2>2. CurrentIn(frames'[t], base'[t], n + 1) = c
    <3>1. n \in Nat /\ frames'[t][n + 1].ctx = c
      BY <1>3
    <3>2. PICK fs, b : fs = frames'[t] /\ b = base'[t]
      OBVIOUS
    <3>3. Opens(fs[n + 1]) => CurrentIn(fs, b, n + 1) = fs[n + 1].ctx
      BY ONLY <3>1, CurrentOpened
    <3> QED
      BY ONLY <2>1, <3>1, <3>2, <3>3
  <2>3. n + 1 \in Nat /\ m \in Nat /\ n + 1 <= m /\ n + 1 + 1 = n + 2
    BY <1>1, <1>2, <1>3
  <2>4. \A i \in (n + 1 + 1)..m : ~Opens(frames'[t][i])
    <3>1. \A i \in (n + 2)..m : i \in (n + 2)..Len(frames'[t]) /\ i \in 1..Len(frames'[t])
      BY <1>1, <1>2, <1>3
    <3> QED
      BY <1>1, <1>2, <2>3, <3>1, FrameFacts
  <2>5. CurrentIn(frames'[t], base'[t], m) = CurrentIn(frames'[t], base'[t], n + 1)
    BY <2>3, <2>4, CurrentAbove
  <2> QED
    BY <2>2, <2>5 DEF CurrentAt
<1>7. PICK outer : outer = CurrentAt(t, n)
  OBVIOUS
<1>8. outer \in Ctxs \cup {NoCtx} /\ (outer = NoCtx \/ Used(outer))
  BY <1>1, <1>3, <1>7, CurrentType DEF Nested, Enclosed
<1>9. Chained' /\ Used(c)' /\ \A d \in Ctxs : Used(d) => ctxs'[d] = ctxs[d] /\ Used(d)'
  BY <1>7, <1>8, NewChain
<1>10. ctxs'[c] = x
  BY DEF Typed
<1>11. ASSUME NEW d \in Ctxs \cup {NoCtx}, d = NoCtx \/ Used(d)
       PROVE  Chain(d)' = Chain(d) /\ (d # NoCtx => ctxs'[d] = ctxs[d] /\ Used(d)')
  BY <1>9, <1>11 DEF Chain
<1>12. Makes(c, x, outer)
  BY <1>7
<1>13. Around(c, outer)'
  <2>1. outer # NoCtx => ctxs'[outer] = ctxs[outer]
    BY <1>8, <1>11
  <2>2. Chain(outer)' = Chain(outer)
    BY <1>8, <1>11
  <2> QED
    BY <1>9, <1>10, <1>12, <2>1, <2>2 DEF Around, Makes, Chain, Used
<1>14. ASSUME NEW u \in Tasks, NEW i \in Nat, NEW d \in Ctxs
       PROVE  Entered(u, i, d)' <=> Entered(u, i, d) \/ (u = t /\ i = n + 1 /\ d = c)
  <2>1. CASE i \in 1..Len(frames[u])
    <3>1. i # n + 1 \/ u # t
      BY <1>3, <2>1
    <3> QED
      BY <1>4, <2>1, <3>1 DEF Entered, IsCtx
  <2>2. CASE i \notin 1..Len(frames[u]) /\ u = t /\ i = n + 1
    <3>1. i \in 1..Len(frames'[u])
      BY <1>1, <1>2, <1>3, <2>2
    <3> QED
      BY <2>2, <3>1 DEF Entered, IsCtx
  <2>3. CASE i \notin 1..Len(frames[u]) /\ ~(u = t /\ i = n + 1)
    <3>1. i \in 1..Len(frames'[u]) => u = t /\ i \in (n + 2)..Len(frames'[t])
      BY <1>1, <1>2, <1>3, <2>3
    <3> QED
      BY <2>3, <3>1 DEF Entered, IsCtx, IsResolve
  <2> QED
    BY <2>1, <2>2, <2>3
<1>15. ASSUME NEW u \in Tasks, NEW i \in Nat
       PROVE  ~Entered(u, i, c)
  <2> SUFFICES ASSUME Entered(u, i, c)
               PROVE  FALSE
    OBVIOUS
  <2>1. Around(c, CurrentAt(u, i - 1))
    BY DEF Nested, Layered, LayeredAt, Entered
  <2> QED
    BY <2>1 DEF Around
<1>16. Families'
  <2>1. ASSUME NEW u \in Tasks \ alive
        PROVE  frames'[u] = <<>> /\ base'[u] = NoCtx /\ parent'[u].task = NoCtx
    BY <1>1 DEF Nested, Families, Placed
  <2>2. ASSUME NEW u \in alive, parent[u].task \in alive,
               parent[u].at \in 0..Len(frames[parent[u].task]),
               base[u] = CurrentAt(parent[u].task, parent[u].at),
               parent[u].at > 0 => Firm(frames[parent[u].task][parent[u].at])
        PROVE  /\ parent[u].at \in 0..Len(frames'[parent[u].task])
               /\ base[u] = CurrentAt(parent[u].task, parent[u].at)'
               /\ parent[u].at > 0 => Firm(frames'[parent[u].task][parent[u].at])
    <3>1. parent[u].task \in Tasks /\ parent[u].at \in Nat
      BY <2>2, <1>2 DEF Typed
    <3>2. parent[u].at > 0 => frames'[parent[u].task][parent[u].at] = frames[parent[u].task][parent[u].at]
      <4>1. parent[u].at > 0 => parent[u].at \in 1..Len(frames[parent[u].task])
        BY <1>2, <2>2, <3>1
      <4> QED
        BY <1>4, <3>1, <4>1
    <3> QED
      BY <1>2, <1>5, <2>2, <3>1, <3>2
  <2>3. ASSUME NEW u \in alive
        PROVE  \/ parent[u].task = NoCtx /\ base[u] = NoCtx
               \/ /\ parent[u].task \in alive
                  /\ parent[u].at \in 0..Len(frames'[parent[u].task])
                  /\ base[u] = CurrentAt(parent[u].task, parent[u].at)'
                  /\ parent[u].at > 0 => Firm(frames'[parent[u].task][parent[u].at])
    BY <2>2 DEF Nested, Families, Placed
  <2>4. \A S \in SUBSET alive : S # {} => \E u \in S : parent[u].task \notin S
    BY DEF Nested, Families, Placed
  <2>5. \A u \in alive : Placed(u)'
    BY <1>1, <2>3, SMTT(20) DEF Placed, Firm, Opens, IsCtx, IsResolve
  <2> QED
    BY <1>1, <2>1, <2>4, <2>5 DEF Families
<1>17. Layered'
  <2> SUFFICES ASSUME NEW u \in Tasks, NEW i \in 1..Len(frames'[u])
               PROVE  LayeredAt(u, i)'
    BY DEF Layered
  <2>1. CASE i \in 1..Len(frames[u])
    <3>0. PICK f, y : f = frames[u][i] /\ y = CurrentAt(u, i - 1)
      OBVIOUS
    <3>1. frames'[u][i] = f /\ i - 1 \in 0..Len(frames[u]) /\ i \in Nat /\ f \in Frames
      BY <1>2, <1>4, <2>1, <3>0
    <3>2. CurrentAt(u, i - 1)' = y
      BY <1>5, <3>0, <3>1
    <3>3. /\ IsCtx(f) => Around(f.ctx, y) /\ (f.closing => ~ctxs[f.ctx].inherits)
          /\ IsResolve(f) => f.ctx = y
      BY <2>1, <3>0 DEF Nested, Layered, LayeredAt
    <3>4. y \in Ctxs \cup {NoCtx} /\ (y = NoCtx \/ Used(y))
      BY <3>0, <3>1, CurrentType DEF Nested, Enclosed
    <3>5. Chain(y)' = Chain(y) /\ (y # NoCtx => ctxs'[y] = ctxs[y])
      BY <1>11, <3>4
    <3>6. ASSUME IsCtx(f)
          PROVE  Around(f.ctx, y)' /\ ctxs'[f.ctx] = ctxs[f.ctx]
      <4>1. f.ctx \in Ctxs /\ Used(f.ctx)
        BY <3>1, <3>3, <3>6, FrameFacts DEF Around
      <4>2. Used(f.ctx)' /\ ctxs'[f.ctx] = ctxs[f.ctx]
        BY <1>9, <4>1
      <4> QED
        BY <3>3, <3>5, <3>6, <4>2 DEF Around, Chain, Used
    <3> QED
      BY <3>1, <3>2, <3>3, <3>6 DEF LayeredAt, IsCtx, IsResolve, Around, Chain, Used
  <2>2. CASE u = t /\ i = n + 1
    <3>1. i - 1 = n /\ CurrentAt(t, n)' = outer
      BY <1>1, <1>3, <1>5, <1>7, <2>2
    <3>2. CurrentAt(u, i - 1)' = outer
      BY <2>2, <3>1 DEF CurrentAt
    <3>3. frames'[u][i].kind = "ctx" /\ frames'[u][i].ctx = c /\ ~frames'[u][i].closing
      BY <2>2
    <3> QED
      BY <1>13, <3>2, <3>3 DEF LayeredAt, IsCtx, IsResolve, Around, Chain, Used
  <2>3. CASE i \notin 1..Len(frames[u]) /\ ~(u = t /\ i = n + 1)
    <3>1. u = t /\ i \in (n + 2)..Len(frames'[t]) /\ i - 1 \in (n + 1)..Len(frames'[t])
      BY <1>1, <1>2, <1>3, <2>3
    <3>2. IsResolve(frames'[t][i]) /\ frames'[t][i].ctx = c /\ CurrentAt(t, i - 1)' = c
      BY <1>6, <3>1
    <3> QED
      BY <3>1, <3>2 DEF LayeredAt, IsCtx, IsResolve
  <2> QED
    BY <2>1, <2>2, <2>3
<1>18. EnteredOnce'
  <2>1. \A d \in Ctxs : Used(d)' => \E u \in Tasks : \E i \in Nat : Entered(u, i, d)'
    <3> SUFFICES ASSUME NEW d \in Ctxs, Used(d)'
                 PROVE  \E u \in Tasks : \E i \in Nat : Entered(u, i, d)'
      OBVIOUS
    <3>1. CASE d = c
      BY <1>1, <1>3, <1>14, <3>1
    <3>2. CASE d # c
      <4>1. Used(d)
        BY <3>2 DEF Used, Typed
      <4> QED
        BY <1>14, <4>1 DEF Nested, EnteredOnce
    <3> QED
      BY <3>1, <3>2
  <2>2. ASSUME NEW u \in Tasks, NEW v \in Tasks, NEW i \in Nat, NEW j \in Nat, NEW d \in Ctxs,
               Entered(u, i, d)', Entered(v, j, d)'
        PROVE  u = v /\ i = j
    <3>1. CASE d = c
      BY <1>14, <1>15, <2>2, <3>1
    <3>2. CASE d # c
      BY <1>14, <2>2, <3>2 DEF Nested, EnteredOnce
    <3> QED
      BY <3>1, <3>2
  <2> QED
    BY <2>1, <2>2 DEF EnteredOnce
<1>19. ASSUME NEW u \in Tasks, NEW k \in 0..Len(frames[u]), NEW m \in Nat, k <= m,
              NEW d \in Range(Chain(CurrentAt(u, k)))
       PROVE  EnclosedAt(u, m, d)'
  <2>1. EnclosedAt(u, k, d)
    BY DEF Nested, Enclosed
  <2>2. CurrentAt(u, k) \in Ctxs \cup {NoCtx} /\ base[u] \in Ctxs \cup {NoCtx}
    BY CurrentType DEF Typed
  <2>3. d \in Ctxs
    BY <2>2, ChainType, RangeFacts
  <2>4. PICK v \in Tasks, i \in Nat : Entered(v, i, d) /\ ~frames[v][i].closing
    BY <2>1 DEF EnclosedAt
  <2>5. Entered(v, i, d)' /\ ~frames'[v][i].closing
    BY <1>4, <1>14, <2>3, <2>4 DEF Entered
  <2>6. Chain(base[u])' = Chain(base[u])
    <3>1. 0 \in 0..Len(frames[u]) /\ CurrentAt(u, 0) = base[u]
      BY <1>2, CurrentSteps DEF CurrentAt
    <3>2. base[u] = NoCtx \/ Used(base[u])
      BY <3>1 DEF Nested, Enclosed
    <3> QED
      BY <1>1, <1>11, <2>2, <3>2 DEF Chain
  <2>7. (\E j \in 1..m : Entered(u, j, d)') \/ d \in Range(Chain(base[u]))
    <3>1. k \in Nat
      BY <1>2
    <3>2. \A j \in 1..k : j \in 1..m /\ j \in Nat
      BY <1>19, <3>1
    <3> QED
      BY <1>14, <2>1, <2>3, <3>2 DEF EnclosedAt
  <2> QED
    BY <1>1, <2>5, <2>6, <2>7 DEF EnclosedAt
<1>20. Enclosed'
  <2>1. ASSUME NEW u \in Tasks, NEW m \in 0..Len(frames'[u])
        PROVE  /\ CurrentAt(u, m)' = NoCtx \/ Used(CurrentAt(u, m))'
               /\ \A d \in Range(Chain(CurrentAt(u, m))') : EnclosedAt(u, m, d)'
    <3>1. CASE m \in 0..Len(frames[u])
      <4>1. PICK y : y = CurrentAt(u, m)
        OBVIOUS
      <4>2. CurrentAt(u, m)' = y /\ y \in Ctxs \cup {NoCtx} /\ (y = NoCtx \/ Used(y))
        BY <1>5, <3>1, <4>1, CurrentType DEF Nested, Enclosed
      <4>3. Chain(y)' = Chain(y) /\ (y # NoCtx => Used(y)')
        BY <1>11, <4>2
      <4>4. m \in Nat /\ m <= m
        BY <1>2, <3>1
      <4>5. \A d \in Range(Chain(y)) : EnclosedAt(u, m, d)'
        BY <1>19, <3>1, <4>1, <4>4
      <4> QED
        BY <4>2, <4>3, <4>5 DEF Used, Chain
    <3>2. CASE m \notin 0..Len(frames[u])
      <4>1. u = t /\ m \in (n + 1)..Len(frames'[t]) /\ m \in Nat /\ n <= m
        BY <1>1, <1>2, <1>3, <3>2
      <4>2. CurrentAt(u, m)' = c /\ Used(c)'
        BY <1>6, <1>9, <4>1
      <4>3. c # NoCtx
        BY InjectionAssumption
      <4>4. Chain(c)' = <<c>> \o Chain(outer)
        BY <1>10, <1>12, <4>3 DEF Chain, Makes
      <4>5. Range(Chain(c)') = {c} \cup Range(Chain(outer))
        <5>1. Chain(outer) \in Seq(Ctxs)
          BY <1>8, ChainType
        <5> QED
          BY <4>4, <5>1, ChainGrows
      <4>6. ASSUME NEW d \in Range(Chain(outer))
            PROVE  EnclosedAt(u, m, d)'
        BY <1>1, <1>3, <1>7, <1>19, <4>1
      <4>7. EnclosedAt(u, m, c)'
        <5>1. Entered(t, n + 1, c)' /\ n + 1 \in Nat /\ n + 1 \in 1..m /\ t \in Tasks
          BY <1>1, <1>3, <1>14, <4>1
        <5> QED
          BY <4>1, <5>1 DEF EnclosedAt
      <4> QED
        BY <4>2, <4>5, <4>6, <4>7 DEF Used, Chain
    <3> QED
      BY <3>1, <3>2
  <2> QED
    BY <1>1, <2>1 DEF Enclosed
<1> QED
  BY <1>9, <1>16, <1>17, <1>18, <1>20 DEF Nested

-----------------------------------------------------------------------------
\* Tasks

\* Giving a task that is nowhere a context to begin with enters none.
LEMMA BaseKeeps ==
    ASSUME Typed, Nested, NEW u \in Tasks, NEW b \in Ctxs \cup {NoCtx}, frames[u] = <<>>,
           base' = [base EXCEPT ![u] = b], UNCHANGED <<frames, ctxs>>,
           b = NoCtx \/ \E t \in Tasks : \E n \in 0..Len(frames[t]) : b = CurrentAt(t, n)
    PROVE  /\ Layered' /\ EnteredOnce' /\ Enclosed' /\ Chained'
           /\ \A v \in Tasks, n \in Nat : v # u => CurrentAt(v, n)' = CurrentAt(v, n)
<1>1. base'[u] = b /\ \A v \in Tasks : v # u => base'[v] = base[v]
  BY DEF Typed
<1>2. ASSUME NEW v \in Tasks, NEW n \in Nat, v # u
      PROVE  CurrentAt(v, n)' = CurrentAt(v, n)
  BY <1>1, <1>2, CurrentKept
<1>3. \A v \in Tasks : Len(frames[v]) \in Nat
  BY FramesAt
<1>4. Len(frames[u]) = 0
  BY FramesAt
<1>5. Layered'
  <2> SUFFICES ASSUME NEW v \in Tasks, NEW i \in 1..Len(frames[v])
               PROVE  LayeredAt(v, i)'
    BY DEF Layered
  <2>1. v # u /\ i - 1 \in Nat
    BY <1>3, <1>4
  <2>2. CurrentAt(v, i - 1)' = CurrentAt(v, i - 1)
    BY <1>2, <2>1
  <2>3. LayeredAt(v, i)
    BY DEF Nested, Layered
  <2> QED
    BY <2>2, <2>3 DEF LayeredAt, IsCtx, IsResolve, Around, Chain, Used
<1>6. EnteredOnce'
  BY DEF Nested, EnteredOnce, Entered, IsCtx, Used
<1>7. Enclosed'
  <2>1. ASSUME NEW v \in Tasks, NEW n \in 0..Len(frames[v])
        PROVE  /\ CurrentAt(v, n)' = NoCtx \/ Used(CurrentAt(v, n))'
               /\ \A d \in Range(Chain(CurrentAt(v, n))') : EnclosedAt(v, n, d)'
    <3>1. CASE v # u
      <4>1. PICK y : y = CurrentAt(v, n)
        OBVIOUS
      <4>2. n \in Nat /\ CurrentAt(v, n)' = y
        BY <1>2, <1>3, <3>1, <4>1
      <4>3. /\ y = NoCtx \/ Used(y)
            /\ \A d \in Range(Chain(y)) : EnclosedAt(v, n, d)
        BY <4>1 DEF Nested, Enclosed
      <4>4. \A d \in Range(Chain(y)) : EnclosedAt(v, n, d)'
        BY <1>1, <3>1, <4>3, ZenonT(30) DEF EnclosedAt, Entered, IsCtx, Chain
      <4> QED
        BY <4>2, <4>3, <4>4 DEF Used, Chain
    <3>2. CASE v = u
      <4>1. n = 0 /\ CurrentAt(v, n)' = b
        <5>1. n = 0
          BY <1>4, <3>2
        <5>2. CurrentIn(frames'[u], base'[u], 0) = base'[u]
          BY CurrentSteps
        <5> QED
          BY <1>1, <3>2, <5>1, <5>2 DEF CurrentAt
      <4>2. CASE b = NoCtx
        <5>1. Range(Chain(NoCtx)') = {}
          BY NoChain DEF Chain
        <5> QED
          BY <4>1, <4>2, <5>1 DEF Chain
      <4>3. CASE b # NoCtx
        <5>1. PICK t \in Tasks : \E m \in 0..Len(frames[t]) : b = CurrentAt(t, m)
          BY <4>3
        <5>2. PICK m \in 0..Len(frames[t]) : b = CurrentAt(t, m)
          BY <5>1
        <5>3. Used(b) /\ \A d \in Range(Chain(b)) : EnclosedAt(t, m, d)
          BY <4>3, <5>2 DEF Nested, Enclosed
        <5>4. ASSUME NEW d \in Range(Chain(b))
              PROVE  EnclosedAt(u, n, d)'
          <6>1. \E w \in Tasks : \E i \in Nat : Entered(w, i, d) /\ ~frames[w][i].closing
            BY <5>3 DEF EnclosedAt
          <6> QED
            BY <1>1, <6>1 DEF EnclosedAt, Entered, IsCtx, Chain
        <5> QED
          BY <3>2, <4>1, <5>3, <5>4 DEF Used, Chain
      <4> QED
        BY <4>2, <4>3
    <3> QED
      BY <3>1, <3>2
  <2> QED
    BY <2>1 DEF Enclosed
<1>8. Chained'
  BY DEF Nested, Chained, Used, Inherited
<1> QED
  BY <1>2, <1>5, <1>6, <1>7, <1>8

\* The first task begins outside of every context.
LEMMA StartKeeps ==
    ASSUME Typed, Nested, NEW t \in Tasks, Start(t)
    PROVE  Nested'
<1>1. alive = {} /\ alive' = {t} /\ UNCHANGED <<frames, base, parent, ctxs>>
  BY DEF Start
<1>2. \A u \in Tasks : frames[u] = <<>> /\ base[u] = NoCtx /\ parent[u].task = NoCtx
  BY <1>1 DEF Nested, Families, Placed
<1>3. \A S \in SUBSET alive' : S # {} => \E u \in S : parent[u].task \notin S
  BY <1>1, <1>2, InjectionAssumption
<1>4. Families'
  <2>1. \A u \in alive' : Placed(u)'
    BY <1>1, <1>2 DEF Placed
  <2> QED
    BY <1>1, <1>2, <1>3, <2>1 DEF Families
<1>5. Layered' /\ EnteredOnce' /\ Enclosed' /\ Chained'
  <2> USE <1>1
  <2>1. Layered'
    BY ZenonT(30) DEF Nested, Layered, LayeredAt, IsCtx, IsResolve, Around, Chain, Used, CurrentAt
  <2>2. EnteredOnce'
    BY SMTT(20) DEF Nested, EnteredOnce, Entered, IsCtx, Used
  <2>3. Enclosed'
    <3>1. \A u \in Tasks : \A n \in Nat : \A c : EnclosedAt(u, n, c) => EnclosedAt(u, n, c)'
      BY DEF EnclosedAt, Entered, IsCtx, Chain
    <3>2. \A u \in Tasks : \A n : CurrentAt(u, n)' = CurrentAt(u, n)
      BY DEF CurrentAt
    <3>3. \A u \in Tasks : frames[u] = <<>> /\ frames' = frames
      BY <1>2
    <3>4. \A c : Chain(c)' = Chain(c) /\ (Used(c) => Used(c)')
      BY DEF Chain, Used
    <3> QED
      BY <3>1, <3>2, <3>3, <3>4 DEF Nested, Enclosed
  <2>4. Chained'
    BY DEF Nested, Chained, Used, Inherited
  <2> QED
    BY <2>1, <2>2, <2>3, <2>4
<1> QED
  BY <1>4, <1>5 DEF Nested

\* The current context is copied to the new task.
LEMMA SpawnKeeps ==
    ASSUME Typed, Nested, NEW t \in Tasks, NEW u \in Tasks, Spawn(t, u)
    PROVE  Nested' /\ t \in alive
<1>1. /\ u \notin alive /\ alive' = alive \cup {u} /\ base' = [base EXCEPT ![u] = Current(t)]
      /\ parent' = [parent EXCEPT ![u] = [task |-> t, at |-> Len(frames[t])]]
      /\ UNCHANGED <<frames, ctxs>>
      /\ InApp(t) \/ InBody(t)
  BY DEF Spawn
<1> DEFINE n == Len(frames[t])
<1>2. \A v \in Tasks : Len(frames[v]) \in Nat /\ (frames[v] = <<>> <=> Len(frames[v]) = 0)
  BY FramesAt
<1>3. t \in alive /\ t # u /\ frames[u] = <<>>
  <2>1. InBody(t) => frames[t] # <<>>
    BY DEF InBody, InPhase, OnTop
  <2>2. InApp(t) => t \in alive
    BY DEF InApp
  <2> QED
    BY <1>1, <2>1, <2>2 DEF Nested, Families, Placed
<1>4. n > 0 => Firm(frames[t][n])
  <2> SUFFICES ASSUME frames[t] # <<>>
               PROVE  Firm(frames[t][n])
    BY <1>2
  <2>1. Top(t) = frames[t][n]
    BY DEF Top, Last
  <2>2. CASE InApp(t)
    BY <2>1, <2>2 DEF InApp, OnTop, Firm, Opens, IsCtx
  <2>3. CASE InBody(t)
    BY <2>1, <2>3 DEF InBody, InPhase, OnTop, Firm, IsResolve
  <2> QED
    BY <1>1, <2>2, <2>3
<1>5. Current(t) = CurrentAt(t, n) /\ n \in 0..Len(frames[t]) /\ CurrentAt(t, n) \in Ctxs \cup {NoCtx}
  <2>1. n \in 0..Len(frames[t])
    BY <1>2
  <2> QED
    BY <2>1, CurrentOnTop, CurrentType
<1>6. /\ Layered' /\ EnteredOnce' /\ Enclosed' /\ Chained'
      /\ \A v \in Tasks, m \in Nat : v # u => CurrentAt(v, m)' = CurrentAt(v, m)
  BY <1>1, <1>3, <1>5, BaseKeeps
<1>7. /\ \A v \in Tasks : v # u => base'[v] = base[v] /\ parent'[v] = parent[v]
      /\ base'[u] = CurrentAt(t, n) /\ parent'[u].task = t /\ parent'[u].at = n
  BY <1>1, <1>5 DEF Typed
<1>8. ASSUME NEW v \in alive
      PROVE  Placed(v)'
  <2>1. v \in Tasks /\ v # u /\ base'[v] = base[v] /\ parent'[v] = parent[v]
    BY <1>1, <1>7 DEF Typed
  <2>2. CASE parent[v].task = NoCtx /\ base[v] = NoCtx
    BY <2>1, <2>2 DEF Placed
  <2>3. CASE ~(parent[v].task = NoCtx /\ base[v] = NoCtx)
    <3> DEFINE p == parent[v].task
               k == parent[v].at
    <3>1. /\ p \in alive /\ k \in 0..Len(frames[p]) /\ base[v] = CurrentAt(p, k)
          /\ k > 0 => Firm(frames[p][k])
      BY <2>3 DEF Nested, Families, Placed
    <3>2. p \in Tasks /\ p # u /\ k \in Nat
      BY <1>1, <1>2, <3>1 DEF Typed
    <3>3. CurrentIn(frames'[p], base'[p], k) = CurrentIn(frames[p], base[p], k)
      <4>1. \A q \in Tasks, m \in Nat : q # u => CurrentIn(frames'[q], base'[q], m) = CurrentIn(frames[q], base[q], m)
        BY <1>6 DEF CurrentAt
      <4> QED
        BY <3>2, <4>1
    <3> QED
      BY <1>1, <2>1, <3>1, <3>2, <3>3 DEF Placed, CurrentAt, Firm, Opens, IsCtx, IsResolve
  <2> QED
    BY <2>2, <2>3
<1>9. Placed(u)'
  <2>1. CurrentIn(frames'[t], base'[t], n) = CurrentIn(frames[t], base[t], n)
    BY <1>2, <1>3, <1>6 DEF CurrentAt
  <2>2. base'[u] = CurrentIn(frames[t], base[t], n)
    BY <1>7 DEF CurrentAt
  <2> QED
    BY <1>1, <1>3, <1>4, <1>5, <1>7, <2>1, <2>2 DEF Placed, CurrentAt, Firm, Opens, IsCtx, IsResolve
<1>10. ASSUME NEW S \in SUBSET alive', S # {}
       PROVE  \E v \in S : parent'[v].task \notin S
  <2>1. CASE S \ {u} = {}
    BY <1>3, <1>7, <1>10, <2>1
  <2>2. CASE S \ {u} # {}
    <3>1. S \ {u} \in SUBSET alive
      BY <1>1
    <3>2. PICK v \in S \ {u} : parent[v].task \notin S \ {u}
      BY <2>2, <3>1 DEF Nested, Families, Placed
    <3>3. v \in alive /\ v \in Tasks /\ v # u /\ parent'[v] = parent[v]
      BY <1>7, <3>1 DEF Typed
    <3>4. u # NoCtx
      BY InjectionAssumption
    <3>5. parent[v].task # u
      BY <1>1, <3>3, <3>4 DEF Nested, Families, Placed
    <3> QED
      BY <3>2, <3>3, <3>5
  <2> QED
    BY <2>1, <2>2
<1>11. ASSUME NEW v \in Tasks \ alive'
       PROVE  frames'[v] = <<>> /\ base'[v] = NoCtx /\ parent'[v].task = NoCtx
  BY <1>1, <1>7 DEF Nested, Families, Placed
<1>12. Families'
  <2>1. \A v \in alive' : Placed(v)'
    BY <1>1, <1>8, <1>9
  <2> QED
    BY <1>10, <1>11, <2>1 DEF Families
<1> QED
  BY <1>3, <1>6, <1>12 DEF Nested

\* A task ends outside of what it entered, and nobody it spawned is left.
LEMMA EndKeeps ==
    ASSUME Typed, Nested, NEW t \in Tasks, End(t)
    PROVE  Nested'
<1>1. /\ t \in alive /\ frames[t] = <<>> /\ Joined(t) /\ alive' = alive \ {t}
      /\ base' = [base EXCEPT ![t] = NoCtx] /\ parent' = [parent EXCEPT ![t] = NoParent]
      /\ UNCHANGED <<frames, ctxs>>
  BY DEF End
<1>2. /\ Layered' /\ EnteredOnce' /\ Enclosed' /\ Chained'
      /\ \A v \in Tasks, m \in Nat : v # t => CurrentAt(v, m)' = CurrentAt(v, m)
  BY <1>1, BaseKeeps
<1>3. \A v \in Tasks : Len(frames[v]) \in Nat
  BY FramesAt
<1>4. \A u \in alive : parent[u].task # t
  <2>1. Len(frames[t]) = 0
    BY <1>1, FramesAt
  <2>2. \A u \in alive : parent[u].at \in Nat
    BY DEF Typed, Parents
  <2> QED
    BY <1>1, <2>1, <2>2 DEF Joined
<1>5. /\ \A v \in Tasks : v # t => base'[v] = base[v] /\ parent'[v] = parent[v]
      /\ base'[t] = NoCtx /\ parent'[t].task = NoCtx
  BY <1>1 DEF Typed, NoParent
<1>6. ASSUME NEW v \in alive'
      PROVE  Placed(v)'
  <2>1. v \in alive /\ v \in Tasks /\ v # t /\ base'[v] = base[v] /\ parent'[v] = parent[v]
    BY <1>1, <1>5 DEF Typed
  <2>2. CASE parent[v].task = NoCtx /\ base[v] = NoCtx
    BY <2>1, <2>2 DEF Placed
  <2>3. CASE ~(parent[v].task = NoCtx /\ base[v] = NoCtx)
    <3> DEFINE p == parent[v].task
               k == parent[v].at
    <3>1. /\ p \in alive /\ k \in 0..Len(frames[p]) /\ base[v] = CurrentAt(p, k)
          /\ k > 0 => Firm(frames[p][k])
      BY <2>1, <2>3 DEF Nested, Families, Placed
    <3>2. p \in Tasks /\ p # t /\ k \in Nat
      BY <1>3, <1>4, <2>1, <3>1 DEF Typed
    <3>3. CurrentIn(frames'[p], base'[p], k) = CurrentIn(frames[p], base[p], k)
      <4>1. \A q \in Tasks, m \in Nat : q # t => CurrentIn(frames'[q], base'[q], m) = CurrentIn(frames[q], base[q], m)
        BY <1>2 DEF CurrentAt
      <4> QED
        BY <3>2, <4>1
    <3> QED
      BY <1>1, <2>1, <3>1, <3>2, <3>3 DEF Placed, CurrentAt, Firm, Opens, IsCtx, IsResolve
  <2> QED
    BY <2>2, <2>3
<1>7. ASSUME NEW S \in SUBSET alive', S # {}
      PROVE  \E v \in S : parent'[v].task \notin S
  <2>1. S \in SUBSET alive
    BY <1>1
  <2>2. PICK v \in S : parent[v].task \notin S
    BY <1>7, <2>1 DEF Nested, Families, Placed
  <2>3. parent'[v] = parent[v]
    BY <1>1, <1>5 DEF Typed
  <2> QED
    BY <2>2, <2>3
<1>8. ASSUME NEW v \in Tasks \ alive'
      PROVE  frames'[v] = <<>> /\ base'[v] = NoCtx /\ parent'[v].task = NoCtx
  BY <1>1, <1>5 DEF Nested, Families, Placed
<1>9. Families'
  BY <1>6, <1>7, <1>8 DEF Families
<1> QED
  BY <1>2, <1>9 DEF Nested

-----------------------------------------------------------------------------
\* Resolutions

\* What is called in place of a call is the call itself or what one of the overrides says.
LEMMA EffectiveAt ==
    ASSUME Typed, NEW c \in Ctxs
    PROVE  /\ Effective(c) \in [Calls -> Calls]
           /\ \A k \in Calls : \/ Effective(c)[k] = k
                               \/ \E o \in Overrides : k \in DOMAIN o /\ Effective(c)[k] = o[k]
<1> DEFINE chain == ctxs[c].chain
           where(k) == {i \in 1..Len(chain) : k \in DOMAIN ctxs[chain[i]].own}
           eff == Effective(c)
<1>1. chain \in Seq(Ctxs) /\ Len(chain) \in Nat
  BY LenProperties DEF Typed, Contexts
<1>2. eff = [k \in Calls |-> IF where(k) = {} THEN k ELSE ctxs[chain[Min(where(k))]].own[k]]
  BY DEF Effective
<1>3. ASSUME NEW k \in Calls, where(k) # {}
      PROVE  \E o \in Overrides : k \in DOMAIN o /\ eff[k] = o[k] /\ eff[k] \in Calls
  <2>1. Min(where(k)) \in where(k)
    <3>1. where(k) \in SUBSET Nat
      BY <1>1
    <3> HIDE DEF where
    <3> QED
      BY <1>3, <3>1, MinFacts
  <2> DEFINE d == chain[Min(where(k))]
  <2>2. Min(where(k)) \in 1..Len(chain) /\ k \in DOMAIN ctxs[d].own
    BY <2>1
  <2>3. d \in Ctxs
    <3> HIDE DEF where, chain
    <3> QED
      BY <1>1, <2>2, ElementOfSeq
  <2>4. ctxs[d].own \in Overrides \cup {Nothing}
    BY <2>3 DEF Typed, Contexts
  <2>5. ctxs[d].own \in Overrides
    BY <2>2, <2>4 DEF Nothing
  <2>6. ctxs[d].own[k] \in Calls
    <3>1. PICK S \in SUBSET Calls : ctxs[d].own \in [S -> Calls]
      BY <2>5, InjectionAssumption DEF OverrideMaps
    <3> HIDE DEF d
    <3> QED
      BY <2>2, <3>1
  <2>7. eff[k] = ctxs[d].own[k]
    BY <1>2, <1>3
  <2> QED
    BY <2>2, <2>5, <2>6, <2>7
<1>4. \A k \in Calls : where(k) = {} => eff[k] = k
  BY <1>2
<1>5. \A k \in Calls : eff[k] \in Calls
  BY <1>3, <1>4
<1>6. eff \in [Calls -> Calls]
  BY <1>2, <1>5
<1>7. \A k \in Calls : eff[k] = k \/ \E o \in Overrides : k \in DOMAIN o /\ eff[k] = o[k]
  BY <1>3, <1>4
<1> QED
  BY <1>6, <1>7

\* The overrides in force are a map from calls to calls along which nothing goes in circles.
LEMMA EffectiveFacts ==
    ASSUME Typed, NEW c \in Ctxs
    PROVE  Effective(c) \in [Calls -> Calls] /\ WellFounded(Calls, NeedsUnder(Effective(c)))
<1>1. PICK eff : eff = Effective(c)
  OBVIOUS
<1>2. /\ eff \in [Calls -> Calls]
      /\ \A k \in Calls : eff[k] = k \/ \E o \in Overrides : k \in DOMAIN o /\ eff[k] = o[k]
  BY <1>1, EffectiveAt
<1>3. \A S \in SUBSET Calls : S # {} => \E k \in S : Range(Deps[eff[k]]) \cap S = {}
  BY <1>2, OverridesAssumption
<1>4. NeedsUnder(eff) \in [Calls -> SUBSET Calls] /\ \A k \in Calls : NeedsUnder(eff)[k] = Range(Deps[eff[k]])
  <2>1. \A k \in Calls : Range(Deps[eff[k]]) \subseteq Calls
    <3>1. \A k \in Calls : Deps[eff[k]] \in Seq(Calls)
      BY <1>2, DependenciesAssumption
    <3> QED
      BY <3>1, RangeFacts
  <2> QED
    BY <2>1 DEF NeedsUnder
<1>5. WellFounded(Calls, NeedsUnder(eff))
  BY <1>3, <1>4 DEF WellFounded
<1> QED
  BY <1>1, <1>2, <1>5

\* A step that keeps the contexts in use keeps what is in force in them.
LEMMA EffectiveKept ==
    ASSUME Typed, Nested, Nested', NEW c \in Ctxs, Used(c), Used(c)',
           \A d \in Ctxs : Used(d) /\ Used(d)' => ctxs'[d] = ctxs[d]
    PROVE  Effective(c)' = Effective(c) /\ ctxs'[c] = ctxs[c]
<1> DEFINE chain == ctxs[c].chain
<1>1. ctxs'[c] = ctxs[c] /\ chain \in Seq(Ctxs)
  BY DEF Typed, Contexts
<1>2. \A d \in Range(chain) : d \in Ctxs /\ Used(d)
  BY <1>1, RangeFacts DEF Nested, Chained
<1>3. \A d \in Range(chain) : Used(d)'
  BY <1>1 DEF Nested, Chained
<1>4. \A d \in Range(chain) : ctxs'[d] = ctxs[d]
  BY <1>2, <1>3
<1>5. \A i \in 1..Len(chain) : ctxs'[chain[i]] = ctxs[chain[i]]
  BY <1>1, <1>4, RangeFacts
<1> DEFINE where(k) == {i \in 1..Len(chain) : k \in DOMAIN ctxs[chain[i]].own}
           whereNow(k) == {i \in 1..Len(chain) : k \in DOMAIN ctxs'[chain[i]].own}
           over(k) == IF where(k) = {} THEN k ELSE ctxs[chain[Min(where(k))]].own[k]
           overNow(k) == IF whereNow(k) = {} THEN k ELSE ctxs'[chain[Min(whereNow(k))]].own[k]
<1>6. ASSUME NEW k
      PROVE  over(k) = overNow(k)
  <2>1. where(k) = whereNow(k)
    BY <1>5
  <2>2. where(k) # {} => Min(where(k)) \in 1..Len(chain)
    <3>1. where(k) \in SUBSET (1..Len(chain)) /\ 1..Len(chain) \subseteq Nat
      OBVIOUS
    <3> HIDE DEF where
    <3> QED
      BY <3>1, MinFacts
  <2>3. where(k) # {} => ctxs'[chain[Min(where(k))]] = ctxs[chain[Min(where(k))]]
    BY <1>5, <2>2
  <2> HIDE DEF where, whereNow
  <2> QED
    BY <2>1, <2>3
<1>7. Effective(c) = [k \in Calls |-> over(k)]
  BY DEF Effective
<1>8. Effective(c)' = [k \in Calls |-> overNow(k)]
  BY <1>1 DEF Effective
<1> HIDE DEF over, overNow
<1> QED
  BY <1>1, <1>6, <1>7, <1>8

Caches == [Ctxs -> PartialMap(Calls, Value)]

\* A value that is found is in the cache of a context of the chain, and not overridden.
LEMMA LookupFacts ==
    ASSUME Typed, Nested, NEW c \in Ctxs, Used(c), NEW caches \in Caches, NEW root, NEW k,
           Usable(caches, c, root, k) # {}
    PROVE  \E i \in {1} \cup Inherited(c) :
              /\ i \in 1..Len(ctxs[c].chain) /\ ctxs[c].chain[i] \in Ctxs
              /\ k \in DOMAIN caches[ctxs[c].chain[i]]
              /\ i > 1 => k \notin OverriddenCalls(root, Introduced(c, i))
              /\ Lookup(caches, c, root, k) = caches[ctxs[c].chain[i]][k]
<1> DEFINE i == Min(Usable(caches, c, root, k))
           chain == ctxs[c].chain
<1>1. chain \in Seq(Ctxs) /\ Len(chain) \in Nat /\ chain # <<>>
  BY LenProperties DEF Typed, Contexts, Nested, Chained
<1>2. Len(chain) # 0
  BY <1>1, EmptySeq
<1>3. Inherited(c) \subseteq 2..Len(chain)
  BY DEF Inherited
<1>4. Usable(caches, c, root, k) \in SUBSET Nat
  BY <1>1, <1>3 DEF Usable
<1>5. i \in Usable(caches, c, root, k)
  BY <1>4, MinFacts
<1>6. /\ i \in {1} \cup Inherited(c) /\ k \in DOMAIN caches[chain[i]]
      /\ i > 1 => k \notin OverriddenCalls(root, Introduced(c, i))
  <2> HIDE DEF i
  <2> QED
    BY <1>5 DEF Usable
<1>7. i \in 1..Len(chain)
  <2> HIDE DEF i, chain
  <2> QED
    BY <1>1, <1>2, <1>3, <1>6
<1>8. chain[i] \in Ctxs
  <2> HIDE DEF i, chain
  <2> QED
    BY <1>1, <1>7, ElementOfSeq
<1>9. Lookup(caches, c, root, k) = caches[chain[i]][k]
  BY DEF Lookup
<1> HIDE DEF i
<1> QED
  BY <1>6, <1>7, <1>8, <1>9

\* What one of the calls is still short of is called before it.
LEMMA PreparedAt ==
    \A eff, todo, vals : Prepared(eff, todo, vals) =>
        \A n \in 1..Len(todo) : \A d \in Range(Deps[eff[todo[n]]]) :
            d \in DOMAIN vals \/ \E j \in 1..(n - 1) : d = todo[j]
BY DEF Prepared

\* Settle takes what is usable, up to the first call that has nothing.
LEMMA SettleFacts ==
    ASSUME Typed, Nested, NEW c \in Ctxs, Used(c), NEW root \in Calls, NEW todo \in Seq(Calls),
           NEW vals \in PartialMap(Calls, Value), NEW caches \in Caches,
           Prepared(Effective(c), todo, vals)
    PROVE  LET r == Settle(c, root, todo, vals, caches)
           IN  /\ r \in ResolveFrames /\ r.ctx = c /\ r.root = root
               /\ r.phase # "lock" /\ Ready(r)
               /\ r.phase = "build" => Usable(caches, c, root, Head(r.todo)) = {}
               /\ Range(r.todo) \subseteq Range(todo)
               /\ \A k \in DOMAIN r.vals :
                     \/ k \in DOMAIN vals /\ r.vals[k] = vals[k]
                     \/ /\ k \in Range(todo) /\ Usable(caches, c, root, k) # {}
                        /\ r.vals[k] = Lookup(caches, c, root, k)
<1> DEFINE misses == {i \in 1..Len(todo) : Usable(caches, c, root, todo[i]) = {}}
           n == IF misses = {} THEN Len(todo) ELSE Min(misses) - 1
           found == {todo[i] : i \in 1..n}
           rest == SubSeq(todo, n + 1, Len(todo))
           phase == IF misses = {} THEN "done" ELSE "build"
           had == [k \in found |-> Lookup(caches, c, root, k)]
           r == Settle(c, root, todo, vals, caches)
<1>1. Len(todo) \in Nat /\ \A i \in 1..Len(todo) : todo[i] \in Calls
  BY LenProperties, ElementOfSeq
<1>2. r = Resolution(c, root, phase, rest, Overlay(had, vals))
  BY DEF Settle
<1>3. r = [kind |-> "resolve", ctx |-> c, root |-> root, phase |-> phase, todo |-> rest,
           vals |-> Overlay(had, vals)]
  BY <1>2 DEF Resolution
<1>4. /\ n \in 0..Len(todo) /\ \A i \in 1..n : Usable(caches, c, root, todo[i]) # {}
      /\ misses = {} => n = Len(todo)
      /\ misses # {} => n + 1 \in 1..Len(todo) /\ Usable(caches, c, root, todo[n + 1]) = {}
  <2>1. CASE misses = {}
    BY <1>1, <2>1
  <2>2. CASE misses # {}
    <3>1. misses \in SUBSET Nat
      BY <1>1
    <3>2. Min(misses) \in misses /\ \A k \in misses : Min(misses) <= k
      <4> HIDE DEF misses
      <4> QED
        BY <2>2, <3>1, MinFacts
    <3>3. Min(misses) \in 1..Len(todo) /\ Usable(caches, c, root, todo[Min(misses)]) = {}
      BY <3>2
    <3>4. n = Min(misses) - 1
      BY <2>2
    <3>5. n \in 0..Len(todo) /\ n + 1 = Min(misses)
      <4> HIDE DEF n, misses
      <4> QED
        BY <1>1, <3>3, <3>4
    <3>6. ASSUME NEW i \in 1..n
          PROVE  Usable(caches, c, root, todo[i]) # {}
      <4>1. i \in 1..Len(todo) /\ ~(Min(misses) <= i)
        <5> HIDE DEF n, misses
        <5> QED
          BY <1>1, <3>5
      <4> QED
        BY <3>2, <4>1
    <3> HIDE DEF n
    <3> QED
      BY <2>2, <3>3, <3>5, <3>6
  <2> QED
    BY <2>1, <2>2
<1> HIDE DEF n
<1>5. /\ rest \in Seq(Calls) /\ Len(rest) = Len(todo) - n
      /\ \A i \in 1..(Len(todo) - n) : rest[i] = todo[n + i] /\ n + i \in 1..Len(todo)
  <2>1. n + 1 \in Int /\ Len(todo) \in Int /\ \A i \in (n + 1)..Len(todo) : todo[i] \in Calls
    BY <1>1, <1>4
  <2>2. /\ rest \in Seq(Calls)
        /\ Len(rest) = IF n + 1 <= Len(todo) THEN Len(todo) - (n + 1) + 1 ELSE 0
        /\ \A i \in 1..(Len(todo) - (n + 1) + 1) : rest[i] = todo[n + 1 + i - 1]
    BY <2>1, SubSeqProperties
  <2>3. /\ \A i \in 1..(Len(todo) - n) : n + 1 + i - 1 = n + i /\ n + i \in 1..Len(todo)
        /\ Len(todo) - (n + 1) + 1 = Len(todo) - n
        /\ ~(n + 1 <= Len(todo)) => Len(todo) - n = 0
    BY <1>1, <1>4
  <2> HIDE DEF rest
  <2> QED
    BY <2>2, <2>3
<1>6. \A i \in 1..n : i \in 1..Len(todo)
  BY <1>1, <1>4
<1>7. \A k \in found : k \in Calls /\ k \in Range(todo) /\ Usable(caches, c, root, k) # {}
  BY <1>1, <1>4, <1>6, RangeFacts
<1> HIDE DEF found
<1>8. ASSUME NEW k \in found
      PROVE  Lookup(caches, c, root, k) \in Value
  <2>1. PICK i \in {1} \cup Inherited(c) :
            /\ ctxs[c].chain[i] \in Ctxs
            /\ k \in DOMAIN caches[ctxs[c].chain[i]]
            /\ Lookup(caches, c, root, k) = caches[ctxs[c].chain[i]][k]
    BY <1>7, LookupFacts
  <2>2. caches[ctxs[c].chain[i]] \in PartialMap(Calls, Value)
    BY <2>1 DEF Caches
  <2> QED
    BY <2>1, <2>2, MapFacts
<1>9. had \in PartialMap(Calls, Value) /\ DOMAIN had = found /\ \A k \in found : had[k] = Lookup(caches, c, root, k)
  <2>1. DOMAIN had = found /\ \A k \in found : had[k] = Lookup(caches, c, root, k)
    OBVIOUS
  <2>2. had \in [found -> Value] /\ found \subseteq Calls
    BY <1>7, <1>8
  <2> QED
    BY <2>1, <2>2, MapFacts
<1> HIDE DEF had
<1>10. /\ Overlay(had, vals) \in PartialMap(Calls, Value)
       /\ DOMAIN Overlay(had, vals) = found \cup DOMAIN vals
       /\ \A k \in found : Overlay(had, vals)[k] = Lookup(caches, c, root, k)
       /\ \A k \in DOMAIN vals \ found : Overlay(had, vals)[k] = vals[k]
  <2>1. Overlay(had, vals) \in PartialMap(Calls, Value)
    <3>1. had \in PartialMap(Calls, Value)
      BY <1>9
    <3> QED
      BY ONLY <3>1, vals \in PartialMap(Calls, Value), OverlayMap
  <2>2. /\ DOMAIN Overlay(had, vals) = DOMAIN had \cup DOMAIN vals
        /\ \A k \in DOMAIN had : Overlay(had, vals)[k] = had[k]
        /\ \A k \in DOMAIN vals \ DOMAIN had : Overlay(had, vals)[k] = vals[k]
    BY OverlayAt
  <2> QED
    BY <1>9, <2>1, <2>2
<1>11. phase \in {"build", "done"} /\ (phase = "build" <=> misses # {})
  OBVIOUS
<1> HIDE DEF phase, rest, misses
<1>12. /\ r.ctx = c /\ r.root = root /\ r.phase = phase /\ r.todo = rest
       /\ r.vals = Overlay(had, vals)
  BY <1>3
<1>13. r \in ResolveFrames
  BY <1>3, <1>5, <1>10, <1>11 DEF ResolveFrames
<1> HIDE DEF r
<1>14. phase = "build" => rest # <<>> /\ Head(rest) = todo[n + 1]
  <2> SUFFICES ASSUME phase = "build"
               PROVE  rest # <<>> /\ Head(rest) = todo[n + 1]
    OBVIOUS
  <2>1. n \in Nat /\ n + 1 \in 1..Len(todo)
    BY <1>4, <1>11
  <2>2. 1 \in 1..(Len(todo) - n)
    BY <1>1, <2>1
  <2>3. rest[1] = todo[n + 1] /\ Len(rest) # 0
    BY <1>1, <1>5, <2>1, <2>2
  <2> QED
    BY <1>5, <2>3, EmptySeq
<1>15. Prepared(Effective(c), rest, Overlay(had, vals))
  <2> SUFFICES ASSUME NEW i \in 1..(Len(todo) - n), NEW d \in Range(Deps[Effective(c)[rest[i]]]),
                      d \notin found \cup DOMAIN vals
               PROVE  \E j \in 1..(i - 1) : d = rest[j]
    BY <1>5, <1>10 DEF Prepared
  <2>1. n + i \in 1..Len(todo) /\ rest[i] = todo[n + i]
    BY <1>5
  <2>0. PICK m \in 1..Len(todo) : m = n + i
    BY <2>1
  <2>2. PICK j \in 1..(m - 1) : d = todo[j]
    BY <2>1, <2>0, PreparedAt
  <2>3. j \notin 1..n
    BY <2>2 DEF found
  <2>4. j - n \in 1..(i - 1) /\ j - n \in 1..(Len(todo) - n) /\ n + (j - n) = j
    BY <1>1, <1>4, <2>0, <2>3
  <2>5. rest[j - n] = todo[j]
    BY <1>5, <2>4
  <2> QED
    BY <2>2, <2>4, <2>5
<1>16. Ready(r)
  BY <1>12, <1>14, <1>15 DEF Ready
<1>17. r.phase = "build" => Usable(caches, c, root, Head(r.todo)) = {}
  BY <1>4, <1>11, <1>12, <1>14
<1>18. Range(r.todo) \subseteq Range(todo)
  <2> SUFFICES ASSUME NEW x \in Range(rest)
               PROVE  x \in Range(todo)
    BY <1>12
  <2>1. PICK i \in 1..(Len(todo) - n) : x = rest[i]
    BY <1>5, RangeFacts
  <2> QED
    BY <1>5, <2>1, RangeFacts
<1>19. \A k \in DOMAIN r.vals :
          \/ k \in DOMAIN vals /\ r.vals[k] = vals[k]
          \/ /\ k \in Range(todo) /\ Usable(caches, c, root, k) # {}
             /\ r.vals[k] = Lookup(caches, c, root, k)
  BY <1>7, <1>10, <1>12
<1> QED
  BY <1>11, <1>12, <1>13, <1>16, <1>17, <1>18, <1>19 DEF r

-----------------------------------------------------------------------------
\* Steps and the frames they leave alone

\* A resolution works in the context that was current when it began.
LEMMA ResolveCtx ==
    ASSUME Typed, Nested, NEW t \in Tasks, NEW i \in 1..Len(frames[t]), IsResolve(frames[t][i])
    PROVE  /\ frames[t][i] \in ResolveFrames /\ frames[t][i].ctx \in Ctxs /\ Used(frames[t][i].ctx)
           /\ i - 1 \in 0..Len(frames[t]) /\ frames[t][i].ctx = CurrentAt(t, i - 1)
<1>1. frames[t][i] \in Frames /\ frames[t][i].ctx \in Ctxs /\ i - 1 \in 0..Len(frames[t])
  BY FramesAt, FrameFacts
<1>2. ~IsCtx(frames[t][i])
  BY DEF IsCtx, IsResolve
<1>3. frames[t][i].ctx = CurrentAt(t, i - 1)
  BY DEF Nested, Layered, LayeredAt
<1>4. frames[t][i].ctx # NoCtx
  BY <1>1, InjectionAssumption
<1> QED
  BY <1>1, <1>2, <1>3, <1>4, FrameFacts DEF Nested, Enclosed

\* An open frame's context is the current one on top of it.
LEMMA OpenCurrent ==
    ASSUME Typed, NEW t \in Tasks, NEW i \in 1..Len(frames[t]), Opens(frames[t][i])
    PROVE  CurrentAt(t, i) = frames[t][i].ctx /\ i \in 0..Len(frames[t])
<1>1. i - 1 \in Nat /\ i - 1 + 1 = i /\ i \in 0..Len(frames[t])
  BY FramesAt
<1>2. PICK m \in Nat : m + 1 = i
  BY <1>1
<1>3. Opens(frames[t][m + 1]) => CurrentIn(frames[t], base[t], m + 1) = frames[t][m + 1].ctx
  BY CurrentOpened
<1> QED
  BY <1>1, <1>2, <1>3 DEF CurrentAt

\* Who has a task spawned in the frames of t is in a frame from which one may spawn.
LEMMA SpawnedBelow ==
    ASSUME Typed, Nested, NEW t \in Tasks
    PROVE  /\ Below(t, Len(frames[t]))
           /\ frames[t] # <<>> /\ ~Firm(frames[t][Len(frames[t])]) => Below(t, Len(frames[t]) - 1)
           /\ frames[t] # <<>> /\ Joined(t) => Below(t, Len(frames[t]) - 1)
           /\ frames[t] # <<>> => t \in alive
<1> DEFINE n == Len(frames[t])
<1>1. n \in Nat /\ (frames[t] # <<>> => n # 0)
  BY FramesAt
<1>2. ASSUME NEW u \in alive, parent[u].task = t
      PROVE  parent[u].at \in 0..n /\ (parent[u].at > 0 => Firm(frames[t][parent[u].at]))
  BY <1>2, InjectionAssumption DEF Nested, Families, Placed
<1>3. Below(t, n)
  BY <1>1, <1>2 DEF Below
<1>4. ASSUME frames[t] # <<>>, ~Firm(frames[t][n])
      PROVE  Below(t, n - 1)
  <2> SUFFICES ASSUME NEW u \in alive, parent[u].task = t
               PROVE  parent[u].at <= n - 1
    BY DEF Below
  <2>1. parent[u].at \in 0..n /\ parent[u].at # n
    <3>1. n > 0
      BY <1>1, <1>4
    <3> HIDE DEF n
    <3> QED
      BY <1>2, <1>4, <3>1
  <2> HIDE DEF n
  <2> QED
    BY <1>1, <2>1
<1>5. ASSUME frames[t] # <<>>, Joined(t)
      PROVE  Below(t, n - 1)
  <2> SUFFICES ASSUME NEW u \in alive, parent[u].task = t
               PROVE  parent[u].at <= n - 1
    BY DEF Below
  <2>1. parent[u].at \in 0..n /\ parent[u].at < n
    BY <1>2, <1>5 DEF Joined
  <2> HIDE DEF n
  <2> QED
    BY <1>1, <2>1
<1>6. frames[t] # <<>> => t \in alive
  BY DEF Nested, Families
<1> QED
  BY <1>3, <1>4, <1>5, <1>6

\* Nothing works inside of a context that is being closed, or in its scope.
LEMMA NotClosing ==
    ASSUME Typed, Nested, NEW t \in Tasks, NEW n \in 0..Len(frames[t]),
           NEW c, c \in Range(Chain(CurrentAt(t, n))),
           NEW u \in Tasks, NEW i \in 1..Len(frames[u]), Entered(u, i, c)
    PROVE  ~frames[u][i].closing
<1>1. PICK v \in Tasks, j \in Nat : Entered(v, j, c) /\ ~frames[v][j].closing
  BY DEF Nested, Enclosed, EnclosedAt
<1>2. i \in Nat /\ c \in Ctxs
  BY FramesAt, FrameFacts DEF Entered
<1>3. u = v /\ i = j
  BY <1>1, <1>2 DEF Nested, EnteredOnce
<1> QED
  BY <1>1, <1>3

\* The scope of the current context is one of the contexts around.
LEMMA ScopeAround ==
    ASSUME Typed, Nested, NEW t \in Tasks, NEW n \in 0..Len(frames[t]),
           NEW c \in Ctxs, c = CurrentAt(t, n)
    PROVE  /\ Used(c) /\ ctxs[c].scope \in Range(Chain(c)) /\ Chain(c) = ctxs[c].chain
           /\ ctxs[c].scope \in Ctxs
<1>1. c # NoCtx
  BY InjectionAssumption
<1>2. Used(c) /\ Chain(c) = ctxs[c].chain
  BY <1>1 DEF Nested, Enclosed, Chain
<1>3. ctxs[c].scope \in Range(Chain(c))
  BY <1>2 DEF Nested, Chained
<1>4. Range(Chain(c)) \subseteq Ctxs
  BY ChainType, RangeFacts
<1> QED
  BY <1>2, <1>3, <1>4

\* The frames of the other tasks, and the first k of those of t, stay.
Same(t, k) ==
    /\ \A u \in Tasks \ {t} : frames'[u] = frames[u]
    /\ k <= Len(frames[t]) /\ k <= Len(frames'[t])
    /\ \A i \in 1..k : frames'[t][i] = frames[t][i]

\* What a context in use is does not change.
Stable == \A d \in Ctxs : Used(d) /\ Used(d)' => ctxs'[d] = ctxs[d]

\* A frame that stays is one of the first k, or another task's.
LEMMA Stays ==
    ASSUME Typed, Typed', NEW t \in Tasks, NEW k \in Nat, Same(t, k),
           NEW u \in Tasks, NEW i \in Nat, u # t \/ i <= k
    PROVE  /\ i \in 1..Len(frames'[u]) <=> i \in 1..Len(frames[u])
           /\ i \in 1..Len(frames[u]) => frames'[u][i] = frames[u][i]
<1>1. Len(frames[t]) \in Nat /\ Len(frames'[t]) \in Nat
  BY FramesAt DEF Typed
<1>2. CASE u # t
  BY <1>2 DEF Same
<1>3. CASE u = t /\ i <= k
  BY <1>1, <1>3 DEF Same
<1> QED
  BY <1>2, <1>3

\* A resolution that stays still works in a context that is what it was.
LEMMA StaysInContext ==
    ASSUME Typed, Nested, Typed', Nested', Stable, NEW u \in Tasks, NEW i \in 1..Len(frames[u]),
           IsResolve(frames[u][i]), i \in 1..Len(frames'[u]), frames'[u][i] = frames[u][i],
           NEW c, c = frames[u][i].ctx
    PROVE  c \in Ctxs /\ Used(c) /\ Used(c)' /\ ctxs'[c] = ctxs[c] /\ Effective(c)' = Effective(c)
<1>1. c \in Ctxs /\ Used(c)
  BY ResolveCtx
<1>2. Used(c)'
  <2>1. IsResolve(frames'[u][i]) /\ frames'[u][i].ctx = c
    OBVIOUS
  <2>2. i - 1 \in 0..Len(frames'[u])
    BY FramesAt
  <2>3. CurrentAt(u, i - 1)' = c
    BY <2>1 DEF Nested, Layered, LayeredAt, IsResolve
  <2>4. CurrentAt(u, i - 1)' = NoCtx \/ Used(CurrentAt(u, i - 1))'
    BY <2>2 DEF Nested, Enclosed
  <2> QED
    BY <1>1, <2>3, <2>4, InjectionAssumption DEF Used
<1>3. ctxs'[c] = ctxs[c]
  BY <1>1, <1>2 DEF Stable
<1>4. Effective(c)' = Effective(c)
  BY <1>1, <1>2, EffectiveKept DEF Stable
<1> QED
  BY <1>1, <1>2, <1>3, <1>4

\* The resolutions that stay are as ready as they were.
LEMMA StepInOrder ==
    ASSUME Typed, Nested, InOrder, Typed', Nested', Stable, NEW t \in Tasks, NEW k \in Nat, Same(t, k),
           \A i \in 1..Len(frames'[t]) : i > k /\ IsResolve(frames'[t][i]) => Ready(frames[t][i])'
    PROVE  InOrder'
<1> SUFFICES ASSUME NEW u \in Tasks, NEW i \in 1..Len(frames'[u]), IsResolve(frames'[u][i]),
                    u # t \/ ~(i > k)
             PROVE  Ready(frames[u][i])'
  BY DEF InOrder, IsResolve
<1>1. i \in Nat /\ (u # t \/ i <= k)
  BY FramesAt DEF Typed
<1>2. i \in 1..Len(frames[u]) /\ frames'[u][i] = frames[u][i]
  BY <1>1, Stays
<1>3. Ready(frames[u][i]) /\ IsResolve(frames[u][i])
  BY <1>2 DEF InOrder, IsResolve
<1>4. PICK c : c = frames[u][i].ctx
  OBVIOUS
<1>5. Effective(c)' = Effective(c)
  BY <1>2, <1>3, <1>4, StaysInContext
<1>6. PICK f : f = frames[u][i]
  OBVIOUS
<1>7. Prepared(Effective(c)', f.todo, f.vals) /\ (f.phase = "build" => f.todo # <<>>)
  BY <1>3, <1>4, <1>5, <1>6 DEF Ready
<1> QED
  BY <1>2, <1>4, <1>6, <1>7 DEF Ready

\* So does a context that is entered.
LEMMA StaysEntered ==
    ASSUME Typed, Nested, Typed', Nested', Stable, NEW u \in Tasks, NEW i \in 1..Len(frames[u]),
           IsCtx(frames[u][i]), i \in 1..Len(frames'[u]), frames'[u][i] = frames[u][i],
           NEW c, c = frames[u][i].ctx
    PROVE  c \in Ctxs /\ Used(c) /\ Used(c)' /\ ctxs'[c] = ctxs[c]
<1>1. c \in Ctxs
  BY FramesAt, FrameFacts
<1>2. Used(c)
  BY DEF Nested, Layered, LayeredAt, Around
<1>3. Used(c)'
  BY DEF Nested, Layered, LayeredAt, Around, IsCtx, Used
<1> QED
  BY <1>1, <1>2, <1>3 DEF Stable

\* More generators on the exit stack leave every value standing.
LEMMA StandsOn ==
    ASSUME NEW v, NEW c, NEW s, ctxs[c].scope = s, ctxs'[c].scope = s,
           Len(stack[s]) \in Nat, Len(stack'[s]) \in Nat, Len(stack[s]) <= Len(stack'[s]),
           Standing(v, c)
    PROVE  Standing(v, c)'
<1>1. v.gens \subseteq 1..Len(stack[s])
  BY DEF Standing
<1>2. v.gens \subseteq 1..Len(stack'[s])
  BY <1>1
<1> QED
  BY <1>2 DEF Standing

\* Values stand where generators are only added.
LEMMA StepKept ==
    ASSUME Typed, Nested, Kept, Typed', Nested', Stable, NEW t \in Tasks, NEW k \in Nat, Same(t, k),
           \A s \in Ctxs : Len(stack[s]) <= Len(stack'[s]),
           \A d \in Ctxs : ~Used(d)' => cache'[d] = Nothing,
           \A d \in Ctxs : Used(d) /\ Used(d)' =>
              cache'[d] = cache[d] \/ \A x \in DOMAIN cache'[d] : Standing(cache[d][x], d)',
           \A i \in 1..Len(frames'[t]) : i > k => KeptAt(t, i)'
    PROVE  Kept'
<1>1. SUFFICES ASSUME NEW u \in Tasks, NEW i \in 1..Len(frames'[u]), u # t \/ ~(i > k)
               PROVE  KeptAt(u, i)'
  BY DEF Kept
<1>2. i \in Nat /\ (u # t \/ i <= k)
  BY <1>1, FramesAt DEF Typed
<1>3. i \in 1..Len(frames[u]) /\ frames'[u][i] = frames[u][i]
  BY <1>2, Stays
<1>4. PICK f : f = frames[u][i]
  OBVIOUS
<1>5. PICK c : c = f.ctx
  OBVIOUS
<1>6. /\ Opens(f) => \A x \in DOMAIN cache[c] : Standing(cache[c][x], c)
      /\ IsResolve(f) => \A x \in DOMAIN f.vals : Standing(f.vals[x], c)
  BY <1>3, <1>4, <1>5 DEF Kept, KeptAt
<1>7. Opens(f) \/ IsResolve(f) => c \in Ctxs /\ Used(c) /\ Used(c)' /\ ctxs'[c] = ctxs[c]
  <2>1. Opens(f) => IsCtx(f)
    BY DEF Opens
  <2> QED
    BY <1>3, <1>4, <1>5, <2>1, StaysEntered, StaysInContext
<1>8. ASSUME Opens(f) \/ IsResolve(f), NEW v, Standing(v, c)
      PROVE  Standing(v, c)'
  <2>1. c \in Ctxs /\ ctxs'[c] = ctxs[c] /\ Used(c)
    BY <1>7, <1>8
  <2>2. PICK s : s = ctxs[c].scope
    OBVIOUS
  <2>3. s \in Ctxs
    <3>1. ctxs[c].chain \in Seq(Ctxs)
      BY <2>1 DEF Typed, Contexts
    <3> QED
      BY <2>1, <2>2, <3>1, RangeFacts DEF Nested, Chained
  <2>4. Len(stack[s]) \in Nat /\ Len(stack'[s]) \in Nat /\ Len(stack[s]) <= Len(stack'[s])
    BY <2>3, LenProperties DEF Typed
  <2> QED
    BY <1>8, <2>1, <2>2, <2>4, StandsOn
<1>9. Opens(f) => \A x \in DOMAIN cache'[c] : Standing(cache[c][x], c)'
  <2> SUFFICES ASSUME Opens(f), cache'[c] = cache[c], NEW x \in DOMAIN cache[c]
               PROVE  Standing(cache[c][x], c)'
    BY <1>7
  <2>1. PICK v : v = cache[c][x]
    OBVIOUS
  <2>2. Standing(v, c)'
    BY <1>6, <1>8, <2>1
  <2> QED
    BY <2>1, <2>2
<1>10. IsResolve(f) => \A x \in DOMAIN f.vals : Standing(f.vals[x], c)'
  BY <1>6, <1>8
<1> QED
  BY <1>3, <1>4, <1>5, <1>9, <1>10 DEF KeptAt, Standing, Opens, IsCtx, IsResolve

\* A block of a lock whose resolution stays is one still.
LEMMA HoldsStay ==
    ASSUME Typed, Nested, Typed', Nested', Stable, NEW t \in Tasks, NEW k \in Nat, Same(t, k),
           NEW u \in Tasks, NEW i \in Nat, u # t \/ i <= k, NEW s
    PROVE  Holds(u, i, s)' <=> Holds(u, i, s)
<1>1. /\ i \in 1..Len(frames'[u]) <=> i \in 1..Len(frames[u])
      /\ i \in 1..Len(frames[u]) => frames'[u][i] = frames[u][i]
  BY Stays
<1>2. ASSUME i \in 1..Len(frames[u]), IsResolve(frames[u][i])
      PROVE  ctxs'[frames[u][i].ctx] = ctxs[frames[u][i].ctx]
  BY <1>1, <1>2, StaysInContext
<1> QED
  BY <1>1, <1>2 DEF Holds, IsResolve

\* Where no block begins or ends, the counts stay.
LEMMA StepCounted ==
    ASSUME Typed, Nested, Counted, Typed', Nested', Stable, NEW t \in Tasks, NEW k \in Nat, Same(t, k),
           nest' = nest, \A s \in Ctxs : \A i \in Nat : i > k => (Holds(t, i, s)' <=> Holds(t, i, s))
    PROVE  Counted'
<1> SUFFICES ASSUME NEW s \in Ctxs, NEW u \in Tasks
             PROVE  Holding(u, s)' = Holding(u, s)
  BY DEF Counted
<1>1. \A i \in Nat : Holds(u, i, s)' <=> Holds(u, i, s)
  <2> SUFFICES ASSUME NEW i \in Nat
               PROVE  Holds(u, i, s)' <=> Holds(u, i, s)
    OBVIOUS
  <2>1. CASE u # t \/ i <= k
    BY <2>1, HoldsStay
  <2>2. CASE u = t /\ i > k
    BY <2>2
  <2> QED
    BY <2>1, <2>2
<1>2. \A i : Holds(u, i, s) => i \in 1..Len(frames[u]) /\ i \in Nat
  BY FramesAt DEF Holds
<1>3. \A i : Holds(u, i, s)' => i \in 1..Len(frames'[u]) /\ i \in Nat
  BY FramesAt DEF Holds, Typed
<1>4. \A i : i \in Holding(u, s) <=> i \in Nat /\ Holds(u, i, s)
  BY <1>2 DEF Holding
<1>5. \A i : i \in Holding(u, s)' <=> i \in Nat /\ Holds(u, i, s)'
  BY <1>3 DEF Holding
<1> QED
  BY <1>1, <1>4, <1>5

\* A block begins in the topmost frame.
LEMMA HoldingGrows ==
    ASSUME Typed, Counted, Typed', NEW t \in Tasks, NEW u \in Tasks, NEW s \in Ctxs, NEW n \in Nat,
           ~Holds(u, n, s), Holds(u, n, s)', \A i \in Nat : i # n => (Holds(u, i, s)' <=> Holds(u, i, s)),
           nest'[s][u] = nest[s][u] + 1
    PROVE  nest'[s][u] = Cardinality(Holding(u, s)')
<1> DEFINE H == Holding(u, s)
           G == Holding(u, s)'
<1>1. Len(frames[u]) \in Nat /\ Len(frames'[u]) \in Nat
  BY FramesAt DEF Typed
<1>2. H \in SUBSET (1..Len(frames[u])) /\ IsFiniteSet(H)
  <2>1. H \in SUBSET (1..Len(frames[u]))
    BY DEF Holding
  <2>2. PICK m \in Nat : m = Len(frames[u])
    BY <1>1
  <2>3. IsFiniteSet(1..m)
    BY FS_Interval
  <2>4. H \in SUBSET (1..m)
    BY <2>1, <2>2
  <2> HIDE DEF H
  <2> QED
    BY <2>1, <2>3, <2>4, FS_Subset
<1>3. \A i : i \in H <=> i \in Nat /\ Holds(u, i, s)
  BY <1>1 DEF Holding, Holds
<1>4. \A i : i \in G <=> i \in Nat /\ Holds(u, i, s)'
  BY <1>1 DEF Holding, Holds
<1> HIDE DEF H, G
<1>5. G = H \cup {n} /\ n \notin H
  BY <1>3, <1>4
<1>6. Cardinality(G) = Cardinality(H) + 1
  BY <1>2, <1>5, FS_AddElement
<1>7. nest[s][u] = Cardinality(H)
  BY DEF Counted, H
<1> QED
  BY <1>6, <1>7 DEF G

\* A block ends in the topmost frame.
LEMMA HoldingShrinks ==
    ASSUME Typed, Counted, Typed', NEW u \in Tasks, NEW s \in Ctxs, NEW n \in Nat,
           Holds(u, n, s), ~Holds(u, n, s)', \A i \in Nat : i # n => (Holds(u, i, s)' <=> Holds(u, i, s)),
           nest'[s][u] = nest[s][u] - 1
    PROVE  nest'[s][u] = Cardinality(Holding(u, s)')
<1> DEFINE H == Holding(u, s)
           G == Holding(u, s)'
<1>1. Len(frames[u]) \in Nat /\ Len(frames'[u]) \in Nat
  BY FramesAt DEF Typed
<1>2. H \in SUBSET (1..Len(frames[u])) /\ IsFiniteSet(H)
  <2>1. H \in SUBSET (1..Len(frames[u]))
    BY DEF Holding
  <2>2. PICK m \in Nat : m = Len(frames[u])
    BY <1>1
  <2>3. IsFiniteSet(1..m)
    BY FS_Interval
  <2>4. H \in SUBSET (1..m)
    BY <2>1, <2>2
  <2> HIDE DEF H
  <2> QED
    BY <2>1, <2>3, <2>4, FS_Subset
<1>3. \A i : i \in H <=> i \in Nat /\ Holds(u, i, s)
  BY <1>1 DEF Holding, Holds
<1>4. \A i : i \in G <=> i \in Nat /\ Holds(u, i, s)'
  BY <1>1 DEF Holding, Holds
<1> HIDE DEF H, G
<1>5. G = H \ {n} /\ n \in H
  BY <1>3, <1>4
<1>6. Cardinality(G) = Cardinality(H) - 1
  BY <1>2, <1>5, FS_RemoveElement
<1>7. nest[s][u] = Cardinality(H)
  BY DEF Counted, H
<1> QED
  BY <1>6, <1>7 DEF G

\* A step of t that has the lock of s taken in one more, or one less, of its frames.
Counts(t, n, s, more) ==
    /\ nest' = [nest EXCEPT ![s][t] = IF more THEN @ + 1 ELSE @ - 1]
    /\ IF more THEN ~Holds(t, n, s) /\ Holds(t, n, s)' ELSE Holds(t, n, s) /\ ~Holds(t, n, s)'
    /\ \A r \in Ctxs \ {s} : ~Holds(t, n, r) /\ ~Holds(t, n, r)'
    /\ \A i \in Nat : i > n => \A r \in Ctxs : ~Holds(t, i, r) /\ ~Holds(t, i, r)'

\* Blocks that begin or end in the frame n of t are counted.
LEMMA BlockCounted ==
    ASSUME Typed, Nested, Counted, Typed', Nested', Stable, NEW t \in Tasks, NEW n \in Nat \ {0},
           Same(t, n - 1), NEW s \in Ctxs, NEW more \in BOOLEAN, Counts(t, n, s, more)
    PROVE  Counted'
<1> SUFFICES ASSUME NEW r \in Ctxs, NEW u \in Tasks
             PROVE  nest'[r][u] = Cardinality(Holding(u, r)')
  BY DEF Counted
<1>0. n - 1 \in Nat /\ n \in Nat
  OBVIOUS
<1>1. \A i \in Nat : (u # t \/ i # n) => (Holds(u, i, r)' <=> Holds(u, i, r))
  <2> SUFFICES ASSUME NEW i \in Nat, u # t \/ i # n
               PROVE  Holds(u, i, r)' <=> Holds(u, i, r)
    OBVIOUS
  <2>1. CASE u # t \/ i <= n - 1
    BY <1>0, <2>1, HoldsStay
  <2>2. CASE u = t /\ i > n
    BY <2>2 DEF Counts
  <2> QED
    BY <2>1, <2>2
<1>2. nest \in [Ctxs -> [Tasks -> Nat]]
  BY DEF Typed
<1>3. CASE u = t /\ r = s
  <2>1. nest'[r][u] = IF more THEN nest[r][u] + 1 ELSE nest[r][u] - 1
    BY <1>2, <1>3 DEF Counts
  <2>2. CASE more
    BY <1>0, <1>1, <1>3, <2>1, <2>2, HoldingGrows DEF Counts
  <2>3. CASE ~more
    BY <1>0, <1>1, <1>3, <2>1, <2>3, HoldingShrinks DEF Counts
  <2> QED
    BY <2>2, <2>3
<1>4. CASE ~(u = t /\ r = s)
  <2>1. nest'[r][u] = nest[r][u]
    BY <1>2, <1>4 DEF Counts
  <2>2. \A i \in Nat : Holds(u, i, r)' <=> Holds(u, i, r)
    BY <1>1, <1>4 DEF Counts
  <2>3. \A i : Holds(u, i, r) => i \in 1..Len(frames[u]) /\ i \in Nat
    BY FramesAt DEF Holds
  <2>4. \A i : Holds(u, i, r)' => i \in 1..Len(frames'[u]) /\ i \in Nat
    BY FramesAt DEF Holds, Typed
  <2>5. \A i : i \in Holding(u, r) <=> i \in Nat /\ Holds(u, i, r)
    BY <2>3 DEF Holding
  <2>6. \A i : i \in Holding(u, r)' <=> i \in Nat /\ Holds(u, i, r)'
    BY <2>4 DEF Holding
  <2>7. Holding(u, r)' = Holding(u, r)
    BY <2>2, <2>5, <2>6
  <2> QED
    BY <2>1, <2>7 DEF Counted
<1> QED
  BY <1>3, <1>4

-----------------------------------------------------------------------------
\* Resolutions

\* What a resolution finds in the caches stands, when the caches of the open contexts do.
LEMMA LookupStands ==
    ASSUME Typed, Nested, NEW t \in Tasks, NEW n \in 0..Len(frames[t]), NEW c \in Ctxs,
           c = CurrentAt(t, n), NEW caches \in Caches, NEW st,
           \A u \in Tasks : \A i \in 1..Len(frames[u]) : Opens(frames[u][i]) =>
              \A k \in DOMAIN caches[frames[u][i].ctx] :
                 caches[frames[u][i].ctx][k].gens \subseteq 1..Len(st[ctxs[frames[u][i].ctx].scope]),
           NEW root, NEW k, Usable(caches, c, root, k) # {}
    PROVE  Lookup(caches, c, root, k).gens \subseteq 1..Len(st[ctxs[c].scope])
<1>1. Used(c) /\ Chain(c) = ctxs[c].chain
  BY ScopeAround
<1>2. PICK i \in {1} \cup Inherited(c) :
         /\ i \in 1..Len(ctxs[c].chain) /\ ctxs[c].chain[i] \in Ctxs
         /\ k \in DOMAIN caches[ctxs[c].chain[i]]
         /\ Lookup(caches, c, root, k) = caches[ctxs[c].chain[i]][k]
  BY <1>1, LookupFacts
<1>3. PICK x \in Ctxs : x = ctxs[c].chain[i]
  BY <1>2
<1>4. ctxs[x].scope = ctxs[c].scope
  BY <1>1, <1>2, <1>3 DEF Nested, Chained
<1>5. x \in Range(Chain(CurrentAt(t, n)))
  <2>1. ctxs[c].chain \in Seq(Ctxs)
    BY DEF Typed, Contexts
  <2> QED
    BY <1>1, <1>2, <1>3, <2>1, RangeFacts
<1>6. PICK u \in Tasks, j \in Nat : Entered(u, j, x) /\ ~frames[u][j].closing
  BY <1>5 DEF Nested, Enclosed, EnclosedAt
<1>7. j \in 1..Len(frames[u]) /\ Opens(frames[u][j]) /\ frames[u][j].ctx = x
  BY <1>6 DEF Entered, Opens
<1>8. caches[x][k].gens \subseteq 1..Len(st[ctxs[x].scope])
  BY <1>2, <1>3, <1>7
<1> QED
  BY <1>2, <1>3, <1>4, <1>8

\* What is put in front of a task's order of calls is there for the rest.
LEMMA PreparedTail ==
    ASSUME NEW eff, NEW S, NEW todo \in Seq(S), todo # <<>>, NEW vals, NEW new,
           DOMAIN new = {Head(todo)}, Prepared(eff, todo, vals)
    PROVE  /\ Tail(todo) \in Seq(S) /\ Range(Tail(todo)) \subseteq Range(todo)
           /\ Prepared(eff, Tail(todo), Overlay(new, vals))
           /\ Head(todo) \in S /\ Range(Deps[eff[Head(todo)]]) \subseteq DOMAIN vals
<1>1. /\ Len(todo) \in Nat /\ Len(todo) # 0 /\ Head(todo) = todo[1] /\ todo[1] \in S
      /\ Tail(todo) \in Seq(S) /\ Len(Tail(todo)) = Len(todo) - 1
      /\ \A i \in 1..Len(Tail(todo)) : Tail(todo)[i] = todo[i + 1] /\ i + 1 \in 1..Len(todo)
  <2>1. Len(todo) \in Nat /\ Len(todo) # 0
    BY LenProperties, EmptySeq
  <2>2. 1 \in 1..Len(todo)
    BY <2>1
  <2>3. /\ Head(todo) = todo[1] /\ Tail(todo) \in Seq(S) /\ Len(Tail(todo)) = Len(todo) - 1
        /\ \A i \in 1..Len(Tail(todo)) : Tail(todo)[i] = todo[i + 1]
    BY HeadTailProperties
  <2>4. todo[1] \in S
    BY <2>2, ElementOfSeq
  <2>5. \A i \in 1..(Len(todo) - 1) : i + 1 \in 1..Len(todo)
    BY <2>1
  <2> QED
    BY <2>1, <2>3, <2>4, <2>5
<1>2. DOMAIN Overlay(new, vals) = {todo[1]} \cup DOMAIN vals
  <2>1. DOMAIN Overlay(new, vals) = DOMAIN new \cup DOMAIN vals
    BY OverlayAt
  <2> QED
    BY <1>1, <2>1
<1>3. Range(Tail(todo)) \subseteq Range(todo)
  <2> SUFFICES ASSUME NEW x \in Range(Tail(todo))
               PROVE  x \in Range(todo)
    OBVIOUS
  <2>1. PICK i \in 1..Len(Tail(todo)) : x = Tail(todo)[i]
    BY <1>1, RangeFacts
  <2> QED
    BY <1>1, <2>1, RangeFacts
<1>4. Prepared(eff, Tail(todo), Overlay(new, vals))
  <2> SUFFICES ASSUME NEW i \in 1..Len(Tail(todo)), NEW d \in Range(Deps[eff[Tail(todo)[i]]]),
                      d # todo[1], d \notin DOMAIN vals
               PROVE  \E j \in 1..(i - 1) : d = Tail(todo)[j]
    BY <1>2 DEF Prepared
  <2>1. PICK m \in 1..Len(todo) : m = i + 1 /\ Tail(todo)[i] = todo[m]
    BY <1>1
  <2>2. PICK j \in 1..(m - 1) : d = todo[j]
    BY <2>1, PreparedAt
  <2>3. j # 1 /\ j \in Nat /\ i \in Nat
    BY <2>2
  <2>4. j - 1 \in 1..(i - 1) /\ j - 1 + 1 = j /\ j - 1 \in 1..(Len(todo) - 1)
    BY <1>1, <2>1, <2>3
  <2>5. Tail(todo)[j - 1] = todo[j]
    BY <1>1, <2>4
  <2> QED
    BY <2>2, <2>4, <2>5
<1>5. Range(Deps[eff[todo[1]]]) \subseteq DOMAIN vals
  <2> SUFFICES ASSUME NEW d \in Range(Deps[eff[todo[1]]]), d \notin DOMAIN vals
               PROVE  FALSE
    OBVIOUS
  <2>1. PICK m \in 1..Len(todo) : m = 1
    BY <1>1
  <2>2. PICK j \in 1..(m - 1) : d = todo[j]
    BY <2>1, PreparedAt
  <2> QED
    BY <2>1, <2>2
<1> QED
  BY <1>1, <1>3, <1>4, <1>5

-----------------------------------------------------------------------------
\* The steps

\* The topmost frame.
LEMMA TopFacts ==
    ASSUME Typed, Nested, NEW t \in Tasks, frames[t] # <<>>
    PROVE  /\ Len(frames[t]) \in Nat \ {0} /\ Len(frames[t]) \in 1..Len(frames[t])
           /\ Top(t) = frames[t][Len(frames[t])] /\ Top(t) \in Frames /\ t \in alive
           /\ Len(frames[t]) - 1 \in Nat
<1>1. frames[t] \in Seq(Frames)
  BY FramesAt
<1>2. Len(frames[t]) \in Nat \ {0} /\ Last(frames[t]) = frames[t][Len(frames[t])] /\ Last(frames[t]) \in Frames
  BY <1>1, FrontFacts
<1>3. t \in alive
  BY DEF Nested, Families
<1> QED
  BY <1>2, <1>3 DEF Top

\* Pop takes the topmost frame off.
LEMMA PopFrames ==
    ASSUME Typed, Nested, NEW t \in Tasks, frames[t] # <<>>, Pop(t), NEW n, n = Len(frames[t])
    PROVE  /\ frames' \in [Tasks -> Seq(Frames)] /\ Same(t, n - 1)
           /\ Len(frames'[t]) = n - 1
<1>1. frames \in [Tasks -> Seq(Frames)]
  BY DEF Typed
<1>2. /\ Front(frames[t]) \in Seq(Frames) /\ Len(frames[t]) \in Nat \ {0}
      /\ Len(Front(frames[t])) = Len(frames[t]) - 1
      /\ \A i \in 1..(Len(frames[t]) - 1) : Front(frames[t])[i] = frames[t][i]
  BY <1>1, FrontFacts
<1>3. frames'[t] = Front(frames[t]) /\ \A u \in Tasks \ {t} : frames'[u] = frames[u]
  BY <1>1 DEF Pop
<1>4. frames' \in [Tasks -> Seq(Frames)]
  BY <1>1, <1>2 DEF Pop
<1>5. n - 1 <= n
  BY <1>2
<1> QED
  BY <1>2, <1>3, <1>4, <1>5 DEF Same

\* SetTop replaces the topmost frame.
LEMMA SetTopFrames ==
    ASSUME Typed, Nested, NEW t \in Tasks, frames[t] # <<>>, NEW f \in Frames, SetTop(t, f),
           NEW n, n = Len(frames[t])
    PROVE  /\ frames' \in [Tasks -> Seq(Frames)] /\ Same(t, n - 1)
           /\ Len(frames'[t]) = n /\ frames'[t][n] = f
<1>1. frames \in [Tasks -> Seq(Frames)]
  BY DEF Typed
<1> DEFINE g == Append(Front(frames[t]), f)
<1>2. /\ g \in Seq(Frames) /\ Len(g) = Len(frames[t]) /\ g[Len(frames[t])] = f
      /\ \A i \in 1..(Len(frames[t]) - 1) : g[i] = frames[t][i]
  BY <1>1, ReplaceLast
<1>3. frames'[t] = g /\ \A u \in Tasks \ {t} : frames'[u] = frames[u]
  BY <1>1 DEF SetTop
<1>4. frames' \in [Tasks -> Seq(Frames)]
  BY <1>1, <1>2 DEF SetTop
<1>5. n \in Nat /\ n - 1 <= n
  BY FramesAt
<1> QED
  BY <1>2, <1>3, <1>4, <1>5 DEF Same

\* Append puts a frame on top.
LEMMA PushFrames ==
    ASSUME Typed, NEW t \in Tasks, NEW f \in Frames,
           frames' = [frames EXCEPT ![t] = Append(@, f)], NEW n, n = Len(frames[t])
    PROVE  /\ frames' \in [Tasks -> Seq(Frames)] /\ Same(t, n)
           /\ Len(frames'[t]) = n + 1 /\ frames'[t][n + 1] = f
<1>1. frames \in [Tasks -> Seq(Frames)]
  BY DEF Typed
<1> DEFINE g == Append(frames[t], f)
<1>2. /\ g \in Seq(Frames) /\ Len(g) = n + 1 /\ g[n + 1] = f
      /\ \A i \in 1..n : g[i] = frames[t][i]
  BY <1>1, AppendFacts
<1>3. frames'[t] = g /\ \A u \in Tasks \ {t} : frames'[u] = frames[u]
  BY <1>1
<1>4. frames' \in [Tasks -> Seq(Frames)]
  BY <1>1, <1>2
<1>5. n \in Nat /\ n <= n + 1
  BY FramesAt
<1> QED
  BY <1>2, <1>3, <1>4, <1>5 DEF Same

\* The frames of the resolutions and the contexts that begin.
LEMMA NewFrames ==
    ASSUME NEW c \in Ctxs
    PROVE  /\ \A body \in BOOLEAN : CtxFrame(c, body) \in Frames /\ Opens(CtxFrame(c, body))
           /\ \A root \in Calls : ResolveFrame(c, root) \in Frames /\ IsResolve(ResolveFrame(c, root))
<1>1. Nothing \in PartialMap(Calls, Value)
  BY DEF Nothing, PartialMap
<1>2. <<>> \in Seq(Calls)
  BY EmptySeq
<1> QED
  BY <1>1, <1>2 DEF CtxFrame, ResolveFrame, Resolution, Frames, CtxFrames, ResolveFrames, Opens,
                    IsCtx, IsResolve

\* A resolution that ends, or changes: who is in which context stays.
LEMMA TopResolution ==
    ASSUME IInv, Typed', NEW t \in Tasks, frames[t] # <<>>, IsResolve(Top(t)),
           NEW n, n = Len(frames[t]), Below(t, n - 1), Same(t, n - 1),
           Len(frames'[t]) = n - 1 \/ /\ Len(frames'[t]) = n /\ IsResolve(frames'[t][n])
                                      /\ frames'[t][n].ctx = Top(t).ctx,
           UNCHANGED <<alive, base, parent, ctxs>>
    PROVE  Nested' /\ Stable
<1>1. Typed /\ Nested
  BY DEF IInv
<1>2. n \in Nat \ {0} /\ n \in 1..n /\ n - 1 \in Nat /\ Top(t) = frames[t][n] /\ t \in alive
  BY <1>1, TopFacts
<1>3. Top(t).ctx = CurrentAt(t, n - 1)
  BY <1>1, <1>2, ResolveCtx
<1>4. \A i \in (n - 1 + 1)..n : i = n
  BY <1>2
<1>5. \A i \in (n - 1 + 1)..Len(frames'[t]) : i = n /\ Len(frames'[t]) = n
  BY <1>2
<1>6. Inner(t, n - 1)
  BY <1>2, <1>3, <1>4, <1>5 DEF Inner, Same
<1>7. Nested'
  BY <1>1, <1>2, <1>6, InnerKeeps
<1> QED
  BY <1>7 DEF Stable

\* A lock that is held in a frame is counted.
LEMMA HeldCounts ==
    ASSUME Typed, Counted, NEW t \in Tasks, NEW s \in Ctxs, NEW n, Holds(t, n, s)
    PROVE  nest[s][t] \in Nat \ {0}
<1> DEFINE H == Holding(t, s)
<1>1. n \in H
  BY DEF Holding, Holds
<1>2. IsFiniteSet(H)
  <2>1. H \in SUBSET (1..Len(frames[t]))
    BY DEF Holding
  <2>2. PICK m \in Nat : m = Len(frames[t])
    BY FramesAt
  <2>3. IsFiniteSet(1..m)
    BY FS_Interval
  <2>4. H \in SUBSET (1..m)
    BY <2>1, <2>2
  <2> HIDE DEF H
  <2> QED
    BY <2>3, <2>4, FS_Subset
<1>3. Cardinality(H) # 0
  <2> HIDE DEF H
  <2> QED
    BY <1>1, <1>2, FS_EmptySet
<1>4. nest[s][t] = Cardinality(H) /\ nest[s][t] \in Nat
  BY DEF Counted, Typed
<1> QED
  BY <1>3, <1>4

\* The topmost resolution, its scope and whether it is in the lock of it.
LEMMA TopScope ==
    ASSUME Typed, Nested, NEW t \in Tasks, frames[t] # <<>>, IsResolve(Top(t)),
           NEW n, n = Len(frames[t])
    PROVE  /\ Scope(t) \in Ctxs /\ Top(t).ctx \in Ctxs /\ Used(Top(t).ctx) /\ Top(t) \in ResolveFrames
           /\ n - 1 \in 0..n /\ Top(t).ctx = CurrentAt(t, n - 1)
           /\ \A s : Holds(t, n, s) <=> s = Scope(t) /\ Top(t).phase # "lock"
           /\ \A i \in Nat : i > n => \A s : ~Holds(t, i, s)
<1>1. n \in Nat \ {0} /\ n \in 1..n /\ Top(t) = frames[t][n]
  BY TopFacts
<1>2. /\ Top(t) \in ResolveFrames /\ Top(t).ctx \in Ctxs /\ Used(Top(t).ctx)
      /\ n - 1 \in 0..n /\ Top(t).ctx = CurrentAt(t, n - 1)
  BY <1>1, ResolveCtx
<1>3. PICK c \in Ctxs : c = Top(t).ctx
  BY <1>2
<1>4. ctxs[c].scope \in Ctxs
  BY <1>2, <1>3, ScopeAround
<1>5. \A s : Holds(t, n, s) <=> s = Scope(t) /\ Top(t).phase # "lock"
  BY <1>1 DEF Holds, Scope
<1>6. \A i \in Nat : i > n => ~(i \in 1..Len(frames[t]))
  BY <1>1
<1> QED
  BY <1>2, <1>3, <1>4, <1>5, <1>6 DEF Scope, Holds

\* A resolution is gone: what else there is, is as it was.
LEMMA ResolutionGone ==
    ASSUME IInv, Typed', NEW t \in Tasks, frames[t] # <<>>, IsResolve(Top(t)),
           NEW n, n = Len(frames[t]), Below(t, n - 1), Pop(t),
           UNCHANGED <<alive, base, parent, ctxs, cache, stack>>
    PROVE  /\ Nested' /\ Stable /\ InOrder' /\ Kept' /\ Same(t, n - 1)
           /\ \A i \in Nat : i >= n => \A s : ~Holds(t, i, s)'
<1>1. Typed /\ Nested /\ InOrder /\ Kept
  BY DEF IInv
<1>2. Same(t, n - 1) /\ Len(frames'[t]) = n - 1
  BY <1>1, PopFrames
<1>3. Nested' /\ Stable
  BY <1>2, TopResolution
<1>4. n \in Nat \ {0} /\ n - 1 \in Nat /\ \A i \in 1..Len(frames'[t]) : ~(i > n - 1)
  BY <1>1, <1>2, TopFacts
<1>5. InOrder'
  BY <1>1, <1>2, <1>3, <1>4, StepInOrder
<1>6. \A s \in Ctxs : Len(stack[s]) <= Len(stack'[s])
  BY <1>1, LenProperties DEF Typed
<1>7. \A d \in Ctxs : ~Used(d)' => cache'[d] = Nothing
  BY <1>1 DEF Kept, Used
<1>8. \A d \in Ctxs : Used(d) /\ Used(d)' => cache'[d] = cache[d]
  OBVIOUS
<1>9. Kept'
  BY <1>1, <1>2, <1>3, <1>4, <1>6, <1>7, <1>8, StepKept
<1>10. \A i \in Nat : i >= n => ~(i \in 1..Len(frames'[t]))
  BY <1>2, <1>4
<1> QED
  BY <1>2, <1>3, <1>5, <1>9, <1>10 DEF Holds

\* A resolution in a lock leaves it and is gone.
LEMMA LockLeft ==
    ASSUME IInv, NEW t \in Tasks, frames[t] # <<>>, IsResolve(Top(t)), Top(t).phase # "lock",
           Below(t, Len(frames[t]) - 1), Pop(t), nest' = [nest EXCEPT ![Scope(t)][t] = @ - 1],
           UNCHANGED <<alive, base, parent, ctxs, cache, stack, family>>
    PROVE  IInv'
<1>1. Typed /\ Nested /\ Counted
  BY DEF IInv
<1>2. PICK n : n = Len(frames[t])
  OBVIOUS
<1>3. n \in Nat \ {0} /\ n - 1 \in Nat /\ n - 1 < n
  BY <1>1, <1>2, TopFacts
<1>4. PICK s \in Ctxs : s = Scope(t)
  BY <1>1, TopScope
<1>5. Holds(t, n, s) /\ \A r \in Ctxs \ {s} : ~Holds(t, n, r)
  BY <1>1, <1>2, <1>4, TopScope
<1>6. \A i \in Nat : i > n => \A r : ~Holds(t, i, r)
  BY <1>1, <1>2, TopScope
<1>7. nest' = [nest EXCEPT ![s][t] = @ - 1]
  BY <1>4
<1>8. Typed'
  <2>1. nest[s][t] - 1 \in Nat
    BY <1>1, <1>5, HeldCounts
  <2>2. nest' \in [Ctxs -> [Tasks -> Nat]]
    <3>1. PICK m \in Nat : m = nest[s][t] - 1
      BY <2>1
    <3>2. nest \in [Ctxs -> [Tasks -> Nat]]
      BY <1>1 DEF Typed
    <3>3. nest' = [nest EXCEPT ![s] = [nest[s] EXCEPT ![t] = m]]
      BY <1>7, <3>1
    <3>4. [nest[s] EXCEPT ![t] = m] \in [Tasks -> Nat]
      BY <3>2
    <3> QED
      BY <3>2, <3>3, <3>4
  <2>3. frames' \in [Tasks -> Seq(Frames)]
    BY <1>1, <1>2, PopFrames
  <2> QED
    BY <1>1, <2>2, <2>3 DEF Typed
<1>9. /\ Nested' /\ Stable /\ InOrder' /\ Kept' /\ Same(t, n - 1)
      /\ \A i \in Nat : i >= n => \A r : ~Holds(t, i, r)'
  BY <1>2, <1>8, ResolutionGone
<1>10. \A i \in Nat : i > n => i >= n
  BY <1>3
<1>11. n \in Nat /\ n >= n
  BY <1>3
<1>12. Counts(t, n, s, FALSE)
  BY <1>5, <1>6, <1>7, <1>9, <1>10, <1>11 DEF Counts
<1>13. Counted'
  BY <1>1, <1>3, <1>8, <1>9, <1>12, BlockCounted
<1> QED
  BY <1>8, <1>9, <1>13 DEF IInv

\* The lock is left and the value returned.
LEMMA ReturnKeeps ==
    ASSUME IInv, NEW t \in Tasks, Return(t)
    PROVE  IInv'
<1>1. frames[t] # <<>> /\ Top(t).kind = "resolve" /\ Top(t).phase = "done"
  BY DEF Return, InPhase, OnTop
<1>2. Typed /\ Nested
  BY DEF IInv
<1>3. ~Firm(frames[t][Len(frames[t])])
  BY <1>1, <1>2, TopFacts DEF Firm, Opens, IsCtx, IsResolve
<1>4. Below(t, Len(frames[t]) - 1)
  BY <1>1, <1>2, <1>3, SpawnedBelow
<1> QED
  BY <1>1, <1>4, LockLeft DEF Return, IsResolve

\* The factory fails.
LEMMA FailKeeps ==
    ASSUME IInv, NEW t \in Tasks, Fail(t)
    PROVE  IInv'
<1>1. frames[t] # <<>> /\ Top(t).kind = "resolve" /\ Top(t).phase = "build" /\ Joined(t)
  BY DEF Fail, InPhase, OnTop
<1>2. Typed /\ Nested
  BY DEF IInv
<1>3. Below(t, Len(frames[t]) - 1)
  BY <1>1, <1>2, SpawnedBelow
<1> QED
  BY <1>1, <1>3, LockLeft DEF Fail, IsResolve

\* The wait for the lock is cancelled.
LEMMA AbandonKeeps ==
    ASSUME IInv, NEW t \in Tasks, Abandon(t)
    PROVE  IInv'
<1>1. frames[t] # <<>> /\ Top(t).kind = "resolve" /\ Top(t).phase = "lock" /\ Pop(t)
  BY DEF Abandon, InPhase, OnTop
<1>2. Typed /\ Nested /\ Counted
  BY DEF IInv
<1>3. ~Firm(frames[t][Len(frames[t])])
  BY <1>1, <1>2, TopFacts DEF Firm, Opens, IsCtx, IsResolve
<1>4. Below(t, Len(frames[t]) - 1)
  BY <1>1, <1>2, <1>3, SpawnedBelow
<1>5. PICK n : n = Len(frames[t])
  OBVIOUS
<1>6. Typed'
  <2>1. frames' \in [Tasks -> Seq(Frames)]
    BY <1>1, <1>2, <1>5, PopFrames
  <2> QED
    BY <1>2, <2>1 DEF Typed, Abandon
<1>7. /\ Nested' /\ Stable /\ InOrder' /\ Kept' /\ Same(t, n - 1)
      /\ \A i \in Nat : i >= n => \A s : ~Holds(t, i, s)'
  BY <1>1, <1>4, <1>5, <1>6, ResolutionGone DEF Abandon, IsResolve
<1>8. n \in Nat \ {0} /\ n - 1 \in Nat /\ \A i \in Nat : i > n - 1 => i >= n
  BY <1>1, <1>2, <1>5, TopFacts
<1>9. \A s \in Ctxs : \A i \in Nat : i > n - 1 => (Holds(t, i, s)' <=> Holds(t, i, s))
  <2> SUFFICES ASSUME NEW s \in Ctxs, NEW i \in Nat, i > n - 1
               PROVE  ~Holds(t, i, s) /\ ~Holds(t, i, s)'
    OBVIOUS
  <2>1. i = n \/ i > n
    BY <1>8
  <2>2. ~Holds(t, i, s)
    BY <1>1, <1>2, <1>5, <2>1, TopScope DEF IsResolve
  <2> QED
    BY <1>7, <1>8, <2>2
<1>10. nest' = nest
  BY DEF Abandon
<1>11. Counted'
  BY <1>2, <1>6, <1>7, <1>8, <1>9, <1>10, StepCounted
<1> QED
  BY <1>6, <1>7, <1>11 DEF IInv

\* A resolution that got its lock begins with all calls before it.
LEMMA PreparedFirst ==
    ASSUME NEW eff \in [Calls -> Calls], WellFounded(Calls, NeedsUnder(eff)), NEW c \in Calls
    PROVE  SolveOrder(eff, c) \in Seq(Calls) /\ Prepared(eff, SolveOrder(eff, c), Nothing)
<1> DEFINE todo == SolveOrder(eff, c)
<1>1. todo \in Seq(Calls) /\ DependenciesFirst(eff, todo)
  BY SolveOrderFacts
<1>2. \A i \in 1..Len(todo) : i \in DOMAIN todo
  BY <1>1, LenProperties
<1> HIDE DEF todo
<1>3. Prepared(eff, todo, Nothing)
  BY <1>1, <1>2 DEF Prepared, DependenciesFirst
<1> QED
  BY <1>1, <1>3 DEF todo

\* A resolution goes on: what else there is, is as it was.
LEMMA ResolutionMoves ==
    ASSUME IInv, Typed', NEW t \in Tasks, frames[t] # <<>>, IsResolve(Top(t)),
           NEW n, n = Len(frames[t]), Below(t, n - 1), NEW f \in Frames, SetTop(t, f),
           IsResolve(f), f.ctx = Top(t).ctx, f.phase # "lock", Ready(f),
           UNCHANGED <<alive, base, parent, ctxs>>
    PROVE  /\ Nested' /\ Stable /\ InOrder' /\ Same(t, n - 1)
           /\ Len(frames'[t]) = n /\ frames'[t][n] = f
           /\ \A s : Holds(t, n, s)' <=> s = Scope(t)
           /\ \A i \in Nat : i > n => \A s : ~Holds(t, i, s)'
<1>1. Typed /\ Nested /\ InOrder
  BY DEF IInv
<1>2. Same(t, n - 1) /\ Len(frames'[t]) = n /\ frames'[t][n] = f
  BY <1>1, SetTopFrames
<1>3. Nested' /\ Stable
  BY <1>2, TopResolution
<1>4. n \in Nat \ {0} /\ n \in 1..n /\ n - 1 \in Nat /\ \A i \in 1..Len(frames'[t]) : i > n - 1 => i = n
  BY <1>1, <1>2, TopFacts
<1>5. PICK c : c = f.ctx
  OBVIOUS
<1>6. c \in Ctxs /\ Used(c) /\ Used(c)'
  <2>1. c \in Ctxs /\ Used(c)
    BY <1>1, <1>5, TopScope
  <2> QED
    BY <2>1 DEF Used
<1>7. Effective(c)' = Effective(c)
  BY <1>1, <1>3, <1>6, EffectiveKept DEF Stable
<1>8. Ready(frames[t][n])'
  <2>1. Prepared(Effective(c)', f.todo, f.vals) /\ (f.phase = "build" => f.todo # <<>>)
    BY <1>5, <1>7 DEF Ready
  <2> QED
    BY <1>2, <1>5, <2>1 DEF Ready
<1>9. InOrder'
  <2>1. \A i \in 1..Len(frames'[t]) : i > n - 1 /\ IsResolve(frames'[t][i]) => Ready(frames[t][i])'
    BY <1>4, <1>8
  <2> QED
    BY <1>1, <1>2, <1>3, <1>4, <2>1, StepInOrder
<1>10. \A s : Holds(t, n, s)' <=> s = Scope(t)
  <2>1. ctxs'[f.ctx] = ctxs[Top(t).ctx]
    OBVIOUS
  <2> QED
    BY <1>2, <1>4, <2>1 DEF Holds, Scope, IsResolve
<1>11. \A i \in Nat : i > n => ~(i \in 1..Len(frames'[t]))
  BY <1>2, <1>4
<1> QED
  BY <1>2, <1>3, <1>9, <1>10, <1>11 DEF Holds

\* The lock is entered, and what is cached taken.
LEMMA EnterLockKeeps ==
    ASSUME IInv, NEW t \in Tasks, EnterLock(t)
    PROVE  IInv'
<1>1. /\ frames[t] # <<>> /\ Top(t).kind = "resolve" /\ Top(t).phase = "lock"
      /\ UNCHANGED <<alive, base, parent, ctxs, cache, stack, family>>
  BY DEF EnterLock, InPhase, OnTop
<1>2. Typed /\ Nested /\ Counted /\ Kept
  BY DEF IInv
<1>3. PICK n : n = Len(frames[t])
  OBVIOUS
<1>4. n \in Nat \ {0} /\ n - 1 \in Nat /\ n \in Nat /\ Top(t) = frames[t][n]
  BY <1>1, <1>2, <1>3, TopFacts
<1>5. Below(t, n - 1)
  <2>1. ~Firm(frames[t][n])
    BY <1>1, <1>4 DEF Firm, Opens, IsCtx, IsResolve
  <2> QED
    BY <1>1, <1>2, <1>3, <2>1, SpawnedBelow
<1>6. PICK c \in Ctxs : c = Top(t).ctx /\ Used(c) /\ n - 1 \in 0..n /\ c = CurrentAt(t, n - 1)
  BY <1>1, <1>2, <1>3, TopScope DEF IsResolve
<1>7. PICK root \in Calls : root = Top(t).root
  <2>1. Top(t) \in ResolveFrames
    BY <1>1, <1>2, <1>3, TopScope DEF IsResolve
  <2> QED
    BY <2>1 DEF ResolveFrames
<1>8. PICK todo : todo = SolveOrder(Effective(c), root)
  OBVIOUS
<1>9. todo \in Seq(Calls) /\ Prepared(Effective(c), todo, Nothing)
  BY <1>2, <1>8, EffectiveFacts, PreparedFirst
<1>10. Nothing \in PartialMap(Calls, Value) /\ DOMAIN Nothing = {}
  BY DEF Nothing, PartialMap
<1>11. cache \in Caches
  BY <1>2 DEF Typed, Caches
<1>12. PICK f : f = Settle(c, root, todo, Nothing, cache)
  OBVIOUS
<1>13. SetTop(t, f)
  BY <1>6, <1>7, <1>8, <1>12 DEF EnterLock
<1>14. /\ f \in ResolveFrames /\ f.ctx = c /\ f.phase # "lock" /\ Ready(f)
       /\ \A k \in DOMAIN f.vals : Usable(cache, c, root, k) # {} /\ f.vals[k] = Lookup(cache, c, root, k)
  <2>1. LET r == Settle(c, root, todo, Nothing, cache)
        IN  /\ r \in ResolveFrames /\ r.ctx = c
            /\ r.phase # "lock" /\ Ready(r)
            /\ \A k \in DOMAIN r.vals :
                  \/ k \in DOMAIN Nothing /\ r.vals[k] = Nothing[k]
                  \/ /\ k \in Range(todo) /\ Usable(cache, c, root, k) # {}
                     /\ r.vals[k] = Lookup(cache, c, root, k)
    BY <1>2, <1>6, <1>9, <1>10, <1>11, SettleFacts
  <2> QED
    BY <1>10, <1>12, <2>1
<1>15. f \in Frames /\ IsResolve(f) /\ ~Opens(f)
  BY <1>14 DEF Frames, ResolveFrames, IsResolve, Opens, IsCtx
<1>16. PICK s \in Ctxs : s = Scope(t)
  BY <1>1, <1>2, <1>3, TopScope DEF IsResolve
<1>17. nest' = [nest EXCEPT ![s][t] = @ + 1]
  BY <1>16 DEF EnterLock
<1>18. Typed'
  <2>1. frames' \in [Tasks -> Seq(Frames)]
    BY <1>1, <1>2, <1>3, <1>13, <1>15, SetTopFrames
  <2>2. nest' \in [Ctxs -> [Tasks -> Nat]]
    <3>1. nest \in [Ctxs -> [Tasks -> Nat]]
      BY <1>2 DEF Typed
    <3>2. PICK m \in Nat : m = nest[s][t] + 1
      BY <3>1
    <3>3. nest' = [nest EXCEPT ![s] = [nest[s] EXCEPT ![t] = m]]
      BY <1>17, <3>2
    <3>4. [nest[s] EXCEPT ![t] = m] \in [Tasks -> Nat]
      BY <3>1
    <3> QED
      BY <3>1, <3>3, <3>4
  <2> QED
    BY <1>1, <1>2, <2>1, <2>2 DEF Typed
<1>19. /\ Nested' /\ Stable /\ InOrder' /\ Same(t, n - 1)
       /\ Len(frames'[t]) = n /\ frames'[t][n] = f
       /\ \A r : Holds(t, n, r)' <=> r = s
       /\ \A i \in Nat : i > n => \A r : ~Holds(t, i, r)'
  <2>1. IsResolve(Top(t)) /\ f.ctx = Top(t).ctx
    BY <1>1, <1>6, <1>14 DEF IsResolve
  <2> QED
    BY <1>1, <1>3, <1>5, <1>13, <1>14, <1>15, <1>16, <1>18, <2>1, ResolutionMoves
<1>20. Counted'
  <2>1. \A r : ~Holds(t, n, r)
    BY <1>1, <1>2, <1>3, TopScope DEF IsResolve
  <2>2. \A i \in Nat : i > n => \A r : ~Holds(t, i, r)
    BY <1>1, <1>2, <1>3, TopScope DEF IsResolve
  <2>3. Counts(t, n, s, TRUE)
    BY <1>17, <1>19, <2>1, <2>2 DEF Counts
  <2> QED
    BY <1>2, <1>4, <1>18, <1>19, <2>3, BlockCounted
<1>21. Kept'
  <2>1. \A u \in Tasks : \A i \in 1..Len(frames[u]) : Opens(frames[u][i]) =>
           \A k \in DOMAIN cache[frames[u][i].ctx] :
              cache[frames[u][i].ctx][k].gens \subseteq 1..Len(stack[ctxs[frames[u][i].ctx].scope])
    BY <1>2 DEF Kept, KeptAt, Standing
  <2>2. \A k \in DOMAIN f.vals : f.vals[k].gens \subseteq 1..Len(stack[ctxs[c].scope])
    <3> SUFFICES ASSUME NEW k \in DOMAIN f.vals
                 PROVE  f.vals[k].gens \subseteq 1..Len(stack[ctxs[c].scope])
      OBVIOUS
    <3>1. Usable(cache, c, root, k) # {} /\ f.vals[k] = Lookup(cache, c, root, k)
      BY <1>14
    <3>2. n - 1 \in 0..Len(frames[t])
      BY <1>3, <1>6
    <3>3. Lookup(cache, c, root, k).gens \subseteq 1..Len(stack[ctxs[c].scope])
      BY <1>2, <1>6, <1>11, <2>1, <3>1, <3>2, LookupStands
    <3> QED
      BY <3>1, <3>3
  <2>3. KeptAt(t, n)'
    BY <1>1, <1>14, <1>15, <1>19, <2>2 DEF KeptAt, Standing, Opens, IsCtx, IsResolve
  <2>4. \A r \in Ctxs : Len(stack[r]) <= Len(stack'[r])
    BY <1>1, <1>2, LenProperties DEF Typed
  <2>5. \A d \in Ctxs : ~Used(d)' => cache'[d] = Nothing
    BY <1>1, <1>2 DEF Kept, Used
  <2>6. \A d \in Ctxs : Used(d) /\ Used(d)' => cache'[d] = cache[d]
    BY <1>1
  <2>7. \A i \in 1..Len(frames'[t]) : i > n - 1 => KeptAt(t, i)'
    <3>1. \A i \in 1..Len(frames'[t]) : i > n - 1 => i = n
      BY <1>4, <1>19
    <3> QED
      BY <2>3, <3>1
  <2> QED
    BY <1>2, <1>4, <1>18, <1>19, <2>4, <2>5, <2>6, <2>7, StepKept
<1> QED
  BY <1>18, <1>19, <1>20, <1>21 DEF IInv

\* The value of a call is made of calls, and stands on the exit stack once the call is done.
LEMMA BuiltFacts ==
    ASSUME IInv, NEW t \in Tasks, InPhase(t, "build")
    PROVE  LET f == Top(t)
               call == Effective(f.ctx)[Head(f.todo)]
               m == Len(stack[Scope(t)])
           IN  /\ Head(f.todo) \in Calls /\ call \in Calls /\ m \in Nat /\ Built(t) \in Value
               /\ Built(t).gens \subseteq (IF call \in Generators THEN {m + 1} ELSE {}) \cup 1..m
<1>1. frames[t] # <<>> /\ IsResolve(Top(t)) /\ Top(t).phase = "build"
  BY DEF InPhase, OnTop, IsResolve
<1>2. Typed /\ Nested /\ InOrder /\ Kept
  BY DEF IInv
<1>3. PICK n : n = Len(frames[t])
  OBVIOUS
<1>4. n \in 1..Len(frames[t]) /\ Top(t) = frames[t][n]
  BY <1>1, <1>2, <1>3, TopFacts
<1>5. PICK f : f = Top(t)
  OBVIOUS
<1>6. PICK c \in Ctxs : c = f.ctx
  BY <1>1, <1>2, <1>3, <1>5, TopScope
<1>7. f \in ResolveFrames /\ ctxs[c].scope \in Ctxs /\ Scope(t) = ctxs[c].scope
  BY <1>1, <1>2, <1>3, <1>5, <1>6, TopScope DEF Scope
<1>8. f.todo # <<>> /\ Prepared(Effective(c), f.todo, f.vals)
  BY <1>1, <1>2, <1>4, <1>5, <1>6 DEF InOrder, Ready
<1>9. f.todo \in Seq(Calls) /\ f.vals \in PartialMap(Calls, Value)
  BY <1>7 DEF ResolveFrames
<1>10. PICK k : k = Head(f.todo)
  OBVIOUS
<1>11. k \in Calls /\ Range(Deps[Effective(c)[k]]) \subseteq DOMAIN f.vals
  <2> DEFINE new == [d \in {k} |-> k]
  <2>1. DOMAIN new = {Head(f.todo)}
    BY <1>10
  <2> HIDE DEF new
  <2> QED
    BY <1>8, <1>9, <1>10, <2>1, PreparedTail
<1>12. PICK call \in Calls : call = Effective(c)[k]
  <2>1. Effective(c) \in [Calls -> Calls]
    BY <1>2, EffectiveFacts
  <2> QED
    BY <1>11, <2>1
<1>13. PICK m \in Nat : m = Len(stack[Scope(t)])
  BY <1>2, <1>7, LenProperties DEF Typed
<1> DEFINE args == {f.vals[d] : d \in Range(Deps[call])}
           own == IF call \in Generators THEN {m + 1} ELSE {}
<1>14. \A v \in args : v \in Value /\ v.gens \subseteq 1..m
  <2> SUFFICES ASSUME NEW d \in Range(Deps[call])
               PROVE  f.vals[d] \in Value /\ f.vals[d].gens \subseteq 1..m
    OBVIOUS
  <2>1. d \in DOMAIN f.vals
    BY <1>11, <1>12
  <2>2. f.vals[d] \in Value
    BY <1>9, <2>1, MapFacts
  <2>3. Standing(f.vals[d], c)
    BY <1>1, <1>2, <1>4, <1>5, <1>6, <2>1 DEF Kept, KeptAt
  <2> QED
    BY <1>7, <1>13, <2>2, <2>3 DEF Standing
<1>15. Built(t) = [made |-> {call} \cup UNION {v.made : v \in args},
                   gens |-> own \cup UNION {v.gens : v \in args}]
  BY <1>5, <1>6, <1>10, <1>12, <1>13 DEF Built
<1> HIDE DEF args
<1>16. UNION {v.made : v \in args} \subseteq Calls
  BY <1>14 DEF Value
<1>17. UNION {v.gens : v \in args} \subseteq 1..m
  BY <1>14
<1>18. own \subseteq Nat /\ 1..m \subseteq Nat
  OBVIOUS
<1>19. Built(t) \in Value
  BY <1>15, <1>16, <1>17, <1>18 DEF Value
<1>20. Built(t).gens \subseteq own \cup 1..m
  BY <1>15, <1>17
<1> QED
  BY <1>5, <1>6, <1>10, <1>11, <1>12, <1>13, <1>19, <1>20

\* The body of a factory is done, and what is cached for the calls that follow taken.
LEMMA BuildKeeps ==
    ASSUME IInv, NEW t \in Tasks, Build(t)
    PROVE  IInv'
<1>1. /\ frames[t] # <<>> /\ IsResolve(Top(t)) /\ Top(t).phase = "build" /\ Joined(t)
      /\ InPhase(t, "build") /\ UNCHANGED <<alive, base, parent, ctxs, family, nest>>
  BY DEF Build, InPhase, OnTop, IsResolve
<1>2. Typed /\ Nested /\ Counted /\ Kept /\ InOrder
  BY DEF IInv
<1>3. PICK n : n = Len(frames[t])
  OBVIOUS
<1>4. n \in Nat \ {0} /\ n - 1 \in Nat /\ n \in Nat /\ Top(t) = frames[t][n] /\ n \in 1..Len(frames[t])
  BY <1>1, <1>2, <1>3, TopFacts
<1>5. Below(t, n - 1)
  BY <1>1, <1>2, <1>3, SpawnedBelow
<1>6. PICK c \in Ctxs : c = Top(t).ctx /\ Used(c) /\ n - 1 \in 0..n /\ c = CurrentAt(t, n - 1)
  BY <1>1, <1>2, <1>3, TopScope
<1>7. Top(t) \in ResolveFrames
  BY <1>1, <1>2, <1>3, TopScope
<1>8. PICK root \in Calls : root = Top(t).root
  BY <1>7 DEF ResolveFrames
<1>9. PICK todo \in Seq(Calls) : todo = Top(t).todo
  BY <1>7 DEF ResolveFrames
<1>10. PICK vals \in PartialMap(Calls, Value) : vals = Top(t).vals
  BY <1>7 DEF ResolveFrames
<1>11. todo # <<>> /\ Prepared(Effective(c), todo, vals)
  BY <1>1, <1>2, <1>4, <1>6, <1>9, <1>10 DEF InOrder, Ready
<1>12. PICK s \in Ctxs : s = Scope(t) /\ s = ctxs[c].scope
  BY <1>1, <1>2, <1>3, <1>6, TopScope DEF Scope
<1>13. PICK k \in Calls : k = Head(todo)
  BY <1>1, <1>9, BuiltFacts
<1>14. PICK call \in Calls : call = Effective(c)[k]
  BY <1>1, <1>6, <1>9, <1>13, BuiltFacts
<1>15. PICK b \in Value : b = Built(t)
  BY <1>1, BuiltFacts
<1>16. PICK m \in Nat : m = Len(stack[s])
  BY <1>1, <1>12, BuiltFacts
<1>17. b.gens \subseteq (IF call \in Generators THEN {m + 1} ELSE {}) \cup 1..m
  BY <1>1, <1>6, <1>9, <1>12, <1>13, <1>14, <1>15, <1>16, BuiltFacts
<1>18. PICK new : new = [d \in {k} |-> b]
  OBVIOUS
<1>19. new \in PartialMap(Calls, Value) /\ DOMAIN new = {k} /\ new[k] = b
  BY <1>18, MapFacts
<1>20. PICK filled : filled = IF Usable(cache, c, root, k) = {}
                              THEN [cache EXCEPT ![c] = Overlay(new, cache[c])] ELSE cache
  OBVIOUS
<1>21. PICK f : f = Settle(c, root, Tail(todo), Overlay(new, vals), filled)
  OBVIOUS
<1>22. /\ stack' = IF call \in Generators THEN [stack EXCEPT ![s] = Append(stack[s], call)] ELSE stack
       /\ cache' = filled /\ SetTop(t, f)
  BY <1>6, <1>8, <1>9, <1>10, <1>12, <1>13, <1>14, <1>15, <1>18, <1>20, <1>21 DEF Build
<1>23. /\ stack' \in [Ctxs -> Seq(Generators)]
       /\ Len(stack'[s]) = IF call \in Generators THEN m + 1 ELSE m
       /\ \A r \in Ctxs : Len(stack[r]) \in Nat /\ Len(stack'[r]) \in Nat /\ Len(stack[r]) <= Len(stack'[r])
  <2>1. stack \in [Ctxs -> Seq(Generators)]
    BY <1>2 DEF Typed
  <2>2. \A r \in Ctxs : Len(stack[r]) \in Nat
    BY <2>1, LenProperties
  <2>3. CASE call \in Generators
    <3>1. Append(stack[s], call) \in Seq(Generators) /\ Len(Append(stack[s], call)) = m + 1
      BY <1>16, <2>1, <2>3, AppendFacts
    <3>2. stack'[s] = Append(stack[s], call) /\ \A r \in Ctxs : r # s => stack'[r] = stack[r]
      BY <1>22, <2>1, <2>3
    <3>3. stack' \in [Ctxs -> Seq(Generators)]
      BY <1>22, <2>1, <2>3, <3>1
    <3>4. \A r \in Ctxs : Len(stack'[r]) \in Nat /\ Len(stack[r]) <= Len(stack'[r])
      <4> SUFFICES ASSUME NEW r \in Ctxs
                   PROVE  Len(stack'[r]) \in Nat /\ Len(stack[r]) <= Len(stack'[r])
        OBVIOUS
      <4>1. CASE r = s
        BY <1>16, <3>1, <3>2, <4>1
      <4>2. CASE r # s
        BY <2>2, <3>2, <4>2
      <4> QED
        BY <4>1, <4>2
    <3> QED
      BY <2>2, <2>3, <3>1, <3>2, <3>3, <3>4
  <2>4. CASE call \notin Generators
    BY <1>16, <1>22, <2>1, <2>2, <2>4
  <2> QED
    BY <2>3, <2>4
<1>24. b.gens \subseteq 1..Len(stack'[s])
  BY <1>17, <1>23
<1>25. /\ cache \in Caches /\ filled \in Caches
       /\ \A d \in Ctxs : d # c => filled[d] = cache[d]
       /\ \A x \in DOMAIN filled[c] : (x \in DOMAIN cache[c] /\ filled[c][x] = cache[c][x]) \/ filled[c][x] = b
  <2>1. cache \in Caches
    BY <1>2 DEF Typed, Caches
  <2>2. cache[c] \in PartialMap(Calls, Value)
    BY <2>1 DEF Caches
  <2>3. Overlay(new, cache[c]) \in PartialMap(Calls, Value)
    BY ONLY <1>19, <2>2, OverlayMap
  <2>4. /\ DOMAIN Overlay(new, cache[c]) = DOMAIN new \cup DOMAIN cache[c]
        /\ \A x \in DOMAIN new : Overlay(new, cache[c])[x] = new[x]
        /\ \A x \in DOMAIN cache[c] \ DOMAIN new : Overlay(new, cache[c])[x] = cache[c][x]
    BY OverlayAt
  <2>5. CASE Usable(cache, c, root, k) = {}
    <3>1. filled = [cache EXCEPT ![c] = Overlay(new, cache[c])]
      BY <1>20, <2>5
    <3>2. filled \in Caches /\ \A d \in Ctxs : d # c => filled[d] = cache[d]
      BY <2>1, <2>3, <3>1 DEF Caches
    <3>3. filled[c] = Overlay(new, cache[c])
      BY <2>1, <3>1 DEF Caches
    <3> QED
      BY <1>19, <2>1, <2>4, <3>2, <3>3
  <2>6. CASE ~(Usable(cache, c, root, k) = {})
    BY <1>20, <2>1, <2>6
  <2> QED
    BY <2>5, <2>6
<1>26. /\ Tail(todo) \in Seq(Calls) /\ Prepared(Effective(c), Tail(todo), Overlay(new, vals))
       /\ Overlay(new, vals) \in PartialMap(Calls, Value)
  <2>1. DOMAIN new = {Head(todo)}
    BY <1>13, <1>19
  <2>2. Overlay(new, vals) \in PartialMap(Calls, Value)
    BY ONLY <1>19, vals \in PartialMap(Calls, Value), OverlayMap
  <2> QED
    BY <1>11, <2>1, <2>2, PreparedTail
<1>27. /\ f \in ResolveFrames /\ f.ctx = c /\ f.phase # "lock" /\ Ready(f)
       /\ \A x \in DOMAIN f.vals :
             \/ x \in DOMAIN Overlay(new, vals) /\ f.vals[x] = Overlay(new, vals)[x]
             \/ Usable(filled, c, root, x) # {} /\ f.vals[x] = Lookup(filled, c, root, x)
  <2>1. PICK rest \in Seq(Calls) : rest = Tail(todo)
    BY <1>26
  <2>2. PICK got \in PartialMap(Calls, Value) : got = Overlay(new, vals)
    BY <1>26
  <2>3. Prepared(Effective(c), rest, got) /\ filled \in Caches
    BY <1>25, <1>26, <2>1, <2>2
  <2>4. LET r == Settle(c, root, rest, got, filled)
        IN  /\ r \in ResolveFrames /\ r.ctx = c
            /\ r.phase # "lock" /\ Ready(r)
            /\ \A x \in DOMAIN r.vals :
                  \/ x \in DOMAIN got /\ r.vals[x] = got[x]
                  \/ /\ x \in Range(rest) /\ Usable(filled, c, root, x) # {}
                     /\ r.vals[x] = Lookup(filled, c, root, x)
    BY <1>2, <1>6, <2>3, SettleFacts
  <2> QED
    BY <1>21, <2>1, <2>2, <2>4
<1>28. f \in Frames /\ IsResolve(f) /\ ~Opens(f)
  BY <1>27 DEF Frames, ResolveFrames, IsResolve, Opens, IsCtx
<1>29. Typed'
  <2>1. frames' \in [Tasks -> Seq(Frames)]
    BY <1>1, <1>2, <1>3, <1>22, <1>28, SetTopFrames
  <2>2. cache' \in [Ctxs -> PartialMap(Calls, Value)]
    BY <1>22, <1>25 DEF Caches
  <2> QED
    BY <1>1, <1>2, <1>23, <2>1, <2>2 DEF Typed
<1>30. /\ Nested' /\ Stable /\ InOrder' /\ Same(t, n - 1)
       /\ Len(frames'[t]) = n /\ frames'[t][n] = f
       /\ \A r : Holds(t, n, r)' <=> r = s
       /\ \A i \in Nat : i > n => \A r : ~Holds(t, i, r)'
  BY <1>1, <1>3, <1>5, <1>6, <1>12, <1>22, <1>27, <1>28, <1>29, ResolutionMoves
<1>31. Counted'
  <2>1. \A i \in Nat : i > n - 1 => i = n \/ i > n
    BY <1>4
  <2>2. \A r : Holds(t, n, r) <=> r = s
    BY <1>1, <1>2, <1>3, <1>12, TopScope
  <2>3. \A i \in Nat : i > n => \A r : ~Holds(t, i, r)
    BY <1>1, <1>2, <1>3, TopScope
  <2>4. \A r \in Ctxs : \A i \in Nat : i > n - 1 => (Holds(t, i, r)' <=> Holds(t, i, r))
    BY <1>30, <2>1, <2>2, <2>3
  <2> QED
    BY <1>1, <1>2, <1>4, <1>29, <1>30, <2>4, StepCounted
<1>32. ASSUME NEW u \in Tasks, NEW i \in 1..Len(frames[u]), Opens(frames[u][i]),
              NEW d, d = frames[u][i].ctx, NEW x \in DOMAIN filled[d]
       PROVE  filled[d][x].gens \subseteq 1..Len(stack'[ctxs[d].scope])
  <2>1. d \in Ctxs /\ d = CurrentAt(u, i) /\ i \in 0..Len(frames[u])
    BY <1>2, <1>32, FramesAt, FrameFacts, OpenCurrent
  <2>2. PICK r \in Ctxs : r = ctxs[d].scope
    BY <1>2, <2>1, ScopeAround
  <2>3. \/ x \in DOMAIN cache[d] /\ filled[d][x] = cache[d][x]
        \/ d = c /\ filled[d][x] = b
    BY <1>25, <1>32, <2>1
  <2>4. CASE x \in DOMAIN cache[d] /\ filled[d][x] = cache[d][x]
    <3>1. filled[d][x].gens \subseteq 1..Len(stack[r])
      BY <1>2, <1>32, <2>2, <2>4 DEF Kept, KeptAt, Standing
    <3>2. 1..Len(stack[r]) \subseteq 1..Len(stack'[r])
      BY <1>23, <2>2
    <3> QED
      BY <2>2, <3>1, <3>2
  <2>5. CASE d = c /\ filled[d][x] = b
    BY <1>12, <1>24, <2>5
  <2> QED
    BY <2>3, <2>4, <2>5
<1>33. \A x \in DOMAIN vals : vals[x].gens \subseteq 1..Len(stack'[s])
  <2> SUFFICES ASSUME NEW x \in DOMAIN vals
               PROVE  vals[x].gens \subseteq 1..Len(stack'[s])
    OBVIOUS
  <2>1. Standing(vals[x], c)
    BY <1>1, <1>2, <1>4, <1>6, <1>10 DEF Kept, KeptAt
  <2>2. vals[x].gens \subseteq 1..Len(stack[s])
    BY <1>12, <2>1 DEF Standing
  <2>3. 1..Len(stack[s]) \subseteq 1..Len(stack'[s])
    BY <1>23
  <2> QED
    BY <2>2, <2>3
<1>34. ASSUME NEW x \in DOMAIN f.vals
       PROVE  f.vals[x].gens \subseteq 1..Len(stack'[s])
  <2>1. CASE x \in DOMAIN Overlay(new, vals) /\ f.vals[x] = Overlay(new, vals)[x]
    <3>1. /\ DOMAIN Overlay(new, vals) = DOMAIN new \cup DOMAIN vals
          /\ \A y \in DOMAIN new : Overlay(new, vals)[y] = new[y]
          /\ \A y \in DOMAIN vals \ DOMAIN new : Overlay(new, vals)[y] = vals[y]
      BY OverlayAt
    <3>2. f.vals[x] = b \/ (x \in DOMAIN vals /\ f.vals[x] = vals[x])
      BY <1>19, <2>1, <3>1
    <3> QED
      BY <1>24, <1>33, <3>2
  <2>2. CASE Usable(filled, c, root, x) # {} /\ f.vals[x] = Lookup(filled, c, root, x)
    <3>1. n - 1 \in 0..Len(frames[t])
      BY <1>3, <1>6
    <3>2. PICK st : st = stack'
      OBVIOUS
    <3>3. \A u \in Tasks : \A i \in 1..Len(frames[u]) : Opens(frames[u][i]) =>
             \A y \in DOMAIN filled[frames[u][i].ctx] :
                filled[frames[u][i].ctx][y].gens \subseteq 1..Len(st[ctxs[frames[u][i].ctx].scope])
      BY <1>32, <3>2
    <3>4. Lookup(filled, c, root, x).gens \subseteq 1..Len(st[ctxs[c].scope])
      BY <1>2, <1>6, <1>25, <2>2, <3>1, <3>3, LookupStands
    <3> QED
      BY <1>12, <2>2, <3>2, <3>4
  <2> QED
    BY <1>27, <2>1, <2>2
<1>35. KeptAt(t, n)'
  <2>1. ctxs'[f.ctx].scope = s
    BY <1>1, <1>12, <1>27
  <2> QED
    BY <1>28, <1>30, <1>34, <2>1 DEF KeptAt, Standing, Opens, IsCtx, IsResolve
<1>36. \A x \in DOMAIN cache'[c] : Standing(cache[c][x], c)'
  <2>1. PICK u \in Tasks, i \in Nat : Entered(u, i, c) /\ ~frames[u][i].closing
    <3>1. c \in Range(Chain(CurrentAt(t, n - 1)))
      <4>1. Chain(c) = ctxs[c].chain /\ ctxs[c].chain \in Seq(Ctxs) /\ ctxs[c].chain # <<>> /\ ctxs[c].chain[1] = c
        BY <1>2, <1>3, <1>6, ScopeAround, SMTT(20) DEF Typed, Contexts, Nested, Chained
      <4>2. 1 \in 1..Len(ctxs[c].chain)
        BY <4>1, LenProperties, EmptySeq
      <4> QED
        BY <1>6, <4>1, <4>2, RangeFacts
    <3> QED
      BY <1>2, <1>3, <1>6, <3>1 DEF Nested, Enclosed, EnclosedAt
  <2>2. i \in 1..Len(frames[u]) /\ Opens(frames[u][i]) /\ c = frames[u][i].ctx
    BY <2>1 DEF Entered, Opens
  <2>3. \A x \in DOMAIN filled[c] : filled[c][x].gens \subseteq 1..Len(stack'[s])
    BY <1>12, <1>32, <2>2
  <2> QED
    BY <1>1, <1>12, <1>22, <2>3 DEF Standing
<1>37. Kept'
  <2>1. \A d \in Ctxs : ~Used(d)' => cache'[d] = Nothing
    <3> SUFFICES ASSUME NEW d \in Ctxs, ~Used(d)
                 PROVE  cache'[d] = Nothing
      BY <1>1 DEF Used
    <3> QED
      BY <1>2, <1>6, <1>22, <1>25 DEF Kept
  <2>2. \A d \in Ctxs : Used(d) /\ Used(d)' =>
           cache'[d] = cache[d] \/ \A x \in DOMAIN cache'[d] : Standing(cache[d][x], d)'
    BY <1>22, <1>25, <1>36
  <2>3. \A i \in 1..Len(frames'[t]) : i > n - 1 => KeptAt(t, i)'
    <3>1. \A i \in 1..Len(frames'[t]) : i > n - 1 => i = n
      BY <1>4, <1>30
    <3> QED
      BY <1>35, <3>1
  <2> QED
    BY <1>2, <1>4, <1>23, <1>29, <1>30, <2>1, <2>2, <2>3, StepKept
<1> QED
  BY <1>29, <1>30, <1>31, <1>37 DEF IInv

\* The block of a context ends: what works elsewhere is as it was.
LEMMA ContextGone ==
    ASSUME IInv, NEW t \in Tasks, OnTop(t, "ctx"), Below(t, Len(frames[t]) - 1),
           Pop(t), Forget(Top(t).ctx), UNCHANGED <<alive, base, parent, stack, family, nest>>
    PROVE  IInv'
<1>1. Typed /\ Nested /\ Counted /\ InOrder /\ Kept
  BY DEF IInv
<1>2. frames[t] # <<>> /\ IsCtx(Top(t))
  BY DEF OnTop, IsCtx
<1>3. PICK n : n = Len(frames[t])
  OBVIOUS
<1>4. n \in Nat \ {0} /\ n \in 1..Len(frames[t]) /\ n - 1 \in Nat /\ Top(t) = frames[t][n]
      /\ t \in alive /\ Top(t) \in Frames
  BY <1>1, <1>2, <1>3, TopFacts
<1>5. PICK c \in Ctxs : c = Top(t).ctx
  BY <1>4, FrameFacts
<1>6. Entered(t, n, c)
  BY <1>2, <1>4, <1>5 DEF Entered
<1>7. ctxs' = [ctxs EXCEPT ![c] = Unused] /\ cache' = [cache EXCEPT ![c] = Nothing]
  BY <1>5 DEF Forget
<1>8. Same(t, n - 1) /\ Len(frames'[t]) = n - 1 /\ frames' \in [Tasks -> Seq(Frames)]
  BY <1>1, <1>2, <1>3, PopFrames
<1>9. Typed'
  <2>1. Nothing \in PartialMap(Calls, Value)
    BY DEF Nothing, PartialMap
  <2>2. cache' \in [Ctxs -> PartialMap(Calls, Value)]
    BY <1>1, <1>7, <2>1 DEF Typed
  <2>3. Unused \in Contexts
    BY EmptySeq DEF Unused, Contexts
  <2>4. ctxs' \in [Ctxs -> Contexts]
    BY <1>1, <1>7, <2>3 DEF Typed
  <2> QED
    BY <1>1, <1>8, <2>2, <2>4 DEF Typed
<1>10. Nested'
  <2>1. /\ \A u \in Tasks \ {t} : frames'[u] = frames[u]
        /\ \A i \in 1..(n - 1) : frames'[t][i] = frames[t][i]
    BY <1>8 DEF Same
  <2> QED
    BY <1>1, <1>3, <1>4, <1>6, <1>7, <1>8, <1>9, <2>1, ForgetKeeps
<1>11. \A d \in Ctxs : ctxs'[d] = IF d = c THEN Unused ELSE ctxs[d]
  BY <1>1, <1>7 DEF Typed
<1>12. Stable /\ ~Used(c)'
  BY <1>11 DEF Stable, Used
<1>13. \A i \in 1..Len(frames'[t]) : ~(i > n - 1)
  BY <1>4, <1>8
<1>14. InOrder'
  BY <1>1, <1>4, <1>8, <1>9, <1>10, <1>12, <1>13, StepInOrder
<1>15. Kept'
  <2>1. \A s \in Ctxs : Len(stack[s]) <= Len(stack'[s])
    BY <1>1, LenProperties DEF Typed
  <2>2. \A d \in Ctxs : cache'[d] = IF d = c THEN Nothing ELSE cache[d]
    BY <1>1, <1>7 DEF Typed
  <2>3. \A d \in Ctxs : ~Used(d)' => cache'[d] = Nothing
    BY <1>1, <1>11, <2>2 DEF Kept, Used
  <2>4. \A d \in Ctxs : Used(d) /\ Used(d)' => cache'[d] = cache[d]
    BY <1>12, <2>2
  <2> QED
    BY <1>1, <1>4, <1>8, <1>9, <1>10, <1>12, <1>13, <2>1, <2>3, <2>4, StepKept
<1>16. Counted'
  <2>1. \A s \in Ctxs : \A i \in Nat : i > n - 1 => ~Holds(t, i, s)
    <3> SUFFICES ASSUME NEW s \in Ctxs, NEW i \in Nat, i > n - 1, i \in 1..Len(frames[t])
                 PROVE  ~IsResolve(frames[t][i])
      BY DEF Holds
    <3>1. i = n
      BY <1>3, <1>4
    <3> QED
      BY <1>2, <1>4, <3>1, FrameFacts
  <2>2. \A s \in Ctxs : \A i \in Nat : i > n - 1 => ~Holds(t, i, s)'
    <3>1. \A i \in Nat : i > n - 1 => ~(i \in 1..Len(frames'[t]))
      BY <1>4, <1>8
    <3> QED
      BY <3>1 DEF Holds
  <2> QED
    BY <1>1, <1>4, <1>8, <1>9, <1>10, <1>12, <2>1, <2>2, StepCounted
<1> QED
  BY <1>9, <1>10, <1>14, <1>15, <1>16 DEF IInv

\* The end of an override block.
LEMMA LeaveOverridesKeeps ==
    ASSUME IInv, NEW t \in Tasks, LeaveOverrides(t)
    PROVE  IInv'
<1>1. frames[t] # <<>> /\ Joined(t) /\ Typed /\ Nested
  BY DEF LeaveOverrides, OnTop, IInv
<1>2. Below(t, Len(frames[t]) - 1)
  BY <1>1, SpawnedBelow
<1> QED
  BY <1>2, ContextGone DEF LeaveOverrides

\* The context is gone.
LEMMA ClosedKeeps ==
    ASSUME IInv, NEW t \in Tasks, Closed(t)
    PROVE  IInv'
<1>1. frames[t] # <<>> /\ Top(t).closing /\ Typed /\ Nested
  BY DEF Closed, OnTop, IInv
<1>2. ~Firm(frames[t][Len(frames[t])])
  <2>1. Top(t) = frames[t][Len(frames[t])]
    BY <1>1, TopFacts
  <2>2. Top(t).kind = "ctx"
    BY DEF Closed, OnTop
  <2> QED
    BY <1>1, <2>1, <2>2 DEF Firm, Opens, IsCtx, IsResolve
<1>3. Below(t, Len(frames[t]) - 1)
  BY <1>1, <1>2, SpawnedBelow
<1> QED
  BY <1>3, ContextGone DEF Closed

\* _injection_ctx is reset before the exit stack is unwound.
LEMMA LeaveCtxKeeps ==
    ASSUME IInv, NEW t \in Tasks, LeaveCtx(t)
    PROVE  IInv'
<1>1. Typed /\ Nested /\ Counted /\ InOrder /\ Kept
  BY DEF IInv
<1>2. /\ frames[t] # <<>> /\ IsCtx(Top(t)) /\ ~ctxs[Top(t).ctx].inherits /\ Joined(t)
      /\ UNCHANGED <<alive, base, parent, ctxs, cache, stack, family, nest>>
  BY DEF LeaveCtx, OnTop, IsCtx
<1>3. PICK n : n = Len(frames[t])
  OBVIOUS
<1>4. n \in Nat \ {0} /\ n \in 1..Len(frames[t]) /\ n - 1 \in Nat /\ Top(t) = frames[t][n]
      /\ t \in alive /\ Top(t) \in Frames
  BY <1>1, <1>2, <1>3, TopFacts
<1>5. PICK c \in Ctxs : c = Top(t).ctx
  BY <1>4, FrameFacts
<1>6. PICK f : f = [Top(t) EXCEPT !.closing = TRUE]
  OBVIOUS
<1>7. f \in Frames /\ f.kind = "ctx" /\ f.ctx = c /\ f.closing
  <2>1. Top(t) \in CtxFrames
    BY <1>2, <1>4, FrameFacts
  <2> QED
    BY <1>5, <1>6, <2>1 DEF Frames, CtxFrames
<1>8. SetTop(t, f)
  BY <1>6 DEF LeaveCtx
<1>9. Same(t, n - 1) /\ Len(frames'[t]) = n /\ frames'[t][n] = f /\ frames' \in [Tasks -> Seq(Frames)]
  BY <1>1, <1>2, <1>3, <1>7, <1>8, SetTopFrames
<1>10. Typed'
  BY <1>1, <1>2, <1>9 DEF Typed
<1>11. Below(t, n - 1)
  BY <1>1, <1>2, <1>3, SpawnedBelow
<1>12. Nested'
  <2>1. /\ \A u \in Tasks \ {t} : frames'[u] = frames[u]
        /\ \A i \in 1..(n - 1) : frames'[t][i] = frames[t][i]
    BY <1>9 DEF Same
  <2>2. Entered(t, n, c) /\ ~ctxs[c].inherits
    BY <1>2, <1>4, <1>5 DEF Entered
  <2> QED
    BY <1>1, <1>2, <1>3, <1>4, <1>7, <1>9, <1>10, <1>11, <2>1, <2>2, CloseKeeps
<1>13. Stable
  BY <1>2 DEF Stable
<1>14. /\ \A i \in 1..Len(frames'[t]) : i > n - 1 => ~IsResolve(frames'[t][i]) /\ ~Opens(frames'[t][i])
       /\ \A i \in 1..Len(frames[t]) : i > n - 1 => ~IsResolve(frames[t][i])
  <2>1. /\ \A i \in 1..Len(frames'[t]) : i > n - 1 => i = n
        /\ \A i \in 1..Len(frames[t]) : i > n - 1 => i = n
    BY <1>3, <1>4, <1>9
  <2>2. ~IsResolve(f) /\ ~Opens(f) /\ ~IsResolve(frames[t][n])
    BY <1>2, <1>4, <1>7, FrameFacts DEF IsResolve, Opens
  <2> QED
    BY <1>9, <2>1, <2>2
<1>15. InOrder'
  BY <1>1, <1>4, <1>9, <1>10, <1>12, <1>13, <1>14, StepInOrder
<1>16. Kept'
  <2>1. \A s \in Ctxs : Len(stack[s]) <= Len(stack'[s])
    BY <1>1, <1>2, LenProperties DEF Typed
  <2>2. \A d \in Ctxs : ~Used(d)' => cache'[d] = Nothing
    BY <1>1, <1>2 DEF Kept, Used
  <2>3. \A d \in Ctxs : Used(d) /\ Used(d)' => cache'[d] = cache[d]
    BY <1>2
  <2>4. \A i \in 1..Len(frames'[t]) : i > n - 1 => KeptAt(t, i)'
    BY <1>14 DEF KeptAt, Opens, IsCtx, IsResolve
  <2> QED
    BY <1>1, <1>4, <1>9, <1>10, <1>12, <1>13, <2>1, <2>2, <2>3, <2>4, StepKept
<1>17. Counted'
  <2>1. \A s \in Ctxs : \A i \in Nat : i > n - 1 => ~Holds(t, i, s) /\ ~Holds(t, i, s)'
    BY <1>14 DEF Holds, IsResolve
  <2> QED
    BY <1>1, <1>2, <1>4, <1>9, <1>10, <1>12, <1>13, <2>1, StepCounted
<1> QED
  BY <1>10, <1>12, <1>15, <1>16, <1>17 DEF IInv

\* A step that moves nobody.
LEMMA NobodyMoves ==
    ASSUME IInv, Typed', NEW t \in alive, UNCHANGED <<alive, frames, base, parent, ctxs>>
    PROVE  Nested' /\ Stable /\ InOrder' /\ (nest' = nest => Counted')
<1>1. Typed /\ Nested /\ Counted /\ InOrder /\ t \in Tasks
  BY DEF IInv, Typed
<1>2. PICK n \in Nat : n = Len(frames[t])
  BY <1>1, FramesAt
<1>3. Same(t, n)
  BY <1>2 DEF Same
<1>4. /\ \A i \in Nat : i > n => ~(i \in 1..Len(frames[t])) /\ ~(i \in 1..Len(frames'[t]))
      /\ \A i \in (n + 1)..Len(frames[t]) : FALSE
      /\ \A i \in (n + 1)..Len(frames'[t]) : FALSE
      /\ \A i \in 1..Len(frames'[t]) : ~(i > n)
  BY <1>2
<1>5. Nested'
  <2>1. Below(t, n)
    BY <1>1, <1>2, SpawnedBelow
  <2>2. Inner(t, n)
    BY <1>3, <1>4, <2>1 DEF Inner, Same
  <2> QED
    BY <1>1, <2>2, InnerKeeps
<1>6. Stable
  BY DEF Stable
<1>7. InOrder'
  BY <1>1, <1>3, <1>4, <1>5, <1>6, StepInOrder
<1>8. ASSUME nest' = nest
      PROVE  Counted'
  <2>1. \A s \in Ctxs : \A i \in Nat : i > n => ~Holds(t, i, s) /\ ~Holds(t, i, s)'
    BY <1>4 DEF Holds
  <2> QED
    BY <1>1, <1>3, <1>5, <1>6, <1>8, <2>1, StepCounted
<1> QED
  BY <1>5, <1>6, <1>7, <1>8

\* A teardown takes away what nobody builds on any more.
LEMMA TeardownKeeps ==
    ASSUME IInv, NEW t \in Tasks, Teardown(t)
    PROVE  IInv'
<1>1. Typed /\ Nested /\ Kept
  BY DEF IInv
<1>2. /\ frames[t] # <<>> /\ IsCtx(Top(t)) /\ Top(t).closing /\ stack[Top(t).ctx] # <<>>
      /\ UNCHANGED <<alive, frames, base, parent, ctxs, cache, family, nest>>
  BY DEF Teardown, InTeardown, OnTop, IsCtx, tasks
<1>3. PICK n : n = Len(frames[t])
  OBVIOUS
<1>4. n \in 1..Len(frames[t]) /\ Top(t) = frames[t][n] /\ t \in alive /\ Top(t) \in Frames
  BY <1>1, <1>2, <1>3, TopFacts
<1>5. PICK c \in Ctxs : c = Top(t).ctx
  BY <1>4, FrameFacts
<1>6. Entered(t, n, c) /\ frames[t][n].closing
  BY <1>2, <1>4, <1>5 DEF Entered
<1>7. stack' = [stack EXCEPT ![c] = Front(stack[c])] /\ stack[c] # <<>>
  BY <1>2, <1>5 DEF Teardown
<1>8. Typed'
  <2>1. stack \in [Ctxs -> Seq(Generators)]
    BY <1>1 DEF Typed
  <2>2. Front(stack[c]) \in Seq(Generators)
    BY <1>7, <2>1, FrontFacts
  <2>3. stack' \in [Ctxs -> Seq(Generators)]
    BY <1>7, <2>1, <2>2
  <2> QED
    BY <1>1, <1>2, <2>3 DEF Typed
<1>9. Nested' /\ InOrder' /\ Counted'
  BY <1>2, <1>4, <1>8, NobodyMoves
<1>10. \A s \in Ctxs : s # c => stack'[s] = stack[s]
  BY <1>1, <1>7 DEF Typed
<1>11. ASSUME NEW u \in Tasks, NEW m \in 0..Len(frames[u]), NEW x \in Ctxs, x = CurrentAt(u, m)
       PROVE  stack'[ctxs[x].scope] = stack[ctxs[x].scope]
  <2>1. PICK s \in Ctxs : s = ctxs[x].scope /\ s \in Range(Chain(x))
    BY <1>1, <1>11, ScopeAround
  <2>2. s \in Range(Chain(CurrentAt(u, m)))
    BY <1>11, <2>1
  <2>3. s # c
    <3> SUFFICES ASSUME s = c
                 PROVE  FALSE
      OBVIOUS
    <3>1. Entered(t, n, s)
      BY <1>6
    <3>2. ~frames[t][n].closing
      BY <1>1, <1>4, <2>2, <3>1, NotClosing
    <3> QED
      BY <1>6, <3>2
  <2> QED
    BY <1>10, <2>1, <2>3
<1>12. Kept'
  <2>1. \A d \in Ctxs : ~Used(d)' => cache'[d] = Nothing
    BY <1>1, <1>2 DEF Kept, Used
  <2>2. ASSUME NEW u \in Tasks, NEW i \in 1..Len(frames[u])
        PROVE  KeptAt(u, i)'
    <3>1. PICK x : x = frames[u][i].ctx
      OBVIOUS
    <3>2. Opens(frames[u][i]) \/ IsResolve(frames[u][i]) => stack'[ctxs[x].scope] = stack[ctxs[x].scope]
      <4>1. CASE Opens(frames[u][i])
        <5>1. x \in Ctxs /\ x = CurrentAt(u, i) /\ i \in 0..Len(frames[u])
          BY <1>1, <3>1, <4>1, OpenCurrent, FramesAt, FrameFacts
        <5> QED
          BY <1>11, <5>1
      <4>2. CASE IsResolve(frames[u][i])
        <5>1. x \in Ctxs /\ x = CurrentAt(u, i - 1) /\ i - 1 \in 0..Len(frames[u])
          BY <1>1, <3>1, <4>2, ResolveCtx
        <5> QED
          BY <1>11, <5>1
      <4> QED
        BY <4>1, <4>2
    <3>3. KeptAt(u, i)
      BY <1>1 DEF Kept
    <3> QED
      BY <1>2, <3>1, <3>2, <3>3 DEF KeptAt, Standing, Opens, IsCtx, IsResolve
  <2> QED
    BY <1>2, <2>1, <2>2 DEF Kept
<1> QED
  BY <1>8, <1>9, <1>12 DEF IInv

\* A context is opened: nothing works in it yet but what it was opened for.
LEMMA ContextOpened ==
    ASSUME IInv, Typed', NEW t \in alive, NEW c \in Ctxs, NEW x, NEW n,
           n = Len(frames[t]), ~Used(c), Makes(c, x, CurrentAt(t, n)), ctxs' = [ctxs EXCEPT ![c] = x],
           Same(t, n), Len(frames'[t]) > n,
           frames'[t][n + 1].kind = "ctx", frames'[t][n + 1].ctx = c, ~frames'[t][n + 1].closing,
           \A i \in (n + 2)..Len(frames'[t]) :
              \E root \in Calls : frames'[t][i] = ResolveFrame(c, root),
           UNCHANGED <<alive, base, parent, cache, stack, family, nest>>
    PROVE  IInv'
<1>1. Typed /\ Nested /\ Counted /\ InOrder /\ Kept /\ t \in Tasks
  BY DEF IInv, Typed
<1>2. n \in Nat
  BY <1>1, FramesAt
<1>3. \A i \in (n + 2)..Len(frames'[t]) :
         /\ IsResolve(frames'[t][i]) /\ ~Opens(frames'[t][i]) /\ frames'[t][i].ctx = c
         /\ frames'[t][i].phase = "lock"
         /\ frames'[t][i].todo = <<>> /\ frames'[t][i].vals = Nothing
  <2> SUFFICES ASSUME NEW f, NEW root \in Calls, f = ResolveFrame(c, root)
               PROVE  /\ IsResolve(f) /\ ~Opens(f) /\ f.ctx = c /\ f.phase = "lock"
                      /\ f.todo = <<>> /\ f.vals = Nothing
    BY DEF Opens, IsCtx, IsResolve
  <2> QED
    BY DEF ResolveFrame, Resolution, IsResolve, Opens, IsCtx
<1>4. Nested'
  <2>1. /\ \A u \in Tasks \ {t} : frames'[u] = frames[u]
        /\ \A i \in 1..n : frames'[t][i] = frames[t][i]
    BY DEF Same
  <2> QED
    BY <1>1, <1>3, <2>1, OpenKeeps
<1>5. \A d \in Ctxs : ctxs'[d] = IF d = c THEN x ELSE ctxs[d]
  BY <1>1 DEF Typed
<1>6. Stable
  BY <1>5 DEF Stable
<1>7. \A i \in 1..Len(frames'[t]) : i > n => i = n + 1 \/ i \in (n + 2)..Len(frames'[t])
  BY <1>1, <1>2, FramesAt DEF Typed
<1>8. ~IsResolve(frames'[t][n + 1])
  BY DEF IsResolve
<1>9. \A i \in 1..Len(frames'[t]) : i > n /\ IsResolve(frames'[t][i]) =>
         frames'[t][i].phase = "lock" /\ frames'[t][i].todo = <<>> /\ frames'[t][i].vals = Nothing
  BY <1>3, <1>7, <1>8
<1>10. InOrder'
  <2>1. \A i \in 1..Len(frames'[t]) : i > n /\ IsResolve(frames'[t][i]) => Ready(frames[t][i])'
    BY <1>9 DEF Ready, Prepared
  <2> QED
    BY <1>1, <1>2, <1>4, <1>6, <2>1, StepInOrder
<1>11. Counted'
  <2>1. \A s \in Ctxs : \A i \in Nat : i > n => ~Holds(t, i, s)
    BY <1>2 DEF Holds
  <2>2. \A s \in Ctxs : \A i \in Nat : i > n => ~Holds(t, i, s)'
    BY <1>9 DEF Holds, IsResolve
  <2> QED
    BY <1>1, <1>2, <1>4, <1>6, <2>1, <2>2, StepCounted
<1>12. Kept'
  <2>1. \A s \in Ctxs : Len(stack[s]) <= Len(stack'[s])
    BY <1>1, LenProperties DEF Typed
  <2>2. cache[c] = Nothing /\ \A d \in Ctxs : ~Used(d)' /\ d # c => cache'[d] = Nothing
    BY <1>1, <1>5 DEF Kept, Used
  <2>3. \A d \in Ctxs : ~Used(d)' => cache'[d] = Nothing
    BY <2>2
  <2>4. \A d \in Ctxs : Used(d) /\ Used(d)' => cache'[d] = cache[d]
    OBVIOUS
  <2>5. DOMAIN Nothing = {}
    BY DEF Nothing
  <2>6. KeptAt(t, n + 1)'
    BY <1>8, <2>2, <2>5 DEF KeptAt, IsResolve
  <2>7. ASSUME NEW i \in (n + 2)..Len(frames'[t])
        PROVE  KeptAt(t, i)'
    BY <1>3, <2>5, <2>7 DEF KeptAt, Opens, IsCtx
  <2>8. \A i \in 1..Len(frames'[t]) : i > n => KeptAt(t, i)'
    BY <1>7, <2>6, <2>7
  <2> QED
    BY <1>1, <1>2, <1>4, <1>6, <2>1, <2>3, <2>4, <2>8, StepKept
<1> QED
  BY <1>4, <1>10, <1>11, <1>12 DEF IInv

\* What OwnCtx and OverrideCtx make of a context that is free.
LEMMA NewContexts ==
    ASSUME Typed, Nested, HasFreeCtx, NEW t \in Tasks, NEW n, n = Len(frames[t]),
           NEW c, c = FreeCtx, NEW outer, outer = Current(t), NEW o \in Overrides \cup {Nothing}
    PROVE  /\ c \in Ctxs /\ ~Used(c) /\ outer = CurrentAt(t, n)
           /\ OwnCtx(c, outer, o) \in Contexts /\ Makes(c, OwnCtx(c, outer, o), CurrentAt(t, n))
           /\ OverrideCtx(c, outer, o) \in Contexts /\ Makes(c, OverrideCtx(c, outer, o), CurrentAt(t, n))
<1>1. c \in Ctxs /\ ~Used(c)
  BY DEF HasFreeCtx, FreeCtx, Used
<1>2. outer = CurrentAt(t, n) /\ outer \in Ctxs \cup {NoCtx}
  <2>1. n \in 0..Len(frames[t])
    BY FramesAt
  <2> QED
    BY <2>1, CurrentOnTop, CurrentType
<1>3. Chain(outer) \in Seq(Ctxs)
  BY <1>2, ChainType
<1>4. <<c>> \o Chain(outer) \in Seq(Ctxs)
  BY <1>1, <1>3, ChainGrows
<1>5. OwnCtx(c, outer, o) \in Contexts /\ Makes(c, OwnCtx(c, outer, o), outer)
  BY <1>1, <1>4 DEF OwnCtx, Contexts, Makes
<1>6. outer # NoCtx => ctxs[outer].scope \in Ctxs \cup {NoCtx} /\ ctxs[outer].bound \in BOOLEAN
  BY <1>2 DEF Typed, Contexts
<1>7. OverrideCtx(c, outer, o) \in Contexts /\ Makes(c, OverrideCtx(c, outer, o), outer)
  <2> DEFINE scope == IF outer = NoCtx THEN c ELSE ctxs[outer].scope
             bound == outer # NoCtx /\ ctxs[outer].bound
  <2>1. scope \in Ctxs \cup {NoCtx} /\ bound \in BOOLEAN
    BY <1>1, <1>6
  <2>2. OverrideCtx(c, outer, o) = [own |-> o, chain |-> <<c>> \o Chain(outer), inherits |-> TRUE,
                                    scope |-> scope, bound |-> bound]
    BY DEF OverrideCtx
  <2> QED
    BY <1>4, <2>1, <2>2 DEF Contexts, Makes
<1> QED
  BY <1>1, <1>2, <1>5, <1>7

\* A block that is opened: one frame on top.
LEMMA BlockOpened ==
    ASSUME IInv, NEW t \in alive, NEW c \in Ctxs, NEW x \in Contexts, NEW n,
           n = Len(frames[t]), ~Used(c), Makes(c, x, CurrentAt(t, n)), ctxs' = [ctxs EXCEPT ![c] = x],
           frames' = [frames EXCEPT ![t] = Append(@, CtxFrame(c, TRUE))],
           UNCHANGED <<alive, base, parent, cache, stack, family, nest>>
    PROVE  IInv'
<1>1. Typed /\ t \in Tasks
  BY DEF IInv, Typed
<1>2. PICK f \in Frames : f = CtxFrame(c, TRUE)
  BY NewFrames
<1>3. f.kind = "ctx" /\ f.ctx = c /\ ~f.closing
  BY <1>2 DEF CtxFrame
<1>4. frames' \in [Tasks -> Seq(Frames)] /\ Same(t, n) /\ Len(frames'[t]) = n + 1 /\ frames'[t][n + 1] = f
  BY <1>1, <1>2, PushFrames
<1>5. n \in Nat /\ n + 1 > n /\ \A i \in (n + 2)..(n + 1) : FALSE
  BY <1>1, FramesAt
<1>6. Typed'
  <2>1. ctxs' \in [Ctxs -> Contexts]
    BY <1>1 DEF Typed
  <2> QED
    BY <1>1, <1>4, <2>1 DEF Typed
<1> QED
  BY <1>3, <1>4, <1>5, <1>6, ContextOpened

\* `async with injection_ctx(o)`.
LEMMA OpenCtxKeeps ==
    ASSUME IInv, NEW t \in Tasks, NEW o \in Overrides, OpenCtx(t, o)
    PROVE  IInv'
<1>1. Typed /\ Nested /\ t \in alive /\ HasFreeCtx
  BY DEF IInv, OpenCtx, InApp
<1>2. PICK c : c = FreeCtx
  OBVIOUS
<1>3. PICK n : n = Len(frames[t])
  OBVIOUS
<1>4. PICK x : x = OwnCtx(c, Current(t), o)
  OBVIOUS
<1>5. c \in Ctxs /\ ~Used(c) /\ x \in Contexts /\ Makes(c, x, CurrentAt(t, n))
  BY <1>1, <1>2, <1>3, <1>4, NewContexts
<1> QED
  BY <1>1, <1>2, <1>3, <1>4, <1>5, BlockOpened DEF OpenCtx

\* `with push_overrides(o)`.
LEMMA PushOverridesKeeps ==
    ASSUME IInv, NEW t \in Tasks, NEW o \in Overrides, PushOverrides(t, o)
    PROVE  IInv'
<1>1. Typed /\ Nested /\ t \in alive /\ HasFreeCtx
  BY DEF IInv, PushOverrides, InApp
<1>2. PICK c : c = FreeCtx
  OBVIOUS
<1>3. PICK n : n = Len(frames[t])
  OBVIOUS
<1>4. PICK x : x = OverrideCtx(c, Current(t), o)
  OBVIOUS
<1>5. c \in Ctxs /\ ~Used(c) /\ x \in Contexts /\ Makes(c, x, CurrentAt(t, n))
  BY <1>1, <1>2, <1>3, <1>4, NewContexts
<1> QED
  BY <1>1, <1>2, <1>3, <1>4, <1>5, BlockOpened DEF PushOverrides

\* Who resolves runs.
LEMMA ResolvableRuns ==
    ASSUME Typed, Nested, NEW t \in Tasks, Resolvable(t) # {}
    PROVE  t \in alive
<1>1. InApp(t) \/ InBody(t) \/ InTeardown(t)
  BY DEF Resolvable
<1>2. InBody(t) \/ InTeardown(t) => frames[t] # <<>>
  BY DEF InBody, InTeardown, InPhase, OnTop
<1> QED
  BY <1>1, <1>2, TopFacts DEF InApp

\* A resolution begins in the context that is current.
LEMMA ResolutionBegins ==
    ASSUME IInv, NEW t \in alive, NEW c \in Ctxs, NEW root \in Calls, c = Current(t),
           frames' = [frames EXCEPT ![t] = Append(@, ResolveFrame(c, root))],
           UNCHANGED <<alive, base, parent, ctxs, cache, stack, family, nest>>
    PROVE  IInv'
<1>1. Typed /\ Nested /\ Counted /\ InOrder /\ Kept /\ t \in Tasks
  BY DEF IInv, Typed
<1>2. PICK n \in Nat : n = Len(frames[t])
  BY <1>1, FramesAt
<1>3. PICK f \in Frames : f = ResolveFrame(c, root)
  BY NewFrames
<1>4. /\ IsResolve(f) /\ ~Opens(f) /\ f.ctx = c /\ f.phase = "lock" /\ f.todo = <<>>
      /\ f.vals = Nothing
  BY <1>3 DEF ResolveFrame, Resolution, IsResolve, Opens, IsCtx
<1>5. frames' \in [Tasks -> Seq(Frames)] /\ Same(t, n) /\ Len(frames'[t]) = n + 1 /\ frames'[t][n + 1] = f
  BY <1>1, <1>2, <1>3, PushFrames
<1>6. Typed'
  BY <1>1, <1>5 DEF Typed
<1>7. /\ \A i \in (n + 1)..Len(frames[t]) : FALSE
      /\ \A i \in 1..Len(frames'[t]) : i > n => frames'[t][i] = f
      /\ \A i \in (n + 1)..Len(frames'[t]) : frames'[t][i] = f
      /\ \A i \in Nat : i > n => ~(i \in 1..Len(frames[t]))
  BY <1>2, <1>5
<1>8. Nested'
  <2>1. Below(t, n) /\ c = CurrentAt(t, n)
    BY <1>1, <1>2, SpawnedBelow, CurrentOnTop
  <2>2. Inner(t, n)
    BY <1>4, <1>5, <1>7, <2>1 DEF Inner, Same
  <2> QED
    BY <1>1, <1>6, <2>2, InnerKeeps
<1>9. Stable
  BY DEF Stable
<1>10. InOrder'
  <2>1. \A i \in 1..Len(frames'[t]) : i > n /\ IsResolve(frames'[t][i]) => Ready(frames[t][i])'
    <3>1. \A eff : Prepared(eff, f.todo, f.vals)
      BY <1>4 DEF Prepared
    <3> SUFFICES ASSUME NEW i \in 1..Len(frames'[t]), i > n
                 PROVE  Ready(frames[t][i])'
      OBVIOUS
    <3>2. frames'[t][i] = f
      BY <1>7
    <3> QED
      BY <1>4, <3>1, <3>2 DEF Ready
  <2> QED
    BY <1>1, <1>5, <1>6, <1>8, <1>9, <2>1, StepInOrder
<1>11. Counted'
  <2>1. \A s \in Ctxs : \A i \in Nat : i > n => ~Holds(t, i, s) /\ ~Holds(t, i, s)'
    BY <1>4, <1>7 DEF Holds
  <2> QED
    BY <1>1, <1>5, <1>6, <1>8, <1>9, <2>1, StepCounted
<1>12. Kept'
  <2>1. \A s \in Ctxs : Len(stack[s]) <= Len(stack'[s])
    BY <1>1, LenProperties DEF Typed
  <2>2. \A d \in Ctxs : ~Used(d)' => cache'[d] = Nothing
    BY <1>1 DEF Kept, Used
  <2>3. \A d \in Ctxs : Used(d) /\ Used(d)' => cache'[d] = cache[d]
    OBVIOUS
  <2>4. DOMAIN Nothing = {}
    BY DEF Nothing
  <2>5. \A i \in 1..Len(frames'[t]) : i > n => KeptAt(t, i)'
    BY <1>4, <1>7, <2>4 DEF KeptAt, Opens, IsCtx
  <2> QED
    BY <1>1, <1>5, <1>6, <1>8, <1>9, <2>1, <2>2, <2>3, <2>5, StepKept
<1> QED
  BY <1>6, <1>8, <1>10, <1>11, <1>12 DEF IInv

\* A resolution and the context opened for it begin.
LEMMA BothBegin ==
    ASSUME IInv, NEW t \in alive, HasFreeCtx, NEW c, c = FreeCtx, NEW root \in Calls, NEW body \in BOOLEAN,
           ctxs' = [ctxs EXCEPT ![c] = OwnCtx(c, Current(t), Nothing)],
           frames' = [frames EXCEPT ![t] = @ \o <<CtxFrame(c, body), ResolveFrame(c, root)>>],
           UNCHANGED <<alive, base, parent, cache, stack, family, nest>>
    PROVE  IInv'
<1>1. Typed /\ Nested /\ t \in Tasks
  BY DEF IInv, Typed
<1>2. PICK n \in Nat : n = Len(frames[t])
  BY <1>1, FramesAt
<1>3. PICK x : x = OwnCtx(c, Current(t), Nothing)
  OBVIOUS
<1>4. c \in Ctxs /\ ~Used(c) /\ x \in Contexts /\ Makes(c, x, CurrentAt(t, n))
  BY <1>1, <1>2, <1>3, NewContexts
<1>5. PICK f \in Frames : f = CtxFrame(c, body)
  BY <1>4, NewFrames
<1>6. PICK g \in Frames : g = ResolveFrame(c, root)
  BY <1>4, NewFrames
<1>7. f.kind = "ctx" /\ f.ctx = c /\ ~f.closing
  BY <1>5 DEF CtxFrame
<1> DEFINE fs == frames[t]
           gs == frames[t] \o <<f, g>>
<1>8. /\ gs \in Seq(Frames) /\ Len(gs) = n + 2 /\ gs[n + 1] = f /\ gs[n + 2] = g
      /\ \A i \in 1..n : gs[i] = fs[i]
  <2>1. fs \in Seq(Frames) /\ <<f, g>> \in Seq(Frames) /\ Len(<<f, g>>) = 2
    BY <1>1, FramesAt
  <2>2. /\ gs \in Seq(Frames) /\ Len(gs) = Len(fs) + 2
        /\ \A i \in 1..(Len(fs) + 2) : gs[i] = IF i <= Len(fs) THEN fs[i] ELSE <<f, g>>[i - Len(fs)]
    BY <2>1, ConcatProperties
  <2>3. Len(fs) = n
    BY <1>2
  <2>4. <<f, g>>[1] = f /\ <<f, g>>[2] = g
    OBVIOUS
  <2> HIDE DEF fs, gs
  <2>5. n + 1 \in 1..(n + 2) /\ n + 2 \in 1..(n + 2) /\ ~(n + 1 <= n) /\ ~(n + 2 <= n)
        /\ n + 1 - n = 1 /\ n + 2 - n = 2 /\ \A i \in 1..n : i \in 1..(n + 2) /\ i <= n
    OBVIOUS
  <2> QED
    BY <2>2, <2>3, <2>4, <2>5
<1>9. frames'[t] = gs /\ \A u \in Tasks \ {t} : frames'[u] = frames[u]
  BY <1>1, <1>5, <1>6 DEF Typed
<1>10. Typed'
  <2>1. ctxs' \in [Ctxs -> Contexts]
    BY <1>1, <1>3, <1>4 DEF Typed
  <2>2. frames' = [frames EXCEPT ![t] = gs]
    BY <1>5, <1>6
  <2>3. frames' \in [Tasks -> Seq(Frames)]
    <3>1. frames \in [Tasks -> Seq(Frames)] /\ gs \in Seq(Frames)
      BY <1>1, <1>8 DEF Typed
    <3> HIDE DEF gs
    <3> QED
      BY <2>2, <3>1
  <2> QED
    BY <1>1, <2>1, <2>3 DEF Typed
<1> HIDE DEF fs, gs
<1>11. Same(t, n) /\ Len(frames'[t]) > n
  <2>1. n <= n + 2 /\ n + 2 > n
    OBVIOUS
  <2> QED
    BY <1>2, <1>8, <1>9, <2>1 DEF Same, fs
<1>12. \A i \in (n + 2)..Len(frames'[t]) : \E r \in Calls : frames'[t][i] = ResolveFrame(c, r)
  <2>1. \A i \in (n + 2)..(n + 2) : i = n + 2
    OBVIOUS
  <2> QED
    BY <1>6, <1>8, <1>9, <2>1
<1>13. frames'[t][n + 1] = f
  BY <1>8, <1>9
<1> QED
  BY <1>2, <1>3, <1>4, <1>7, <1>10, <1>11, <1>12, <1>13, ContextOpened

\* resolve() and a function under inject(), in the context that is there or in a new one.
LEMMA EnsureKeeps ==
    ASSUME IInv, NEW t \in Tasks, NEW root \in Calls, NEW new \in BOOLEAN, NEW body \in BOOLEAN,
           Ensure(t, root, new, body)
    PROVE  IInv'
<1>1. Typed /\ Nested
  BY DEF IInv
<1>2. t \in alive
  BY <1>1, ResolvableRuns DEF Ensure
<1>3. PICK c : c = Current(t)
  OBVIOUS
<1>4. CASE NeedsOwnCtx(c, new)
  <2>1. PICK d : d = FreeCtx
    OBVIOUS
  <2> QED
    BY <1>2, <1>3, <1>4, <2>1, BothBegin DEF Ensure
<1>5. CASE ~NeedsOwnCtx(c, new)
  <2>1. Len(frames[t]) \in 0..Len(frames[t])
    BY <1>1, FramesAt
  <2>2. c \in Ctxs
    BY <1>1, <1>3, <1>5, <2>1, CurrentOnTop, CurrentType DEF NeedsOwnCtx
  <2> QED
    BY <1>2, <1>3, <1>5, <2>2, ResolutionBegins DEF Ensure
<1> QED
  BY <1>4, <1>5

\* Tasks come and go: resolutions, caches and locks' counts stay.
LEMMA TaskStep ==
    ASSUME IInv, Typed', Nested', NEW t \in Tasks,
           UNCHANGED <<frames, ctxs, cache, stack, nest>>
    PROVE  IInv'
<1>1. Typed /\ Nested /\ Counted /\ InOrder /\ Kept
  BY DEF IInv
<1>2. PICK n \in Nat : n = Len(frames[t])
  BY <1>1, FramesAt
<1>3. Same(t, n) /\ Stable
  BY <1>2 DEF Same, Stable
<1>4. /\ \A i \in Nat : i > n => ~(i \in 1..Len(frames[t])) /\ ~(i \in 1..Len(frames'[t]))
      /\ \A i \in 1..Len(frames'[t]) : ~(i > n)
  BY <1>2
<1>5. InOrder'
  BY <1>1, <1>3, <1>4, StepInOrder
<1>6. Counted'
  <2>1. \A s \in Ctxs : \A i \in Nat : i > n => ~Holds(t, i, s) /\ ~Holds(t, i, s)'
    BY <1>4 DEF Holds
  <2> QED
    BY <1>1, <1>3, <2>1, StepCounted
<1>7. Kept'
  <2>1. \A s \in Ctxs : Len(stack[s]) <= Len(stack'[s])
    BY <1>1, LenProperties DEF Typed
  <2>2. \A d \in Ctxs : ~Used(d)' => cache'[d] = Nothing
    BY <1>1 DEF Kept, Used
  <2>3. \A d \in Ctxs : Used(d) /\ Used(d)' => cache'[d] = cache[d]
    OBVIOUS
  <2> QED
    BY <1>1, <1>3, <1>4, <2>1, <2>2, <2>3, StepKept
<1> QED
  BY <1>5, <1>6, <1>7 DEF IInv

\* The task of a request begins.
LEMMA StartStep ==
    ASSUME IInv, NEW t \in Tasks, Start(t)
    PROVE  IInv'
<1>1. Typed /\ Nested
  BY DEF IInv
<1>2. Typed'
  BY <1>1 DEF Typed, Start
<1> QED
  BY <1>1, <1>2, StartKeeps, TaskStep DEF Start

\* A task is created.
LEMMA SpawnStep ==
    ASSUME IInv, NEW t \in Tasks, NEW u \in Tasks, Spawn(t, u)
    PROVE  IInv'
<1>1. Typed /\ Nested
  BY DEF IInv
<1>2. Nested'
  BY <1>1, SpawnKeeps
<1>3. Typed'
  <2>1. alive' \subseteq Tasks
    BY <1>1 DEF Spawn, Typed
  <2>2. base' \in [Tasks -> Ctxs \cup {NoCtx}]
    <3>1. Current(t) \in Ctxs \cup {NoCtx}
      <4>1. Len(frames[t]) \in 0..Len(frames[t])
        BY <1>1, FramesAt
      <4> QED
        BY <1>1, <4>1, CurrentOnTop, CurrentType
    <3> QED
      BY <1>1, <3>1 DEF Spawn, Typed
  <2>3. parent' \in [Tasks -> Parents]
    <3>1. [task |-> t, at |-> Len(frames[t])] \in Parents
      BY <1>1, FramesAt DEF Parents
    <3> QED
      BY <1>1, <3>1 DEF Spawn, Typed
  <2>4. family' \in [Ctxs -> [Tasks -> Tasks]]
    <3>1. family \in [Ctxs -> [Tasks -> Tasks]]
      BY <1>1 DEF Typed
    <3>2. \A s \in Ctxs : [family[s] EXCEPT ![u] = family[s][t]] \in [Tasks -> Tasks]
      BY <3>1
    <3>3. family' = [s \in Ctxs |-> IF Owns(s, t) THEN [family[s] EXCEPT ![u] = family[s][t]] ELSE family[s]]
      BY DEF Spawn
    <3> QED
      BY <3>1, <3>2, <3>3
  <2> QED
    BY <1>1, <2>1, <2>2, <2>3, <2>4 DEF Spawn, Typed
<1> QED
  BY <1>2, <1>3, TaskStep DEF Spawn

\* A task ends.
LEMMA EndStep ==
    ASSUME IInv, NEW t \in Tasks, End(t)
    PROVE  IInv'
<1>1. Typed /\ Nested
  BY DEF IInv
<1>2. Nested'
  BY <1>1, EndKeeps
<1>3. Typed'
  <2>1. NoParent \in Parents
    BY DEF NoParent, Parents
  <2>2. parent' \in [Tasks -> Parents]
    BY <1>1, <2>1 DEF End, Typed
  <2>3. family' \in [Ctxs -> [Tasks -> Tasks]]
    <3>1. family \in [Ctxs -> [Tasks -> Tasks]]
      BY <1>1 DEF Typed
    <3>2. \A s \in Ctxs : [family[s] EXCEPT ![t] = t] \in [Tasks -> Tasks]
      BY <3>1
    <3>3. family' = [s \in Ctxs |-> [family[s] EXCEPT ![t] = t]]
      BY DEF End
    <3> QED
      BY <3>2, <3>3
  <2>4. alive' \subseteq Tasks /\ base' \in [Tasks -> Ctxs \cup {NoCtx}]
    BY <1>1 DEF End, Typed
  <2> QED
    BY <1>1, <2>2, <2>3, <2>4 DEF End, Typed
<1> QED
  BY <1>2, <1>3, TaskStep DEF End

-----------------------------------------------------------------------------
\* The theorems

\* At first nobody is anywhere.
LEMMA InitHolds == Init => IInv
<1> SUFFICES ASSUME Init
             PROVE  IInv
  OBVIOUS
<1> USE DEF Init
<1>1. Typed
  <2>1. <<>> \in Seq(Frames) /\ <<>> \in Seq(Generators) /\ <<>> \in Seq(Ctxs)
    BY EmptySeq
  <2>2. Unused \in Contexts
    BY <2>1 DEF Unused, Contexts
  <2>3. NoParent \in Parents
    BY DEF NoParent, Parents
  <2>4. Nothing \in PartialMap(Calls, Value)
    BY DEF Nothing, PartialMap
  <2>5. family \in [Ctxs -> [Tasks -> Tasks]]
    OBVIOUS
  <2>6. nest \in [Ctxs -> [Tasks -> Nat]]
    OBVIOUS
  <2> QED
    BY <2>1, <2>2, <2>3, <2>4, <2>5, <2>6 DEF Typed
<1>2. \A t \in Tasks : Len(frames[t]) = 0 /\ frames[t] = <<>>
  BY EmptySeq
<1>3. \A i \in Nat : i \notin 1..0
  OBVIOUS
<1>4. \A c \in Ctxs : ~Used(c)
  BY DEF Used
<1>5. Families
  BY DEF Families, NoParent
<1>6. Layered /\ EnteredOnce /\ Chained
  <2>1. \A t \in Tasks : \A i \in Nat : \A c : ~Entered(t, i, c)
    BY <1>2, <1>3 DEF Entered
  <2> QED
    BY <1>2, <1>3, <1>4, <2>1 DEF Layered, EnteredOnce, Chained
<1>7. Enclosed
  <2> SUFFICES ASSUME NEW t \in Tasks, NEW n \in 0..0
               PROVE  CurrentAt(t, n) = NoCtx /\ Range(Chain(NoCtx)) = {}
    BY <1>2 DEF Enclosed
  <2>1. n = 0 /\ base[t] = NoCtx
    OBVIOUS
  <2>2. 0 \in Nat /\ CurrentIn(frames[t], base[t], 0) = base[t]
    BY CurrentSteps
  <2> QED
    BY <2>1, <2>2, NoChain DEF CurrentAt
<1>8. Counted
  <2> SUFFICES ASSUME NEW s \in Ctxs, NEW t \in Tasks
               PROVE  nest[s][t] = 0 /\ Cardinality(Holding(t, s)) = 0
    BY DEF Counted
  <2>1. Holding(t, s) = {}
    BY <1>2 DEF Holding
  <2> QED
    BY <2>1, FS_EmptySet
<1>9. InOrder /\ Kept
  BY <1>2, <1>3 DEF InOrder, Kept
<1> QED
  BY <1>1, <1>5, <1>6, <1>7, <1>8, <1>9 DEF IInv, Nested

\* Nothing changes when nothing happens.
LEMMA StutterHolds == IInv /\ UNCHANGED vars => IInv'
<1> SUFFICES ASSUME IInv, UNCHANGED vars
             PROVE  IInv'
  OBVIOUS
<1>1. /\ alive' = alive /\ frames' = frames /\ base' = base /\ parent' = parent
      /\ ctxs' = ctxs /\ cache' = cache /\ stack' = stack /\ family' = family /\ nest' = nest
  BY DEF vars, tasks
<1>2. Typed /\ Nested /\ Counted /\ InOrder /\ Kept
  BY DEF IInv
<1>3. Typed'
  BY <1>1, <1>2 DEF Typed
<1>4. Nested'
  <2>1. Families'
    BY <1>1, <1>2 DEF Nested, Families, Placed, CurrentAt, Firm, Opens, IsCtx, IsResolve
  <2>2. Layered'
    BY <1>1, <1>2, ZenonT(30) DEF Nested, Layered, LayeredAt, Around, Used, Chain, CurrentAt, IsCtx, IsResolve
  <2>3. EnteredOnce'
    BY <1>1, <1>2 DEF Nested, EnteredOnce, Entered, Used, IsCtx
  <2>4. Enclosed'
    <3>1. \A u \in Tasks : \A n \in Nat : \A c : EnclosedAt(u, n, c)' <=> EnclosedAt(u, n, c)
      BY <1>1 DEF EnclosedAt, Entered, IsCtx, Chain
    <3>2. \A u, n : CurrentAt(u, n)' = CurrentAt(u, n)
      BY <1>1 DEF CurrentAt
    <3>3. \A c : Chain(c)' = Chain(c) /\ (Used(c)' <=> Used(c))
      BY <1>1 DEF Chain, Used
    <3>4. \A u \in Tasks : \A n \in 0..Len(frames[u]) : n \in Nat
      OBVIOUS
    <3> QED
      BY <1>1, <1>2, <3>1, <3>2, <3>3, <3>4 DEF Nested, Enclosed
  <2>5. Chained'
    BY <1>1, <1>2 DEF Nested, Chained, Inherited, Used
  <2> QED
    BY <2>1, <2>2, <2>3, <2>4, <2>5 DEF Nested
<1> QED
  <2>1. CASE Tasks = {}
    BY <1>1, <1>2, <1>3, <1>4, <2>1 DEF IInv, Counted, InOrder, Kept, Used
  <2>2. CASE Tasks # {}
    BY <1>1, <1>3, <1>4, <2>2, TaskStep
  <2> QED
    BY <2>1, <2>2

\* Every step preserves the invariant.
LEMMA StepHolds == IInv /\ [Next]_vars => IInv'
<1> SUFFICES ASSUME IInv, [Next]_vars
             PROVE  IInv'
  OBVIOUS
<1>1. ASSUME NEW t \in Tasks, NEW o \in Overrides, OpenCtx(t, o) \/ PushOverrides(t, o)
      PROVE  IInv'
  BY <1>1, OpenCtxKeeps, PushOverridesKeeps
<1>2. ASSUME NEW t \in Tasks, NEW root \in Calls, NEW new \in BOOLEAN,
             CallResolve(t, root, new) \/ CallInjected(t, root, new)
      PROVE  IInv'
  BY <1>2, EnsureKeeps DEF CallResolve, CallInjected
<1>3. ASSUME NEW t \in Tasks, EnterLock(t) \/ Build(t) \/ Return(t)
      PROVE  IInv'
  BY <1>3, EnterLockKeeps, BuildKeeps, ReturnKeeps
<1>4. ASSUME NEW t \in Tasks, Fail(t) \/ Abandon(t)
      PROVE  IInv'
  BY <1>4, FailKeeps, AbandonKeeps
<1>5. ASSUME NEW t \in Tasks, LeaveOverrides(t) \/ LeaveCtx(t) \/ Teardown(t) \/ Closed(t)
      PROVE  IInv'
  BY <1>5, LeaveOverridesKeeps, LeaveCtxKeeps, TeardownKeeps, ClosedKeeps
<1>6. ASSUME NEW t \in Tasks, NEW u \in Tasks, Spawn(t, u)
      PROVE  IInv'
  BY <1>6, SpawnStep
<1>7. ASSUME NEW t \in Tasks, Start(t) \/ End(t)
      PROVE  IInv'
  BY <1>7, StartStep, EndStep
<1>8. CASE UNCHANGED vars
  BY <1>8, StutterHolds
<1> QED
  BY <1>1, <1>2, <1>3, <1>4, <1>5, <1>6, <1>7, <1>8 DEF Next

\* Contexts nest, locks are counted and values stand, at all times: for every graph,
\* whatever is overridden, whatever tasks are spawned and whatever fails.
THEOREM Invariance == Spec => []IInv
BY InitHolds, StepHolds, PTL DEF Spec

\* Every variable has its type, and who is in a context is in one that exists.
THEOREM TypeCorrect == Spec => []TypeOK
<1>1. ASSUME IInv
      PROVE  TypeOK
  <2>1. Typed /\ Nested
    BY <1>1 DEF IInv
  <2>2. ASSUME NEW c \in Ctxs
        PROVE  /\ DOMAIN ctxs[c].own \subseteq Calls /\ ctxs[c].chain \in Seq(Ctxs)
               /\ ctxs[c].scope \in Ctxs \cup {NoCtx}
    <3>1. ctxs[c] \in Contexts
      BY <2>1 DEF Typed
    <3>2. \A o \in OverrideMaps : DOMAIN o \subseteq Calls
      BY DEF OverrideMaps
    <3>3. DOMAIN Nothing = {}
      BY DEF Nothing
    <3> QED
      BY <3>1, <3>2, <3>3, InjectionAssumption DEF Contexts
  <2>3. ASSUME NEW c \in Ctxs
        PROVE  DOMAIN cache[c] \subseteq Calls /\ \A k \in DOMAIN cache[c] : cache[c][k].made \subseteq Calls
    <3>1. cache[c] \in PartialMap(Calls, Value)
      BY <2>1 DEF Typed
    <3>2. DOMAIN cache[c] \subseteq Calls /\ \A k \in DOMAIN cache[c] : cache[c][k] \in Value
      BY <3>1, MapFacts
    <3> QED
      BY <3>2 DEF Value
  <2>4. ASSUME NEW t \in Tasks, NEW i \in 1..Len(frames[t])
        PROVE  frames[t][i].ctx \in Ctxs /\ ctxs[frames[t][i].ctx] # Unused
    <3>1. frames[t][i] \in Frames /\ frames[t][i].ctx \in Ctxs
      BY <2>1, FramesAt, FrameFacts
    <3>2. CASE IsCtx(frames[t][i])
      BY <2>1, <3>1, <3>2 DEF Nested, Layered, LayeredAt, Around, Used
    <3>3. CASE IsResolve(frames[t][i])
      BY <2>1, <3>1, <3>3, ResolveCtx DEF Used
    <3> QED
      BY <3>1, <3>2, <3>3, FrameFacts
  <2> QED
    BY <2>1, <2>2, <2>3, <2>4 DEF TypeOK, Typed, Parents
<1> QED
  BY <1>1, Invariance, PTL

\* The resolutions under way, by task and frame.
LEMMA ResolvingFacts ==
    ASSUME Typed, Nested, NEW r \in Resolving
    PROVE  \E t \in Tasks : \E i \in 1..Len(frames[t]) :
              r = <<t, i>> /\ Frame(r) = frames[t][i] /\ IsResolve(frames[t][i])
<1>1. PICK t \in Tasks : r \in {<<t, i>> : i \in {j \in 1..Len(frames[t]) : frames[t][j].kind = "resolve"}}
  BY DEF Resolving
<1> QED
  BY <1>1 DEF Frame, IsResolve

\* Whatever tasks are spawned and wherever they resolve: no resolution works with a value
\* whose generator was torn down, and none is under way in the scope of a context that is
\* being closed (ctx.py, _enter_ctx(): the variable is reset before the stack is unwound).
THEOREM NeverTornDown == Spec => []NoUseAfterTeardown
<1>1. ASSUME IInv
      PROVE  NoUseAfterTeardown
  <2>1. Typed /\ Nested /\ Kept
    BY <1>1 DEF IInv
  <2>2. ASSUME NEW r \in Resolving
        PROVE  /\ \A k \in DOMAIN Frame(r).vals :
                     Frame(r).vals[k].gens \subseteq 1..Len(stack[ctxs[Frame(r).ctx].scope])
               /\ \A t \in Tasks : \A i \in 1..Len(frames[t]) :
                     frames[t][i].kind = "ctx" /\ frames[t][i].closing
                         => ctxs[Frame(r).ctx].scope # frames[t][i].ctx
    <3>1. PICK u \in Tasks, m \in Nat :
             m \in 1..Len(frames[u]) /\ Frame(r) = frames[u][m] /\ IsResolve(frames[u][m])
      BY <2>1, ResolvingFacts, FramesAt
    <3>2. KeptAt(u, m)
      BY <2>1, <3>1 DEF Kept
    <3>3. PICK c \in Ctxs : c = frames[u][m].ctx /\ c = CurrentAt(u, m - 1) /\ m - 1 \in 0..Len(frames[u])
      BY <2>1, <3>1, ResolveCtx
    <3>4. ctxs[c].scope \in Range(Chain(CurrentAt(u, m - 1)))
      BY <2>1, <3>3, ScopeAround
    <3>5. ASSUME NEW t \in Tasks, NEW i \in 1..Len(frames[t]), IsCtx(frames[t][i]),
                 frames[t][i].closing, ctxs[c].scope = frames[t][i].ctx
          PROVE  FALSE
      <4>1. Entered(t, i, ctxs[c].scope)
        BY <3>5 DEF Entered
      <4> QED
        BY <2>1, <3>3, <3>4, <3>5, <4>1, NotClosing
    <3> QED
      BY <3>1, <3>2, <3>3, <3>5 DEF KeptAt, Standing, IsCtx
  <2> QED
    BY <2>2 DEF NoUseAfterTeardown
<1> QED
  BY <1>1, Invariance, PTL

\* While a context is being closed nobody is inside its lock: what is torn down is not
\* being built on (resolve.py: `async with ctx.lock` lies within the block of its context).
THEOREM QuietClose == Spec => []ClosedQuietly
<1>1. ASSUME IInv
      PROVE  ClosedQuietly
  <2>1. Typed /\ Nested /\ Counted
    BY <1>1 DEF IInv
  <2> SUFFICES ASSUME NEW t \in Tasks, NEW i \in 1..Len(frames[t]), IsCtx(frames[t][i]),
                      frames[t][i].closing, NEW u \in Tasks, nest[frames[t][i].ctx][u] # 0
               PROVE  FALSE
    BY DEF ClosedQuietly, IsCtx
  <2>2. PICK c \in Ctxs : c = frames[t][i].ctx /\ Entered(t, i, c)
    BY <2>1, FramesAt, FrameFacts DEF Entered
  <2>3. Holding(u, c) # {}
    BY <2>1, <2>2, FS_EmptySet DEF Counted
  <2>4. PICK m \in 1..Len(frames[u]) : IsResolve(frames[u][m]) /\ ctxs[frames[u][m].ctx].scope = c
    BY <2>3 DEF Holding, Holds
  <2>5. PICK d \in Ctxs : d = frames[u][m].ctx /\ d = CurrentAt(u, m - 1) /\ m - 1 \in 0..Len(frames[u])
    BY <2>1, <2>4, ResolveCtx
  <2>6. c \in Range(Chain(CurrentAt(u, m - 1)))
    BY <2>1, <2>4, <2>5, ScopeAround
  <2> QED
    BY <2>1, <2>2, <2>5, <2>6, NotClosing
<1> QED
  BY <1>1, Invariance, PTL

\* A task without frames is in no lock.
LEMMA OutsideAll ==
    ASSUME Typed, Counted, NEW t \in Tasks, frames[t] = <<>>, NEW s \in Ctxs
    PROVE  nest[s][t] = 0
<1>1. Len(frames[t]) = 0
  BY EmptySeq
<1>2. Holding(t, s) = {}
  BY <1>1 DEF Holding
<1> QED
  BY <1>2, FS_EmptySet DEF Counted

\* A lock is entered.
LEMMA EntersLock ==
    ASSUME Typed, Nested, NEW t \in Tasks, EnterLock(t), NEW c \in Ctxs
    PROVE  [Lock(c)!Next]_(<<family[c], nest[c]>>)
<1>1. PICK s \in Ctxs : s = Scope(t)
  BY TopScope DEF EnterLock, InPhase, OnTop, IsResolve
<1>2. nest \in [Ctxs -> [Tasks -> Nat]] /\ nest' = [nest EXCEPT ![s][t] = @ + 1] /\ family' = family
      /\ MayEnter(s, t)
  BY <1>1 DEF EnterLock, Typed
<1>3. CASE c = s
  <2>1. Lock(c)!Enter(t)
    BY <1>2, <1>3 DEF Lock!Enter, Lock!Inside, MayEnter
  <2> QED
    BY <2>1 DEF Lock!Next
<1>4. CASE c # s
  BY <1>2, <1>4
<1> QED
  BY <1>3, <1>4

\* A lock is left.
LEMMA LeavesLock ==
    ASSUME Typed, Nested, Counted, NEW t \in Tasks, Return(t) \/ Fail(t), NEW c \in Ctxs
    PROVE  [Lock(c)!Next]_(<<family[c], nest[c]>>)
<1>1. frames[t] # <<>> /\ IsResolve(Top(t)) /\ Top(t).phase # "lock"
  BY DEF Return, Fail, InPhase, OnTop, IsResolve
<1>2. PICK n : n = Len(frames[t])
  OBVIOUS
<1>3. PICK s \in Ctxs : s = Scope(t) /\ Holds(t, n, s)
  BY <1>1, <1>2, TopScope
<1>4. nest \in [Ctxs -> [Tasks -> Nat]] /\ nest' = [nest EXCEPT ![s][t] = @ - 1] /\ family' = family
  BY <1>3 DEF Return, Fail, Typed
<1>5. nest[s][t] > 0
  BY <1>3, HeldCounts
<1>6. CASE c = s
  <2>1. Lock(c)!Exit(t)
    BY <1>4, <1>5, <1>6 DEF Lock!Exit, Lock!Inside
  <2> QED
    BY <2>1 DEF Lock!Next
<1>7. CASE c # s
  BY <1>4, <1>7
<1> QED
  BY <1>6, <1>7

\* A task is born into the family that is inside, if its parent is of it.
LEMMA BornIntoFamily ==
    ASSUME Typed, Nested, Counted, NEW t \in Tasks, NEW u \in Tasks, Spawn(t, u), NEW c \in Ctxs
    PROVE  [Lock(c)!Next]_(<<family[c], nest[c]>>)
<1>1. /\ family' = [s \in Ctxs |-> IF Owns(s, t) THEN [family[s] EXCEPT ![u] = family[s][t]] ELSE family[s]]
      /\ nest' = nest /\ u \notin alive
  BY DEF Spawn
<1>2. nest[c][u] = 0
  BY <1>1, OutsideAll DEF Nested, Families
<1>3. CASE Owns(c, t)
  <2>1. Lock(c)!Begin(t, u)
    BY <1>1, <1>2, <1>3 DEF Lock!Begin, Lock!Inside, Owns
  <2> QED
    BY <2>1 DEF Lock!Next
<1>4. CASE ~Owns(c, t)
  BY <1>1, <1>4
<1> QED
  BY <1>3, <1>4

\* A task that ends is in no lock.
LEMMA DiesOutside ==
    ASSUME Typed, Nested, Counted, NEW t \in Tasks, End(t), NEW c \in Ctxs
    PROVE  [Lock(c)!Next]_(<<family[c], nest[c]>>)
<1>1. nest[c][t] = 0
  BY OutsideAll DEF End
<1>2. Lock(c)!End(t)
  BY <1>1 DEF End, Lock!End
<1> QED
  BY <1>2 DEF Lock!Next

\* Every context's lock is used as its specification, the one that RLock implements,
\* allows: it is entered by one family at a time and left only by who is inside, a task
\* joins the family it is spawned by, and none ends inside (deps.py: `async with ctx.lock`).
THEOREM LocksAsSpecified == Spec => LocksHonoured
<1>1. Init => \A c \in Ctxs : Lock(c)!Init
  BY DEF Init, Lock!Init
<1>2. ASSUME IInv, [Next]_vars
      PROVE  [\A c \in Ctxs : [Lock(c)!Next]_(<<family[c], nest[c]>>)]_<<family, nest>>
  <2> SUFFICES ASSUME NEW c \in Ctxs, ~(UNCHANGED <<family, nest>>)
               PROVE  [Lock(c)!Next]_(<<family[c], nest[c]>>)
    OBVIOUS
  <2>1. Typed /\ Nested /\ Counted
    BY <1>2 DEF IInv
  <2>2. \/ \E t \in Tasks : EnterLock(t) \/ Return(t) \/ Fail(t) \/ End(t)
        \/ \E t, u \in Tasks : Spawn(t, u)
    <3>1. \A t \in Tasks, o \in Overrides : ~OpenCtx(t, o) /\ ~PushOverrides(t, o)
      BY DEF OpenCtx, PushOverrides
    <3>2. \A t \in Tasks, root \in Calls, new \in BOOLEAN : ~CallResolve(t, root, new) /\ ~CallInjected(t, root, new)
      BY DEF CallResolve, CallInjected, Ensure
    <3>3. \A t \in Tasks : /\ ~Build(t) /\ ~Abandon(t) /\ ~LeaveOverrides(t) /\ ~LeaveCtx(t)
                           /\ ~Teardown(t) /\ ~Closed(t) /\ ~Start(t)
      BY DEF Build, Abandon, LeaveOverrides, LeaveCtx, Teardown, Closed, Start
    <3> QED
      BY <1>2, <3>1, <3>2, <3>3 DEF Next, vars
  <2> QED
    BY <2>1, <2>2, EntersLock, LeavesLock, BornIntoFamily, DiesOutside
<1> QED
  BY <1>1, <1>2, Invariance, PTL DEF Spec, LocksHonoured
=============================================================================
