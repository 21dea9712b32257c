----------------------- MODULE RequestLifecycleProofs -----------------------
(***************************************************************************)
(* Proofs about RequestLifecycle, for every application, every graph of    *)
(* dependencies and every set of tasks.                                    *)
(***************************************************************************)
EXTENDS RequestLifecycle, DependenciesProofs

\* The cache that everything in the connection shares.
cache == caches["connection"]

\* What a task solves, and what has been made.
Jobs ==
    [place : Places \cup {"none"}, todo : Seq(Calls), vals : UNION {[D -> Nat] : D \in SUBSET Calls}]
Values == [call : Calls, place : Places, by : Tasks, gens : SUBSET Nat, up : BOOLEAN]

\* Every variable has its type.
Typed ==
    /\ app \in [Containers -> Seq(Mounts \cup Includes \cup Endpoints)]
    /\ dependant \in [Endpoints -> Seq(Calls)] /\ handler \in [Endpoints -> Seq(Calls)]
    /\ stage \in {"setup", "before", "solving", "endpoint", "closing", "after", "over"}
    /\ within \in [Tasks -> {"none", "middleware", "bound", "done"}]
    /\ caches \in [Caches -> [Calls -> Nat]]
    /\ built \in Seq(Values)
    /\ stacks \in [Places -> Seq(Nat)]
    /\ jobs \in [Tasks -> Jobs]

\* What reflection reports of a route is what its handler calls, each call behind those it
\* is made from; until the endpoint has run, the route's calls are made or to be made.
Handled ==
    /\ \A r \in Endpoints : /\ Range(handler[r]) = IterCalls(dependant[r])
                            /\ DependenciesFirst([c \in Calls |-> c], handler[r])
    /\ stage \in {"solving", "endpoint"} =>
          dispatched \in Endpoints /\ request.method \in Methods[dispatched]
    /\ stage = "solving" =>
          Range(handler[dispatched]) \subseteq DOMAIN jobs[Main].vals \cup Range(jobs[Main].todo)
    /\ stage = "endpoint" => \A k \in Range(handler[dispatched]) : cache[k] # 0

\* What a cache holds of a call was made for it.
Holding(mem, values) == \A k \in Calls : mem[k] # 0 => mem[k] \in DOMAIN values /\ values[mem[k]].call = k

\* What was made is cached, it or another value of its call, and nobody uses another cache.
Cached ==
    /\ Holding(cache, built)
    /\ \A i \in DOMAIN built : cache[built[i].call] # 0
    /\ \A p \in Places, k \in Calls : caches[p][k] = 0

\* Where Main solves when it does.
PlaceIn(s) ==
    CASE s \in {"before", "after"} -> "middleware"
      [] s = "solving" -> "route"
      [] s = "endpoint" -> "bound"
      [] OTHER -> "none"

\* Tasks do not outlive the code that waits for them, and one task solves at a time in each
\* place: under the lock of the context, or FastAPI.
Alive ==
    /\ within[Main] = "none"
    /\ \A u \in Tasks : /\ within[u] = "bound" => stage = "endpoint"
                        /\ within[u] = "middleware" => stage \notin {"setup", "over"}
    /\ \A t \in Tasks : Busy(t) => /\ jobs[t].place # "none"
                                   /\ jobs[t].place = IF t = Main THEN PlaceIn(stage) ELSE within[t]
    /\ \A t, u \in Tasks : Busy(t) /\ Busy(u) /\ jobs[t].place = jobs[u].place => t = u
    /\ stage = "solving" => Busy(Main)

\* A job has what was made for each call, and makes what the next call depends on.
Ordered(job) ==
    \A i \in DOMAIN job.todo :
        Range(Deps[job.todo[i]]) \subseteq DOMAIN job.vals \cup {job.todo[j] : j \in 1..(i - 1)}
Taken(job, mem, values) ==
    \A k \in DOMAIN job.vals :
        job.vals[k] \in DOMAIN values /\ values[job.vals[k]].call = k /\ mem[k] # 0
Sound(job, mem, values) == Taken(job, mem, values) /\ Ordered(job)
Solving == \A t \in Tasks : Sound(jobs[t], cache, built)

\* The task t makes a value in p and u one in q: a task of the middleware, and the route or
\* the endpoint.
Race(t, p, u, q) == p = "middleware" /\ t # Main /\ q \in {"route", "bound"}

\* Whoever makes what is already made races with who made it.
Raced(t) ==
    Building(t) => \A i \in DOMAIN built :
        built[i].call = Head(jobs[t].todo) =>
            \/ Race(t, jobs[t].place, built[i].by, built[i].place)
            \/ Race(built[i].by, built[i].place, t, jobs[t].place)
Single == OneInstance /\ \A t \in Tasks : Raced(t)

\* The stack of a place holds the generators made there that are up, in the order in which
\* they were made.
IsUp(i) == built[i].call \in Generators /\ built[i].up
Increasing(s) == \A i, j \in DOMAIN s : i < j => s[i] < s[j]
Stacked ==
    /\ \A i \in DOMAIN built : \A g \in built[i].gens : g \in 1..i /\ built[g].call \in Generators
    /\ \A p \in Places : /\ Range(stacks[p]) = {i \in DOMAIN built : IsUp(i) /\ built[i].place = p}
                         /\ Increasing(stacks[p])

\* What is made where, and until when it is up.
Phases ==
    /\ stage = "setup" => built = <<>>
    /\ stage = "before" => \A i \in DOMAIN built : built[i].place = "middleware"
    /\ stage = "solving" => \A i \in DOMAIN built : built[i].place # "bound"
    /\ stage \in {"setup", "before", "solving", "endpoint"} => \A i \in DOMAIN built : built[i].up
    /\ stage # "over" => \A i \in DOMAIN built : built[i].place = "middleware" => built[i].up
    /\ stage \in {"after", "over"} => stacks["route"] = <<>> /\ stacks["bound"] = <<>>
    /\ \A i, j \in DOMAIN built : i < j => ~(built[i].place = "bound" /\ built[j].place = "route")
    /\ \A i, j \in DOMAIN built :
          /\ i < j /\ built[i].place = built[j].place
          /\ built[i].call \in Generators /\ IsUp(j)
          => IsUp(i)

\* The inductive invariant.
IInv == Typed /\ Handled /\ Cached /\ Alive /\ Solving /\ Single /\ Stacked /\ Phases

-----------------------------------------------------------------------------
\* Orders and jobs

\* Without replacements.
LEMMA Declared ==
    /\ [c \in Calls |-> c] \in [Calls -> Calls]
    /\ WellFounded(Calls, NeedsUnder([c \in Calls |-> c]))
<1>1. NeedsUnder([c \in Calls |-> c]) = needs
  BY DEF NeedsUnder, needs
<1> QED
  BY <1>1, Acyclic

\* The calls for some dependencies are all that they reach, and in order.
LEMMA OrderFacts ==
    ASSUME NEW deps \in Seq(Calls)
    PROVE  /\ Order(deps) \in Seq(Calls)
           /\ DependenciesFirst([c \in Calls |-> c], Order(deps))
           /\ Range(Order(deps)) = IterCalls(deps)
<1> DEFINE id == [c \in Calls |-> c]
           seqs == [i \in 1..Len(deps) |-> SolveOrder(id, deps[i])]
<1>1. Len(deps) \in Nat /\ DOMAIN deps = 1..Len(deps) /\ \A i \in 1..Len(deps) : deps[i] \in Calls
  BY LenProperties, ElementOfSeq
<1>2. \A c \in Calls : /\ SolveOrder(id, c) \in Seq(Calls)
                       /\ DependenciesFirst(id, SolveOrder(id, c))
                       /\ Range(SolveOrder(id, c)) = Reach[c]
  <2> SUFFICES ASSUME NEW c \in Calls
               PROVE  /\ SolveOrder(id, c) \in Seq(Calls)
                      /\ DependenciesFirst(id, SolveOrder(id, c))
                      /\ Range(SolveOrder(id, c)) = Reach[c]
    OBVIOUS
  <2>1. Range(SolveOrder(id, c)) = Reach[c]
    BY SolveOrderReaches
  <2>2. id \in [Calls -> Calls] /\ WellFounded(Calls, NeedsUnder(id))
    BY Declared
  <2> HIDE DEF id
  <2> QED
    BY <2>1, <2>2, SolveOrderFacts
<1> HIDE DEF id
<1>3. seqs \in [1..Len(deps) -> Seq(Calls)]
  BY <1>1, <1>2
<1>4. seqs \in Seq(Seq(Calls)) /\ Len(seqs) = Len(deps)
  BY <1>1, <1>3, SeqDef
<1>5. \A i \in 1..Len(seqs) : DependenciesFirst(id, seqs[i]) /\ Range(seqs[i]) = Reach[deps[i]]
  BY <1>1, <1>2, <1>4
<1>6. Order(deps) = FlattenSeq(seqs)
  BY DEF Order, id
<1>7. UNION {Range(seqs[i]) : i \in 1..Len(seqs)} = IterCalls(deps)
  <2>1. {Range(seqs[i]) : i \in 1..Len(seqs)} = {Reach[deps[i]] : i \in 1..Len(deps)}
    BY <1>4, <1>5
  <2>2. {Reach[deps[i]] : i \in 1..Len(deps)} = {Reach[d] : d \in Range(deps)}
    BY <1>1 DEF Range
  <2> QED
    BY <2>1, <2>2 DEF IterCalls
<1> HIDE DEF seqs
<1>8. Range(Order(deps)) = IterCalls(deps)
  BY <1>4, <1>6, <1>7, FlattenRange
<1>9. Order(deps) \in Seq(Calls) /\ DependenciesFirst(id, Order(deps))
  BY <1>4, <1>5, <1>6, FirstFlattened
<1> QED
  BY <1>8, <1>9 DEF id

\* The least miss, if there is one.
LEMMA MinFacts ==
    ASSUME NEW T \in SUBSET Nat, T # {}
    PROVE  Min(T) \in T /\ \A k \in T : Min(T) <= k
BY LeastNatural DEF Min

\* Settle takes what is cached, up to the first call that is not.
LEMMA SettleFacts ==
    ASSUME NEW job \in Jobs, NEW mem \in [Calls -> Nat]
    PROVE  \E n \in 0..Len(job.todo) :
              /\ \A i \in 1..n : mem[job.todo[i]] # 0
              /\ n < Len(job.todo) => mem[job.todo[n + 1]] = 0
              /\ Settle(job, mem) =
                   [place |-> job.place, todo |-> SubSeq(job.todo, n + 1, Len(job.todo)),
                    vals |-> Overlay([k \in {job.todo[i] : i \in 1..n} |-> mem[k]], job.vals)]
<1> DEFINE misses == {i \in 1..Len(job.todo) : mem[job.todo[i]] = 0}
           hits == IF misses = {} THEN Len(job.todo) ELSE Min(misses) - 1
<1>1. Len(job.todo) \in Nat
  BY DEF Jobs
<1>2. /\ hits \in 0..Len(job.todo)
      /\ \A i \in 1..hits : mem[job.todo[i]] # 0
      /\ hits < Len(job.todo) => mem[job.todo[hits + 1]] = 0
  <2>1. CASE misses = {}
    BY <1>1, <2>1
  <2>2. CASE misses # {}
    <3>1. misses \in SUBSET Nat
      BY <1>1
    <3>2. Min(misses) \in misses /\ \A k \in misses : Min(misses) <= k
      <4> HIDE DEF misses
      <4> QED
        BY <2>2, <3>1, MinFacts
    <3>3. hits = Min(misses) - 1 /\ hits + 1 = Min(misses)
      BY <1>1, <2>2, <3>2
    <3>4. hits \in 0..Len(job.todo) /\ mem[job.todo[hits + 1]] = 0
      <4>1. Min(misses) \in 1..Len(job.todo) /\ mem[job.todo[Min(misses)]] = 0
        BY <3>2
      <4> HIDE DEF hits, misses
      <4>2. hits \in 0..Len(job.todo)
        BY <1>1, <3>3, <4>1
      <4> QED
        BY <3>3, <4>1, <4>2
    <3>5. ASSUME NEW i \in 1..hits
          PROVE  mem[job.todo[i]] # 0
      <4>1. i \in 1..Len(job.todo) /\ ~(Min(misses) <= i)
        BY <1>1, <3>2, <3>3, <3>4, SMTT(20)
      <4>2. i \notin misses
        BY <3>2, <4>1
      <4> QED
        BY <4>1, <4>2
    <3> QED
      BY <3>4, <3>5
  <2> QED
    BY <2>1, <2>2
<1>3. Settle(job, mem) = [job EXCEPT !.todo = SubSeq(@, hits + 1, Len(@)),
                                     !.vals = Overlay([k \in {job.todo[i] : i \in 1..hits} |-> mem[k]], @)]
  BY DEF Settle
<1> HIDE DEF hits
<1> QED
  BY <1>2, <1>3 DEF Jobs

\* What job is about: what it has and what it is to make.
About(job) == DOMAIN job.vals \cup Range(job.todo)

\* What a job is to make next is not cached.
Missed(job, mem) == job.todo # <<>> => mem[Head(job.todo)] = 0

\* Settle keeps a job in order, and stops at what is not cached.
LEMMA SettleSound ==
    ASSUME NEW job \in Jobs, NEW mem \in [Calls -> Nat], NEW values,
           Holding(mem, values), Sound(job, mem, values)
    PROVE  /\ Settle(job, mem) \in Jobs
           /\ Settle(job, mem).place = job.place
           /\ Sound(Settle(job, mem), mem, values)
           /\ Missed(Settle(job, mem), mem)
           /\ About(job) \subseteq About(Settle(job, mem))
<1> DEFINE r == Settle(job, mem)
           todo == job.todo
<1>1. PICK n \in 0..Len(todo) :
              /\ \A i \in 1..n : mem[todo[i]] # 0
              /\ n < Len(todo) => mem[todo[n + 1]] = 0
              /\ r = [place |-> job.place, todo |-> SubSeq(todo, n + 1, Len(todo)),
                       vals |-> Overlay([k \in {todo[i] : i \in 1..n} |-> mem[k]], job.vals)]
  BY SettleFacts
<1> DEFINE hits == {todo[i] : i \in 1..n}
<1>2. /\ todo \in Seq(Calls) /\ Len(todo) \in Nat /\ DOMAIN todo = 1..Len(todo)
      /\ \A i \in 1..Len(todo) : todo[i] \in Calls
      /\ n \in Nat /\ n <= Len(todo) /\ 1..n \subseteq 1..Len(todo)
  <2>1. todo \in Seq(Calls)
    BY DEF Jobs
  <2> QED
    BY <2>1, LenProperties, ElementOfSeq
<1>3. /\ r.todo \in Seq(Calls) /\ Len(r.todo) = Len(todo) - n /\ DOMAIN r.todo = 1..(Len(todo) - n)
      /\ \A i \in 1..(Len(todo) - n) : r.todo[i] = todo[n + i]
  <2>1. /\ SubSeq(todo, n + 1, Len(todo)) \in Seq(Calls)
        /\ Len(SubSeq(todo, n + 1, Len(todo))) =
              IF n + 1 <= Len(todo) THEN Len(todo) - (n + 1) + 1 ELSE 0
        /\ \A i \in 1..(Len(todo) - (n + 1) + 1) :
              SubSeq(todo, n + 1, Len(todo))[i] = todo[(n + 1) + i - 1]
    <3>1. n + 1 \in Int /\ Len(todo) \in Int /\ \A i \in (n + 1)..Len(todo) : todo[i] \in Calls
      BY <1>2
    <3> HIDE DEF todo
    <3> QED
      BY <3>1, SubSeqProperties
  <2>2. \A i \in 1..(Len(todo) - n) : (n + 1) + i - 1 = n + i
    BY <1>2
  <2>3. Len(todo) - (n + 1) + 1 = Len(todo) - n /\ (~(n + 1 <= Len(todo)) => Len(todo) - n = 0)
    BY <1>2
  <2>4. r.todo \in Seq(Calls) /\ Len(r.todo) = Len(todo) - n
    BY <1>1, <2>1, <2>3
  <2>5. \A i \in 1..(Len(todo) - n) : r.todo[i] = todo[n + i]
    BY <1>1, <2>1, <2>2, <2>3
  <2> QED
    BY <2>4, <2>5, LenProperties
<1>4. job.vals \in [DOMAIN job.vals -> Nat] /\ DOMAIN job.vals \subseteq Calls
  BY DEF Jobs
<1>5. hits \subseteq Calls /\ \A k \in hits : mem[k] # 0
  BY <1>1, <1>2
<1>6. /\ DOMAIN r.vals = hits \cup DOMAIN job.vals
      /\ Taken(r, mem, values)
  <2>1. r.vals = [k \in hits \cup DOMAIN job.vals |-> IF k \in hits THEN mem[k] ELSE job.vals[k]]
    BY <1>1 DEF Overlay
  <2> HIDE DEF hits, r
  <2>2. DOMAIN r.vals = hits \cup DOMAIN job.vals
    BY <2>1
  <2>3. ASSUME NEW k \in DOMAIN r.vals
        PROVE  r.vals[k] \in DOMAIN values /\ values[r.vals[k]].call = k /\ mem[k] # 0
    <3>1. CASE k \in hits
      BY <1>5, <2>1, <3>1 DEF Holding
    <3>2. CASE k \notin hits
      BY <2>1, <2>2, <2>3, <3>2 DEF Sound, Taken
    <3> QED
      BY <3>1, <3>2
  <2> QED
    BY <2>2, <2>3 DEF Taken
<1> HIDE DEF hits
<1>7. r.vals \in [DOMAIN r.vals -> Nat] /\ DOMAIN r.vals \in SUBSET Calls
  <2>1. r.vals = [k \in hits \cup DOMAIN job.vals |-> IF k \in hits THEN mem[k] ELSE job.vals[k]]
    BY <1>1 DEF hits, Overlay
  <2> QED
    BY <1>4, <1>5, <1>6, <2>1
<1>8. r \in Jobs
  <2>1. r.place \in Places \cup {"none"}
    BY <1>1 DEF Jobs
  <2>2. r = [place |-> r.place, todo |-> r.todo, vals |-> r.vals]
    BY <1>1
  <2> HIDE DEF r
  <2> QED
    BY <1>3, <1>7, <2>1, <2>2 DEF Jobs
<1> HIDE DEF r, todo
<1>9. Ordered(r)
  <2> SUFFICES ASSUME NEW i \in 1..(Len(todo) - n)
               PROVE  Range(Deps[r.todo[i]]) \subseteq DOMAIN r.vals \cup {r.todo[j] : j \in 1..(i - 1)}
    BY <1>3 DEF Ordered
  <2> SUFFICES ASSUME NEW d \in Range(Deps[r.todo[i]]), d \notin DOMAIN r.vals
               PROVE  \E j \in 1..(i - 1) : d = r.todo[j]
    OBVIOUS
  <2>1. n + i \in DOMAIN todo /\ r.todo[i] = todo[n + i]
    <3>1. n + i \in 1..Len(todo)
      BY <1>2
    <3> QED
      BY <1>2, <1>3, <3>1
  <2>2. d \in DOMAIN job.vals \cup {todo[j] : j \in 1..(n + i - 1)}
    BY <2>1 DEF Sound, Ordered, todo
  <2>3. PICK j \in 1..(n + i - 1) : d = todo[j]
    BY <1>6, <2>2
  <2>4. j \notin 1..n
    BY <1>6, <2>3 DEF hits
  <2>5. j - n \in 1..(i - 1) /\ j - n \in 1..(Len(todo) - n) /\ n + (j - n) = j
    BY <1>2, <2>4, SMTT(30)
  <2>6. r.todo[j - n] = todo[j]
    BY <1>3, <2>5
  <2> QED
    BY <2>3, <2>5, <2>6
<1>10. r.todo # <<>> => mem[Head(r.todo)] = 0
  <2> SUFFICES ASSUME r.todo # <<>>
               PROVE  mem[Head(r.todo)] = 0
    OBVIOUS
  <2>1. Len(r.todo) # 0
    BY <1>3, EmptySeq
  <2>2. n < Len(todo) /\ 1 \in 1..(Len(todo) - n)
    <3>1. Len(r.todo) = Len(todo) - n /\ n \in Nat /\ Len(todo) \in Nat /\ n <= Len(todo)
      BY <1>2, <1>3
    <3> QED
      BY <2>1, <3>1
  <2>3. Head(r.todo) = r.todo[1]
    BY <1>3
  <2>4. r.todo[1] = todo[n + 1]
    BY <1>3, <2>2
  <2> QED
    BY <1>1, <2>2, <2>3, <2>4
<1>11. About(job) \subseteq About(r)
  <2> SUFFICES ASSUME NEW i \in DOMAIN todo
               PROVE  todo[i] \in About(r)
    BY <1>6 DEF About, todo, Range
  <2>1. CASE i \in 1..n
    BY <1>6, <2>1 DEF About, hits
  <2>2. CASE i \notin 1..n
    <3>1. i - n \in DOMAIN r.todo /\ n + (i - n) = i
      <4>1. i \in 1..Len(todo)
        BY <1>2
      <4>2. i - n \in 1..(Len(todo) - n) /\ n + (i - n) = i
        BY <1>2, <2>2, <4>1
      <4> QED
        BY <1>3, <4>2
    <3>2. r.todo[i - n] = todo[i]
      BY <1>3, <3>1
    <3> QED
      BY <3>1, <3>2 DEF About, Range
  <2> QED
    BY <2>1, <2>2
<1>12. r.place = job.place
  BY <1>1
<1>13. Sound(r, mem, values) /\ Missed(r, mem)
  BY <1>6, <1>9, <1>10 DEF Sound, Missed
<1> QED
  BY <1>8, <1>11, <1>12, <1>13 DEF r

\* A sequence without elements.
LEMMA NoElements ==
    ASSUME NEW S, NEW s \in Seq(S), Range(s) = {}
    PROVE  s = <<>>
<1>1. DOMAIN s = {}
  BY DEF Range
<1>2. Len(s) \in Nat /\ DOMAIN s = 1..Len(s)
  BY LenProperties
<1>3. Len(s) = 0
  BY <1>1, <1>2
<1> QED
  BY <1>3, EmptySeq

\* A task that solves nothing.
LEMMA NoJobFacts ==
    /\ NoJob \in Jobs /\ NoJob.place = "none" /\ NoJob.todo = <<>>
    /\ \A mem, values : Sound(NoJob, mem, values)
<1>1. NoJob.vals \in [{} -> Nat] /\ DOMAIN NoJob.vals = {}
  BY DEF NoJob
<1>2. NoJob.todo = <<>> /\ NoJob.place = "none" /\ DOMAIN NoJob.todo = {}
  BY DEF NoJob
<1>3. NoJob.vals \in UNION {[D -> Nat] : D \in SUBSET Calls}
  BY <1>1
<1>4. NoJob.todo \in Seq(Calls)
  BY <1>2, EmptySeq
<1>5. NoJob \in Jobs
  BY <1>2, <1>3, <1>4 DEF NoJob, Jobs
<1>6. \A mem, values : Sound(NoJob, mem, values)
  BY <1>1, <1>2 DEF Sound, Taken, Ordered
<1> QED
  BY <1>2, <1>5, <1>6

\* What is in order has what it depends on in front of it.
LEMMA OrderedJob ==
    ASSUME NEW job, job.todo \in Seq(Calls), DependenciesFirst([c \in Calls |-> c], job.todo)
    PROVE  Ordered(job)
<1>1. \A i \in DOMAIN job.todo : job.todo[i] \in Calls
  BY ElementOfSeq, LenProperties
<1>2. \A i \in DOMAIN job.todo :
          Range(Deps[job.todo[i]]) \subseteq {job.todo[j] : j \in 1..(i - 1)}
  BY <1>1 DEF DependenciesFirst
<1> QED
  BY <1>2 DEF Ordered

\* A job begins with an order and nothing else.
LEMMA BeginFacts ==
    ASSUME Typed, Cached, NEW place \in Places, NEW order \in Seq(Calls),
           DependenciesFirst([c \in Calls |-> c], order)
    PROVE  /\ Begin(place, order) \in Jobs
           /\ Begin(place, order).place = place
           /\ Sound(Begin(place, order), cache, built) /\ Missed(Begin(place, order), cache)
           /\ Range(order) \subseteq About(Begin(place, order))
<1> DEFINE job == [place |-> place, todo |-> order, vals |-> NoJob.vals]
<1>1. NoJob.vals \in UNION {[D -> Nat] : D \in SUBSET Calls} /\ DOMAIN NoJob.vals = {}
  BY NoJobFacts DEF Jobs, NoJob
<1>2. job \in Jobs
  BY <1>1 DEF Jobs
<1>3. Taken(job, cache, built)
  BY <1>1 DEF Taken
<1>4. Ordered(job)
  <2>1. job.todo \in Seq(Calls) /\ DependenciesFirst([c \in Calls |-> c], job.todo)
    OBVIOUS
  <2> HIDE DEF job
  <2> QED
    BY <2>1, OrderedJob
<1>5. cache \in [Calls -> Nat] /\ caches[CacheOf(place)] = cache
  BY DEF Typed, cache, Caches, CacheOf
<1>6. Begin(place, order) = Settle(job, cache)
  BY <1>5 DEF Begin
<1>7. About(job) = Range(order) /\ job.place = place
  BY <1>1 DEF About
<1>8. Sound(job, cache, built) /\ Holding(cache, built)
  BY <1>3, <1>4 DEF Sound, Cached
<1> HIDE DEF job
<1> QED
  BY <1>2, <1>5, <1>6, <1>7, <1>8, SettleSound

-----------------------------------------------------------------------------
\* The invariant holds at first

\* What Init sets up satisfies the invariant.
LEMMA InitHolds == Init => IInv
<1> SUFFICES ASSUME Init
             PROVE  IInv
  OBVIOUS
<1> USE DEF Init
<1>1. Typed
  <2>1. app \in [Containers -> Seq(Mounts \cup Includes \cup Endpoints)]
    BY RequestLifecycleAssumption
  <2>2. dependant \in [Endpoints -> Seq(Calls)]
    BY RequestLifecycleAssumption
  <2>3. handler \in [Endpoints -> Seq(Calls)]
    BY RequestLifecycleAssumption, OrderFacts
  <2>4. caches \in [Caches -> [Calls -> Nat]]
    OBVIOUS
  <2>5. built \in Seq(Values) /\ stacks \in [Places -> Seq(Nat)]
    BY EmptySeq
  <2>6. jobs \in [Tasks -> Jobs]
    BY NoJobFacts
  <2> QED
    BY <2>1, <2>2, <2>3, <2>4, <2>5, <2>6 DEF Typed
<1>2. Handled
  <2>1. \A r \in Endpoints : /\ Range(handler[r]) = IterCalls(dependant[r])
                             /\ DependenciesFirst([c \in Calls |-> c], handler[r])
    BY RequestLifecycleAssumption, OrderFacts
  <2> QED
    BY <2>1 DEF Handled
<1>3. DOMAIN built = {}
  OBVIOUS
<1>4. \A t \in Tasks : ~Busy(t)
  BY DEF Busy
<1>5. Cached
  BY <1>3 DEF Cached, Holding, cache, Caches
<1>6. Alive
  BY <1>4, RequestLifecycleAssumption DEF Alive
<1>7. Solving
  BY NoJobFacts DEF Solving
<1>8. Stacked
  <2>1. \A p \in Places : stacks[p] = <<>> /\ DOMAIN stacks[p] = {} /\ Range(stacks[p]) = {}
    BY DEF Range
  <2> QED
    BY <1>3, <2>1 DEF Stacked, Increasing
<1>9. Phases
  BY <1>3 DEF Phases
<1>10. Single
  BY <1>3 DEF Single, OneInstance, Raced
<1> QED
  BY <1>1, <1>2, <1>5, <1>6, <1>7, <1>8, <1>9, <1>10 DEF IInv

-----------------------------------------------------------------------------
\* Steps of the way

\* What was made and cached stays in order when nothing is made and nothing torn down.
LEMMA NothingMade ==
    ASSUME IInv, UNCHANGED <<caches, built, stacks>>
    PROVE  Cached' /\ Stacked' /\ cache' = cache
<1>1. cache' = cache
  BY DEF cache
<1>2. Cached'
  BY <1>1 DEF IInv, Cached, Holding
<1>3. Stacked'
  BY DEF IInv, Stacked, IsUp
<1> QED
  BY <1>1, <1>2, <1>3

\* When no job changes, all go on in order.
LEMMA JobsGoOn ==
    ASSUME IInv, UNCHANGED <<caches, jobs, built>>
    PROVE  Solving' /\ Single'
<1>1. Solving'
  BY DEF IInv, Solving, Sound, Taken, Ordered, cache
<1>2. Single'
  BY DEF IInv, Single, OneInstance, Beside, Raced, Race, Building
<1> QED
  BY <1>1, <1>2

\* A task that is busy is Main, or runs in the context where it solves.
LEMMA BusyFacts ==
    ASSUME IInv, NEW t \in Tasks, Busy(t)
    PROVE  /\ jobs[t] \in Jobs /\ jobs[t].place \in Places
           /\ stage \notin {"setup", "over"}
           /\ jobs[t].place = "middleware" => t # Main \/ stage \in {"before", "after"}
           /\ jobs[t].place = "route" => t = Main /\ stage = "solving"
           /\ jobs[t].place = "bound" => stage = "endpoint"
           /\ t = Main => stage \in {"before", "solving", "endpoint", "after"}
           /\ t # Main => Running(t) /\ within[t] = jobs[t].place
<1>1. jobs[t] \in Jobs /\ jobs[t].place \in Places
  BY DEF IInv, Typed, Alive, Jobs
<1>2. CASE t = Main
  <2>1. jobs[t].place = PlaceIn(stage) /\ jobs[t].place # "none"
    BY <1>2 DEF IInv, Alive
  <2> QED
    BY <1>1, <1>2, <2>1 DEF IInv, Typed, PlaceIn
<1>3. CASE t # Main
  <2>1. within[t] = jobs[t].place
    BY <1>3 DEF IInv, Alive
  <2>2. within[t] \in {"middleware", "bound"}
    BY <1>1, <2>1 DEF IInv, Typed, Places
  <2> QED
    BY <1>1, <1>3, <2>1, <2>2 DEF IInv, Alive, Running
<1> QED
  BY <1>2, <1>3

\* Main can leave the stage: it solves nothing and no task of the endpoint is left, nor, at
\* the end, one of the middleware.
Leaving(next) ==
    /\ ~Busy(Main)
    /\ \A u \in Tasks : within[u] # "bound"
    /\ next = "over" => \A u \in Tasks : within[u] # "middleware"

\* A step of Main from one stage to the next.
LEMMA StageStep ==
    ASSUME IInv, stage' \in {"before", "closing", "after", "over"}, Leaving(stage'),
           UNCHANGED <<setup, within, jobs, caches>>
    PROVE  Handled' /\ Alive'
<1>1. stage' # "solving" /\ stage' # "endpoint"
  OBVIOUS
<1>2. Handled'
  BY <1>1 DEF IInv, Handled, setup
<1>3. Alive'
  <2>1. \A u \in Tasks : /\ within'[u] = "bound" => stage' = "endpoint"
                         /\ within'[u] = "middleware" => stage' \notin {"setup", "over"}
    BY DEF IInv, Alive, Leaving
  <2>2. ASSUME NEW t \in Tasks, Busy(t)'
        PROVE  jobs'[t].place # "none" /\ jobs'[t].place = IF t = Main THEN PlaceIn(stage') ELSE within'[t]
    <3>1. Busy(t) /\ t # Main
      BY <2>2 DEF Leaving, Busy
    <3> QED
      BY <3>1 DEF IInv, Alive
  <2>3. \A t, u \in Tasks : Busy(t)' /\ Busy(u)' /\ jobs'[t].place = jobs'[u].place => t = u
    BY DEF IInv, Alive, Busy
  <2>4. within'[Main] = "none"
    BY DEF IInv, Alive
  <2> QED
    BY <1>1, <2>1, <2>2, <2>3, <2>4 DEF Alive
<1> QED
  BY <1>2, <1>3

\* When Main is free, and when the endpoint has no tasks.
LEMMA FreeFacts ==
    ASSUME IInv
    PROVE  /\ stage \in {"setup", "closing", "over"} => ~Busy(Main)
           /\ stage # "endpoint" => \A u \in Tasks : within[u] # "bound"
<1>1. stage # "endpoint" => \A u \in Tasks : within[u] # "bound"
  BY DEF IInv, Alive
<1>2. stage \in {"setup", "closing", "over"} => ~Busy(Main)
  BY RequestLifecycleAssumption, BusyFacts
<1> QED
  BY <1>1, <1>2

\* add_route_dependency() keeps the handler in line with what reflection reports.
LEMMA AddRouteDependencyKeeps ==
    ASSUME IInv, NEW r \in Endpoints, AddRouteDependency(r)
    PROVE  IInv'
<1> USE DEF AddRouteDependency
<1>1. dependant[r] \in Seq(Calls) /\ Guard \in Calls
  BY RequestLifecycleAssumption DEF IInv, Typed
<1>2. <<Guard>> \o dependant[r] \in Seq(Calls)
  BY <1>1
<1>3. /\ dependant' \in [Endpoints -> Seq(Calls)]
      /\ dependant'[r] = <<Guard>> \o dependant[r]
      /\ \A q \in Endpoints : q # r => dependant'[q] = dependant[q]
  BY <1>2 DEF IInv, Typed
<1>4. /\ handler' \in [Endpoints -> Seq(Calls)]
      /\ handler'[r] = Order(dependant'[r])
      /\ \A q \in Endpoints : q # r => handler'[q] = handler[q]
  BY <1>3, OrderFacts DEF IInv, Typed
<1>5. Typed'
  BY <1>3, <1>4 DEF IInv, Typed, connection
<1>6. Handled'
  <2>1. ASSUME NEW q \in Endpoints
        PROVE  /\ Range(handler'[q]) = IterCalls(dependant'[q])
               /\ DependenciesFirst([c \in Calls |-> c], handler'[q])
    <3>1. CASE q = r
      BY <1>3, <1>4, <3>1, OrderFacts
    <3>2. CASE q # r
      BY <1>3, <1>4, <3>2 DEF IInv, Handled
    <3> QED
      BY <3>1, <3>2
  <2>2. stage' = "setup"
    BY DEF SettingUp, connection
  <2> QED
    BY <2>1, <2>2 DEF Handled
<1>7. Cached' /\ Stacked'
  BY NothingMade DEF connection
<1>8. Alive' /\ Phases'
  BY DEF IInv, Alive, Phases, Busy, IsUp, connection
<1>9. Solving' /\ Single'
  BY JobsGoOn DEF connection
<1> QED
  BY <1>5, <1>6, <1>7, <1>8, <1>9 DEF IInv

\* The middleware's context is opened before anything is made.
LEMMA ConnectKeeps ==
    ASSUME IInv, Connect
    PROVE  IInv'
<1> USE DEF Connect
<1>1. Leaving(stage')
  BY FreeFacts DEF SettingUp, Leaving
<1>2. Handled' /\ Alive'
  BY <1>1, StageStep
<1>3. Cached' /\ Stacked' /\ Solving' /\ Single'
  BY NothingMade, JobsGoOn
<1>4. Typed'
  BY DEF IInv, Typed, setup
<1>5. Phases'
  <2>1. built = <<>> /\ DOMAIN built = {} /\ built' = built /\ stage' = "before"
    BY DEF IInv, Phases, SettingUp
  <2> QED
    BY <2>1 DEF Phases
<1> QED
  BY <1>2, <1>3, <1>4, <1>5 DEF IInv

\* A task is in the context of the code that starts it.
LEMMA SpawnKeeps ==
    ASSUME IInv, NEW u \in Tasks, Spawn(u)
    PROVE  IInv'
<1> USE DEF Spawn
<1>1. /\ Ctx(Main) \in {"middleware", "bound"}
      /\ Ctx(Main) = "bound" => stage = "endpoint"
      /\ Ctx(Main) = "middleware" => stage \notin {"setup", "over"}
  BY DEF Ctx, IInv, Typed
<1>2. within' = [within EXCEPT ![u] = Ctx(Main)] /\ u # Main /\ within[u] = "none"
  OBVIOUS
<1>3. Typed'
  BY <1>1, <1>2 DEF IInv, Typed, setup
<1>4. Handled'
  BY DEF IInv, Handled, setup, cache
<1>5. Cached' /\ Stacked' /\ Solving' /\ Single'
  BY NothingMade, JobsGoOn
<1>6. Alive'
  <2>1. within'[Main] = "none"
    BY <1>2 DEF IInv, Alive, Typed
  <2>2. ASSUME NEW v \in Tasks
        PROVE  /\ within'[v] = "bound" => stage' = "endpoint"
               /\ within'[v] = "middleware" => stage' \notin {"setup", "over"}
    BY <1>1, <1>2 DEF IInv, Alive, Typed
  <2>3. ASSUME NEW t \in Tasks, Busy(t)'
        PROVE  /\ jobs'[t].place # "none"
               /\ jobs'[t].place = IF t = Main THEN PlaceIn(stage') ELSE within'[t]
    <3>1. Busy(t) /\ jobs'[t].place = jobs[t].place
      BY <2>3 DEF Busy
    <3>2. t # Main => within[t] = jobs[t].place /\ jobs[t].place # "none"
      BY <3>1 DEF IInv, Alive
    <3>3. t # Main => within'[t] = within[t]
      BY <1>2, <3>2 DEF IInv, Typed
    <3> QED
      BY <3>1, <3>2, <3>3 DEF IInv, Alive
  <2>4. \A t, v \in Tasks : Busy(t)' /\ Busy(v)' /\ jobs'[t].place = jobs'[v].place => t = v
    BY DEF IInv, Alive, Busy
  <2>5. stage' = "solving" => Busy(Main)'
    BY DEF IInv, Alive, Busy
  <2> QED
    BY <2>1, <2>2, <2>3, <2>4, <2>5 DEF Alive
<1>7. Phases'
  BY DEF IInv, Phases, IsUp
<1> QED
  BY <1>3, <1>4, <1>5, <1>6, <1>7 DEF IInv

\* A task that has ended solves nothing.
LEMMA JoinKeeps ==
    ASSUME IInv, NEW u \in Tasks, Join(u)
    PROVE  IInv'
<1> USE DEF Join
<1>1. within' = [within EXCEPT ![u] = "done"] /\ u # Main
  BY DEF IInv, Alive, Running
<1>2. Typed'
  BY <1>1 DEF IInv, Typed, setup
<1>3. Handled'
  BY DEF IInv, Handled, setup, cache
<1>4. Cached' /\ Stacked' /\ Solving' /\ Single'
  BY NothingMade, JobsGoOn
<1>5. Alive'
  <2>1. within'[Main] = "none"
    BY <1>1 DEF IInv, Alive, Typed
  <2>2. ASSUME NEW v \in Tasks
        PROVE  /\ within'[v] = "bound" => stage' = "endpoint"
               /\ within'[v] = "middleware" => stage' \notin {"setup", "over"}
    BY <1>1 DEF IInv, Alive, Typed
  <2>3. ASSUME NEW t \in Tasks, Busy(t)'
        PROVE  /\ jobs'[t].place # "none"
               /\ jobs'[t].place = IF t = Main THEN PlaceIn(stage') ELSE within'[t]
    <3>1. Busy(t) /\ t # u /\ jobs'[t].place = jobs[t].place
      BY <2>3 DEF Busy
    <3>2. within'[t] = within[t]
      BY <1>1, <3>1 DEF IInv, Typed
    <3> QED
      BY <3>1, <3>2 DEF IInv, Alive
  <2>4. \A t, v \in Tasks : Busy(t)' /\ Busy(v)' /\ jobs'[t].place = jobs'[v].place => t = v
    BY DEF IInv, Alive, Busy
  <2>5. stage' = "solving" => Busy(Main)'
    BY DEF IInv, Alive, Busy
  <2> QED
    BY <2>1, <2>2, <2>3, <2>4, <2>5 DEF Alive
<1>6. Phases'
  BY DEF IInv, Phases, IsUp
<1> QED
  BY <1>2, <1>3, <1>4, <1>5, <1>6 DEF IInv

-----------------------------------------------------------------------------
\* Steps of a resolution

\* A task that solves nothing begins to.
LEMMA JobBegins ==
    ASSUME IInv, NEW t \in Tasks, NEW place \in Places, NEW order \in Seq(Calls),
           DependenciesFirst([c \in Calls |-> c], order),
           jobs' = [jobs EXCEPT ![t] = Begin(place, order)],
           UNCHANGED <<caches, built, stacks>>
    PROVE  /\ jobs' \in [Tasks -> Jobs] /\ \A u \in Tasks : u # t => jobs'[u] = jobs[u]
           /\ jobs'[t].place = place /\ Busy(t)'
           /\ Range(order) \subseteq About(jobs'[t])
           /\ Cached' /\ Stacked' /\ cache' = cache /\ Solving' /\ Single'
<1> DEFINE job == Begin(place, order)
<1>1. /\ job \in Jobs /\ job.place = place /\ Sound(job, cache, built) /\ Missed(job, cache)
      /\ Range(order) \subseteq About(job)
  BY BeginFacts DEF IInv
<1>2. jobs' = [jobs EXCEPT ![t] = job]
  OBVIOUS
<1> HIDE DEF job
<1>3. /\ jobs' \in [Tasks -> Jobs] /\ jobs'[t] = job
      /\ \A u \in Tasks : u # t => jobs'[u] = jobs[u]
  BY <1>1, <1>2 DEF IInv, Typed
<1>4. Cached' /\ Stacked' /\ cache' = cache
  BY NothingMade
<1>5. Busy(t)'
  BY <1>1, <1>3, NoJobFacts DEF Busy, Places
<1>6. Solving'
  <2> SUFFICES ASSUME NEW u \in Tasks
               PROVE  Sound(jobs'[u], cache, built)
    BY <1>4 DEF Solving
  <2> QED
    BY <1>1, <1>3 DEF IInv, Solving
<1>7. Single'
  <2>1. ASSUME NEW u \in Tasks
        PROVE  Raced(u)'
    <3>1. CASE u = t
      <4> SUFFICES ASSUME job.todo # <<>>, NEW i \in DOMAIN built, built[i].call = Head(job.todo)
                   PROVE  FALSE
        BY <1>3, <3>1 DEF Raced, Building
      <4>1. cache[Head(job.todo)] = 0
        BY <1>1 DEF Missed
      <4> QED
        BY <4>1 DEF IInv, Cached
    <3>2. CASE u # t
      <4>1. Raced(u) /\ jobs'[u] = jobs[u]
        BY <1>3, <3>2 DEF IInv, Single
      <4> QED
        BY <4>1 DEF Raced, Building
    <3> QED
      BY <3>1, <3>2
  <2>2. OneInstance'
    BY DEF IInv, Single, OneInstance, Beside
  <2> QED
    BY <2>1, <2>2 DEF Single
<1> QED
  BY <1>1, <1>3, <1>4, <1>5, <1>6, <1>7

\* The context of a task that may resolve is the one where it is.
LEMMA CtxFacts ==
    ASSUME IInv, NEW t \in Tasks, Ctx(t) # "none"
    PROVE  /\ Ctx(t) \in Places /\ Ctx(t) = IF t = Main THEN PlaceIn(stage) ELSE within[t]
           /\ stage # "setup" /\ stage # "over"
           /\ t = Main => stage \in {"before", "after", "endpoint"}
           /\ Ctx(t) = "bound" => stage = "endpoint"
           /\ Ctx(t) # "route"
<1>1. CASE t = Main
  BY <1>1 DEF IInv, Typed, Ctx, PlaceIn, Places
<1>2. CASE t # Main
  <2>1. within[t] \in {"middleware", "bound"} /\ Ctx(t) = within[t]
    BY <1>2 DEF IInv, Typed, Ctx
  <2> QED
    BY <1>2, <2>1 DEF IInv, Alive, Places
<1> QED
  BY <1>1, <1>2

\* Who resolves by hand is the only one that does there.
LEMMA ResolveKeeps ==
    ASSUME IInv, NEW t \in Tasks, NEW root \in Roots, Resolve(t, root)
    PROVE  IInv'
<1> USE DEF Resolve
<1> DEFINE order == Order(<<root>>)
<1>1. /\ Ctx(t) \in Places /\ Ctx(t) = IF t = Main THEN PlaceIn(stage) ELSE within[t]
      /\ t = Main => stage \in {"before", "after", "endpoint"}
  BY CtxFacts
<1>2. order \in Seq(Calls) /\ DependenciesFirst([c \in Calls |-> c], order)
  <2>1. <<root>> \in Seq(Calls)
    BY RequestLifecycleAssumption
  <2> QED
    BY <2>1, OrderFacts
<1>3. jobs' = [jobs EXCEPT ![t] = Begin(Ctx(t), order)]
  OBVIOUS
<1> HIDE DEF order
<1>4. /\ jobs' \in [Tasks -> Jobs] /\ \A u \in Tasks : u # t => jobs'[u] = jobs[u]
      /\ jobs'[t].place = Ctx(t) /\ Busy(t)'
      /\ Cached' /\ Stacked' /\ cache' = cache /\ Solving' /\ Single'
  BY <1>1, <1>2, <1>3, JobBegins
<1>5. Typed'
  BY <1>4 DEF IInv, Typed, setup
<1>6. Handled'
  <2>1. stage = "solving" => t # Main
    BY <1>1
  <2> QED
    BY <1>4, <2>1, RequestLifecycleAssumption DEF IInv, Handled, setup
<1>7. Alive'
  <2>1. ASSUME NEW u \in Tasks, Busy(u)'
        PROVE  /\ jobs'[u].place # "none"
               /\ jobs'[u].place = IF u = Main THEN PlaceIn(stage') ELSE within'[u]
    <3>1. CASE u = t
      BY <1>1, <1>4, <3>1
    <3>2. CASE u # t
      BY <1>4, <2>1, <3>2 DEF IInv, Alive, Busy
    <3> QED
      BY <3>1, <3>2
  <2>2. ASSUME NEW u \in Tasks, NEW v \in Tasks, Busy(u)', Busy(v)', jobs'[u].place = jobs'[v].place
        PROVE  u = v
    BY <1>4, <2>2 DEF IInv, Alive, Busy
  <2>3. stage' = "solving" => Busy(Main)'
    BY <1>4, RequestLifecycleAssumption DEF IInv, Alive, Busy
  <2> QED
    BY <2>1, <2>2, <2>3 DEF IInv, Alive
<1>8. Phases'
  BY DEF IInv, Phases, IsUp
<1> QED
  BY <1>4, <1>5, <1>6, <1>7, <1>8 DEF IInv

\* The route is entered with everything that its handler is to solve; tasks of the middleware
\* go on beside it.
LEMMA CallAppKeeps ==
    ASSUME IInv, CallApp
    PROVE  IInv'
<1> USE DEF CallApp
<1>1. \A u \in Tasks : within[u] # "bound"
  BY FreeFacts
<1>2. CASE ~Routed
  <2>1. stage' = "after" /\ jobs' = jobs
    BY <1>2
  <2>2. Handled' /\ Alive'
    BY <1>1, <2>1, StageStep DEF Leaving
  <2>3. Cached' /\ Stacked' /\ Solving' /\ Single'
    BY <2>1, NothingMade, JobsGoOn
  <2>4. Typed'
    BY <2>1 DEF IInv, Typed, setup
  <2>5. Phases'
    <3>1. \A i \in DOMAIN built : built[i].place = "middleware"
      BY DEF IInv, Phases
    <3>2. ASSUME NEW p \in {"route", "bound"}
          PROVE  stacks[p] = <<>>
      <4>1. p \in Places /\ p # "middleware"
        BY DEF Places
      <4>2. Range(stacks[p]) = {}
        BY <3>1, <4>1 DEF IInv, Stacked
      <4>3. stacks[p] \in Seq(Nat)
        BY <4>1 DEF IInv, Typed
      <4> QED
        BY <4>2, <4>3, NoElements
    <3> QED
      BY <2>1, <3>1, <3>2 DEF IInv, Phases, IsUp
  <2> QED
    BY <2>2, <2>3, <2>4, <2>5 DEF IInv
<1>3. CASE Routed
  <2>1. /\ dispatched \in Endpoints /\ request.method \in Methods[dispatched]
        /\ handler[dispatched] \in Seq(Calls)
        /\ DependenciesFirst([c \in Calls |-> c], handler[dispatched])
    BY <1>3 DEF Routed, IInv, Typed, Handled
  <2>2. "route" \in Places /\ Main \in Tasks
    BY RequestLifecycleAssumption DEF Places
  <2>3. jobs' = [jobs EXCEPT ![Main] = Begin("route", handler[dispatched])] /\ stage' = "solving"
    BY <1>3
  <2>4. /\ jobs' \in [Tasks -> Jobs] /\ \A u \in Tasks : u # Main => jobs'[u] = jobs[u]
        /\ jobs'[Main].place = "route" /\ Busy(Main)'
        /\ Range(handler[dispatched]) \subseteq About(jobs'[Main])
        /\ Cached' /\ Stacked' /\ cache' = cache /\ Solving' /\ Single'
    BY <2>1, <2>2, <2>3, JobBegins
  <2>5. Typed'
    BY <2>3, <2>4 DEF IInv, Typed, setup
  <2>6. Handled'
    BY <2>1, <2>3, <2>4 DEF IInv, Handled, setup, About
  <2>7. Alive'
    <3>1. \A u \in Tasks : u # Main /\ Busy(u)' => Busy(u) /\ jobs'[u].place = jobs[u].place
      BY <2>4 DEF Busy
    <3>2. \A u \in Tasks : u # Main /\ Busy(u) => jobs[u].place # "route"
      BY BusyFacts
    <3>3. PlaceIn(stage') = "route"
      BY <2>3 DEF PlaceIn
    <3>4. ASSUME NEW u \in Tasks, Busy(u)'
          PROVE  /\ jobs'[u].place # "none"
                 /\ jobs'[u].place = IF u = Main THEN PlaceIn(stage') ELSE within'[u]
      BY <2>4, <3>1, <3>3, <3>4 DEF IInv, Alive
    <3>5. ASSUME NEW u \in Tasks, NEW v \in Tasks, Busy(u)', Busy(v)',
                 jobs'[u].place = jobs'[v].place
          PROVE  u = v
      BY <2>4, <3>1, <3>2, <3>5 DEF IInv, Alive
    <3> QED
      BY <1>1, <2>3, <2>4, <3>4, <3>5 DEF IInv, Alive
  <2>8. Phases'
    BY <2>3 DEF IInv, Phases, IsUp
  <2> QED
    BY <2>4, <2>5, <2>6, <2>7, <2>8 DEF IInv
<1> QED
  BY <1>2, <1>3

\* A task stops solving; if it was the route, the endpoint or the teardown is next.
LEMMA JobEnds ==
    ASSUME IInv, NEW t \in Tasks, Busy(t), UNCHANGED <<setup, within, caches, built, stacks>>,
           jobs' = [jobs EXCEPT ![t] = NoJob],
           NEW next \in {"endpoint", "closing"},
           next = "endpoint" => ~Building(t),
           stage' = IF jobs[t].place = "route" THEN next ELSE stage
    PROVE  IInv'
<1>1. jobs \in [Tasks -> Jobs] /\ jobs' \in [Tasks -> Jobs]
  BY NoJobFacts DEF IInv, Typed
<1>2. jobs'[t] = NoJob /\ \A u \in Tasks : u # t => jobs'[u] = jobs[u]
  BY <1>1
<1>3. \A u \in Tasks : Busy(u)' => u # t /\ Busy(u) /\ jobs'[u] = jobs[u]
  BY <1>2 DEF Busy
<1>4. /\ jobs[t].place = "route" => t = Main /\ stage = "solving"
      /\ stage = "solving" /\ t = Main => jobs[t].place = "route"
  <2>1. stage = "solving" => PlaceIn(stage) = "route"
    BY DEF PlaceIn
  <2> QED
    BY <2>1, BusyFacts DEF IInv, Alive
<1>5. stage' = "solving" => t # Main
  BY <1>4
<1>6. Typed'
  BY <1>1, <1>4 DEF IInv, Typed, setup
<1>7. Handled'
  <2>1. ASSUME stage' = "endpoint", stage = "solving"
        PROVE  /\ dispatched' \in Endpoints /\ request'.method \in Methods[dispatched']
               /\ \A k \in Range(handler'[dispatched']) : cache'[k] # 0
    <3>1. ~Building(t) /\ t = Main
      BY <1>4, <2>1
    <3>2. Range(handler[dispatched]) \subseteq DOMAIN jobs[t].vals
      <4>1. Range(jobs[t].todo) = {}
        BY <3>1 DEF Building, Range
      <4> QED
        BY <2>1, <3>1, <4>1 DEF IInv, Handled
    <3>3. \A k \in DOMAIN jobs[t].vals : cache[k] # 0
      BY DEF IInv, Solving, Sound, Taken
    <3> QED
      BY <2>1, <3>2, <3>3 DEF IInv, Handled, setup, cache
  <2>2. ASSUME stage' = "endpoint", stage # "solving"
        PROVE  /\ dispatched' \in Endpoints /\ request'.method \in Methods[dispatched']
               /\ \A k \in Range(handler'[dispatched']) : cache'[k] # 0
    BY <1>4, <2>2 DEF IInv, Handled, setup, cache
  <2>3. ASSUME stage' = "solving"
        PROVE  /\ dispatched' \in Endpoints /\ request'.method \in Methods[dispatched']
               /\ Range(handler'[dispatched']) \subseteq DOMAIN jobs'[Main].vals \cup Range(jobs'[Main].todo)
    <3>1. stage = "solving" /\ jobs'[Main] = jobs[Main]
      BY <1>2, <1>5, <2>3, RequestLifecycleAssumption
    <3> QED
      BY <3>1 DEF IInv, Handled, setup
  <2> QED
    BY <2>1, <2>2, <2>3 DEF IInv, Handled, setup
<1>8. Cached' /\ Stacked' /\ cache' = cache
  BY NothingMade
<1>9. Alive'
  <2>1. ASSUME NEW u \in Tasks
        PROVE  /\ within'[u] = "bound" => stage' = "endpoint"
               /\ within'[u] = "middleware" => stage' \notin {"setup", "over"}
    BY <1>4 DEF IInv, Alive
  <2>2. ASSUME NEW u \in Tasks, Busy(u)'
        PROVE  /\ jobs'[u].place # "none"
               /\ jobs'[u].place = IF u = Main THEN PlaceIn(stage') ELSE within'[u]
    <3>1. Busy(u) /\ u # t /\ jobs'[u] = jobs[u]
      BY <1>3, <2>2
    <3>2. u = Main => stage' = stage
      BY <1>4, <3>1
    <3> QED
      BY <3>1, <3>2 DEF IInv, Alive
  <2>3. \A u, v \in Tasks : Busy(u)' /\ Busy(v)' /\ jobs'[u].place = jobs'[v].place => u = v
    BY <1>3 DEF IInv, Alive
  <2>4. stage' = "solving" => Busy(Main)'
    BY <1>2, <1>5, RequestLifecycleAssumption DEF IInv, Alive, Busy
  <2> QED
    BY <2>1, <2>2, <2>3, <2>4 DEF IInv, Alive
<1>10. Solving'
  <2> SUFFICES ASSUME NEW u \in Tasks
               PROVE  Sound(jobs'[u], cache, built)
    BY <1>8 DEF Solving
  <2> QED
    BY <1>2, NoJobFacts DEF IInv, Solving
<1>11. Single'
  <2>1. ASSUME NEW u \in Tasks
        PROVE  Raced(u)'
    <3>1. CASE u = t
      BY <1>2, <3>1, NoJobFacts DEF Raced, Building
    <3>2. CASE u # t
      BY <1>2, <3>2 DEF IInv, Single, Raced, Building
    <3> QED
      BY <3>1, <3>2
  <2>2. OneInstance'
    BY DEF IInv, Single, OneInstance, Beside
  <2> QED
    BY <2>1, <2>2 DEF Single
<1>12. Phases'
  <2>1. stage' = stage \/ (stage = "solving" /\ stage' \in {"endpoint", "closing"})
    BY <1>4
  <2> QED
    BY <2>1 DEF IInv, Phases, IsUp
<1> QED
  BY <1>6, <1>7, <1>8, <1>9, <1>10, <1>11, <1>12 DEF IInv

\* A resolution that has everything ends.
LEMMA ReturnKeeps ==
    ASSUME IInv, NEW t \in Tasks, Return(t)
    PROVE  IInv'
BY JobEnds DEF Return

\* A resolution fails, whatever it has made stays.
LEMMA FailKeeps ==
    ASSUME IInv, NEW t \in Tasks, Fail(t)
    PROVE  IInv'
<1>1. Busy(t)
  BY NoJobFacts DEF Fail, Building, Busy
<1> QED
  BY <1>1, JobEnds DEF Fail

\* A value is made: what it is made from is there, and its call has a value from now on.
LEMMA BuildFacts ==
    ASSUME IInv, NEW t \in Tasks, Build(t)
    PROVE  LET job == jobs[t]
               k == Head(job.todo)
               new == Len(built) + 1
               gens == (IF k \in Generators THEN {new} ELSE {})
                       \cup UNION {built[job.vals[d]].gens : d \in Range(Deps[k])}
           IN  /\ k \in Calls /\ job.place \in Places /\ Busy(t)
               /\ new \in Nat /\ new # 0 /\ new \notin DOMAIN built
               /\ DOMAIN built' = DOMAIN built \cup {new}
               /\ \A i \in DOMAIN built : i \in Nat /\ i < new
               /\ built' \in Seq(Values)
               /\ built'[new].call = k /\ built'[new].place = job.place /\ built'[new].by = t
               /\ built'[new].gens = gens /\ built'[new].up = TRUE
               /\ \A i \in DOMAIN built : built'[i] = built[i]
               /\ caches' \in [Caches -> [Calls -> Nat]]
               /\ cache'[k] = IF cache[k] = 0 THEN new ELSE cache[k]
               /\ \A c \in Calls : c # k => cache'[c] = cache[c]
               /\ \A p \in Places : caches'[p] = caches[p]
               /\ gens \in SUBSET Nat
               /\ \A g \in gens :
                     \/ k \in Generators /\ g = new
                     \/ g \in DOMAIN built /\ built[g].call \in Generators
<1> DEFINE job == jobs[t]
           k == Head(job.todo)
           new == Len(built) + 1
           gens == (IF k \in Generators THEN {new} ELSE {})
                   \cup UNION {built[job.vals[d]].gens : d \in Range(Deps[k])}
           value == [call |-> k, place |-> job.place, by |-> t, gens |-> gens, up |-> TRUE]
<1>1. job \in Jobs /\ job.todo # <<>> /\ Sound(job, cache, built)
  BY DEF Build, Building, IInv, Typed, Solving
<1>2. k \in Calls /\ k = job.todo[1] /\ 1 \in DOMAIN job.todo
  <2>1. job.todo \in Seq(Calls)
    BY <1>1 DEF Jobs
  <2>2. Len(job.todo) \in Nat /\ Len(job.todo) # 0
    BY <1>1, <2>1, EmptySeq
  <2>3. 1 \in 1..Len(job.todo)
    BY <2>2
  <2> QED
    BY <2>1, <2>3, ElementOfSeq, LenProperties
<1>3. Busy(t) /\ job.place \in Places
  <2>1. Busy(t)
    BY <1>1, NoJobFacts DEF Busy
  <2>2. job.place # "none"
    BY <2>1 DEF IInv, Alive
  <2> QED
    BY <1>1, <2>1, <2>2 DEF Jobs
<1>4. /\ built \in Seq(Values) /\ Len(built) \in Nat /\ DOMAIN built = 1..Len(built)
      /\ \A i \in DOMAIN built : built[i] \in Values
  BY LenProperties, ElementOfSeq DEF IInv, Typed
<1>5. /\ new \in Nat /\ new # 0 /\ new \notin DOMAIN built
      /\ \A i \in DOMAIN built : i \in Nat /\ i < new
  BY <1>4
<1>6. \A d \in Range(Deps[k]) : job.vals[d] \in DOMAIN built
  <2>1. {job.todo[j] : j \in 1..(1 - 1)} = {}
    OBVIOUS
  <2>2. Range(Deps[k]) \subseteq DOMAIN job.vals
    BY <1>1, <1>2, <2>1 DEF Sound, Ordered
  <2> QED
    BY <1>1, <2>2 DEF Sound, Taken
<1>7. \A g \in gens : \/ k \in Generators /\ g = new
                      \/ g \in DOMAIN built /\ built[g].call \in Generators
  <2>1. \A d \in Range(Deps[k]) : \A g \in built[job.vals[d]].gens :
            g \in 1..job.vals[d] /\ built[g].call \in Generators
    BY <1>6 DEF IInv, Stacked
  <2>2. \A d \in Range(Deps[k]) : \A g \in built[job.vals[d]].gens : g \in DOMAIN built
    <3> SUFFICES ASSUME NEW d \in Range(Deps[k]), NEW g \in built[job.vals[d]].gens
                 PROVE  g \in DOMAIN built
      OBVIOUS
    <3>1. job.vals[d] \in DOMAIN built /\ g \in 1..job.vals[d]
      BY <1>6, <2>1
    <3> HIDE DEF job
    <3> QED
      BY <1>4, <3>1
  <2> DEFINE own == IF k \in Generators THEN {new} ELSE {}
             below == UNION {built[job.vals[d]].gens : d \in Range(Deps[k])}
  <2>3. gens = own \cup below
    OBVIOUS
  <2>4. \A g \in own : k \in Generators /\ g = new
    OBVIOUS
  <2>5. \A g \in below : g \in DOMAIN built /\ built[g].call \in Generators
    BY <2>1, <2>2
  <2> HIDE DEF own, below, gens, job, k, new
  <2> QED
    BY <2>3, <2>4, <2>5
<1>8. gens \in SUBSET Nat
  BY <1>5, <1>7
<1>9. built' = Append(built, value)
  BY DEF Build
<1>10. value \in Values
  <2> HIDE DEF gens, job, k
  <2> QED
    BY <1>2, <1>3, <1>8 DEF Values
<1> HIDE DEF gens, value
<1>11. /\ built' \in Seq(Values) /\ DOMAIN built' = DOMAIN built \cup {new}
       /\ built'[new] = value /\ \A i \in DOMAIN built : built'[i] = built[i]
  <2>1. built' \in Seq(Values) /\ Len(built') = new
    BY <1>4, <1>9, <1>10
  <2>2. DOMAIN built' = 1..new
    BY <2>1, LenProperties
  <2>3. built'[new] = value /\ \A i \in 1..Len(built) : built'[i] = built[i]
    BY <1>4, <1>9, <1>10
  <2> QED
    BY <1>4, <2>1, <2>2, <2>3
<1>12. caches' = IF caches["connection"][k] = 0
                 THEN [caches EXCEPT !["connection"][k] = new] ELSE caches
  BY DEF Build, CacheOf
<1>13. caches \in [Caches -> [Calls -> Nat]] /\ "connection" \in Caches /\ "connection" \notin Places
       /\ Places \subseteq Caches
  BY DEF IInv, Typed, Caches, Places
<1> HIDE DEF new, k
<1>14. /\ caches' \in [Caches -> [Calls -> Nat]]
       /\ cache'[k] = IF cache[k] = 0 THEN new ELSE cache[k]
       /\ \A c \in Calls : c # k => cache'[c] = cache[c]
       /\ \A p \in Places : caches'[p] = caches[p]
  BY <1>2, <1>5, <1>12, <1>13 DEF cache
<1>15. /\ built'[new].call = k /\ built'[new].place = job.place /\ built'[new].by = t
       /\ built'[new].gens = gens /\ built'[new].up = TRUE
  BY <1>11 DEF value
<1> QED
  BY <1>2, <1>3, <1>5, <1>7, <1>8, <1>11, <1>14, <1>15, ZenonT(30) DEF gens, new, k

\* Caches keep to what was made.
LEMMA BuildCached ==
    ASSUME IInv, NEW t \in Tasks, Build(t)
    PROVE  Cached'
<1> DEFINE k == Head(jobs[t].todo)
           new == Len(built) + 1
<1>1. /\ k \in Calls /\ new # 0 /\ new \notin DOMAIN built
      /\ DOMAIN built' = DOMAIN built \cup {new}
      /\ built' \in Seq(Values) /\ built'[new].call = k
      /\ \A i \in DOMAIN built : built'[i] = built[i]
  BY BuildFacts
<1>2. /\ cache'[k] = IF cache[k] = 0 THEN new ELSE cache[k]
      /\ \A c \in Calls : c # k => cache'[c] = cache[c]
      /\ \A p \in Places : caches'[p] = caches[p]
  BY BuildFacts
<1> HIDE DEF k, new
<1>3. Holding(cache', built')
  <2> SUFFICES ASSUME NEW c \in Calls, cache'[c] # 0
               PROVE  cache'[c] \in DOMAIN built' /\ built'[cache'[c]].call = c
    BY DEF Holding
  <2>1. CASE cache'[c] = cache[c]
    <3>1. cache[c] \in DOMAIN built /\ built[cache[c]].call = c
      BY <2>1 DEF IInv, Cached, Holding
    <3> QED
      BY <1>1, <2>1, <3>1
  <2>2. CASE cache'[c] # cache[c]
    BY <1>1, <1>2, <2>2
  <2> QED
    BY <2>1, <2>2
<1>4. ASSUME NEW i \in DOMAIN built'
      PROVE  cache'[built'[i].call] # 0
  <2>1. CASE i = new
    BY <1>1, <1>2, <2>1
  <2>2. CASE i # new
    <3>1. i \in DOMAIN built /\ built'[i] = built[i]
      BY <1>1, <2>2
    <3>2. cache[built[i].call] # 0 /\ built[i].call \in Calls
      <4>1. built[i] \in Values
        BY <3>1, ElementOfSeq, LenProperties DEF IInv, Typed
      <4> QED
        BY <3>1, <4>1 DEF IInv, Cached, Values
    <3> QED
      BY <1>1, <1>2, <3>1, <3>2
  <2> QED
    BY <2>1, <2>2
<1>5. \A p \in Places, c \in Calls : caches'[p][c] = 0
  BY <1>2 DEF IInv, Cached
<1> QED
  BY <1>3, <1>4, <1>5 DEF Cached

\* The job goes on with what is cached now, the new value first.
LEMMA BuildJob ==
    ASSUME IInv, NEW t \in Tasks, Build(t)
    PROVE  /\ jobs' \in [Tasks -> Jobs] /\ \A u \in Tasks : u # t => jobs'[u] = jobs[u]
           /\ jobs'[t].place = jobs[t].place
           /\ Sound(jobs'[t], cache', built') /\ Missed(jobs'[t], cache')
           /\ About(jobs[t]) \subseteq About(jobs'[t])
<1> DEFINE job == jobs[t]
           k == Head(job.todo)
           new == Len(built) + 1
           made == [place |-> job.place, todo |-> Tail(job.todo),
                    vals |-> Overlay([d \in {k} |-> new], job.vals)]
<1>1. /\ job \in Jobs /\ job.todo # <<>> /\ Sound(job, cache, built)
      /\ job = [place |-> job.place, todo |-> job.todo, vals |-> job.vals]
  BY DEF Build, Building, IInv, Typed, Solving, Jobs
<1>2. /\ k \in Calls /\ new \in Nat /\ new # 0
      /\ cache'[k] = IF cache[k] = 0 THEN new ELSE cache[k]
      /\ \A c \in Calls : c # k => cache'[c] = cache[c]
      /\ DOMAIN built' = DOMAIN built \cup {new} /\ built'[new].call = k
      /\ \A i \in DOMAIN built : built'[i] = built[i]
      /\ caches' \in [Caches -> [Calls -> Nat]]
  BY BuildFacts
<1>3. cache' \in [Calls -> Nat] /\ caches'["connection"] = cache'
  BY <1>2 DEF cache, Caches
<1> HIDE DEF new
<1>4. /\ job.todo \in Seq(Calls) /\ Tail(job.todo) \in Seq(Calls)
      /\ Len(job.todo) \in Nat /\ DOMAIN job.todo = 1..Len(job.todo)
      /\ DOMAIN Tail(job.todo) = 1..(Len(job.todo) - 1)
      /\ k = job.todo[1]
      /\ \A i \in 1..(Len(job.todo) - 1) : Tail(job.todo)[i] = job.todo[i + 1]
  <2>1. job.todo \in Seq(Calls)
    BY <1>1 DEF Jobs
  <2> HIDE DEF job
  <2> QED
    BY <1>1, <2>1, HeadTailProperties, LenProperties
<1>5. /\ made.place = job.place /\ made.todo = Tail(job.todo)
      /\ made.vals = [d \in {k} \cup DOMAIN job.vals |-> IF d = k THEN new ELSE job.vals[d]]
      /\ made = [place |-> made.place, todo |-> made.todo, vals |-> made.vals]
  <2>1. made = [place |-> job.place, todo |-> Tail(job.todo), vals |-> Overlay([d \in {k} |-> new], job.vals)]
    OBVIOUS
  <2>2. Overlay([d \in {k} |-> new], job.vals) =
            [d \in {k} \cup DOMAIN job.vals |-> IF d = k THEN new ELSE job.vals[d]]
    BY DEF Overlay
  <2> HIDE DEF made, job, k
  <2> QED
    BY <2>1, <2>2
<1>6. job.vals \in [DOMAIN job.vals -> Nat] /\ DOMAIN job.vals \subseteq Calls
      /\ job.place \in Places \cup {"none"}
  BY <1>1 DEF Jobs
<1> HIDE DEF made
<1>7. DOMAIN made.vals = {k} \cup DOMAIN job.vals
  BY <1>5
<1>8. made \in Jobs
  <2>1. made.vals \in [DOMAIN made.vals -> Nat] /\ DOMAIN made.vals \in SUBSET Calls
    BY <1>2, <1>5, <1>6, <1>7
  <2> HIDE DEF job
  <2> QED
    BY <1>4, <1>5, <1>6, <2>1 DEF Jobs
<1>9. Taken(made, cache', built')
  <2> SUFFICES ASSUME NEW c \in DOMAIN made.vals
               PROVE  /\ made.vals[c] \in DOMAIN built' /\ built'[made.vals[c]].call = c
                      /\ cache'[c] # 0
    BY DEF Taken
  <2>1. CASE c = k
    BY <1>2, <1>5, <2>1
  <2>2. CASE c # k
    <3>1. c \in DOMAIN job.vals /\ made.vals[c] = job.vals[c] /\ c \in Calls
      BY <1>5, <1>6, <1>7, <2>2
    <3>2. job.vals[c] \in DOMAIN built /\ built[job.vals[c]].call = c /\ cache[c] # 0
      BY <1>1, <3>1 DEF Sound, Taken
    <3> QED
      BY <1>2, <2>2, <3>1, <3>2
  <2> QED
    BY <2>1, <2>2
<1>10. Ordered(made)
  <2> SUFFICES ASSUME NEW i \in 1..(Len(job.todo) - 1)
               PROVE  Range(Deps[made.todo[i]]) \subseteq
                          DOMAIN made.vals \cup {made.todo[j] : j \in 1..(i - 1)}
    BY <1>4, <1>5 DEF Ordered
  <2> SUFFICES ASSUME NEW d \in Range(Deps[made.todo[i]]), d \notin DOMAIN made.vals
               PROVE  \E j \in 1..(i - 1) : d = made.todo[j]
    OBVIOUS
  <2>1. i + 1 \in DOMAIN job.todo /\ made.todo[i] = job.todo[i + 1]
    <3> HIDE DEF job, k
    <3> QED
      BY <1>4, <1>5
  <2>2. PICK j \in 1..(i + 1 - 1) : d = job.todo[j]
    BY <1>1, <1>7, <2>1 DEF Sound, Ordered
  <2>3. j # 1
    BY <1>4, <1>7, <2>2
  <2>4. j - 1 \in 1..(i - 1) /\ j - 1 \in 1..(Len(job.todo) - 1) /\ (j - 1) + 1 = j
    <3> HIDE DEF job, k
    <3> QED
      BY <1>4, <2>3
  <2>5. made.todo[j - 1] = job.todo[j]
    BY <1>4, <1>5, <2>4
  <2> QED
    BY <2>2, <2>4, <2>5
<1>11. About(job) \subseteq About(made)
  <2> SUFFICES ASSUME NEW i \in DOMAIN job.todo
               PROVE  job.todo[i] \in About(made)
    BY <1>7 DEF About, Range
  <2>1. CASE i = 1
    BY <1>4, <1>7, <2>1 DEF About
  <2>2. CASE i # 1
    <3>1. i - 1 \in 1..(Len(job.todo) - 1) /\ (i - 1) + 1 = i
      <4> HIDE DEF job, k
      <4> QED
        BY <1>4, <2>2
    <3>2. i - 1 \in DOMAIN made.todo /\ made.todo[i - 1] = job.todo[i]
      BY <1>4, <1>5, <3>1
    <3> QED
      BY <3>2 DEF About, Range
  <2> QED
    BY <2>1, <2>2
<1>12. jobs' = [jobs EXCEPT ![t] = Settle(made, cache')]
  <2>1. CacheOf(job.place) = "connection"
    BY DEF CacheOf
  <2>2. caches' = IF caches["connection"][k] = 0
                  THEN [caches EXCEPT !["connection"][k] = new] ELSE caches
    BY <2>1 DEF Build, new
  <2>3. jobs' = [jobs EXCEPT ![t] = Settle(made, caches'["connection"])]
    BY <2>1, <2>2 DEF Build, made, new
  <2> QED
    BY <1>3, <2>3
<1>13. /\ Settle(made, cache') \in Jobs /\ Settle(made, cache').place = made.place
       /\ Sound(Settle(made, cache'), cache', built') /\ Missed(Settle(made, cache'), cache')
       /\ About(made) \subseteq About(Settle(made, cache'))
  <2>1. Holding(cache', built') /\ Sound(made, cache', built')
    BY <1>9, <1>10, BuildCached DEF Cached, Sound
  <2> QED
    BY <1>3, <1>8, <2>1, SettleSound
<1>14. jobs \in [Tasks -> Jobs]
  BY DEF IInv, Typed
<1> QED
  BY <1>5, <1>11, <1>12, <1>13, <1>14

\* The youngest is put on top.
LEMMA Pushed ==
    ASSUME NEW s \in Seq(Nat), Increasing(s), NEW new \in Nat, \A i \in Range(s) : i < new
    PROVE  Range(Append(s, new)) = Range(s) \cup {new} /\ Increasing(Append(s, new))
<1>1. Len(s) \in Nat /\ DOMAIN s = 1..Len(s)
  BY LenProperties
<1>2. /\ Len(Append(s, new)) = Len(s) + 1 /\ DOMAIN Append(s, new) = 1..(Len(s) + 1)
      /\ \A i \in 1..Len(s) : Append(s, new)[i] = s[i]
      /\ Append(s, new)[Len(s) + 1] = new
  BY AppendProperties, LenProperties
<1>3. DOMAIN Append(s, new) = DOMAIN s \cup {Len(s) + 1}
  BY <1>1, <1>2
<1>4. Range(Append(s, new)) = Range(s) \cup {new}
  BY <1>1, <1>2, <1>3 DEF Range
<1>5. Increasing(Append(s, new))
  <2> SUFFICES ASSUME NEW i \in 1..(Len(s) + 1), NEW j \in 1..(Len(s) + 1), i < j
               PROVE  Append(s, new)[i] < Append(s, new)[j]
    BY <1>2 DEF Increasing
  <2>1. i \in 1..Len(s) /\ Append(s, new)[i] = s[i]
    BY <1>1, <1>2
  <2>2. CASE j = Len(s) + 1
    BY <1>1, <1>2, <2>1, <2>2 DEF Range
  <2>3. CASE j \in 1..Len(s)
    BY <1>1, <1>2, <2>1, <2>3 DEF Increasing
  <2> QED
    BY <1>1, <2>2, <2>3
<1> QED
  BY <1>4, <1>5

\* Two tasks that solve at the same time are in a race.
LEMMA RaceFacts ==
    ASSUME IInv, NEW t \in Tasks, NEW u \in Tasks, Busy(t), Busy(u), t # u
    PROVE  Race(t, jobs[t].place, u, jobs[u].place) \/ Race(u, jobs[u].place, t, jobs[t].place)
<1>1. jobs[t].place # jobs[u].place
  BY DEF IInv, Alive
<1>2. jobs[t].place \in Places /\ jobs[u].place \in Places
  BY BusyFacts
<1>3. CASE jobs[t].place = "middleware"
  <2>1. jobs[u].place \in {"route", "bound"} /\ stage \in {"solving", "endpoint"}
    BY <1>1, <1>2, <1>3, BusyFacts DEF Places
  <2>2. t # Main
    BY <1>3, <2>1, BusyFacts
  <2> QED
    BY <1>3, <2>1, <2>2 DEF Race
<1>4. CASE jobs[u].place = "middleware"
  <2>1. jobs[t].place \in {"route", "bound"} /\ stage \in {"solving", "endpoint"}
    BY <1>1, <1>2, <1>4, BusyFacts DEF Places
  <2>2. u # Main
    BY <1>4, <2>1, BusyFacts
  <2> QED
    BY <1>4, <2>1, <2>2 DEF Race
<1>5. CASE jobs[t].place # "middleware" /\ jobs[u].place # "middleware"
  <2>1. jobs[t].place \in {"route", "bound"} /\ jobs[u].place \in {"route", "bound"}
    BY <1>2, <1>5 DEF Places
  <2>2. stage = "solving" /\ stage = "endpoint"
    BY <1>1, <2>1, BusyFacts
  <2> QED
    BY <2>2
<1> QED
  BY <1>3, <1>4, <1>5

\* A second value of a call is made only in a race.
LEMMA BuildSingle ==
    ASSUME IInv, NEW t \in Tasks, Build(t)
    PROVE  Single'
<1> DEFINE k == Head(jobs[t].todo)
<1>1. PICK new : new = Len(built) + 1
  OBVIOUS
<1>2. /\ Busy(t) /\ Building(t) /\ new \notin DOMAIN built
      /\ DOMAIN built' = DOMAIN built \cup {new}
      /\ built'[new].call = k /\ built'[new].by = t /\ built'[new].place = jobs[t].place
      /\ \A i \in DOMAIN built : built'[i] = built[i]
  <2>1. Building(t)
    BY DEF Build
  <2> QED
    BY <1>1, <2>1, BuildFacts
<1>3. /\ \A u \in Tasks : u # t => jobs'[u] = jobs[u]
      /\ Missed(jobs'[t], cache')
  BY BuildJob
<1>4. OneInstance'
  <2>1. ASSUME NEW j \in DOMAIN built, built[j].call = k
        PROVE  Beside(new, j)' \/ Beside(j, new)'
    <3>1. \/ Race(t, jobs[t].place, built[j].by, built[j].place)
          \/ Race(built[j].by, built[j].place, t, jobs[t].place)
      BY <1>2, <2>1 DEF IInv, Single, Raced
    <3> QED
      BY <1>2, <3>1 DEF Race, Beside
  <2>2. ASSUME NEW i \in DOMAIN built, NEW j \in DOMAIN built, built[i].call = built[j].call, i # j
        PROVE  Beside(i, j)' \/ Beside(j, i)'
    <3>1. Beside(i, j) \/ Beside(j, i)
      BY <2>2 DEF IInv, Single, OneInstance
    <3>2. built'[i] = built[i] /\ built'[j] = built[j]
      BY <1>2
    <3> QED
      BY <3>1, <3>2 DEF Beside
  <2> SUFFICES ASSUME NEW i \in DOMAIN built', NEW j \in DOMAIN built',
                      built'[i].call = built'[j].call, i # j
               PROVE  Beside(i, j)' \/ Beside(j, i)'
    BY DEF OneInstance
  <2>3. CASE i = new
    <3>1. j \in DOMAIN built /\ built[j].call = k
      BY <1>2, <2>3
    <3> QED
      BY <2>1, <2>3, <3>1
  <2>4. CASE j = new
    <3>1. i \in DOMAIN built /\ built[i].call = k
      BY <1>2, <2>4
    <3> QED
      BY <2>1, <2>4, <3>1
  <2>5. CASE i # new /\ j # new
    <3>1. i \in DOMAIN built /\ j \in DOMAIN built /\ built[i].call = built[j].call
      BY <1>2, <2>5
    <3> QED
      BY <2>2, <3>1
  <2> QED
    BY <2>3, <2>4, <2>5
<1>5. Raced(t)'
  <2> SUFFICES ASSUME jobs'[t].todo # <<>>, NEW i \in DOMAIN built',
                      built'[i].call = Head(jobs'[t].todo)
               PROVE  FALSE
    BY DEF Raced, Building
  <2>1. cache'[Head(jobs'[t].todo)] = 0
    BY <1>3 DEF Missed
  <2> QED
    BY <2>1, BuildCached DEF Cached
<1>6. ASSUME NEW u \in Tasks, u # t
      PROVE  Raced(u)'
  <2> SUFFICES ASSUME Building(u), NEW i \in DOMAIN built', built'[i].call = Head(jobs[u].todo)
               PROVE  \/ Race(u, jobs[u].place, built'[i].by, built'[i].place)
                      \/ Race(built'[i].by, built'[i].place, u, jobs[u].place)
    BY <1>3, <1>6 DEF Raced, Building
  <2>1. CASE i = new
    <3>1. Busy(u)
      BY NoJobFacts DEF Building, Busy
    <3>2. \/ Race(u, jobs[u].place, t, jobs[t].place)
          \/ Race(t, jobs[t].place, u, jobs[u].place)
      BY <1>2, <1>6, <3>1, RaceFacts
    <3> QED
      BY <1>2, <2>1, <3>2
  <2>2. CASE i # new
    <3>1. i \in DOMAIN built /\ built'[i] = built[i]
      BY <1>2, <2>2
    <3> QED
      BY <3>1 DEF IInv, Single, Raced
  <2> QED
    BY <2>1, <2>2
<1> QED
  BY <1>4, <1>5, <1>6 DEF Single

\* Main and its tasks keep what they solve in order when a value is made.
LEMMA BuildKeeps ==
    ASSUME IInv, NEW t \in Tasks, Build(t)
    PROVE  IInv'
<1> DEFINE job == jobs[t]
           k == Head(job.todo)
           place == job.place
           new == Len(built) + 1
           gens == (IF k \in Generators THEN {new} ELSE {})
                   \cup UNION {built[job.vals[d]].gens : d \in Range(Deps[k])}
<1>1. /\ k \in Calls /\ place \in Places /\ Busy(t)
      /\ new \in Nat /\ new # 0 /\ new \notin DOMAIN built
      /\ DOMAIN built' = DOMAIN built \cup {new}
      /\ \A i \in DOMAIN built : i \in Nat /\ i < new
      /\ built' \in Seq(Values)
      /\ built'[new].call = k /\ built'[new].place = place /\ built'[new].by = t
      /\ built'[new].gens = gens /\ built'[new].up = TRUE
      /\ \A i \in DOMAIN built : built'[i] = built[i]
  BY BuildFacts
<1>2. /\ caches' \in [Caches -> [Calls -> Nat]]
      /\ cache'[k] # 0
      /\ \A c \in Calls : c # k => cache'[c] = cache[c]
      /\ \A g \in gens : \/ k \in Generators /\ g = new
                         \/ g \in DOMAIN built /\ built[g].call \in Generators
  BY BuildFacts, ZenonT(30)
<1>3. stacks' = IF k \in Generators THEN [stacks EXCEPT ![place] = Append(@, new)] ELSE stacks
  BY DEF Build
<1> HIDE DEF k, new, gens
<1>4. /\ jobs' \in [Tasks -> Jobs] /\ \A u \in Tasks : u # t => jobs'[u] = jobs[u]
      /\ jobs'[t].place = place
      /\ Sound(jobs'[t], cache', built') /\ Missed(jobs'[t], cache')
      /\ About(jobs[t]) \subseteq About(jobs'[t])
  BY BuildJob
<1>5. UNCHANGED <<setup, stage, within>>
  BY DEF Build
<1>6. /\ stage \notin {"setup", "over"}
      /\ place = "route" => t = Main /\ stage = "solving"
      /\ place = "bound" => stage = "endpoint"
      /\ stage = "before" => place = "middleware"
  BY <1>1, BusyFacts DEF Places
<1>7. \A u \in Tasks : u # t => jobs'[u] = jobs[u] /\ (Busy(u)' <=> Busy(u))
  BY <1>4 DEF Busy
<1>8. Busy(t)'
  BY <1>1, <1>4, NoJobFacts DEF Busy, Places
<1> HIDE DEF place, job
<1>9. stacks \in [Places -> Seq(Nat)] /\ stacks' \in [Places -> Seq(Nat)]
  <2>1. stacks \in [Places -> Seq(Nat)]
    BY DEF IInv, Typed
  <2>2. Append(stacks[place], new) \in Seq(Nat)
    BY <1>1, <2>1
  <2> QED
    BY <1>3, <2>1, <2>2
<1>10. Typed'
  BY <1>1, <1>2, <1>4, <1>5, <1>9 DEF IInv, Typed, setup
<1>11. Handled'
  <2>2. ASSUME stage' = "solving"
        PROVE  Range(handler'[dispatched']) \subseteq DOMAIN jobs'[Main].vals \cup Range(jobs'[Main].todo)
    <3>1. Range(handler[dispatched]) \subseteq About(jobs[Main])
      BY <1>5, <2>2 DEF IInv, Handled, About
    <3>2. About(jobs[Main]) \subseteq About(jobs'[Main])
      BY <1>4, RequestLifecycleAssumption
    <3> QED
      BY <1>5, <3>1, <3>2 DEF About, setup
  <2>3. ASSUME stage' = "endpoint", NEW c \in Range(handler'[dispatched'])
        PROVE  cache'[c] # 0
    <3>1. cache[c] # 0 /\ dispatched \in Endpoints /\ c \in Range(handler[dispatched])
      BY <1>5, <2>3 DEF IInv, Handled, setup
    <3>2. c \in Calls
      <4>1. handler[dispatched] \in Seq(Calls)
        BY <3>1 DEF IInv, Typed
      <4> QED
        BY <3>1, <4>1, RangeOfSeq DEF Range
    <3> QED
      BY <1>1, <1>2, <3>1, <3>2
  <2> QED
    BY <1>5, <2>2, <2>3 DEF IInv, Handled, setup
<1>12. Cached' /\ Single'
  BY BuildCached, BuildSingle
<1>13. Alive'
  <2>1. ASSUME NEW u \in Tasks, Busy(u)'
        PROVE  Busy(u) /\ jobs'[u].place = jobs[u].place
    BY <1>1, <1>4, <1>7, <2>1 DEF place, job
  <2>2. \A u, v \in Tasks : Busy(u)' /\ Busy(v)' /\ jobs'[u].place = jobs'[v].place => u = v
    BY <2>1 DEF IInv, Alive
  <2>3. ASSUME NEW u \in Tasks, Busy(u)'
        PROVE  /\ jobs'[u].place # "none"
               /\ jobs'[u].place = IF u = Main THEN PlaceIn(stage') ELSE within'[u]
    BY <1>5, <2>1, <2>3 DEF IInv, Alive
  <2>4. stage' = "solving" => Busy(Main)'
    BY <1>5, <1>7, <1>8, RequestLifecycleAssumption DEF IInv, Alive
  <2> QED
    BY <1>5, <2>2, <2>3, <2>4 DEF IInv, Alive
<1>14. Solving'
  <2> SUFFICES ASSUME NEW u \in Tasks, u # t
               PROVE  Sound(jobs[u], cache', built')
    BY <1>4 DEF Solving
  <2>1. Taken(jobs[u], cache, built) /\ Ordered(jobs[u]) /\ DOMAIN jobs[u].vals \subseteq Calls
    BY DEF IInv, Typed, Solving, Sound, Jobs
  <2>2. Taken(jobs[u], cache', built')
    <3> SUFFICES ASSUME NEW c \in DOMAIN jobs[u].vals
                 PROVE  /\ jobs[u].vals[c] \in DOMAIN built' /\ built'[jobs[u].vals[c]].call = c
                        /\ cache'[c] # 0
      BY DEF Taken
    <3>1. jobs[u].vals[c] \in DOMAIN built /\ built[jobs[u].vals[c]].call = c /\ cache[c] # 0
      BY <2>1 DEF Taken
    <3>2. cache'[c] # 0
      BY <1>2, <2>1, <3>1
    <3> QED
      BY <1>1, <3>1, <3>2
  <2> QED
    BY <2>1, <2>2 DEF Sound
<1>15. \A i \in DOMAIN built' : IsUp(i)' <=> (i = new /\ k \in Generators) \/ (i \in DOMAIN built /\ IsUp(i))
  <2>1. \A i \in DOMAIN built' : i = new => (IsUp(i)' <=> k \in Generators)
    BY <1>1 DEF IsUp
  <2>2. \A i \in DOMAIN built : IsUp(i)' <=> IsUp(i)
    BY <1>1 DEF IsUp
  <2> QED
    BY <1>1, <2>1, <2>2
<1>16. Stacked'
  <2>1. ASSUME NEW i \in DOMAIN built', NEW g \in built'[i].gens
        PROVE  g \in 1..i /\ built'[g].call \in Generators
    <3>1. \A h \in DOMAIN built : h \in 1..Len(built)
      BY LenProperties DEF IInv, Typed
    <3>2. CASE i = new
      <4>1. g \in gens
        BY <1>1, <2>1, <3>2
      <4>2. CASE k \in Generators /\ g = new
        BY <1>1, <3>2, <4>2
      <4>3. CASE g \in DOMAIN built /\ built[g].call \in Generators
        <5>1. g \in Nat /\ g < new /\ g # 0
          BY <1>1, <3>1, <4>3
        <5>2. built'[g] = built[g]
          BY <1>1, <4>3
        <5> QED
          BY <1>1, <3>2, <4>3, <5>1, <5>2
      <4> QED
        BY <1>2, <4>1, <4>2, <4>3
    <3>3. CASE i # new
      <4>1. i \in DOMAIN built /\ built'[i] = built[i]
        BY <1>1, <3>3
      <4>2. g \in 1..i /\ built[g].call \in Generators
        BY <2>1, <4>1 DEF IInv, Stacked
      <4>3. g \in DOMAIN built
        <5>1. DOMAIN built = 1..Len(built) /\ Len(built) \in Nat
          BY LenProperties DEF IInv, Typed
        <5> QED
          BY <4>1, <4>2, <5>1
      <4> QED
        BY <1>1, <4>2, <4>3
    <3> QED
      BY <3>2, <3>3
  <2>2. ASSUME NEW p \in Places
        PROVE  /\ Range(stacks'[p]) = {i \in DOMAIN built' : IsUp(i)' /\ built'[i].place = p}
               /\ Increasing(stacks'[p])
    <3>1. /\ Range(stacks[p]) = {i \in DOMAIN built : IsUp(i) /\ built[i].place = p}
          /\ Increasing(stacks[p])
      BY DEF IInv, Stacked
    <3>2. CASE k \in Generators /\ p = place
      <4>1. stacks'[p] = Append(stacks[p], new) /\ stacks[p] \in Seq(Nat)
        BY <1>3, <1>9, <3>2
      <4>2. {i \in DOMAIN built' : IsUp(i)' /\ built'[i].place = p} =
                {i \in DOMAIN built : IsUp(i) /\ built[i].place = p} \cup {new}
        BY <1>1, <1>15, <3>2
      <4>3. \A i \in Range(stacks[p]) : i < new
        BY <1>1, <3>1
      <4> QED
        BY <1>1, <3>1, <4>1, <4>2, <4>3, Pushed
    <3>3. CASE ~(k \in Generators /\ p = place)
      <4>1. stacks'[p] = stacks[p]
        BY <1>1, <1>3, <1>9, <3>3
      <4>2. {i \in DOMAIN built' : IsUp(i)' /\ built'[i].place = p} =
                {i \in DOMAIN built : IsUp(i) /\ built[i].place = p}
        BY <1>1, <1>15, <3>3
      <4> QED
        BY <3>1, <4>1, <4>2
    <3> QED
      BY <3>2, <3>3
  <2> QED
    BY <2>1, <2>2 DEF Stacked
<1>17. Phases'
  <2>1. \A i \in DOMAIN built : built[i].place \in Places
    <3>1. \A i \in DOMAIN built : built[i] \in Values
      BY ElementOfSeq, LenProperties DEF IInv, Typed
    <3> QED
      BY <3>1 DEF Values
  <2>2. stage' = "before" => \A i \in DOMAIN built' : built'[i].place = "middleware"
    BY <1>1, <1>5, <1>6 DEF IInv, Phases
  <2>3. stage' = "solving" => \A i \in DOMAIN built' : built'[i].place # "bound"
    BY <1>1, <1>5, <1>6 DEF IInv, Phases
  <2>4. stage' \in {"setup", "before", "solving", "endpoint"} => \A i \in DOMAIN built' : built'[i].up
    BY <1>1, <1>5 DEF IInv, Phases
  <2>5. \A i \in DOMAIN built' : built'[i].place = "middleware" => built'[i].up
    BY <1>1, <1>6 DEF IInv, Phases
  <2>6. stage' \in {"after", "over"} => stacks'["route"] = <<>> /\ stacks'["bound"] = <<>>
    <3> SUFFICES ASSUME stage \in {"after", "over"}
                 PROVE  stacks'["route"] = <<>> /\ stacks'["bound"] = <<>>
      BY <1>5
    <3>1. place # "route" /\ place # "bound"
      BY <1>6
    <3>2. stacks["route"] = <<>> /\ stacks["bound"] = <<>>
      BY DEF IInv, Phases
    <3> QED
      BY <1>3, <1>9, <3>1, <3>2 DEF Places
  <2>7. ASSUME NEW i \in DOMAIN built', NEW j \in DOMAIN built', i < j
        PROVE  i \in DOMAIN built /\ built'[i] = built[i] /\ (j = new \/ j \in DOMAIN built)
    <3>1. i # new
      BY <1>1, <2>7
    <3> QED
      BY <1>1, <3>1
  <2>8. ASSUME NEW i \in DOMAIN built', NEW j \in DOMAIN built', i < j
        PROVE  ~(built'[i].place = "bound" /\ built'[j].place = "route")
    <3>1. CASE j = new
      <4>1. place = "route" => built[i].place # "bound"
        BY <1>6, <2>7, <2>8 DEF IInv, Phases
      <4> QED
        BY <1>1, <2>7, <2>8, <3>1, <4>1
    <3>2. CASE j \in DOMAIN built
      BY <1>1, <2>7, <2>8, <3>2 DEF IInv, Phases
    <3> QED
      BY <2>7, <2>8, <3>1, <3>2
  <2>9. ASSUME NEW i \in DOMAIN built', NEW j \in DOMAIN built', i < j,
               built'[i].place = built'[j].place, built'[i].call \in Generators, IsUp(j)'
        PROVE  IsUp(i)'
    <3>1. i \in DOMAIN built /\ built'[i] = built[i]
      BY <2>7, <2>9
    <3>2. CASE j = new
      <4>1. built[i].place = place
        BY <1>1, <2>9, <3>1, <3>2
      <4>2. built[i].up
        <5>1. CASE place = "middleware"
          BY <1>6, <3>1, <4>1, <5>1 DEF IInv, Phases
        <5>2. CASE place # "middleware"
          <6>1. stage \in {"solving", "endpoint"}
            BY <1>1, <1>6, <5>2 DEF Places
          <6> QED
            BY <3>1, <6>1 DEF IInv, Phases
        <5> QED
          BY <5>1, <5>2
      <4> QED
        BY <2>9, <3>1, <4>2 DEF IsUp
    <3>3. CASE j \in DOMAIN built
      <4>1. built'[j] = built[j]
        BY <1>1, <3>3
      <4>2. IsUp(j) /\ built[i].place = built[j].place /\ built[i].call \in Generators
        BY <2>9, <3>1, <4>1 DEF IsUp
      <4>3. IsUp(i)
        BY <2>9, <3>1, <3>3, <4>2 DEF IInv, Phases
      <4> QED
        BY <3>1, <4>3 DEF IsUp
    <3> QED
      BY <2>7, <2>9, <3>2, <3>3
  <2>10. stage' # "setup"
    BY <1>5, <1>6
  <2> QED
    BY <2>2, <2>3, <2>4, <2>5, <2>6, <2>8, <2>9, <2>10 DEF Phases
<1> QED
  BY <1>10, <1>11, <1>12, <1>13, <1>14, <1>16, <1>17 DEF IInv

-----------------------------------------------------------------------------
\* Steps of the end

\* The endpoint returns when its tasks have.
LEMMA RespondKeeps ==
    ASSUME IInv, Respond
    PROVE  IInv'
<1> USE DEF Respond
<1>1. Handled' /\ Alive'
  BY StageStep DEF Joined, Leaving
<1>2. Cached' /\ Stacked' /\ Solving' /\ Single'
  BY NothingMade, JobsGoOn
<1>3. Typed'
  BY DEF IInv, Typed, setup
<1>4. Phases'
  BY DEF IInv, Phases, IsUp
<1> QED
  BY <1>1, <1>2, <1>3, <1>4 DEF IInv

\* Nothing of the route is left when it has returned.
LEMMA ReturnedKeeps ==
    ASSUME IInv, Returned
    PROVE  IInv'
<1> USE DEF Returned
<1>1. Handled' /\ Alive'
  BY FreeFacts, StageStep DEF Leaving
<1>2. Cached' /\ Stacked' /\ Solving' /\ Single'
  BY NothingMade, JobsGoOn
<1>3. Typed'
  BY DEF IInv, Typed, setup
<1>4. Phases'
  BY DEF IInv, Phases, IsUp
<1> QED
  BY <1>1, <1>2, <1>3, <1>4 DEF IInv

\* The connection ends with an empty stack.
LEMMA OverKeeps ==
    ASSUME IInv, Over
    PROVE  IInv'
<1> USE DEF Over
<1>1. Handled' /\ Alive'
  BY FreeFacts, StageStep DEF Joined, Leaving
<1>2. Cached' /\ Stacked' /\ Solving' /\ Single'
  BY NothingMade, JobsGoOn
<1>3. Typed'
  BY DEF IInv, Typed, setup
<1>4. Phases'
  BY DEF IInv, Phases, IsUp
<1> QED
  BY <1>1, <1>2, <1>3, <1>4 DEF IInv

\* The last generator of a stack is torn down: the youngest of its place.
LEMMA PopFacts ==
    ASSUME IInv, NEW p \in Places, stacks[p] # <<>>,
           built' = Down({Last(stacks[p])}), stacks' = [stacks EXCEPT ![p] = Front(@)]
    PROVE  /\ built' \in Seq(Values) /\ DOMAIN built' = DOMAIN built
           /\ stacks' \in [Places -> Seq(Nat)]
           /\ \A q \in Places : q # p => stacks'[q] = stacks[q]
           /\ \E top \in DOMAIN built :
                 /\ IsUp(top) /\ built[top].place = p
                 /\ \A i \in DOMAIN built :
                       /\ built'[i].call = built[i].call /\ built'[i].place = built[i].place
                       /\ built'[i].by = built[i].by /\ built'[i].gens = built[i].gens
                       /\ built'[i].up = (built[i].up /\ i # top)
                 /\ \A i \in DOMAIN built : IsUp(i) /\ built[i].place = p => i <= top
           /\ Stacked'
<1> DEFINE s == stacks[p]
           top == Last(s)
           n == Len(s)
<1>1. s \in Seq(Nat) /\ n \in Nat /\ n # 0 /\ DOMAIN s = 1..n
  BY EmptySeq, LenProperties DEF IInv, Typed
<1>2. /\ Range(s) = {i \in DOMAIN built : IsUp(i) /\ built[i].place = p}
      /\ \A i, j \in DOMAIN s : i < j => s[i] < s[j]
  BY DEF IInv, Stacked, Increasing
<1>3. top = s[n] /\ n \in DOMAIN s
  BY <1>1 DEF Last
<1>4. top \in DOMAIN built /\ IsUp(top) /\ built[top].place = p
  <2>1. top \in Range(s)
    BY <1>3 DEF Range
  <2> QED
    BY <1>2, <2>1
<1>5. ASSUME NEW i \in Range(s)
      PROVE  i <= top
  <2>1. PICK j \in DOMAIN s : i = s[j]
    BY DEF Range
  <2>2. j = n \/ j < n
    BY <1>1
  <2>3. s[j] \in Nat /\ s[n] \in Nat
    BY <1>1, <1>3, ElementOfSeq
  <2> QED
    BY <1>2, <1>3, <2>1, <2>2, <2>3
<1>6. /\ Front(s) \in Seq(Nat) /\ DOMAIN Front(s) = 1..(n - 1)
      /\ \A i \in 1..(n - 1) : Front(s)[i] = s[i]
  <2>1. \A i \in 1..(n - 1) : s[i] \in Nat
    BY <1>1, ElementOfSeq
  <2>2. /\ SubSeq(s, 1, n - 1) \in Seq(Nat)
        /\ Len(SubSeq(s, 1, n - 1)) = IF 1 <= n - 1 THEN n - 1 - 1 + 1 ELSE 0
        /\ \A i \in 1..(n - 1 - 1 + 1) : SubSeq(s, 1, n - 1)[i] = s[1 + i - 1]
    <3>1. 1 \in Int /\ n - 1 \in Int
      BY <1>1
    <3> HIDE DEF s, n
    <3> QED
      BY <2>1, <3>1, SubSeqProperties
  <2>3. n - 1 - 1 + 1 = n - 1 /\ (~(1 <= n - 1) => n - 1 = 0) /\ \A i \in 1..(n - 1) : 1 + i - 1 = i
    <3> HIDE DEF s, n
    <3> QED
      BY <1>1
  <2>4. Len(Front(s)) = n - 1 /\ Front(s) \in Seq(Nat)
    BY <2>2, <2>3 DEF Front
  <2>5. \A i \in 1..(n - 1) : Front(s)[i] = s[i]
    BY <2>2, <2>3 DEF Front
  <2> QED
    BY <2>4, <2>5, LenProperties
<1>7. stacks' \in [Places -> Seq(Nat)] /\ stacks'[p] = Front(s)
  BY <1>6 DEF IInv, Typed
<1>8. \A q \in Places : q # p => stacks'[q] = stacks[q]
  BY DEF IInv, Typed
<1>9. /\ DOMAIN built' = DOMAIN built
      /\ \A i \in DOMAIN built : built'[i] = [built[i] EXCEPT !.up = @ /\ i \notin {top}]
  BY DEF Down
<1>10. built \in Seq(Values) /\ Len(built) \in Nat /\ DOMAIN built = 1..Len(built)
       /\ \A i \in DOMAIN built : built[i] \in Values
  BY LenProperties, ElementOfSeq DEF IInv, Typed
<1>11. ASSUME NEW i \in DOMAIN built
       PROVE  /\ built'[i] \in Values
              /\ built'[i].call = built[i].call /\ built'[i].place = built[i].place
              /\ built'[i].by = built[i].by /\ built'[i].gens = built[i].gens
              /\ built'[i].up = (built[i].up /\ i # top)
  <2>1. built[i] \in Values /\ built'[i] = [built[i] EXCEPT !.up = @ /\ i \notin {top}]
    BY <1>9, <1>10
  <2> QED
    BY <2>1 DEF Values
<1>12. built' \in Seq(Values)
  <2>1. built' = [i \in 1..Len(built) |-> built'[i]]
    BY <1>9, <1>10 DEF Down
  <2>2. built' \in [1..Len(built) -> Values]
    BY <1>10, <1>11, <2>1
  <2> QED
    BY <1>10, <2>2, SeqDef
<1>13. \A i \in DOMAIN built : IsUp(i)' <=> IsUp(i) /\ i # top
  BY <1>11 DEF IsUp
<1> HIDE DEF top, n
<1>14. Range(Front(s)) = Range(s) \ {top}
  <2>1. ASSUME NEW i \in 1..(n - 1)
        PROVE  s[i] \in Range(s) /\ s[i] # top
    <3>1. i \in DOMAIN s /\ i < n
      BY <1>1
    <3>2. s[i] < s[n] /\ s[n] \in Nat
      BY <1>1, <1>2, <1>3, <3>1, ElementOfSeq
    <3>3. s[i] # s[n]
      BY <1>1, <3>1, <3>2, ElementOfSeq
    <3> QED
      BY <1>3, <3>1, <3>3 DEF Range
  <2>2. ASSUME NEW i \in DOMAIN s, s[i] # top
        PROVE  i \in 1..(n - 1)
    BY <1>1, <1>3, <2>2
  <2> HIDE DEF s
  <2> QED
    BY <1>6, <2>1, <2>2 DEF Range
<1>15. Increasing(Front(s))
  <2>1. \A i \in 1..(n - 1) : i \in DOMAIN s
    BY <1>1
  <2> QED
    BY <1>2, <1>6, <2>1 DEF Increasing
<1>16. Stacked'
  <2>1. \A i \in DOMAIN built' : \A g \in built'[i].gens : g \in 1..i /\ built'[g].call \in Generators
    <3>1. ASSUME NEW i \in DOMAIN built, NEW g \in built[i].gens
          PROVE  g \in 1..i /\ built'[g].call \in Generators
      <4>1. g \in 1..i /\ built[g].call \in Generators
        BY DEF IInv, Stacked
      <4>2. g \in DOMAIN built
        BY <1>10, <4>1
      <4> QED
        BY <1>11, <4>1, <4>2
    <3>2. \A i \in DOMAIN built : built'[i].gens = built[i].gens
      BY <1>11
    <3>3. DOMAIN built' = DOMAIN built
      BY <1>9
    <3> QED
      BY <3>1, <3>2, <3>3
  <2>2. ASSUME NEW q \in Places
        PROVE  /\ Range(stacks'[q]) = {i \in DOMAIN built' : IsUp(i)' /\ built'[i].place = q}
               /\ Increasing(stacks'[q])
    <3>1. {i \in DOMAIN built' : IsUp(i)' /\ built'[i].place = q} =
              {i \in DOMAIN built : IsUp(i) /\ built[i].place = q} \ {top}
      BY <1>9, <1>11, <1>13
    <3>2. CASE q = p
      <4>1. Range(stacks'[q]) = Range(s) \ {top} /\ Increasing(stacks'[q])
        BY <1>7, <1>14, <1>15, <3>2
      <4> QED
        BY <1>2, <3>1, <3>2, <4>1
    <3>3. CASE q # p
      <4>1. stacks'[q] = stacks[q] /\ Increasing(stacks[q])
        BY <1>8, <3>3 DEF IInv, Stacked
      <4>2. Range(stacks[q]) = {i \in DOMAIN built : IsUp(i) /\ built[i].place = q}
        BY DEF IInv, Stacked
      <4>3. top \notin {i \in DOMAIN built : IsUp(i) /\ built[i].place = q}
        BY <1>4, <3>3
      <4> QED
        BY <3>1, <4>1, <4>2, <4>3
    <3> QED
      BY <3>2, <3>3
  <2> QED
    BY <2>1, <2>2 DEF Stacked
<1>17. \A i \in DOMAIN built : IsUp(i) /\ built[i].place = p => i <= top
  BY <1>2, <1>5
<1> QED
  BY <1>4, <1>7, <1>8, <1>9, <1>11, <1>12, <1>16, <1>17

\* A step of the teardown, of the right stack for its stage.
LEMMA PopKeeps ==
    ASSUME IInv, NEW p \in Places, stacks[p] # <<>>,
           built' = Down({Last(stacks[p])}), stacks' = [stacks EXCEPT ![p] = Front(@)],
           UNCHANGED <<setup, within, jobs, caches>>, Leaving(stage'),
           IF p = "middleware" THEN stage \in {"after", "over"} /\ stage' = "over"
                               ELSE stage = "closing" /\ stage' = "closing"
    PROVE  IInv'
<1>1. /\ built' \in Seq(Values) /\ DOMAIN built' = DOMAIN built
      /\ stacks' \in [Places -> Seq(Nat)]
      /\ \A q \in Places : q # p => stacks'[q] = stacks[q]
      /\ Stacked'
  BY PopFacts
<1>2. PICK top \in DOMAIN built :
          /\ IsUp(top) /\ built[top].place = p
          /\ \A i \in DOMAIN built :
                /\ built'[i].call = built[i].call /\ built'[i].place = built[i].place
                /\ built'[i].by = built[i].by /\ built'[i].gens = built[i].gens
                /\ built'[i].up = (built[i].up /\ i # top)
          /\ \A i \in DOMAIN built : IsUp(i) /\ built[i].place = p => i <= top
  BY PopFacts
<1>3. Handled' /\ Alive'
  BY StageStep
<1>4. Typed'
  BY <1>1 DEF IInv, Typed, setup
<1>5. Cached' /\ cache' = cache
  <2>1. cache' = cache
    BY DEF cache
  <2>2. ASSUME NEW k \in Calls, cache[k] # 0
        PROVE  cache[k] \in DOMAIN built' /\ built'[cache[k]].call = k
    <3>1. cache[k] \in DOMAIN built /\ built[cache[k]].call = k
      BY <2>2 DEF IInv, Cached, Holding
    <3> QED
      BY <1>1, <1>2, <3>1
  <2>3. ASSUME NEW i \in DOMAIN built'
        PROVE  cache[built'[i].call] # 0
    <3>1. i \in DOMAIN built /\ built'[i].call = built[i].call
      BY <1>1, <1>2
    <3> QED
      BY <3>1 DEF IInv, Cached
  <2>4. \A q \in Places, k \in Calls : caches'[q][k] = 0
    BY DEF IInv, Cached
  <2> QED
    BY <2>1, <2>2, <2>3, <2>4 DEF Cached, Holding
<1>6. Solving'
  <2> SUFFICES ASSUME NEW t \in Tasks
               PROVE  Sound(jobs[t], cache, built')
    BY <1>5 DEF Solving
  <2>1. Taken(jobs[t], cache, built) /\ Ordered(jobs[t])
    BY DEF IInv, Solving, Sound
  <2>2. Taken(jobs[t], cache, built')
    BY <1>1, <1>2, <2>1 DEF Taken
  <2> QED
    BY <2>1, <2>2 DEF Sound
<1>7. Single'
  <2>1. ASSUME NEW t \in Tasks
        PROVE  Raced(t)'
    <3>1. Raced(t)
      BY DEF IInv, Single
    <3> QED
      BY <1>1, <1>2, <3>1, ZenonT(30) DEF Raced, Building
  <2>2. OneInstance'
    <3> SUFFICES ASSUME NEW i \in DOMAIN built', NEW j \in DOMAIN built',
                        built'[i].call = built'[j].call, i # j
                 PROVE  Beside(i, j)' \/ Beside(j, i)'
      BY DEF OneInstance
    <3>1. i \in DOMAIN built /\ j \in DOMAIN built /\ built[i].call = built[j].call
      BY <1>1, <1>2
    <3>2. Beside(i, j) \/ Beside(j, i)
      BY <3>1 DEF IInv, Single, OneInstance
    <3> QED
      BY <1>2, <3>1, <3>2 DEF Beside
  <2> QED
    BY <2>1, <2>2 DEF Single
<1>8. Phases'
  <2> USE DEF IInv
  <2>1. stage' \in {"closing", "over"}
    OBVIOUS
  <2>2. stage' = "closing" =>
            \A i \in DOMAIN built' : built'[i].place = "middleware" => built'[i].up
    <3> SUFFICES ASSUME stage' = "closing", NEW i \in DOMAIN built, built[i].place = "middleware"
                 PROVE  built'[i].up
      BY <1>1, <1>2, ZenonT(30)
    <3>1. p # "middleware" /\ stage = "closing"
      OBVIOUS
    <3>2. built[i].up
      BY <3>1 DEF Phases
    <3> QED
      BY <1>2, <3>1, <3>2
  <2>3. stage' \in {"after", "over"} => stacks'["route"] = <<>> /\ stacks'["bound"] = <<>>
    BY <1>1 DEF Phases, Places
  <2>4. \A i, j \in DOMAIN built' : i < j => ~(built'[i].place = "bound" /\ built'[j].place = "route")
    <3> SUFFICES ASSUME NEW i \in DOMAIN built', NEW j \in DOMAIN built', i < j
                 PROVE  ~(built'[i].place = "bound" /\ built'[j].place = "route")
      OBVIOUS
    <3>1. i \in DOMAIN built /\ j \in DOMAIN built
      BY <1>1
    <3>2. ~(built[i].place = "bound" /\ built[j].place = "route")
      BY <3>1 DEF Phases
    <3>3. built'[i].place = built[i].place /\ built'[j].place = built[j].place
      BY <1>2, <3>1
    <3> QED
      BY <3>2, <3>3
  <2>5. ASSUME NEW i \in DOMAIN built, NEW j \in DOMAIN built, i < j,
               built[i].place = built[j].place, built[i].call \in Generators, IsUp(j), j # top
        PROVE  IsUp(i) /\ i # top
    <3>1. IsUp(i)
      BY <2>5 DEF Phases
    <3>2. i \in Nat /\ j \in Nat
      BY LenProperties DEF Typed
    <3>3. i # top
      BY <1>2, <2>5, <3>2
    <3> QED
      BY <3>1, <3>3
  <2>6. \A i, j \in DOMAIN built' :
            /\ i < j /\ built'[i].place = built'[j].place
            /\ built'[i].call \in Generators /\ IsUp(j)'
            => IsUp(i)'
    <3> SUFFICES ASSUME NEW i \in DOMAIN built', NEW j \in DOMAIN built', i < j,
                        built'[i].place = built'[j].place, built'[i].call \in Generators, IsUp(j)'
                 PROVE  IsUp(i)'
      OBVIOUS
    <3>1. i \in DOMAIN built /\ j \in DOMAIN built
      BY <1>1
    <3>2. built[i].place = built[j].place /\ built[i].call \in Generators /\ IsUp(j) /\ j # top
      BY <1>2, <3>1 DEF IsUp
    <3>3. IsUp(i) /\ i # top
      BY <2>5, <3>1, <3>2
    <3> QED
      BY <1>2, <3>1, <3>3 DEF IsUp
  <2> QED
    BY <2>1, <2>2, <2>3, <2>4, <2>6 DEF Phases
<1> QED
  BY <1>1, <1>3, <1>4, <1>5, <1>6, <1>7, <1>8 DEF IInv

\* The route's stack is unwound before the one of the bound context.
LEMMA UnwindRouteKeeps ==
    ASSUME IInv, UnwindRoute
    PROVE  IInv'
<1> USE DEF UnwindRoute, Pop
<1>1. Leaving(stage') /\ stage' = stage
  BY FreeFacts DEF Leaving
<1>2. PICK p \in {"route", "bound"} : stacks[p] # <<>> /\ Pop(p)
  OBVIOUS
<1>3. p \in Places /\ p # "middleware"
  BY DEF Places
<1> QED
  BY <1>1, <1>2, <1>3, PopKeeps

\* The middleware's stack is unwound after both.
LEMMA UnwindMiddlewareKeeps ==
    ASSUME IInv, UnwindMiddleware
    PROVE  IInv'
<1> USE DEF UnwindMiddleware
<1>1. Leaving(stage')
  BY FreeFacts DEF Joined, Leaving
<1>2. "middleware" \in Places
  BY DEF Places
<1> QED
  BY <1>1, <1>2, PopKeeps

\* Every step keeps the invariant.
LEMMA StepHolds == IInv /\ [Next]_vars => IInv'
<1> SUFFICES ASSUME IInv, [Next]_vars
             PROVE  IInv'
  OBVIOUS
<1>1. ASSUME NEW r \in Endpoints, AddRouteDependency(r)
      PROVE  IInv'
  BY <1>1, AddRouteDependencyKeeps
<1>2. CASE Connect
  BY <1>2, ConnectKeeps
<1>3. ASSUME NEW t \in Tasks, NEW root \in Roots, Resolve(t, root)
      PROVE  IInv'
  BY <1>3, ResolveKeeps
<1>4. ASSUME NEW t \in Tasks, Build(t) \/ Return(t) \/ Fail(t)
      PROVE  IInv'
  BY <1>4, BuildKeeps, ReturnKeeps, FailKeeps
<1>5. ASSUME NEW u \in Tasks, Spawn(u) \/ Join(u)
      PROVE  IInv'
  BY <1>5, SpawnKeeps, JoinKeeps
<1>6. CASE CallApp \/ Respond \/ UnwindRoute \/ Returned \/ UnwindMiddleware \/ Over
  BY <1>6, CallAppKeeps, RespondKeeps, UnwindRouteKeeps, ReturnedKeeps, UnwindMiddlewareKeeps,
     OverKeeps
<1>7. CASE UNCHANGED vars
  <2> USE <1>7 DEF vars, setup, connection
  <2>1. Typed' /\ Handled'
    BY DEF IInv, Typed, Handled, cache
  <2>2. Cached' /\ Stacked' /\ Solving' /\ Single'
    BY NothingMade, JobsGoOn
  <2>3. Alive' /\ Phases'
    BY DEF IInv, Alive, Phases, Busy, IsUp
  <2> QED
    BY <2>1, <2>2, <2>3 DEF IInv
<1> QED
  BY <1>1, <1>2, <1>3, <1>4, <1>5, <1>6, <1>7 DEF Next

-----------------------------------------------------------------------------
\* Theorems

\* The inductive invariant holds throughout a connection.
THEOREM Invariance == Spec => []IInv
BY InitHolds, StepHolds, PTL DEF Spec

\* The state of a connection is well-formed; in particular, what a value is made of is not
\* younger than the value, and the route's job lasts as long as the route is solved.
THEOREM TypeCorrect == Spec => []TypeOK
<1>1. IInv => TypeOK
  <2> SUFFICES ASSUME IInv
               PROVE  TypeOK
    OBVIOUS
  <2> USE DEF IInv
  <2>1. /\ built \in Seq(Values) /\ Len(built) \in Nat /\ DOMAIN built = 1..Len(built)
        /\ \A i \in DOMAIN built : built[i] \in Values
    BY ElementOfSeq, LenProperties DEF Typed
  <2>2. caches \in [Caches -> [Calls -> 0..Len(built)]]
    <3> SUFFICES ASSUME NEW c \in Caches, NEW k \in Calls
                 PROVE  caches[c][k] \in 0..Len(built)
      BY DEF Typed
    <3>1. CASE c \in Places
      BY <2>1, <3>1 DEF Cached
    <3>2. CASE c = "connection"
      <4>1. caches["connection"][k] = 0 \/ caches["connection"][k] \in DOMAIN built
        BY DEF Cached, Holding, cache
      <4> QED
        BY <2>1, <3>2, <4>1
    <3> QED
      BY <3>1, <3>2 DEF Caches
  <2>3. ASSUME NEW i \in DOMAIN built
        PROVE  built[i] \in [call : Calls, place : Places, by : Tasks, gens : SUBSET (1..i), up : BOOLEAN]
    <3>1. built[i].gens \in SUBSET (1..i)
      BY DEF Stacked
    <3> QED
      BY <2>1, <3>1 DEF Values
  <2>4. \A p \in Places : Range(stacks[p]) \subseteq DOMAIN built
    BY DEF Stacked
  <2>5. ASSUME NEW t \in Tasks
        PROVE  jobs[t].place \in Places \cup {"none"} /\ Range(jobs[t].vals) \subseteq DOMAIN built
    <3>1. jobs[t] \in Jobs
      BY DEF Typed
    <3>2. \A k \in DOMAIN jobs[t].vals : k \in Calls /\ jobs[t].vals[k] \in DOMAIN built
      BY <3>1 DEF Jobs, Solving, Sound, Taken
    <3> QED
      BY <3>1, <3>2 DEF Jobs, Range
  <2>6. stage = "solving" <=> jobs[Main].place = "route"
    <3>1. Main \in Tasks
      BY RequestLifecycleAssumption
    <3>2. stage = "solving" => jobs[Main].place = "route"
      BY <3>1 DEF Alive, PlaceIn
    <3>3. jobs[Main].place = "route" => Busy(Main)
      BY NoJobFacts DEF Busy
    <3>4. jobs[Main].place = "route" => PlaceIn(stage) = "route"
      BY <3>1, <3>3 DEF Alive
    <3> QED
      BY <3>2, <3>4 DEF PlaceIn
  <2> QED
    BY <2>2, <2>3, <2>4, <2>5, <2>6 DEF Typed, TypeOK
<1> QED
  BY <1>1, Invariance, PTL

\* Middleware, route, endpoint and their tasks share one instance of each dependency: the
\* patched solve_dependencies() gives FastAPI the cache of the connection.  A second one is
\* made only by a task of the middleware that was left running, and the route or its endpoint.
THEOREM Shared == Spec => []OneInstance
<1>1. IInv => OneInstance
  BY DEF IInv, Single
<1> QED
  BY <1>1, Invariance, PTL

-----------------------------------------------------------------------------
\* Listings

\* What is listed of a route.
Entries == [path : Seq(Segments), route : Mounts \cup Endpoints]

\* An entry below a prefix.
LEMMA PrefixedFacts ==
    ASSUME NEW prefix \in Seq(Segments), NEW e \in Entries
    PROVE  /\ Prefixed(prefix, e) = [path |-> prefix \o e.path, route |-> e.route]
           /\ Prefixed(prefix, e) \in Entries
<1>1. PICK P, R : P = Seq(Segments) /\ R = Mounts \cup Endpoints
  OBVIOUS
<1>2. e \in [path : P, route : R]
  BY <1>1 DEF Entries
<1>3. Prefixed(prefix, e) = [path |-> prefix \o e.path, route |-> e.route]
  <2>1. \A x \in [path : P, route : R] : \A q : [x EXCEPT !.path = q] = [path |-> q, route |-> x.route]
    OBVIOUS
  <2>2. Prefixed(prefix, e) = [e EXCEPT !.path = prefix \o e.path]
    BY DEF Prefixed
  <2> QED
    BY <1>2, <2>1, <2>2
<1>4. e.path \in P /\ e.route \in R
  BY <1>2
<1>5. prefix \o e.path \in P
  BY <1>1, <1>4, ConcatProperties
<1>6. [path |-> prefix \o e.path, route |-> e.route] \in [path : P, route : R]
  BY <1>4, <1>5
<1> QED
  BY <1>1, <1>3, <1>6 DEF Entries

\* A listing below a prefix has the same entries, prefixed.
LEMMA UnderFacts ==
    ASSUME NEW prefix \in Seq(Segments), NEW s \in Seq(Entries)
    PROVE  /\ Under(prefix, s) \in Seq(Entries) /\ DOMAIN Under(prefix, s) = DOMAIN s
           /\ \A i \in DOMAIN s : Under(prefix, s)[i] = Prefixed(prefix, s[i]) /\ s[i] \in Entries
           /\ Range(Under(prefix, s)) = {Prefixed(prefix, e) : e \in Range(s)}
<1>1. Len(s) \in Nat /\ DOMAIN s = 1..Len(s) /\ \A i \in DOMAIN s : s[i] \in Entries
  BY LenProperties, ElementOfSeq
<1>2. /\ DOMAIN Under(prefix, s) = DOMAIN s
      /\ \A i \in DOMAIN s : Under(prefix, s)[i] = Prefixed(prefix, s[i])
  BY DEF Under
<1>3. \A i \in DOMAIN s : Prefixed(prefix, s[i]) \in Entries
  BY <1>1, PrefixedFacts
<1>4. Under(prefix, s) \in [1..Len(s) -> Entries]
  BY <1>1, <1>3 DEF Under
<1>5. Under(prefix, s) \in Seq(Entries)
  BY <1>1, <1>4, SeqDef
<1>6. Range(Under(prefix, s)) = {Prefixed(prefix, e) : e \in Range(s)}
  BY <1>2 DEF Range
<1> QED
  BY <1>1, <1>2, <1>5, <1>6

-----------------------------------------------------------------------------
\* Applications

\* What a container holds that holds something itself.
Held(a) == [n \in Containers |-> Range(a[n]) \cap Containers]

\* An application that nobody mounts or includes in itself.
Tree(a) ==
    /\ a \in [Containers -> Seq(Mounts \cup Includes \cup Endpoints)]
    /\ WellFounded(Containers, Held(a))

\* What is listed of a route, once the contexts of what it may include are known.
Expanded(contexts, r) ==
    IF r \in Includes THEN Under(Template[r], contexts[r])
    ELSE <<[path |-> Template[r], route |-> r]>>
Expansion(a, contexts, n) == [i \in DOMAIN a[n] |-> Expanded(contexts, a[n][i])]

\* What a container holds is known, a template of each.
LEMMA RoutesOf ==
    ASSUME NEW a, Tree(a), NEW n \in Containers
    PROVE  /\ a[n] \in Seq(Mounts \cup Includes \cup Endpoints)
           /\ Len(a[n]) \in Nat /\ DOMAIN a[n] = 1..Len(a[n])
           /\ \A i \in DOMAIN a[n] : /\ a[n][i] \in Mounts \cup Includes \cup Endpoints
                                     /\ a[n][i] \in Includes => a[n][i] \in Held(a)[n]
                                     /\ a[n][i] \in Mounts => a[n][i] \in Held(a)[n]
                                     /\ Template[a[n][i]] \in Seq(Segments)
<1>1. a[n] \in Seq(Mounts \cup Includes \cup Endpoints)
  BY DEF Tree
<1>2. /\ Len(a[n]) \in Nat /\ DOMAIN a[n] = 1..Len(a[n])
      /\ \A i \in DOMAIN a[n] : a[n][i] \in Mounts \cup Includes \cup Endpoints
  BY <1>1, LenProperties, ElementOfSeq
<1>3. \A i \in DOMAIN a[n] : a[n][i] \in Range(a[n])
  BY DEF Range
<1>4. Held(a)[n] = Range(a[n]) \cap Containers
  BY DEF Held
<1> QED
  BY <1>1, <1>2, <1>3, <1>4, RoutesAssumption DEF Containers

\* What is listed of a container are entries, if it is so for what it includes.
LEMMA ExpansionFacts ==
    ASSUME NEW a, Tree(a), NEW contexts, NEW n \in Containers,
           \A m \in Held(a)[n] : contexts[m] \in Seq(Entries)
    PROVE  /\ Expansion(a, contexts, n) \in Seq(Seq(Entries))
           /\ Len(Expansion(a, contexts, n)) = Len(a[n])
           /\ \A i \in 1..Len(a[n]) : Expansion(a, contexts, n)[i] = Expanded(contexts, a[n][i])
           /\ FlattenSeq(Expansion(a, contexts, n)) \in Seq(Entries)
<1> DEFINE parts == Expansion(a, contexts, n)
<1>1. ASSUME NEW i \in DOMAIN a[n]
      PROVE  Expanded(contexts, a[n][i]) \in Seq(Entries)
  <2>1. /\ a[n][i] \in Mounts \cup Includes \cup Endpoints
        /\ a[n][i] \in Includes => a[n][i] \in Held(a)[n]
        /\ Template[a[n][i]] \in Seq(Segments)
    BY RoutesOf
  <2>2. CASE a[n][i] \in Includes
    <3>1. contexts[a[n][i]] \in Seq(Entries)
      BY <2>1, <2>2
    <3>2. Under(Template[a[n][i]], contexts[a[n][i]]) \in Seq(Entries)
      BY <2>1, <3>1, UnderFacts
    <3> QED
      BY <2>2, <3>2 DEF Expanded
  <2>3. CASE a[n][i] \notin Includes
    <3>1. [path |-> Template[a[n][i]], route |-> a[n][i]] \in Entries
      BY <2>1, <2>3 DEF Entries
    <3>2. <<[path |-> Template[a[n][i]], route |-> a[n][i]]>> \in Seq(Entries)
      BY <3>1
    <3> QED
      BY <2>3, <3>2 DEF Expanded
  <2> QED
    BY <2>2, <2>3
<1>2. Len(a[n]) \in Nat /\ DOMAIN a[n] = 1..Len(a[n])
  BY RoutesOf
<1>3. parts \in [1..Len(a[n]) -> Seq(Entries)] /\ \A i \in 1..Len(a[n]) : parts[i] = Expanded(contexts, a[n][i])
  BY <1>1, <1>2 DEF Expansion
<1> HIDE DEF parts
<1>4. parts \in Seq(Seq(Entries)) /\ Len(parts) = Len(a[n])
  BY <1>2, <1>3, SeqDef
<1>5. FlattenSeq(parts) \in Seq(Entries)
  BY <1>4, FlattenInSeq
<1> QED
  BY <1>3, <1>4, <1>5 DEF parts

\* Contexts satisfies the equation by which it is defined.
LEMMA ContextsUnfolds ==
    ASSUME NEW a, Tree(a)
    PROVE  /\ Contexts(a) \in [Containers -> Seq(Entries)]
           /\ \A n \in Containers : Contexts(a)[n] = FlattenSeq(Expansion(a, Contexts(a), n))
<1> DEFINE V == Seq(Entries)
           value(n, g) == FlattenSeq(Expansion(a, g, n))
           step == [p \in Containers \X [Containers -> V] |-> value(p[1], p[2])]
<1>1. WellFounded(Containers, Held(a)) /\ \A n \in Containers : Held(a)[n] \subseteq Containers
  BY DEF Tree, WellFounded
<1>2. \A n \in Containers : \A g : (\A m \in Held(a)[n] : g[m] \in V) => value(n, g) \in V
  BY ExpansionFacts
<1>3. Local(Containers, V, Held(a), step)
  <2> SUFFICES ASSUME NEW n \in Containers, NEW g \in [Containers -> V], NEW h \in [Containers -> V],
                      \A m \in Held(a)[n] : g[m] = h[m]
               PROVE  step[<<n, g>>] = step[<<n, h>>]
    BY DEF Local
  <2>1. \A i \in DOMAIN a[n] : Expanded(g, a[n][i]) = Expanded(h, a[n][i])
    BY RoutesOf DEF Expanded
  <2>2. Expansion(a, g, n) = Expansion(a, h, n)
    BY <2>1 DEF Expansion
  <2> QED
    BY <2>2
<1> HIDE DEF value
<1>4. step \in [Containers \X [Containers -> V] -> V]
  BY <1>1, <1>2
<1>5. \A n \in Containers, g \in [Containers -> V] : step[<<n, g>>] = value(n, g)
  OBVIOUS
<1> HIDE DEF step
<1>6. V # {}
  BY EmptySeq
<1>7. PICK f \in [Containers -> V] : \A n \in Containers : f[n] = step[<<n, f>>]
  <2> HIDE DEF V
  <2>1. Recursive(Containers, V, Held(a), step)
    BY <1>1, <1>3, <1>4, <1>6 DEF Recursive
  <2> QED
    BY <2>1, GraphRecursion DEF HasSolution
<1>8. \A n \in Containers : f[n] = value(n, f)
  BY <1>5, <1>7
<1> DEFINE contexts == CHOOSE g : g = [n \in Containers |-> value(n, g)]
<1>9. contexts = [n \in Containers |-> value(n, contexts)]
  <2>1. f = [n \in Containers |-> value(n, f)]
    BY <1>8
  <2> QED
    BY <2>1
<1>10. Contexts(a) = contexts
  BY DEF Contexts, value, Expansion, Expanded
<1> HIDE DEF contexts
<1> DEFINE T == {n \in Containers : contexts[n] \in V}
<1>11. Inductive(Containers, Held(a), T)
  BY <1>2, <1>9 DEF Inductive
<1>12. Containers \subseteq T
  <2> HIDE DEF T
  <2> QED
    BY <1>1, <1>11, GraphInduction
<1>13. contexts \in [Containers -> V]
  BY <1>9, <1>12
<1> QED
  BY <1>9, <1>10, <1>13 DEF value

\* The mounts that a container enters.
Mounted(a) == [n \in Containers |-> {m \in Mounts : \E e \in Range(Contexts(a)[n]) : e.route = m}]

\* What is listed of a container is listed of something it holds.
LEMMA ContextsFrom ==
    ASSUME NEW a, Tree(a), NEW n \in Containers, NEW e \in Range(Contexts(a)[n])
    PROVE  /\ e \in Entries
           /\ \/ e.route \in Range(a[n])
              \/ \E r \in Held(a)[n] : \E f \in Range(Contexts(a)[r]) : f.route = e.route
<1>1. /\ Contexts(a) \in [Containers -> Seq(Entries)]
      /\ Contexts(a)[n] = FlattenSeq(Expansion(a, Contexts(a), n))
      /\ \A m \in Held(a)[n] : m \in Containers /\ Contexts(a)[m] \in Seq(Entries)
  BY ContextsUnfolds DEF Held
<1>2. /\ Expansion(a, Contexts(a), n) \in Seq(Seq(Entries))
      /\ Len(Expansion(a, Contexts(a), n)) = Len(a[n])
      /\ \A i \in 1..Len(a[n]) : Expansion(a, Contexts(a), n)[i] = Expanded(Contexts(a), a[n][i])
  BY <1>1, ExpansionFacts
<1>3. PICK i \in 1..Len(a[n]) : e \in Range(Expanded(Contexts(a), a[n][i]))
  BY <1>1, <1>2, FlattenRange
<1>4. /\ i \in DOMAIN a[n] /\ a[n][i] \in Range(a[n])
      /\ a[n][i] \in Includes => a[n][i] \in Held(a)[n]
      /\ a[n][i] \in Mounts \cup Includes \cup Endpoints
      /\ Template[a[n][i]] \in Seq(Segments)
  BY RoutesOf DEF Range
<1>5. e \in Entries
  <2>1. Contexts(a)[n] \in Seq(Entries)
    BY <1>1
  <2>2. \A j \in DOMAIN Contexts(a)[n] : Contexts(a)[n][j] \in Entries
    BY <2>1, LenProperties, ElementOfSeq
  <2> QED
    BY <2>2 DEF Range
<1>6. CASE a[n][i] \in Includes
  <2>1. PICK r : r = a[n][i]
    OBVIOUS
  <2>2. r \in Held(a)[n] /\ Contexts(a)[r] \in Seq(Entries)
    BY <1>1, <1>4, <1>6, <2>1
  <2>3. e \in Range(Under(Template[r], Contexts(a)[r]))
    BY <1>3, <1>6, <2>1 DEF Expanded
  <2>4. PICK f \in Range(Contexts(a)[r]) : e = Prefixed(Template[r], f)
    BY <1>4, <2>1, <2>2, <2>3, UnderFacts
  <2>5. f \in Entries
    <3>1. \A j \in DOMAIN Contexts(a)[r] : Contexts(a)[r][j] \in Entries
      BY <2>2, LenProperties, ElementOfSeq
    <3> QED
      BY <3>1 DEF Range
  <2>6. e = [path |-> Template[r] \o f.path, route |-> f.route]
    BY <1>4, <2>1, <2>4, <2>5, PrefixedFacts
  <2>7. e.route = f.route
    BY <2>6
  <2> QED
    BY <1>5, <2>2, <2>7
<1>7. CASE a[n][i] \notin Includes
  <2>1. Range(Expanded(Contexts(a), a[n][i])) = {[path |-> Template[a[n][i]], route |-> a[n][i]]}
    BY <1>7 DEF Expanded, Range
  <2>2. e.route = a[n][i]
    BY <1>3, <2>1
  <2> QED
    BY <1>4, <1>5, <2>2
<1> QED
  BY <1>6, <1>7

\* No mount enters itself, in however many steps.
LEMMA MountedAcyclic ==
    ASSUME NEW a, Tree(a)
    PROVE  WellFounded(Containers, Mounted(a)) /\ \A n \in Containers : Mounted(a)[n] \subseteq Containers
<1>1. /\ Mounted(a) \in [Containers -> SUBSET Containers]
      /\ \A n \in Containers : Mounted(a)[n] = {m \in Mounts : \E e \in Range(Contexts(a)[n]) : e.route = m}
  BY DEF Mounted, Containers
<1>2. ASSUME NEW n \in Containers, NEW m \in Mounted(a)[n], m \notin Held(a)[n]
      PROVE  \E r \in Held(a)[n] : m \in Mounted(a)[r]
  <2>1. m \in Containers /\ m \in Mounts
    BY <1>1, <1>2 DEF Containers
  <2>2. PICK e \in Range(Contexts(a)[n]) : e.route = m
    BY <1>1
  <2>3. m \notin Range(a[n])
    BY <1>2, <2>1 DEF Held
  <2>4. PICK r \in Held(a)[n] : \E f \in Range(Contexts(a)[r]) : f.route = m
    BY <2>2, <2>3, ContextsFrom
  <2>5. r \in Containers
    BY DEF Held
  <2> QED
    BY <1>1, <2>1, <2>4, <2>5
<1>3. ASSUME NEW S \in SUBSET Containers, S # {}, \A n \in S : Mounted(a)[n] \cap S # {}
      PROVE  FALSE
  <2> DEFINE U == {n \in Containers : Mounted(a)[n] \cap S # {}}
  <2>1. U \in SUBSET Containers /\ U # {} /\ S \subseteq U
    BY <1>3
  <2>2. PICK n \in U : Held(a)[n] \cap U = {}
    BY <2>1 DEF Tree, WellFounded
  <2>3. PICK m \in S : m \in Mounted(a)[n]
    BY <2>2
  <2>4. m \notin Held(a)[n]
    BY <2>1, <2>2, <2>3
  <2>5. PICK r \in Held(a)[n] : m \in Mounted(a)[r]
    BY <1>2, <2>2, <2>3, <2>4
  <2>6. r \in Containers
    BY <2>2 DEF Held
  <2>7. r \in U
    BY <2>3, <2>5, <2>6
  <2> QED
    BY <2>2, <2>5, <2>7
<1> QED
  BY <1>1, <1>3 DEF WellFounded

\* What a container lists is indexed by positions; the mounts it enters are Mounted.
LEMMA ContextFacts ==
    ASSUME NEW a, Tree(a), NEW n \in Containers
    PROVE  /\ Contexts(a)[n] \in Seq(Entries)
           /\ Len(Contexts(a)[n]) \in Nat /\ DOMAIN Contexts(a)[n] = 1..Len(Contexts(a)[n])
           /\ \A i \in DOMAIN Contexts(a)[n] :
                 /\ Contexts(a)[n][i] \in Entries
                 /\ Contexts(a)[n][i].path \in Seq(Segments)
                 /\ Contexts(a)[n][i].route \in Mounts => Contexts(a)[n][i].route \in Mounted(a)[n]
<1>1. Contexts(a)[n] \in Seq(Entries)
  BY ContextsUnfolds
<1>2. /\ Len(Contexts(a)[n]) \in Nat /\ DOMAIN Contexts(a)[n] = 1..Len(Contexts(a)[n])
      /\ \A i \in DOMAIN Contexts(a)[n] : Contexts(a)[n][i] \in Entries
  BY <1>1, LenProperties, ElementOfSeq
<1>3. \A e \in Entries : e.path \in Seq(Segments)
  BY DEF Entries
<1>4. \A i \in DOMAIN Contexts(a)[n] : Contexts(a)[n][i] \in Range(Contexts(a)[n])
  BY DEF Range
<1>5. \A i \in DOMAIN Contexts(a)[n] :
          Contexts(a)[n][i].route \in Mounts => Contexts(a)[n][i].route \in Mounted(a)[n]
  BY <1>4 DEF Mounted
<1> QED
  BY <1>1, <1>2, <1>3, <1>5

-----------------------------------------------------------------------------
\* iter_routes()

\* What is listed of a route, once it is known what is listed of the mounts.
Listed(listed, at) == Inside(at, IF at.route \in Mounts THEN listed[at.route] ELSE <<>>)
Listing(a, listed, n) == [i \in DOMAIN Contexts(a)[n] |-> Listed(listed, Contexts(a)[n][i])]

\* What is listed of a container are entries, if it is so for what it mounts.
LEMMA ListingFacts ==
    ASSUME NEW a, Tree(a), NEW listed, NEW n \in Containers,
           \A m \in Mounted(a)[n] : listed[m] \in Seq(Entries)
    PROVE  /\ Listing(a, listed, n) \in Seq(Seq(Entries))
           /\ Len(Listing(a, listed, n)) = Len(Contexts(a)[n])
           /\ \A i \in 1..Len(Contexts(a)[n]) :
                 Listing(a, listed, n)[i] = Listed(listed, Contexts(a)[n][i])
           /\ FlattenSeq(Listing(a, listed, n)) \in Seq(Entries)
<1> DEFINE parts == Listing(a, listed, n)
<1>1. ASSUME NEW i \in DOMAIN Contexts(a)[n]
      PROVE  Listed(listed, Contexts(a)[n][i]) \in Seq(Entries)
  <2>1. PICK at : at = Contexts(a)[n][i]
    OBVIOUS
  <2>2. at \in Entries /\ at.path \in Seq(Segments) /\ (at.route \in Mounts => at.route \in Mounted(a)[n])
    BY <2>1, ContextFacts
  <2>3. PICK inner : inner = IF at.route \in Mounts THEN listed[at.route] ELSE <<>>
    OBVIOUS
  <2>4. inner \in Seq(Entries)
    BY <2>2, <2>3, EmptySeq
  <2>5. Under(at.path, inner) \in Seq(Entries) /\ <<at>> \in Seq(Entries)
    BY <2>2, <2>4, UnderFacts
  <2>6. <<at>> \o Under(at.path, inner) \in Seq(Entries)
    BY <2>5, ConcatProperties
  <2> QED
    BY <2>1, <2>3, <2>6 DEF Listed, Inside
<1>2. Len(Contexts(a)[n]) \in Nat /\ DOMAIN Contexts(a)[n] = 1..Len(Contexts(a)[n])
  BY ContextFacts
<1>3. /\ parts \in [1..Len(Contexts(a)[n]) -> Seq(Entries)]
      /\ \A i \in 1..Len(Contexts(a)[n]) : parts[i] = Listed(listed, Contexts(a)[n][i])
  BY <1>1, <1>2 DEF Listing
<1> HIDE DEF parts
<1>4. parts \in Seq(Seq(Entries)) /\ Len(parts) = Len(Contexts(a)[n])
  BY <1>2, <1>3, SeqDef
<1>5. FlattenSeq(parts) \in Seq(Entries)
  BY <1>4, FlattenInSeq
<1> QED
  BY <1>3, <1>4, <1>5 DEF parts

\* The walk of iter_routes() satisfies the equation by which it is defined.
LEMMA IterRoutesUnfolds ==
    ASSUME NEW a, Tree(a)
    PROVE  \E listed \in [Containers -> Seq(Entries)] :
              /\ IterRoutes(a) = listed[Root]
              /\ \A n \in Containers : listed[n] = FlattenSeq(Listing(a, listed, n))
<1> DEFINE V == Seq(Entries)
           value(n, g) == FlattenSeq(Listing(a, g, n))
           step == [p \in Containers \X [Containers -> V] |-> value(p[1], p[2])]
<1>1. WellFounded(Containers, Mounted(a)) /\ \A n \in Containers : Mounted(a)[n] \subseteq Containers
  BY MountedAcyclic
<1>2. \A n \in Containers : \A g : (\A m \in Mounted(a)[n] : g[m] \in V) => value(n, g) \in V
  BY ListingFacts
<1>3. Local(Containers, V, Mounted(a), step)
  <2> SUFFICES ASSUME NEW n \in Containers, NEW g \in [Containers -> V], NEW h \in [Containers -> V],
                      \A m \in Mounted(a)[n] : g[m] = h[m]
               PROVE  step[<<n, g>>] = step[<<n, h>>]
    BY DEF Local
  <2>1. \A i \in DOMAIN Contexts(a)[n] : Listed(g, Contexts(a)[n][i]) = Listed(h, Contexts(a)[n][i])
    BY ContextFacts DEF Listed
  <2>2. Listing(a, g, n) = Listing(a, h, n)
    BY <2>1 DEF Listing
  <2> QED
    BY <2>2
<1> HIDE DEF value
<1>4. step \in [Containers \X [Containers -> V] -> V]
  BY <1>1, <1>2
<1>5. \A n \in Containers, g \in [Containers -> V] : step[<<n, g>>] = value(n, g)
  OBVIOUS
<1> HIDE DEF step
<1>6. V # {}
  BY EmptySeq
<1>7. PICK f \in [Containers -> V] : \A n \in Containers : f[n] = step[<<n, f>>]
  <2> HIDE DEF V
  <2>1. Recursive(Containers, V, Mounted(a), step)
    BY <1>1, <1>3, <1>4, <1>6 DEF Recursive
  <2> QED
    BY <2>1, GraphRecursion DEF HasSolution
<1>8. \A n \in Containers : f[n] = value(n, f)
  BY <1>5, <1>7
<1> DEFINE listed == CHOOSE g : g = [n \in Containers |-> value(n, g)]
<1>9. listed = [n \in Containers |-> value(n, listed)]
  <2>1. f = [n \in Containers |-> value(n, f)]
    BY <1>8
  <2> QED
    BY <2>1
<1>10. IterRoutes(a) = listed[Root]
  BY DEF IterRoutes, value, Listing, Listed
<1> HIDE DEF listed
<1> DEFINE T == {n \in Containers : listed[n] \in V}
<1>11. Inductive(Containers, Mounted(a), T)
  BY <1>2, <1>9 DEF Inductive
<1>12. Containers \subseteq T
  <2> HIDE DEF T
  <2> QED
    BY <1>1, <1>11, GraphInduction
<1>13. listed \in [Containers -> V]
  BY <1>9, <1>12
<1> QED
  BY <1>9, <1>10, <1>13 DEF value

-----------------------------------------------------------------------------
\* match_route() and the router

\* What is left of a path behind a template that it starts with.
LEMMA RestFacts ==
    ASSUME NEW template \in Seq(Segments), NEW path \in Seq(Segments), Starts(template, path)
    PROVE  /\ Rest(template, path) \in Seq(Segments)
           /\ Len(template) \in Nat /\ Len(path) \in Nat /\ Len(template) <= Len(path)
           /\ Len(Rest(template, path)) = Len(path) - Len(template)
           /\ \A i \in 1..(Len(path) - Len(template)) : Rest(template, path)[i] = path[Len(template) + i]
<1>1. Len(template) \in Nat /\ Len(path) \in Nat /\ Len(template) <= Len(path)
  BY LenProperties DEF Starts
<1>2. PICK m \in Int, n \in Int : m = Len(template) + 1 /\ n = Len(path)
  BY <1>1
<1>3. \A i \in m..n : path[i] \in Segments
  BY <1>1, <1>2, ElementOfSeq
<1>4. /\ SubSeq(path, m, n) \in Seq(Segments)
      /\ Len(SubSeq(path, m, n)) = IF m <= n THEN n - m + 1 ELSE 0
      /\ \A i \in 1..(n - m + 1) : SubSeq(path, m, n)[i] = path[m + i - 1]
  BY <1>3, SubSeqProperties
<1>5. Rest(template, path) = SubSeq(path, m, n)
  BY <1>2 DEF Rest
<1>6. (IF m <= n THEN n - m + 1 ELSE 0) = Len(path) - Len(template) /\ n - m + 1 = Len(path) - Len(template)
  BY <1>1, <1>2
<1>7. \A i \in 1..(Len(path) - Len(template)) : m + i - 1 = Len(template) + i
  BY <1>1, <1>2
<1> QED
  BY <1>1, <1>4, <1>5, <1>6, <1>7

\* What match_route() returns, and what it takes for a match, once it is known what it
\* does in the mounts.
Answers == Entries \cup {NoRoute}
Matches == [Seq(Segments) -> Answers]
Inner(match, at, path) == match[at.route][Rest(at.path, path)]
Hits(a, match, n, path, method) ==
    {i \in DOMAIN Contexts(a)[n] :
        \/ Full(Contexts(a)[n][i], path, method)
        \/ Enters(Contexts(a)[n][i], path) /\ Inner(match, Contexts(a)[n][i], path) # NoRoute}
Match(a, match, n, path, method) ==
    LET hits == Hits(a, match, n, path, method)
        at == Contexts(a)[n][Min(hits)]
    IN  IF hits = {} THEN Partial(Contexts(a)[n], path)
        ELSE IF at.route \in Mounts THEN Prefixed(at.path, Inner(match, at, path))
        ELSE at

\* The route is the first that is a match, or the first that fits.
FirstHit(a, match, n, path, method, d) ==
    d \in Hits(a, match, n, path, method) /\ \A i \in Hits(a, match, n, path, method) : d <= i

\* An endpoint that fits, if nothing matches.
LEMMA PartialFacts ==
    ASSUME NEW a, Tree(a), NEW n \in Containers, NEW path
    PROVE  \/ Partial(Contexts(a)[n], path) = NoRoute
           \/ \E i \in DOMAIN Contexts(a)[n] : /\ Fits(Contexts(a)[n][i], path)
                                               /\ Partial(Contexts(a)[n], path) = Contexts(a)[n][i]
<1> DEFINE fits == {i \in DOMAIN Contexts(a)[n] : Fits(Contexts(a)[n][i], path)}
<1>1. fits \in SUBSET Nat
  BY ContextFacts
<1>2. fits # {} => Min(fits) \in fits
  <2> HIDE DEF fits
  <2> QED
    BY <1>1, MinFacts
<1>3. Partial(Contexts(a)[n], path) = IF fits = {} THEN NoRoute ELSE Contexts(a)[n][Min(fits)]
  BY DEF Partial
<1> QED
  BY <1>2, <1>3

\* The ways in which match_route() ends.
LEMMA MatchCases ==
    ASSUME NEW a, Tree(a), NEW match, NEW n \in Containers, NEW path \in Seq(Segments), NEW method,
           \A m \in Mounted(a)[n] : match[m] \in Matches
    PROVE  \/ /\ Hits(a, match, n, path, method) = {}
              /\ Match(a, match, n, path, method) = Partial(Contexts(a)[n], path)
           \/ \E d \in DOMAIN Contexts(a)[n] :
                 /\ FirstHit(a, match, n, path, method, d)
                 /\ Full(Contexts(a)[n][d], path, method)
                 /\ Contexts(a)[n][d].route \notin Mounts
                 /\ Match(a, match, n, path, method) = Contexts(a)[n][d]
           \/ \E d \in DOMAIN Contexts(a)[n] :
                 /\ FirstHit(a, match, n, path, method, d)
                 /\ Enters(Contexts(a)[n][d], path)
                 /\ Inner(match, Contexts(a)[n][d], path) \in Entries
                 /\ Inner(match, Contexts(a)[n][d], path) # NoRoute
                 /\ Match(a, match, n, path, method) =
                       Prefixed(Contexts(a)[n][d].path, Inner(match, Contexts(a)[n][d], path))
<1> DEFINE hits == Hits(a, match, n, path, method)
           d == Min(hits)
           at == Contexts(a)[n][d]
<1>1. hits \in SUBSET DOMAIN Contexts(a)[n] /\ hits \in SUBSET Nat
  BY ContextFacts DEF Hits
<1>2. Match(a, match, n, path, method) =
          IF hits = {} THEN Partial(Contexts(a)[n], path)
          ELSE IF at.route \in Mounts THEN Prefixed(at.path, Inner(match, at, path))
          ELSE at
  BY DEF Match
<1>3. ASSUME hits # {}
      PROVE  d \in hits /\ d \in DOMAIN Contexts(a)[n] /\ FirstHit(a, match, n, path, method, d)
  <2>1. d \in hits /\ \A i \in hits : d <= i
    <3> HIDE DEF hits
    <3> QED
      BY <1>1, <1>3, MinFacts
  <2> QED
    BY <1>1, <2>1 DEF FirstHit
<1>4. CASE hits = {}
  BY <1>2, <1>4
<1>5. CASE hits # {} /\ at.route \in Mounts
  <2>1. d \in DOMAIN Contexts(a)[n] /\ FirstHit(a, match, n, path, method, d) /\ d \in hits
    BY <1>3, <1>5
  <2>2. at.route \notin Endpoints
    BY <1>5, RoutesAssumption DEF Containers
  <2>3. Enters(at, path) /\ Inner(match, at, path) # NoRoute
    BY <2>1, <2>2 DEF Hits, Full, Fits
  <2>4. at.path \in Seq(Segments) /\ at.route \in Mounted(a)[n] /\ Starts(at.path, path)
    BY <1>5, <2>1, <2>3, ContextFacts DEF Enters
  <2>5. Rest(at.path, path) \in Seq(Segments)
    BY <2>4, RestFacts
  <2>6. match[at.route] \in Matches
    BY <2>4
  <2>7. Inner(match, at, path) \in Answers
    BY <2>5, <2>6 DEF Matches, Inner
  <2>8. Inner(match, at, path) \in Entries
    BY <2>3, <2>7 DEF Answers
  <2>9. Match(a, match, n, path, method) = Prefixed(at.path, Inner(match, at, path))
    BY <1>2, <1>5
  <2> QED
    BY <2>1, <2>3, <2>8, <2>9
<1>6. CASE hits # {} /\ at.route \notin Mounts
  <2>1. d \in DOMAIN Contexts(a)[n] /\ FirstHit(a, match, n, path, method, d) /\ d \in hits
    BY <1>3, <1>6
  <2>2. Full(at, path, method)
    BY <1>6, <2>1 DEF Hits, Enters
  <2>3. Match(a, match, n, path, method) = at
    BY <1>2, <1>6
  <2> QED
    BY <1>6, <2>1, <2>2, <2>3
<1> QED
  BY <1>4, <1>5, <1>6

\* match_route() satisfies the equation by which it is defined.
LEMMA MatchUnfolds ==
    ASSUME NEW a, Tree(a), NEW req, req.path \in Seq(Segments)
    PROVE  \E match \in [Containers -> Matches] :
              /\ MatchRoute(a, req) = match[Root][req.path]
              /\ \A n \in Containers, path \in Seq(Segments) :
                    match[n][path] = Match(a, match, n, path, req.method)
<1> DEFINE V == Matches
           value(n, g) == [path \in Seq(Segments) |-> Match(a, g, n, path, req.method)]
           step == [p \in Containers \X [Containers -> V] |-> value(p[1], p[2])]
<1>1. WellFounded(Containers, Mounted(a)) /\ \A n \in Containers : Mounted(a)[n] \subseteq Containers
  BY MountedAcyclic
<1>2. \A n \in Containers : \A g : (\A m \in Mounted(a)[n] : g[m] \in V) => value(n, g) \in V
  <2> SUFFICES ASSUME NEW n \in Containers, NEW g, \A m \in Mounted(a)[n] : g[m] \in Matches,
                      NEW path \in Seq(Segments)
               PROVE  Match(a, g, n, path, req.method) \in Answers
    BY DEF Matches
  <2>1. \A i \in DOMAIN Contexts(a)[n] : Contexts(a)[n][i] \in Entries /\ Contexts(a)[n][i].path \in Seq(Segments)
    BY ContextFacts
  <2>2. Partial(Contexts(a)[n], path) \in Answers
    BY <2>1, PartialFacts DEF Answers
  <2>3. \A p \in Seq(Segments), e \in Entries : Prefixed(p, e) \in Answers
    BY PrefixedFacts DEF Answers
  <2>4. \A e \in Entries : e \in Answers
    BY DEF Answers
  <2>5. \/ Match(a, g, n, path, req.method) = Partial(Contexts(a)[n], path)
        \/ \E d \in DOMAIN Contexts(a)[n] : Match(a, g, n, path, req.method) = Contexts(a)[n][d]
        \/ \E d \in DOMAIN Contexts(a)[n], e \in Entries :
              Match(a, g, n, path, req.method) = Prefixed(Contexts(a)[n][d].path, e)
    BY MatchCases
  <2> QED
    BY <2>1, <2>2, <2>3, <2>4, <2>5
<1>3. Local(Containers, V, Mounted(a), step)
  <2> SUFFICES ASSUME NEW n \in Containers, NEW g \in [Containers -> V], NEW h \in [Containers -> V],
                      \A m \in Mounted(a)[n] : g[m] = h[m]
               PROVE  step[<<n, g>>] = step[<<n, h>>]
    BY DEF Local
  <2>1. ASSUME NEW path \in Seq(Segments)
        PROVE  Match(a, g, n, path, req.method) = Match(a, h, n, path, req.method)
    <3>1. \A i \in DOMAIN Contexts(a)[n] :
              Contexts(a)[n][i].route \in Mounts =>
                  Inner(g, Contexts(a)[n][i], path) = Inner(h, Contexts(a)[n][i], path)
      BY ContextFacts DEF Inner
    <3>2. Hits(a, g, n, path, req.method) = Hits(a, h, n, path, req.method)
      BY <3>1 DEF Hits, Enters
    <3>3. PICK hits : hits = Hits(a, g, n, path, req.method)
      OBVIOUS
    <3>4. hits \in SUBSET Nat /\ hits \subseteq DOMAIN Contexts(a)[n]
      BY <3>3, ContextFacts DEF Hits
    <3>5. hits # {} => Min(hits) \in DOMAIN Contexts(a)[n]
      BY <3>4, MinFacts
    <3> QED
      BY <3>1, <3>2, <3>3, <3>5 DEF Match
  <2>2. value(n, g) = value(n, h)
    BY <2>1
  <2> HIDE DEF value
  <2> QED
    BY <2>2
<1> HIDE DEF value
<1>4. step \in [Containers \X [Containers -> V] -> V]
  BY <1>1, <1>2
<1>5. \A n \in Containers, g \in [Containers -> V] : step[<<n, g>>] = value(n, g)
  OBVIOUS
<1> HIDE DEF step
<1>6. V # {}
  <2>1. [path \in Seq(Segments) |-> NoRoute] \in V
    BY DEF Matches, Answers
  <2> QED
    BY <2>1
<1>7. PICK f \in [Containers -> V] : \A n \in Containers : f[n] = step[<<n, f>>]
  <2> HIDE DEF V
  <2>1. Recursive(Containers, V, Mounted(a), step)
    BY <1>1, <1>3, <1>4, <1>6 DEF Recursive
  <2> QED
    BY <2>1, GraphRecursion DEF HasSolution
<1>8. \A n \in Containers : f[n] = value(n, f)
  BY <1>5, <1>7
<1> DEFINE match == CHOOSE g : g = [n \in Containers |-> value(n, g)]
<1>9. match = [n \in Containers |-> value(n, match)]
  <2>1. f = [n \in Containers |-> value(n, f)]
    BY <1>8
  <2> QED
    BY <2>1
<1>10. MatchRoute(a, req) = match[Root][req.path]
  BY DEF MatchRoute, value, Match, Hits, Inner
<1> HIDE DEF match
<1> DEFINE T == {n \in Containers : match[n] \in V}
<1>11. Inductive(Containers, Mounted(a), T)
  BY <1>2, <1>9 DEF Inductive
<1>12. Containers \subseteq T
  <2> HIDE DEF T
  <2> QED
    BY <1>1, <1>11, GraphInduction
<1>13. match \in [Containers -> V]
  BY <1>9, <1>12
<1>14. \A n \in Containers, path \in Seq(Segments) : match[n][path] = Match(a, match, n, path, req.method)
  BY <1>9 DEF value
<1> QED
  BY <1>10, <1>13, <1>14

\* What the router does with a request, once it is known what it does in the mounts.
Takers(a, n, path, method) ==
    {i \in DOMAIN Contexts(a)[n] : \/ Full(Contexts(a)[n][i], path, method)
                                   \/ Enters(Contexts(a)[n][i], path)}
Handle(a, handle, n, path, method) ==
    LET hits == Takers(a, n, path, method)
        at == Contexts(a)[n][Min(hits)]
    IN  IF hits = {} THEN Partial(Contexts(a)[n], path).route
        ELSE IF at.route \in Mounts THEN handle[at.route][Rest(at.path, path)]
        ELSE at.route
Handlers == [Seq(Segments) -> Endpoints \cup {Root}]

\* The first route that takes a request.
FirstTaker(a, n, path, method, d) ==
    d \in Takers(a, n, path, method) /\ \A i \in Takers(a, n, path, method) : d <= i

\* The ways in which the router ends.
LEMMA HandleCases ==
    ASSUME NEW a, Tree(a), NEW handle, NEW n \in Containers, NEW path \in Seq(Segments), NEW method
    PROVE  \/ /\ Takers(a, n, path, method) = {}
              /\ Handle(a, handle, n, path, method) = Partial(Contexts(a)[n], path).route
           \/ \E d \in DOMAIN Contexts(a)[n] :
                 /\ FirstTaker(a, n, path, method, d)
                 /\ Full(Contexts(a)[n][d], path, method)
                 /\ Handle(a, handle, n, path, method) = Contexts(a)[n][d].route
           \/ \E d \in DOMAIN Contexts(a)[n] :
                 /\ FirstTaker(a, n, path, method, d)
                 /\ Enters(Contexts(a)[n][d], path)
                 /\ Contexts(a)[n][d].route \in Mounted(a)[n]
                 /\ Contexts(a)[n][d].path \in Seq(Segments)
                 /\ Rest(Contexts(a)[n][d].path, path) \in Seq(Segments)
                 /\ Handle(a, handle, n, path, method) =
                       handle[Contexts(a)[n][d].route][Rest(Contexts(a)[n][d].path, path)]
<1> DEFINE hits == Takers(a, n, path, method)
           d == Min(hits)
           at == Contexts(a)[n][d]
<1>1. hits \in SUBSET DOMAIN Contexts(a)[n] /\ hits \in SUBSET Nat
  BY ContextFacts DEF Takers
<1>2. Handle(a, handle, n, path, method) =
          IF hits = {} THEN Partial(Contexts(a)[n], path).route
          ELSE IF at.route \in Mounts THEN handle[at.route][Rest(at.path, path)]
          ELSE at.route
  BY DEF Handle
<1>3. ASSUME hits # {}
      PROVE  d \in hits /\ d \in DOMAIN Contexts(a)[n] /\ FirstTaker(a, n, path, method, d)
  <2>1. d \in hits /\ \A i \in hits : d <= i
    <3> HIDE DEF hits
    <3> QED
      BY <1>1, <1>3, MinFacts
  <2> QED
    BY <1>1, <2>1 DEF FirstTaker
<1>4. CASE hits = {}
  BY <1>2, <1>4
<1>5. CASE hits # {} /\ at.route \in Mounts
  <2>1. d \in DOMAIN Contexts(a)[n] /\ FirstTaker(a, n, path, method, d) /\ d \in hits
    BY <1>3, <1>5
  <2>2. at.route \notin Endpoints
    BY <1>5, RoutesAssumption DEF Containers
  <2>3. Enters(at, path)
    BY <2>1, <2>2 DEF Takers, Full, Fits
  <2>4. at.path \in Seq(Segments) /\ at.route \in Mounted(a)[n] /\ Starts(at.path, path)
    BY <1>5, <2>1, <2>3, ContextFacts DEF Enters
  <2>5. Rest(at.path, path) \in Seq(Segments)
    BY <2>4, RestFacts
  <2>6. Handle(a, handle, n, path, method) = handle[at.route][Rest(at.path, path)]
    BY <1>2, <1>5
  <2> QED
    BY <2>1, <2>3, <2>4, <2>5, <2>6
<1>6. CASE hits # {} /\ at.route \notin Mounts
  <2>1. d \in DOMAIN Contexts(a)[n] /\ FirstTaker(a, n, path, method, d) /\ d \in hits
    BY <1>3, <1>6
  <2>2. Full(at, path, method)
    BY <1>6, <2>1 DEF Takers, Enters
  <2>3. Handle(a, handle, n, path, method) = at.route
    BY <1>2, <1>6
  <2> QED
    BY <2>1, <2>2, <2>3
<1> QED
  BY <1>4, <1>5, <1>6

\* The router satisfies the equation by which it is defined.
LEMMA DispatchUnfolds ==
    ASSUME NEW a, Tree(a), NEW req, req.path \in Seq(Segments)
    PROVE  \E handle \in [Containers -> Handlers] :
              /\ Dispatch(a, req) = handle[Root][req.path]
              /\ \A n \in Containers, path \in Seq(Segments) :
                    handle[n][path] = Handle(a, handle, n, path, req.method)
<1> DEFINE V == Handlers
           value(n, g) == [path \in Seq(Segments) |-> Handle(a, g, n, path, req.method)]
           step == [p \in Containers \X [Containers -> V] |-> value(p[1], p[2])]
<1>1. WellFounded(Containers, Mounted(a)) /\ \A n \in Containers : Mounted(a)[n] \subseteq Containers
  BY MountedAcyclic
<1>2. \A n \in Containers : \A g : (\A m \in Mounted(a)[n] : g[m] \in V) => value(n, g) \in V
  <2> SUFFICES ASSUME NEW n \in Containers, NEW g, \A m \in Mounted(a)[n] : g[m] \in Handlers,
                      NEW path \in Seq(Segments)
               PROVE  Handle(a, g, n, path, req.method) \in Endpoints \cup {Root}
    BY DEF Handlers
  <2>1. \A m \in Mounted(a)[n], p \in Seq(Segments) : g[m][p] \in Endpoints \cup {Root}
    BY DEF Handlers
  <2>2. Partial(Contexts(a)[n], path).route \in Endpoints \cup {Root}
    BY PartialFacts DEF Fits, NoRoute
  <2>3. \/ Handle(a, g, n, path, req.method) = Partial(Contexts(a)[n], path).route
        \/ \E d \in DOMAIN Contexts(a)[n] : /\ Full(Contexts(a)[n][d], path, req.method)
                                            /\ Handle(a, g, n, path, req.method) = Contexts(a)[n][d].route
        \/ \E m \in Mounted(a)[n], p \in Seq(Segments) : Handle(a, g, n, path, req.method) = g[m][p]
    <3>0. PICK method : method = req.method
      OBVIOUS
    <3>1. \/ Handle(a, g, n, path, req.method) = Partial(Contexts(a)[n], path).route
          \/ \E d \in DOMAIN Contexts(a)[n] :
                /\ Full(Contexts(a)[n][d], path, req.method)
                /\ Handle(a, g, n, path, req.method) = Contexts(a)[n][d].route
          \/ \E d \in DOMAIN Contexts(a)[n] :
                /\ Contexts(a)[n][d].route \in Mounted(a)[n]
                /\ Rest(Contexts(a)[n][d].path, path) \in Seq(Segments)
                /\ Handle(a, g, n, path, req.method) =
                      g[Contexts(a)[n][d].route][Rest(Contexts(a)[n][d].path, path)]
      <4>1. \/ Handle(a, g, n, path, method) = Partial(Contexts(a)[n], path).route
            \/ \E d \in DOMAIN Contexts(a)[n] :
                  /\ FirstTaker(a, n, path, method, d)
                  /\ Full(Contexts(a)[n][d], path, method)
                  /\ Handle(a, g, n, path, method) = Contexts(a)[n][d].route
            \/ \E d \in DOMAIN Contexts(a)[n] :
                  /\ FirstTaker(a, n, path, method, d)
                  /\ Enters(Contexts(a)[n][d], path)
                  /\ Contexts(a)[n][d].route \in Mounted(a)[n]
                  /\ Contexts(a)[n][d].path \in Seq(Segments)
                  /\ Rest(Contexts(a)[n][d].path, path) \in Seq(Segments)
                  /\ Handle(a, g, n, path, method) =
                        g[Contexts(a)[n][d].route][Rest(Contexts(a)[n][d].path, path)]
        BY HandleCases, SMTT(20)
      <4> QED
        BY <3>0, <4>1
    <3> QED
      BY <3>1
  <2> QED
    BY <2>1, <2>2, <2>3 DEF Full, Fits
<1>3. Local(Containers, V, Mounted(a), step)
  <2> SUFFICES ASSUME NEW n \in Containers, NEW g \in [Containers -> V], NEW h \in [Containers -> V],
                      \A m \in Mounted(a)[n] : g[m] = h[m]
               PROVE  step[<<n, g>>] = step[<<n, h>>]
    BY DEF Local
  <2>1. ASSUME NEW path \in Seq(Segments)
        PROVE  Handle(a, g, n, path, req.method) = Handle(a, h, n, path, req.method)
    <3>1. PICK hits : hits = Takers(a, n, path, req.method)
      OBVIOUS
    <3>2. hits \in SUBSET Nat /\ hits \subseteq DOMAIN Contexts(a)[n]
      BY <3>1, ContextFacts DEF Takers
    <3>3. hits # {} => Min(hits) \in DOMAIN Contexts(a)[n]
      BY <3>2, MinFacts
    <3> QED
      BY <3>1, <3>3, ContextFacts DEF Handle
  <2>2. value(n, g) = value(n, h)
    BY <2>1
  <2> HIDE DEF value
  <2> QED
    BY <2>2
<1> HIDE DEF value
<1>4. step \in [Containers \X [Containers -> V] -> V]
  BY <1>1, <1>2
<1>5. \A n \in Containers, g \in [Containers -> V] : step[<<n, g>>] = value(n, g)
  OBVIOUS
<1> HIDE DEF step
<1>6. V # {}
  <2>1. [path \in Seq(Segments) |-> Root] \in V
    BY DEF Handlers
  <2> QED
    BY <2>1
<1>7. PICK f \in [Containers -> V] : \A n \in Containers : f[n] = step[<<n, f>>]
  <2> HIDE DEF V
  <2>1. Recursive(Containers, V, Mounted(a), step)
    BY <1>1, <1>3, <1>4, <1>6 DEF Recursive
  <2> QED
    BY <2>1, GraphRecursion DEF HasSolution
<1>8. \A n \in Containers : f[n] = value(n, f)
  BY <1>5, <1>7
<1> DEFINE handle == CHOOSE g : g = [n \in Containers |-> value(n, g)]
<1>9. handle = [n \in Containers |-> value(n, handle)]
  <2>1. f = [n \in Containers |-> value(n, f)]
    BY <1>8
  <2> QED
    BY <2>1
<1>10. Dispatch(a, req) = handle[Root][req.path]
  BY DEF Dispatch, value, Handle, Takers
<1> HIDE DEF handle
<1> DEFINE T == {n \in Containers : handle[n] \in V}
<1>11. Inductive(Containers, Mounted(a), T)
  BY <1>2, <1>9 DEF Inductive
<1>12. Containers \subseteq T
  <2> HIDE DEF T
  <2> QED
    BY <1>1, <1>11, GraphInduction
<1>13. handle \in [Containers -> V]
  BY <1>9, <1>12
<1>14. \A n \in Containers, path \in Seq(Segments) : handle[n][path] = Handle(a, handle, n, path, req.method)
  BY <1>9 DEF value
<1> QED
  BY <1>10, <1>13, <1>14

-----------------------------------------------------------------------------
\* What match_route() promises

\* The route that match_route() returns is the one that the router takes, if it takes one.
LEMMA MatchIsRouted ==
    ASSUME NEW a, Tree(a), NEW req, req.path \in Seq(Segments)
    PROVE  Dispatch(a, req) # Root => MatchRoute(a, req).route = Dispatch(a, req)
<1> DEFINE method == req.method
<1>1. PICK match \in [Containers -> Matches] :
          /\ MatchRoute(a, req) = match[Root][req.path]
          /\ \A n \in Containers, path \in Seq(Segments) : match[n][path] = Match(a, match, n, path, method)
  BY MatchUnfolds
<1>2. PICK handle \in [Containers -> Handlers] :
          /\ Dispatch(a, req) = handle[Root][req.path]
          /\ \A n \in Containers, path \in Seq(Segments) : handle[n][path] = Handle(a, handle, n, path, method)
  BY DispatchUnfolds
<1>3. WellFounded(Containers, Mounted(a)) /\ \A n \in Containers : Mounted(a)[n] \subseteq Containers
  BY MountedAcyclic
<1> DEFINE T == {n \in Containers : \A path \in Seq(Segments) :
                    handle[n][path] # Root => match[n][path].route = handle[n][path]}
<1>4. ASSUME NEW n \in Containers, Mounted(a)[n] \subseteq T
      PROVE  n \in T
  <2> SUFFICES ASSUME NEW path \in Seq(Segments), handle[n][path] # Root
               PROVE  match[n][path].route = handle[n][path]
    OBVIOUS
  <2>1. /\ match[n][path] = Match(a, match, n, path, method)
        /\ handle[n][path] = Handle(a, handle, n, path, method)
        /\ \A m \in Mounted(a)[n] : match[m] \in Matches
    BY <1>1, <1>2, <1>3
  <2>2. Hits(a, match, n, path, method) \subseteq Takers(a, n, path, method)
    BY DEF Hits, Takers
  <2>3. \A c, d \in DOMAIN Contexts(a)[n] :
            /\ FirstTaker(a, n, path, method, c) /\ FirstHit(a, match, n, path, method, d)
            /\ c \in Hits(a, match, n, path, method)
            => c = d
    <3> SUFFICES ASSUME NEW c \in DOMAIN Contexts(a)[n], NEW d \in DOMAIN Contexts(a)[n],
                        FirstTaker(a, n, path, method, c), FirstHit(a, match, n, path, method, d),
                        c \in Hits(a, match, n, path, method)
                 PROVE  c = d
      OBVIOUS
    <3>1. c <= d /\ d <= c
      BY <2>2 DEF FirstTaker, FirstHit
    <3>2. c \in Nat /\ d \in Nat
      BY ContextFacts
    <3> QED
      BY <3>1, <3>2
  <2>4. CASE Takers(a, n, path, method) = {}
    <3>1. Hits(a, match, n, path, method) = {}
      BY <2>2, <2>4
    <3>2. match[n][path] = Partial(Contexts(a)[n], path)
      BY <2>1, <3>1 DEF Match
    <3>3. handle[n][path] = Partial(Contexts(a)[n], path).route
      BY <2>1, <2>4 DEF Handle
    <3> QED
      BY <3>2, <3>3
  <2>5. ASSUME NEW c \in DOMAIN Contexts(a)[n], FirstTaker(a, n, path, method, c),
               Full(Contexts(a)[n][c], path, method), handle[n][path] = Contexts(a)[n][c].route
        PROVE  match[n][path].route = handle[n][path]
    <3>1. c \in Hits(a, match, n, path, method)
      BY <2>5 DEF Hits
    <3>2. Contexts(a)[n][c].route \notin Mounts
      BY <2>5, RoutesAssumption DEF Full, Fits, Containers
    <3>3. \E d \in DOMAIN Contexts(a)[n] :
              /\ FirstHit(a, match, n, path, method, d)
              /\ \/ match[n][path] = Contexts(a)[n][d]
                 \/ Contexts(a)[n][d].route \in Mounts
      BY <2>1, <3>1, MatchCases DEF Enters
    <3> QED
      BY <2>3, <2>5, <3>1, <3>2, <3>3
  <2>6. ASSUME NEW c \in DOMAIN Contexts(a)[n], FirstTaker(a, n, path, method, c),
               Enters(Contexts(a)[n][c], path), Contexts(a)[n][c].route \in Mounted(a)[n],
               Contexts(a)[n][c].path \in Seq(Segments), Rest(Contexts(a)[n][c].path, path) \in Seq(Segments),
               handle[n][path] = handle[Contexts(a)[n][c].route][Rest(Contexts(a)[n][c].path, path)]
        PROVE  match[n][path].route = handle[n][path]
    <3>1. Inner(match, Contexts(a)[n][c], path).route = handle[n][path]
      BY <1>4, <2>6 DEF Inner
    <3>2. Inner(match, Contexts(a)[n][c], path) # NoRoute
      BY <3>1 DEF NoRoute
    <3>3. c \in Hits(a, match, n, path, method)
      BY <2>6, <3>2 DEF Hits
    <3>4. Contexts(a)[n][c].route \in Mounts
      BY <2>6 DEF Enters
    <3>5. PICK d \in DOMAIN Contexts(a)[n] :
              /\ FirstHit(a, match, n, path, method, d)
              /\ \/ Contexts(a)[n][d].route \notin Mounts
                 \/ /\ Inner(match, Contexts(a)[n][d], path) \in Entries
                    /\ match[n][path] =
                          Prefixed(Contexts(a)[n][d].path, Inner(match, Contexts(a)[n][d], path))
      BY <2>1, <3>3, MatchCases
    <3>6. c = d
      BY <2>3, <2>6, <3>3, <3>5
    <3>7. /\ Inner(match, Contexts(a)[n][c], path) \in Entries
          /\ match[n][path] = Prefixed(Contexts(a)[n][c].path, Inner(match, Contexts(a)[n][c], path))
      BY <3>4, <3>5, <3>6
    <3>8. match[n][path].route = Inner(match, Contexts(a)[n][c], path).route
      <4>1. \A p \in Seq(Segments), e \in Entries : Prefixed(p, e).route = e.route
        <5> SUFFICES ASSUME NEW p \in Seq(Segments), NEW e \in Entries
                     PROVE  Prefixed(p, e).route = e.route
          OBVIOUS
        <5>1. Prefixed(p, e) = [path |-> p \o e.path, route |-> e.route]
          BY PrefixedFacts
        <5> QED
          BY <5>1
      <4> QED
        BY <2>6, <3>7, <4>1
    <3> QED
      BY <3>1, <3>8
  <2>7. \/ Takers(a, n, path, method) = {}
        \/ \E d \in DOMAIN Contexts(a)[n] :
              /\ FirstTaker(a, n, path, method, d)
              /\ Full(Contexts(a)[n][d], path, method)
              /\ handle[n][path] = Contexts(a)[n][d].route
        \/ \E d \in DOMAIN Contexts(a)[n] :
              /\ FirstTaker(a, n, path, method, d)
              /\ Enters(Contexts(a)[n][d], path)
              /\ Contexts(a)[n][d].route \in Mounted(a)[n]
              /\ Contexts(a)[n][d].path \in Seq(Segments)
              /\ Rest(Contexts(a)[n][d].path, path) \in Seq(Segments)
              /\ handle[n][path] =
                    handle[Contexts(a)[n][d].route][Rest(Contexts(a)[n][d].path, path)]
    BY <2>1, HandleCases
  <2> QED
    BY <2>4, <2>5, <2>6, <2>7
<1>5. Containers \subseteq T
  <2>1. Inductive(Containers, Mounted(a), T)
    BY <1>4 DEF Inductive
  <2> HIDE DEF T
  <2> QED
    BY <1>3, <2>1, GraphInduction
<1>6. Root \in T
  BY <1>5 DEF Containers
<1> QED
  BY <1>1, <1>2, <1>6

\* What iter_routes() lists of every container, and what match_route() answers in it.
Walk(a, listed) ==
    /\ listed \in [Containers -> Seq(Entries)]
    /\ \A n \in Containers : listed[n] = FlattenSeq(Listing(a, listed, n))
Answer(a, match, method) ==
    /\ match \in [Containers -> Matches]
    /\ \A n \in Containers, path \in Seq(Segments) : match[n][path] = Match(a, match, n, path, method)

\* An entry is that of a route, or is listed below it.
AtOrBelow(listed, at, e) ==
    \/ e = at
    \/ /\ at.route \in Mounts
       /\ \E f \in Range(listed[at.route]) : f \in Entries /\ e = Prefixed(at.path, f)

\* Every route of a container is listed, and everything that is listed of a mount is listed
\* below it; nothing else is.
LEMMA WalkFacts ==
    ASSUME NEW a, Tree(a), NEW listed, Walk(a, listed), NEW n \in Containers
    PROVE  /\ \A i \in DOMAIN Contexts(a)[n] : Contexts(a)[n][i] \in Range(listed[n])
           /\ \A i \in DOMAIN Contexts(a)[n] : Contexts(a)[n][i].route \in Mounts =>
                 \A e \in Range(listed[Contexts(a)[n][i].route]) :
                     Prefixed(Contexts(a)[n][i].path, e) \in Range(listed[n])
           /\ \A e \in Range(listed[n]) : \E i \in DOMAIN Contexts(a)[n] :
                 e \in Range(Listed(listed, Contexts(a)[n][i]))
           /\ \A i \in DOMAIN Contexts(a)[n] : \A e \in Range(Listed(listed, Contexts(a)[n][i])) :
                 AtOrBelow(listed, Contexts(a)[n][i], e)
<1> DEFINE len == Len(Contexts(a)[n])
<1>1. \A m \in Mounted(a)[n] : m \in Containers /\ listed[m] \in Seq(Entries)
  BY MountedAcyclic DEF Walk
<1>2. /\ Listing(a, listed, n) \in Seq(Seq(Entries))
      /\ Len(Listing(a, listed, n)) = len
      /\ \A i \in 1..len : Listing(a, listed, n)[i] = Listed(listed, Contexts(a)[n][i])
  BY <1>1, ListingFacts
<1>3. Range(listed[n]) = UNION {Range(Listing(a, listed, n)[i]) : i \in 1..len}
  BY <1>2, FlattenRange DEF Walk
<1>4. DOMAIN Contexts(a)[n] = 1..len
  BY ContextFacts
<1>5. ASSUME NEW i \in DOMAIN Contexts(a)[n]
      PROVE  LET at == Contexts(a)[n][i]
                 inner == IF at.route \in Mounts THEN listed[at.route] ELSE <<>>
             IN  Range(Listed(listed, at)) = {at} \cup {Prefixed(at.path, e) : e \in Range(inner)}
                 /\ inner \in Seq(Entries)
  <2>1. PICK at : at = Contexts(a)[n][i]
    OBVIOUS
  <2>2. at \in Entries /\ at.path \in Seq(Segments) /\ (at.route \in Mounts => at.route \in Mounted(a)[n])
    BY <2>1, ContextFacts
  <2>3. PICK inner : inner = IF at.route \in Mounts THEN listed[at.route] ELSE <<>>
    OBVIOUS
  <2>4. inner \in Seq(Entries)
    BY <1>1, <2>2, <2>3, EmptySeq
  <2>5. /\ Under(at.path, inner) \in Seq(Entries) /\ <<at>> \in Seq(Entries)
        /\ Range(Under(at.path, inner)) = {Prefixed(at.path, e) : e \in Range(inner)}
    BY <2>2, <2>4, UnderFacts
  <2>6. Range(<<at>>) = {at}
    BY DEF Range
  <2>7. Range(<<at>> \o Under(at.path, inner)) = {at} \cup {Prefixed(at.path, e) : e \in Range(inner)}
    <3>1. PICK one, rest : one = <<at>> /\ rest = Under(at.path, inner)
      OBVIOUS
    <3>2. one \in Seq(Entries) /\ rest \in Seq(Entries)
      BY <2>5, <3>1
    <3>3. Range(one \o rest) = Range(one) \cup Range(rest)
      BY <3>2, ConcatRange
    <3>4. Range(one) = {at} /\ Range(rest) = {Prefixed(at.path, e) : e \in Range(inner)}
      BY <2>5, <2>6, <3>1
    <3> QED
      BY <3>1, <3>3, <3>4
  <2>8. Listed(listed, at) = <<at>> \o Under(at.path, inner)
    BY <2>3 DEF Listed, Inside
  <2>9. Range(Listed(listed, at)) = {at} \cup {Prefixed(at.path, e) : e \in Range(inner)}
    BY <2>7, <2>8
  <2> QED
    BY <2>1, <2>3, <2>4, <2>9
<1>6. \A i \in DOMAIN Contexts(a)[n] : Range(Listed(listed, Contexts(a)[n][i])) \subseteq Range(listed[n])
  BY <1>2, <1>3, <1>4
<1>7. \A e \in Range(listed[n]) : \E i \in DOMAIN Contexts(a)[n] :
          e \in Range(Listed(listed, Contexts(a)[n][i]))
  BY <1>2, <1>3, <1>4
<1>8. ASSUME NEW i \in DOMAIN Contexts(a)[n]
      PROVE  /\ Contexts(a)[n][i] \in Range(listed[n])
             /\ Contexts(a)[n][i].route \in Mounts =>
                   \A e \in Range(listed[Contexts(a)[n][i].route]) :
                       Prefixed(Contexts(a)[n][i].path, e) \in Range(listed[n])
             /\ \A e \in Range(Listed(listed, Contexts(a)[n][i])) :
                   AtOrBelow(listed, Contexts(a)[n][i], e)
  <2>1. PICK at : at = Contexts(a)[n][i]
    OBVIOUS
  <2>2. PICK inner : inner = IF at.route \in Mounts THEN listed[at.route] ELSE <<>>
    OBVIOUS
  <2>3. Range(Listed(listed, at)) = {at} \cup {Prefixed(at.path, e) : e \in Range(inner)} /\ inner \in Seq(Entries)
    BY <1>5, <2>1, <2>2
  <2>4. Range(Listed(listed, at)) \subseteq Range(listed[n])
    BY <1>6, <2>1
  <2>5. \A f \in Range(inner) : f \in Entries
    <3>1. \A j \in DOMAIN inner : inner[j] \in Entries
      BY <2>3, LenProperties, ElementOfSeq
    <3> QED
      BY <3>1 DEF Range
  <2>6. CASE at.route \in Mounts
    <3>1. inner = listed[at.route]
      BY <2>2, <2>6
    <3> QED
      BY <2>1, <2>3, <2>4, <2>5, <2>6, <3>1 DEF AtOrBelow
  <2>7. CASE at.route \notin Mounts
    <3>1. inner = <<>> /\ Range(inner) = {}
      <4>1. inner = <<>>
        BY <2>2, <2>7
      <4> QED
        BY <4>1 DEF Range
    <3> QED
      BY <2>1, <2>3, <2>4, <2>7, <3>1 DEF AtOrBelow
  <2> QED
    BY <2>6, <2>7
<1> QED
  BY <1>7, <1>8

\* Whatever match_route() returns is an endpoint that is listed.
LEMMA MatchListed ==
    ASSUME NEW a, Tree(a), NEW listed, Walk(a, listed), NEW method, NEW match, Answer(a, match, method)
    PROVE  \A n \in Containers, path \in Seq(Segments) :
              match[n][path] # NoRoute =>
                  match[n][path] \in Range(listed[n]) /\ match[n][path].route \in Endpoints
<1> DEFINE T == {n \in Containers : \A path \in Seq(Segments) :
                    match[n][path] # NoRoute =>
                        match[n][path] \in Range(listed[n]) /\ match[n][path].route \in Endpoints}
<1>1. WellFounded(Containers, Mounted(a)) /\ \A n \in Containers : Mounted(a)[n] \subseteq Containers
  BY MountedAcyclic
<1>2. ASSUME NEW n \in Containers, Mounted(a)[n] \subseteq T
      PROVE  n \in T
  <2> SUFFICES ASSUME NEW path \in Seq(Segments), match[n][path] # NoRoute
               PROVE  match[n][path] \in Range(listed[n]) /\ match[n][path].route \in Endpoints
    OBVIOUS
  <2>1. match[n][path] = Match(a, match, n, path, method) /\ \A m \in Mounted(a)[n] : match[m] \in Matches
    BY <1>1 DEF Answer
  <2>2. \A i \in DOMAIN Contexts(a)[n] : Contexts(a)[n][i] \in Range(listed[n])
    BY WalkFacts
  <2>3. CASE match[n][path] = Partial(Contexts(a)[n], path)
    <3>1. PICK i \in DOMAIN Contexts(a)[n] :
              Fits(Contexts(a)[n][i], path) /\ match[n][path] = Contexts(a)[n][i]
      BY <2>3, PartialFacts
    <3> QED
      BY <2>2, <3>1 DEF Fits
  <2>4. ASSUME NEW d \in DOMAIN Contexts(a)[n], Full(Contexts(a)[n][d], path, method),
               match[n][path] = Contexts(a)[n][d]
        PROVE  match[n][path] \in Range(listed[n]) /\ match[n][path].route \in Endpoints
    BY <2>2, <2>4 DEF Full, Fits
  <2>5. ASSUME NEW d \in DOMAIN Contexts(a)[n], Enters(Contexts(a)[n][d], path),
               Inner(match, Contexts(a)[n][d], path) \in Entries,
               Inner(match, Contexts(a)[n][d], path) # NoRoute,
               match[n][path] = Prefixed(Contexts(a)[n][d].path, Inner(match, Contexts(a)[n][d], path))
        PROVE  match[n][path] \in Range(listed[n]) /\ match[n][path].route \in Endpoints
    <3>1. PICK at : at = Contexts(a)[n][d]
      OBVIOUS
    <3>2. /\ at.route \in Mounts /\ Starts(at.path, path)
          /\ at.path \in Seq(Segments) /\ at.route \in Mounted(a)[n]
      BY <2>5, <3>1, ContextFacts DEF Enters
    <3>3. Rest(at.path, path) \in Seq(Segments)
      BY <3>2, RestFacts
    <3>4. PICK e \in Entries : e = Inner(match, at, path)
      BY <2>5, <3>1
    <3>5. e \in Range(listed[at.route]) /\ e.route \in Endpoints
      <4>1. match[at.route][Rest(at.path, path)] # NoRoute /\ e = match[at.route][Rest(at.path, path)]
        BY <2>5, <3>1, <3>4 DEF Inner
      <4> QED
        BY <1>2, <3>2, <3>3, <4>1
    <3>6. match[n][path] = Prefixed(at.path, e)
      BY <2>5, <3>1, <3>4
    <3>7. Prefixed(at.path, e) \in Range(listed[n])
      BY <3>1, <3>2, <3>5, WalkFacts
    <3>8. Prefixed(at.path, e) = [path |-> at.path \o e.path, route |-> e.route]
      BY <3>2, PrefixedFacts
    <3> QED
      BY <3>5, <3>6, <3>7, <3>8
  <2> QED
    BY <2>1, <2>3, <2>4, <2>5, MatchCases
<1>3. Inductive(Containers, Mounted(a), T)
  BY <1>2 DEF Inductive
<1>4. Containers \subseteq T
  <2> HIDE DEF T
  <2> QED
    BY <1>1, <1>3, GraphInduction
<1> QED
  BY <1>4

\* iter_api_routes() keeps the endpoints, in their order.
LEMMA ApiRoutes ==
    ASSUME NEW a, Tree(a)
    PROVE  /\ IterApiRoutes(a) \in Seq(Entries)
           /\ \A e \in Range(IterApiRoutes(a)) : e.route \in Endpoints
           /\ \A e \in Range(IterRoutes(a)) : e.route \in Endpoints => e \in Range(IterApiRoutes(a))
           /\ \A P \in SUBSET {e \in Entries : e.route \in Endpoints} : \A f :
                 FirstIn(IterRoutes(a), P, f) => FirstIn(IterApiRoutes(a), P, f)
<1>1. PICK s \in Seq(Entries) : s = IterRoutes(a)
  <2>1. Root \in Containers
    BY DEF Containers
  <2> QED
    BY <2>1, IterRoutesUnfolds
<1> DEFINE parts == [i \in DOMAIN s |-> IF s[i].route \in Endpoints THEN <<s[i]>> ELSE <<>>]
<1>2. Len(s) \in Nat /\ DOMAIN s = 1..Len(s) /\ \A i \in DOMAIN s : s[i] \in Entries
  BY LenProperties, ElementOfSeq
<1>3. \A e \in Entries : <<e>> \in Seq(Entries)
  OBVIOUS
<1>4. parts \in [1..Len(s) -> Seq(Entries)]
  BY <1>2, <1>3, EmptySeq
<1>5. \A i \in 1..Len(s) : parts[i] = IF s[i].route \in Endpoints THEN <<s[i]>> ELSE <<>>
  BY <1>2
<1>6. IterApiRoutes(a) = FlattenSeq(parts)
  BY <1>1 DEF IterApiRoutes
<1> HIDE DEF parts
<1>7. parts \in Seq(Seq(Entries)) /\ Len(parts) = Len(s)
  BY <1>2, <1>4, SeqDef
<1>8. \A i \in 1..Len(s) : Range(parts[i]) = IF s[i].route \in Endpoints THEN {s[i]} ELSE {}
  <2>1. Range(<<>>) = {} /\ \A e : Range(<<e>>) = {e}
    BY DEF Range
  <2> QED
    BY <1>5, <2>1
<1>9. IterApiRoutes(a) \in Seq(Entries)
  BY <1>6, <1>7, FlattenInSeq
<1>10. ASSUME NEW e \in Range(s), e.route \in Endpoints
       PROVE  e \in Range(IterApiRoutes(a))
  <2>1. PICK i \in 1..Len(s) : e = s[i]
    BY <1>2 DEF Range
  <2>2. e \in Range(parts[i])
    BY <1>8, <1>10, <2>1
  <2>3. Range(FlattenSeq(parts)) = UNION {Range(parts[j]) : j \in 1..Len(parts)}
    BY <1>7, FlattenRange
  <2> QED
    BY <1>6, <1>7, <2>2, <2>3
<1>11. ASSUME NEW P \in SUBSET {e \in Entries : e.route \in Endpoints}, NEW e, FirstIn(s, P, e)
       PROVE  FirstIn(IterApiRoutes(a), P, e)
  <2>1. PICK k \in 1..Len(s) : s[k] = e /\ e \in P /\ \A i \in 1..Len(s) : i < k => s[i] \notin P
    BY <1>2, <1>11 DEF FirstIn
  <2>2. \A i \in 1..(k - 1) : i \in 1..Len(s) /\ i < k
    BY <1>2
  <2>3. \A i \in 1..(k - 1) : Range(parts[i]) \cap P = {}
    BY <1>8, <2>1, <2>2
  <2>4. parts[k] = <<e>>
    BY <1>5, <2>1
  <2>5. FirstIn(<<e>>, P, e)
    BY <2>1 DEF FirstIn
  <2>6. FirstIn(FlattenSeq(parts), P, e)
    BY <1>7, <2>3, <2>4, <2>5, FlattenFirst
  <2> QED
    BY <1>6, <2>6
<1>12. \A e \in Range(IterApiRoutes(a)) : e.route \in Endpoints
  <2>1. Range(FlattenSeq(parts)) = UNION {Range(parts[j]) : j \in 1..Len(parts)}
    BY <1>7, FlattenRange
  <2>2. ASSUME NEW e \in Range(IterApiRoutes(a))
        PROVE  e.route \in Endpoints
    <3>1. PICK j \in 1..Len(s) : e \in Range(parts[j])
      BY <1>6, <1>7, <2>1
    <3>2. s[j].route \in Endpoints /\ e = s[j]
      BY <1>8, <3>1
    <3> QED
      BY <3>2
  <2> QED
    BY <2>2
<1> QED
  BY <1>1, <1>9, <1>10, <1>11, <1>12

\* What match_route() returns is listed by iter_api_routes().
LEMMA MatchIsListed ==
    ASSUME NEW a, Tree(a), NEW req, req.path \in Seq(Segments), MatchRoute(a, req) # NoRoute
    PROVE  MatchRoute(a, req) \in Range(IterApiRoutes(a))
<1>1. PICK listed \in [Containers -> Seq(Entries)] :
          /\ IterRoutes(a) = listed[Root]
          /\ \A n \in Containers : listed[n] = FlattenSeq(Listing(a, listed, n))
  BY IterRoutesUnfolds
<1>2. PICK match \in [Containers -> Matches] :
          /\ MatchRoute(a, req) = match[Root][req.path]
          /\ \A n \in Containers, path \in Seq(Segments) :
                match[n][path] = Match(a, match, n, path, req.method)
  BY MatchUnfolds
<1>3. PICK method : method = req.method
  OBVIOUS
<1>4. Walk(a, listed) /\ Answer(a, match, method) /\ Root \in Containers
  BY <1>1, <1>2, <1>3 DEF Walk, Answer, Containers
<1>5. MatchRoute(a, req) \in Range(IterRoutes(a)) /\ MatchRoute(a, req).route \in Endpoints
  BY <1>1, <1>2, <1>4, MatchListed
<1> QED
  BY <1>5, ApiRoutes

\* A path starts with two templates, one behind the other, if it starts with the first and
\* what is left starts with the second.
LEMMA StartsConcat ==
    ASSUME NEW p \in Seq(Segments), NEW t \in Seq(Segments), NEW path \in Seq(Segments)
    PROVE  /\ Len(p \o t) = Len(p) + Len(t)
           /\ Starts(p \o t, path) <=> Starts(p, path) /\ Starts(t, Rest(p, path))
           /\ Starts(p, path) => (Len(p \o t) = Len(path) <=> Len(t) = Len(Rest(p, path)))
<1> DEFINE u == p \o t
<1>1. /\ Len(p) \in Nat /\ Len(t) \in Nat /\ Len(path) \in Nat /\ Len(u) = Len(p) + Len(t)
      /\ DOMAIN p = 1..Len(p) /\ DOMAIN t = 1..Len(t) /\ DOMAIN u = 1..(Len(p) + Len(t))
      /\ \A i \in 1..(Len(p) + Len(t)) : u[i] = IF i <= Len(p) THEN p[i] ELSE t[i - Len(p)]
  BY ConcatProperties, LenProperties
<1> HIDE DEF u
<1>2. Starts(p, path) =>
          /\ Len(Rest(p, path)) = Len(path) - Len(p)
          /\ \A i \in 1..(Len(path) - Len(p)) : Rest(p, path)[i] = path[Len(p) + i]
  BY RestFacts
<1>3. ASSUME Starts(u, path)
      PROVE  Starts(p, path) /\ Starts(t, Rest(p, path))
  <2>1. Len(p) + Len(t) <= Len(path) /\ \A i \in 1..(Len(p) + Len(t)) : u[i] \in {path[i], Param}
    BY <1>1, <1>3 DEF Starts
  <2>2. \A i \in 1..Len(p) : i \in 1..(Len(p) + Len(t)) /\ u[i] = p[i]
    BY <1>1
  <2>3. Len(p) <= Len(path)
    BY <1>1, <2>1
  <2>4. Starts(p, path)
    BY <1>1, <2>1, <2>2, <2>3 DEF Starts
  <2>5. ASSUME NEW i \in 1..Len(t)
        PROVE  t[i] \in {Rest(p, path)[i], Param}
    <3>1. Len(p) + i \in 1..(Len(p) + Len(t)) /\ u[Len(p) + i] = t[i] /\ i \in 1..(Len(path) - Len(p))
      BY <1>1, <2>1
    <3> QED
      BY <1>2, <2>1, <2>4, <3>1
  <2>6. Len(t) <= Len(Rest(p, path))
    BY <1>1, <1>2, <2>1, <2>4
  <2> QED
    BY <1>1, <2>4, <2>5, <2>6 DEF Starts
<1>4. ASSUME Starts(p, path), Starts(t, Rest(p, path))
      PROVE  Starts(u, path)
  <2>1. /\ Len(p) <= Len(path) /\ \A i \in 1..Len(p) : p[i] \in {path[i], Param}
        /\ Len(t) <= Len(path) - Len(p) /\ \A i \in 1..Len(t) : t[i] \in {Rest(p, path)[i], Param}
    BY <1>1, <1>2, <1>4 DEF Starts
  <2>2. ASSUME NEW i \in 1..(Len(p) + Len(t))
        PROVE  u[i] \in {path[i], Param}
    <3>1. CASE i <= Len(p)
      <4>1. i \in 1..Len(p) /\ u[i] = p[i]
        BY <1>1, <3>1
      <4> QED
        BY <2>1, <4>1
    <3>2. CASE ~(i <= Len(p))
      <4>1. PICK j \in 1..Len(t) : j = i - Len(p)
        BY <1>1, <3>2
      <4>2. u[i] = t[j] /\ j \in 1..(Len(path) - Len(p)) /\ Len(p) + j = i
        BY <1>1, <2>1, <3>2, <4>1
      <4>3. Rest(p, path)[j] = path[i]
        BY <1>2, <1>4, <4>2
      <4> QED
        BY <2>1, <4>2, <4>3
    <3> QED
      BY <3>1, <3>2
  <2>3. Len(p) + Len(t) <= Len(path)
    BY <1>1, <2>1
  <2> QED
    BY <1>1, <2>2, <2>3 DEF Starts
<1>5. ASSUME Starts(p, path)
      PROVE  Len(u) = Len(path) <=> Len(t) = Len(Rest(p, path))
  <2>1. PICK left : left = Len(Rest(p, path))
    OBVIOUS
  <2>2. left = Len(path) - Len(p)
    BY <1>2, <1>5, <2>1
  <2>3. Len(u) = Len(path) <=> Len(t) = left
    BY <1>1, <2>2
  <2> QED
    BY <2>1, <2>3
<1> QED
  BY <1>1, <1>3, <1>4, <1>5 DEF u

\* An entry below a prefix matches a path if the prefix does and the entry matches the rest.
LEMMA FullPrefixed ==
    ASSUME NEW p \in Seq(Segments), NEW e \in Entries, NEW path \in Seq(Segments), NEW method
    PROVE  Full(Prefixed(p, e), path, method) <=> Starts(p, path) /\ Full(e, Rest(p, path), method)
<1>1. PICK pre : pre = Prefixed(p, e)
  OBVIOUS
<1>2. PICK t, r : t \in Seq(Segments) /\ t = e.path /\ r = e.route
  <2>1. e.path \in Seq(Segments)
    BY DEF Entries
  <2> QED
    BY <2>1
<1>3. pre.path = p \o t /\ pre.route = r
  <2>1. pre = [path |-> p \o e.path, route |-> e.route]
    BY <1>1, PrefixedFacts
  <2> QED
    BY <1>2, <2>1
<1>4. /\ Starts(p \o t, path) <=> Starts(p, path) /\ Starts(t, Rest(p, path))
      /\ Starts(p, path) => (Len(p \o t) = Len(path) <=> Len(t) = Len(Rest(p, path)))
  BY <1>2, StartsConcat
<1>5. Full(pre, path, method) <=>
          r \in Endpoints /\ Starts(p \o t, path) /\ Len(p \o t) = Len(path) /\ method \in Methods[r]
  BY <1>3 DEF Full, Fits
<1>6. Full(e, Rest(p, path), method) <=>
          /\ r \in Endpoints /\ Starts(t, Rest(p, path)) /\ Len(t) = Len(Rest(p, path))
          /\ method \in Methods[r]
  BY <1>2 DEF Full, Fits
<1> QED
  BY <1>1, <1>4, <1>5, <1>6

\* Where anything that is listed matches, match_route() finds something.
LEMMA MatchFinds ==
    ASSUME NEW a, Tree(a), NEW listed, Walk(a, listed), NEW method, NEW match, Answer(a, match, method)
    PROVE  \A n \in Containers, path \in Seq(Segments) : \A e \in Range(listed[n]) :
              Full(e, path, method) => match[n][path] # NoRoute
<1> DEFINE T == {n \in Containers : \A path \in Seq(Segments) : \A e \in Range(listed[n]) :
                    Full(e, path, method) => match[n][path] # NoRoute}
<1>1. WellFounded(Containers, Mounted(a)) /\ \A n \in Containers : Mounted(a)[n] \subseteq Containers
  BY MountedAcyclic
<1>2. ASSUME NEW n \in Containers, Mounted(a)[n] \subseteq T
      PROVE  n \in T
  <2> SUFFICES ASSUME NEW path \in Seq(Segments), NEW e \in Range(listed[n]), Full(e, path, method)
               PROVE  match[n][path] # NoRoute
    OBVIOUS
  <2>1. match[n][path] = Match(a, match, n, path, method) /\ \A m \in Mounted(a)[n] : match[m] \in Matches
    BY <1>1 DEF Answer
  <2>2. PICK i \in DOMAIN Contexts(a)[n] : e \in Range(Listed(listed, Contexts(a)[n][i]))
    BY WalkFacts
  <2>3. PICK at : at = Contexts(a)[n][i]
    OBVIOUS
  <2>4. i \in Hits(a, match, n, path, method)
    <3>1. CASE e = at
      BY <2>3, <3>1 DEF Hits
    <3>2. ASSUME at.route \in Mounts, NEW f \in Range(listed[at.route]), f \in Entries,
                 e = Prefixed(at.path, f)
          PROVE  i \in Hits(a, match, n, path, method)
      <4>1. at.path \in Seq(Segments) /\ at.route \in Mounted(a)[n]
        BY <2>3, <3>2, ContextFacts
      <4>2. Starts(at.path, path) /\ Full(f, Rest(at.path, path), method)
        BY <3>2, <4>1, FullPrefixed
      <4>3. Rest(at.path, path) \in Seq(Segments)
        BY <4>1, <4>2, RestFacts
      <4>4. match[at.route][Rest(at.path, path)] # NoRoute
        BY <1>2, <3>2, <4>1, <4>2, <4>3
      <4> QED
        BY <2>3, <3>2, <4>2, <4>4 DEF Hits, Enters, Inner
    <3>3. \/ e = at
          \/ at.route \in Mounts /\ \E f \in Range(listed[at.route]) : f \in Entries /\ e = Prefixed(at.path, f)
      <4>1. AtOrBelow(listed, Contexts(a)[n][i], e)
        BY <2>2, WalkFacts
      <4> QED
        BY <2>3, <4>1 DEF AtOrBelow
    <3> QED
      BY <3>1, <3>2, <3>3
  <2>5. ASSUME NEW d \in DOMAIN Contexts(a)[n], Full(Contexts(a)[n][d], path, method),
               match[n][path] = Contexts(a)[n][d]
        PROVE  match[n][path] # NoRoute
    <3>1. match[n][path].route \in Endpoints /\ Root \notin Endpoints
      BY <2>5, RoutesAssumption DEF Full, Fits, Containers
    <3> QED
      BY <3>1 DEF NoRoute
  <2>6. ASSUME NEW d \in DOMAIN Contexts(a)[n], Enters(Contexts(a)[n][d], path),
               Inner(match, Contexts(a)[n][d], path) \in Entries,
               Inner(match, Contexts(a)[n][d], path) # NoRoute,
               match[n][path] = Prefixed(Contexts(a)[n][d].path, Inner(match, Contexts(a)[n][d], path))
        PROVE  match[n][path] # NoRoute
    <3>1. PICK b : b = Contexts(a)[n][d]
      OBVIOUS
    <3>2. b.route \in Containers /\ b.path \in Seq(Segments) /\ Starts(b.path, path)
      BY <2>6, <3>1, ContextFacts DEF Enters, Containers
    <3>3. Rest(b.path, path) \in Seq(Segments)
      BY <3>2, RestFacts
    <3>4. PICK f \in Entries : f = match[b.route][Rest(b.path, path)] /\ f # NoRoute
      BY <2>6, <3>1 DEF Inner
    <3>5. f.route \in Endpoints /\ Root \notin Endpoints
      BY <3>2, <3>3, <3>4, MatchListed, RoutesAssumption DEF Containers
    <3>6. match[n][path] = Prefixed(b.path, f)
      BY <2>6, <3>1, <3>4 DEF Inner
    <3>7. match[n][path] = [path |-> b.path \o f.path, route |-> f.route]
      BY <3>2, <3>6, PrefixedFacts
    <3>8. match[n][path].route = f.route
      BY <3>7
    <3> QED
      BY <3>5, <3>8 DEF NoRoute
  <2> QED
    BY <2>1, <2>4, <2>5, <2>6, MatchCases
<1>3. Inductive(Containers, Mounted(a), T)
  BY <1>2 DEF Inductive
<1>4. Containers \subseteq T
  <2> HIDE DEF T
  <2> QED
    BY <1>1, <1>3, GraphInduction
<1> QED
  BY <1>4

\* What matches a path.
Fulls(path, method) == {e \in Entries : Full(e, path, method)}

\* The first of a listing that matches the rest is the first below the prefix to match.
LEMMA UnderFirst ==
    ASSUME NEW p \in Seq(Segments), NEW path \in Seq(Segments), NEW method, Starts(p, path),
           NEW s \in Seq(Entries), NEW e, FirstIn(s, Fulls(Rest(p, path), method), e)
    PROVE  FirstIn(Under(p, s), Fulls(path, method), Prefixed(p, e))
<1>1. PICK j \in DOMAIN s : /\ s[j] = e /\ e \in Fulls(Rest(p, path), method)
                            /\ \A i \in DOMAIN s : i < j => s[i] \notin Fulls(Rest(p, path), method)
  BY DEF FirstIn
<1>2. /\ DOMAIN Under(p, s) = DOMAIN s
      /\ \A i \in DOMAIN s : Under(p, s)[i] = Prefixed(p, s[i]) /\ s[i] \in Entries
  BY UnderFacts
<1>3. \A f \in Entries : Prefixed(p, f) \in Fulls(path, method) <=> f \in Fulls(Rest(p, path), method)
  <2> SUFFICES ASSUME NEW f \in Entries
               PROVE  Prefixed(p, f) \in Fulls(path, method) <=> f \in Fulls(Rest(p, path), method)
    OBVIOUS
  <2>1. Prefixed(p, f) \in Entries
    BY PrefixedFacts
  <2>2. Full(Prefixed(p, f), path, method) <=> Full(f, Rest(p, path), method)
    BY FullPrefixed
  <2> QED
    BY <2>1, <2>2 DEF Fulls
<1>4. Under(p, s)[j] = Prefixed(p, e) /\ Prefixed(p, e) \in Fulls(path, method)
  BY <1>1, <1>2, <1>3
<1>5. \A i \in DOMAIN Under(p, s) : i < j => Under(p, s)[i] \notin Fulls(path, method)
  BY <1>1, <1>2, <1>3
<1> QED
  BY <1>1, <1>2, <1>4, <1>5 DEF FirstIn

\* A route that match_route() returns, and that has the method, is the first of those that
\* are listed and match.
LEMMA MatchIsFirst ==
    ASSUME NEW a, Tree(a), NEW listed, Walk(a, listed), NEW method, NEW match, Answer(a, match, method)
    PROVE  \A n \in Containers, path \in Seq(Segments) :
              match[n][path] # NoRoute /\ method \in Methods[match[n][path].route] =>
                  FirstIn(listed[n], Fulls(path, method), match[n][path])
<1> DEFINE T == {n \in Containers : \A path \in Seq(Segments) :
                    match[n][path] # NoRoute /\ method \in Methods[match[n][path].route] =>
                        FirstIn(listed[n], Fulls(path, method), match[n][path])}
<1>1. WellFounded(Containers, Mounted(a)) /\ \A n \in Containers : Mounted(a)[n] \subseteq Containers
  BY MountedAcyclic
<1>2. ASSUME NEW n \in Containers, Mounted(a)[n] \subseteq T
      PROVE  n \in T
  <2> SUFFICES ASSUME NEW path \in Seq(Segments), match[n][path] # NoRoute,
                      method \in Methods[match[n][path].route]
               PROVE  FirstIn(listed[n], Fulls(path, method), match[n][path])
    OBVIOUS
  <2> DEFINE fulls == Fulls(path, method)
  <2>1. match[n][path] = Match(a, match, n, path, method) /\ \A m \in Mounted(a)[n] : match[m] \in Matches
    BY <1>1 DEF Answer
  <2>2. /\ Listing(a, listed, n) \in Seq(Seq(Entries))
        /\ Len(Listing(a, listed, n)) = Len(Contexts(a)[n])
        /\ \A i \in 1..Len(Contexts(a)[n]) :
              Listing(a, listed, n)[i] = Listed(listed, Contexts(a)[n][i])
        /\ listed[n] = FlattenSeq(Listing(a, listed, n))
        /\ DOMAIN Contexts(a)[n] = 1..Len(Contexts(a)[n]) /\ Len(Contexts(a)[n]) \in Nat
    BY <1>1, ListingFacts, ContextFacts DEF Walk
  <2>3. ASSUME NEW i \in DOMAIN Contexts(a)[n], i \notin Hits(a, match, n, path, method)
        PROVE  Range(Listed(listed, Contexts(a)[n][i])) \cap fulls = {}
    <3> SUFFICES ASSUME NEW e \in Range(Listed(listed, Contexts(a)[n][i])), Full(e, path, method)
                 PROVE  FALSE
      BY DEF Fulls
    <3>1. PICK at : at = Contexts(a)[n][i]
      OBVIOUS
    <3>2. CASE e = at
      BY <2>3, <3>1, <3>2 DEF Hits
    <3>3. ASSUME at.route \in Mounts, NEW f \in Range(listed[at.route]), f \in Entries,
                 e = Prefixed(at.path, f)
          PROVE  FALSE
      <4>1. at.path \in Seq(Segments) /\ at.route \in Containers
        BY <3>1, <3>3, ContextFacts DEF Containers
      <4>2. Starts(at.path, path) /\ Full(f, Rest(at.path, path), method)
        BY <3>3, <4>1, FullPrefixed
      <4>3. Rest(at.path, path) \in Seq(Segments)
        BY <4>1, <4>2, RestFacts
      <4>4. match[at.route][Rest(at.path, path)] # NoRoute
        BY <3>3, <4>1, <4>2, <4>3, MatchFinds
      <4> QED
        BY <2>3, <3>1, <3>3, <4>2, <4>4 DEF Hits, Enters, Inner
    <3>4. \/ e = at
          \/ at.route \in Mounts /\ \E f \in Range(listed[at.route]) : f \in Entries /\ e = Prefixed(at.path, f)
      <4>1. AtOrBelow(listed, Contexts(a)[n][i], e)
        BY WalkFacts
      <4> QED
        BY <3>1, <4>1 DEF AtOrBelow
    <3> QED
      BY <3>2, <3>3, <3>4
  <2>4. ASSUME NEW d \in DOMAIN Contexts(a)[n], FirstHit(a, match, n, path, method, d), NEW e,
               FirstIn(Listed(listed, Contexts(a)[n][d]), fulls, e)
        PROVE  FirstIn(listed[n], fulls, e)
    <3> HIDE DEF fulls
    <3>1. \A i \in 1..(d - 1) : i \in DOMAIN Contexts(a)[n] /\ ~(d <= i)
      BY <2>2
    <3>2. \A i \in 1..(d - 1) : i \notin Hits(a, match, n, path, method)
      BY <2>4, <3>1 DEF FirstHit
    <3>3. \A i \in 1..(d - 1) : Range(Listing(a, listed, n)[i]) \cap fulls = {}
      BY <2>2, <2>3, <3>1, <3>2
    <3>4. d \in 1..Len(Listing(a, listed, n)) /\ FirstIn(Listing(a, listed, n)[d], fulls, e)
      BY <2>2, <2>4
    <3> QED
      BY <2>2, <3>3, <3>4, FlattenFirst
  <2>5. CASE Hits(a, match, n, path, method) = {} /\ match[n][path] = Partial(Contexts(a)[n], path)
    <3>1. PICK i \in DOMAIN Contexts(a)[n] :
              Fits(Contexts(a)[n][i], path) /\ match[n][path] = Contexts(a)[n][i]
      BY <2>5, PartialFacts
    <3>2. Full(Contexts(a)[n][i], path, method)
      BY <3>1 DEF Full
    <3> QED
      BY <2>5, <3>1, <3>2 DEF Hits
  <2>6. ASSUME NEW d \in DOMAIN Contexts(a)[n], FirstHit(a, match, n, path, method, d),
               Full(Contexts(a)[n][d], path, method), match[n][path] = Contexts(a)[n][d]
        PROVE  FirstIn(listed[n], fulls, match[n][path])
    <3>1. PICK at \in Entries : at = Contexts(a)[n][d]
      BY ContextFacts
    <3>2. at \in fulls
      BY <2>6, <3>1 DEF Fulls
    <3>3. FirstIn(<<at>>, fulls, at)
      BY <3>2 DEF FirstIn
    <3>4. PICK rest : Listed(listed, at) = <<at>> \o rest /\ rest \in Seq(Entries)
      <4>1. at.route \notin Mounts
        BY <2>6, <3>1, RoutesAssumption DEF Full, Fits, Containers
      <4>2. Under(at.path, <<>>) \in Seq(Entries)
        <5>1. <<>> \in Seq(Entries) /\ at.path \in Seq(Segments)
          BY <3>1, EmptySeq, ContextFacts
        <5> QED
          BY <5>1, UnderFacts
      <4> QED
        BY <4>1, <4>2 DEF Listed, Inside
    <3>5. FirstIn(<<at>> \o rest, fulls, at)
      <4>1. <<at>> \in Seq(Entries)
        OBVIOUS
      <4> HIDE DEF fulls
      <4> QED
        BY <3>3, <3>4, <4>1, ConcatFirst
    <3> QED
      BY <2>4, <2>6, <3>1, <3>4, <3>5
  <2>7. ASSUME NEW d \in DOMAIN Contexts(a)[n], FirstHit(a, match, n, path, method, d),
               Enters(Contexts(a)[n][d], path),
               Inner(match, Contexts(a)[n][d], path) \in Entries,
               Inner(match, Contexts(a)[n][d], path) # NoRoute,
               match[n][path] = Prefixed(Contexts(a)[n][d].path, Inner(match, Contexts(a)[n][d], path))
        PROVE  FirstIn(listed[n], fulls, match[n][path])
    <3>1. PICK at \in Entries : at = Contexts(a)[n][d]
      BY ContextFacts
    <3>2. /\ at.route \in Mounts /\ Starts(at.path, path)
          /\ at.path \in Seq(Segments) /\ at.route \in Mounted(a)[n] /\ at.route \in Containers
      BY <2>7, <3>1, ContextFacts DEF Enters, Containers
    <3>3. Rest(at.path, path) \in Seq(Segments)
      BY <3>2, RestFacts
    <3>4. PICK e \in Entries : e = match[at.route][Rest(at.path, path)] /\ e # NoRoute
      BY <2>7, <3>1 DEF Inner
    <3>5. match[n][path] = Prefixed(at.path, e)
      BY <2>7, <3>1, <3>4 DEF Inner
    <3>6. match[n][path].route = e.route
      <4>1. match[n][path] = [path |-> at.path \o e.path, route |-> e.route]
        BY <3>2, <3>5, PrefixedFacts
      <4> QED
        BY <4>1
    <3>7. FirstIn(listed[at.route], Fulls(Rest(at.path, path), method), e)
      BY <1>2, <3>2, <3>3, <3>4, <3>6
    <3>8. PICK s \in Seq(Entries) : s = listed[at.route]
      BY <3>2 DEF Walk
    <3>9. FirstIn(Under(at.path, s), fulls, match[n][path])
      BY <3>2, <3>5, <3>7, <3>8, UnderFirst
    <3>10. Under(at.path, s) \in Seq(Entries) /\ <<at>> \in Seq(Entries)
      BY <3>2, UnderFacts
    <3>11. Range(<<at>>) \cap fulls = {}
      <4>1. at.route \notin Endpoints
        BY <3>2, RoutesAssumption DEF Containers
      <4>2. at \notin fulls
        BY <4>1 DEF Fulls, Full, Fits
      <4>3. Range(<<at>>) = {at}
        BY DEF Range
      <4> QED
        BY <4>2, <4>3
    <3>12. FirstIn(<<at>> \o Under(at.path, s), fulls, match[n][path])
      <4> HIDE DEF fulls
      <4> QED
        BY <3>9, <3>10, <3>11, ConcatFirst
    <3>13. Listed(listed, at) = <<at>> \o Under(at.path, s)
      BY <3>2, <3>8 DEF Listed, Inside
    <3> QED
      BY <2>4, <2>7, <3>1, <3>12, <3>13
  <2> QED
    BY <2>1, <2>5, <2>6, <2>7, MatchCases
<1>3. Inductive(Containers, Mounted(a), T)
  BY <1>2 DEF Inductive
<1>4. Containers \subseteq T
  <2> HIDE DEF T
  <2> QED
    BY <1>1, <1>3, GraphInduction
<1> QED
  BY <1>4

\* find_route() gets the route again that match_route() returns.
LEMMA MatchIsFound ==
    ASSUME NEW a, Tree(a), NEW req, req.path \in Seq(Segments), MatchRoute(a, req) # NoRoute,
           req.method \in Methods[MatchRoute(a, req).route]
    PROVE  FindRoute(a, req.method, MatchRoute(a, req).path) = MatchRoute(a, req)
<1>1. PICK listed \in [Containers -> Seq(Entries)] :
          /\ IterRoutes(a) = listed[Root]
          /\ \A n \in Containers : listed[n] = FlattenSeq(Listing(a, listed, n))
  BY IterRoutesUnfolds
<1>2. PICK match \in [Containers -> Matches] :
          /\ MatchRoute(a, req) = match[Root][req.path]
          /\ \A n \in Containers, path \in Seq(Segments) :
                match[n][path] = Match(a, match, n, path, req.method)
  BY MatchUnfolds
<1>3. PICK method, path, e : method = req.method /\ path = req.path /\ e = MatchRoute(a, req)
  OBVIOUS
<1>4. Walk(a, listed) /\ Answer(a, match, method) /\ Root \in Containers /\ path \in Seq(Segments)
  BY <1>1, <1>2, <1>3 DEF Walk, Answer, Containers
<1>5. FirstIn(IterRoutes(a), Fulls(path, method), e)
  <2>1. match[Root][path] = e /\ e # NoRoute /\ method \in Methods[e.route]
    BY <1>2, <1>3
  <2>2. match[Root][path] # NoRoute /\ method \in Methods[match[Root][path].route] =>
            FirstIn(listed[Root], Fulls(path, method), match[Root][path])
    BY <1>4, MatchIsFirst
  <2>3. FirstIn(listed[Root], Fulls(path, method), match[Root][path])
    BY <2>1, <2>2
  <2> QED
    BY <1>1, <2>1, <2>3
<1>6. Fulls(path, method) \in SUBSET {f \in Entries : f.route \in Endpoints}
  BY DEF Fulls, Full, Fits
<1>7. FirstIn(IterApiRoutes(a), Fulls(path, method), e)
  BY <1>5, <1>6, ApiRoutes
<1>8. PICK s \in Seq(Entries) : s = IterApiRoutes(a)
  BY ApiRoutes
<1>9. PICK j \in DOMAIN s : /\ s[j] = e /\ e \in Fulls(path, method)
                            /\ \A i \in DOMAIN s : i < j => s[i] \notin Fulls(path, method)
  BY <1>7, <1>8 DEF FirstIn
<1> DEFINE found == {i \in DOMAIN s : method \in Methods[s[i].route] /\ s[i].path = e.path}
<1>10. DOMAIN s \subseteq Nat /\ \A i \in DOMAIN s : s[i] \in Entries
  BY LenProperties, ElementOfSeq
<1>11. j \in found
  BY <1>9 DEF Fulls, Full
<1>12. \A i \in found : s[i].route \in Endpoints => s[i] \in Fulls(path, method)
  <2>1. Starts(e.path, path) /\ Len(e.path) = Len(path)
    BY <1>9 DEF Fulls, Full, Fits
  <2> QED
    BY <1>10, <2>1 DEF Fulls, Full, Fits
<1>13. \A i \in DOMAIN s : s[i].route \in Endpoints
  BY <1>8, ApiRoutes DEF Range
<1>14. Min(found) = j
  <2>1. found \in SUBSET Nat /\ found # {} /\ found \subseteq DOMAIN s
    BY <1>10, <1>11
  <2>2. \A i \in found : ~(i < j)
    BY <1>9, <1>12, <1>13
  <2> HIDE DEF found
  <2>3. PICK m \in Nat : m = Min(found) /\ m \in found /\ m <= j
    BY <1>11, <2>1, MinFacts
  <2> QED
    BY <1>10, <2>2, <2>3
<1>15. FindRoute(a, method, e.path) = IF found = {} THEN NoRoute ELSE s[Min(found)]
  BY <1>8 DEF FindRoute
<1>16. FindRoute(a, method, e.path) = e
  <2> HIDE DEF found
  <2> QED
    BY <1>9, <1>11, <1>14, <1>15
<1> QED
  BY <1>3, <1>16

\* The application and the request are those that were given, and were routed as these say.
Routing ==
    /\ app \in Apps /\ request \in Requests
    /\ matched = MatchRoute(app, request) /\ dispatched = Dispatch(app, request)

\* Applications are trees.
LEMMA AppsAreTrees == \A a \in Apps : Tree(a)
<1> SUFFICES ASSUME NEW a \in Apps
             PROVE  Tree(a)
  OBVIOUS
<1>1. a \in [Containers -> Seq(Mounts \cup Includes \cup Endpoints)]
  BY RequestLifecycleAssumption
<1>2. Held(a) \in [Containers -> SUBSET Containers]
  BY DEF Held
<1>3. ASSUME NEW S \in SUBSET Containers, S # {}
      PROVE  \E n \in S : Held(a)[n] \cap S = {}
  <2>1. PICK n \in S : Range(a[n]) \cap S = {}
    BY <1>3, RequestLifecycleAssumption
  <2> QED
    BY <2>1 DEF Held
<1> QED
  BY <1>1, <1>2, <1>3 DEF Tree, WellFounded

\* Nothing changes how the request is routed.
LEMMA RoutingInvariance == Spec => []Routing
<1>1. Init => Routing
  BY DEF Init, Routing
<1>2. [Next]_vars => UNCHANGED <<app, request, matched, dispatched>>
  BY DEF Next, vars, setup, AddRouteDependency, Connect, Resolve, Build, Return, Fail, Spawn, Join,
         CallApp, Respond, UnwindRoute, Pop, Returned, UnwindMiddleware, Over
<1>3. Routing /\ [Next]_vars => Routing'
  <2> SUFFICES ASSUME Routing, [Next]_vars
               PROVE  Routing'
    OBVIOUS
  <2>1. app' = app /\ request' = request /\ matched' = matched /\ dispatched' = dispatched
    BY <1>2
  <2> QED
    BY <2>1 DEF Routing
<1> QED
  BY <1>1, <1>3, PTL DEF Spec

\* What match_route() and the walks promise of the request.
LEMMA RoutingFacts == Routing => MatchedIsRouted /\ MatchedIsListed /\ MatchedIsFound
<1> SUFFICES ASSUME Routing
             PROVE  MatchedIsRouted /\ MatchedIsListed /\ MatchedIsFound
  OBVIOUS
<1>1. Tree(app) /\ request.path \in Seq(Segments)
  BY AppsAreTrees, RequestLifecycleAssumption DEF Routing
<1>2. matched = MatchRoute(app, request) /\ dispatched = Dispatch(app, request)
  BY DEF Routing
<1>3. dispatched # Root => matched.route = dispatched
  BY <1>1, <1>2, MatchIsRouted
<1>4. MatchedIsListed
  BY <1>1, <1>2, MatchIsListed DEF MatchedIsListed
<1>5. MatchedIsFound
  BY <1>1, <1>2, MatchIsFound DEF MatchedIsFound
<1> QED
  BY <1>3, <1>4, <1>5 DEF MatchedIsRouted

\* Whatever the tree of routes, match_route() tells a middleware the route that the router
\* takes for the request, if it takes one.
THEOREM MatchedWhatIsRouted == Spec => []MatchedIsRouted
BY RoutingInvariance, RoutingFacts, PTL

\* Whatever match_route() returns is listed by iter_routes(), with the same path.
THEOREM MatchedWhatIsListed == Spec => []MatchedIsListed
BY RoutingInvariance, RoutingFacts, PTL

\* The template that match_route() returns names the route again, to find_route().
THEOREM MatchedWhatIsFound == Spec => []MatchedIsFound
BY RoutingInvariance, RoutingFacts, PTL

\* Whatever the tree of routes, an application that passes the authorization test runs no
\* endpoint without its guard.
THEOREM Guarded == Spec => []GuardRuns
<1>1. IInv /\ MatchedIsRouted /\ MatchedIsListed => GuardRuns
  <2> DEFINE unguarded == {r \in Endpoints : Guard \notin IterCalls(dependant[r])}
  <2> SUFFICES ASSUME IInv, MatchedIsRouted, MatchedIsListed, stage = "endpoint",
                      IterRoutesWhere(app, unguarded) = {}
               PROVE  \E i \in DOMAIN built : built[i].call = Guard
    BY DEF GuardRuns
  <2>1. /\ dispatched \in Endpoints /\ request.method \in Methods[dispatched]
        /\ \A k \in Range(handler[dispatched]) : cache[k] # 0
        /\ Range(handler[dispatched]) = IterCalls(dependant[dispatched])
    BY DEF IInv, Handled
  <2>2. dispatched # Root
    BY <2>1, RoutesAssumption DEF Containers
  <2>3. matched.route = dispatched /\ matched \in Range(IterApiRoutes(app))
    BY <2>2 DEF MatchedIsRouted, MatchedIsListed, NoRoute
  <2>4. dispatched \notin unguarded
    <3> SUFFICES ASSUME dispatched \in unguarded
                 PROVE  FALSE
      OBVIOUS
    <3> HIDE DEF unguarded
    <3>1. matched \in {e \in Range(IterApiRoutes(app)) : e.route \in unguarded}
      BY <2>3
    <3>2. <<request.method, matched>> \in {<<method, matched>> : method \in Methods[matched.route]}
      BY <2>1, <2>3
    <3>3. <<request.method, matched>> \in IterRoutesWhere(app, unguarded)
      BY <3>1, <3>2 DEF IterRoutesWhere
    <3> QED
      BY <3>3
  <2>5. cache[Guard] # 0
    BY <2>1, <2>4
  <2> QED
    BY <2>5, RequestLifecycleAssumption DEF IInv, Cached, Holding
<1>2. IInv /\ Routing => GuardRuns
  BY <1>1, RoutingFacts
<1> QED
  BY <1>2, Invariance, RoutingInvariance, PTL

\* A torn down value goes to nobody but a middleware, or a task of it, behind the route, and
\* it is one of the route's or its endpoint's: the middleware's own are still up.
THEOREM UpInUse == Spec => []DownBehindRoute
<1>1. IInv => DownBehindRoute
  <2> SUFFICES ASSUME IInv, NEW t \in Tasks, NEW k \in DOMAIN jobs[t].vals,
                      NEW i \in built[jobs[t].vals[k]].gens, ~built[i].up
               PROVE  /\ stage \in {"closing", "after"}
                      /\ jobs[t].place = "middleware" /\ built[i].place # "middleware"
    BY DEF DownBehindRoute
  <2> USE DEF IInv
  <2>1. Busy(t)
    BY DEF Busy, NoJob
  <2>2. jobs[t].vals[k] \in DOMAIN built
    BY DEF Solving, Sound, Taken
  <2>3. i \in DOMAIN built
    <3>1. DOMAIN built = 1..Len(built) /\ Len(built) \in Nat
      BY LenProperties DEF Typed
    <3>2. i \in 1..jobs[t].vals[k]
      BY <2>2 DEF Stacked
    <3> QED
      BY <2>2, <3>1, <3>2
  <2>4. stage \in {"closing", "after"}
    BY <2>1, <2>3, BusyFacts DEF Typed, Phases
  <2>5. jobs[t].place = "middleware"
    BY <2>1, <2>4, BusyFacts DEF Places
  <2> QED
    BY <2>3, <2>4, <2>5 DEF Phases
<1> QED
  BY <1>1, Invariance, PTL

\* A generator is torn down after what is made from it, except for what was made by hand, in a
\* context, on top of a value whose exit stack ends earlier.
THEOREM Teardown == Spec => []DependentsFirstOtherwise
<1>1. IInv => DependentsFirstOtherwise
  <2> SUFFICES ASSUME IInv, NEW i \in DOMAIN built, NEW j \in DOMAIN built, Stranded(j, i)
               PROVE  EndsLater(built[j].place, built[i].place)
    BY DEF DependentsFirstOtherwise
  <2> USE DEF IInv
  <2>1. /\ i \in built[j].gens /\ i # j
        /\ built[j].call \in Generators /\ built[j].up /\ ~built[i].up
    BY DEF Stranded
  <2>2. i < j /\ built[i].call \in Generators
    <3>1. i \in 1..j /\ built[i].call \in Generators
      BY <2>1 DEF Stacked
    <3>2. j \in Nat
      BY LenProperties DEF Typed
    <3> QED
      BY <2>1, <3>1, <3>2
  <2>3. IsUp(j) /\ ~IsUp(i)
    BY <2>1 DEF IsUp
  <2>4. /\ built[i].place # built[j].place
        /\ ~(built[i].place = "bound" /\ built[j].place = "route")
    BY <2>2, <2>3 DEF Phases
  <2>5. built[i].place \in Places /\ built[j].place \in Places
    <3>1. \A h \in DOMAIN built : built[h] \in Values
      BY ElementOfSeq, LenProperties DEF Typed
    <3> QED
      BY <3>1 DEF Values
  <2>6. built[i].place # "middleware"
    <3> SUFFICES ASSUME built[i].place = "middleware"
                 PROVE  FALSE
      OBVIOUS
    <3>1. stage = "over"
      BY <2>1 DEF Typed, Phases
    <3>2. stacks[built[j].place] = <<>>
      BY <2>4, <2>5, <3>1 DEF Phases, Places
    <3>3. j \in Range(stacks[built[j].place])
      BY <2>3, <2>5 DEF Stacked
    <3> QED
      BY <3>2, <3>3 DEF Range
  <2> QED
    BY <2>4, <2>5, <2>6 DEF EndsLater, Places
<1> QED
  BY <1>1, Invariance, PTL
=============================================================================
