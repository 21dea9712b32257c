---------------------------- MODULE RLockProofs ----------------------------
(***************************************************************************)
(* The reentrant lock keeps its promises for every set of tasks and every  *)
(* bound on the work done inside it, provided that a holder waits for the  *)
(* tasks it spawned (Detached = FALSE).  RLockDetached.cfg shows that the  *)
(* condition is needed.                                                    *)
(***************************************************************************)
EXTENDS RLock, FiniteSetTheorems, SequenceTheorems, TLAPS

-----------------------------------------------------------------------------
\* The inductive invariant

\* The counter and the open blocks.
Counted ==
    /\ IsFiniteSet(Blocks)
    /\ depth = Cardinality(Blocks)
    /\ locked <=> depth > 0
    /\ broken = {}

\* Whoever is inside owns the lock, whoever owns it runs, and all owners are one family
\* whose head is inside.
OneFamily ==
    /\ \A t \in Tasks : nest[t] > 0 => held[t]
    /\ \A t \in Tasks : held[t] => status[t] = "running" /\ nest[family[t]] > 0
    /\ \A t \in Tasks : ~held[t] => family[t] = t
    /\ \A t, u \in Tasks : held[t] /\ held[u] => family[t] = family[u]

\* The queue holds the waiting tasks, each once; at most its head is woken, and only
\* while the lock is free.
Queued ==
    /\ \A i \in 1..Len(waiters) : status[waiters[i]] = "waiting"
    /\ \A i, j \in 1..Len(waiters) : waiters[i] = waiters[j] => i = j
    /\ \A t \in Tasks : status[t] = "waiting" => \E i \in 1..Len(waiters) : waiters[i] = t
    /\ \A t \in woken : Len(waiters) > 0 /\ t = waiters[1]
    /\ locked => woken = {}
    /\ Len(waiters) > 0 /\ ~locked => waiters[1] \in woken \cup cancelled

IInv == TypeOK /\ Counted /\ OneFamily /\ Queued

-----------------------------------------------------------------------------
\* Lemmas about the operators of the model

\* RemoveAt shifts the elements behind the one it removes.
LEMMA RemoveAtFacts ==
    ASSUME NEW S, NEW s \in Seq(S), NEW i \in 1..Len(s)
    PROVE  /\ RemoveAt(s, i) \in Seq(S)
           /\ Len(RemoveAt(s, i)) = Len(s) - 1
           /\ \A j \in 1..(Len(s) - 1) : RemoveAt(s, i)[j] = IF j < i THEN s[j] ELSE s[j + 1]
<1> DEFINE a == SubSeq(s, 1, i - 1)
           b == SubSeq(s, i + 1, Len(s))
<1>0. Len(s) \in Nat /\ i \in Nat
  BY LenProperties
<1>1. /\ a \in Seq(S) /\ Len(a) = i - 1
      /\ \A j \in 1..(i - 1) : a[j] = s[j]
  BY SubSeqProperties
<1>2. /\ b \in Seq(S) /\ Len(b) = Len(s) - i
      /\ \A j \in 1..(Len(s) - i) : b[j] = s[i + j]
  BY SubSeqProperties
<1> HIDE DEF a, b
<1>3. /\ a \o b \in Seq(S) /\ Len(a \o b) = Len(s) - 1
      /\ \A j \in 1..(Len(s) - 1) : (a \o b)[j] = IF j < i THEN s[j] ELSE s[j + 1]
  <2>1. a \o b \in Seq(S) /\ Len(a \o b) = Len(s) - 1
    <3>1. a \o b \in Seq(S) /\ Len(a \o b) = Len(a) + Len(b)
      BY <1>1, <1>2, ConcatProperties
    <3> QED
      BY <1>0, <1>1, <1>2, <3>1
  <2>2. ASSUME NEW j \in 1..(Len(s) - 1)
        PROVE  (a \o b)[j] = IF j < i THEN s[j] ELSE s[j + 1]
    <3>1. (a \o b)[j] = IF j <= Len(a) THEN a[j] ELSE b[j - Len(a)]
      BY <1>1, <1>2, ConcatProperties, SMTT(20)
    <3>2. CASE j < i
      BY <1>0, <1>1, <3>1, <3>2
    <3>3. CASE j >= i
      <4>1. j - Len(a) \in 1..(Len(s) - i) /\ i + (j - Len(a)) = j + 1
        BY <1>0, <1>1, <3>3
      <4> QED
        BY <1>0, <1>1, <1>2, <3>1, <3>3, <4>1
    <3>4. j \in Int /\ (j < i \/ j >= i)
      BY <1>0
    <3> QED
      BY <3>2, <3>3, <3>4
  <2> QED
    BY <2>1, <2>2
<1> QED
  BY <1>3 DEF RemoveAt, a, b

\* A queue without repetition from which t is removed: what is left keeps its order.
LEMMA DequeueFacts ==
    ASSUME TypeOK, Queued, NEW t \in Tasks, status[t] = "waiting"
    PROVE  \E k \in 1..Len(waiters) :
              /\ waiters[k] = t
              /\ Dequeue(t) \in Seq(Tasks)
              /\ Len(Dequeue(t)) = Len(waiters) - 1
              /\ \A j \in 1..(Len(waiters) - 1) :
                    Dequeue(t)[j] = IF j < k THEN waiters[j] ELSE waiters[j + 1]
<1> DEFINE k == CHOOSE i \in 1..Len(waiters) : waiters[i] = t
<1>1. k \in 1..Len(waiters) /\ waiters[k] = t
  BY DEF Queued
<1>2. Dequeue(t) = RemoveAt(waiters, k)
  BY DEF Dequeue
<1>3. waiters \in Seq(Tasks)
  BY DEF TypeOK
<1> HIDE DEF k
<1> QED
  BY <1>1, <1>2, <1>3, RemoveAtFacts

\* Which pairs are open blocks.
LEMMA BlocksMember ==
    ASSUME nest \in [Tasks -> Nat], NEW t, NEW n
    PROVE  <<t, n>> \in Blocks <=> t \in Tasks /\ n \in 1..nest[t]
BY DEF Blocks

\* While the counter is 0 nobody is inside; while somebody is inside it is not.
LEMMA NobodyInside ==
    ASSUME TypeOK, Counted
    PROVE  depth = 0 <=> \A t \in Tasks : nest[t] = 0
<1>1. depth = 0 <=> Blocks = {}
  BY FS_EmptySet DEF Counted
<1>2. Blocks = {} <=> \A t \in Tasks : nest[t] = 0
  <2>1. ASSUME NEW t \in Tasks, nest[t] # 0
        PROVE  <<t, 1>> \in Blocks
    <3>1. nest \in [Tasks -> Nat]
      BY DEF TypeOK
    <3>2. 1 \in 1..nest[t]
      BY <2>1, <3>1
    <3> QED
      BY <3>1, <3>2, BlocksMember
  <2>2. ASSUME \A t \in Tasks : nest[t] = 0
        PROVE  Blocks = {}
    BY <2>2 DEF Blocks
  <2> QED
    BY <2>1, <2>2
<1> QED
  BY <1>1, <1>2

\* Entering a block adds one pair.
LEMMA EnterBlocks ==
    ASSUME nest \in [Tasks -> Nat], IsFiniteSet(Blocks), NEW t \in Tasks,
           nest' = [nest EXCEPT ![t] = @ + 1]
    PROVE  IsFiniteSet(Blocks') /\ Cardinality(Blocks') = Cardinality(Blocks) + 1
<1>1. Blocks' = Blocks \cup {<<t, nest[t] + 1>>}
  BY DEF Blocks
<1>2. <<t, nest[t] + 1>> \notin Blocks
  BY DEF Blocks
<1> QED
  BY <1>1, <1>2, FS_AddElement

\* Leaving a block removes one.
LEMMA LeaveBlocks ==
    ASSUME nest \in [Tasks -> Nat], IsFiniteSet(Blocks), NEW t \in Tasks, nest[t] > 0,
           nest' = [nest EXCEPT ![t] = @ - 1]
    PROVE  IsFiniteSet(Blocks') /\ Cardinality(Blocks') = Cardinality(Blocks) - 1
<1>1. Blocks' = Blocks \ {<<t, nest[t]>>}
  BY DEF Blocks
<1>2. <<t, nest[t]>> \in Blocks
  BY DEF Blocks
<1> QED
  BY <1>1, <1>2, FS_RemoveElement

-----------------------------------------------------------------------------
\* The invariant is inductive

\* The initial state satisfies it.
LEMMA InitIInv == Init => IInv
<1> SUFFICES ASSUME Init PROVE IInv
  OBVIOUS
<1>1. TypeOK
  <2>1. waiters \in Seq(Tasks)
    BY EmptySeq DEF Init
  <2>2. held \in [Tasks -> BOOLEAN] /\ nest \in [Tasks -> Nat] /\ family \in [Tasks -> Tasks]
    BY DEF Init
  <2> QED
    BY <2>1, <2>2 DEF Init, TypeOK
<1>2. Blocks = {}
  BY DEF Init, Blocks
<1>3. Counted
  BY <1>2, FS_EmptySet DEF Init, Counted
<1>4. OneFamily /\ Queued
  BY DEF Init, OneFamily, Queued
<1> QED
  BY <1>1, <1>3, <1>4 DEF IInv

\* Every step keeps the types.
LEMMA TypeStep == TypeOK /\ Queued /\ [Next]_vars => TypeOK'
<1> SUFFICES ASSUME TypeOK, Queued, [Next]_vars PROVE TypeOK'
  OBVIOUS
<1>1. ASSUME NEW t \in Tasks, AcquireOwned(t) PROVE TypeOK'
  BY <1>1 DEF TypeOK, AcquireOwned, asyncioLock
<1>2. ASSUME NEW t \in Tasks, AcquireFree(t) PROVE TypeOK'
  BY <1>2 DEF TypeOK, AcquireFree, Take
<1>3. ASSUME NEW t \in Tasks, AcquireWait(t) PROVE TypeOK'
  BY <1>3 DEF TypeOK, AcquireWait
<1>4. ASSUME NEW t \in Tasks, Granted(t) PROVE TypeOK'
  <2>1. waiters' \in Seq(Tasks)
    BY <1>4, DequeueFacts DEF Granted
  <2> QED
    BY <1>4, <2>1 DEF TypeOK, Granted, Take
<1>5. ASSUME NEW t \in Tasks, Cancel(t) PROVE TypeOK'
  BY <1>5 DEF TypeOK, Cancel
<1>6. ASSUME NEW t \in Tasks, GiveUp(t) PROVE TypeOK'
  <2>1. waiters' \in Seq(Tasks)
    BY <1>6, DequeueFacts DEF GiveUp
  <2>2. woken' \subseteq Tasks
    BY <1>6, <2>1 DEF TypeOK, GiveUp, WakeFirst
  <2> QED
    BY <1>6, <2>1, <2>2 DEF TypeOK, GiveUp
<1>7. ASSUME NEW t \in Tasks, Start(t) PROVE TypeOK'
  BY <1>7 DEF TypeOK, Start, asyncioLock
<1>8. ASSUME NEW t \in Tasks, NEW u \in Tasks, Spawn(t, u) PROVE TypeOK'
  BY <1>8 DEF TypeOK, Spawn, asyncioLock
<1>9. ASSUME NEW t \in Tasks, Leave(t) PROVE TypeOK'
  <2>1. woken' \subseteq Tasks
    BY <1>9 DEF TypeOK, Leave, Release, WakeFirst
  <2> QED
    BY <1>9, <2>1 DEF TypeOK, Leave, Release
<1>10. ASSUME NEW t \in Tasks, Finish(t) PROVE TypeOK'
  BY <1>10 DEF TypeOK, Finish, asyncioLock
<1>11. CASE UNCHANGED vars
  BY <1>11 DEF TypeOK, vars, asyncioLock
<1> QED
  BY <1>1, <1>2, <1>3, <1>4, <1>5, <1>6, <1>7, <1>8, <1>9, <1>10, <1>11 DEF Next

\* Every step keeps the counter equal to the number of open blocks.
LEMMA CountedStep == IInv /\ [Next]_vars => Counted'
<1> SUFFICES ASSUME IInv, [Next]_vars PROVE Counted'
  OBVIOUS
<1> USE DEF IInv
<1>1. ASSUME NEW t \in Tasks, AcquireOwned(t) PROVE Counted'
  <2>1. IsFiniteSet(Blocks') /\ Cardinality(Blocks') = Cardinality(Blocks) + 1
    BY <1>1, EnterBlocks DEF AcquireOwned, TypeOK, Counted
  <2>2. depth > 0
    BY <1>1, NobodyInside DEF AcquireOwned, TypeOK, OneFamily
  <2> QED
    BY <1>1, <2>1, <2>2 DEF AcquireOwned, asyncioLock, TypeOK, Counted
<1>2. ASSUME NEW t \in Tasks, Take(t), ~locked, broken' = broken PROVE Counted'
  <2>1. IsFiniteSet(Blocks') /\ Cardinality(Blocks') = Cardinality(Blocks) + 1
    BY <1>2, EnterBlocks DEF Take, TypeOK, Counted
  <2>2. depth = 0
    BY <1>2 DEF TypeOK, Counted
  <2> QED
    BY <1>2, <2>1, <2>2 DEF Take, TypeOK, Counted
<1>3. ASSUME NEW t \in Tasks, AcquireFree(t) PROVE Counted'
  BY <1>2, <1>3 DEF AcquireFree
<1>4. ASSUME NEW t \in Tasks, Granted(t) PROVE Counted'
  BY <1>2, <1>4 DEF Granted, Queued
<1>5. ASSUME NEW t \in Tasks, Leave(t) PROVE Counted'
  <2>1. IsFiniteSet(Blocks') /\ Cardinality(Blocks') = Cardinality(Blocks) - 1
    BY <1>5, LeaveBlocks DEF Leave, TypeOK, Counted
  <2>2. depth # 0
    BY <1>5, NobodyInside DEF Leave, TypeOK
  <2>3. depth' = depth - 1
    BY <1>5, <2>2 DEF Leave, Release
  <2>4. locked' <=> depth' > 0
    <3>1. locked' = (locked /\ ~(depth = 1))
      BY <1>5 DEF Leave, Release
    <3>2. locked /\ depth \in Nat
      BY <2>2 DEF TypeOK, Counted
    <3>3. locked' <=> ~(depth = 1)
      BY <3>1, <3>2, Zenon
    <3>4. ~(depth = 1) <=> depth - 1 > 0
      BY <2>2, <3>2
    <3> QED
      BY <2>3, <3>3, <3>4
  <2>5. broken' = {}
    BY <1>5, <2>2 DEF Leave, Release, TypeOK, Counted
  <2> QED
    BY <2>1, <2>3, <2>4, <2>5 DEF Counted
<1>6. ASSUME UNCHANGED <<depth, nest, locked, broken>> PROVE Counted'
  BY <1>6 DEF Counted, Blocks
<1> QED
  BY <1>1, <1>3, <1>4, <1>5, <1>6
  DEF Next, AcquireWait, Cancel, GiveUp, Start, Spawn, Finish, vars, asyncioLock

\* Every step keeps the owners one family whose head is inside.
LEMMA OneFamilyStep == ~Detached /\ IInv /\ [Next]_vars => OneFamily'
<1> SUFFICES ASSUME ~Detached, IInv, [Next]_vars PROVE OneFamily'
  OBVIOUS
<1> USE DEF IInv
<1>1. ASSUME NEW t \in Tasks, AcquireOwned(t) PROVE OneFamily'
  BY <1>1 DEF AcquireOwned, asyncioLock, TypeOK, OneFamily
<1>2. ASSUME NEW t \in Tasks, Take(t), ~locked, ~held[t], status'[t] = "running",
             \A u \in Tasks \ {t} : status'[u] = status[u]
      PROVE  OneFamily'
  <2>1. \A u \in Tasks : nest[u] = 0 /\ ~held[u]
    BY <1>2, NobodyInside DEF TypeOK, Counted, OneFamily
  <2>2. /\ held'[t] /\ nest'[t] = 1 /\ family'[t] = t
        /\ \A u \in Tasks \ {t} : ~held'[u] /\ nest'[u] = 0 /\ family'[u] = family[u]
    BY <1>2, <2>1 DEF Take, TypeOK
  <2> QED
    BY <1>2, <2>1, <2>2 DEF OneFamily
<1>3. ASSUME NEW t \in Tasks, AcquireFree(t) PROVE OneFamily'
  BY <1>2, <1>3 DEF AcquireFree
<1>4. ASSUME NEW t \in Tasks, Granted(t) PROVE OneFamily'
  <2>1. ~locked
    BY <1>4 DEF Granted, Queued
  <2>2. ~held[t]
    BY <1>4 DEF Granted, OneFamily
  <2>3. status'[t] = "running" /\ \A u \in Tasks \ {t} : status'[u] = status[u]
    BY <1>4 DEF Granted, TypeOK
  <2> QED
    BY <1>2, <1>4, <2>1, <2>2, <2>3 DEF Granted
<1>5. ASSUME NEW t \in Tasks, NEW s \in {"running", "waiting"}, ~held[t],
             status' = [status EXCEPT ![t] = s], UNCHANGED <<held, nest, family>>
      PROVE  OneFamily'
  BY <1>5 DEF TypeOK, OneFamily
<1>6. ASSUME NEW t \in Tasks, AcquireWait(t) \/ GiveUp(t) \/ Start(t) PROVE OneFamily'
  BY <1>5, <1>6 DEF AcquireWait, GiveUp, Start, OneFamily
<1>7. ASSUME NEW t \in Tasks, NEW u \in Tasks, Spawn(t, u) PROVE OneFamily'
  <2>1. ~held[u] /\ nest[u] = 0 /\ t # u
    BY <1>7 DEF Spawn, TypeOK, OneFamily
  <2>2. /\ (held'[u] <=> held[t]) /\ status'[u] = "running"
        /\ family'[u] = IF held[t] THEN family[t] ELSE u
        /\ \A w \in Tasks \ {u} : (held'[w] <=> held[w]) /\ status'[w] = status[w]
                                      /\ family'[w] = family[w]
        /\ nest' = nest
    BY <1>7 DEF Spawn, TypeOK
  <2>3. \A x \in Tasks : nest'[x] > 0 => held'[x]
    BY <2>1, <2>2 DEF OneFamily
  <2>4. \A x \in Tasks : held'[x] => status'[x] = "running" /\ nest'[family'[x]] > 0
    BY <2>1, <2>2 DEF OneFamily
  <2>5. \A x \in Tasks : ~held'[x] => family'[x] = x
    BY <2>1, <2>2 DEF OneFamily
  <2>6. \A x, y \in Tasks : held'[x] /\ held'[y] => family'[x] = family'[y]
    <3> SUFFICES ASSUME NEW x \in Tasks, NEW y \in Tasks, held'[x], held'[y]
                 PROVE  family'[x] = family'[y]
      OBVIOUS
    <3> DEFINE origin(w) == IF w = u THEN t ELSE w
    <3>1. /\ origin(x) \in Tasks /\ held[origin(x)] /\ family'[x] = family[origin(x)]
          /\ origin(y) \in Tasks /\ held[origin(y)] /\ family'[y] = family[origin(y)]
      BY <2>2
    <3> HIDE DEF origin
    <3> QED
      BY <3>1 DEF OneFamily
  <2> QED
    BY <2>3, <2>4, <2>5, <2>6 DEF OneFamily
<1>8. ASSUME NEW t \in Tasks, Leave(t) PROVE OneFamily'
  <2>1. /\ nest[t] > 0 /\ Joined(t) /\ held[t] /\ depth \in Nat \ {0}
        /\ nest'[t] = nest[t] - 1
        /\ \A u \in Tasks \ {t} : nest'[u] = nest[u]
        /\ status' = status /\ family' = family
    BY <1>8, NobodyInside DEF Leave, OneFamily, TypeOK
  <2>2. CASE depth = 1
    \* The last block: nobody else owns the lock.
    <3>1. Blocks = {<<t, 1>>}
      <4>1. nest \in [Tasks -> Nat] /\ 1 \in 1..nest[t]
        BY <2>1 DEF TypeOK
      <4>2. <<t, 1>> \in Blocks
        BY <4>1, BlocksMember
      <4>3. PICK b : Blocks = {b}
        BY <2>2, FS_Singleton DEF Counted
      <4> QED
        BY <4>2, <4>3
    <3>2. \A u \in Tasks : nest[u] > 0 => u = t /\ nest[u] = 1
      <4> SUFFICES ASSUME NEW u \in Tasks, nest[u] > 0 PROVE u = t /\ nest[u] = 1
        OBVIOUS
      <4>1. nest \in [Tasks -> Nat] /\ 1 \in 1..nest[u] /\ nest[u] \in 1..nest[u]
        BY DEF TypeOK
      <4>2. <<u, 1>> \in Blocks /\ <<u, nest[u]>> \in Blocks
        BY <4>1, BlocksMember
      <4> QED
        BY <3>1, <4>2
    <3>3. \A u \in Tasks : held[u] => u = t
      BY <2>1, <3>2 DEF Joined, OneFamily, TypeOK
    <3>4. family[t] = t
      BY <2>1, <3>2 DEF OneFamily, TypeOK
    <3>5. held' = [held EXCEPT ![t] = FALSE]
      BY <1>8, <2>2 DEF Leave, Release
    <3>6. \A u \in Tasks : ~held'[u] /\ nest'[u] = 0 /\ family'[u] = u
      BY <2>1, <3>2, <3>3, <3>4, <3>5 DEF TypeOK, OneFamily
    <3> QED
      BY <3>6 DEF OneFamily
  <2>3. CASE depth > 1
    \* Not the last block: if t leaves for good, it is not the head of a family.
    <3>1. held' = held
      BY <1>8, <2>3 DEF Leave, Release
    <3>2. nest[t] = 1 => \A u \in Tasks : held[u] => family[u] # t
      <4> SUFFICES ASSUME nest[t] = 1, NEW u \in Tasks, held[u], family[u] = t PROVE FALSE
        OBVIOUS
      <4>1. PICK w \in Tasks \ {t} : nest[w] > 0
        <5>1. Blocks # {<<t, 1>>} /\ Blocks # {}
          <6>1. Cardinality({<<t, 1>>}) = 1
            BY FS_Singleton
          <6>2. Cardinality({}) = 0
            BY FS_EmptySet
          <6> QED
            BY <2>3, <6>1, <6>2 DEF Counted
        <5>2. Blocks \ {<<t, 1>>} # {}
          BY <5>1
        <5> QED
          BY <5>2 DEF Blocks, TypeOK
      <4>2. held[w] /\ family[w] = t /\ status[w] = "running"
        BY <4>1 DEF OneFamily
      <4> QED
        BY <2>1, <4>1, <4>2 DEF Joined
    <3> QED
      BY <2>1, <3>1, <3>2 DEF TypeOK, OneFamily
  <2> QED
    BY <2>1, <2>2, <2>3
<1>9. ASSUME NEW t \in Tasks, Finish(t) PROVE OneFamily'
  <2>1. /\ ~held'[t] /\ family'[t] = t /\ nest[t] = 0
        /\ \A u \in Tasks \ {t} : (held'[u] <=> held[u]) /\ status'[u] = status[u]
                                      /\ family'[u] = family[u]
        /\ nest' = nest
    BY <1>9 DEF Finish, TypeOK
  <2>2. \A x \in Tasks : nest'[x] > 0 => held'[x]
    BY <2>1 DEF OneFamily, TypeOK
  <2>3. \A x \in Tasks : held'[x] => status'[x] = "running" /\ nest'[family'[x]] > 0
    BY <2>1 DEF OneFamily
  <2>4. \A x \in Tasks : ~held'[x] => family'[x] = x
    BY <2>1 DEF OneFamily
  <2>5. \A x, y \in Tasks : held'[x] /\ held'[y] => family'[x] = family'[y]
    BY <2>1 DEF OneFamily
  <2> QED
    BY <2>2, <2>3, <2>4, <2>5 DEF OneFamily
<1>10. ASSUME UNCHANGED <<held, status, nest, family>> PROVE OneFamily'
  BY <1>10 DEF OneFamily
<1> QED
  BY <1>1, <1>3, <1>4, <1>6, <1>7, <1>8, <1>9, <1>10 DEF Next, Cancel, vars

\* Every step keeps the queue in order, and its head woken when the lock is free.
LEMMA QueuedStep == IInv /\ [Next]_vars => Queued'
<1> SUFFICES ASSUME IInv, [Next]_vars PROVE Queued'
  OBVIOUS
<1> USE DEF IInv
<1>1. ASSUME NEW t \in Tasks, AcquireFree(t) PROVE Queued'
  <2>1. woken = {}
    <3>1. Len(waiters) > 0 => waiters[1] \notin woken
      BY <1>1 DEF AcquireFree, NoQueue, TypeOK
    <3> QED
      BY <3>1 DEF Queued
  <2> QED
    BY <1>1, <2>1 DEF AcquireFree, Take, Queued
<1>2. ASSUME NEW t \in Tasks, AcquireWait(t) PROVE Queued'
  <2>1. /\ waiters' \in Seq(Tasks) /\ Len(waiters') = Len(waiters) + 1
        /\ \A i \in 1..Len(waiters) : waiters'[i] = waiters[i]
        /\ waiters'[Len(waiters) + 1] = t
    BY <1>2, AppendProperties DEF AcquireWait, TypeOK
  <2>2. status'[t] = "waiting" /\ \A u \in Tasks \ {t} : status'[u] = status[u]
    BY <1>2 DEF AcquireWait, TypeOK
  <2>3. \A i \in 1..Len(waiters) : waiters[i] \in Tasks \ {t} /\ waiters[i] # t
    BY <1>2 DEF AcquireWait, TypeOK, Queued
  <2>4. Len(waiters) = 0 => locked
    BY <1>2 DEF AcquireWait, NoQueue
  <2>5. Len(waiters) \in Nat
    BY LenProperties DEF TypeOK
  <2>6. \A i \in 1..Len(waiters') : status'[waiters'[i]] = "waiting"
    BY <2>1, <2>2, <2>3, <2>5 DEF Queued
  <2>7. \A i, j \in 1..Len(waiters') : waiters'[i] = waiters'[j] => i = j
    BY <2>1, <2>3, <2>5 DEF Queued
  <2>8. \A u \in Tasks : status'[u] = "waiting" => \E i \in 1..Len(waiters') : waiters'[i] = u
    BY <2>1, <2>2, <2>5 DEF Queued
  <2>9. UNCHANGED <<woken, cancelled, locked>>
    BY <1>2 DEF AcquireWait
  <2> QED
    BY <2>1, <2>4, <2>5, <2>6, <2>7, <2>8, <2>9 DEF Queued
<1>3. ASSUME NEW t \in Tasks, status[t] = "waiting", waiters' = Dequeue(t),
             status' = [status EXCEPT ![t] = "running"]
      PROVE  /\ \A i \in 1..Len(waiters') : status'[waiters'[i]] = "waiting"
             /\ \A i, j \in 1..Len(waiters') : waiters'[i] = waiters'[j] => i = j
             /\ \A u \in Tasks :
                   status'[u] = "waiting" => \E i \in 1..Len(waiters') : waiters'[i] = u
             /\ waiters[1] # t => Len(waiters') > 0 /\ waiters'[1] = waiters[1]
             /\ Len(waiters') > 0 => waiters'[1] # t
             /\ waiters' \in Seq(Tasks)
  <2>1. PICK k \in 1..Len(waiters) :
           /\ waiters[k] = t
           /\ waiters' \in Seq(Tasks)
           /\ Len(waiters') = Len(waiters) - 1
           /\ \A j \in 1..(Len(waiters) - 1) :
                 waiters'[j] = IF j < k THEN waiters[j] ELSE waiters[j + 1]
    BY <1>3, DequeueFacts
  <2>2. Len(waiters) \in Nat /\ \A i \in 1..Len(waiters) : waiters[i] \in Tasks
    BY LenProperties DEF TypeOK
  <2>3. status'[t] = "running" /\ \A u \in Tasks \ {t} : status'[u] = status[u]
    BY <1>3 DEF TypeOK
  <2> DEFINE old(j) == IF j < k THEN j ELSE j + 1
  <2>4. \A j \in 1..Len(waiters') :
           old(j) \in 1..Len(waiters) /\ old(j) # k /\ waiters'[j] = waiters[old(j)]
    BY <2>1, <2>2
  <2>5. \A i, j \in 1..Len(waiters') : old(i) = old(j) => i = j
    BY <2>1, <2>2
  <2>6. \A i \in 1..Len(waiters) \ {k} : \E j \in 1..Len(waiters') : old(j) = i
    <3> SUFFICES ASSUME NEW i \in 1..Len(waiters) \ {k}
                 PROVE  \E j \in 1..Len(waiters') : old(j) = i
      OBVIOUS
    <3>1. CASE i < k
      BY <2>1, <2>2, <3>1
    <3>2. CASE i > k
      <4>1. i - 1 \in 1..Len(waiters') /\ old(i - 1) = i
        BY <2>1, <2>2, <3>2
      <4> QED
        BY <4>1
    <3> QED
      BY <2>2, <3>1, <3>2
  <2>7. k > 1 => Len(waiters') > 0 /\ old(1) = 1
    BY <2>1, <2>2
  <2> HIDE DEF old
  <2>8. \A j \in 1..Len(waiters') : waiters'[j] # t
    BY <2>1, <2>4 DEF Queued
  <2>9. \A i \in 1..Len(waiters') : status'[waiters'[i]] = "waiting"
    BY <2>2, <2>3, <2>4, <2>8, SMTT(20) DEF Queued
  <2>10. \A i, j \in 1..Len(waiters') : waiters'[i] = waiters'[j] => i = j
    BY <2>4, <2>5 DEF Queued
  <2>11. ASSUME NEW u \in Tasks, status'[u] = "waiting"
         PROVE  \E i \in 1..Len(waiters') : waiters'[i] = u
    <3>1. PICK i \in 1..Len(waiters) : waiters[i] = u
      BY <2>3, <2>11 DEF Queued
    <3>2. i # k
      BY <2>1, <2>3, <2>11, <3>1
    <3>3. PICK j \in 1..Len(waiters') : old(j) = i
      BY <2>6, <3>2
    <3> QED
      BY <2>4, <3>1, <3>3
  <2>12. waiters[1] # t => Len(waiters') > 0 /\ waiters'[1] = waiters[1]
    <3> SUFFICES ASSUME waiters[1] # t PROVE Len(waiters') > 0 /\ waiters'[1] = waiters[1]
      OBVIOUS
    <3>1. k > 1
      BY <2>1, <2>2
    <3>2. 1 \in 1..Len(waiters') /\ old(1) = 1
      BY <2>1, <2>2, <2>7, <3>1
    <3> QED
      BY <2>4, <3>2
  <2>13. Len(waiters') > 0 => waiters'[1] # t
    BY <2>1, <2>2, <2>8
  <2> QED
    BY <2>1, <2>9, <2>10, <2>11, <2>12, <2>13
<1>4. ASSUME NEW t \in Tasks, Granted(t) PROVE Queued'
  <2>1. locked' /\ woken' = {}
    BY <1>4 DEF Granted, Take, Queued
  <2> QED
    BY <1>3, <1>4, <2>1 DEF Granted, Queued
<1>5. ASSUME NEW t \in Tasks, Cancel(t) PROVE Queued'
  BY <1>5 DEF Cancel, Queued
<1>6. ASSUME NEW t \in Tasks, GiveUp(t) PROVE Queued'
  <2>1. /\ status[t] = "waiting" /\ waiters' = Dequeue(t)
        /\ status' = [status EXCEPT ![t] = "running"] /\ locked' = locked
        /\ cancelled' = cancelled \ {t}
    BY <1>6 DEF GiveUp
  <2>2. CASE locked
    BY <1>3, <1>6, <2>1, <2>2 DEF GiveUp, Queued
  <2>3. CASE ~locked
    <3>1. woken' = WakeFirst(waiters', woken \ {t})
      BY <1>6, <2>3 DEF GiveUp
    <3>2. Len(waiters') \in Nat /\ (waiters' = <<>> <=> Len(waiters') = 0)
      BY <1>3, <2>1, EmptySeq, LenProperties
    <3>3. \A u \in woken \ {t} : Len(waiters') > 0 /\ u = waiters'[1]
      BY <1>3, <2>1, ZenonT(30) DEF Queued
    <3>4. \A u \in woken' : Len(waiters') > 0 /\ u = waiters'[1]
      BY <3>1, <3>2, <3>3 DEF WakeFirst
    <3>5. Len(waiters') > 0 => waiters'[1] \in woken' \cup cancelled'
      <4> SUFFICES ASSUME Len(waiters') > 0 PROVE waiters'[1] \in woken' \cup cancelled'
        OBVIOUS
      <4>1. waiters'[1] # t
        BY <1>3, <2>1
      <4>2. Head(waiters') = waiters'[1] /\ waiters' # <<>>
        BY <3>2
      <4>3. CASE waiters'[1] \in woken \cup cancelled
        BY <2>1, <3>1, <4>1, <4>2, <4>3 DEF WakeFirst
      <4>4. CASE waiters'[1] \notin woken \cup cancelled
        BY <3>1, <4>2, <4>4 DEF WakeFirst
      <4> QED
        BY <4>3, <4>4
    <3> QED
      BY <1>3, <2>1, <2>3, <3>4, <3>5 DEF Queued
  <2> QED
    BY <2>2, <2>3
<1>7. ASSUME NEW t \in Tasks, NEW s \in {"idle", "running"}, status[t] # "waiting",
             status' = [status EXCEPT ![t] = s], UNCHANGED asyncioLock
      PROVE  Queued'
  <2>1. \A u \in Tasks : status'[u] = "waiting" <=> status[u] = "waiting"
    BY <1>7 DEF TypeOK
  <2>2. \A i \in 1..Len(waiters) : waiters[i] \in Tasks
    BY DEF TypeOK
  <2> QED
    BY <1>7, <2>1, <2>2 DEF Queued, asyncioLock
<1>8. ASSUME NEW t \in Tasks, Start(t) \/ Finish(t) PROVE Queued'
  BY <1>7, <1>8 DEF Start, Finish
<1>9. ASSUME NEW t \in Tasks, NEW u \in Tasks, Spawn(t, u) PROVE Queued'
  BY <1>7, <1>9 DEF Spawn
<1>10. ASSUME NEW t \in Tasks, Leave(t) PROVE Queued'
  <2>1. UNCHANGED <<waiters, cancelled, status>>
    BY <1>10 DEF Leave
  <2>2. CASE depth = 1 /\ locked
    <3>1. woken' = WakeFirst(waiters, woken) /\ locked' = FALSE
      BY <1>10, <2>2 DEF Leave, Release
    <3>2. woken = {}
      BY <2>2 DEF Queued
    <3>3. waiters = <<>> <=> Len(waiters) = 0
      BY EmptySeq, LenProperties DEF TypeOK
    <3>4. \A u \in woken' : Len(waiters) > 0 /\ u = waiters[1]
      BY <3>1, <3>2, <3>3, LenProperties DEF WakeFirst, TypeOK
    <3>5. Len(waiters) > 0 => waiters[1] \in woken' \cup cancelled
      BY <3>1, <3>3 DEF WakeFirst
    <3> QED
      BY <2>1, <3>1, <3>4, <3>5 DEF Queued
  <2>3. CASE ~(depth = 1 /\ locked)
    <3>1. woken' = woken
      BY <1>10, <2>3 DEF Leave, Release
    <3>2. locked' <=> locked
      BY <1>10, <2>3 DEF Leave, Release
    <3> QED
      BY <2>1, <3>1, <3>2 DEF Queued
  <2> QED
    BY <2>2, <2>3
<1>11. ASSUME UNCHANGED <<asyncioLock, status>> PROVE Queued'
  BY <1>11 DEF Queued, asyncioLock
<1> QED
  BY <1>1, <1>2, <1>4, <1>5, <1>6, <1>8, <1>9, <1>10, <1>11 DEF Next, AcquireOwned, vars

-----------------------------------------------------------------------------
\* Theorems

\* The inductive invariant holds in every reachable state.
THEOREM Invariance == ASSUME ~Detached PROVE Spec => []IInv
<1>1. IInv /\ [Next]_vars => IInv'
  BY TypeStep, CountedStep, OneFamilyStep, QueuedStep DEF IInv
<1> QED
  BY <1>1, InitIInv, PTL DEF Spec

\* The state of the lock and of the tasks around it is always well-formed.
THEOREM TypeCorrect == ASSUME ~Detached PROVE Spec => []TypeOK
<1>1. IInv => TypeOK
  BY DEF IInv
<1> QED
  BY <1>1, Invariance, PTL

\* RLock.acquire() and release() keep everybody out who does not work for the holder.
THEOREM Exclusion == ASSUME ~Detached PROVE Spec => []MutualExclusion
<1>1. IInv => MutualExclusion
  BY DEF IInv, OneFamily, MutualExclusion, Inside
<1> QED
  BY <1>1, Invariance, PTL

\* _depth is the number of open blocks of all owners, whichever task opened or closed
\* them, and the asyncio.Lock is taken exactly while there is one.
THEOREM Counting == ASSUME ~Detached PROVE Spec => []DepthMatchesBlocks
<1>1. IInv => DepthMatchesBlocks
  BY DEF IInv, Counted, DepthMatchesBlocks
<1> QED
  BY <1>1, Invariance, PTL

\* release() clears the claim of the context that lets the lock go, the only one left when
\* the tasks with copies of it were waited for.
LEMMA Ownership == ASSUME ~Detached PROVE Spec => []OwnershipIsCurrent
<1>1. IInv => OwnershipIsCurrent
  <2> SUFFICES ASSUME IInv, NEW t \in Tasks, held[t] PROVE locked /\ family[t] \in Inside
    BY DEF OwnershipIsCurrent
  <2>1. family[t] \in Tasks /\ nest[family[t]] > 0
    BY DEF IInv, OneFamily, TypeOK
  <2>2. depth # 0
    BY <2>1, NobodyInside DEF IInv
  <2> QED
    BY <2>1, <2>2 DEF IInv, Counted, TypeOK, Inside
<1> QED
  BY <1>1, Invariance, PTL

\* Leaving a block never raises RuntimeError.
THEOREM NoError == ASSUME ~Detached PROVE Spec => []NoReleaseError
<1>1. IInv => NoReleaseError
  BY DEF IInv, Counted, NoReleaseError
<1> QED
  BY <1>1, Invariance, PTL

\* A free lock with a queue has a wake-up under way, whoever was cancelled.
THEOREM WakeUp == ASSUME ~Detached PROVE Spec => []NoLostWakeup
<1>1. IInv => NoLostWakeup
  <2> SUFFICES ASSUME IInv, waiters # <<>>, ~locked PROVE Head(waiters) \in woken \cup cancelled
    BY DEF NoLostWakeup
  <2>1. Len(waiters) > 0 /\ Head(waiters) = waiters[1]
    BY EmptySeq, LenProperties DEF IInv, TypeOK
  <2> QED
    BY <2>1 DEF IInv, Queued
<1> QED
  BY <1>1, Invariance, PTL

\* The lock implements FamilyMutex: every step of it is a step of the abstract lock, or
\* changes nothing that one can see.
THEOREM Refinement == ASSUME ~Detached PROVE Spec => KeepsPromise
<1>1. Init => Promise!Init
  BY DEF Init, Promise!Init
<1>2. IInv /\ [Next]_vars => [Promise!Next]_<<family, nest>>
  <2> SUFFICES ASSUME IInv, [Next]_vars PROVE [Promise!Next]_<<family, nest>>
    OBVIOUS
  <2> USE DEF IInv
  <2>1. ASSUME NEW t \in Tasks, nest' = [nest EXCEPT ![t] = @ + 1], family' = family,
               \A u \in Tasks : nest[u] > 0 => family[u] = family[t]
        PROVE  Promise!Next
    BY <2>1 DEF Promise!Next, Promise!Enter, Promise!Inside
  <2>2. ASSUME NEW t \in Tasks, Take(t), ~locked, ~held[t] PROVE Promise!Next
    <3>1. \A u \in Tasks : nest[u] = 0
      BY <2>2, NobodyInside DEF Counted, TypeOK
    <3>2. family' = family
      BY <2>2 DEF Take, OneFamily, TypeOK
    <3>3. nest' = [nest EXCEPT ![t] = @ + 1]
      BY <2>2 DEF Take
    <3>4. \A u \in Tasks : nest[u] > 0 => family[u] = family[t]
      BY <3>1
    <3> QED
      BY <2>1, <3>2, <3>3, <3>4
  <2>3. ASSUME NEW t \in Tasks, AcquireOwned(t) PROVE Promise!Next
    BY <2>1, <2>3 DEF AcquireOwned, OneFamily
  <2>4. ASSUME NEW t \in Tasks, AcquireFree(t) PROVE Promise!Next
    BY <2>2, <2>4 DEF AcquireFree
  <2>5. ASSUME NEW t \in Tasks, Granted(t) PROVE Promise!Next
    BY <2>2, <2>5 DEF Granted, OneFamily, Queued
  <2>6. ASSUME NEW t \in Tasks, NEW u \in Tasks, Spawn(t, u) PROVE Promise!Next
    <3>1. nest[u] = 0 /\ nest' = nest
      BY <2>6 DEF Spawn, OneFamily, TypeOK
    <3>2. CASE held[t]
      <4>1. family[t] \in Tasks /\ nest[family[t]] > 0 /\ family[family[t]] = family[t]
        BY <3>2 DEF OneFamily, TypeOK
      <4>2. family' = [family EXCEPT ![u] = family[t]]
        BY <2>6, <3>2 DEF Spawn
      <4> QED
        BY <3>1, <4>1, <4>2 DEF Promise!Next, Promise!Begin, Promise!Inside
    <3>3. CASE ~held[t]
      <4>1. family' = [family EXCEPT ![u] = u]
        BY <2>6, <3>3 DEF Spawn
      <4> QED
        BY <3>1, <4>1 DEF Promise!Next, Promise!Begin
    <3> QED
      BY <3>2, <3>3
  <2>7. ASSUME NEW t \in Tasks, Leave(t) PROVE Promise!Next
    BY <2>7 DEF Leave, Promise!Next, Promise!Exit, Promise!Inside
  <2>8. ASSUME NEW t \in Tasks, Finish(t) PROVE Promise!Next
    BY <2>8 DEF Finish, Promise!Next, Promise!End
  <2>9. ASSUME UNCHANGED <<family, nest>> PROVE UNCHANGED <<family, nest>>
    BY <2>9
  <2> QED
    BY <2>3, <2>4, <2>5, <2>6, <2>7, <2>8, <2>9
    DEF Next, AcquireWait, Cancel, GiveUp, Start, vars
<1> QED
  BY <1>1, <1>2, Invariance, PTL DEF Spec, KeepsPromise, Promise!Spec
=============================================================================
