--------------------------- MODULE InjectionSharing ---------------------------
(***************************************************************************)
(* What a context has is used again, and is right.                         *)
(*                                                                         *)
(* Values are what the overrides in force say: no resolution hands out a   *)
(* stale value, for every dependency graph and however override blocks,    *)
(* tasks and failures follow on each other, when the replacements depend   *)
(* on nothing that is overridden behind the back of overridden_calls().    *)
(*                                                                         *)
(* Who is inside a lock works in one task, as long as factories spawn no   *)
(* tasks that resolve: a context builds a dependency once, what it has is  *)
(* not built again in an override block, and no tasks wait for each other  *)
(* in a circle.                                                            *)
(***************************************************************************)
EXTENDS InjectionProofs

-----------------------------------------------------------------------------
\* Values: the inductive invariant

\* What some override block replaces, and what nothing under it is replaced of.
Overridden == UNION {DOMAIN o : o \in Overrides}
Untouched == {d \in Calls : Reach[d] \cap Overridden = {}}

\* overridden_calls() walks the parameters as declared: what a replacement depends on must be
\* among what the replaced call depends on, or be out of reach of every override.
Replaced == \A o \in Overrides : \A k \in DOMAIN o : Range(Deps[o[k]]) \subseteq Reach[k] \cup Untouched

\* The chain of a context goes on as the chains of the contexts in it do.
LinkedAt(c) ==
    LET chain == ctxs[c].chain
    IN  \A i \in 1..Len(chain) :
            /\ Len(ctxs[chain[i]].chain) = Len(chain) - i + 1
            /\ \A j \in 1..(Len(chain) - i + 1) : ctxs[chain[i]].chain[j] = chain[i + j - 1]
Linked == \A c \in Ctxs : Used(c) => LinkedAt(c)

\* What a resolution of root can come by.
Visited(root) == Reach[root] \cup Untouched

\* What is cached, and what a resolution has so far, was built as the overrides say.
TrueIn(caches, c) == \A k \in DOMAIN caches[c] : caches[c][k].made = Fresh(Effective(c), k)
Fits(f) ==
    /\ Range(f.todo) \subseteq Visited(f.root)
    /\ \A k \in DOMAIN f.vals : f.vals[k].made = Fresh(Effective(f.ctx), k)
Sourced ==
    /\ \A c \in Ctxs : Used(c) => TrueIn(cache, c)
    /\ \A t \in Tasks : \A i \in 1..Len(frames[t]) : IsResolve(frames[t][i]) => Fits(frames[t][i])

VInv == IInv /\ Linked /\ Sourced

-----------------------------------------------------------------------------
\* The overrides in force

\* There is one least number in a set.
LEMMA MinIs ==
    ASSUME NEW T \in SUBSET Nat, NEW m \in T, \A k \in T : m <= k
    PROVE  Min(T) = m
<1>1. Min(T) \in T /\ \A k \in T : Min(T) <= k
  BY MinFacts
<1>2. PICK x \in Nat : x = Min(T)
  BY <1>1
<1>3. x <= m /\ m <= x
  BY <1>1, <1>2
<1> QED
  BY <1>2, <1>3

\* What replaces a call in a context: what its innermost override says.
LEMMA EffectiveIs ==
    ASSUME Typed, NEW c \in Ctxs, NEW k \in Calls, NEW chain, chain = ctxs[c].chain
    PROVE  /\ (\A i \in 1..Len(chain) : k \notin DOMAIN ctxs[chain[i]].own) => Effective(c)[k] = k
           /\ \A i \in 1..Len(chain) :
                 /\ k \in DOMAIN ctxs[chain[i]].own
                 /\ \A j \in 1..(i - 1) : k \notin DOMAIN ctxs[chain[j]].own
                 => Effective(c)[k] = ctxs[chain[i]].own[k]
<1> DEFINE where == {i \in 1..Len(chain) : k \in DOMAIN ctxs[chain[i]].own}
<1>1. Len(chain) \in Nat
  BY LenProperties DEF Typed, Contexts
<1>2. Effective(c)[k] = IF where = {} THEN k ELSE ctxs[chain[Min(where)]].own[k]
  BY DEF Effective
<1>3. ASSUME NEW i \in 1..Len(chain), k \in DOMAIN ctxs[chain[i]].own,
             \A j \in 1..(i - 1) : k \notin DOMAIN ctxs[chain[j]].own
      PROVE  Effective(c)[k] = ctxs[chain[i]].own[k]
  <2>1. i \in where /\ where \in SUBSET Nat
    BY <1>1, <1>3
  <2>2. \A j \in where : i <= j
    BY <1>1, <1>3
  <2> HIDE DEF where
  <2>3. Min(where) = i
    BY <2>1, <2>2, MinIs
  <2> QED
    BY <1>2, <2>1, <2>3
<1> QED
  BY <1>2, <1>3

\* Calls are overridden on the chain, or not; if so, in an innermost place.
LEMMA InnermostPlace ==
    ASSUME Typed, NEW c \in Ctxs, NEW k, NEW chain, chain = ctxs[c].chain
    PROVE  \/ \A i \in 1..Len(chain) : k \notin DOMAIN ctxs[chain[i]].own
           \/ \E i \in 1..Len(chain) : /\ k \in DOMAIN ctxs[chain[i]].own
                                       /\ \A j \in 1..(i - 1) : k \notin DOMAIN ctxs[chain[j]].own
<1> DEFINE where == {i \in 1..Len(chain) : k \in DOMAIN ctxs[chain[i]].own}
<1>1. Len(chain) \in Nat
  BY LenProperties DEF Typed, Contexts
<1>2. SUFFICES ASSUME where # {}
               PROVE  \E i \in 1..Len(chain) : /\ k \in DOMAIN ctxs[chain[i]].own
                                               /\ \A j \in 1..(i - 1) : k \notin DOMAIN ctxs[chain[j]].own
  OBVIOUS
<1>3. where \in SUBSET Nat
  BY <1>1
<1>4. PICK i \in where : \A j \in where : i <= j
  <2> HIDE DEF where
  <2> QED
    BY <1>2, <1>3, LeastNatural
<1>5. i \in 1..Len(chain) /\ k \in DOMAIN ctxs[chain[i]].own
  BY <1>4
<1>6. \A j \in 1..(i - 1) : j \in 1..Len(chain) /\ ~(i <= j)
  BY <1>1, <1>5
<1> QED
  BY <1>4, <1>5, <1>6

\* What no context inside of the i-th overrides is replaced in it as in c.
LEMMA EffectiveAbove ==
    ASSUME Typed, NEW c \in Ctxs, LinkedAt(c), NEW i \in 1..Len(ctxs[c].chain),
           NEW d \in Ctxs, d = ctxs[c].chain[i], NEW k \in Calls, k \notin Introduced(c, i)
    PROVE  Effective(d)[k] = Effective(c)[k]
<1> DEFINE chain == ctxs[c].chain
           rest == ctxs[d].chain
           own(e) == DOMAIN ctxs[e].own
<1>1. PICK n \in Nat : n = Len(chain)
  BY LenProperties DEF Typed, Contexts
<1>2. i \in 1..n /\ Len(rest) = n - i + 1 /\ \A j \in 1..(n - i + 1) : rest[j] = chain[i + j - 1]
  BY <1>1 DEF LinkedAt
<1>3. \A j \in 1..(i - 1) : k \notin own(chain[j])
  BY DEF Introduced
<1>4. /\ (\A j \in 1..n : k \notin own(chain[j])) => Effective(c)[k] = k
      /\ \A j \in 1..n : k \in own(chain[j]) /\ (\A h \in 1..(j - 1) : k \notin own(chain[h]))
                         => Effective(c)[k] = ctxs[chain[j]].own[k]
  BY <1>1, EffectiveIs
<1>5. /\ (\A j \in 1..Len(rest) : k \notin own(rest[j])) => Effective(d)[k] = k
      /\ \A j \in 1..Len(rest) : k \in own(rest[j]) /\ (\A h \in 1..(j - 1) : k \notin own(rest[h]))
                                 => Effective(d)[k] = ctxs[rest[j]].own[k]
  BY EffectiveIs, ZenonT(30)
<1> HIDE DEF chain, rest, own
<1>6. CASE \A j \in 1..Len(rest) : k \notin own(rest[j])
  <2>1. ASSUME NEW j \in 1..n
        PROVE  k \notin own(chain[j])
    <3>1. j \in 1..(i - 1) \/ (j - i + 1 \in 1..(n - i + 1) /\ i + (j - i + 1) - 1 = j)
      BY <1>2
    <3> QED
      BY <1>2, <1>3, <1>6, <3>1
  <2> QED
    BY <1>4, <1>5, <1>6, <2>1
<1>7. ASSUME NEW j \in 1..Len(rest), k \in own(rest[j]), \A h \in 1..(j - 1) : k \notin own(rest[h])
      PROVE  Effective(d)[k] = Effective(c)[k]
  <2>1. PICK m \in 1..n : m = i + j - 1
    BY <1>2
  <2>2. rest[j] = chain[m]
    BY <1>2, <2>1
  <2>3. ASSUME NEW h \in 1..(m - 1)
        PROVE  k \notin own(chain[h])
    <3>1. h \in 1..(i - 1) \/ (/\ h - i + 1 \in 1..(j - 1) /\ h - i + 1 \in 1..(n - i + 1)
                               /\ i + (h - i + 1) - 1 = h)
      BY <1>2, <2>1
    <3> QED
      BY <1>2, <1>3, <1>7, <3>1
  <2>4. Effective(d)[k] = ctxs[rest[j]].own[k]
    BY <1>5, <1>7
  <2>5. Effective(c)[k] = ctxs[chain[m]].own[k]
    BY <1>4, <1>7, <2>2, <2>3
  <2> QED
    BY <2>2, <2>4, <2>5
<1> QED
  BY <1>6, <1>7, InnermostPlace DEF rest, own

\* The maps that override blocks carry are partial maps of calls.
LEMMA OwnMaps ==
    ASSUME Typed, NEW c \in Ctxs, NEW i \in 1..Len(ctxs[c].chain)
    PROVE  /\ ctxs[c].chain[i] \in Ctxs
           /\ ctxs[ctxs[c].chain[i]].own \in PartialMap(Calls, Calls)
           /\ DOMAIN ctxs[ctxs[c].chain[i]].own \subseteq Calls \cap Overridden
<1>1. PICK d \in Ctxs : d = ctxs[c].chain[i]
  BY ElementOfSeq DEF Typed, Contexts
<1>2. ctxs[d].own \in Overrides \cup {Nothing}
  BY DEF Typed, Contexts
<1>3. ctxs[d].own \in PartialMap(Calls, Calls)
  <2>1. Nothing \in PartialMap(Calls, Calls)
    BY MapFacts DEF Nothing
  <2>2. Overrides \subseteq PartialMap(Calls, Calls)
    BY InjectionAssumption DEF OverrideMaps, PartialMap
  <2> QED
    BY <1>2, <2>1, <2>2
<1>4. DOMAIN ctxs[d].own \subseteq Calls
  BY <1>3, MapFacts
<1>5. DOMAIN ctxs[d].own \subseteq Overridden
  BY <1>2 DEF Overridden, Nothing
<1> QED
  BY <1>1, <1>3, <1>4, <1>5

\* Overlays, one on the other, satisfy the equation by which InForce defines them.
LEMMA InsideUnfolds ==
    ASSUME Typed, NEW c \in Ctxs, NEW chain, chain = ctxs[c].chain
    PROVE  \E f \in [0..Len(chain) -> PartialMap(Calls, Calls)] :
              /\ f[0] = Nothing
              /\ \A i \in 1..Len(chain) : f[i] = Overlay(f[i - 1], ctxs[chain[i]].own)
              /\ InForce(c) = Overlay(f[Len(chain)], [k \in Calls |-> k])
<1> DEFINE n == Len(chain)
           C == 0..n
           V == PartialMap(Calls, Calls)
           own(i) == ctxs[chain[i]].own
           next == [i \in C |-> IF i = 0 THEN {} ELSE {i - 1}]
           step == [p \in C \X [C -> V] |-> IF p[1] = 0 THEN Nothing ELSE Overlay(p[2][p[1] - 1], own(p[1]))]
<1>1. n \in Nat
  BY LenProperties DEF Typed, Contexts
<1>2. Nothing \in V
  BY DEF Nothing, PartialMap
<1>3. \A i \in 1..n : own(i) \in V
  BY OwnMaps
<1>4. \A i \in C, g \in [C -> V] :
          step[<<i, g>>] = IF i = 0 THEN Nothing ELSE Overlay(g[i - 1], own(i))
  OBVIOUS
<1> HIDE DEF own
<1>5. step \in [C \X [C -> V] -> V]
  <2> SUFFICES ASSUME NEW i \in C, NEW g \in [C -> V]
               PROVE  (IF i = 0 THEN Nothing ELSE Overlay(g[i - 1], own(i))) \in V
    OBVIOUS
  <2>1. CASE i = 0
    BY <1>2, <2>1
  <2>2. CASE i # 0
    <3>1. i - 1 \in C /\ i \in 1..n
      BY <1>1, <2>2
    <3>2. g[i - 1] \in V /\ own(i) \in V
      BY <1>3, <3>1
    <3>3. Overlay(g[i - 1], own(i)) \in V
      BY <3>2, OverlayMap
    <3> HIDE DEF V, C
    <3> QED
      BY <2>2, <3>3
  <2> QED
    BY <2>1, <2>2
<1>6. next \in [C -> SUBSET C]
  BY <1>1
<1>7. WellFounded(C, next)
  <2> SUFFICES ASSUME NEW D \in SUBSET C, D # {}
               PROVE  \E i \in D : next[i] \cap D = {}
    BY <1>6 DEF WellFounded
  <2>1. D \in SUBSET Nat
    BY <1>1
  <2>2. PICK m \in D : \A k \in D : m <= k
    BY <2>1, LeastNatural
  <2> QED
    BY <1>1, <2>1, <2>2
<1>8. Local(C, V, next, step)
  BY <1>4 DEF Local
<1>9. \E f \in [C -> V] : \A i \in C : f[i] = step[<<i, f>>]
  <2> HIDE DEF step, next
  <2> HIDE DEF V, C
  <2>1. Recursive(C, V, next, step)
    BY <1>2, <1>5, <1>7, <1>8 DEF Recursive
  <2> QED
    BY <2>1, GraphRecursion DEF HasSolution
<1>10. PICK f \in [C -> V] : \A i \in C : f[i] = step[<<i, f>>]
  BY <1>9
<1>11. \A i \in C : f[i] = IF i = 0 THEN Nothing ELSE Overlay(f[i - 1], own(i))
  <2> HIDE DEF step
  <2> QED
    BY <1>4, <1>10
<1> DEFINE inside == CHOOSE g : g = [i \in 0..Len(chain) |-> IF i = 0 THEN Nothing
                                                     ELSE Overlay(g[i - 1], ctxs[chain[i]].own)]
<1>12. inside = [i \in 0..Len(chain) |-> IF i = 0 THEN Nothing
                                         ELSE Overlay(inside[i - 1], ctxs[chain[i]].own)]
  <2>1. f = [i \in 0..Len(chain) |-> IF i = 0 THEN Nothing ELSE Overlay(f[i - 1], ctxs[chain[i]].own)]
    BY <1>11 DEF own
  <2> QED
    BY <2>1
<1>13. InForce(c) = Overlay(inside[Len(chain)], [k \in Calls |-> k])
  BY DEF InForce
<1> HIDE DEF inside
<1>14. C \subseteq {i \in C : inside[i] \in V}
  <2> DEFINE T == {i \in C : inside[i] \in V}
  <2>1. ASSUME NEW i \in C, next[i] \subseteq T
        PROVE  i \in T
    <3>1. CASE i = 0
      BY <1>2, <1>12, <3>1
    <3>2. CASE i # 0
      <4>1. i - 1 \in T /\ i \in 1..n
        <5>1. next[i] = {i - 1}
          BY <3>2
        <5>2. i \in 1..n
          BY <1>1, <3>2
        <5> QED
          BY <2>1, <5>1, <5>2
      <4>2. inside[i] = Overlay(inside[i - 1], own(i))
        BY <1>12, <3>2 DEF own
      <4>3. inside[i - 1] \in V /\ own(i) \in V
        BY <1>3, <4>1
      <4>4. Overlay(inside[i - 1], own(i)) \in V
        BY <4>3, OverlayMap
      <4> HIDE DEF V
      <4> QED
        BY <4>2, <4>4
    <3> QED
      BY <3>1, <3>2
  <2>2. Inductive(C, next, T)
    BY <2>1 DEF Inductive
  <2> HIDE DEF T, C, next
  <2>3. C \subseteq T
    BY <1>7, <2>2, GraphInduction
  <2> QED
    BY <2>3 DEF T
<1>15. inside \in [C -> V]
  BY <1>12, <1>14
<1>16. inside[0] = Nothing /\ \A i \in 1..n : inside[i] = Overlay(inside[i - 1], ctxs[chain[i]].own)
  <2>1. PICK m \in Nat : m = Len(chain)
    BY <1>1
  <2>2. inside = [i \in 0..m |-> IF i = 0 THEN Nothing ELSE Overlay(inside[i - 1], ctxs[chain[i]].own)]
    BY <1>12, <2>1
  <2>3. 0 \in 0..m /\ \A i \in 1..m : i \in 0..m /\ i # 0
    BY <2>1
  <2>4. \A i \in 0..m : inside[i] = IF i = 0 THEN Nothing ELSE Overlay(inside[i - 1], ctxs[chain[i]].own)
    BY <2>2
  <2> QED
    BY <2>1, <2>3, <2>4
<1> QED
  BY <1>13, <1>15, <1>16

\* The walk from the outermost context to the innermost and the search for the innermost
\* override agree: what is in force in a context is what dependency_overrides says.
LEMMA InForceIs ==
    ASSUME Typed, NEW c \in Ctxs
    PROVE  InForce(c) = Effective(c)
<1>1. PICK chain : chain = ctxs[c].chain
  OBVIOUS
<1>2. PICK n \in Nat : n = Len(chain)
  BY <1>1, LenProperties DEF Typed, Contexts
<1>3. PICK f \in [0..n -> PartialMap(Calls, Calls)] :
          /\ f[0] = Nothing
          /\ \A i \in 1..n : f[i] = Overlay(f[i - 1], ctxs[chain[i]].own)
          /\ InForce(c) = Overlay(f[n], [k \in Calls |-> k])
  BY <1>1, <1>2, InsideUnfolds
<1> DEFINE own(i) == ctxs[chain[i]].own
           Says(i, k) ==
               /\ k \in DOMAIN f[i] <=> \E j \in 1..i : k \in DOMAIN own(j)
               /\ \A m \in 1..i : k \in DOMAIN own(m) /\ (\A j \in 1..(m - 1) : k \notin DOMAIN own(j))
                                  => f[i][k] = own(m)[k]
           T == {i \in Nat : i <= n => \A k \in Calls : Says(i, k)}
<1>4. 0 \in T
  <2>1. DOMAIN f[0] = {} /\ \A j \in 1..0 : FALSE
    BY <1>3 DEF Nothing
  <2> QED
    BY <2>1
<1>5. ASSUME NEW i \in Nat, i \in T
      PROVE  i + 1 \in T
  <2> SUFFICES ASSUME i + 1 <= n, NEW k \in Calls
               PROVE  Says(i + 1, k)
    OBVIOUS
  <2>1. PICK h \in 1..n : h = i + 1 /\ h - 1 = i
    BY <1>2
  <2>2. f[h] = Overlay(f[i], own(h))
    BY <1>3, <2>1
  <2>3. /\ DOMAIN f[h] = DOMAIN f[i] \cup DOMAIN own(h)
        /\ \A x \in DOMAIN f[i] : f[h][x] = f[i][x]
        /\ \A x \in DOMAIN own(h) \ DOMAIN f[i] : f[h][x] = own(h)[x]
    <3>1. PICK g, e : g = f[i] /\ e = own(h)
      OBVIOUS
    <3>2. f[h] = Overlay(g, e)
      BY <2>2, <3>1
    <3> HIDE DEF own
    <3>3. /\ DOMAIN f[h] = DOMAIN g \cup DOMAIN e
          /\ \A x \in DOMAIN g : f[h][x] = g[x]
          /\ \A x \in DOMAIN e \ DOMAIN g : f[h][x] = e[x]
      BY <3>2 DEF Overlay
    <3> QED
      BY <3>1, <3>3
  <2>4. i <= n
    BY <1>2
  <2>5. Says(i, k)
    BY <1>5, <2>4
  <2>6. \A j : j \in 1..h <=> j \in 1..i \/ j = h
    BY <2>1
  <2>7. \A m \in 1..i : \A j \in 1..(m - 1) : j \in 1..i
    OBVIOUS
  <2> HIDE DEF own
  <2>8. k \in DOMAIN f[h] <=> \E j \in 1..h : k \in DOMAIN own(j)
    BY <2>3, <2>5, <2>6
  <2>9. ASSUME NEW m \in 1..h, k \in DOMAIN own(m), \A j \in 1..(m - 1) : k \notin DOMAIN own(j)
        PROVE  f[h][k] = own(m)[k]
    <3>1. CASE m \in 1..i
      BY <2>3, <2>5, <2>9, <3>1
    <3>2. CASE m = h
      <4>1. k \notin DOMAIN f[i]
        BY <2>1, <2>5, <2>9, <3>2
      <4> QED
        BY <2>3, <2>9, <3>2, <4>1
    <3> QED
      BY <2>6, <3>1, <3>2
  <2> QED
    BY <2>1, <2>8, <2>9
<1> HIDE DEF T
<1>6. Nat \subseteq T
  BY <1>4, <1>5, Induction
<1>7. \A k \in Calls : Says(n, k)
  <2>1. n \in T /\ n <= n
    BY <1>6
  <2> QED
    BY <2>1 DEF T
<1>8. DOMAIN f[n] \subseteq Calls
  <2>1. f[n] \in PartialMap(Calls, Calls)
    BY <1>3
  <2> QED
    BY <2>1, MapFacts
<1>9. PICK id : id = [k \in Calls |-> k]
  OBVIOUS
<1>10. InForce(c) = [k \in Calls |-> IF k \in DOMAIN f[n] THEN f[n][k] ELSE k]
  <2>1. InForce(c) = [k \in DOMAIN f[n] \cup DOMAIN id |-> IF k \in DOMAIN f[n] THEN f[n][k] ELSE id[k]]
    BY <1>3, <1>9 DEF Overlay
  <2>2. DOMAIN f[n] \cup DOMAIN id = Calls /\ \A k \in Calls : id[k] = k
    BY <1>8, <1>9
  <2> QED
    BY <2>1, <2>2
<1>11. Effective(c) \in [Calls -> Calls]
  BY EffectiveFacts
<1>12. ASSUME NEW k \in Calls
       PROVE  Effective(c)[k] = IF k \in DOMAIN f[n] THEN f[n][k] ELSE k
  <2>1. /\ (\A i \in 1..n : k \notin DOMAIN own(i)) => Effective(c)[k] = k
        /\ \A i \in 1..n :
              k \in DOMAIN own(i) /\ (\A j \in 1..(i - 1) : k \notin DOMAIN own(j))
              => Effective(c)[k] = own(i)[k]
    BY <1>1, <1>2, EffectiveIs, SMTT(20)
  <2>2. \/ \A i \in 1..n : k \notin DOMAIN own(i)
        \/ \E i \in 1..n : k \in DOMAIN own(i) /\ \A j \in 1..(i - 1) : k \notin DOMAIN own(j)
    BY <1>1, <1>2, InnermostPlace
  <2>3. Says(n, k)
    BY <1>7
  <2> HIDE DEF own
  <2> QED
    BY <2>1, <2>2, <2>3
<1> QED
  BY <1>10, <1>11, <1>12

-----------------------------------------------------------------------------
\* What a resolution comes by

\* What nothing is replaced of needs only what nothing is replaced of.
LEMMA UntouchedClosed ==
    ASSUME NEW d \in Untouched
    PROVE  d \in Calls \ Overridden /\ Range(Deps[d]) \subseteq Untouched
<1>1. d \in Calls /\ Reach[d] \cap Overridden = {}
  BY DEF Untouched
<1>2. d \in Reach[d] /\ Range(Deps[d]) \subseteq Calls
  BY <1>1, ReachFacts, DependenciesAssumption, RangeFacts
<1>3. ASSUME NEW e \in Range(Deps[d])
      PROVE  Reach[e] \subseteq Reach[d]
  <2>1. Reach[d] = {d} \cup UNION {Reach[x] : x \in needs[d]} /\ needs[d] = Range(Deps[d])
    BY <1>1, ReachUnfolds DEF needs
  <2> QED
    BY <2>1
<1> QED
  BY <1>1, <1>2, <1>3 DEF Untouched

\* Under the overrides of a context, resolving what is among the dependencies of k, or out
\* of reach of every override, takes only the same.
LEMMA VisitedClosed ==
    ASSUME Replaced, Typed, NEW c \in Ctxs, NEW k \in Calls, NEW x \in Visited(k)
    PROVE  x \in Calls /\ Range(Deps[Effective(c)[x]]) \subseteq Visited(k)
<1>1. PICK y \in Calls : y = Effective(c)[x] /\ x \in Calls
  BY EffectiveAt, ReachFacts DEF Visited, Untouched
<1>2. CASE y = x
  <2>1. CASE x \in Untouched
    BY <1>1, <1>2, <2>1, UntouchedClosed DEF Visited
  <2>2. CASE x \in Reach[k]
    <3>1. Reach[x] = {x} \cup UNION {Reach[d] : d \in Range(Deps[x])}
      BY <1>1, ReachUnfolds DEF needs
    <3>2. Reach[x] \subseteq Reach[k]
      BY <2>2, ReachFacts
    <3>3. \A d \in Range(Deps[x]) : d \in Reach[d]
      BY <1>1, ReachFacts, DependenciesAssumption, RangeFacts
    <3> QED
      BY <1>1, <1>2, <3>1, <3>2, <3>3 DEF Visited
  <2> QED
    BY <2>1, <2>2 DEF Visited
<1>3. ASSUME NEW o \in Overrides, x \in DOMAIN o, y = o[x]
      PROVE  Range(Deps[y]) \subseteq Visited(k)
  <2>1. Range(Deps[y]) \subseteq Reach[x] \cup Untouched
    BY <1>3 DEF Replaced
  <2>2. x \in Overridden
    BY <1>3 DEF Overridden
  <2>3. x \in Reach[k]
    BY <2>2, UntouchedClosed DEF Visited
  <2>4. Reach[x] \subseteq Reach[k]
    BY <2>3, ReachFacts
  <2> QED
    BY <2>1, <2>4 DEF Visited
<1> QED
  BY <1>1, <1>2, <1>3, EffectiveAt

\* What is found in the caches is what would be built now.
LEMMA LookupTrue ==
    ASSUME Replaced, Typed, Nested, NEW c \in Ctxs, Used(c), LinkedAt(c), NEW caches \in Caches,
           \A d \in Ctxs : Used(d) => TrueIn(caches, d),
           NEW root \in Calls, NEW k \in Visited(root), Usable(caches, c, root, k) # {}
    PROVE  Lookup(caches, c, root, k).made = Fresh(Effective(c), k)
<1>1. PICK i \in {1} \cup Inherited(c) :
          /\ i \in 1..Len(ctxs[c].chain) /\ ctxs[c].chain[i] \in Ctxs
          /\ k \in DOMAIN caches[ctxs[c].chain[i]]
          /\ i > 1 => k \notin OverriddenCalls(root, Introduced(c, i))
          /\ Lookup(caches, c, root, k) = caches[ctxs[c].chain[i]][k]
  BY LookupFacts
<1>2. PICK d \in Ctxs : d = ctxs[c].chain[i]
  BY <1>1
<1>3. Used(d)
  BY <1>1, <1>2, RangeFacts DEF Nested, Chained, Typed, Contexts
<1>4. Lookup(caches, c, root, k).made = Fresh(Effective(d), k)
  BY <1>1, <1>2, <1>3 DEF TrueIn
<1>5. CASE i = 1
  BY <1>2, <1>4, <1>5 DEF Nested, Chained
<1>6. CASE i > 1
  <2> DEFINE S == Visited(k)
  <2>1. k \in Calls /\ k \in S
    BY ReachFacts DEF Visited, Untouched
  <2>2. Introduced(c, i) \subseteq Overridden
    <3>1. \A j \in 1..(i - 1) : j \in 1..Len(ctxs[c].chain)
      BY <1>1, LenProperties DEF Typed, Contexts
    <3> QED
      BY <3>1, OwnMaps DEF Introduced
  <2>3. Untouched \cap Introduced(c, i) = {}
    BY <2>2, UntouchedClosed
  <2>4. Reach[k] \cap Introduced(c, i) = {}
    <3>1. CASE k \in Reach[root]
      BY <1>1, <1>6, <3>1 DEF OverriddenCalls
    <3>2. CASE k \in Untouched
      BY <2>2, <3>2 DEF Untouched
    <3> QED
      BY <3>1, <3>2 DEF Visited
  <2>5. ASSUME NEW x \in S
        PROVE  /\ x \in Calls /\ Effective(d)[x] = Effective(c)[x]
               /\ Range(Deps[Effective(d)[x]]) \subseteq S
    <3>1. x \in Calls /\ Range(Deps[Effective(d)[x]]) \subseteq S
      BY <2>1, VisitedClosed
    <3>2. x \notin Introduced(c, i)
      BY <2>3, <2>4 DEF Visited
    <3> QED
      BY <1>1, <1>2, <3>1, <3>2, EffectiveAbove
  <2>6. /\ Effective(c) \in [Calls -> Calls] /\ WellFounded(Calls, NeedsUnder(Effective(c)))
        /\ Effective(d) \in [Calls -> Calls] /\ WellFounded(Calls, NeedsUnder(Effective(d)))
    BY EffectiveFacts
  <2> HIDE DEF S
  <2>7. PICK e1, e2 : e1 = Effective(d) /\ e2 = Effective(c)
    OBVIOUS
  <2>8. /\ e1 \in [Calls -> Calls] /\ WellFounded(Calls, NeedsUnder(e1))
        /\ e2 \in [Calls -> Calls] /\ WellFounded(Calls, NeedsUnder(e2))
        /\ S \in SUBSET Calls /\ k \in S
        /\ \A x \in S : e1[x] = e2[x] /\ Range(Deps[e1[x]]) \subseteq S
    BY <2>1, <2>5, <2>6, <2>7
  <2>9. Fresh(e1, k) = Fresh(e2, k)
    BY <2>8, FreshAgrees
  <2> QED
    BY <1>4, <2>7, <2>9
<1> QED
  BY <1>1, <1>5, <1>6

-----------------------------------------------------------------------------
\* Steps that cache nothing and hand out nothing

\* A context that begins goes around one that is in use, or around none.
Goes(d) == \E outer \in Ctxs \cup {NoCtx} : /\ outer = NoCtx \/ Used(outer)
                                            /\ ctxs'[d].chain = <<d>> \o Chain(outer)
Begins == \A d \in Ctxs : Used(d)' /\ ~Used(d) => Goes(d)

\* Chains that were continued by their contexts' still are.
LEMMA StepLinked ==
    ASSUME Typed, Nested, Linked, Typed', Nested', Stable, Begins
    PROVE  Linked'
<1> SUFFICES ASSUME NEW c \in Ctxs, Used(c)'
             PROVE  LinkedAt(c)'
  BY DEF Linked
<1>1. \A x \in Range(ctxs'[c].chain) : x \in Ctxs /\ Used(x)'
  <2>1. ctxs'[c].chain \in Seq(Ctxs)
    BY DEF Typed, Contexts
  <2> QED
    BY <2>1, RangeFacts DEF Nested, Chained
<1>2. CASE Used(c)
  <2>1. ctxs'[c] = ctxs[c] /\ LinkedAt(c)
    BY <1>2 DEF Stable, Linked
  <2>2. PICK chain \in Seq(Ctxs) : chain = ctxs[c].chain
    BY DEF Typed, Contexts
  <2>3. \A i \in 1..Len(chain) : chain[i] \in Range(chain)
    BY <2>2, RangeFacts
  <2>4. \A x \in Range(chain) : Used(x)
    BY <1>2, <2>2 DEF Nested, Chained
  <2>5. \A i \in 1..Len(chain) : ctxs'[chain[i]] = ctxs[chain[i]]
    BY <1>1, <2>1, <2>2, <2>3, <2>4 DEF Stable
  <2>6. \A i \in 1..Len(chain) :
           /\ Len(ctxs[chain[i]].chain) = Len(chain) - i + 1
           /\ \A j \in 1..(Len(chain) - i + 1) : ctxs[chain[i]].chain[j] = chain[i + j - 1]
    BY <2>1, <2>2 DEF LinkedAt
  <2>7. \A i \in 1..Len(chain) :
           /\ Len(ctxs'[chain[i]].chain) = Len(chain) - i + 1
           /\ \A j \in 1..(Len(chain) - i + 1) : ctxs'[chain[i]].chain[j] = chain[i + j - 1]
    BY <2>5, <2>6
  <2>8. ctxs'[c].chain = chain
    BY <2>1, <2>2
  <2> QED
    BY <2>7, <2>8 DEF LinkedAt
<1>3. CASE ~Used(c)
  <2>1. PICK outer \in Ctxs \cup {NoCtx} : /\ outer = NoCtx \/ Used(outer)
                                           /\ ctxs'[c].chain = <<c>> \o Chain(outer)
    BY <1>3 DEF Begins, Goes
  <2>2. PICK s \in Seq(Ctxs) : s = Chain(outer)
    BY ChainType
  <2>3. PICK n \in Nat : n = Len(s)
    BY LenProperties
  <2>4. PICK r \in Seq(Ctxs) :
           /\ r = ctxs'[c].chain /\ Len(r) = n + 1 /\ r[1] = c
           /\ \A i \in 2..(n + 1) : i - 1 \in 1..n /\ r[i] = s[i - 1]
    <3>1. PICK r : r = <<c>> \o s
      OBVIOUS
    <3>2. /\ r \in Seq(Ctxs) /\ Len(r) = Len(s) + 1 /\ r[1] = c
          /\ \A i \in 2..(Len(s) + 1) : i - 1 \in 1..Len(s) /\ r[i] = s[i - 1]
      BY <3>1, ChainGrows
    <3>3. r = ctxs'[c].chain
      BY <2>1, <2>2, <3>1
    <3>4. Len(s) = n
      BY <2>3
    <3> QED
      BY <3>2, <3>3, <3>4
  <2>5. SUFFICES ASSUME NEW i \in 1..Len(r)
                 PROVE  /\ Len(ctxs'[r[i]].chain) = Len(r) - i + 1
                        /\ \A j \in 1..(Len(r) - i + 1) : ctxs'[r[i]].chain[j] = r[i + j - 1]
    BY <2>4 DEF LinkedAt
  <2>6. CASE i = 1
    <3>1. Len(r) - i + 1 = Len(r) /\ \A j \in 1..Len(r) : i + j - 1 = j
      BY <2>4, <2>6
    <3> QED
      BY <2>4, <2>6, <3>1
  <2>7. CASE i # 1
    <3>1. PICK h \in 1..n : h = i - 1 /\ i = h + 1
      BY <2>4, <2>7
    <3>2. i \in 2..(n + 1) /\ r[i] = s[h]
      <4>1. i \in 2..(n + 1) /\ i - 1 = h
        BY <3>1
      <4> QED
        BY <2>4, <4>1
    <3>3. outer # NoCtx
      <4>1. outer = NoCtx => n = 0
        BY <2>2, <2>3, EmptySeq DEF Chain
      <4> QED
        BY <3>1, <4>1
    <3>4. outer \in Ctxs /\ Used(outer) /\ s = ctxs[outer].chain
      BY <2>1, <2>2, <3>3 DEF Chain
    <3>5. /\ Len(ctxs[s[h]].chain) = n - h + 1
          /\ \A j \in 1..(n - h + 1) : ctxs[s[h]].chain[j] = s[h + j - 1]
      BY <2>3, <3>4 DEF Linked, LinkedAt
    <3>6. ctxs'[s[h]] = ctxs[s[h]]
      <4>1. s[h] \in Range(s) /\ r[i] \in Range(r)
        BY <2>3, <2>4, RangeFacts
      <4>2. Used(s[h]) /\ s[h] \in Ctxs /\ Used(s[h])'
        BY <1>1, <2>4, <3>2, <3>4, <4>1 DEF Nested, Chained
      <4> QED
        BY <4>2 DEF Stable
    <3>7. ASSUME NEW j \in 1..(n - h + 1)
          PROVE  s[h + j - 1] = r[i + j - 1]
      <4>1. i + j - 1 \in 2..(n + 1) /\ i + j - 1 - 1 = h + j - 1
        BY <3>1
      <4> QED
        BY <2>4, <4>1
    <3>8. Len(r) - i + 1 = n - h + 1
      BY <2>4, <3>1
    <3> QED
      BY <3>2, <3>5, <3>6, <3>7, <3>8
  <2> QED
    BY <2>6, <2>7
<1> QED
  BY <1>2, <1>3

\* Values in caches and resolutions that stay are what the overrides say still.
LEMMA StepSourced ==
    ASSUME Typed, Nested, Sourced, Typed', Nested', Stable, NEW t \in Tasks, NEW k \in Nat, Same(t, k),
           \A i \in 1..Len(frames'[t]) : i > k /\ IsResolve(frames'[t][i]) => Fits(frames[t][i])',
           \A d \in Ctxs : Used(d)' => (Used(d) /\ cache'[d] = cache[d]) \/ TrueIn(cache, d)'
    PROVE  Sourced'
<1>1. ASSUME NEW d \in Ctxs, Used(d)', Used(d), cache'[d] = cache[d]
      PROVE  TrueIn(cache, d)'
  <2>1. TrueIn(cache, d) /\ Effective(d)' = Effective(d)
    BY <1>1, EffectiveKept DEF Sourced, Stable
  <2> QED
    BY <1>1, <2>1 DEF TrueIn
<1>2. ASSUME NEW u \in Tasks, NEW i \in 1..Len(frames'[u]), IsResolve(frames'[u][i]), u # t \/ ~(i > k)
      PROVE  Fits(frames[u][i])'
  <2>1. i \in Nat /\ (u # t \/ i <= k)
    BY <1>2, FramesAt DEF Typed
  <2>2. i \in 1..Len(frames[u]) /\ frames'[u][i] = frames[u][i]
    BY <2>1, Stays
  <2>3. Fits(frames[u][i]) /\ IsResolve(frames[u][i])
    BY <1>2, <2>2 DEF Sourced, IsResolve
  <2>4. PICK f : f = frames[u][i]
    OBVIOUS
  <2>5. PICK c : c = f.ctx
    OBVIOUS
  <2>6. Effective(c)' = Effective(c)
    BY <2>2, <2>3, <2>4, <2>5, StaysInContext
  <2>7. /\ Range(f.todo) \subseteq Visited(f.root)
        /\ \A x \in DOMAIN f.vals : f.vals[x].made = Fresh(Effective(c)', x)
    BY <2>3, <2>4, <2>5, <2>6 DEF Fits
  <2> QED
    BY <2>2, <2>4, <2>5, <2>7 DEF Fits, Visited
<1> QED
  BY <1>1, <1>2 DEF Sourced, IsResolve

\* Nothing is cached and no value handed out.
Quiet(t, k) ==
    /\ Same(t, k) /\ Stable /\ Begins
    /\ \A i \in 1..Len(frames'[t]) : i > k /\ IsResolve(frames'[t][i])
           => frames'[t][i].todo = <<>> /\ frames'[t][i].vals = Nothing
    /\ \A d \in Ctxs : Used(d)' => (Used(d) /\ cache'[d] = cache[d]) \/ cache'[d] = Nothing

\* Such a step leaves every value what the overrides say.
LEMMA QuietKeeps ==
    ASSUME VInv, IInv', NEW t \in Tasks, NEW k \in Nat, Quiet(t, k)
    PROVE  VInv'
<1>1. Typed /\ Nested /\ Typed' /\ Nested' /\ Linked /\ Sourced
  BY DEF VInv, IInv
<1>2. Linked'
  BY <1>1, StepLinked DEF Quiet
<1>3. DOMAIN Nothing = {} /\ Range(<<>>) = {}
  <2>1. DOMAIN <<>> = {}
    OBVIOUS
  <2> QED
    BY <2>1 DEF Nothing, Range
<1>4. ASSUME NEW i \in 1..Len(frames'[t]), i > k, IsResolve(frames'[t][i])
      PROVE  Fits(frames[t][i])'
  <2>1. frames'[t][i].todo = <<>> /\ frames'[t][i].vals = Nothing
    BY <1>4 DEF Quiet
  <2> QED
    BY <1>3, <2>1 DEF Fits
<1>5. ASSUME NEW d \in Ctxs, cache'[d] = Nothing
      PROVE  TrueIn(cache, d)'
  BY <1>3, <1>5 DEF TrueIn
<1>6. Sourced'
  <2>1. \A d \in Ctxs : Used(d)' => (Used(d) /\ cache'[d] = cache[d]) \/ TrueIn(cache, d)'
    BY <1>5 DEF Quiet
  <2> QED
    BY <1>1, <1>4, <2>1, StepSourced DEF Quiet
<1> QED
  BY <1>2, <1>6 DEF VInv

\* What is in use, and in which cache, when nothing of it changes, ...
Settled ==
    /\ Stable /\ Begins
    /\ \A d \in Ctxs : Used(d)' => (Used(d) /\ cache'[d] = cache[d]) \/ cache'[d] = Nothing

LEMMA ContextsStay == UNCHANGED <<ctxs, cache>> => Settled
BY DEF Settled, Stable, Begins, Used

\* ... when a context is gone, ...
LEMMA ContextForgotten ==
    ASSUME Typed, NEW c \in Ctxs, Forget(c)
    PROVE  Settled
<1>1. \A d \in Ctxs : /\ ctxs'[d] = IF d = c THEN Unused ELSE ctxs[d]
                      /\ cache'[d] = IF d = c THEN Nothing ELSE cache[d]
  BY DEF Typed, Forget
<1> QED
  BY <1>1 DEF Settled, Stable, Begins, Used

\* ... and when one is opened.
LEMMA ContextAdded ==
    ASSUME IInv, NEW t \in Tasks, NEW n, n = Len(frames[t]), NEW c \in Ctxs, ~Used(c), NEW x,
           Makes(c, x, CurrentAt(t, n)), ctxs' = [ctxs EXCEPT ![c] = x], cache' = cache
    PROVE  Settled
<1>1. Typed /\ Nested /\ Kept
  BY DEF IInv
<1>2. \A d \in Ctxs : ctxs'[d] = IF d = c THEN x ELSE ctxs[d]
  BY <1>1 DEF Typed
<1>3. PICK outer \in Ctxs \cup {NoCtx} : outer = CurrentAt(t, n) /\ (outer = NoCtx \/ Used(outer))
  <2>1. n \in 0..Len(frames[t])
    BY <1>1, FramesAt
  <2> QED
    BY <1>1, <2>1, CurrentType DEF Nested, Enclosed
<1>4. Goes(c)
  BY <1>2, <1>3 DEF Goes, Makes
<1>5. cache[c] = Nothing
  BY <1>1 DEF Kept
<1>6. Stable /\ Begins
  BY <1>2, <1>4 DEF Stable, Begins, Used
<1>7. \A d \in Ctxs : Used(d)' => Used(d) \/ d = c
  BY <1>2 DEF Used
<1> QED
  BY <1>5, <1>6, <1>7 DEF Settled

\* A frame less on the stack of a task.
LEMMA PoppedQuiet ==
    ASSUME VInv, IInv', NEW t \in Tasks, frames[t] # <<>>, Pop(t), Settled
    PROVE  VInv'
<1>1. Typed /\ Nested
  BY DEF VInv, IInv
<1>2. PICK n : n = Len(frames[t])
  OBVIOUS
<1>3. n - 1 \in Nat
  BY <1>1, <1>2, TopFacts
<1>4. Same(t, n - 1) /\ Len(frames'[t]) = n - 1
  BY <1>1, <1>2, PopFrames
<1>5. \A i \in 1..Len(frames'[t]) : ~(i > n - 1)
  BY <1>3, <1>4
<1>6. Quiet(t, n - 1)
  BY <1>4, <1>5 DEF Quiet, Settled
<1> QED
  BY <1>3, <1>6, QuietKeeps

\* One more.
LEMMA PushedQuiet ==
    ASSUME VInv, IInv', NEW t \in Tasks, NEW c \in Ctxs, NEW f \in Frames,
           (\E body \in BOOLEAN : f = CtxFrame(c, body)) \/ (\E root \in Calls : f = ResolveFrame(c, root)),
           frames' = [frames EXCEPT ![t] = Append(@, f)], Settled
    PROVE  VInv'
<1>1. Typed /\ Nested
  BY DEF VInv, IInv
<1>2. PICK n \in Nat : n = Len(frames[t])
  BY <1>1, FramesAt
<1>3. Same(t, n) /\ Len(frames'[t]) = n + 1 /\ frames'[t][n + 1] = f
  BY <1>1, <1>2, PushFrames
<1>4. IsResolve(f) => f.todo = <<>> /\ f.vals = Nothing
  BY DEF CtxFrame, ResolveFrame, Resolution, IsResolve
<1>5. \A i \in 1..Len(frames'[t]) : i > n => frames'[t][i] = f
  BY <1>2, <1>3
<1>6. Quiet(t, n)
  BY <1>3, <1>4, <1>5 DEF Quiet, Settled
<1> QED
  BY <1>6, QuietKeeps

\* A context and a resolution in it are put on the frames of t.
Pushed(t, n, f, g) ==
    /\ Same(t, n) /\ Len(frames'[t]) = n + 2 /\ frames'[t][n + 1] = f /\ frames'[t][n + 2] = g
    /\ \A i \in 1..Len(frames'[t]) : i > n => i = n + 1 \/ i = n + 2
LEMMA BothFrames ==
    ASSUME Typed, NEW t \in Tasks, NEW c \in Ctxs, NEW root \in Calls, NEW body \in BOOLEAN,
           frames' = [frames EXCEPT ![t] = @ \o <<CtxFrame(c, body), ResolveFrame(c, root)>>]
    PROVE  Pushed(t, Len(frames[t]), CtxFrame(c, body), ResolveFrame(c, root))
<1>1. PICK n \in Nat : n = Len(frames[t])
  BY FramesAt
<1>2. PICK f \in Frames : f = CtxFrame(c, body)
  BY NewFrames
<1>3. PICK g \in Frames : g = ResolveFrame(c, root)
  BY NewFrames
<1> DEFINE fs == frames[t]
           gs == frames[t] \o <<f, g>>
<1>4. /\ Len(gs) = n + 2 /\ gs[n + 1] = f /\ gs[n + 2] = g
      /\ \A i \in 1..n : gs[i] = fs[i]
  <2>1. fs \in Seq(Frames) /\ <<f, g>> \in Seq(Frames) /\ Len(<<f, g>>) = 2
    BY FramesAt
  <2>2. /\ Len(gs) = Len(fs) + 2
        /\ \A i \in 1..(Len(fs) + 2) : gs[i] = IF i <= Len(fs) THEN fs[i] ELSE <<f, g>>[i - Len(fs)]
    BY <2>1, ConcatProperties
  <2>3. Len(fs) = n
    BY <1>1
  <2>4. <<f, g>>[1] = f /\ <<f, g>>[2] = g
    OBVIOUS
  <2> HIDE DEF fs, gs
  <2>5. n + 1 \in 1..(n + 2) /\ n + 2 \in 1..(n + 2) /\ ~(n + 1 <= n) /\ ~(n + 2 <= n)
        /\ n + 1 - n = 1 /\ n + 2 - n = 2 /\ \A i \in 1..n : i \in 1..(n + 2) /\ i <= n
    OBVIOUS
  <2> QED
    BY <2>2, <2>3, <2>4, <2>5
<1>5. frames'[t] = gs /\ \A u \in Tasks \ {t} : frames'[u] = frames[u]
  BY <1>2, <1>3 DEF Typed
<1> HIDE DEF gs
<1>6. Same(t, n)
  BY <1>1, <1>4, <1>5 DEF Same
<1>7. \A i \in 1..(n + 2) : i > n => i = n + 1 \/ i = n + 2
  OBVIOUS
<1>8. Pushed(t, n, f, g)
  BY <1>4, <1>5, <1>6, <1>7 DEF Pushed
<1> QED
  BY <1>1, <1>2, <1>3, <1>8

\* A context and the resolution it is opened for.
LEMMA BothQuiet ==
    ASSUME VInv, IInv', NEW t \in Tasks, NEW c \in Ctxs, NEW root \in Calls, NEW body \in BOOLEAN,
           frames' = [frames EXCEPT ![t] = @ \o <<CtxFrame(c, body), ResolveFrame(c, root)>>], Settled
    PROVE  VInv'
<1>1. Typed
  BY DEF VInv, IInv
<1>2. Pushed(t, Len(frames[t]), CtxFrame(c, body), ResolveFrame(c, root))
  BY <1>1, BothFrames
<1>3. PICK n \in Nat : n = Len(frames[t])
  BY <1>1, FramesAt
<1>4. PICK f : f = CtxFrame(c, body)
  OBVIOUS
<1>5. PICK g : g = ResolveFrame(c, root)
  OBVIOUS
<1>6. Pushed(t, n, f, g)
  BY <1>2, <1>3, <1>4, <1>5
<1>7. ~IsResolve(f) /\ g.todo = <<>> /\ g.vals = Nothing
  BY <1>4, <1>5 DEF CtxFrame, ResolveFrame, Resolution, IsResolve
<1>8. \A i \in 1..Len(frames'[t]) : i > n => frames'[t][i] = f \/ frames'[t][i] = g
  BY <1>6 DEF Pushed
<1>9. Quiet(t, n)
  BY <1>6, <1>7, <1>8 DEF Quiet, Settled, Pushed
<1> QED
  BY <1>9, QuietKeeps

\* resolve() and a function under inject() begin.
LEMMA EnsureQuiet ==
    ASSUME VInv, IInv', NEW t \in Tasks, NEW root \in Calls, NEW new \in BOOLEAN, NEW body \in BOOLEAN,
           Ensure(t, root, new, body)
    PROVE  VInv'
<1>1. IInv /\ Typed /\ Nested
  BY DEF VInv, IInv
<1>2. PICK c : c = Current(t)
  OBVIOUS
<1>3. PICK n : n = Len(frames[t])
  OBVIOUS
<1>4. CASE NeedsOwnCtx(c, new)
  <2>1. HasFreeCtx /\ cache' = cache
    BY <1>2, <1>4 DEF Ensure
  <2>2. PICK d : d = FreeCtx
    OBVIOUS
  <2>3. PICK x : x = OwnCtx(d, c, Nothing)
    OBVIOUS
  <2>4. d \in Ctxs /\ ~Used(d) /\ Makes(d, x, CurrentAt(t, n))
    BY <1>1, <1>2, <1>3, <2>1, <2>2, <2>3, NewContexts
  <2>5. /\ ctxs' = [ctxs EXCEPT ![d] = x]
        /\ frames' = [frames EXCEPT ![t] = @ \o <<CtxFrame(d, body), ResolveFrame(d, root)>>]
    BY <1>2, <1>4, <2>2, <2>3 DEF Ensure
  <2>6. Settled
    BY <1>1, <1>3, <2>1, <2>4, <2>5, ContextAdded
  <2> QED
    BY <2>4, <2>5, <2>6, BothQuiet
<1>5. CASE ~NeedsOwnCtx(c, new)
  <2>1. n \in 0..Len(frames[t])
    BY <1>1, <1>3, FramesAt
  <2>2. c \in Ctxs
    BY <1>1, <1>2, <1>3, <1>5, <2>1, CurrentOnTop, CurrentType DEF NeedsOwnCtx
  <2>3. UNCHANGED <<ctxs, cache>> /\ frames' = [frames EXCEPT ![t] = Append(@, ResolveFrame(c, root))]
    BY <1>2, <1>5 DEF Ensure
  <2>4. PICK f \in Frames : f = ResolveFrame(c, root)
    BY <2>2, NewFrames
  <2>5. frames' = [frames EXCEPT ![t] = Append(@, f)] /\ Settled
    BY <2>3, <2>4, ContextsStay
  <2> QED
    BY <2>2, <2>4, <2>5, PushedQuiet
<1> QED
  BY <1>4, <1>5

\* Contexts are opened around what code runs next.
LEMMA OpenQuiet ==
    ASSUME VInv, IInv', NEW t \in Tasks, NEW o \in Overrides, OpenCtx(t, o) \/ PushOverrides(t, o)
    PROVE  VInv'
<1>1. IInv /\ Typed /\ Nested
  BY DEF VInv, IInv
<1>2. PICK c : c = FreeCtx
  OBVIOUS
<1>3. PICK n : n = Len(frames[t])
  OBVIOUS
<1>4. PICK x : /\ x = OwnCtx(c, Current(t), o) \/ x = OverrideCtx(c, Current(t), o)
               /\ ctxs' = [ctxs EXCEPT ![c] = x]
  BY <1>2 DEF OpenCtx, PushOverrides
<1>5. HasFreeCtx /\ cache' = cache /\ frames' = [frames EXCEPT ![t] = Append(@, CtxFrame(c, TRUE))]
  BY <1>2 DEF OpenCtx, PushOverrides
<1>6. c \in Ctxs /\ ~Used(c) /\ Makes(c, x, CurrentAt(t, n))
  BY <1>1, <1>2, <1>3, <1>4, <1>5, NewContexts
<1>7. PICK f \in Frames : f = CtxFrame(c, TRUE)
  BY <1>6, NewFrames
<1>8. Settled
  BY <1>1, <1>3, <1>4, <1>5, <1>6, ContextAdded
<1>9. frames' = [frames EXCEPT ![t] = Append(@, f)]
  BY <1>5, <1>7
<1> QED
  BY <1>6, <1>7, <1>8, <1>9, PushedQuiet

\* Resolutions and contexts end.
LEMMA EndsQuiet ==
    ASSUME VInv, IInv', NEW t \in Tasks,
           Return(t) \/ Fail(t) \/ Abandon(t) \/ LeaveOverrides(t) \/ Closed(t)
    PROVE  VInv'
<1>1. Typed /\ Nested
  BY DEF VInv, IInv
<1>2. CASE Return(t) \/ Fail(t) \/ Abandon(t)
  <2>1. frames[t] # <<>> /\ Pop(t) /\ UNCHANGED <<ctxs, cache>>
    BY <1>2 DEF Return, Fail, Abandon, InPhase, OnTop
  <2> QED
    BY <2>1, ContextsStay, PoppedQuiet
<1>3. CASE LeaveOverrides(t) \/ Closed(t)
  <2>1. frames[t] # <<>> /\ Pop(t) /\ Forget(Top(t).ctx)
    BY <1>3 DEF LeaveOverrides, Closed, OnTop
  <2>2. Top(t).ctx \in Ctxs
    BY <1>1, <2>1, TopFacts, FrameFacts
  <2> QED
    BY <1>1, <2>1, <2>2, ContextForgotten, PoppedQuiet
<1> QED
  BY <1>2, <1>3

\* A context is on its way out.
LEMMA LeaveCtxQuiet ==
    ASSUME VInv, IInv', NEW t \in Tasks, LeaveCtx(t)
    PROVE  VInv'
<1>1. Typed /\ Nested
  BY DEF VInv, IInv
<1>2. frames[t] # <<>> /\ IsCtx(Top(t)) /\ UNCHANGED <<ctxs, cache>>
  BY DEF LeaveCtx, OnTop, IsCtx
<1>3. PICK n : n = Len(frames[t])
  OBVIOUS
<1>4. PICK f : f = [Top(t) EXCEPT !.closing = TRUE]
  OBVIOUS
<1>5. f \in Frames /\ ~IsResolve(f)
  <2>1. Top(t) \in CtxFrames
    BY <1>1, <1>2, TopFacts, FrameFacts
  <2> QED
    BY <1>4, <2>1 DEF Frames, CtxFrames, IsResolve
<1>6. SetTop(t, f)
  BY <1>4 DEF LeaveCtx
<1>7. n - 1 \in Nat /\ n \in Nat
  BY <1>1, <1>2, <1>3, TopFacts
<1>8. Same(t, n - 1) /\ Len(frames'[t]) = n /\ frames'[t][n] = f
  BY <1>1, <1>2, <1>3, <1>5, <1>6, SetTopFrames
<1>9. \A i \in 1..Len(frames'[t]) : i > n - 1 => frames'[t][i] = f
  BY <1>7, <1>8
<1>10. Quiet(t, n - 1)
  BY <1>2, <1>5, <1>8, <1>9, ContextsStay DEF Quiet, Settled
<1> QED
  BY <1>7, <1>10, QuietKeeps

\* Nothing that concerns contexts and resolutions.
LEMMA StillQuiet ==
    ASSUME VInv, IInv', UNCHANGED <<frames, ctxs, cache>>
    PROVE  VInv'
<1>1. Linked'
  BY DEF VInv, Linked, LinkedAt, Used
<1>2. \A d \in Ctxs : Effective(d)' = Effective(d)
  BY DEF Effective
<1>3. Sourced'
  <2>1. \A d \in Ctxs : Used(d) => TrueIn(cache, d)
    BY DEF VInv, Sourced
  <2>2. ASSUME NEW d \in Ctxs, Used(d)'
        PROVE  TrueIn(cache, d)'
    BY <1>2, <2>1, <2>2 DEF TrueIn, Used
  <2>3. ASSUME NEW t \in Tasks, NEW i \in 1..Len(frames[t]), IsResolve(frames[t][i])
        PROVE  Fits(frames[t][i])'
    <3>1. Fits(frames[t][i]) /\ frames[t][i].ctx \in Ctxs
      BY <2>3, FramesAt, FrameFacts DEF VInv, IInv, Sourced
    <3> QED
      BY <1>2, <3>1 DEF Fits, Visited
  <2> QED
    BY <2>2, <2>3 DEF Sourced, IsResolve
<1> QED
  BY <1>1, <1>3 DEF VInv

-----------------------------------------------------------------------------
\* The steps of a resolution

\* What Settle takes from the caches is what the overrides say.
LEMMA SettleFits ==
    ASSUME Replaced, Typed, Nested, NEW c \in Ctxs, Used(c), LinkedAt(c), NEW caches \in Caches,
           \A d \in Ctxs : Used(d) => TrueIn(caches, d),
           NEW root \in Calls, NEW todo \in Seq(Calls), Range(todo) \subseteq Visited(root),
           NEW vals \in PartialMap(Calls, Value), Prepared(Effective(c), todo, vals),
           \A k \in DOMAIN vals : vals[k].made = Fresh(Effective(c), k),
           NEW f, f = Settle(c, root, todo, vals, caches)
    PROVE  f \in Frames /\ IsResolve(f) /\ f.ctx = c /\ Fits(f)
<1>1. LET r == Settle(c, root, todo, vals, caches)
      IN  /\ r \in ResolveFrames /\ r.ctx = c /\ r.root = root
          /\ Range(r.todo) \subseteq Range(todo)
          /\ \A k \in DOMAIN r.vals :
                \/ k \in DOMAIN vals /\ r.vals[k] = vals[k]
                \/ /\ k \in Range(todo) /\ Usable(caches, c, root, k) # {}
                   /\ r.vals[k] = Lookup(caches, c, root, k)
  BY SettleFacts
<1>2. /\ f \in ResolveFrames /\ f.ctx = c /\ f.root = root
      /\ Range(f.todo) \subseteq Range(todo)
      /\ \A k \in DOMAIN f.vals :
            \/ k \in DOMAIN vals /\ f.vals[k] = vals[k]
            \/ /\ k \in Range(todo) /\ Usable(caches, c, root, k) # {}
               /\ f.vals[k] = Lookup(caches, c, root, k)
  BY <1>1
<1>3. ASSUME NEW k \in DOMAIN f.vals
      PROVE  f.vals[k].made = Fresh(Effective(c), k)
  <2>1. CASE k \in DOMAIN vals /\ f.vals[k] = vals[k]
    BY <2>1
  <2>2. CASE k \in Range(todo) /\ Usable(caches, c, root, k) # {} /\ f.vals[k] = Lookup(caches, c, root, k)
    <3>1. k \in Visited(root)
      BY <2>2
    <3> QED
      BY <2>2, <3>1, LookupTrue
  <2> QED
    BY <1>2, <2>1, <2>2
<1>4. Fits(f)
  BY <1>2, <1>3 DEF Fits
<1> QED
  BY <1>2, <1>4 DEF Frames, ResolveFrames, IsResolve

\* The topmost resolution goes on with what the overrides say.
LEMMA GoesOn ==
    ASSUME VInv, IInv', NEW t \in Tasks, frames[t] # <<>>, NEW f \in Frames, SetTop(t, f),
           f.ctx \in Ctxs, Fits(f), ctxs' = ctxs,
           \A d \in Ctxs : Used(d) => \A k \in DOMAIN cache'[d] : cache'[d][k].made = Fresh(Effective(d), k)
    PROVE  VInv'
<1>1. Typed /\ Nested /\ Typed' /\ Nested' /\ Linked /\ Sourced
  BY DEF VInv, IInv
<1>2. PICK n : n = Len(frames[t])
  OBVIOUS
<1>3. n - 1 \in Nat /\ n \in Nat
  BY <1>1, <1>2, TopFacts
<1>4. Same(t, n - 1) /\ Len(frames'[t]) = n /\ frames'[t][n] = f
  BY <1>1, <1>2, SetTopFrames
<1>5. \A i \in 1..Len(frames'[t]) : i > n - 1 => frames'[t][i] = f
  BY <1>3, <1>4
<1>6. Stable /\ Begins
  BY DEF Stable, Begins, Used
<1>7. \A d \in Ctxs : Effective(d)' = Effective(d)
  BY DEF Effective
<1>8. Linked'
  BY <1>1, <1>6, StepLinked
<1>9. ASSUME NEW d \in Ctxs, Used(d)'
      PROVE  TrueIn(cache, d)'
  BY <1>7, <1>9 DEF TrueIn, Used
<1>10. ASSUME NEW i \in 1..Len(frames'[t]), i > n - 1
       PROVE  Fits(frames[t][i])'
  <2>1. frames'[t][i] = f
    BY <1>5, <1>10
  <2>2. Effective(f.ctx)' = Effective(f.ctx)
    BY <1>7
  <2> QED
    BY <2>1, <2>2 DEF Fits, Visited
<1>11. Sourced'
  BY <1>1, <1>3, <1>4, <1>6, <1>9, <1>10, StepSourced
<1> QED
  BY <1>8, <1>11 DEF VInv

\* The lock is entered, and what is cached taken.
LEMMA EnterLockTrue ==
    ASSUME Replaced, VInv, IInv', NEW t \in Tasks, EnterLock(t)
    PROVE  VInv'
<1>1. frames[t] # <<>> /\ IsResolve(Top(t)) /\ UNCHANGED <<ctxs, cache>>
  BY DEF EnterLock, InPhase, OnTop, IsResolve
<1>2. Typed /\ Nested /\ Linked /\ Sourced
  BY DEF VInv, IInv
<1>3. PICK n : n = Len(frames[t])
  OBVIOUS
<1>4. PICK c \in Ctxs : c = Top(t).ctx /\ Used(c)
  BY <1>1, <1>2, <1>3, TopScope
<1>5. PICK root \in Calls : root = Top(t).root
  <2>1. Top(t) \in ResolveFrames
    BY <1>1, <1>2, <1>3, TopScope
  <2> QED
    BY <2>1 DEF ResolveFrames
<1>6. PICK eff : eff = Effective(c)
  OBVIOUS
<1>7. PICK todo : todo = SolveOrder(eff, root)
  OBVIOUS
<1>8. eff \in [Calls -> Calls] /\ WellFounded(Calls, NeedsUnder(eff))
  BY <1>2, <1>6, EffectiveFacts
<1>9. todo \in Seq(Calls) /\ Prepared(eff, todo, Nothing)
  BY <1>7, <1>8, PreparedFirst
<1>10. Range(todo) \subseteq Visited(root)
  <2>1. PICK S : S = Visited(root)
    OBVIOUS
  <2>2. S \in SUBSET Calls /\ root \in S /\ \A x \in S : Range(Deps[eff[x]]) \subseteq S
    BY <1>2, <1>6, <2>1, VisitedClosed, ReachFacts DEF Visited
  <2> QED
    BY <1>7, <1>8, <2>1, <2>2, SolveOrderWithin
<1>11. Nothing \in PartialMap(Calls, Value) /\ DOMAIN Nothing = {}
  BY DEF Nothing, PartialMap
<1>12. cache \in Caches /\ LinkedAt(c) /\ \A d \in Ctxs : Used(d) => TrueIn(cache, d)
  BY <1>2, <1>4 DEF Typed, Caches, Linked, Sourced
<1>13. PICK f : f = Settle(c, root, todo, Nothing, cache)
  OBVIOUS
<1>14. f \in Frames /\ IsResolve(f) /\ f.ctx = c /\ Fits(f)
  BY <1>2, <1>4, <1>6, <1>9, <1>10, <1>11, <1>12, <1>13, SettleFits
<1>15. SetTop(t, f)
  BY <1>4, <1>5, <1>6, <1>7, <1>13 DEF EnterLock
<1>16. \A d \in Ctxs : Used(d) => \A k \in DOMAIN cache'[d] : cache'[d][k].made = Fresh(Effective(d), k)
  BY <1>1, <1>12 DEF TrueIn
<1> QED
  BY <1>1, <1>14, <1>15, <1>16, GoesOn

\* What a factory makes of its arguments is what the overrides say.
LEMMA BuiltTrue ==
    ASSUME VInv, NEW t \in Tasks, InPhase(t, "build"), NEW c, c = Top(t).ctx, NEW k, k = Head(Top(t).todo)
    PROVE  Built(t).made = Fresh(Effective(c), k)
<1>1. IInv /\ Typed /\ Nested /\ InOrder /\ Sourced
  BY DEF VInv, IInv
<1>2. frames[t] # <<>> /\ IsResolve(Top(t)) /\ Top(t).phase = "build"
  BY DEF InPhase, OnTop, IsResolve
<1>3. PICK n : n = Len(frames[t])
  OBVIOUS
<1>4. n \in 1..Len(frames[t]) /\ Top(t) = frames[t][n]
  BY <1>1, <1>2, <1>3, TopFacts
<1>5. PICK f : f = Top(t)
  OBVIOUS
<1>6. c \in Ctxs /\ Used(c) /\ f \in ResolveFrames
  BY <1>1, <1>2, <1>3, <1>5, TopScope
<1>7. Fits(f) /\ Ready(f)
  BY <1>1, <1>2, <1>4, <1>5 DEF Sourced, InOrder
<1>8. PICK eff : eff = Effective(c)
  OBVIOUS
<1>9. eff \in [Calls -> Calls] /\ WellFounded(Calls, NeedsUnder(eff))
  BY <1>1, <1>6, <1>8, EffectiveFacts
<1>10. k \in Calls
  BY BuiltFacts, <1>1
<1>11. PICK call \in Calls : call = eff[k]
  BY <1>9, <1>10
<1>12. Range(Deps[call]) \subseteq DOMAIN f.vals
  <2> DEFINE new == [d \in {k} |-> k]
  <2>1. DOMAIN new = {Head(f.todo)}
    BY <1>5
  <2>2. f.todo \in Seq(Calls) /\ f.todo # <<>> /\ Prepared(eff, f.todo, f.vals)
    BY <1>2, <1>5, <1>6, <1>7, <1>8 DEF Ready, ResolveFrames
  <2> HIDE DEF new
  <2> QED
    BY <1>5, <1>11, <2>1, <2>2, PreparedTail
<1>13. \A d \in Range(Deps[call]) : f.vals[d].made = Fresh(eff, d)
  BY <1>5, <1>7, <1>8, <1>12 DEF Fits
<1>14. Built(t).made = {call} \cup UNION {v.made : v \in {f.vals[d] : d \in Range(Deps[call])}}
  BY <1>5, <1>8, <1>11 DEF Built
<1>15. {v.made : v \in {f.vals[d] : d \in Range(Deps[call])}} = {Fresh(eff, d) : d \in Range(Deps[call])}
  BY <1>13
<1>16. NeedsUnder(eff)[k] = Range(Deps[call])
  BY <1>10, <1>11 DEF NeedsUnder
<1>17. Fresh(eff, k) = {eff[k]} \cup UNION {Fresh(eff, d) : d \in NeedsUnder(eff)[k]}
  BY <1>9, <1>10, FreshUnfolds
<1>18. {Fresh(eff, d) : d \in NeedsUnder(eff)[k]} = {Fresh(eff, d) : d \in Range(Deps[call])}
  BY <1>16
<1> QED
  BY <1>8, <1>11, <1>14, <1>15, <1>17, <1>18

\* The body of a factory is done, and what is cached for the calls that follow taken.
LEMMA BuildTrue ==
    ASSUME Replaced, VInv, IInv', NEW t \in Tasks, Build(t)
    PROVE  VInv'
<1>1. frames[t] # <<>> /\ IsResolve(Top(t)) /\ Top(t).phase = "build" /\ InPhase(t, "build") /\ ctxs' = ctxs
  BY DEF Build, InPhase, OnTop, IsResolve
<1>2. IInv /\ Typed /\ Nested /\ Linked /\ Sourced /\ InOrder
  BY DEF VInv, IInv
<1>3. PICK n : n = Len(frames[t])
  OBVIOUS
<1>4. n \in 1..Len(frames[t]) /\ Top(t) = frames[t][n]
  BY <1>1, <1>2, <1>3, TopFacts
<1>5. PICK c \in Ctxs : c = Top(t).ctx /\ Used(c)
  BY <1>1, <1>2, <1>3, TopScope
<1>6. Top(t) \in ResolveFrames
  BY <1>1, <1>2, <1>3, TopScope
<1>7. PICK root \in Calls : root = Top(t).root
  BY <1>6 DEF ResolveFrames
<1>8. PICK todo \in Seq(Calls) : todo = Top(t).todo
  BY <1>6 DEF ResolveFrames
<1>9. PICK vals \in PartialMap(Calls, Value) : vals = Top(t).vals
  BY <1>6 DEF ResolveFrames
<1>10. /\ todo # <<>> /\ Prepared(Effective(c), todo, vals)
       /\ Range(todo) \subseteq Visited(root) /\ \A x \in DOMAIN vals : vals[x].made = Fresh(Effective(c), x)
  BY <1>1, <1>2, <1>4, <1>5, <1>7, <1>8, <1>9 DEF InOrder, Ready, Sourced, Fits
<1>11. PICK k \in Calls : k = Head(todo)
  BY <1>1, <1>2, <1>8, BuiltFacts
<1>12. PICK b \in Value : b = Built(t)
  BY <1>1, <1>2, BuiltFacts
<1>13. b.made = Fresh(Effective(c), k)
  BY <1>1, <1>5, <1>8, <1>11, <1>12, BuiltTrue
<1>14. PICK new : new = [d \in {k} |-> b]
  OBVIOUS
<1>15. new \in PartialMap(Calls, Value) /\ DOMAIN new = {k} /\ new[k] = b
  BY <1>14, MapFacts
<1>16. PICK filled : filled = IF Usable(cache, c, root, k) = {}
                              THEN [cache EXCEPT ![c] = Overlay(new, cache[c])] ELSE cache
  OBVIOUS
<1>17. PICK got : got = Overlay(new, vals)
  OBVIOUS
<1>18. PICK rest : rest = Tail(todo)
  OBVIOUS
<1>19. PICK f : f = Settle(c, root, rest, got, filled)
  OBVIOUS
<1>20. cache' = filled /\ SetTop(t, f)
  BY <1>5, <1>7, <1>8, <1>9, <1>11, <1>12, <1>14, <1>16, <1>17, <1>18, <1>19 DEF Build
<1>21. /\ filled \in Caches
       /\ \A d \in Ctxs : d # c => filled[d] = cache[d]
       /\ \A x \in DOMAIN filled[c] : \/ x \in DOMAIN cache[c] /\ filled[c][x] = cache[c][x]
                                      \/ x = k /\ filled[c][x] = b
  <2>1. cache \in Caches
    BY <1>2 DEF Typed, Caches
  <2>2. cache[c] \in PartialMap(Calls, Value)
    BY <2>1 DEF Caches
  <2>3. PICK o : o = Overlay(new, cache[c])
    OBVIOUS
  <2>4. o \in PartialMap(Calls, Value)
    BY ONLY <1>15, <2>2, <2>3, OverlayMap
  <2>5. /\ DOMAIN o = DOMAIN new \cup DOMAIN cache[c]
        /\ \A x \in DOMAIN new : o[x] = new[x]
        /\ \A x \in DOMAIN cache[c] \ DOMAIN new : o[x] = cache[c][x]
    BY <2>3 DEF Overlay
  <2>6. CASE Usable(cache, c, root, k) = {}
    <3>1. filled = [cache EXCEPT ![c] = o]
      BY <1>16, <2>3, <2>6
    <3>2. filled \in Caches /\ filled[c] = o /\ \A d \in Ctxs : d # c => filled[d] = cache[d]
      BY <2>1, <2>4, <3>1 DEF Caches
    <3> QED
      BY <1>15, <2>5, <3>2
  <2>7. CASE ~(Usable(cache, c, root, k) = {})
    BY <1>16, <2>1, <2>7
  <2> QED
    BY <2>6, <2>7
<1>22. \A d \in Ctxs : Used(d) => TrueIn(filled, d)
  <2>1. \A d \in Ctxs : Used(d) => TrueIn(cache, d)
    BY <1>2 DEF Sourced
  <2>2. TrueIn(filled, c)
    BY <1>5, <1>13, <1>21, <2>1 DEF TrueIn
  <2> QED
    BY <1>21, <2>1, <2>2 DEF TrueIn
<1>23. got \in PartialMap(Calls, Value)
  BY ONLY <1>15, <1>17, vals \in PartialMap(Calls, Value), OverlayMap
<1>24. \A x \in DOMAIN got : got[x].made = Fresh(Effective(c), x)
  <2>1. /\ DOMAIN got = DOMAIN new \cup DOMAIN vals
        /\ \A x \in DOMAIN new : got[x] = new[x]
        /\ \A x \in DOMAIN vals \ DOMAIN new : got[x] = vals[x]
    BY <1>17 DEF Overlay
  <2> QED
    BY <1>10, <1>13, <1>15, <2>1
<1>25. rest \in Seq(Calls) /\ Range(rest) \subseteq Visited(root) /\ Prepared(Effective(c), rest, got)
  <2>1. DOMAIN new = {Head(todo)}
    BY <1>11, <1>15
  <2> QED
    BY <1>10, <1>17, <1>18, <2>1, PreparedTail
<1>26. f \in Frames /\ IsResolve(f) /\ f.ctx = c /\ Fits(f)
  <2>1. LinkedAt(c)
    BY <1>2, <1>5 DEF Linked
  <2> QED
    BY <1>2, <1>5, <1>19, <1>21, <1>22, <1>23, <1>24, <1>25, <2>1, SettleFits
<1>27. \A d \in Ctxs : Used(d) => \A x \in DOMAIN cache'[d] : cache'[d][x].made = Fresh(Effective(d), x)
  BY <1>20, <1>22 DEF TrueIn
<1> QED
  BY <1>1, <1>20, <1>26, <1>27, GoesOn

-----------------------------------------------------------------------------
\* The theorem

\* At first nothing is cached.
LEMMA InitTrue == Init => VInv
<1> SUFFICES ASSUME Init
             PROVE  VInv
  OBVIOUS
<1>1. IInv
  BY InitHolds
<1>2. \A c \in Ctxs : ~Used(c)
  BY DEF Init, Used
<1>3. \A t \in Tasks : \A i \in 1..Len(frames[t]) : FALSE
  <2>1. \A t \in Tasks : frames[t] = <<>>
    BY DEF Init
  <2>2. Len(<<>>) = 0 /\ \A i \in 1..0 : FALSE
    BY EmptySeq
  <2> QED
    BY <2>1, <2>2
<1> QED
  BY <1>1, <1>2, <1>3 DEF VInv, Linked, Sourced

\* Every step keeps every value what the overrides say.
LEMMA StepTrue ==
    ASSUME Replaced
    PROVE  VInv /\ [Next]_vars => VInv'
<1> SUFFICES ASSUME VInv, [Next]_vars
             PROVE  VInv'
  OBVIOUS
<1>1. IInv'
  BY StepHolds DEF VInv
<1>2. ASSUME NEW t \in Tasks, NEW o \in Overrides, OpenCtx(t, o) \/ PushOverrides(t, o)
      PROVE  VInv'
  BY <1>1, <1>2, OpenQuiet
<1>3. ASSUME NEW t \in Tasks, NEW root \in Calls, NEW new \in BOOLEAN,
             CallResolve(t, root, new) \/ CallInjected(t, root, new)
      PROVE  VInv'
  BY <1>1, <1>3, EnsureQuiet DEF CallResolve, CallInjected
<1>4. ASSUME NEW t \in Tasks, EnterLock(t) \/ Build(t)
      PROVE  VInv'
  BY <1>1, <1>4, EnterLockTrue, BuildTrue
<1>5. ASSUME NEW t \in Tasks,
             Return(t) \/ Fail(t) \/ Abandon(t) \/ LeaveOverrides(t) \/ LeaveCtx(t) \/ Closed(t)
      PROVE  VInv'
  BY <1>1, <1>5, EndsQuiet, LeaveCtxQuiet
<1>6. ASSUME NEW t \in Tasks, Teardown(t) \/ Start(t) \/ End(t) \/ \E u \in Tasks : Spawn(t, u)
      PROVE  VInv'
  <2>1. UNCHANGED <<frames, ctxs, cache>>
    BY <1>6 DEF Teardown, Start, End, Spawn, tasks
  <2> QED
    BY <1>1, <2>1, StillQuiet
<1>7. CASE UNCHANGED vars
  BY <1>1, <1>7, StillQuiet DEF vars, tasks
<1> QED
  BY <1>2, <1>3, <1>4, <1>5, <1>6, <1>7 DEF Next

\* No resolution hands out a value that is not what the overrides in force in its context
\* say, for every dependency graph, in every nest of contexts and override blocks, whoever
\* cached the value (ctx.py, cache_for(); _cache.py, overridden_calls()): as long as a
\* replacement's own parameters are among what the replaced call depends on, or out of reach
\* of every override.  Without that it fails: see InjectionFakeDeps.cfg.
THEOREM UpToDate ==
    ASSUME Replaced
    PROVE  Spec => []NeverStale
<1>1. ASSUME VInv
      PROVE  NeverStale
  <2>1. Typed /\ Nested /\ Sourced
    BY <1>1 DEF VInv, IInv
  <2> SUFFICES ASSUME NEW r \in Resolving, NEW k \in DOMAIN Frame(r).vals
               PROVE  Frame(r).vals[k].made = Fresh(InForce(Frame(r).ctx), k)
    BY DEF NeverStale
  <2>2. PICK t \in Tasks, i \in Nat :
           i \in 1..Len(frames[t]) /\ Frame(r) = frames[t][i] /\ IsResolve(frames[t][i])
    BY <2>1, ResolvingFacts, FramesAt
  <2>3. PICK c \in Ctxs : c = Frame(r).ctx
    BY <2>1, <2>2, FramesAt, FrameFacts
  <2>4. Frame(r).vals[k].made = Fresh(Effective(c), k)
    BY <2>1, <2>2, <2>3 DEF Sourced, Fits
  <2>5. InForce(c) = Effective(c)
    BY <2>1, InForceIs
  <2> QED
    BY <2>3, <2>4, <2>5
<1>2. VInv /\ [Next]_vars => VInv'
  BY StepTrue
<1> QED
  BY <1>1, <1>2, InitTrue, PTL DEF Spec

-----------------------------------------------------------------------------
\* Sharing: the inductive invariant

\* The lock of c is that of a context inside of s.
Under(c, s) ==
    /\ c \in Ctxs /\ ctxs[c].scope \in Ctxs /\ ctxs[c].scope # s
    /\ s \in Range(ctxs[ctxs[c].scope].chain)

\* A context that is opened by who is in the lock of s, or was spawned in a context inside
\* of s, has its lock inside of s.
InsideAt(t, i) ==
    Opens(frames[t][i]) => \A s \in Ctxs :
        Under(base[t], s) \/ (\E j \in 1..(i - 1) : Holds(t, j, s)) => Under(frames[t][i].ctx, s)
Inside == \A t \in Tasks : \A i \in 1..Len(frames[t]) : InsideAt(t, i)

\* Who is of somebody else's family was spawned in a context inside of that lock.
Adopted == \A s \in Ctxs, t \in Tasks : family[s][t] # t => Under(base[t], s)

\* One task is inside a lock.
OneTask ==
    \A s \in Ctxs, t, u \in Tasks : \A i, j \in Nat : Holds(t, i, s) /\ Holds(u, j, s) => t = u

\* No task was spawned in a factory.
FromBlocks ==
    \A w \in alive : parent[w].task \in alive /\ parent[w].at > 0
        => Opens(frames[parent[w].task][parent[w].at])

\* Among tasks there is one that none of the others was spawned by, among contexts one that
\* is around none of the others.
Youngest == \A S \in SUBSET alive : S # {} => \E t \in S : \A u \in S : parent[u].task # t
Innermost ==
    \A X \in SUBSET {c \in Ctxs : Used(c)} :
        X # {} => \E c \in X : \A d \in X : d # c => c \notin Range(ctxs[d].chain)

\* What is being built is not to be had from a context further out.
MissingAbove(f) ==
    \A i \in Inherited(f.ctx) :
        Head(f.todo) \in DOMAIN cache[ctxs[f.ctx].chain[i]]
            => Head(f.todo) \in OverriddenCalls(f.root, Introduced(f.ctx, i))
Builds(f) == IsResolve(f) /\ f.phase = "build"
Untaken == \A t \in Tasks : \A i \in 1..Len(frames[t]) : Builds(frames[t][i]) => MissingAbove(frames[t][i])

SInv == IInv /\ Linked /\ Inside /\ Adopted /\ OneTask /\ FromBlocks /\ Youngest /\ Innermost /\ Untaken

-----------------------------------------------------------------------------
\* Contexts inside of contexts

\* The chain of a context around c is the rest of the chain of c, and c is not on it.
LEMMA ChainsNest ==
    ASSUME Typed, Nested, Linked, NEW c \in Ctxs, Used(c)
    PROVE  /\ \A x \in Range(ctxs[c].chain) :
                 x \in Ctxs /\ Used(x) /\ Range(ctxs[x].chain) \subseteq Range(ctxs[c].chain)
           /\ \A i \in 2..Len(ctxs[c].chain) : ctxs[c].chain[i] # c
<1>1. PICK s \in Seq(Ctxs) : s = ctxs[c].chain
  BY DEF Typed, Contexts
<1>2. PICK n \in Nat : n = Len(s)
  BY LenProperties
<1>3. \A i \in 1..n : /\ Len(ctxs[s[i]].chain) = n - i + 1
                      /\ \A j \in 1..(n - i + 1) : ctxs[s[i]].chain[j] = s[i + j - 1]
  BY <1>1, <1>2 DEF Linked, LinkedAt
<1>4. ASSUME NEW x \in Range(s)
      PROVE  x \in Ctxs /\ Used(x) /\ Range(ctxs[x].chain) \subseteq Range(s)
  <2>1. PICK i \in 1..n : x = s[i]
    BY <1>1, <1>2, RangeFacts
  <2>2. x \in Ctxs /\ Used(x)
    BY <1>1, <1>2, <2>1, RangeFacts DEF Nested, Chained
  <2>3. PICK r \in Seq(Ctxs) : r = ctxs[x].chain
    BY <2>2 DEF Typed, Contexts
  <2>4. Len(r) = n - i + 1 /\ \A j \in 1..(n - i + 1) : r[j] = s[i + j - 1]
    BY <1>3, <2>1, <2>3
  <2>5. ASSUME NEW y \in Range(r)
        PROVE  y \in Range(s)
    <3>1. PICK j \in 1..Len(r) : y = r[j]
      BY RangeFacts
    <3>2. j \in 1..(n - i + 1)
      BY <2>4, <3>1
    <3>3. i + j - 1 \in 1..n
      BY <3>2
    <3>4. y = s[i + j - 1]
      BY <2>4, <3>1, <3>2
    <3>5. i + j - 1 \in 1..Len(s)
      BY <1>2, <3>3
    <3> QED
      BY <3>4, <3>5, RangeFacts
  <2> QED
    BY <2>2, <2>3, <2>5
<1>5. ASSUME NEW i \in 2..n
      PROVE  s[i] # c
  <2>1. Len(ctxs[s[i]].chain) = n - i + 1 /\ n - i + 1 # n
    BY <1>3
  <2> QED
    BY <1>1, <1>2, <2>1
<1> QED
  BY <1>1, <1>2, <1>4, <1>5

\* The context under which a lock lies does not change.
LEMMA UnderStays ==
    ASSUME Typed, Nested, Typed', Nested', Stable, NEW c \in Ctxs, Used(c), Used(c)', NEW s
    PROVE  Under(c, s)' <=> Under(c, s)
<1>1. ctxs'[c] = ctxs[c]
  BY DEF Stable
<1>2. PICK z : z = ctxs[c].scope
  OBVIOUS
<1>3. z \in Ctxs /\ Used(z)
  BY <1>2, RangeFacts DEF Nested, Chained, Typed, Contexts
<1>4. Used(z)'
  BY <1>1, <1>2 DEF Nested, Chained
<1>5. ctxs'[z] = ctxs[z]
  BY <1>3, <1>4 DEF Stable
<1> QED
  BY <1>1, <1>2, <1>5 DEF Under

\* What the current context is: that of the last frame that opened one.
LEMMA CurrentIs ==
    ASSUME Typed, NEW t \in Tasks, NEW n \in 0..Len(frames[t])
    PROVE  \/ CurrentAt(t, n) = base[t] /\ \A j \in 1..n : ~Opens(frames[t][j])
           \/ \E j \in 1..n : /\ Opens(frames[t][j]) /\ CurrentAt(t, n) = frames[t][j].ctx
                              /\ \A i \in (j + 1)..n : ~Opens(frames[t][i])
<1>1. n \in Nat
  BY FramesAt
<1> DEFINE entered == {i \in 1..n : Opens(frames[t][i])}
<1>2. CurrentAt(t, n) = IF entered = {} THEN base[t] ELSE frames[t][Max(entered)].ctx
  BY DEF CurrentAt, CurrentIn
<1>3. CASE entered = {}
  BY <1>2, <1>3
<1>4. CASE entered # {}
  <2>1. PICK j : j = Max(entered)
    OBVIOUS
  <2>2. j \in entered /\ \A k \in entered : j >= k
    <3>1. entered \in SUBSET (1..n)
      OBVIOUS
    <3> HIDE DEF entered
    <3> QED
      BY <1>1, <1>4, <2>1, <3>1, MaxFacts
  <2>3. CurrentAt(t, n) = frames[t][j].ctx
    BY <1>2, <1>4, <2>1
  <2>4. j \in 1..n /\ Opens(frames[t][j])
    BY <2>2
  <2>5. ASSUME NEW i \in (j + 1)..n
        PROVE  ~Opens(frames[t][i])
    <3>1. i \in 1..n /\ ~(j >= i)
      BY <1>1, <2>4
    <3> QED
      BY <2>2, <3>1
  <2> QED
    BY <2>3, <2>4, <2>5
<1> QED
  BY <1>3, <1>4

\* Above a resolution in the lock of s the current context is that of the resolution, or, when
\* others were opened there, one inside of s.
LEMMA HolderAround ==
    ASSUME Typed, Nested, Inside, NEW t \in Tasks, NEW s \in Ctxs, NEW i \in Nat, Holds(t, i, s),
           NEW n \in i..Len(frames[t])
    PROVE  \/ Under(CurrentAt(t, n), s)
           \/ CurrentAt(t, n) = frames[t][i].ctx /\ \A j \in i..n : ~Opens(frames[t][j])
<1>1. Len(frames[t]) \in Nat /\ i \in 1..Len(frames[t]) /\ n \in 0..Len(frames[t]) /\ i - 1 \in Nat /\ n \in Nat
  BY FramesAt DEF Holds
<1>2. IsResolve(frames[t][i]) /\ ~Opens(frames[t][i])
  BY DEF Holds, IsResolve, Opens, IsCtx
<1>3. CASE \A j \in i..n : ~Opens(frames[t][j])
  <2>1. \A j \in (i - 1 + 1)..n : ~Opens(frames[t][j])
    BY <1>1, <1>3
  <2>2. i - 1 <= n
    BY <1>1
  <2>3. CurrentAt(t, n) = CurrentAt(t, i - 1)
    BY <1>1, <2>1, <2>2, CurrentAbove DEF CurrentAt
  <2> QED
    BY <1>1, <1>2, <1>3, <2>3, ResolveCtx
<1>4. CASE \E j \in i..n : Opens(frames[t][j])
  <2>1. PICK k \in i..n : Opens(frames[t][k])
    BY <1>4
  <2>2. k \in 1..n
    BY <1>1
  <2>3. PICK j \in 1..n : /\ Opens(frames[t][j]) /\ CurrentAt(t, n) = frames[t][j].ctx
                          /\ \A m \in (j + 1)..n : ~Opens(frames[t][m])
    BY <1>1, <2>1, <2>2, CurrentIs
  <2>4. ~(j < k)
    BY <1>1, <2>1, <2>3
  <2>5. j # i
    BY <1>2, <2>3
  <2>6. i \in 1..(j - 1) /\ j \in 1..Len(frames[t])
    BY <1>1, <2>4, <2>5
  <2> QED
    BY <2>3, <2>6 DEF Inside, InsideAt
<1> QED
  BY <1>3, <1>4

\* Who was spawned in a context inside of s stays inside of s.
LEMMA BaseAround ==
    ASSUME Typed, Nested, Inside, NEW t \in Tasks, NEW s \in Ctxs, Under(base[t], s),
           NEW n \in 0..Len(frames[t])
    PROVE  Under(CurrentAt(t, n), s)
<1>1. Len(frames[t]) \in Nat
  BY FramesAt
<1> QED
  BY <1>1, CurrentIs DEF Inside, InsideAt

\* The lock of a context is not inside of itself.
LEMMA NotUnderItself ==
    ASSUME Typed, Nested, Inside, NEW t \in Tasks, NEW i \in 1..Len(frames[t]), IsResolve(frames[t][i]),
           NEW s, s = ctxs[frames[t][i].ctx].scope
    PROVE  s \in Ctxs /\ ~Under(frames[t][i].ctx, s) /\ ~Under(base[t], s)
<1>1. /\ frames[t][i].ctx \in Ctxs /\ Used(frames[t][i].ctx)
      /\ i - 1 \in 0..Len(frames[t]) /\ frames[t][i].ctx = CurrentAt(t, i - 1)
  BY ResolveCtx
<1>2. s \in Ctxs
  BY <1>1, ScopeAround
<1>3. ~Under(frames[t][i].ctx, s)
  BY DEF Under
<1> QED
  BY <1>1, <1>2, <1>3, BaseAround

\* Between two resolutions of a task in one lock no context is opened: they work in the
\* same context.
LEMMA SameLock ==
    ASSUME Typed, Nested, Inside, NEW t \in Tasks, NEW s \in Ctxs, NEW m \in Nat, NEW n \in Nat,
           Holds(t, m, s), m < n, n \in 1..Len(frames[t]), IsResolve(frames[t][n]),
           ctxs[frames[t][n].ctx].scope = s
    PROVE  frames[t][n].ctx = frames[t][m].ctx /\ \A j \in m..(n - 1) : ~Opens(frames[t][j])
<1>1. frames[t][n].ctx = CurrentAt(t, n - 1)
  BY ResolveCtx
<1>2. n - 1 \in m..Len(frames[t])
  BY FramesAt
<1>3. ~Under(frames[t][n].ctx, s)
  BY DEF Under
<1> QED
  BY <1>1, <1>2, <1>3, HolderAround

-----------------------------------------------------------------------------
\* What every step leaves as it is

\* The frames of t change above the k-th, where no task was spawned that still runs.
Moves(t, k) ==
    /\ Same(t, k) /\ Stable /\ Begins /\ Below(t, k)
    /\ UNCHANGED <<alive, base, parent, family>>

\* What a task was spawned in is there, before the step and after it.
LEMMA BaseUsed ==
    ASSUME Typed, Nested, NEW t \in Tasks
    PROVE  base[t] \in Ctxs \cup {NoCtx} /\ (base[t] \in Ctxs => Used(base[t]))
<1>1. base[t] \in Ctxs \cup {NoCtx}
  BY DEF Typed
<1>2. 0 \in 0..Len(frames[t])
  BY FramesAt
<1>3. CurrentAt(t, 0) = base[t]
  BY CurrentSteps DEF CurrentAt
<1> QED
  BY <1>1, <1>2, <1>3, InjectionAssumption DEF Nested, Enclosed

\* Tasks that were spawned inside of s still are.
LEMMA BaseStays ==
    ASSUME Typed, Nested, Typed', Nested', Stable, base' = base, NEW t \in Tasks, NEW s
    PROVE  Under(base[t], s)' <=> Under(base[t], s)
<1>1. base[t] \in Ctxs \cup {NoCtx} /\ (base[t] \in Ctxs => Used(base[t]))
  BY BaseUsed
<1>2. base[t] \in Ctxs => Used(base[t])'
  <2>1. 0 \in 0..Len(frames'[t])
    BY FramesAt DEF Typed
  <2>2. CurrentAt(t, 0)' = base'[t]
    BY CurrentSteps DEF CurrentAt
  <2> QED
    BY <2>1, <2>2, InjectionAssumption DEF Nested, Enclosed
<1>3. CASE base[t] \in Ctxs
  <2>1. PICK b \in Ctxs : b = base[t]
    BY <1>3
  <2>2. Used(b) /\ Used(b)'
    BY <1>1, <1>2, <2>1 DEF Used
  <2>3. Under(b, s)' <=> Under(b, s)
    BY <2>2, UnderStays
  <2> QED
    BY <2>1, <2>3 DEF Under
<1>4. CASE base[t] \notin Ctxs
  BY <1>4 DEF Under
<1> QED
  BY <1>3, <1>4

\* A context that is opened by who is inside of a lock is inside of it, if it was before.
LEMMA StepInside ==
    ASSUME Typed, Nested, Inside, Typed', Nested', NEW t \in Tasks, NEW k \in Nat, Moves(t, k),
           \A i \in 1..Len(frames'[t]) : i > k => InsideAt(t, i)'
    PROVE  Inside'
<1> SUFFICES ASSUME NEW u \in Tasks, NEW i \in 1..Len(frames'[u]), u # t \/ ~(i > k)
             PROVE  InsideAt(u, i)'
  BY DEF Inside
<1>1. i \in Nat /\ (u # t \/ i <= k) /\ Same(t, k) /\ Stable /\ base' = base
  BY FramesAt DEF Typed, Moves
<1>2. i \in 1..Len(frames[u]) /\ frames'[u][i] = frames[u][i]
  BY <1>1, Stays
<1>3. SUFFICES ASSUME Opens(frames[u][i]), NEW s \in Ctxs,
                      Under(base[u], s)' \/ \E j \in 1..(i - 1) : Holds(u, j, s)'
               PROVE  Under(frames[u][i].ctx, s)'
  BY <1>2 DEF InsideAt, Opens, IsCtx
<1>4. Under(base[u], s) \/ \E j \in 1..(i - 1) : Holds(u, j, s)
  <2>1. CASE Under(base[u], s)'
    BY <1>1, <2>1, BaseStays
  <2>2. CASE \E j \in 1..(i - 1) : Holds(u, j, s)'
    <3>1. PICK j \in 1..(i - 1) : Holds(u, j, s)'
      BY <2>2
    <3>2. j \in Nat /\ (u # t \/ j <= k)
      BY <1>1
    <3> QED
      BY <1>1, <3>1, <3>2, HoldsStay
  <2> QED
    BY <1>3, <2>1, <2>2
<1>5. PICK c : c = frames[u][i].ctx
  OBVIOUS
<1>6. Under(c, s)
  BY <1>2, <1>3, <1>4, <1>5 DEF Inside, InsideAt
<1>7. c \in Ctxs /\ Used(c) /\ Used(c)'
  BY <1>1, <1>2, <1>3, <1>5, StaysEntered DEF Opens
<1>8. Under(c, s)'
  BY <1>1, <1>6, <1>7, UnderStays
<1> QED
  BY <1>2, <1>5, <1>8 DEF Under

\* Families stay inside of their locks.
LEMMA StepAdopted ==
    ASSUME Typed, Nested, Adopted, Typed', Nested', Stable, UNCHANGED <<base, family>>
    PROVE  Adopted'
BY BaseStays DEF Adopted

\* Nobody comes into a lock.
LEMMA StepOneTask ==
    ASSUME Typed, Nested, OneTask, Typed', Nested', NEW t \in Tasks, NEW k \in Nat, Moves(t, k),
           \A i \in Nat : i > k => \A s \in Ctxs : Holds(t, i, s)' => Holds(t, i, s)
    PROVE  OneTask'
<1>1. ASSUME NEW u \in Tasks, NEW i \in Nat, NEW s \in Ctxs, Holds(u, i, s)'
      PROVE  Holds(u, i, s)
  <2>1. CASE u # t \/ i <= k
    BY <1>1, <2>1, HoldsStay DEF Moves
  <2>2. CASE u = t /\ i > k
    BY <1>1, <2>2
  <2> QED
    BY <2>1, <2>2
<1> QED
  BY <1>1 DEF OneTask

\* What tasks were spawned in stays as it is.
LEMMA StepFromBlocks ==
    ASSUME Typed, Nested, FromBlocks, Typed', NEW t \in Tasks, NEW k \in Nat, Moves(t, k)
    PROVE  FromBlocks'
<1> SUFFICES ASSUME NEW w \in alive, parent[w].task \in alive, parent[w].at > 0
             PROVE  Opens(frames'[parent[w].task][parent[w].at])
  BY DEF FromBlocks, Moves, Opens, IsCtx
<1>1. PICK p \in Tasks : p = parent[w].task
  BY DEF Typed
<1>2. PICK n \in Nat : n = parent[w].at
  BY DEF Typed, Parents
<1>3. frames'[p][n] = frames[p][n]
  <2>1. CASE p # t
    BY <2>1 DEF Moves, Same
  <2>2. CASE p = t
    <3>1. n <= k
      BY <1>1, <1>2, <2>2 DEF Moves, Below
    <3>2. n \in 1..k
      BY <1>2, <3>1
    <3> QED
      BY <2>2, <3>2 DEF Moves, Same
  <2> QED
    BY <2>1, <2>2
<1> QED
  BY <1>1, <1>2, <1>3 DEF FromBlocks

\* A context that begins is around none of those that are there.
LEMMA StepInnermost ==
    ASSUME Typed, Nested, Innermost, Typed', Nested', Stable, Begins
    PROVE  Innermost'
<1> SUFFICES ASSUME NEW X \in SUBSET {c \in Ctxs : Used(c)'}, X # {}
             PROVE  \E c \in X : \A d \in X : d # c => c \notin Range(ctxs'[d].chain)
  BY DEF Innermost
<1>1. CASE \A c \in X : Used(c)
  <2>1. PICK c \in X : \A d \in X : d # c => c \notin Range(ctxs[d].chain)
    BY <1>1 DEF Innermost
  <2>2. \A d \in X : ctxs'[d] = ctxs[d]
    BY <1>1 DEF Stable
  <2> QED
    BY <2>1, <2>2
<1>2. CASE \E c \in X : ~Used(c)
  <2>1. PICK c \in X : ~Used(c)
    BY <1>2
  <2>2. ASSUME NEW d \in X, d # c
        PROVE  c \notin Range(ctxs'[d].chain)
    <3>1. CASE Used(d)
      <4>1. ctxs'[d] = ctxs[d]
        BY <3>1 DEF Stable
      <4> QED
        BY <2>1, <3>1, <4>1 DEF Nested, Chained
    <3>2. CASE ~Used(d)
      <4>1. PICK outer \in Ctxs \cup {NoCtx} : /\ outer = NoCtx \/ Used(outer)
                                               /\ ctxs'[d].chain = <<d>> \o Chain(outer)
        BY <3>2 DEF Begins, Goes
      <4>2. PICK s \in Seq(Ctxs) : s = Chain(outer)
        BY ChainType
      <4>3. Range(ctxs'[d].chain) = {d} \cup Range(s)
        BY <4>1, <4>2, ChainGrows
      <4>4. c \notin Range(s)
        <5>1. CASE outer = NoCtx
          BY <4>2, <5>1, NoChain
        <5>2. CASE outer # NoCtx
          BY <2>1, <4>1, <4>2, <5>2 DEF Nested, Chained, Chain
        <5> QED
          BY <5>1, <5>2
      <4> QED
        BY <2>2, <4>3, <4>4
    <3> QED
      BY <3>1, <3>2
  <2> QED
    BY <2>2
<1> QED
  BY <1>1, <1>2

\* What a context inherits, and what is overridden on the way, stays as it is.
LEMMA ChainStays ==
    ASSUME Typed, Nested, Typed', Nested', Stable, NEW c \in Ctxs, Used(c), Used(c)'
    PROVE  /\ ctxs'[c] = ctxs[c] /\ Inherited(c)' = Inherited(c)
           /\ \A i \in Inherited(c) :
                 /\ Introduced(c, i)' = Introduced(c, i)
                 /\ \E d \in Ctxs : d = ctxs[c].chain[i] /\ Used(d)' /\ i \in 2..Len(ctxs[c].chain)
<1>1. ctxs'[c] = ctxs[c]
  BY DEF Stable
<1>2. PICK s \in Seq(Ctxs) : s = ctxs[c].chain
  BY DEF Typed, Contexts
<1>3. PICK n \in Nat : n = Len(s)
  BY LenProperties
<1>4. \A i \in 1..n : s[i] \in Ctxs /\ Used(s[i])' /\ ctxs'[s[i]] = ctxs[s[i]]
  <2>1. \A i \in 1..n : s[i] \in Ctxs /\ s[i] \in Range(s)
    BY <1>2, <1>3, RangeFacts
  <2>2. \A x \in Range(s) : Used(x) /\ Used(x)'
    BY <1>1, <1>2 DEF Nested, Chained
  <2> QED
    BY <2>1, <2>2 DEF Stable
<1>5. \A i \in 2..n : \A j \in 1..(i - 1) : j \in 1..n
  OBVIOUS
<1>6. Inherited(c)' = Inherited(c) /\ Inherited(c) \subseteq 2..n
  BY <1>1, <1>2, <1>3, <1>4, <1>5 DEF Inherited
<1>7. \A i \in 2..n : Introduced(c, i)' = Introduced(c, i)
  <2>1. ASSUME NEW i \in 2..n
        PROVE  {DOMAIN ctxs'[s[j]].own : j \in 1..(i - 1)} = {DOMAIN ctxs[s[j]].own : j \in 1..(i - 1)}
    BY <1>4, <1>5
  <2>2. \A i \in 2..n : Introduced(c, i) = UNION {DOMAIN ctxs[s[j]].own : j \in 1..(i - 1)}
    BY <1>2 DEF Introduced
  <2>3. \A i \in 2..n : Introduced(c, i)' = UNION {DOMAIN ctxs'[s[j]].own : j \in 1..(i - 1)}
    BY <1>1, <1>2 DEF Introduced
  <2> QED
    BY <2>1, <2>2, <2>3
<1> QED
  BY <1>1, <1>2, <1>3, <1>4, <1>6, <1>7

\* Nothing that f builds has come into the caches that it may read.
KeepsMissing(f) ==
    \A i \in Inherited(f.ctx) :
        \A d \in Ctxs : d = ctxs[f.ctx].chain[i] /\ Used(d)' =>
            (Head(f.todo) \in DOMAIN cache'[d] => Head(f.todo) \in DOMAIN cache[d])
StayMissing(t, k) ==
    \A u \in Tasks : \A i \in 1..Len(frames[u]) :
        (u # t \/ i <= k) /\ Builds(frames[u][i]) => KeepsMissing(frames[u][i])

\* What is being built has not come into the caches further out.
LEMMA StepUntaken ==
    ASSUME Typed, Nested, Untaken, Typed', Nested', NEW t \in Tasks, NEW k \in Nat, Moves(t, k),
           StayMissing(t, k),
           \A i \in 1..Len(frames'[t]) : i > k /\ Builds(frames'[t][i]) => MissingAbove(frames[t][i])'
    PROVE  Untaken'
<1> SUFFICES ASSUME NEW u \in Tasks, NEW i \in 1..Len(frames'[u]), u # t \/ ~(i > k), Builds(frames'[u][i])
             PROVE  MissingAbove(frames[u][i])'
  BY DEF Untaken, Builds, IsResolve
<1>1. i \in Nat /\ (u # t \/ i <= k) /\ Same(t, k) /\ Stable
  BY FramesAt DEF Typed, Moves
<1>2. i \in 1..Len(frames[u]) /\ frames'[u][i] = frames[u][i]
  BY <1>1, Stays
<1>3. PICK f : f = frames[u][i]
  OBVIOUS
<1>4. PICK c : c = f.ctx
  OBVIOUS
<1>5. IsResolve(f) /\ Builds(f) /\ MissingAbove(f) /\ KeepsMissing(f)
  BY <1>1, <1>2, <1>3 DEF Untaken, StayMissing, Builds
<1>6. c \in Ctxs /\ Used(c) /\ Used(c)'
  BY <1>1, <1>2, <1>3, <1>4, <1>5, StaysInContext
<1>7. /\ ctxs'[c] = ctxs[c] /\ Inherited(c)' = Inherited(c)
      /\ \A j \in Inherited(c) : /\ Introduced(c, j)' = Introduced(c, j)
                                  /\ \E d \in Ctxs : d = ctxs[c].chain[j] /\ Used(d)'
  BY <1>1, <1>6, ChainStays
<1>8. \A j \in Inherited(c) :
         Head(f.todo) \in DOMAIN cache'[ctxs[c].chain[j]]
            => Head(f.todo) \in OverriddenCalls(f.root, Introduced(c, j))
  BY <1>4, <1>5, <1>7 DEF MissingAbove, KeepsMissing
<1>9. \A j \in Inherited(c)' :
         Head(f.todo) \in DOMAIN cache'[ctxs'[c].chain[j]]
            => Head(f.todo) \in OverriddenCalls(f.root, Introduced(c, j)')
  BY <1>7, <1>8
<1>10. frames'[u][i] = f
  BY <1>2, <1>3
<1> QED
  BY <1>4, <1>9, <1>10 DEF MissingAbove

\* The parts together.
LEMMA MovesKeep ==
    ASSUME SInv, IInv', NEW t \in Tasks, NEW k \in Nat, Moves(t, k), StayMissing(t, k), OneTask',
           \A i \in 1..Len(frames'[t]) : i > k =>
              InsideAt(t, i)' /\ (Builds(frames'[t][i]) => MissingAbove(frames[t][i])')
    PROVE  SInv'
<1>1. Typed /\ Nested /\ Typed' /\ Nested' /\ Linked /\ Stable /\ Begins
  BY DEF SInv, IInv, Moves
<1>2. Linked'
  BY <1>1, StepLinked
<1>3. Inside'
  BY <1>1, StepInside DEF SInv
<1>4. Adopted'
  BY <1>1, StepAdopted DEF SInv, Moves
<1>5. FromBlocks'
  BY <1>1, StepFromBlocks DEF SInv
<1>6. Youngest'
  BY DEF SInv, Youngest, Moves
<1>7. Innermost'
  BY <1>1, StepInnermost DEF SInv
<1>8. Untaken'
  BY <1>1, StepUntaken DEF SInv
<1> QED
  BY <1>2, <1>3, <1>4, <1>5, <1>6, <1>7, <1>8 DEF SInv

\* A step that neither enters a lock nor caches anything: what is new is a context that is
\* inside of what it should be in, or a resolution that waits.
LEMMA MovesQuietly ==
    ASSUME SInv, IInv', NEW t \in Tasks, NEW k \in Nat, Moves(t, k), Settled,
           \A i \in 1..Len(frames'[t]) : i > k => InsideAt(t, i)' /\ ~Builds(frames'[t][i]),
           \A i \in Nat : i > k => \A s \in Ctxs : Holds(t, i, s)' => Holds(t, i, s)
    PROVE  SInv'
<1>1. Typed /\ Nested /\ Typed' /\ Nested' /\ OneTask /\ Stable
  BY DEF SInv, IInv, Moves
<1>2. OneTask'
  BY <1>1, StepOneTask
<1>3. ASSUME NEW u \in Tasks, NEW i \in 1..Len(frames[u]), Builds(frames[u][i])
      PROVE  KeepsMissing(frames[u][i])
  <2>1. \A d \in Ctxs : Used(d)' => DOMAIN cache'[d] \subseteq DOMAIN cache[d]
    <3>1. DOMAIN Nothing = {}
      BY DEF Nothing
    <3> QED
      BY <3>1 DEF Settled
  <2> QED
    BY <2>1 DEF KeepsMissing
<1>4. StayMissing(t, k)
  BY <1>3 DEF StayMissing
<1> QED
  BY <1>2, <1>4, MovesKeep

-----------------------------------------------------------------------------
\* Steps that end something

\* A frame less.
LEMMA PoppedShares ==
    ASSUME SInv, IInv', NEW t \in Tasks, frames[t] # <<>>, Pop(t), Settled, Below(t, Len(frames[t]) - 1),
           UNCHANGED <<alive, base, parent, family>>
    PROVE  SInv'
<1>1. Typed /\ Nested
  BY DEF SInv, IInv
<1>2. PICK n : n = Len(frames[t])
  OBVIOUS
<1>3. n - 1 \in Nat
  BY <1>1, <1>2, TopFacts
<1>4. Same(t, n - 1) /\ Len(frames'[t]) = n - 1
  BY <1>1, <1>2, PopFrames
<1>5. Moves(t, n - 1)
  BY <1>2, <1>4 DEF Moves, Settled
<1>6. \A i \in 1..Len(frames'[t]) : ~(i > n - 1)
  BY <1>3, <1>4
<1>7. \A i \in Nat : i > n - 1 => \A s \in Ctxs : ~Holds(t, i, s)'
  BY <1>3, <1>4 DEF Holds
<1> QED
  BY <1>3, <1>5, <1>6, <1>7, MovesQuietly

\* Resolutions and contexts end.
LEMMA EndsShare ==
    ASSUME SInv, IInv', NEW t \in Tasks,
           Return(t) \/ Fail(t) \/ Abandon(t) \/ LeaveOverrides(t) \/ Closed(t)
    PROVE  SInv'
<1>1. Typed /\ Nested
  BY DEF SInv, IInv
<1>2. frames[t] # <<>> /\ Pop(t) /\ UNCHANGED <<alive, base, parent, family>>
  BY DEF Return, Fail, Abandon, LeaveOverrides, Closed, InPhase, OnTop
<1>3. Top(t) = frames[t][Len(frames[t])] /\ Top(t).ctx \in Ctxs
  BY <1>1, <1>2, TopFacts, FrameFacts
<1>4. Settled
  <2>1. CASE Return(t) \/ Fail(t) \/ Abandon(t)
    BY <2>1, ContextsStay DEF Return, Fail, Abandon
  <2>2. CASE LeaveOverrides(t) \/ Closed(t)
    <3>1. Forget(Top(t).ctx)
      BY <2>2 DEF LeaveOverrides, Closed
    <3> QED
      BY <1>1, <1>3, <3>1, ContextForgotten
  <2> QED
    BY <2>1, <2>2
<1>5. Joined(t) \/ ~Firm(frames[t][Len(frames[t])])
  <2>1. CASE Fail(t) \/ LeaveOverrides(t)
    BY <2>1 DEF Fail, LeaveOverrides
  <2>2. CASE Return(t) \/ Abandon(t) \/ Closed(t)
    BY <1>3, <2>2 DEF Return, Abandon, Closed, InPhase, OnTop, Firm, Opens, IsCtx, IsResolve
  <2> QED
    BY <2>1, <2>2
<1>6. Below(t, Len(frames[t]) - 1)
  BY <1>1, <1>2, <1>5, SpawnedBelow
<1> QED
  BY <1>2, <1>4, <1>6, PoppedShares

\* A context is on its way out.
LEMMA LeaveCtxShares ==
    ASSUME SInv, IInv', NEW t \in Tasks, LeaveCtx(t)
    PROVE  SInv'
<1>1. Typed /\ Nested
  BY DEF SInv, IInv
<1>2. /\ frames[t] # <<>> /\ IsCtx(Top(t)) /\ UNCHANGED <<ctxs, cache>> /\ Joined(t)
      /\ UNCHANGED <<alive, base, parent, family>>
  BY DEF LeaveCtx, OnTop, IsCtx
<1>3. PICK n : n = Len(frames[t])
  OBVIOUS
<1>4. PICK f : f = [Top(t) EXCEPT !.closing = TRUE]
  OBVIOUS
<1>5. f \in Frames /\ ~IsResolve(f) /\ ~Opens(f)
  <2>1. Top(t) \in CtxFrames
    BY <1>1, <1>2, TopFacts, FrameFacts
  <2> QED
    BY <1>4, <2>1 DEF Frames, CtxFrames, IsResolve, Opens
<1>6. SetTop(t, f)
  BY <1>4 DEF LeaveCtx
<1>7. n - 1 \in Nat /\ n \in Nat
  BY <1>1, <1>2, <1>3, TopFacts
<1>8. Same(t, n - 1) /\ Len(frames'[t]) = n /\ frames'[t][n] = f
  BY <1>1, <1>2, <1>3, <1>5, <1>6, SetTopFrames
<1>9. \A i \in 1..Len(frames'[t]) : i > n - 1 => frames'[t][i] = f
  BY <1>7, <1>8
<1>10. Settled
  BY <1>2, ContextsStay
<1>11. Moves(t, n - 1)
  BY <1>1, <1>2, <1>3, <1>8, <1>10, SpawnedBelow DEF Moves, Settled
<1>12. \A i \in 1..Len(frames'[t]) : i > n - 1 => InsideAt(t, i)' /\ ~Builds(frames'[t][i])
  BY <1>5, <1>9 DEF InsideAt, Builds, Opens, IsCtx, IsResolve
<1>13. \A i \in Nat : i > n - 1 => \A s \in Ctxs : ~Holds(t, i, s)'
  BY <1>5, <1>9 DEF Holds, IsResolve
<1> QED
  BY <1>7, <1>10, <1>11, <1>12, <1>13, MovesQuietly

-----------------------------------------------------------------------------
\* Steps that begin something

\* A context around the current one, or one that shares its lock, is inside of what the
\* current one is in.
LEMMA NewUnder ==
    ASSUME Typed, Nested, Linked, Typed', Nested', NEW outer \in Ctxs, Used(outer), NEW c \in Ctxs, ~Used(c), NEW x,
           Makes(c, x, outer), ctxs' = [ctxs EXCEPT ![c] = x], NEW s \in Ctxs,
           Under(outer, s) \/ (~x.inherits /\ s = ctxs[outer].scope)
    PROVE  Under(c, s)'
<1>1. \A d \in Ctxs : ctxs'[d] = IF d = c THEN x ELSE ctxs[d]
  BY DEF Typed
<1>2. PICK z : z = ctxs[outer].scope
  OBVIOUS
<1>3. PICK r \in Seq(Ctxs) : r = ctxs[outer].chain
  BY DEF Typed, Contexts
<1>4. z \in Range(r) /\ \A y \in Range(r) : y \in Ctxs /\ Used(y) /\ Range(ctxs[y].chain) \subseteq Range(r)
  BY <1>2, <1>3, ChainsNest DEF Nested, Chained
<1>5. s \in Range(r)
  BY <1>2, <1>4 DEF Under
<1>6. z # c /\ s # c
  BY <1>4, <1>5
<1>7. outer # NoCtx /\ Chain(outer) = r
  BY <1>3, InjectionAssumption DEF Chain
<1>8. CASE x.inherits
  <2>1. ctxs'[c].scope = z /\ z \in Ctxs /\ ctxs'[z] = ctxs[z]
    BY <1>1, <1>2, <1>4, <1>6, <1>7, <1>8 DEF Makes
  <2>2. z # s /\ s \in Range(ctxs[z].chain)
    BY <1>2, <1>8 DEF Under
  <2> QED
    BY <2>1, <2>2 DEF Under
<1>9. CASE ~x.inherits
  <2>1. ctxs'[c].scope = c /\ ctxs'[c].chain = <<c>> \o r
    BY <1>1, <1>7, <1>9 DEF Makes
  <2>2. s \in Range(<<c>> \o r)
    BY <1>5, ChainGrows
  <2> QED
    BY <1>6, <2>1, <2>2 DEF Under
<1> QED
  BY <1>8, <1>9

\* A context is entered, and perhaps a resolution begins in it.
LEMMA EnteredShares ==
    ASSUME SInv, IInv', NEW t \in Tasks, NEW n, n = Len(frames[t]), NEW c \in Ctxs, ~Used(c), NEW x,
           Makes(c, x, CurrentAt(t, n)), ctxs' = [ctxs EXCEPT ![c] = x],
           Same(t, n), Len(frames'[t]) > n, frames'[t][n + 1].ctx = c,
           \A i \in 1..Len(frames'[t]) : i > n + 1 => frames'[t][i].phase = "lock" /\ ~Opens(frames'[t][i]),
           ~IsResolve(frames'[t][n + 1]), x.inherits /\ frames[t] # <<>> => Opens(frames[t][n]),
           UNCHANGED <<alive, base, parent, cache, family>>
    PROVE  SInv'
<1>1. IInv /\ Typed /\ Nested /\ Typed' /\ Nested' /\ Linked /\ Inside
  BY DEF SInv, IInv
<1>2. n \in Nat /\ n \in 0..Len(frames[t])
  BY <1>1, FramesAt
<1>3. Settled
  BY <1>1, ContextAdded
<1>4. Moves(t, n)
  BY <1>1, <1>3, SpawnedBelow DEF Moves, Settled
<1>5. PICK outer \in Ctxs \cup {NoCtx} : outer = CurrentAt(t, n) /\ (outer = NoCtx \/ Used(outer))
  BY <1>1, <1>2, CurrentType DEF Nested, Enclosed
<1>6. ASSUME NEW s \in Ctxs, Under(base[t], s)' \/ \E j \in 1..n : Holds(t, j, s)'
      PROVE  Under(c, s)'
  <2>1. CASE Under(base[t], s)'
    <3>1. Under(base[t], s)
      BY <1>1, <1>4, <2>1, BaseStays DEF Moves
    <3>2. Under(outer, s) /\ outer \in Ctxs
      BY <1>1, <1>2, <1>5, <3>1, BaseAround DEF Under
    <3> QED
      BY <1>1, <1>5, <3>2, NewUnder, InjectionAssumption
  <2>2. CASE \E j \in 1..n : Holds(t, j, s)'
    <3>1. PICK j \in 1..n : Holds(t, j, s)'
      BY <2>2
    <3>2. j \in Nat /\ j <= n /\ n \in j..Len(frames[t]) /\ n \in j..n /\ n # 0
      BY <1>2
    <3>3. Holds(t, j, s)
      BY <1>1, <1>2, <1>4, <3>1, <3>2, HoldsStay DEF Moves
    <3>4. \/ Under(outer, s)
          \/ outer = frames[t][j].ctx /\ ~Opens(frames[t][n])
      BY <1>1, <1>5, <3>2, <3>3, HolderAround
    <3>5. frames[t] # <<>>
      BY <1>1, <3>2, FramesAt
    <3>6. outer \in Ctxs
      BY <1>1, <3>3, <3>4, FramesAt, FrameFacts DEF Under, Holds
    <3>7. Under(outer, s) \/ (~x.inherits /\ s = ctxs[outer].scope)
      BY <3>3, <3>4, <3>5 DEF Holds
    <3> QED
      BY <1>1, <1>5, <3>6, <3>7, NewUnder, InjectionAssumption
  <2> QED
    BY <1>6, <2>1, <2>2
<1>7. InsideAt(t, n + 1)'
  <2>1. n + 1 - 1 = n
    BY <1>2
  <2> QED
    BY <1>6, <2>1 DEF InsideAt
<1>8. ASSUME NEW i \in 1..Len(frames'[t]), i > n
      PROVE  InsideAt(t, i)' /\ ~Builds(frames'[t][i])
  <2>1. CASE i = n + 1
    BY <1>7, <2>1 DEF Builds, IsResolve
  <2>2. CASE i # n + 1
    <3>1. i > n + 1
      BY <1>2, <1>8, <2>2
    <3> QED
      BY <3>1 DEF InsideAt, Builds, IsResolve, Opens, IsCtx
  <2> QED
    BY <2>1, <2>2
<1>9. ASSUME NEW i \in Nat, i > n, NEW s \in Ctxs
      PROVE  ~Holds(t, i, s)'
  <2>1. CASE i = n + 1
    BY <2>1 DEF Holds, IsResolve
  <2>2. CASE i # n + 1
    <3>1. i > n + 1
      BY <1>2, <1>9, <2>2
    <3> QED
      BY <3>1 DEF Holds
  <2> QED
    BY <2>1, <2>2
<1> QED
  BY <1>2, <1>3, <1>4, <1>8, <1>9, MovesQuietly

\* `async with injection_ctx(o)` and `with push_overrides(o)`: opened by application code.
LEMMA OpenShares ==
    ASSUME SInv, IInv', NEW t \in Tasks, NEW o \in Overrides, OpenCtx(t, o) \/ PushOverrides(t, o)
    PROVE  SInv'
<1>1. IInv /\ Typed /\ Nested
  BY DEF SInv, IInv
<1>2. PICK c : c = FreeCtx
  OBVIOUS
<1>3. PICK n \in Nat : n = Len(frames[t])
  BY <1>1, FramesAt
<1>4. PICK x : /\ x = OwnCtx(c, Current(t), o) \/ x = OverrideCtx(c, Current(t), o)
               /\ ctxs' = [ctxs EXCEPT ![c] = x]
  BY <1>2 DEF OpenCtx, PushOverrides
<1>5. /\ HasFreeCtx /\ UNCHANGED <<alive, base, parent, cache, family>> /\ InApp(t)
      /\ frames' = [frames EXCEPT ![t] = Append(@, CtxFrame(c, TRUE))]
  BY <1>2 DEF OpenCtx, PushOverrides
<1>6. c \in Ctxs /\ ~Used(c) /\ Makes(c, x, CurrentAt(t, n))
  BY <1>1, <1>2, <1>3, <1>4, <1>5, NewContexts
<1>7. PICK f \in Frames : f = CtxFrame(c, TRUE)
  BY <1>6, NewFrames
<1>8. Same(t, n) /\ Len(frames'[t]) = n + 1 /\ frames'[t][n + 1] = f
  BY <1>1, <1>3, <1>5, <1>7, PushFrames
<1>9. f.ctx = c /\ ~IsResolve(f)
  BY <1>7 DEF CtxFrame, IsResolve
<1>10. frames[t] # <<>> => Opens(frames[t][n])
  BY <1>1, <1>3, <1>5, TopFacts DEF InApp, OnTop, Opens, IsCtx
<1>11. \A i \in 1..Len(frames'[t]) : i > n + 1 => frames'[t][i].phase = "lock" /\ ~Opens(frames'[t][i])
  BY <1>8
<1>12. Len(frames'[t]) > n /\ frames'[t][n + 1].ctx = c /\ ~IsResolve(frames'[t][n + 1])
  BY <1>8, <1>9 DEF IsResolve
<1>13. UNCHANGED <<alive, base, parent, cache, family>>
  BY <1>5
<1>14. ctxs' = [ctxs EXCEPT ![c] = x] /\ c \in Ctxs /\ ~Used(c) /\ Makes(c, x, CurrentAt(t, n)) /\ Same(t, n)
  BY <1>4, <1>6, <1>8
<1> QED
  BY <1>3, <1>10, <1>11, <1>12, <1>13, <1>14, EnteredShares


\* resolve() and a function under inject() begin.
LEMMA EnsureShares ==
    ASSUME SInv, IInv', NEW t \in Tasks, NEW root \in Calls, NEW new \in BOOLEAN, NEW body \in BOOLEAN,
           Ensure(t, root, new, body)
    PROVE  SInv'
<1>1. IInv /\ Typed /\ Nested
  BY DEF SInv, IInv
<1>2. PICK c : c = Current(t)
  OBVIOUS
<1>3. PICK n \in Nat : n = Len(frames[t])
  BY <1>1, FramesAt
<1>4. UNCHANGED <<alive, base, parent, cache, family>>
  BY DEF Ensure
<1>5. CASE NeedsOwnCtx(c, new)
  <2>1. HasFreeCtx
    BY <1>2, <1>5 DEF Ensure
  <2>2. PICK d : d = FreeCtx
    OBVIOUS
  <2>3. PICK x : x = OwnCtx(d, c, Nothing)
    OBVIOUS
  <2>4. d \in Ctxs /\ ~Used(d) /\ Makes(d, x, CurrentAt(t, n))
    BY <1>1, <1>2, <1>3, <2>1, <2>2, <2>3, NewContexts
  <2>5. /\ ctxs' = [ctxs EXCEPT ![d] = x]
        /\ frames' = [frames EXCEPT ![t] = @ \o <<CtxFrame(d, body), ResolveFrame(d, root)>>]
    BY <1>2, <1>5, <2>2, <2>3 DEF Ensure
  <2>6. /\ Same(t, n) /\ Len(frames'[t]) = n + 2
        /\ frames'[t][n + 1] = CtxFrame(d, body) /\ frames'[t][n + 2] = ResolveFrame(d, root)
        /\ \A i \in 1..Len(frames'[t]) : i > n => i = n + 1 \/ i = n + 2
    <3>1. Pushed(t, Len(frames[t]), CtxFrame(d, body), ResolveFrame(d, root))
      BY <1>1, <2>4, <2>5, BothFrames
    <3>2. Pushed(t, n, CtxFrame(d, body), ResolveFrame(d, root))
      BY <1>3, <3>1
    <3> QED
      BY <3>2 DEF Pushed
  <2>7. frames'[t][n + 1].ctx = d /\ ~IsResolve(frames'[t][n + 1]) /\ Len(frames'[t]) > n
    BY <2>6 DEF CtxFrame, IsResolve
  <2>8. frames'[t][n + 2].phase = "lock" /\ ~Opens(frames'[t][n + 2])
    BY <2>6 DEF ResolveFrame, Resolution, Opens, IsCtx
  <2>9. \A i \in 1..Len(frames'[t]) : i > n + 1 => frames'[t][i].phase = "lock" /\ ~Opens(frames'[t][i])
    <3>1. \A i \in 1..Len(frames'[t]) : i > n + 1 => i = n + 2
      BY <2>6
    <3> QED
      BY <2>8, <3>1
  <2>10. x.inherits /\ frames[t] # <<>> => Opens(frames[t][n])
    BY <2>3 DEF OwnCtx
  <2> QED
    BY <1>3, <1>4, <2>4, <2>5, <2>6, <2>7, <2>9, <2>10, EnteredShares
<1>6. CASE ~NeedsOwnCtx(c, new)
  <2>1. n \in 0..Len(frames[t])
    BY <1>3
  <2>2. c \in Ctxs
    BY <1>1, <1>2, <1>3, <1>6, <2>1, CurrentOnTop, CurrentType DEF NeedsOwnCtx
  <2>3. UNCHANGED ctxs /\ frames' = [frames EXCEPT ![t] = Append(@, ResolveFrame(c, root))]
    BY <1>2, <1>6 DEF Ensure
  <2>4. PICK f \in Frames : f = ResolveFrame(c, root)
    BY <2>2, NewFrames
  <2>5. Same(t, n) /\ Len(frames'[t]) = n + 1 /\ frames'[t][n + 1] = f
    BY <1>1, <1>3, <2>3, <2>4, PushFrames
  <2>6. f.phase = "lock" /\ ~Opens(f)
    BY <2>4 DEF ResolveFrame, Resolution, Opens, IsCtx
  <2>7. Settled
    BY <1>4, <2>3, ContextsStay
  <2>8. Moves(t, n)
    BY <1>1, <1>3, <1>4, <2>5, <2>7, SpawnedBelow DEF Moves, Settled
  <2>9. \A i \in 1..Len(frames'[t]) : i > n => frames'[t][i] = f
    <3>1. \A i \in 1..Len(frames'[t]) : i > n => i = n + 1
      BY <2>5
    <3> QED
      BY <2>5, <3>1
  <2>10. \A i \in 1..Len(frames'[t]) : i > n => InsideAt(t, i)' /\ ~Builds(frames'[t][i])
    BY <2>6, <2>9 DEF InsideAt, Builds, Opens, IsCtx
  <2>11. \A i \in Nat : i > n => \A s \in Ctxs : ~Holds(t, i, s)'
    BY <2>6, <2>9 DEF Holds
  <2> QED
    BY <2>7, <2>8, <2>10, <2>11, MovesQuietly
<1> QED
  BY <1>5, <1>6

-----------------------------------------------------------------------------
\* Steps of a resolution

\* What is in no cache that may be read is not in the context's own, and overridden where it
\* is in one further out.
LEMMA NothingUsable ==
    ASSUME Typed, Nested, NEW c \in Ctxs, Used(c), NEW caches, NEW root, NEW k, Usable(caches, c, root, k) = {}
    PROVE  /\ k \notin DOMAIN caches[c]
           /\ \A i \in Inherited(c) : k \in DOMAIN caches[ctxs[c].chain[i]]
                                         => k \in OverriddenCalls(root, Introduced(c, i))
<1>1. ctxs[c].chain[1] = c
  BY DEF Nested, Chained
<1>2. \A i \in {1} \cup Inherited(c) :
         ~(/\ k \in DOMAIN caches[ctxs[c].chain[i]]
           /\ i > 1 => k \notin OverriddenCalls(root, Introduced(c, i)))
  BY DEF Usable
<1>3. \A i \in Inherited(c) : i > 1
  BY DEF Inherited, Typed
<1>4. PICK mine : mine = caches[ctxs[c].chain[1]]
  OBVIOUS
<1>5. k \notin DOMAIN mine
  BY <1>2, <1>4
<1>6. ASSUME NEW i \in Inherited(c), k \in DOMAIN caches[ctxs[c].chain[i]]
      PROVE  k \in OverriddenCalls(root, Introduced(c, i))
  BY <1>2, <1>3, <1>6
<1> QED
  BY <1>1, <1>4, <1>5, <1>6

\* A task that is in a lock keeps out everybody else.
LEMMA KeepsOut ==
    ASSUME Typed, Nested, Counted, Inside, Adopted, NEW t \in Tasks, NEW n \in 1..Len(frames[t]),
           IsResolve(frames[t][n]), NEW s, s = ctxs[frames[t][n].ctx].scope, MayEnter(s, t),
           NEW u \in Tasks, NEW i, Holds(u, i, s)
    PROVE  u = t
<1> SUFFICES ASSUME u # t
             PROVE  FALSE
  OBVIOUS
<1>1. s \in Ctxs /\ ~Under(base[t], s)
  BY NotUnderItself
<1>2. ~Under(base[u], s)
  BY NotUnderItself DEF Holds
<1>3. nest[s][u] \in Nat \ {0}
  BY <1>1, HeldCounts
<1>4. family[s][u] = family[s][t]
  <2>1. nest[s][u] > 0
    BY ONLY <1>3, SMT
  <2>2. \A w \in Tasks : nest[s][w] > 0 => family[s][w] = family[s][t]
    BY Zenon DEF MayEnter
  <2> QED
    BY ONLY <2>1, <2>2, u \in Tasks, Zenon
<1>5. family[s][t] # t \/ family[s][u] # u
  BY <1>4
<1> QED
  BY <1>1, <1>2, <1>5 DEF Adopted

\* A resolution enters the lock, or makes the next call.
LEMMA GoesOnShared ==
    ASSUME SInv, IInv', NEW t \in Tasks, NEW n, n = Len(frames[t]), frames[t] # <<>>, NEW f \in Frames, SetTop(t, f),
           IsResolve(Top(t)), IsResolve(f), f.ctx = Top(t).ctx, f.phase = "build" => Usable(cache', f.ctx, f.root, Head(f.todo)) = {},
           OneTask', StayMissing(t, n - 1), Below(t, n - 1),
           UNCHANGED <<alive, base, parent, ctxs, family>>
    PROVE  SInv'
<1>1. Typed /\ Nested /\ Typed' /\ Nested'
  BY DEF SInv, IInv
<1>2. n \in Nat /\ n - 1 \in Nat
  BY <1>1, TopFacts
<1>3. Same(t, n - 1) /\ Len(frames'[t]) = n /\ frames'[t][n] = f
  BY <1>1, SetTopFrames
<1>4. Stable /\ Begins
  BY DEF Stable, Begins, Used
<1>5. Moves(t, n - 1)
  BY <1>3, <1>4 DEF Moves
<1>6. \A i \in 1..Len(frames'[t]) : i > n - 1 => frames'[t][i] = f
  BY <1>2, <1>3
<1>7. ~Opens(f)
  BY DEF Opens, IsCtx, IsResolve
<1>8. ASSUME f.phase = "build"
      PROVE  MissingAbove(f)'
  <2>1. PICK c \in Ctxs : c = f.ctx
    BY FrameFacts
  <2>2. Used(c)
    BY <1>1, <2>1, TopScope
  <2>3. \A i \in Inherited(c) : Head(f.todo) \in DOMAIN cache'[ctxs[c].chain[i]]
                                   => Head(f.todo) \in OverriddenCalls(f.root, Introduced(c, i))
    BY <1>1, <1>8, <2>1, <2>2, NothingUsable
  <2>4. Inherited(c)' = Inherited(c) /\ \A i : Introduced(c, i)' = Introduced(c, i)
    BY DEF Inherited, Introduced
  <2> QED
    BY <2>1, <2>3, <2>4 DEF MissingAbove
<1>9. \A i \in 1..Len(frames'[t]) : i > n - 1 =>
         InsideAt(t, i)' /\ (Builds(frames'[t][i]) => MissingAbove(frames[t][i])')
  <2>1. MissingAbove(f)' => \A i \in 1..Len(frames'[t]) : frames'[t][i] = f => MissingAbove(frames[t][i])'
    BY DEF MissingAbove
  <2> QED
    BY <1>6, <1>7, <1>8, <2>1 DEF InsideAt, Builds, Opens, IsCtx
<1> QED
  BY <1>2, <1>5, <1>9, MovesKeep


\* What a resolution is when it has taken what it may take.
Took(f, c, root, todo, caches) ==
    /\ f \in ResolveFrames /\ f \in Frames /\ IsResolve(f) /\ f.ctx = c /\ f.root = root
    /\ f.phase # "lock" /\ Ready(f) /\ Range(f.todo) \subseteq Range(todo)
    /\ f.phase = "build" => Usable(caches, c, root, Head(f.todo)) = {}
LEMMA SettlesOn ==
    ASSUME Typed, Nested, NEW c \in Ctxs, Used(c), NEW root \in Calls, NEW todo \in Seq(Calls),
           NEW vals \in PartialMap(Calls, Value), NEW caches \in Caches,
           Prepared(Effective(c), todo, vals), NEW f, f = Settle(c, root, todo, vals, caches)
    PROVE  Took(f, c, root, todo, caches)
<1>1. LET r == Settle(c, root, todo, vals, caches)
      IN  /\ r \in ResolveFrames /\ r.ctx = c /\ r.root = root
          /\ r.phase # "lock" /\ Ready(r)
          /\ r.phase = "build" => Usable(caches, c, root, Head(r.todo)) = {}
          /\ Range(r.todo) \subseteq Range(todo)
  BY SettleFacts
<1> QED
  BY <1>1 DEF Took, Frames, ResolveFrames, IsResolve

\* The top frame of t becomes f, that has taken what it may take of todo.
Takes(t, f, todo) ==
    /\ f \in Frames /\ SetTop(t, f) /\ IsResolve(f) /\ f.ctx = Top(t).ctx /\ f.root = Top(t).root
    /\ f.phase # "lock" /\ Ready(f) /\ Range(f.todo) \subseteq Range(todo)
    /\ f.phase = "build" => Usable(cache', f.ctx, f.root, Head(f.todo)) = {}

\* What a task does when it enters the lock.
LEMMA EnterLockTakes ==
    ASSUME IInv, NEW t \in Tasks, EnterLock(t)
    PROVE  \E f : Takes(t, f, SolveOrder(Effective(Top(t).ctx), Top(t).root))
<1>1. frames[t] # <<>> /\ IsResolve(Top(t)) /\ cache' = cache
  BY DEF EnterLock, InPhase, OnTop, IsResolve
<1>2. Typed /\ Nested
  BY DEF IInv
<1>3. PICK n : n = Len(frames[t])
  OBVIOUS
<1>4. PICK c \in Ctxs : c = Top(t).ctx /\ Used(c)
  BY <1>1, <1>2, <1>3, TopScope
<1>5. PICK root \in Calls : root = Top(t).root
  <2>1. Top(t) \in ResolveFrames
    BY <1>1, <1>2, <1>3, TopScope
  <2> QED
    BY <2>1 DEF ResolveFrames
<1>6. PICK eff : eff = Effective(c)
  OBVIOUS
<1>7. PICK todo : todo = SolveOrder(eff, root)
  OBVIOUS
<1>8. eff \in [Calls -> Calls] /\ WellFounded(Calls, NeedsUnder(eff))
  BY <1>2, <1>6, EffectiveFacts
<1>9. todo \in Seq(Calls) /\ Prepared(eff, todo, Nothing)
  BY <1>7, <1>8, PreparedFirst
<1>10. Nothing \in PartialMap(Calls, Value) /\ cache \in Caches
  <2>1. Nothing \in PartialMap(Calls, Value)
    BY DEF Nothing, PartialMap
  <2> QED
    BY <1>2, <2>1 DEF Typed, Caches
<1>11. PICK f : f = Settle(c, root, todo, Nothing, cache)
  OBVIOUS
<1>12. Took(f, c, root, todo, cache)
  BY <1>2, <1>4, <1>5, <1>6, <1>9, <1>10, <1>11, SettlesOn
<1>13. SetTop(t, f)
  BY <1>4, <1>5, <1>6, <1>7, <1>11 DEF EnterLock
<1>14. Takes(t, f, todo)
  BY <1>1, <1>4, <1>5, <1>12, <1>13 DEF Takes, Took
<1> QED
  BY <1>4, <1>5, <1>6, <1>7, <1>14

\* A task enters the lock.
LEMMA EnterLockShares ==
    ASSUME SInv, IInv', NEW t \in Tasks, EnterLock(t)
    PROVE  SInv'
<1>1. /\ frames[t] # <<>> /\ IsResolve(Top(t)) /\ Top(t).phase = "lock"
      /\ UNCHANGED <<alive, base, parent, ctxs, cache, family>>
  BY DEF EnterLock, InPhase, OnTop, IsResolve
<1>2. IInv /\ Typed /\ Nested /\ Counted /\ Inside /\ Adopted /\ OneTask /\ Typed' /\ Nested'
  BY DEF SInv, IInv
<1>3. PICK n : n = Len(frames[t])
  OBVIOUS
<1>4. n \in 1..Len(frames[t]) /\ Top(t) = frames[t][n] /\ n \in Nat /\ n - 1 \in Nat
  BY <1>1, <1>2, <1>3, TopFacts
<1>5. PICK c \in Ctxs : c = Top(t).ctx /\ Used(c)
  BY <1>1, <1>2, <1>3, TopScope
<1>6. PICK f : Takes(t, f, SolveOrder(Effective(Top(t).ctx), Top(t).root))
  BY <1>2, EnterLockTakes
<1>7. /\ SetTop(t, f) /\ f.ctx = Top(t).ctx /\ f.phase # "lock" /\ Ready(f)
      /\ f.phase = "build" => Usable(cache', f.ctx, f.root, Head(f.todo)) = {}
  BY <1>6 DEF Takes
<1>8. f \in Frames /\ IsResolve(f)
  BY <1>6 DEF Takes
<1>9. MayEnter(Scope(t), t)
  BY DEF EnterLock
<1>10. Below(t, n - 1)
  BY <1>1, <1>2, <1>3, <1>4, SpawnedBelow DEF Firm, Opens, IsCtx, IsResolve
<1>11. /\ Same(t, n - 1) /\ Stable
       /\ \A s : Holds(t, n, s)' <=> s = Scope(t)
       /\ \A i \in Nat : i > n => \A s : ~Holds(t, i, s)'
  BY <1>1, <1>2, <1>3, <1>5, <1>7, <1>8, <1>10, ResolutionMoves
<1>12. ASSUME NEW u \in Tasks, NEW i \in Nat, NEW s \in Ctxs, Holds(u, i, s)'
       PROVE  Holds(u, i, s) \/ (u = t /\ s = Scope(t))
  <2>1. CASE u # t \/ i <= n - 1
    BY <1>2, <1>4, <1>11, <1>12, <2>1, HoldsStay
  <2>2. CASE u = t /\ i >= n
    <3>1. i = n \/ i > n
      BY <1>4, <2>2
    <3> QED
      BY <1>11, <1>12, <2>2, <3>1
  <2> QED
    BY <1>4, <2>1, <2>2
<1>13. ASSUME NEW u \in Tasks, NEW i \in Nat, Holds(u, i, Scope(t))
       PROVE  u = t
  <2>1. PICK s : s = Scope(t)
    OBVIOUS
  <2>2. IsResolve(frames[t][n]) /\ s = ctxs[frames[t][n].ctx].scope /\ MayEnter(s, t) /\ Holds(u, i, s)
    BY <1>1, <1>4, <1>9, <1>13, <2>1 DEF Scope
  <2> QED
    BY <1>2, <1>4, <2>2, KeepsOut, ZenonT(30)
<1>14. OneTask'
  <2> SUFFICES ASSUME NEW s \in Ctxs, NEW u \in Tasks, NEW v \in Tasks, NEW i \in Nat, NEW j \in Nat,
                      Holds(u, i, s)', Holds(v, j, s)'
               PROVE  u = v
    BY DEF OneTask
  <2>1. /\ Holds(u, i, s) \/ (u = t /\ s = Scope(t))
        /\ Holds(v, j, s) \/ (v = t /\ s = Scope(t))
    BY <1>12
  <2> QED
    BY <1>2, <1>13, <2>1 DEF OneTask
<1>15. StayMissing(t, n - 1)
  BY <1>1 DEF StayMissing, KeepsMissing
<1> QED
  BY <1>1, <1>3, <1>5, <1>7, <1>8, <1>9, <1>10, <1>14, <1>15, GoesOnShared

\* Who builds in a context keeps others from building there, or further out under the same lock.
LEMMA BuildsAlone ==
    ASSUME SInv, NEW t \in Tasks, NEW n \in 1..Len(frames[t]), Builds(frames[t][n]),
           NEW u \in Tasks, NEW i \in 1..Len(frames[u]), Builds(frames[u][i]), u # t \/ i < n,
           NEW c, c = frames[u][i].ctx, NEW j \in {1} \cup Inherited(c), ctxs[c].chain[j] = frames[t][n].ctx
    PROVE  u = t /\ j = 1 /\ c = frames[t][n].ctx
<1>1. Typed /\ Nested /\ Inside /\ OneTask /\ Linked
  BY DEF SInv, IInv
<1>2. n \in Nat /\ i \in Nat
  BY <1>1, FramesAt
<1>3. c \in Ctxs /\ Used(c) /\ IsResolve(frames[t][n])
  BY <1>1, ResolveCtx DEF Builds
<1>4. ctxs[ctxs[c].chain[j]].scope = ctxs[c].scope
  BY <1>3, <1>1 DEF Nested, Chained
<1>5. PICK s \in Ctxs : s = ctxs[c].scope
  BY <1>1, NotUnderItself DEF Builds
<1>6. Holds(u, i, s) /\ Holds(t, n, s)
  BY <1>4, <1>5 DEF Holds, Builds
<1>7. u = t
  BY <1>1, <1>2, <1>6 DEF OneTask
<1>8. frames[t][n].ctx = c
  <2>1. Holds(t, i, s) /\ i < n
    BY <1>2, <1>6, <1>7
  <2>2. ctxs[frames[t][n].ctx].scope = s
    BY <1>4, <1>5
  <2>3. frames[t][n].ctx = frames[t][i].ctx
    BY <1>1, <1>2, <1>3, <1>5, <2>1, <2>2, SameLock
  <2> QED
    BY <1>7, <2>3
<1>9. j = 1 \/ j \in 2..Len(ctxs[c].chain)
  BY DEF Inherited
<1> QED
  BY <1>1, <1>3, <1>7, <1>8, <1>9, ChainsNest

\* What a task does when the body of a factory is done, and what it caches.
LEMMA BuildTakes ==
    ASSUME IInv, IInv', NEW t \in Tasks, Build(t)
    PROVE  /\ \E f : Takes(t, f, Top(t).todo)
           /\ \A d \in Ctxs : \A x \in DOMAIN cache'[d] :
                 x \in DOMAIN cache[d] \/ (d = Top(t).ctx /\ x = Head(Top(t).todo))
<1>1. frames[t] # <<>> /\ IsResolve(Top(t)) /\ Top(t).phase = "build" /\ InPhase(t, "build")
  BY DEF Build, InPhase, OnTop, IsResolve
<1>2. IInv /\ Typed /\ Nested /\ InOrder /\ Typed' /\ Nested'
  BY DEF IInv
<1>3. PICK n : n = Len(frames[t])
  OBVIOUS
<1>4. n \in 1..Len(frames[t]) /\ Top(t) = frames[t][n]
  BY <1>1, <1>2, <1>3, TopFacts
<1>5. PICK c \in Ctxs : c = Top(t).ctx /\ Used(c)
  BY <1>1, <1>2, <1>3, TopScope
<1>6. Top(t) \in ResolveFrames
  BY <1>1, <1>2, <1>3, TopScope
<1>7. PICK root \in Calls : root = Top(t).root
  BY <1>6 DEF ResolveFrames
<1>8. PICK todo \in Seq(Calls) : todo = Top(t).todo
  BY <1>6 DEF ResolveFrames
<1>9. PICK vals \in PartialMap(Calls, Value) : vals = Top(t).vals
  BY <1>6 DEF ResolveFrames
<1>10. todo # <<>> /\ Prepared(Effective(c), todo, vals)
  BY <1>1, <1>2, <1>4, <1>5, <1>8, <1>9 DEF InOrder, Ready
<1>11. PICK k \in Calls : k = Head(todo)
  BY <1>1, <1>2, <1>8, BuiltFacts
<1>12. PICK b \in Value : b = Built(t)
  BY <1>1, <1>2, BuiltFacts
<1>13. PICK new : new = [d \in {k} |-> b]
  OBVIOUS
<1>14. new \in PartialMap(Calls, Value) /\ DOMAIN new = {k}
  BY <1>13, MapFacts
<1>15. PICK filled : filled = IF Usable(cache, c, root, k) = {}
                              THEN [cache EXCEPT ![c] = Overlay(new, cache[c])] ELSE cache
  OBVIOUS
<1>16. PICK got : got = Overlay(new, vals)
  OBVIOUS
<1>17. PICK rest : rest = Tail(todo)
  OBVIOUS
<1>18. PICK f : f = Settle(c, root, rest, got, filled)
  OBVIOUS
<1>19. cache' = filled /\ SetTop(t, f)
  BY <1>5, <1>7, <1>8, <1>9, <1>11, <1>12, <1>13, <1>15, <1>16, <1>17, <1>18 DEF Build
<1>20. filled \in Caches /\ \A d \in Ctxs : d # c => filled[d] = cache[d]
  <2>1. cache \in Caches
    BY <1>2 DEF Typed, Caches
  <2>2. cache' \in Caches
    BY <1>2 DEF Typed, Caches
  <2> QED
    BY <1>15, <1>19, <2>1, <2>2 DEF Caches
<1>21. got \in PartialMap(Calls, Value)
  BY ONLY <1>14, <1>16, vals \in PartialMap(Calls, Value), OverlayMap
<1>22. rest \in Seq(Calls) /\ Prepared(Effective(c), rest, got) /\ Range(rest) \subseteq Range(todo)
  <2>1. DOMAIN new = {Head(todo)}
    BY <1>11, <1>14
  <2> QED
    BY <1>10, <1>16, <1>17, <2>1, PreparedTail
<1>23. Took(f, c, root, rest, filled)
  BY <1>2, <1>5, <1>18, <1>20, <1>21, <1>22, SettlesOn
<1>24. Takes(t, f, Top(t).todo)
  BY <1>5, <1>7, <1>8, <1>19, <1>22, <1>23 DEF Takes, Took
<1>25. DOMAIN Overlay(new, cache[c]) = {k} \cup DOMAIN cache[c]
  BY <1>14 DEF Overlay
<1>26. ASSUME NEW d \in Ctxs, NEW x \in DOMAIN cache'[d]
       PROVE  x \in DOMAIN cache[d] \/ (d = c /\ x = k)
  <2>1. CASE cache' = cache
    BY <2>1
  <2>2. CASE d # c
    BY <1>19, <1>20, <2>2
  <2>3. CASE d = c /\ cache' # cache
    <3>1. cache'[c] = Overlay(new, cache[c])
      BY <1>2, <1>15, <1>19, <2>3 DEF Typed
    <3> QED
      BY <1>25, <2>3, <3>1
  <2> QED
    BY <2>1, <2>2, <2>3
<1> QED
  BY <1>5, <1>8, <1>11, <1>24, <1>26

\* The body of a factory is done.
LEMMA BuildShares ==
    ASSUME SInv, IInv', NEW t \in Tasks, Build(t)
    PROVE  SInv'
<1>1. /\ frames[t] # <<>> /\ IsResolve(Top(t)) /\ Top(t).phase = "build" /\ InPhase(t, "build") /\ Joined(t)
      /\ UNCHANGED <<alive, base, parent, ctxs, family>>
  BY DEF Build, InPhase, OnTop, IsResolve
<1>2. IInv /\ Typed /\ Nested /\ InOrder /\ OneTask /\ Typed' /\ Nested'
  BY DEF SInv, IInv
<1>3. PICK n : n = Len(frames[t])
  OBVIOUS
<1>4. n \in 1..Len(frames[t]) /\ Top(t) = frames[t][n] /\ n \in Nat /\ n - 1 \in Nat
  BY <1>1, <1>2, <1>3, TopFacts
<1>5. PICK c \in Ctxs : c = Top(t).ctx /\ Used(c)
  BY <1>1, <1>2, <1>3, TopScope
<1>6. /\ \E f : Takes(t, f, Top(t).todo)
      /\ \A d \in Ctxs : \A x \in DOMAIN cache'[d] :
            x \in DOMAIN cache[d] \/ (d = Top(t).ctx /\ x = Head(Top(t).todo))
  BY <1>2, BuildTakes
<1>7. PICK f : Takes(t, f, Top(t).todo)
  BY <1>6
<1>8. /\ SetTop(t, f) /\ f \in Frames /\ IsResolve(f) /\ f.ctx = Top(t).ctx /\ f.phase # "lock" /\ Ready(f)
      /\ f.phase = "build" => Usable(cache', f.ctx, f.root, Head(f.todo)) = {}
  BY <1>7 DEF Takes
<1>9. Below(t, n - 1)
  BY <1>1, <1>2, <1>3, SpawnedBelow
<1>10. /\ Same(t, n - 1) /\ Stable
       /\ \A s : Holds(t, n, s)' <=> s = Scope(t)
       /\ \A i \in Nat : i > n => \A s : ~Holds(t, i, s)'
  BY <1>1, <1>2, <1>3, <1>8, <1>9, ResolutionMoves
<1>11. \A i \in Nat : i > n - 1 => \A s \in Ctxs : Holds(t, i, s)' => Holds(t, i, s)
  <2>1. \A s : Holds(t, n, s) <=> s = Scope(t)
    BY <1>1, <1>2, <1>3, TopScope
  <2>2. \A i \in Nat : i > n - 1 => i = n \/ i > n
    BY <1>4
  <2> QED
    BY <1>10, <2>1, <2>2
<1>12. OneTask'
  <2>1. Moves(t, n - 1)
    BY <1>1, <1>9, <1>10 DEF Moves, Begins, Used
  <2> QED
    BY <1>2, <1>4, <1>11, <2>1, StepOneTask
<1>13. StayMissing(t, n - 1)
  <2> SUFFICES ASSUME NEW u \in Tasks, NEW i \in 1..Len(frames[u]), u # t \/ i <= n - 1, Builds(frames[u][i])
               PROVE  KeepsMissing(frames[u][i])
    BY DEF StayMissing
  <2>1. PICK e : e = frames[u][i].ctx
    OBVIOUS
  <2>2. i \in Nat /\ (u # t \/ i < n) /\ Builds(frames[t][n])
    BY <1>1, <1>2, <1>4, FramesAt DEF Builds
  <2>3. ASSUME NEW j \in Inherited(e), ctxs[e].chain[j] = c
        PROVE  FALSE
    <3>1. j # 1
      <4>1. e \in Ctxs
        BY <1>2, <2>1, ResolveCtx DEF Builds
      <4>2. Len(ctxs[e].chain) \in Nat
        BY <1>2, <4>1 DEF Typed, Contexts
      <4> QED
        BY ONLY <2>3, <4>2 DEF Inherited
    <3> QED
      <4>1. ctxs[e].chain[j] = frames[t][n].ctx /\ j \in {1} \cup Inherited(e)
        BY <1>4, <1>5, <2>3
      <4>2. j = 1
        BY <1>4, <2>1, <2>2, <4>1, BuildsAlone
      <4> QED
        BY <3>1, <4>2
  <2> QED
    BY <1>5, <1>6, <2>1, <2>3 DEF KeepsMissing
<1> QED
  BY <1>1, <1>3, <1>8, <1>9, <1>12, <1>13, GoesOnShared

-----------------------------------------------------------------------------
\* Steps of tasks

\* What is not cached stays so while nothing is cached.
LEMMA UntakenStays ==
    ASSUME Untaken, UNCHANGED <<frames, ctxs, cache>>
    PROVE  Untaken'
<1> SUFFICES ASSUME NEW t \in Tasks, NEW i \in 1..Len(frames[t]), Builds(frames[t][i])
             PROVE  MissingAbove(frames[t][i])'
  BY DEF Untaken, Builds, IsResolve
<1>1. PICK f : f = frames[t][i]
  OBVIOUS
<1>2. MissingAbove(f)
  BY <1>1 DEF Untaken
<1>3. Inherited(f.ctx)' = Inherited(f.ctx) /\ \A j : Introduced(f.ctx, j)' = Introduced(f.ctx, j)
  BY DEF Inherited, Introduced
<1>4. MissingAbove(f)'
  BY <1>2, <1>3 DEF MissingAbove
<1> QED
  BY <1>1, <1>4 DEF MissingAbove

\* A task without frames changes: what the others are in stays as it is.
LEMMA OutsideShares ==
    ASSUME SInv, IInv', UNCHANGED <<frames, ctxs, cache>>, NEW t \in Tasks, frames[t] = <<>>,
           \A u \in Tasks : u # t => base'[u] = base[u]
    PROVE  Linked' /\ Inside' /\ OneTask' /\ Innermost' /\ Untaken'
<1>1. Linked' /\ Innermost'
  BY DEF SInv, Linked, LinkedAt, Innermost, Used
<1>2. Inside'
  <2> SUFFICES ASSUME NEW u \in Tasks, NEW i \in 1..Len(frames[u])
               PROVE  InsideAt(u, i)'
    BY DEF Inside
  <2>1. u # t
    BY EmptySeq
  <2>2. InsideAt(u, i) /\ base'[u] = base[u]
    BY <2>1 DEF SInv, Inside
  <2> QED
    BY <2>2 DEF InsideAt, Under, Holds, Opens, IsCtx, IsResolve
<1>3. OneTask'
  BY DEF SInv, OneTask, Holds, IsResolve
<1>4. Untaken'
  BY UntakenStays DEF SInv
<1> QED
  BY <1>1, <1>2, <1>3, <1>4

\* Nothing that matters here happens.
LEMMA StillShares ==
    ASSUME SInv, IInv', UNCHANGED <<alive, frames, base, parent, ctxs, cache, family>>
    PROVE  SInv'
<1>1. Linked' /\ Innermost'
  BY DEF SInv, Linked, LinkedAt, Innermost, Used
<1>2. Inside'
  <2>1. \A c, s : Under(c, s)' <=> Under(c, s)
    BY DEF Under
  <2>2. \A t, j, s : Holds(t, j, s)' <=> Holds(t, j, s)
    BY DEF Holds, IsResolve
  <2>3. \A t \in Tasks : \A i \in 1..Len(frames[t]) : InsideAt(t, i)'
    BY <2>1, <2>2 DEF SInv, Inside, InsideAt, Opens, IsCtx
  <2> QED
    BY <2>3 DEF Inside
<1>3. Adopted'
  BY DEF SInv, Adopted, Under
<1>4. OneTask'
  BY DEF SInv, OneTask, Holds, IsResolve
<1>5. FromBlocks' /\ Youngest'
  BY DEF SInv, FromBlocks, Youngest, Opens, IsCtx
<1>6. Untaken'
  BY UntakenStays DEF SInv
<1> QED
  BY <1>1, <1>2, <1>3, <1>4, <1>5, <1>6 DEF SInv

\* Who waits for a task is a task that runs.
LEMMA ParentRuns ==
    ASSUME Typed, Nested, NEW t \in alive
    PROVE  parent[t].task = NoCtx \/ parent[t].task \in alive
BY DEF Nested, Families, Placed

\* The task of a request starts.
LEMMA StartShares ==
    ASSUME SInv, IInv', NEW t \in Tasks, Start(t)
    PROVE  SInv'
<1>1. Typed /\ Nested
  BY DEF SInv, IInv
<1>2. alive = {} /\ alive' = {t} /\ UNCHANGED <<frames, base, parent, ctxs, cache, family>>
  BY DEF Start
<1>3. frames[t] = <<>> /\ parent[t].task = NoCtx /\ t # NoCtx
  BY <1>1, <1>2, InjectionAssumption DEF Nested, Families
<1>4. Linked' /\ Inside' /\ OneTask' /\ Innermost' /\ Untaken'
  BY <1>2, <1>3, OutsideShares
<1>5. Adopted'
  BY <1>2 DEF SInv, Adopted, Under
<1>6. FromBlocks' /\ Youngest'
  BY <1>2, <1>3 DEF FromBlocks, Youngest
<1> QED
  BY <1>4, <1>5, <1>6 DEF SInv

\* Application code that is inside of a lock, be it its task's or that of a task further up,
\* runs in a context inside of it.
LEMMA AppUnder ==
    ASSUME SInv, NEW t \in Tasks, InApp(t), NEW s \in Ctxs, Owns(s, t)
    PROVE  Under(Current(t), s)
<1>1. Typed /\ Nested /\ Counted /\ Inside /\ Adopted
  BY DEF SInv, IInv
<1>2. PICK n \in Nat : n = Len(frames[t])
  BY <1>1, FramesAt
<1>3. Current(t) = CurrentAt(t, n) /\ n \in 0..Len(frames[t])
  BY <1>2, CurrentOnTop
<1>4. PICK v \in Tasks : nest[s][v] > 0 /\ family[s][v] = family[s][t]
  BY DEF Owns
<1>5. Holding(v, s) # {}
  <2>1. nest[s][v] # 0
    BY <1>4
  <2> QED
    BY <1>1, <2>1, FS_EmptySet DEF Counted
<1>6. PICK i \in Nat : Holds(v, i, s)
  BY <1>1, <1>5, FramesAt DEF Holding
<1>7. CASE v = t
  <2>1. i \in 1..Len(frames[t])
    BY <1>6, <1>7 DEF Holds
  <2>2. n \in i..Len(frames[t]) /\ n \in i..n /\ frames[t] # <<>>
    BY <1>1, <1>2, <2>1, FramesAt
  <2>3. Opens(frames[t][n])
    BY <1>1, <1>2, <2>2, TopFacts DEF InApp, OnTop, Opens, IsCtx
  <2> QED
    BY <1>1, <1>3, <1>6, <1>7, <2>2, <2>3, HolderAround
<1>8. CASE v # t
  <2>1. ~Under(base[v], s)
    BY <1>1, <1>6, NotUnderItself DEF Holds
  <2>2. family[s][v] = v
    BY <1>1, <2>1 DEF Adopted
  <2>3. Under(base[t], s)
    BY <1>1, <1>4, <1>8, <2>2 DEF Adopted
  <2> QED
    BY <1>1, <1>3, <2>3, BaseAround
<1> QED
  BY <1>7, <1>8

\* A task is spawned by application code.
LEMMA SpawnShares ==
    ASSUME ~FanOut, SInv, IInv', NEW t \in Tasks, NEW u \in Tasks, Spawn(t, u)
    PROVE  SInv'
<1>1. Typed /\ Nested /\ Adopted /\ FromBlocks /\ Youngest
  BY DEF SInv, IInv
<1>2. PICK n \in Nat : n = Len(frames[t])
  BY <1>1, FramesAt
<1>3. PICK c : c = Current(t)
  OBVIOUS
<1>4. /\ InApp(t) /\ u \notin alive /\ alive' = alive \cup {u} /\ UNCHANGED <<frames, ctxs, cache>>
      /\ base' = [base EXCEPT ![u] = c] /\ parent' = [parent EXCEPT ![u] = [task |-> t, at |-> n]]
      /\ family' = [s \in Ctxs |-> IF Owns(s, t) THEN [family[s] EXCEPT ![u] = family[s][t]] ELSE family[s]]
  BY <1>2, <1>3 DEF Spawn
<1>5. t \in alive /\ t # u /\ u # NoCtx
  BY <1>4, InjectionAssumption DEF InApp
<1>6. frames[u] = <<>> /\ base[u] = NoCtx
  BY <1>1, <1>4 DEF Nested, Families
<1>7. /\ base'[u] = c /\ \A v \in Tasks : v # u => base'[v] = base[v]
      /\ parent'[u] = [task |-> t, at |-> n] /\ \A v \in Tasks : v # u => parent'[v] = parent[v]
  BY <1>1, <1>4 DEF Typed
<1>8. Linked' /\ Inside' /\ OneTask' /\ Innermost' /\ Untaken'
  BY <1>4, <1>6, <1>7, OutsideShares
<1>9. Adopted'
  <2> SUFFICES ASSUME NEW s \in Ctxs, NEW v \in Tasks, family'[s][v] # v
               PROVE  Under(base[v], s)'
    BY DEF Adopted
  <2>1. \A d : Under(d, s)' <=> Under(d, s)
    BY <1>4 DEF Under
  <2>2. CASE v # u \/ ~Owns(s, t)
    <3>1. family'[s][v] = family[s][v]
      BY <1>1, <1>4, <2>2 DEF Typed
    <3>2. Under(base[v], s)
      BY <1>1, <3>1 DEF Adopted
    <3>3. v # u
      BY <1>6, <3>2, InjectionAssumption DEF Under
    <3> QED
      BY <1>7, <2>1, <3>2, <3>3 DEF Under
  <2>3. CASE v = u /\ Owns(s, t)
    <3>1. Under(c, s)
      BY <1>3, <1>4, <2>3, AppUnder
    <3> QED
      BY <1>7, <2>1, <2>3, <3>1 DEF Under
  <2> QED
    BY <2>2, <2>3
<1>10. \A v \in alive : v # u /\ parent[v].task # u
  BY <1>1, <1>4, <1>5, ParentRuns
<1>11. FromBlocks'
  <2> SUFFICES ASSUME NEW w \in alive', parent'[w].task \in alive', parent'[w].at > 0
               PROVE  Opens(frames[parent'[w].task][parent'[w].at])
    BY <1>4 DEF FromBlocks, Opens, IsCtx
  <2>1. CASE w = u
    <3>1. parent'[w].task = t /\ parent'[w].at = n /\ n > 0
      BY <1>7, <2>1
    <3>2. frames[t] # <<>>
      BY <1>1, <1>2, <3>1, FramesAt
    <3>3. Opens(frames[t][n])
      BY <1>1, <1>2, <1>4, <3>2, TopFacts DEF InApp, OnTop, Opens, IsCtx
    <3> QED
      BY <3>1, <3>3
  <2>2. CASE w # u
    <3>1. w \in alive /\ w \in Tasks
      BY <1>1, <1>4, <2>2 DEF Typed
    <3>2. parent'[w] = parent[w] /\ parent[w].task \in alive
      BY <1>4, <1>7, <1>10, <2>2, <3>1
    <3> QED
      BY <1>1, <3>1, <3>2 DEF FromBlocks
  <2> QED
    BY <2>1, <2>2
<1>12. Youngest'
  <2> SUFFICES ASSUME NEW S \in SUBSET (alive \cup {u}), S # {}
               PROVE  \E x \in S : \A v \in S : parent'[v].task # x
    BY <1>4 DEF Youngest
  <2>1. CASE u \in S
    <3>1. ASSUME NEW v \in S
          PROVE  parent'[v].task # u
      <4>1. CASE v = u
        BY <1>5, <1>7, <4>1
      <4>2. CASE v # u
        BY <1>1, <1>7, <1>10, <4>2 DEF Typed
      <4> QED
        BY <4>1, <4>2
    <3> QED
      BY <2>1, <3>1
  <2>2. CASE u \notin S
    <3>1. PICK x \in S : \A v \in S : parent[v].task # x
      BY <1>1, <2>2 DEF Youngest
    <3>2. \A v \in S : parent'[v] = parent[v]
      BY <1>1, <1>7, <2>2 DEF Typed
    <3> QED
      BY <3>1, <3>2
  <2> QED
    BY <2>1, <2>2
<1> QED
  BY <1>8, <1>9, <1>11, <1>12 DEF SInv

\* A task is done.
LEMMA EndShares ==
    ASSUME SInv, IInv', NEW t \in Tasks, End(t)
    PROVE  SInv'
<1>1. Typed /\ Nested /\ Adopted /\ FromBlocks /\ Youngest
  BY DEF SInv, IInv
<1>2. /\ alive' = alive \ {t} /\ frames[t] = <<>> /\ UNCHANGED <<frames, ctxs, cache>>
      /\ base' = [base EXCEPT ![t] = NoCtx] /\ parent' = [parent EXCEPT ![t] = NoParent]
      /\ family' = [s \in Ctxs |-> [family[s] EXCEPT ![t] = t]]
  BY DEF End
<1>3. \A v \in Tasks : v # t => base'[v] = base[v] /\ parent'[v] = parent[v]
  BY <1>1, <1>2 DEF Typed
<1>4. Linked' /\ Inside' /\ OneTask' /\ Innermost' /\ Untaken'
  BY <1>2, <1>3, OutsideShares
<1>5. Adopted'
  <2> SUFFICES ASSUME NEW s \in Ctxs, NEW v \in Tasks, family'[s][v] # v
               PROVE  Under(base[v], s)'
    BY DEF Adopted
  <2>1. v # t /\ family'[s][v] = family[s][v]
    BY <1>1, <1>2 DEF Typed
  <2>2. Under(base[v], s) /\ base'[v] = base[v]
    BY <1>1, <1>3, <2>1 DEF Adopted
  <2> QED
    BY <1>2, <2>2 DEF Under
<1>6. \A v \in alive' : v \in alive /\ parent'[v] = parent[v]
  BY <1>1, <1>2, <1>3 DEF Typed
<1>7. FromBlocks'
  BY <1>1, <1>2, <1>6 DEF FromBlocks, Opens, IsCtx
<1>8. Youngest'
  <2> SUFFICES ASSUME NEW S \in SUBSET alive', S # {}
               PROVE  \E x \in S : \A v \in S : parent'[v].task # x
    BY DEF Youngest
  <2>1. S \in SUBSET alive
    BY <1>6
  <2>2. PICK x \in S : \A v \in S : parent[v].task # x
    BY <1>1, <2>1 DEF Youngest
  <2> QED
    BY <1>6, <2>2
<1> QED
  BY <1>4, <1>5, <1>7, <1>8 DEF SInv

-----------------------------------------------------------------------------
\* Theorems

\* At first there is nothing.
LEMMA InitShares == Init => SInv
<1> SUFFICES ASSUME Init
             PROVE  SInv
  OBVIOUS
<1>1. IInv
  BY InitHolds
<1>2. \A c \in Ctxs : ~Used(c)
  BY DEF Init, Used
<1>3. \A t \in Tasks : \A i : i \in 1..Len(frames[t]) => FALSE
  <2>1. \A t \in Tasks : frames[t] = <<>>
    BY DEF Init
  <2>2. Len(<<>>) = 0 /\ \A i \in 1..0 : FALSE
    BY EmptySeq
  <2> QED
    BY <2>1, <2>2
<1>4. Linked /\ Innermost
  BY <1>2 DEF Linked, Innermost
<1>5. Inside /\ OneTask /\ Untaken
  BY <1>3 DEF Inside, OneTask, Untaken, Holds
<1>6. Adopted
  BY DEF Adopted, Init
<1>7. FromBlocks /\ Youngest
  BY DEF FromBlocks, Youngest, Init
<1> QED
  BY <1>1, <1>4, <1>5, <1>6, <1>7 DEF SInv

\* Every step keeps the locks to one task at a time.
LEMMA StepShares ==
    ASSUME ~FanOut
    PROVE  SInv /\ [Next]_vars => SInv'
<1> SUFFICES ASSUME SInv, [Next]_vars
             PROVE  SInv'
  OBVIOUS
<1>1. IInv'
  BY StepHolds DEF SInv
<1>2. ASSUME NEW t \in Tasks, NEW o \in Overrides, OpenCtx(t, o) \/ PushOverrides(t, o)
      PROVE  SInv'
  BY <1>1, <1>2, OpenShares
<1>3. ASSUME NEW t \in Tasks, NEW root \in Calls, NEW new \in BOOLEAN,
             CallResolve(t, root, new) \/ CallInjected(t, root, new)
      PROVE  SInv'
  BY <1>1, <1>3, EnsureShares DEF CallResolve, CallInjected
<1>4. ASSUME NEW t \in Tasks, EnterLock(t) \/ Build(t)
      PROVE  SInv'
  BY <1>1, <1>4, EnterLockShares, BuildShares
<1>5. ASSUME NEW t \in Tasks,
             Return(t) \/ Fail(t) \/ Abandon(t) \/ LeaveOverrides(t) \/ LeaveCtx(t) \/ Closed(t)
      PROVE  SInv'
  BY <1>1, <1>5, EndsShare, LeaveCtxShares
<1>6. ASSUME NEW t \in Tasks, Start(t) \/ End(t) \/ \E u \in Tasks : Spawn(t, u)
      PROVE  SInv'
  BY <1>1, <1>6, StartShares, EndShares, SpawnShares
<1>7. CASE UNCHANGED vars \/ \E t \in Tasks : Teardown(t)
  <2>1. UNCHANGED <<alive, frames, base, parent, ctxs, cache, family>>
    BY <1>7 DEF vars, tasks, Teardown
  <2> QED
    BY <1>1, <2>1, StillShares
<1> QED
  BY <1>2, <1>3, <1>4, <1>5, <1>6, <1>7 DEF Next


\* What a context around the override blocks has, and none of them touches, is not built
\* again, also not while that context is at work in another task, when no factory spawns
\* tasks (ctx.py, cache_for() and override(): one lock for a context and its copies).
THEOREM OuterReused ==
    ASSUME ~FanOut
    PROVE  Spec => []ReusesOuter
<1>1. ASSUME SInv
      PROVE  ReusesOuter
  <2>1. Typed /\ Nested /\ Untaken /\ InOrder
    BY <1>1 DEF SInv, IInv
  <2> SUFFICES ASSUME NEW r \in Building, NEW chain, chain = ctxs[Frame(r).ctx].chain,
                      NEW i \in 2..Len(chain), \A j \in 1..(i - 1) : ctxs[chain[j]].inherits,
                      Key(r) \in DOMAIN cache[chain[i]]
               PROVE  \E j \in 1..(i - 1) : Reach[Key(r)] \cap DOMAIN ctxs[chain[j]].own # {}
    BY DEF ReusesOuter
  <2>2. PICK t \in Tasks, m \in Nat : m \in 1..Len(frames[t]) /\ Frame(r) = frames[t][m] /\ IsResolve(frames[t][m])
    BY <2>1, ResolvingFacts, FramesAt DEF Building
  <2>3. PICK f : f = Frame(r)
    OBVIOUS
  <2>4. MissingAbove(f)
    BY <2>1, <2>2, <2>3 DEF Untaken, Builds, Building
  <2>5. i \in Inherited(f.ctx) /\ ctxs[f.ctx].chain[i] = chain[i]
    BY <2>3 DEF Inherited
  <2>6. Head(f.todo) \in OverriddenCalls(f.root, Introduced(f.ctx, i))
    BY <2>3, <2>4, <2>5 DEF MissingAbove, Key
  <2>7. Reach[Head(f.todo)] \cap Introduced(f.ctx, i) # {}
    BY <2>6 DEF OverriddenCalls
  <2>8. Introduced(f.ctx, i) = UNION {DOMAIN ctxs[chain[j]].own : j \in 1..(i - 1)}
    BY <2>3 DEF Introduced
  <2> QED
    BY <2>3, <2>7, <2>8, ZenonT(30) DEF Key
<1>2. SInv /\ [Next]_vars => SInv'
  BY StepShares
<1> QED
  BY <1>1, <1>2, InitShares, PTL DEF Spec

-----------------------------------------------------------------------------
\* Who waits for whom

\* t waits for a lock that u is in.
WaitsForLock(t, u) == InPhase(t, "lock") /\ ~MayEnter(Scope(t), t) /\ nest[Scope(t)][u] > 0
\* t waits for u to end.
WaitsForTask(t, u) == u \in alive /\ parent[u] = [task |-> t, at |-> Len(frames[t])]

\* The lock that t waits for is taken by another task.
LEMMA WaitsForHolder ==
    ASSUME SInv, NEW t \in Tasks, NEW u \in Tasks, WaitsForLock(t, u)
    PROVE  /\ t \in alive /\ u # t /\ Scope(t) \in Ctxs /\ Used(Scope(t))
           /\ \E n \in Nat : /\ n = Len(frames[t]) /\ n - 1 \in 0..n /\ Top(t) = frames[t][n]
                             /\ n \in 1..Len(frames[t]) /\ IsResolve(frames[t][n])
                             /\ Top(t).ctx = CurrentAt(t, n - 1) /\ Top(t).ctx \in Ctxs
                             /\ Top(t).phase = "lock"
           /\ \E i \in Nat : Holds(u, i, Scope(t))
           /\ \A i \in Nat : ~Holds(t, i, Scope(t))
<1>1. Typed /\ Nested /\ Counted /\ OneTask
  BY DEF SInv, IInv
<1>2. frames[t] # <<>> /\ IsResolve(Top(t)) /\ Top(t).phase = "lock"
  BY DEF WaitsForLock, InPhase, OnTop, IsResolve
<1>3. PICK n \in Nat : n = Len(frames[t])
  BY <1>1, FramesAt
<1>4. PICK s \in Ctxs : s = Scope(t)
  BY <1>1, <1>2, <1>3, TopScope
<1>5. /\ n - 1 \in 0..n /\ Top(t) = frames[t][n] /\ n \in 1..Len(frames[t]) /\ t \in alive
      /\ Top(t).ctx = CurrentAt(t, n - 1) /\ Top(t).ctx \in Ctxs
  BY <1>1, <1>2, <1>3, TopFacts, TopScope
<1>6. Used(s)
  BY <1>1, <1>2, <1>3, <1>4, TopScope DEF Nested, Chained, Scope
<1>7. ASSUME NEW v \in Tasks, nest[s][v] > 0
      PROVE  \E i \in Nat : Holds(v, i, s)
  <2>1. nest[s][v] # 0
    BY <1>7
  <2>2. Holding(v, s) # {}
    BY <1>1, <2>1, FS_EmptySet DEF Counted
  <2> QED
    BY <1>1, <2>2, FramesAt DEF Holding
<1>8. PICK v \in Tasks : nest[s][v] > 0 /\ family[s][v] # family[s][t]
  BY <1>4 DEF WaitsForLock, MayEnter
<1>9. PICK i \in Nat : Holds(u, i, s)
  BY <1>4, <1>7 DEF WaitsForLock
<1>10. PICK j \in Nat : Holds(v, j, s)
  BY <1>7, <1>8
<1>11. u = v /\ v # t
  BY <1>1, <1>8, <1>9, <1>10 DEF OneTask
<1>12. \A k \in Nat : ~Holds(t, k, s)
  BY <1>1, <1>10, <1>11 DEF OneTask
<1> QED
  BY <1>2, <1>3, <1>4, <1>5, <1>6, <1>9, <1>11, <1>12

\* Who waits for a task is in the frame that it was spawned in, and the task began in its
\* current context.
LEMMA WaitsForChild ==
    ASSUME SInv, NEW t \in Tasks, NEW u \in Tasks, WaitsForTask(t, u)
    PROVE  /\ t \in alive /\ u \in alive /\ parent[u].task = t
           /\ \E n \in Nat : /\ n = Len(frames[t]) /\ n \in 0..Len(frames[t]) /\ base[u] = CurrentAt(t, n)
                             /\ n > 0 => Opens(frames[t][n])
<1>1. Typed /\ Nested /\ FromBlocks
  BY DEF SInv, IInv
<1>2. PICK n \in Nat : n = Len(frames[t])
  BY <1>1, FramesAt
<1>3. u \in alive /\ parent[u].task = t /\ parent[u].at = n
  BY <1>2 DEF WaitsForTask
<1>4. t # NoCtx
  BY InjectionAssumption
<1>5. t \in alive /\ base[u] = CurrentAt(t, n)
  BY <1>1, <1>3, <1>4 DEF Nested, Families, Placed
<1>6. n > 0 => Opens(frames[t][n])
  BY <1>1, <1>3, <1>5 DEF FromBlocks
<1> QED
  BY <1>2, <1>3, <1>5, <1>6

\* In no group of tasks, however contexts nest and whatever tasks are spawned by application
\* code and waited for, does everyone wait for another one of the group (_rlock.py; resolve.py:
\* the lock of a context is taken while those further out may be held).
THEOREM NoCircle ==
    ASSUME ~FanOut
    PROVE  Spec => []NoCircularWait
<1>1. ASSUME SInv
      PROVE  NoCircularWait
  <2>1. Typed /\ Nested /\ Inside /\ Innermost /\ Youngest
    BY <1>1 DEF SInv, IInv
  <2> SUFFICES ASSUME NEW group \in SUBSET Tasks, group # {},
                      \A t \in group : \E u \in group : WaitsForLock(t, u) \/ WaitsForTask(t, u)
               PROVE  FALSE
    BY DEF NoCircularWait, WaitsFor, WaitsForLock, WaitsForTask
  <2>2. group \in SUBSET alive
    BY <1>1, WaitsForHolder, WaitsForChild
  <2> DEFINE W == {Scope(t) : t \in {x \in group : \E u \in group : WaitsForLock(x, u)}}
  <2>3. W \in SUBSET {c \in Ctxs : Used(c)}
    BY <1>1, WaitsForHolder
  <2>4. PICK t \in group : \A u \in group : parent[u].task # t
    BY <2>1, <2>2 DEF Youngest
  <2>5. W # {}
    <3>1. PICK u \in group : WaitsForLock(t, u) \/ WaitsForTask(t, u)
      OBVIOUS
    <3>2. ~WaitsForTask(t, u)
      BY <2>4 DEF WaitsForTask
    <3> QED
      BY <3>1, <3>2
  <2>6. PICK s \in W : \A d \in W : d # s => s \notin Range(ctxs[d].chain)
    BY <2>1, <2>3, <2>5 DEF Innermost
  <2>7. s \in Ctxs
    BY <2>3
  \* Nobody of the group waits for a lock inside of s.
  <2>8. ASSUME NEW x \in group, NEW y \in group, WaitsForLock(x, y), Under(Top(x).ctx, s)
        PROVE  FALSE
    <3>1. Scope(x) \in W
      BY <2>8
    <3> QED
      BY <2>6, <2>8, <3>1 DEF Under, Scope
  <2> HIDE DEF W
  <2>9. PICK u \in group, m \in Nat : Holds(u, m, s)
    <3>1. PICK x \in group, y \in group : WaitsForLock(x, y) /\ s = Scope(x)
      BY DEF W
    <3> QED
      BY <1>1, <3>1, WaitsForHolder
  <2>10. PICK x \in group : Under(base[x], s)
    <3>1. PICK y \in group : WaitsForLock(u, y) \/ WaitsForTask(u, y)
      OBVIOUS
    <3>2. m \in 1..Len(frames[u]) /\ frames[u][m].phase # "lock" /\ ~Opens(frames[u][m])
          /\ ctxs[frames[u][m].ctx].scope = s
      BY <2>9 DEF Holds, IsResolve, Opens, IsCtx
    <3>3. CASE WaitsForLock(u, y)
      <4>1. PICK n \in Nat : /\ n = Len(frames[u]) /\ Top(u) = frames[u][n]
                             /\ Top(u).ctx = CurrentAt(u, n - 1) /\ Top(u).phase = "lock"
        BY <1>1, <3>3, WaitsForHolder
      <4>2. n - 1 \in m..Len(frames[u])
        BY <3>2, <4>1
      <4>3. Under(Top(u).ctx, s) \/ Top(u).ctx = frames[u][m].ctx
        BY <2>1, <2>7, <2>9, <4>1, <4>2, HolderAround
      <4>4. Top(u).ctx # frames[u][m].ctx
        BY <1>1, <2>9, <3>2, <3>3, WaitsForHolder DEF Scope
      <4> QED
        BY <2>8, <3>3, <4>3, <4>4
    <3>4. CASE WaitsForTask(u, y)
      <4>1. PICK n \in Nat : n = Len(frames[u]) /\ base[y] = CurrentAt(u, n) /\ (n > 0 => Opens(frames[u][n]))
        BY <1>1, <3>4, WaitsForChild
      <4>2. n \in m..Len(frames[u]) /\ n \in m..n /\ n > 0
        BY <3>2, <4>1
      <4>3. Under(CurrentAt(u, n), s)
        BY <2>1, <2>7, <2>9, <4>1, <4>2, HolderAround
      <4> QED
        BY <4>1, <4>3
    <3> QED
      BY <3>1, <3>3, <3>4
  <2> DEFINE D == {y \in group : Under(base[y], s)}
  <2>11. PICK y \in D : \A z \in D : parent[z].task # y
    <3>1. D \in SUBSET alive /\ D # {}
      BY <2>2, <2>10
    <3> HIDE DEF D
    <3> QED
      BY <2>1, <3>1 DEF Youngest
  <2>12. PICK z \in group : WaitsForLock(y, z) \/ WaitsForTask(y, z)
    OBVIOUS
  <2>13. CASE WaitsForLock(y, z)
    <3>1. PICK n \in Nat : n - 1 \in 0..Len(frames[y]) /\ Top(y).ctx = CurrentAt(y, n - 1)
      BY <1>1, <2>13, WaitsForHolder
    <3>2. Under(Top(y).ctx, s)
      BY <2>1, <2>7, <2>11, <3>1, BaseAround
    <3> QED
      BY <2>8, <2>13, <3>2
  <2>14. CASE WaitsForTask(y, z)
    <3>1. PICK n \in Nat : n \in 0..Len(frames[y]) /\ base[z] = CurrentAt(y, n)
      <4>1. y \in Tasks /\ z \in Tasks /\ SInv
        BY <1>1, <2>1
      <4>2. WaitsForTask(y, z)
        BY ONLY <2>14
      <4> QED
        BY ONLY <4>1, <4>2, WaitsForChild
    <3>2. Under(base[z], s) /\ parent[z].task = y
      BY <2>1, <2>7, <2>11, <2>14, <3>1, BaseAround DEF WaitsForTask
    <3> QED
      BY <2>11, <3>1, <3>2
  <2> QED
    BY <2>12, <2>13, <2>14
<1>2. SInv /\ [Next]_vars => SInv'
  BY StepShares
<1> QED
  BY <1>1, <1>2, InitShares, PTL DEF Spec


-----------------------------------------------------------------------------
\* One instance

\* What is resolved by hand, in the body of a factory or in a teardown, is among the calls
\* in H, and these resolve nothing by hand: neither they, nor what replaces them, nor what
\* they depend on.
OneLevel(H) ==
    /\ \A y \in Calls : Within[y] \subseteq H
    /\ \A k \in H : \A call \in {k} \cup {o[k] : o \in {p \in Overrides : k \in DOMAIN p}} :
          Within[call] = {} /\ Range(Deps[call]) \subseteq H

\* Who resolves right above a resolution does so in the body of a factory that resolves by hand.
BusyAt(t, i) ==
    LET f == frames[t][i - 1]
    IN  i > 1 /\ IsResolve(f) => f.phase = "build" /\ Within[Effective(f.ctx)[Head(f.todo)]] # {}

\* Above a resolution, in the same context, is only what is resolved by hand.
Above(t, i) == \E m \in 1..(i - 1) : IsResolve(frames[t][m]) /\ \A j \in m..(i - 1) : ~Opens(frames[t][j])
ByHandAt(H, t, i) ==
    IsResolve(frames[t][i]) /\ Above(t, i)
        => frames[t][i].root \in H /\ Range(frames[t][i].todo) \subseteq H
ByHand(H) == \A t \in Tasks : \A i \in 1..Len(frames[t]) : BusyAt(t, i) /\ ByHandAt(H, t, i)

\* What is being built is not in the context's own cache.
Owned(f) == Head(f.todo) \in DOMAIN cache[f.ctx]
Missing == \A t \in Tasks : \A i \in 1..Len(frames[t]) : Builds(frames[t][i]) => ~Owned(frames[t][i])

MInv(H) == SInv /\ ByHand(H) /\ Missing

\* The first k frames of t and those of other tasks stay what they are.
LEMMA StepByHand ==
    ASSUME Typed, Nested, Typed', Nested', Stable, NEW H, ByHand(H), NEW t \in Tasks, NEW k \in Nat, Same(t, k),
           \A i \in 1..Len(frames'[t]) : i > k => BusyAt(t, i)' /\ ByHandAt(H, t, i)'
    PROVE  ByHand(H)'
<1> SUFFICES ASSUME NEW u \in Tasks, NEW i \in 1..Len(frames'[u]), u # t \/ ~(i > k)
             PROVE  BusyAt(u, i)' /\ ByHandAt(H, u, i)'
  BY DEF ByHand
<1>1. i \in Nat /\ (u # t \/ i <= k)
  BY FramesAt DEF Typed
<1>2. i \in 1..Len(frames[u]) /\ \A j \in 1..i : j \in 1..Len(frames[u]) /\ frames'[u][j] = frames[u][j]
  <2>1. ASSUME NEW j \in 1..i
        PROVE  j \in 1..Len(frames[u]) /\ frames'[u][j] = frames[u][j]
    <3>1. j \in Nat /\ (u # t \/ j <= k) /\ j \in 1..Len(frames'[u])
      <4>1. Len(frames'[u]) \in Nat
        BY FramesAt DEF Typed
      <4> QED
        BY <1>1, <4>1
    <3> QED
      BY <3>1, Stays
  <2> QED
    BY <1>1, <2>1
<1>3. BusyAt(u, i) /\ ByHandAt(H, u, i)
  BY <1>2 DEF ByHand
<1>4. BusyAt(u, i)'
  <2> SUFFICES ASSUME i > 1, NEW f, f = frames'[u][i - 1], IsResolve(f)
               PROVE  f.phase = "build" /\ Within[(Effective(f.ctx)')[Head(f.todo)]] # {}
    BY DEF BusyAt, IsResolve
  <2>1. i - 1 \in 1..i
    BY <1>1
  <2>2. i - 1 \in 1..Len(frames[u]) /\ f = frames[u][i - 1] /\ i - 1 \in 1..Len(frames'[u])
    BY <1>1, <1>2, <2>1, FramesAt DEF Typed
  <2>3. f.phase = "build" /\ Within[Effective(f.ctx)[Head(f.todo)]] # {}
    BY <1>3, <2>2 DEF BusyAt
  <2>4. PICK c : c = f.ctx
    OBVIOUS
  <2>5. Effective(c)' = Effective(c)
    BY <2>2, <2>4, StaysInContext
  <2> QED
    BY <2>3, <2>4, <2>5
<1>5. ByHandAt(H, u, i)'
  <2>1. ASSUME NEW m \in 1..(i - 1), NEW j \in m..(i - 1)
        PROVE  frames'[u][j] = frames[u][j] /\ frames'[u][m] = frames[u][m]
    <3>1. j \in 1..i /\ m \in 1..i
      BY <1>1
    <3> QED
      BY <1>2, <3>1
  <2>2. \A m \in 1..(i - 1) : m \in m..(i - 1)
    BY <1>1
  <2>3. Above(u, i)' => Above(u, i)
    BY <2>1, <2>2 DEF Above, IsResolve, Opens, IsCtx
  <2>4. frames'[u][i] = frames[u][i]
    BY <1>1, <1>2
  <2> QED
    BY <1>3, <2>3, <2>4 DEF ByHandAt, IsResolve
<1> QED
  BY <1>4, <1>5

\* Nothing that is being built has come into the cache of its context.
StillMissing(t, k) ==
    \A u \in Tasks : \A i \in 1..Len(frames[u]) :
        (u # t \/ i <= k) /\ Builds(frames[u][i]) =>
            LET f == frames[u][i]
            IN  Head(f.todo) \in DOMAIN cache'[f.ctx] => Head(f.todo) \in DOMAIN cache[f.ctx]

\* The parts together.
LEMMA StepOnce ==
    ASSUME NEW H, MInv(H), SInv', Stable, NEW t \in Tasks, NEW k \in Nat, Same(t, k), StillMissing(t, k),
           \A i \in 1..Len(frames'[t]) : i > k =>
              BusyAt(t, i)' /\ ByHandAt(H, t, i)' /\ (Builds(frames'[t][i]) => ~Owned(frames[t][i])')
    PROVE  MInv(H)'
<1>1. Typed /\ Nested /\ Typed' /\ Nested' /\ ByHand(H) /\ Missing
  BY DEF MInv, SInv, IInv
<1>2. ByHand(H)'
  BY <1>1, StepByHand
<1>3. Missing'
  <2> SUFFICES ASSUME NEW u \in Tasks, NEW i \in 1..Len(frames'[u]), u # t \/ ~(i > k), Builds(frames'[u][i])
               PROVE  ~Owned(frames[u][i])'
    BY DEF Missing, Builds, IsResolve
  <2>1. i \in Nat /\ (u # t \/ i <= k)
    BY <1>1, FramesAt DEF Typed
  <2>2. i \in 1..Len(frames[u]) /\ frames'[u][i] = frames[u][i]
    BY <1>1, <2>1, Stays
  <2>3. ~Owned(frames[u][i]) /\ Builds(frames[u][i])
    BY <1>1, <2>2 DEF Missing
  <2> QED
    BY <2>1, <2>2, <2>3 DEF StillMissing, Owned
<1> QED
  BY <1>2, <1>3 DEF MInv

\* A step that caches nothing and builds nothing.
LEMMA QuietOnce ==
    ASSUME NEW H, MInv(H), SInv', Settled, NEW t \in Tasks, NEW k \in Nat, Same(t, k),
           \A i \in 1..Len(frames'[t]) : i > k =>
              BusyAt(t, i)' /\ ByHandAt(H, t, i)' /\ ~Builds(frames'[t][i])
    PROVE  MInv(H)'
<1>1. Typed /\ Nested /\ Typed' /\ Nested' /\ Stable
  BY DEF MInv, SInv, IInv, Settled
<1>2. StillMissing(t, k)
  <2> SUFFICES ASSUME NEW u \in Tasks, NEW i \in 1..Len(frames[u]), u # t \/ i <= k, Builds(frames[u][i]),
                      NEW c, c = frames[u][i].ctx, NEW x, x \in DOMAIN cache'[c]
               PROVE  x \in DOMAIN cache[c]
    BY DEF StillMissing
  <2>1. i \in Nat
    BY <1>1, FramesAt
  <2>2. i \in 1..Len(frames'[u]) /\ frames'[u][i] = frames[u][i]
    BY <1>1, <2>1, Stays
  <2>3. c \in Ctxs /\ Used(c)'
    BY <1>1, <2>2, StaysInContext DEF Builds
  <2>4. DOMAIN Nothing = {}
    BY DEF Nothing
  <2> QED
    BY <2>3, <2>4 DEF Settled
<1> QED
  BY <1>1, <1>2, StepOnce

\* What is below the top frame stays.
LEMMA BusyStays ==
    ASSUME Typed, Nested, Typed', Nested', Stable, NEW H, ByHand(H), NEW t \in Tasks, NEW n \in 1..Len(frames[t]),
           Same(t, n - 1)
    PROVE  BusyAt(t, n)' /\ (Above(t, n)' => Above(t, n))
<1>1. n \in Nat
  BY FramesAt
<1>2. \A j \in 1..(n - 1) : frames'[t][j] = frames[t][j]
  BY DEF Same
<1>3. BusyAt(t, n)'
  <2> SUFFICES ASSUME n > 1, NEW f, f = frames'[t][n - 1], IsResolve(f)
               PROVE  f.phase = "build" /\ Within[(Effective(f.ctx)')[Head(f.todo)]] # {}
    BY DEF BusyAt, IsResolve
  <2>1. n - 1 \in Nat /\ n - 1 \in 1..(n - 1) /\ n - 1 \in 1..Len(frames[t])
    BY <1>1, FramesAt
  <2>2. f = frames[t][n - 1] /\ n - 1 \in 1..Len(frames'[t])
    BY <1>2, <2>1, Stays
  <2>3. f.phase = "build" /\ Within[Effective(f.ctx)[Head(f.todo)]] # {}
    BY <2>2 DEF BusyAt, ByHand
  <2>4. PICK c : c = f.ctx
    OBVIOUS
  <2>5. Effective(c)' = Effective(c)
    BY <2>1, <2>2, <2>4, StaysInContext
  <2> QED
    BY <2>3, <2>4, <2>5
<1>4. \A m \in 1..(n - 1) : m \in m..(n - 1) /\ \A j \in m..(n - 1) : j \in 1..(n - 1)
  BY <1>1
<1>5. Above(t, n)' => Above(t, n)
  BY <1>2, <1>4, SMTT(20) DEF Above, IsResolve, Opens, IsCtx
<1> QED
  BY <1>3, <1>5


\* Who calls what: above a resolution a factory runs, that resolves by hand.
Calling(f) == f.phase = "build" /\ Within[Effective(f.ctx)[Head(f.todo)]] # {}
LEMMA CallsByHand ==
    ASSUME NEW H, OneLevel(H), IInv, NEW t \in Tasks, NEW root, root \in Resolvable(t),
           NEW n, n = Len(frames[t]), frames[t] # <<>>
    PROVE  /\ IsResolve(frames[t][n]) => Calling(frames[t][n])
           /\ ~Opens(frames[t][n]) => root \in H
<1>1. Typed /\ Nested
  BY DEF IInv
<1>2. Top(t) = frames[t][n]
  BY <1>1, TopFacts
<1>3. CASE InApp(t)
  BY <1>2, <1>3 DEF InApp, OnTop, Opens, IsCtx, IsResolve
<1>4. CASE InBody(t) /\ ~InApp(t)
  <2>1. root \in Within[Effective(Top(t).ctx)[Head(Top(t).todo)]] /\ Top(t).phase = "build"
    <3>1. root \in Within[Effective(Top(t).ctx)[Head(Top(t).todo)]]
      <4>1. ~InTeardown(t)
        BY <1>4 DEF InBody, InPhase, InTeardown, OnTop
      <4> QED
        BY <1>4, <4>1 DEF Resolvable
    <3> QED
      BY <1>4, <3>1 DEF InBody, InPhase
  <2>2. Effective(Top(t).ctx)[Head(Top(t).todo)] \in Calls
    BY <1>4, BuiltFacts DEF InBody
  <2>3. root \in H
    BY <2>1, <2>2 DEF OneLevel
  <2> QED
    BY <1>2, <2>1, <2>3 DEF Calling
<1>5. CASE InTeardown(t) /\ ~InBody(t) /\ ~InApp(t)
  <2>1. root \in Within[Last(stack[Top(t).ctx])] /\ IsCtx(Top(t)) /\ stack[Top(t).ctx] # <<>>
    BY <1>5 DEF Resolvable, InTeardown, OnTop, IsCtx
  <2>2. Last(stack[Top(t).ctx]) \in Calls
    <3>1. PICK s \in Seq(Generators) : s = stack[Top(t).ctx]
      BY <1>1, TopFacts, FrameFacts DEF Typed
    <3> QED
      BY <2>1, <3>1, FrontFacts, InjectionAssumption
  <2>3. root \in H
    BY <2>1, <2>2 DEF OneLevel
  <2> QED
    BY <1>2, <2>1, <2>3 DEF IsCtx, IsResolve
<1>6. InApp(t) \/ InBody(t) \/ InTeardown(t)
  BY DEF Resolvable
<1> QED
  BY <1>3, <1>4, <1>5, <1>6

\* Resolutions and contexts end.
LEMMA EndsOnce ==
    ASSUME NEW H, MInv(H), SInv', NEW t \in Tasks,
           Return(t) \/ Fail(t) \/ Abandon(t) \/ LeaveOverrides(t) \/ Closed(t)
    PROVE  MInv(H)'
<1>1. Typed /\ Nested
  BY DEF MInv, SInv, IInv
<1>2. frames[t] # <<>> /\ Pop(t)
  BY DEF Return, Fail, Abandon, LeaveOverrides, Closed, InPhase, OnTop
<1>3. Top(t).ctx \in Ctxs
  BY <1>1, <1>2, TopFacts, FrameFacts
<1>4. Settled
  <2>1. CASE Return(t) \/ Fail(t) \/ Abandon(t)
    BY <2>1, ContextsStay DEF Return, Fail, Abandon
  <2>2. CASE LeaveOverrides(t) \/ Closed(t)
    <3>1. Forget(Top(t).ctx)
      BY <2>2 DEF LeaveOverrides, Closed
    <3> QED
      BY <1>1, <1>3, <3>1, ContextForgotten
  <2> QED
    BY <2>1, <2>2
<1>5. PICK n : n = Len(frames[t])
  OBVIOUS
<1>6. n - 1 \in Nat
  BY <1>1, <1>2, <1>5, TopFacts
<1>7. Same(t, n - 1) /\ Len(frames'[t]) = n - 1
  BY <1>1, <1>2, <1>5, PopFrames
<1>8. \A i \in 1..Len(frames'[t]) : ~(i > n - 1)
  BY <1>6, <1>7
<1> QED
  BY <1>4, <1>6, <1>7, <1>8, QuietOnce

\* A context is on its way out.
LEMMA LeaveCtxOnce ==
    ASSUME NEW H, MInv(H), SInv', NEW t \in Tasks, LeaveCtx(t)
    PROVE  MInv(H)'
<1>1. Typed /\ Nested /\ Typed' /\ Nested' /\ ByHand(H)
  BY DEF MInv, SInv, IInv
<1>2. frames[t] # <<>> /\ IsCtx(Top(t)) /\ UNCHANGED <<ctxs, cache>>
  BY DEF LeaveCtx, OnTop, IsCtx
<1>3. PICK n : n = Len(frames[t])
  OBVIOUS
<1>4. PICK f : f = [Top(t) EXCEPT !.closing = TRUE]
  OBVIOUS
<1>5. f \in Frames /\ ~IsResolve(f)
  <2>1. Top(t) \in CtxFrames
    BY <1>1, <1>2, TopFacts, FrameFacts
  <2> QED
    BY <1>4, <2>1 DEF Frames, CtxFrames, IsResolve
<1>6. SetTop(t, f)
  BY <1>4 DEF LeaveCtx
<1>7. n - 1 \in Nat /\ n \in 1..Len(frames[t]) /\ n \in Nat
  BY <1>1, <1>2, <1>3, TopFacts
<1>8. Same(t, n - 1) /\ Len(frames'[t]) = n /\ frames'[t][n] = f
  BY <1>1, <1>2, <1>3, <1>5, <1>6, SetTopFrames
<1>9. Settled /\ Stable
  BY <1>2, ContextsStay DEF Settled
<1>10. BusyAt(t, n)'
  BY <1>1, <1>7, <1>8, <1>9, BusyStays
<1>11. \A i \in 1..Len(frames'[t]) : i > n - 1 => i = n
  BY <1>7, <1>8
<1>12. ByHandAt(H, t, n)' /\ ~Builds(frames'[t][n])
  BY <1>5, <1>8 DEF ByHandAt, Builds, IsResolve
<1> QED
  BY <1>7, <1>8, <1>9, <1>10, <1>11, <1>12, QuietOnce

\* Contexts are opened by application code.
LEMMA OpenOnce ==
    ASSUME NEW H, MInv(H), SInv', NEW t \in Tasks, NEW o \in Overrides, OpenCtx(t, o) \/ PushOverrides(t, o)
    PROVE  MInv(H)'
<1>1. IInv /\ Typed /\ Nested
  BY DEF MInv, SInv, IInv
<1>2. PICK c : c = FreeCtx
  OBVIOUS
<1>3. PICK n \in Nat : n = Len(frames[t])
  BY <1>1, FramesAt
<1>4. PICK x : /\ x = OwnCtx(c, Current(t), o) \/ x = OverrideCtx(c, Current(t), o)
               /\ ctxs' = [ctxs EXCEPT ![c] = x]
  BY <1>2 DEF OpenCtx, PushOverrides
<1>5. /\ HasFreeCtx /\ cache' = cache /\ InApp(t)
      /\ frames' = [frames EXCEPT ![t] = Append(@, CtxFrame(c, TRUE))]
  BY <1>2 DEF OpenCtx, PushOverrides
<1>6. c \in Ctxs /\ ~Used(c) /\ Makes(c, x, CurrentAt(t, n))
  BY <1>1, <1>2, <1>3, <1>4, <1>5, NewContexts
<1>7. PICK f \in Frames : f = CtxFrame(c, TRUE)
  BY <1>6, NewFrames
<1>8. Same(t, n) /\ Len(frames'[t]) = n + 1 /\ frames'[t][n + 1] = f
  BY <1>1, <1>3, <1>5, <1>7, PushFrames
<1>9. Settled
  BY <1>1, <1>3, <1>4, <1>5, <1>6, ContextAdded
<1>10. n > 0 => ~IsResolve(frames[t][n])
  BY <1>1, <1>3, <1>5, FramesAt, TopFacts DEF InApp, OnTop, IsResolve
<1>11. BusyAt(t, n + 1)'
  <2>1. n > 0 => frames'[t][n] = frames[t][n]
    BY <1>8 DEF Same
  <2>2. n + 1 - 1 = n /\ (n + 1 > 1 <=> n > 0)
    OBVIOUS
  <2> QED
    BY <1>10, <2>1, <2>2 DEF BusyAt, IsResolve
<1>12. ByHandAt(H, t, n + 1)' /\ ~Builds(frames'[t][n + 1])
  BY <1>7, <1>8 DEF ByHandAt, Builds, IsResolve, CtxFrame
<1>13. \A i \in 1..Len(frames'[t]) : i > n => i = n + 1
  BY <1>8
<1> QED
  BY <1>8, <1>9, <1>11, <1>12, <1>13, QuietOnce

\* resolve() and a function under inject() begin.
LEMMA EnsureOnce ==
    ASSUME NEW H, OneLevel(H), MInv(H), SInv', NEW t \in Tasks, NEW root \in Calls, NEW new \in BOOLEAN,
           NEW body \in BOOLEAN, Ensure(t, root, new, body)
    PROVE  MInv(H)'
<1>1. IInv /\ Typed /\ Nested /\ Typed' /\ Nested'
  BY DEF MInv, SInv, IInv
<1>2. PICK c : c = Current(t)
  OBVIOUS
<1>3. PICK n \in Nat : n = Len(frames[t])
  BY <1>1, FramesAt
<1>4. cache' = cache /\ root \in Resolvable(t)
  BY DEF Ensure
<1>5. n > 0 => n \in 1..Len(frames[t]) /\ frames[t] # <<>>
  BY <1>1, <1>3, FramesAt
<1>6. ASSUME Same(t, n), Len(frames'[t]) > n, Settled
      PROVE  BusyAt(t, n + 1)'
  <2>1. n > 0 => frames'[t][n] = frames[t][n]
    BY <1>6 DEF Same
  <2>2. n + 1 - 1 = n /\ (n + 1 > 1 <=> n > 0)
    OBVIOUS
  <2> SUFFICES ASSUME n > 0, NEW f, f = frames'[t][n], IsResolve(f)
               PROVE  f.phase = "build" /\ Within[(Effective(f.ctx)')[Head(f.todo)]] # {}
    BY <2>2, SMTT(20) DEF BusyAt, IsResolve
  <2>3. f = frames[t][n]
    BY <2>1
  <2>4. f.phase = "build" /\ Within[Effective(f.ctx)[Head(f.todo)]] # {}
    <3>1. frames[t] # <<>> /\ IsResolve(frames[t][n])
      BY <1>5, <2>3
    <3>2. Calling(frames[t][n])
      BY <1>1, <1>3, <1>4, <3>1, CallsByHand
    <3> QED
      BY <2>3, <3>2 DEF Calling
  <2>5. PICK e : e = f.ctx
    OBVIOUS
  <2>6. n \in 1..Len(frames'[t]) /\ frames'[t][n] = frames[t][n]
    BY <1>1, <1>5, <1>6, Stays
  <2>7. Effective(e)' = Effective(e)
    BY <1>1, <1>5, <1>6, <2>3, <2>5, <2>6, StaysInContext DEF Settled
  <2> QED
    BY <2>4, <2>5, <2>7
<1>7. CASE NeedsOwnCtx(c, new)
  <2>1. HasFreeCtx
    BY <1>2, <1>7 DEF Ensure
  <2>2. PICK d : d = FreeCtx
    OBVIOUS
  <2>3. PICK x : x = OwnCtx(d, c, Nothing)
    OBVIOUS
  <2>4. d \in Ctxs /\ ~Used(d) /\ Makes(d, x, CurrentAt(t, n))
    BY <1>1, <1>2, <1>3, <2>1, <2>2, <2>3, NewContexts
  <2>5. /\ ctxs' = [ctxs EXCEPT ![d] = x]
        /\ frames' = [frames EXCEPT ![t] = @ \o <<CtxFrame(d, body), ResolveFrame(d, root)>>]
    BY <1>2, <1>7, <2>2, <2>3 DEF Ensure
  <2>6. Settled
    BY <1>1, <1>3, <1>4, <2>4, <2>5, ContextAdded
  <2>7. Pushed(t, Len(frames[t]), CtxFrame(d, body), ResolveFrame(d, root))
    BY <1>1, <2>4, <2>5, BothFrames
  <2>8. PICK f : f = CtxFrame(d, body)
    OBVIOUS
  <2>9. PICK g : g = ResolveFrame(d, root)
    OBVIOUS
  <2>10. Pushed(t, n, f, g)
    BY <1>3, <2>7, <2>8, <2>9
  <2>11. ~IsResolve(f) /\ Opens(f) /\ g.phase = "lock"
    BY <2>8, <2>9 DEF CtxFrame, ResolveFrame, Resolution, IsResolve, Opens, IsCtx
  <2>12. Same(t, n) /\ Len(frames'[t]) > n /\ frames'[t][n + 1] = f /\ frames'[t][n + 2] = g
    BY <2>10 DEF Pushed
  <2>13. BusyAt(t, n + 1)' /\ ByHandAt(H, t, n + 1)' /\ ~Builds(frames'[t][n + 1])
    BY <1>6, <2>6, <2>11, <2>12 DEF ByHandAt, Builds, IsResolve
  <2>14. n + 2 - 1 = n + 1 /\ \A m \in 1..(n + 1) : n + 1 \in m..(n + 1)
    OBVIOUS
  <2>15. BusyAt(t, n + 2)' /\ ByHandAt(H, t, n + 2)' /\ ~Builds(frames'[t][n + 2])
    BY <2>11, <2>12, <2>14 DEF BusyAt, ByHandAt, Above, Builds, IsResolve, Opens, IsCtx
  <2>16. \A i \in 1..Len(frames'[t]) : i > n => i = n + 1 \/ i = n + 2
    BY <2>10 DEF Pushed
  <2> QED
    BY <2>6, <2>12, <2>13, <2>15, <2>16, QuietOnce
<1>8. CASE ~NeedsOwnCtx(c, new)
  <2>1. n \in 0..Len(frames[t])
    BY <1>3
  <2>2. c \in Ctxs
    BY <1>1, <1>2, <1>3, <1>8, <2>1, CurrentOnTop, CurrentType DEF NeedsOwnCtx
  <2>3. UNCHANGED ctxs /\ frames' = [frames EXCEPT ![t] = Append(@, ResolveFrame(c, root))]
    BY <1>2, <1>8 DEF Ensure
  <2>4. PICK f \in Frames : f = ResolveFrame(c, root)
    BY <2>2, NewFrames
  <2>5. Same(t, n) /\ Len(frames'[t]) = n + 1 /\ frames'[t][n + 1] = f
    BY <1>1, <1>3, <2>3, <2>4, PushFrames
  <2>6. f.phase = "lock" /\ f.root = root /\ Range(f.todo) = {}
    BY <2>4 DEF ResolveFrame, Resolution, Range
  <2>7. Settled
    BY <1>4, <2>3, ContextsStay
  <2>8. BusyAt(t, n + 1)'
    BY <1>6, <2>5, <2>7
  <2>9. ByHandAt(H, t, n + 1)'
    <3>1. Above(t, n + 1)' => root \in H
      <4>1. n + 1 - 1 = n /\ \A m \in 1..n : n \in m..n /\ n > 0
        OBVIOUS
      <4>2. n > 0 => frames'[t][n] = frames[t][n]
        BY <2>5 DEF Same
      <4>3. Above(t, n + 1)' => n > 0 /\ ~Opens(frames[t][n])
        BY <4>1, <4>2 DEF Above, Opens, IsCtx
      <4> QED
        BY <1>1, <1>3, <1>4, <1>5, <4>3, CallsByHand
    <3> QED
      BY <2>5, <2>6, <3>1 DEF ByHandAt
  <2>10. ~Builds(frames'[t][n + 1]) /\ \A i \in 1..Len(frames'[t]) : i > n => i = n + 1
    BY <2>5, <2>6 DEF Builds
  <2> QED
    BY <2>5, <2>7, <2>8, <2>9, <2>10, QuietOnce
<1> QED
  BY <1>7, <1>8

\* What is resolved by hand resolves nothing by hand, whatever is overridden.
LEMMA HandsClosed ==
    ASSUME NEW H, OneLevel(H), Typed, NEW c \in Ctxs, NEW k \in H \cap Calls
    PROVE  Within[Effective(c)[k]] = {} /\ Range(Deps[Effective(c)[k]]) \subseteq H \cap Calls
<1>1. PICK call : call = Effective(c)[k]
  OBVIOUS
<1>2. call \in Calls /\ (call = k \/ \E o \in Overrides : k \in DOMAIN o /\ call = o[k])
  BY <1>1, EffectiveAt
<1>3. Within[call] = {} /\ Range(Deps[call]) \subseteq H
  BY <1>2 DEF OneLevel
<1>4. Range(Deps[call]) \subseteq Calls
  BY <1>2, DependenciesAssumption, RangeFacts
<1> QED
  BY <1>1, <1>3, <1>4

\* What is called next is among what is to be called.
LEMMA NextCall ==
    ASSUME IInv, NEW t \in Tasks, NEW i \in 1..Len(frames[t]), Builds(frames[t][i])
    PROVE  Head(frames[t][i].todo) \in Calls \cap Range(frames[t][i].todo)
<1>1. PICK f : f = frames[t][i]
  OBVIOUS
<1>2. f \in ResolveFrames /\ Ready(f)
  BY <1>1, FramesAt, FrameFacts DEF IInv, InOrder, Builds
<1>3. PICK todo \in Seq(Calls) : todo = f.todo
  BY <1>2 DEF ResolveFrames
<1>4. todo # <<>>
  BY <1>1, <1>2, <1>3 DEF Ready, Builds
<1>5. Head(todo) = todo[1] /\ 1 \in 1..Len(todo)
  <2>1. Len(todo) \in Nat /\ Len(todo) # 0
    BY <1>4, LenProperties, EmptySeq
  <2> QED
    BY <2>1
<1>6. Head(todo) \in Range(todo) /\ Range(todo) \subseteq Calls
  BY <1>5, RangeFacts
<1> QED
  BY <1>1, <1>3, <1>6

\* What a task builds in a context while it builds something else there is something else.
LEMMA BuildsOther ==
    ASSUME NEW H, OneLevel(H), MInv(H), NEW t \in Tasks, NEW i \in 1..Len(frames[t]), NEW j \in 1..Len(frames[t]),
           i < j, Builds(frames[t][i]), Builds(frames[t][j]), frames[t][i].ctx = frames[t][j].ctx
    PROVE  Head(frames[t][i].todo) # Head(frames[t][j].todo)
<1>1. IInv /\ Typed /\ Nested /\ Inside /\ ByHand(H)
  BY DEF MInv, SInv, IInv
<1>2. i \in Nat /\ j \in Nat
  BY <1>1, FramesAt
<1>3. PICK c \in Ctxs : c = frames[t][i].ctx
  BY <1>1, ResolveCtx DEF Builds
<1>4. PICK s \in Ctxs : s = ctxs[c].scope
  BY <1>1, <1>3, NotUnderItself DEF Builds
<1>5. \A m \in i..(j - 1) : ~Opens(frames[t][m])
  <2>1. Holds(t, i, s) /\ IsResolve(frames[t][j]) /\ ctxs[frames[t][j].ctx].scope = s
    BY <1>3, <1>4 DEF Holds, Builds
  <2> QED
    BY <1>1, <1>2, <2>1, SameLock
<1>6. Above(t, j)
  BY <1>2, <1>5 DEF Above, Builds
<1>7. Range(frames[t][j].todo) \subseteq H
  BY <1>1, <1>6 DEF ByHand, ByHandAt, Builds
<1>8. PICK k : k = Head(frames[t][j].todo)
  OBVIOUS
<1>9. k \in H \cap Calls
  BY <1>1, <1>7, <1>8, NextCall
<1>10. Within[Effective(c)[k]] = {}
  BY <1>1, <1>9, HandsClosed
<1>11. Within[Effective(c)[Head(frames[t][i].todo)]] # {}
  <2>1. i + 1 \in 1..Len(frames[t]) /\ i + 1 > 1 /\ i + 1 - 1 = i
    BY <1>1, <1>2, FramesAt
  <2>2. BusyAt(t, i + 1)
    BY <1>1, <2>1 DEF ByHand
  <2> QED
    BY <1>3, <2>1, <2>2 DEF BusyAt, Builds
<1> QED
  BY <1>8, <1>10, <1>11

\* A resolution enters the lock, or makes the next call.
LEMMA GoesOnOnce ==
    ASSUME NEW H, MInv(H), SInv', NEW t \in Tasks, frames[t] # <<>>, IsResolve(Top(t)), NEW todo, NEW f,
           Takes(t, f, todo), NEW n, n = Len(frames[t]), Above(t, n) => Range(todo) \subseteq H,
           StillMissing(t, n - 1), ctxs' = ctxs
    PROVE  MInv(H)'
<1>1. Typed /\ Nested /\ Typed' /\ Nested' /\ ByHand(H)
  BY DEF MInv, SInv, IInv
<1>2. n \in 1..Len(frames[t]) /\ Top(t) = frames[t][n] /\ n \in Nat /\ n - 1 \in Nat
  BY <1>1, TopFacts
<1>3. /\ f \in Frames /\ SetTop(t, f) /\ IsResolve(f) /\ f.ctx = Top(t).ctx /\ f.root = Top(t).root
      /\ Range(f.todo) \subseteq Range(todo)
      /\ f.phase = "build" => Usable(cache', f.ctx, f.root, Head(f.todo)) = {}
  BY DEF Takes
<1>4. Same(t, n - 1) /\ Len(frames'[t]) = n /\ frames'[t][n] = f
  BY <1>1, <1>3, SetTopFrames
<1>5. Stable
  BY DEF Stable
<1>6. BusyAt(t, n)' /\ (Above(t, n)' => Above(t, n))
  BY <1>1, <1>2, <1>4, <1>5, BusyStays
<1>7. Above(t, n) => f.root \in H
  BY <1>1, <1>2, <1>3 DEF ByHand, ByHandAt
<1>8. ByHandAt(H, t, n)'
  BY <1>3, <1>4, <1>6, <1>7 DEF ByHandAt
<1>9. Builds(frames'[t][n]) => ~Owned(frames[t][n])'
  <2>1. PICK c \in Ctxs : c = f.ctx /\ Used(c)
    BY <1>1, <1>3, TopScope
  <2>2. f.phase = "build" => Head(f.todo) \notin DOMAIN cache'[c]
    BY <1>1, <1>3, <2>1, NothingUsable
  <2> QED
    BY <1>4, <2>1, <2>2 DEF Owned, Builds
<1>10. \A i \in 1..Len(frames'[t]) : i > n - 1 => i = n
  BY <1>2, <1>4
<1>11. \A i \in 1..Len(frames'[t]) : i > n - 1 =>
          BusyAt(t, i)' /\ ByHandAt(H, t, i)' /\ (Builds(frames'[t][i]) => ~Owned(frames[t][i])')
  BY <1>6, <1>8, <1>9, <1>10
<1> QED
  BY <1>2, <1>4, <1>5, <1>11, StepOnce

\* A task enters the lock.
LEMMA EnterLockOnce ==
    ASSUME NEW H, OneLevel(H), MInv(H), SInv', NEW t \in Tasks, EnterLock(t)
    PROVE  MInv(H)'
<1>1. frames[t] # <<>> /\ IsResolve(Top(t)) /\ UNCHANGED <<ctxs, cache>>
  BY DEF EnterLock, InPhase, OnTop, IsResolve
<1>2. IInv /\ Typed /\ Nested /\ ByHand(H)
  BY DEF MInv, SInv, IInv
<1>3. PICK n : n = Len(frames[t])
  OBVIOUS
<1>4. n \in 1..Len(frames[t]) /\ Top(t) = frames[t][n]
  BY <1>1, <1>2, <1>3, TopFacts
<1>5. PICK c \in Ctxs : c = Top(t).ctx
  BY <1>1, <1>2, <1>3, TopScope
<1>6. PICK root \in Calls : root = Top(t).root
  <2>1. Top(t) \in ResolveFrames
    BY <1>1, <1>2, <1>3, TopScope
  <2> QED
    BY <2>1 DEF ResolveFrames
<1>7. PICK eff : eff = Effective(c)
  OBVIOUS
<1>8. PICK todo : todo = SolveOrder(eff, root)
  OBVIOUS
<1>9. PICK f : Takes(t, f, todo)
  BY <1>2, <1>5, <1>6, <1>7, <1>8, EnterLockTakes
<1>10. ASSUME Above(t, n)
       PROVE  Range(todo) \subseteq H
  <2>1. root \in H \cap Calls
    BY <1>1, <1>2, <1>4, <1>6, <1>10 DEF ByHand, ByHandAt
  <2>2. PICK S \in SUBSET Calls : S = H \cap Calls
    OBVIOUS
  <2>3. \A k \in S : Range(Deps[eff[k]]) \subseteq S
    BY <1>2, <1>7, <2>2, HandsClosed
  <2>4. eff \in [Calls -> Calls] /\ WellFounded(Calls, NeedsUnder(eff))
    BY <1>2, <1>7, EffectiveFacts
  <2>5. Range(SolveOrder(eff, root)) \subseteq S
    BY <2>1, <2>2, <2>3, <2>4, SolveOrderWithin
  <2> QED
    BY <1>8, <2>2, <2>5
<1>11. StillMissing(t, n - 1)
  BY <1>1 DEF StillMissing
<1> QED
  BY <1>1, <1>3, <1>9, <1>10, <1>11, GoesOnOnce

\* The body of a factory is done.
LEMMA BuildOnce ==
    ASSUME NEW H, OneLevel(H), MInv(H), SInv', NEW t \in Tasks, Build(t)
    PROVE  MInv(H)'
<1>1. frames[t] # <<>> /\ IsResolve(Top(t)) /\ Builds(Top(t)) /\ ctxs' = ctxs
  BY DEF Build, InPhase, OnTop, IsResolve, Builds
<1>2. SInv /\ IInv /\ IInv' /\ Typed /\ Nested /\ ByHand(H)
  BY DEF MInv, SInv, IInv
<1>3. PICK n : n = Len(frames[t])
  OBVIOUS
<1>4. n \in 1..Len(frames[t]) /\ Top(t) = frames[t][n] /\ n \in Nat
  BY <1>1, <1>2, <1>3, TopFacts
<1>5. PICK c \in Ctxs : c = Top(t).ctx
  BY <1>1, <1>2, <1>3, TopScope
<1>6. PICK k : k = Head(Top(t).todo)
  OBVIOUS
<1>7. /\ \E f : Takes(t, f, Top(t).todo)
      /\ \A d \in Ctxs : \A x \in DOMAIN cache'[d] : x \in DOMAIN cache[d] \/ (d = c /\ x = k)
  BY <1>2, <1>5, <1>6, BuildTakes
<1>8. PICK f : Takes(t, f, Top(t).todo)
  BY <1>7
<1>9. Above(t, n) => Range(Top(t).todo) \subseteq H
  BY <1>1, <1>2, <1>4 DEF ByHand, ByHandAt
<1>10. StillMissing(t, n - 1)
  <2> SUFFICES ASSUME NEW u \in Tasks, NEW i \in 1..Len(frames[u]), u # t \/ i <= n - 1, Builds(frames[u][i]),
                      NEW d, d = frames[u][i].ctx, NEW x, x = Head(frames[u][i].todo),
                      x \in DOMAIN cache'[d], x \notin DOMAIN cache[d]
               PROVE  FALSE
    BY DEF StillMissing
  <2>1. d \in Ctxs /\ Used(d) /\ i \in Nat
    BY <1>2, ResolveCtx, FramesAt DEF Builds
  <2>2. d = c /\ x = k
    BY <1>7, <2>1
  <2>3. ctxs[d].chain[1] = d
    BY <1>2, <2>1 DEF Nested, Chained
  <2>4. 1 \in {1} \cup Inherited(d) /\ (u # t \/ i < n)
    BY <1>4, <2>1
  <2>5. Builds(frames[t][n]) /\ frames[t][n].ctx = d
    BY <1>1, <1>4, <1>5, <2>2
  <2>6. u = t
    BY <1>2, <1>4, <2>3, <2>4, <2>5, BuildsAlone
  <2>7. Head(frames[t][i].todo) # Head(frames[t][n].todo)
    BY <1>4, <2>4, <2>5, <2>6, BuildsOther
  <2> QED
    BY <1>4, <1>6, <2>2, <2>6, <2>7
<1> QED
  BY <1>1, <1>3, <1>8, <1>9, <1>10, GoesOnOnce

\* Nothing that matters here happens.
LEMMA StillOnce ==
    ASSUME NEW H, MInv(H), SInv', UNCHANGED <<frames, ctxs, cache>>
    PROVE  MInv(H)'
<1>1. \A c : Effective(c)' = Effective(c)
  BY DEF Effective
<1>2. ByHand(H)'
  <2> SUFFICES ASSUME NEW t \in Tasks, NEW i \in 1..Len(frames[t])
               PROVE  BusyAt(t, i)' /\ ByHandAt(H, t, i)'
    BY DEF ByHand
  <2>1. BusyAt(t, i) /\ ByHandAt(H, t, i)
    BY DEF MInv, ByHand
  <2>2. BusyAt(t, i)'
    <3> SUFFICES ASSUME i > 1, NEW f, f = frames[t][i - 1], IsResolve(f)
                 PROVE  f.phase = "build" /\ Within[(Effective(f.ctx)')[Head(f.todo)]] # {}
      BY DEF BusyAt, IsResolve
    <3> QED
      BY <1>1, <2>1 DEF BusyAt
  <2>3. ByHandAt(H, t, i)'
    BY <2>1 DEF ByHandAt, Above, IsResolve, Opens, IsCtx
  <2> QED
    BY <2>2, <2>3
<1>3. Missing'
  BY DEF MInv, Missing, Owned, Builds, IsResolve
<1> QED
  BY <1>2, <1>3 DEF MInv

\* At first nothing is built.
LEMMA InitOnce == ASSUME NEW H PROVE Init => MInv(H)
<1> SUFFICES ASSUME Init
             PROVE  MInv(H)
  OBVIOUS
<1>1. \A t \in Tasks : \A i : i \in 1..Len(frames[t]) => FALSE
  <2>1. \A t \in Tasks : frames[t] = <<>>
    BY DEF Init
  <2>2. Len(<<>>) = 0 /\ \A i \in 1..0 : FALSE
    BY EmptySeq
  <2> QED
    BY <2>1, <2>2
<1>2. SInv
  BY InitShares
<1> QED
  BY <1>1, <1>2 DEF MInv, ByHand, Missing

\* Every step keeps what is being built out of the caches.
LEMMA StepBuildsOnce ==
    ASSUME ~FanOut, NEW H, OneLevel(H)
    PROVE  MInv(H) /\ [Next]_vars => MInv(H)'
<1> SUFFICES ASSUME MInv(H), [Next]_vars
             PROVE  MInv(H)'
  OBVIOUS
<1>1. SInv'
  BY StepShares DEF MInv
<1>2. ASSUME NEW t \in Tasks, NEW o \in Overrides, OpenCtx(t, o) \/ PushOverrides(t, o)
      PROVE  MInv(H)'
  BY <1>1, <1>2, OpenOnce
<1>3. ASSUME NEW t \in Tasks, NEW root \in Calls, NEW new \in BOOLEAN,
             CallResolve(t, root, new) \/ CallInjected(t, root, new)
      PROVE  MInv(H)'
  BY <1>1, <1>3, EnsureOnce DEF CallResolve, CallInjected
<1>4. ASSUME NEW t \in Tasks, EnterLock(t) \/ Build(t)
      PROVE  MInv(H)'
  BY <1>1, <1>4, EnterLockOnce, BuildOnce
<1>5. ASSUME NEW t \in Tasks,
             Return(t) \/ Fail(t) \/ Abandon(t) \/ LeaveOverrides(t) \/ LeaveCtx(t) \/ Closed(t)
      PROVE  MInv(H)'
  BY <1>1, <1>5, EndsOnce, LeaveCtxOnce
<1>6. CASE UNCHANGED vars \/ \E t \in Tasks : Start(t) \/ End(t) \/ Teardown(t) \/ \E u \in Tasks : Spawn(t, u)
  <2>1. UNCHANGED <<frames, ctxs, cache>>
    BY <1>6 DEF vars, tasks, Start, End, Teardown, Spawn
  <2> QED
    BY <1>1, <2>1, StillOnce
<1> QED
  BY <1>2, <1>3, <1>4, <1>5, <1>6 DEF Next

\* A context builds a dependency once, whatever its tasks resolve at the same time, when no
\* factory spawns tasks and what factories and teardowns resolve by hand is in H, where
\* nothing is (README: "stays a single instance"; ctx.py: the lock of a context is
\* reentrant, so that a factory that resolves by hand what is being built would build it again).
THEOREM BuiltOnce ==
    ASSUME ~FanOut, NEW H, OneLevel(H)
    PROVE  Spec => []SingleInstance
<1>1. ASSUME MInv(H)
      PROVE  SingleInstance
  <2>1. SInv /\ Typed /\ Nested /\ Missing
    BY <1>1 DEF MInv, SInv, IInv
  <2>2. ASSUME NEW r \in Building
        PROVE  \E t \in Tasks : \E i \in 1..Len(frames[t]) :
                  r = <<t, i>> /\ i \in Nat /\ Frame(r) = frames[t][i] /\ Builds(frames[t][i])
    BY <2>1, ResolvingFacts, FramesAt DEF Building, Builds
  <2>3. ASSUME NEW r \in Building, NEW s \in Building, Frame(r).ctx = Frame(s).ctx, Key(r) = Key(s)
        PROVE  r = s
    <3>1. PICK t \in Tasks, i \in Nat :
             r = <<t, i>> /\ i \in 1..Len(frames[t]) /\ Frame(r) = frames[t][i] /\ Builds(frames[t][i])
      BY <2>2
    <3>2. PICK u \in Tasks, j \in Nat :
             s = <<u, j>> /\ j \in 1..Len(frames[u]) /\ Frame(s) = frames[u][j] /\ Builds(frames[u][j])
      BY <2>2
    <3>3. PICK c \in Ctxs : c = frames[t][i].ctx /\ c = frames[u][j].ctx /\ Used(c)
      BY <2>1, <2>3, <3>1, <3>2, ResolveCtx DEF Builds
    <3>4. PICK lock \in Ctxs : lock = ctxs[c].scope
      BY <2>1, <3>1, <3>3, NotUnderItself DEF Builds, SInv
    <3>5. u = t
      <4>1. Holds(t, i, lock) /\ Holds(u, j, lock)
        BY <3>1, <3>2, <3>3, <3>4 DEF Holds, Builds
      <4> QED
        BY <2>1, <3>1, <3>2, <4>1 DEF SInv, OneTask
    <3>6. Head(frames[t][i].todo) = Head(frames[t][j].todo)
      BY <2>3, <3>1, <3>2, <3>5 DEF Key
    <3>7. ~(i < j) /\ ~(j < i)
      BY <1>1, <3>1, <3>2, <3>3, <3>5, <3>6, BuildsOther
    <3>8. i = j
      BY <3>1, <3>2, <3>7
    <3> QED
      BY <3>1, <3>2, <3>5, <3>8
  <2>4. ASSUME NEW r \in Building
        PROVE  Key(r) \notin DOMAIN cache[Frame(r).ctx]
    BY <2>1, <2>2 DEF Missing, Owned, Key
  <2> QED
    BY <2>3, <2>4 DEF SingleInstance
<1>2. MInv(H) /\ [Next]_vars => MInv(H)'
  BY StepBuildsOnce
<1>3. Init => MInv(H)
  BY InitOnce
<1> QED
  BY <1>1, <1>2, <1>3, PTL DEF Spec
=============================================================================
