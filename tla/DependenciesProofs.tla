------------------------- MODULE DependenciesProofs -------------------------
(***************************************************************************)
(* What the graph operators of Dependencies return: Reach satisfies the    *)
(* equation by which it is defined, and SolveOrder lists exactly what is   *)
(* reached, each call behind those it is made from.                        *)
(***************************************************************************)
EXTENDS Dependencies, Recursion

-----------------------------------------------------------------------------
\* The graph

\* What c depends on, directly.
needs == [c \in Calls |-> Range(Deps[c])]

\* Nothing depends on itself, in however many steps.
LEMMA Acyclic == WellFounded(Calls, needs)
<1>1. \A c \in Calls : Range(Deps[c]) \subseteq Calls
  <2> SUFFICES ASSUME NEW c \in Calls, NEW i \in DOMAIN Deps[c]
               PROVE  Deps[c][i] \in Calls
    BY DEF Range
  <2>1. Deps[c] \in Seq(Calls)
    BY DependenciesAssumption
  <2> QED
    BY <2>1, ElementOfSeq
<1>2. needs \in [Calls -> SUBSET Calls] /\ \A c \in Calls : needs[c] = Range(Deps[c])
  BY <1>1 DEF needs
<1>3. ASSUME NEW S \in SUBSET Calls, S # {}
      PROVE  \E c \in S : needs[c] \cap S = {}
  BY <1>2, <1>3, DependenciesAssumption
<1> QED
  BY <1>2, <1>3 DEF WellFounded

\* Reach satisfies the equation by which it is defined.
LEMMA ReachUnfolds ==
    /\ Reach \in [Calls -> SUBSET Calls]
    /\ \A c \in Calls : Reach[c] = {c} \cup UNION {Reach[d] : d \in needs[c]}
<1> DEFINE V == SUBSET Calls
           step == [p \in Calls \X [Calls -> V] |-> {p[1]} \cup UNION {p[2][d] : d \in needs[p[1]]}]
<1>1. \A c \in Calls, g \in [Calls -> V] :
          step[<<c, g>>] = {c} \cup UNION {g[d] : d \in needs[c]}
  OBVIOUS
<1>2. step \in [Calls \X [Calls -> V] -> V]
  <2> SUFFICES ASSUME NEW c \in Calls, NEW g \in [Calls -> V]
               PROVE  {c} \cup UNION {g[d] : d \in needs[c]} \in V
    OBVIOUS
  <2>1. \A d \in needs[c] : g[d] \subseteq Calls
    BY Acyclic DEF WellFounded
  <2> QED
    BY <2>1
<1>3. Local(Calls, V, needs, step)
  <2> SUFFICES ASSUME NEW c \in Calls, NEW g \in [Calls -> V], NEW h \in [Calls -> V],
                      \A d \in needs[c] : g[d] = h[d]
               PROVE  step[<<c, g>>] = step[<<c, h>>]
    BY DEF Local
  <2>1. {g[d] : d \in needs[c]} = {h[d] : d \in needs[c]}
    OBVIOUS
  <2>2. step[<<c, g>>] = {c} \cup UNION {g[d] : d \in needs[c]}
    BY <1>1
  <2>3. step[<<c, h>>] = {c} \cup UNION {h[d] : d \in needs[c]}
    BY <1>1
  <2> QED
    BY <2>1, <2>2, <2>3
<1>4. \E f \in [Calls -> V] : \A c \in Calls : f[c] = step[<<c, f>>]
  <2> HIDE DEF step
  <2>1. Recursive(Calls, V, needs, step)
    BY <1>2, <1>3, Acyclic DEF Recursive
  <2> QED
    BY <2>1, GraphRecursion DEF HasSolution
<1>5. PICK f \in [Calls -> V] : \A c \in Calls : f[c] = step[<<c, f>>]
  BY <1>4
<1>6. f = [c \in Calls |-> {c} \cup UNION {f[d] : d \in needs[c]}]
  <2> HIDE DEF step
  <2>1. \A c \in Calls : f[c] = {c} \cup UNION {f[d] : d \in needs[c]}
    BY <1>1, <1>5
  <2> QED
    BY <2>1
<1>7. f = [c \in Calls |-> {c} \cup UNION {f[d] : d \in Range(Deps[c])}]
  BY <1>6 DEF needs
<1>8. Reach = [c \in Calls |-> {c} \cup UNION {Reach[d] : d \in Range(Deps[c])}]
  BY <1>7 DEF Reach
<1>9. \A c \in Calls : Reach[c] = {c} \cup UNION {Reach[d] : d \in needs[c]}
  BY <1>8 DEF needs
<1>10. Calls \subseteq {c \in Calls : Reach[c] \subseteq Calls}
  <2> DEFINE T == {c \in Calls : Reach[c] \subseteq Calls}
  <2>1. Inductive(Calls, needs, T)
    BY <1>9 DEF Inductive
  <2> HIDE DEF T
  <2>2. Calls \subseteq T
    BY <2>1, Acyclic, GraphInduction
  <2> QED
    BY <2>2 DEF T
<1> QED
  BY <1>8, <1>9, <1>10

-----------------------------------------------------------------------------
\* The order of FastAPI's calls

\* What is called for c depends on these, when eff replaces calls.
NeedsUnder(eff) == [c \in Calls |-> Range(Deps[eff[c]])]

\* Each call of s comes behind what it is made from.
DependenciesFirst(eff, s) ==
    \A i \in DOMAIN s : Range(Deps[eff[s[i]]]) \subseteq {s[j] : j \in 1..(i - 1)}

\* SolveOrder satisfies the equation by which it is defined, for replacements that do
\* not depend on what they replace.
LEMMA SolveOrderUnfolds ==
    ASSUME NEW eff \in [Calls -> Calls], WellFounded(Calls, NeedsUnder(eff))
    PROVE  \E order \in [Calls -> Seq(Calls)] : \A c \in Calls :
              /\ order[c] = Append(FlattenSeq([i \in 1..Len(Deps[eff[c]]) |-> order[Deps[eff[c]][i]]]), c)
              /\ SolveOrder(eff, c) = order[c]
<1> DEFINE V == Seq(Calls)
           parts(c, g) == [i \in 1..Len(Deps[eff[c]]) |-> g[Deps[eff[c]][i]]]
           value(c, g) == Append(FlattenSeq(parts(c, g)), c)
           step == [p \in Calls \X [Calls -> V] |-> value(p[1], p[2])]
<1>1. \A c \in Calls : /\ Deps[eff[c]] \in Seq(Calls)
                       /\ Len(Deps[eff[c]]) \in Nat
                       /\ \A i \in 1..Len(Deps[eff[c]]) : Deps[eff[c]][i] \in NeedsUnder(eff)[c]
  <2> SUFFICES ASSUME NEW c \in Calls
               PROVE  /\ Deps[eff[c]] \in Seq(Calls)
                      /\ Len(Deps[eff[c]]) \in Nat
                      /\ \A i \in 1..Len(Deps[eff[c]]) : Deps[eff[c]][i] \in NeedsUnder(eff)[c]
    OBVIOUS
  <2>1. Deps[eff[c]] \in Seq(Calls)
    BY DependenciesAssumption
  <2>2. DOMAIN Deps[eff[c]] = 1..Len(Deps[eff[c]]) /\ Len(Deps[eff[c]]) \in Nat
    BY <2>1, LenProperties
  <2> QED
    BY <2>1, <2>2 DEF NeedsUnder, Range
<1>2. \A c \in Calls : NeedsUnder(eff)[c] \subseteq Calls
  BY DEF WellFounded
<1>3. \A c \in Calls : \A g :
         (\A d \in NeedsUnder(eff)[c] : g[d] \in V) => value(c, g) \in V
  <2> SUFFICES ASSUME NEW c \in Calls, NEW g, \A d \in NeedsUnder(eff)[c] : g[d] \in V
               PROVE  value(c, g) \in V
    OBVIOUS
  <2>1. parts(c, g) \in [1..Len(Deps[eff[c]]) -> V]
    BY <1>1
  <2>2. parts(c, g) \in Seq(V) /\ Len(parts(c, g)) = Len(Deps[eff[c]])
    BY <1>1, <2>1, SeqDef
  <2>3. \A i \in 1..Len(parts(c, g)) : parts(c, g)[i] \in V
    BY <2>1, <2>2
  <2> HIDE DEF parts
  <2>4. \A s, t \in V : s \o t \in V
    BY ConcatProperties
  <2>5. <<>> \in V
    BY EmptySeq
  <2>6. FlattenSeq(parts(c, g)) \in V
    BY <2>2, <2>3, <2>4, <2>5, FlattenClosed
  <2> QED
    BY <2>6
<1> HIDE DEF value
<1>4. step \in [Calls \X [Calls -> V] -> V]
  BY <1>2, <1>3
<1>5. Local(Calls, V, NeedsUnder(eff), step)
  <2> SUFFICES ASSUME NEW c \in Calls, NEW g \in [Calls -> V], NEW h \in [Calls -> V],
                      \A d \in NeedsUnder(eff)[c] : g[d] = h[d]
               PROVE  step[<<c, g>>] = step[<<c, h>>]
    BY DEF Local
  <2>1. parts(c, g) = parts(c, h)
    BY <1>1
  <2>2. value(c, g) = value(c, h)
    BY <2>1 DEF value
  <2> QED
    BY <2>2
<1>6. \A c \in Calls, g \in [Calls -> V] : step[<<c, g>>] = value(c, g)
  OBVIOUS
<1> HIDE DEF step
<1>7. V # {}
  BY EmptySeq
<1>8. PICK f \in [Calls -> V] : \A c \in Calls : f[c] = step[<<c, f>>]
  <2> HIDE DEF V
  <2>1. Recursive(Calls, V, NeedsUnder(eff), step)
    BY <1>4, <1>5, <1>7 DEF Recursive
  <2> QED
    BY <2>1, GraphRecursion DEF HasSolution
<1>9. \A c \in Calls : f[c] = value(c, f)
  BY <1>6, <1>8
<1> DEFINE order == CHOOSE g : g = [c \in Calls |-> value(c, g)]
<1>10. order = [c \in Calls |-> value(c, order)]
  <2>1. f = [c \in Calls |-> value(c, f)]
    BY <1>9
  <2> QED
    BY <2>1
<1>11. \A c \in Calls : SolveOrder(eff, c) = order[c]
  BY DEF SolveOrder, value
<1> HIDE DEF order
<1> DEFINE T == {c \in Calls : order[c] \in V}
<1>12. Inductive(Calls, NeedsUnder(eff), T)
  BY <1>3, <1>10 DEF Inductive
<1>13. Calls \subseteq T
  <2> HIDE DEF T
  <2> QED
    BY <1>12, GraphInduction
<1>14. order \in [Calls -> V]
  BY <1>10, <1>13
<1> QED
  BY <1>10, <1>11, <1>14 DEF value

\* Two sequences that each put dependencies first do so one behind the other.
LEMMA FirstConcat ==
    ASSUME NEW eff, NEW s \in Seq(Calls), NEW t \in Seq(Calls),
           DependenciesFirst(eff, s), DependenciesFirst(eff, t)
    PROVE  s \o t \in Seq(Calls) /\ DependenciesFirst(eff, s \o t)
<1> DEFINE u == s \o t
<1>1. /\ u \in Seq(Calls) /\ Len(s) \in Nat /\ Len(t) \in Nat
      /\ DOMAIN s = 1..Len(s) /\ DOMAIN t = 1..Len(t) /\ DOMAIN u = 1..(Len(s) + Len(t))
      /\ \A i \in 1..(Len(s) + Len(t)) : u[i] = IF i <= Len(s) THEN s[i] ELSE t[i - Len(s)]
  BY ConcatProperties, LenProperties
<1> HIDE DEF u
<1>2. ASSUME NEW i \in 1..(Len(s) + Len(t)), NEW d \in Range(Deps[eff[u[i]]])
      PROVE  \E j \in 1..(i - 1) : d = u[j]
  <2>1. CASE i <= Len(s)
    <3>1. i \in DOMAIN s /\ u[i] = s[i]
      BY <1>1, <2>1
    <3>2. PICK j \in 1..(i - 1) : d = s[j]
      BY <1>2, <3>1 DEF DependenciesFirst
    <3>3. j \in 1..(Len(s) + Len(t)) /\ j <= Len(s)
      BY <1>1, <2>1
    <3>4. d = u[j]
      BY <1>1, <3>2, <3>3
    <3> QED
      BY <3>4
  <2>2. CASE ~(i <= Len(s))
    <3>1. i - Len(s) \in DOMAIN t /\ u[i] = t[i - Len(s)]
      BY <1>1, <2>2
    <3>2. PICK j \in 1..(i - Len(s) - 1) : d = t[j]
      BY <1>2, <3>1 DEF DependenciesFirst
    <3>3. j + Len(s) \in 1..(i - 1) /\ j + Len(s) \in 1..(Len(s) + Len(t))
      BY <1>1, <2>2
    <3>4. ~(j + Len(s) <= Len(s)) /\ (j + Len(s)) - Len(s) = j
      BY <1>1
    <3>5. u[j + Len(s)] = t[j]
      BY <1>1, <3>3, <3>4
    <3> QED
      BY <3>2, <3>3, <3>5
  <2> QED
    BY <2>1, <2>2
<1>3. DependenciesFirst(eff, u)
  BY <1>1, <1>2 DEF DependenciesFirst
<1> QED
  BY <1>1, <1>3 DEF u

\* The order of several dependencies, one behind the other.
LEMMA FirstFlattened ==
    ASSUME NEW eff, NEW seqs \in Seq(Seq(Calls)),
           \A i \in 1..Len(seqs) : DependenciesFirst(eff, seqs[i])
    PROVE  FlattenSeq(seqs) \in Seq(Calls) /\ DependenciesFirst(eff, FlattenSeq(seqs))
<1> DEFINE T == {s \in Seq(Calls) : DependenciesFirst(eff, s)}
<1>1. <<>> \in T
  BY EmptySeq DEF DependenciesFirst
<1>2. \A i \in 1..Len(seqs) : seqs[i] \in T
  BY ElementOfSeq
<1>3. \A s, t \in T : s \o t \in T
  BY FirstConcat
<1> HIDE DEF T
<1>4. FlattenSeq(seqs) \in T
  BY <1>1, <1>2, <1>3, FlattenClosed
<1> QED
  BY <1>4 DEF T

\* The last call of the order is that of the dependency itself; what is called before are
\* the calls for what it depends on, and they are in order, too.
THEOREM SolveOrderFacts ==
    ASSUME NEW eff \in [Calls -> Calls], WellFounded(Calls, NeedsUnder(eff)), NEW c \in Calls
    PROVE  /\ SolveOrder(eff, c) \in Seq(Calls)
           /\ Range(SolveOrder(eff, c)) =
                {c} \cup UNION {Range(SolveOrder(eff, d)) : d \in NeedsUnder(eff)[c]}
           /\ DependenciesFirst(eff, SolveOrder(eff, c))
<1> DEFINE parts(b, g) == [i \in 1..Len(Deps[eff[b]]) |-> g[Deps[eff[b]][i]]]
<1>1. PICK order \in [Calls -> Seq(Calls)] : \A b \in Calls :
              /\ order[b] = Append(FlattenSeq(parts(b, order)), b)
              /\ SolveOrder(eff, b) = order[b]
  BY SolveOrderUnfolds
<1> DEFINE T == {b \in Calls : DependenciesFirst(eff, order[b])}
           before(b) == FlattenSeq(parts(b, order))
<1>2. \A b \in Calls :
        /\ NeedsUnder(eff)[b] = {Deps[eff[b]][i] : i \in 1..Len(Deps[eff[b]])}
        /\ NeedsUnder(eff)[b] \subseteq Calls /\ Len(Deps[eff[b]]) \in Nat
  <2> SUFFICES ASSUME NEW b \in Calls
               PROVE  /\ NeedsUnder(eff)[b] = {Deps[eff[b]][i] : i \in 1..Len(Deps[eff[b]])}
                      /\ NeedsUnder(eff)[b] \subseteq Calls /\ Len(Deps[eff[b]]) \in Nat
    OBVIOUS
  <2>1. Deps[eff[b]] \in Seq(Calls)
    BY DependenciesAssumption
  <2>2. DOMAIN Deps[eff[b]] = 1..Len(Deps[eff[b]]) /\ Len(Deps[eff[b]]) \in Nat
    BY <2>1, LenProperties
  <2> QED
    BY <2>2 DEF NeedsUnder, Range, WellFounded
<1>3. ASSUME NEW b \in Calls
      PROVE  /\ parts(b, order) \in Seq(Seq(Calls))
             /\ Len(parts(b, order)) = Len(Deps[eff[b]])
             /\ \A i \in 1..Len(parts(b, order)) :
                    Deps[eff[b]][i] \in NeedsUnder(eff)[b] /\ parts(b, order)[i] = order[Deps[eff[b]][i]]
  <2>1. parts(b, order) \in [1..Len(Deps[eff[b]]) -> Seq(Calls)]
    BY <1>2
  <2> QED
    BY <1>2, <2>1, SeqDef, SMTT(20)
<1>4. ASSUME NEW b \in Calls
      PROVE  /\ before(b) \in Seq(Calls)
             /\ Range(before(b)) = UNION {Range(order[d]) : d \in NeedsUnder(eff)[b]}
  <2>1. before(b) \in Seq(Calls)
    <3> HIDE DEF parts
    <3>1. <<>> \in Seq(Calls) /\ \A s, t \in Seq(Calls) : s \o t \in Seq(Calls)
      BY EmptySeq, ConcatProperties
    <3>2. \A i \in 1..Len(parts(b, order)) : parts(b, order)[i] \in Seq(Calls)
      BY <1>3, ElementOfSeq
    <3> QED
      BY <1>3, <3>1, <3>2, FlattenClosed
  <2>2. Range(before(b)) = UNION {Range(parts(b, order)[i]) : i \in 1..Len(parts(b, order))}
    <3> HIDE DEF parts
    <3> QED
      BY <1>3, FlattenRange
  <2>3. {Range(parts(b, order)[i]) : i \in 1..Len(parts(b, order))} =
            {Range(order[d]) : d \in NeedsUnder(eff)[b]}
    <3>1. \A i \in 1..Len(parts(b, order)) :
              \E d \in NeedsUnder(eff)[b] : Range(parts(b, order)[i]) = Range(order[d])
      BY <1>3
    <3>2. \A d \in NeedsUnder(eff)[b] :
              \E i \in 1..Len(parts(b, order)) : Range(parts(b, order)[i]) = Range(order[d])
      <4> SUFFICES ASSUME NEW d \in NeedsUnder(eff)[b]
                   PROVE  \E i \in 1..Len(parts(b, order)) : parts(b, order)[i] = order[d]
        OBVIOUS
      <4>0. d \in {Deps[eff[b]][i] : i \in 1..Len(Deps[eff[b]])}
        BY <1>2
      <4>1. PICK i \in 1..Len(Deps[eff[b]]) : d = Deps[eff[b]][i]
        BY <4>0
      <4>2. i \in 1..Len(parts(b, order))
        BY <1>3
      <4> QED
        BY <1>3, <4>1, <4>2
    <3> HIDE DEF parts
    <3> QED
      BY <3>1, <3>2
  <2> QED
    BY <2>1, <2>2, <2>3
<1>5. ASSUME NEW b \in Calls
      PROVE  Range(order[b]) = {b} \cup UNION {Range(order[d]) : d \in NeedsUnder(eff)[b]}
  <2> HIDE DEF before
  <2>1. order[b] = Append(before(b), b) /\ before(b) \in Seq(Calls)
    BY <1>1, <1>4 DEF before
  <2>2. Len(before(b)) \in Nat /\ DOMAIN before(b) = 1..Len(before(b))
    BY <2>1, LenProperties
  <2>3. /\ DOMAIN order[b] = 1..(Len(before(b)) + 1)
        /\ order[b][Len(before(b)) + 1] = b
        /\ \A i \in 1..Len(before(b)) : order[b][i] = before(b)[i]
    BY <2>1, <2>2
  <2>4. Range(order[b]) = {b} \cup Range(before(b))
    <3>1. \A i \in DOMAIN order[b] : i = Len(before(b)) + 1 \/ i \in 1..Len(before(b))
      BY <2>2, <2>3
    <3>2. Range(order[b]) \subseteq {b} \cup Range(before(b))
      BY <2>2, <2>3, <3>1 DEF Range
    <3>3. \A i \in 1..Len(before(b)) : i \in DOMAIN order[b]
      BY <2>2, <2>3
    <3>4. Range(before(b)) \subseteq Range(order[b])
      BY <2>2, <2>3, <3>3 DEF Range
    <3>5. Len(before(b)) + 1 \in DOMAIN order[b]
      BY <2>2, <2>3
    <3>6. b \in Range(order[b])
      BY <2>3, <3>5 DEF Range
    <3> QED
      BY <3>2, <3>4, <3>6
  <2> QED
    BY <1>4, <2>4
<1>6. \A b \in Calls : b \in Range(order[b])
  BY <1>5
<1>7. ASSUME NEW b \in Calls, NeedsUnder(eff)[b] \subseteq T
      PROVE  b \in T
  <2>1. DependenciesFirst(eff, before(b))
    <3>1. \A i \in 1..Len(parts(b, order)) : DependenciesFirst(eff, parts(b, order)[i])
      BY <1>3, <1>7
    <3> HIDE DEF parts
    <3> QED
      BY <1>3, <3>1, FirstFlattened
  <2>2. Range(Deps[eff[b]]) \subseteq Range(before(b))
    <3>1. ASSUME NEW d \in NeedsUnder(eff)[b]
          PROVE  d \in Range(before(b))
      <4>1. d \in Range(order[d])
        BY <1>2, <1>6
      <4> QED
        BY <1>4, <4>1
    <3> QED
      BY <3>1 DEF NeedsUnder
  <2> HIDE DEF before
  <2>3. order[b] = Append(before(b), b) /\ before(b) \in Seq(Calls)
    BY <1>1, <1>4 DEF before
  <2>4. Len(before(b)) \in Nat /\ DOMAIN before(b) = 1..Len(before(b))
    BY <2>3, LenProperties
  <2>5. /\ DOMAIN order[b] = 1..(Len(before(b)) + 1)
        /\ order[b][Len(before(b)) + 1] = b
        /\ \A i \in 1..Len(before(b)) : order[b][i] = before(b)[i]
    BY <2>3, <2>4
  <2>6. ASSUME NEW i \in DOMAIN order[b]
        PROVE  Range(Deps[eff[order[b][i]]]) \subseteq {order[b][j] : j \in 1..(i - 1)}
    <3>1. {order[b][j] : j \in 1..(i - 1)} = {before(b)[j] : j \in 1..(i - 1)}
      <4>1. \A j \in 1..(i - 1) : order[b][j] = before(b)[j]
        BY <2>4, <2>5
      <4> QED
        BY <4>1
    <3>2. CASE i <= Len(before(b))
      <4>1. i \in DOMAIN before(b) /\ order[b][i] = before(b)[i]
        BY <2>4, <2>5, <3>2
      <4> QED
        BY <2>1, <3>1, <4>1 DEF DependenciesFirst
    <3>3. CASE ~(i <= Len(before(b)))
      <4>1. order[b][i] = b /\ 1..(i - 1) = DOMAIN before(b)
        BY <2>4, <2>5, <3>3
      <4> QED
        BY <2>2, <3>1, <4>1 DEF Range
    <3> QED
      BY <3>2, <3>3
  <2> QED
    BY <2>6 DEF DependenciesFirst
<1>8. Calls \subseteq T
  <2>1. Inductive(Calls, NeedsUnder(eff), T)
    BY <1>7 DEF Inductive
  <2> HIDE DEF T
  <2> QED
    BY <2>1, GraphInduction
<1> HIDE DEF parts
<1>9. SolveOrder(eff, c) \in Seq(Calls) /\ DependenciesFirst(eff, SolveOrder(eff, c))
  BY <1>1, <1>8
<1>10. {Range(SolveOrder(eff, d)) : d \in NeedsUnder(eff)[c]} = {Range(order[d]) : d \in NeedsUnder(eff)[c]}
  BY <1>1, <1>2
<1>11. Range(SolveOrder(eff, c)) = {c} \cup UNION {Range(SolveOrder(eff, d)) : d \in NeedsUnder(eff)[c]}
  BY <1>1, <1>5, <1>10
<1> QED
  BY <1>9, <1>11

\* Without replacements, what is called for c is what iter_calls() reports of it.
THEOREM SolveOrderReaches ==
    ASSUME NEW c \in Calls
    PROVE  Range(SolveOrder([b \in Calls |-> b], c)) = Reach[c]
<1> DEFINE id == [b \in Calls |-> b]
           order(b) == SolveOrder(id, b)
           T == {b \in Calls : Range(order(b)) = Reach[b]}
<1>1. NeedsUnder(id) = needs
  BY DEF NeedsUnder, needs
<1> HIDE DEF id
<1>2. id \in [Calls -> Calls]
  BY DEF id
<1>3. WellFounded(Calls, NeedsUnder(id)) /\ \A b \in Calls : needs[b] \subseteq Calls
  BY <1>1, Acyclic DEF WellFounded
<1>4. ASSUME NEW b \in Calls, needs[b] \subseteq T
      PROVE  b \in T
  <2>1. Range(order(b)) = {b} \cup UNION {Range(order(d)) : d \in needs[b]}
    BY <1>1, <1>2, <1>3, SolveOrderFacts
  <2>2. {Range(order(d)) : d \in needs[b]} = {Reach[d] : d \in needs[b]}
    BY <1>3, <1>4
  <2> QED
    BY <2>1, <2>2, ReachUnfolds
<1>5. Inductive(Calls, needs, T)
  BY <1>4 DEF Inductive
<1> HIDE DEF T
<1>6. Calls \subseteq T
  BY <1>5, Acyclic, GraphInduction
<1> QED
  BY <1>6 DEF T, id


\* What a call reaches of what is reached is reached.
LEMMA ReachFacts ==
    ASSUME NEW c \in Calls
    PROVE  c \in Reach[c] /\ Reach[c] \subseteq Calls /\ \A d \in Reach[c] : Reach[d] \subseteq Reach[c]
<1> DEFINE T == {b \in Calls : \A d \in Reach[b] : Reach[d] \subseteq Reach[b]}
<1>1. ASSUME NEW b \in Calls, needs[b] \subseteq T
      PROVE  b \in T
  <2> SUFFICES ASSUME NEW d \in Reach[b]
               PROVE  Reach[d] \subseteq Reach[b]
    OBVIOUS
  <2>1. Reach[b] = {b} \cup UNION {Reach[e] : e \in needs[b]}
    BY ReachUnfolds
  <2>2. CASE d = b
    BY <2>2
  <2>3. ASSUME NEW e \in needs[b], d \in Reach[e]
        PROVE  Reach[d] \subseteq Reach[b]
    <3>1. Reach[d] \subseteq Reach[e]
      BY <1>1, <2>3
    <3> QED
      BY <2>1, <3>1
  <2> QED
    BY <2>1, <2>2, <2>3
<1>2. Inductive(Calls, needs, T)
  BY <1>1 DEF Inductive
<1> HIDE DEF T
<1>3. c \in T
  BY <1>2, Acyclic, GraphInduction
<1> QED
  BY <1>3, ReachUnfolds DEF T

-----------------------------------------------------------------------------
\* What values are made of

\* Fresh satisfies the equation by which it is defined.
LEMMA FreshUnfolds ==
    ASSUME NEW eff \in [Calls -> Calls], WellFounded(Calls, NeedsUnder(eff)), NEW c \in Calls
    PROVE  Fresh(eff, c) = {eff[c]} \cup UNION {Fresh(eff, d) : d \in NeedsUnder(eff)[c]}
<1> DEFINE V == SUBSET Calls
           next == NeedsUnder(eff)
           step == [p \in Calls \X [Calls -> V] |-> {eff[p[1]]} \cup UNION {p[2][d] : d \in next[p[1]]}]
<1>1. \A b \in Calls : next[b] = Range(Deps[eff[b]]) /\ next[b] \subseteq Calls
  BY DEF NeedsUnder, WellFounded
<1> HIDE DEF next
<1>2. \A b \in Calls, g \in [Calls -> V] :
          step[<<b, g>>] = {eff[b]} \cup UNION {g[d] : d \in next[b]}
  OBVIOUS
<1>3. step \in [Calls \X [Calls -> V] -> V]
  <2> SUFFICES ASSUME NEW b \in Calls, NEW g \in [Calls -> V]
               PROVE  {eff[b]} \cup UNION {g[d] : d \in next[b]} \in V
    OBVIOUS
  <2>1. \A d \in next[b] : g[d] \subseteq Calls
    BY <1>1
  <2> QED
    BY <2>1
<1>4. Local(Calls, V, next, step)
  <2> SUFFICES ASSUME NEW b \in Calls, NEW g \in [Calls -> V], NEW h \in [Calls -> V],
                      \A d \in next[b] : g[d] = h[d]
               PROVE  step[<<b, g>>] = step[<<b, h>>]
    BY DEF Local
  <2>1. {g[d] : d \in next[b]} = {h[d] : d \in next[b]}
    OBVIOUS
  <2>2. step[<<b, g>>] = {eff[b]} \cup UNION {g[d] : d \in next[b]}
    BY <1>2
  <2>3. step[<<b, h>>] = {eff[b]} \cup UNION {h[d] : d \in next[b]}
    BY <1>2
  <2> QED
    BY <2>1, <2>2, <2>3
<1>5. PICK f \in [Calls -> V] : \A b \in Calls : f[b] = step[<<b, f>>]
  <2> HIDE DEF step
  <2>1. Recursive(Calls, V, next, step)
    BY <1>3, <1>4 DEF Recursive, next
  <2> QED
    BY <2>1, GraphRecursion DEF HasSolution
<1>6. f = [b \in Calls |-> {eff[b]} \cup UNION {f[d] : d \in Range(Deps[eff[b]])}]
  <2> HIDE DEF step
  <2>1. ASSUME NEW b \in Calls
        PROVE  f[b] = {eff[b]} \cup UNION {f[d] : d \in Range(Deps[eff[b]])}
    <3>1. f[b] = {eff[b]} \cup UNION {f[d] : d \in next[b]}
      BY <1>2, <1>5
    <3> QED
      BY <1>1, <3>1
  <2> QED
    BY <2>1
<1> DEFINE made == CHOOSE g : g = [b \in Calls |-> {eff[b]} \cup UNION {g[d] : d \in Range(Deps[eff[b]])}]
<1>7. made = [b \in Calls |-> {eff[b]} \cup UNION {made[d] : d \in Range(Deps[eff[b]])}]
  BY <1>6
<1>8. \A b \in Calls : Fresh(eff, b) = made[b]
  BY DEF Fresh
<1> HIDE DEF made
<1>9. {Fresh(eff, d) : d \in next[c]} = {made[d] : d \in next[c]}
  BY <1>1, <1>8
<1>10. made[c] = {eff[c]} \cup UNION {made[d] : d \in next[c]}
  BY <1>1, <1>7
<1> QED
  BY <1>8, <1>9, <1>10 DEF next

\* What a value is made of depends on the replacements for what is called on the way only.
LEMMA FreshAgrees ==
    ASSUME NEW eff \in [Calls -> Calls], WellFounded(Calls, NeedsUnder(eff)),
           NEW other \in [Calls -> Calls], WellFounded(Calls, NeedsUnder(other)),
           NEW S \in SUBSET Calls, \A c \in S : eff[c] = other[c] /\ Range(Deps[eff[c]]) \subseteq S,
           NEW k \in S
    PROVE  Fresh(eff, k) = Fresh(other, k)
<1> DEFINE T == {c \in Calls : c \in S => Fresh(eff, c) = Fresh(other, c)}
<1>1. ASSUME NEW c \in Calls, NeedsUnder(eff)[c] \subseteq T, c \in S
      PROVE  Fresh(eff, c) = Fresh(other, c)
  <2>1. NeedsUnder(eff)[c] = Range(Deps[eff[c]]) /\ NeedsUnder(other)[c] = Range(Deps[eff[c]])
    BY <1>1 DEF NeedsUnder
  <2>2. \A d \in NeedsUnder(eff)[c] : Fresh(eff, d) = Fresh(other, d)
    BY <1>1, <2>1
  <2>3. {Fresh(eff, d) : d \in NeedsUnder(eff)[c]} = {Fresh(other, d) : d \in NeedsUnder(other)[c]}
    BY <2>1, <2>2
  <2>4. Fresh(eff, c) = {eff[c]} \cup UNION {Fresh(eff, d) : d \in NeedsUnder(eff)[c]}
    BY FreshUnfolds
  <2>5. Fresh(other, c) = {other[c]} \cup UNION {Fresh(other, d) : d \in NeedsUnder(other)[c]}
    BY FreshUnfolds
  <2> QED
    BY <1>1, <2>3, <2>4, <2>5
<1>2. Inductive(Calls, NeedsUnder(eff), T)
  BY <1>1 DEF Inductive
<1> HIDE DEF T
<1>3. Calls \subseteq T
  BY <1>2, GraphInduction
<1> QED
  BY <1>3 DEF T

\* FastAPI calls nothing but what can be reached under the replacements.
LEMMA SolveOrderWithin ==
    ASSUME NEW eff \in [Calls -> Calls], WellFounded(Calls, NeedsUnder(eff)),
           NEW S \in SUBSET Calls, \A c \in S : Range(Deps[eff[c]]) \subseteq S, NEW root \in S
    PROVE  Range(SolveOrder(eff, root)) \subseteq S
<1> DEFINE T == {c \in Calls : c \in S => Range(SolveOrder(eff, c)) \subseteq S}
<1>1. ASSUME NEW c \in Calls, NeedsUnder(eff)[c] \subseteq T, c \in S
      PROVE  Range(SolveOrder(eff, c)) \subseteq S
  <2>1. NeedsUnder(eff)[c] = Range(Deps[eff[c]])
    BY DEF NeedsUnder
  <2>2. \A d \in NeedsUnder(eff)[c] : Range(SolveOrder(eff, d)) \subseteq S
    BY <1>1, <2>1
  <2>3. Range(SolveOrder(eff, c)) =
           {c} \cup UNION {Range(SolveOrder(eff, d)) : d \in NeedsUnder(eff)[c]}
    BY SolveOrderFacts
  <2> QED
    BY <1>1, <2>2, <2>3
<1>2. Inductive(Calls, NeedsUnder(eff), T)
  BY <1>1 DEF Inductive
<1> HIDE DEF T
<1>3. Calls \subseteq T
  BY <1>2, GraphInduction
<1> QED
  BY <1>3 DEF T
=============================================================================
