----------------------------- MODULE Recursion -----------------------------
(***************************************************************************)
(* Induction and recursion over data, as lemmas without operator           *)
(* parameters: a property is the set of those that have it, and the body   *)
(* of a recursive function is a function of the argument and of what is    *)
(* known so far.  The models' walks over dependency graphs and their       *)
(* step-by-step computations are recursive functions of this kind.         *)
(***************************************************************************)
EXTENDS Naturals, Sequences, SequencesExt, WellFoundedInduction, SequenceTheorems, TLAPS

-----------------------------------------------------------------------------
\* Natural numbers

\* Every set of natural numbers that is not empty has a least element.
LEMMA LeastNatural ==
    ASSUME NEW T \in SUBSET Nat, T # {}
    PROVE  \E m \in T : \A k \in T : m <= k
<1> DEFINE R == {p \in Nat \X Nat : p[1] < p[2]}
<1>1. IsWellFoundedOn(R, Nat)
  BY NatLessThanWellFounded DEF OpToRel
<1>2. \E x \in T : \A y \in T : ~(<<y, x>> \in R)
  BY <1>1, WFMin
<1>3. \A x, y \in T : ~(<<y, x>> \in R) => x <= y
  OBVIOUS
<1> QED
  BY <1>2, <1>3

\* What holds of 0, and of n + 1 if it holds of n, holds of every natural number.
LEMMA Induction ==
    ASSUME NEW T, 0 \in T, \A n \in Nat : n \in T => n + 1 \in T
    PROVE  Nat \subseteq T
<1> SUFFICES ASSUME ~(Nat \subseteq T)
             PROVE  FALSE
  OBVIOUS
<1> DEFINE U == Nat \ T
<1>1. U \in SUBSET Nat /\ U # {}
  OBVIOUS
<1>2. PICK m \in U : \A k \in U : m <= k
  <2> HIDE DEF U
  <2> QED
    BY <1>1, LeastNatural
<1>3. m # 0 /\ m - 1 \in Nat /\ m - 1 \notin U
  BY <1>2
<1>4. m - 1 \in T
  BY <1>3
<1> QED
  BY <1>2, <1>3, <1>4

-----------------------------------------------------------------------------
\* Graphs

\* next[c] is what c depends on: no chain of dependencies goes on forever.
WellFounded(C, next) ==
    /\ next \in [C -> SUBSET C]
    /\ \A S \in SUBSET C : S # {} => \E c \in S : next[c] \cap S = {}

\* T takes in whatever depends on T only.
Inductive(C, next, T) == \A c \in C : next[c] \subseteq T => c \in T

\* g does what step says for all of D.
Solves(D, g, next, step) ==
    /\ \A c \in D : next[c] \subseteq D
    /\ \A c \in D : g[c] = step[<<c, g>>]

\* step looks at nothing but what c depends on.
Local(C, V, next, step) ==
    \A c \in C : \A g, h \in [C -> V] :
        (\A d \in next[c] : g[d] = h[d]) => step[<<c, g>>] = step[<<c, h>>]

\* The conditions under which step defines a function from C to V, and that it does.
Recursive(C, V, next, step) ==
    /\ V # {}
    /\ WellFounded(C, next)
    /\ step \in [C \X [C -> V] -> V] /\ Local(C, V, next, step)
HasSolution(C, V, step) == \E f \in [C -> V] : \A c \in C : f[c] = step[<<c, f>>]

\* What holds of everything whose dependencies all have it holds of everything.
LEMMA GraphInduction ==
    ASSUME NEW C, NEW next, WellFounded(C, next), NEW T, Inductive(C, next, T)
    PROVE  C \subseteq T
<1> SUFFICES ASSUME C \ T # {}
             PROVE  FALSE
  OBVIOUS
<1>1. PICK c \in C \ T : next[c] \cap (C \ T) = {}
  BY DEF WellFounded
<1>2. next[c] \subseteq T
  BY <1>1 DEF WellFounded
<1> QED
  BY <1>1, <1>2 DEF Inductive

\* Two solutions agree where both are.
LEMMA SolutionsAgree ==
    ASSUME NEW C, NEW V, NEW next, WellFounded(C, next), NEW step,
           Local(C, V, next, step), NEW D \in SUBSET C, NEW E \in SUBSET C,
           NEW g \in [C -> V], NEW h \in [C -> V],
           Solves(D, g, next, step), Solves(E, h, next, step)
    PROVE  \A c \in D \cap E : g[c] = h[c]
<1> DEFINE T == {c \in C : c \in D \cap E => g[c] = h[c]}
<1>1. ASSUME NEW c \in C, next[c] \subseteq T
      PROVE  c \in T
  <2> SUFFICES ASSUME c \in D \cap E
               PROVE  g[c] = h[c]
    OBVIOUS
  <2>1. \A d \in next[c] : g[d] = h[d]
    BY <1>1 DEF Solves
  <2>2. step[<<c, g>>] = step[<<c, h>>]
    BY <2>1 DEF Local
  <2> QED
    BY <2>2 DEF Solves
<1> HIDE DEF T
<1>2. C \subseteq T
  BY <1>1, GraphInduction DEF Inductive
<1> QED
  BY <1>2 DEF T

\* A recursive function along a well-founded graph exists.
THEOREM GraphRecursion ==
    ASSUME NEW C, NEW V, NEW next, NEW step, Recursive(C, V, next, step)
    PROVE  HasSolution(C, V, step)
<1> USE DEF Recursive
<1> DEFINE Known(c) == \E D \in SUBSET C, g \in [C -> V] : c \in D /\ Solves(D, g, next, step)
           IsValue(c, v) == \E D \in SUBSET C, g \in [C -> V] :
                                c \in D /\ Solves(D, g, next, step) /\ g[c] = v
           any == CHOOSE v \in V : TRUE
           good == {c \in C : Known(c)}
           F == [c \in C |-> IF Known(c) THEN CHOOSE v \in V : IsValue(c, v) ELSE any]
<1>1. F \in [C -> V]
  <2>1. \A c \in C : Known(c) => \E v \in V : IsValue(c, v)
    OBVIOUS
  <2> QED
    BY <2>1
<1>2. ASSUME NEW D \in SUBSET C, NEW g \in [C -> V], Solves(D, g, next, step), NEW c \in D
      PROVE  c \in good /\ F[c] = g[c]
  <2>1. Known(c) /\ IsValue(c, g[c]) /\ g[c] \in V
    BY <1>2
  <2>2. \A v \in V : IsValue(c, v) => v = g[c]
    BY <1>2, SolutionsAgree
  <2> QED
    BY <2>1, <2>2
<1>3. Solves(good, F, next, step)
  <2> SUFFICES ASSUME NEW c \in good
               PROVE  next[c] \subseteq good /\ F[c] = step[<<c, F>>]
    BY DEF Solves
  <2>1. PICK D \in SUBSET C, g \in [C -> V] : c \in D /\ Solves(D, g, next, step)
    OBVIOUS
  <2>2. next[c] \subseteq D /\ g[c] = step[<<c, g>>]
    BY <2>1 DEF Solves
  <2>3. \A d \in D : d \in good /\ F[d] = g[d]
    BY <1>2, <2>1
  <2> HIDE DEF F, good
  <2>4. step[<<c, F>>] = step[<<c, g>>]
    BY <1>1, <2>1, <2>2, <2>3 DEF Local
  <2> QED
    BY <2>1, <2>2, <2>3, <2>4
<1>4. ASSUME NEW c \in C, next[c] \subseteq good
      PROVE  c \in good
  <2> DEFINE D == good \cup {c}
             g == [F EXCEPT ![c] = step[<<c, F>>]]
  <2>1. SUFFICES ASSUME c \notin good
                 PROVE  c \in good
    OBVIOUS
  <2>2. g \in [C -> V] /\ D \in SUBSET C
    BY <1>1
  <2>3. g[c] = step[<<c, F>>] /\ \A d \in good : g[d] = F[d]
    BY <1>1, <2>1
  <2>4. Solves(D, g, next, step)
    <3> SUFFICES ASSUME NEW d \in D
                 PROVE  next[d] \subseteq D /\ g[d] = step[<<d, g>>]
      BY DEF Solves
    <3>1. next[d] \subseteq good
      BY <1>3, <1>4 DEF Solves
    <3>2. d \in C /\ step[<<d, F>>] = step[<<d, g>>]
      <4> HIDE DEF F, g, good
      <4> QED
        BY <1>1, <1>4, <2>2, <2>3, <3>1 DEF Local, good
    <3>3. g[d] = step[<<d, F>>]
      BY <1>3, <2>3 DEF Solves
    <3> QED
      BY <3>1, <3>2, <3>3
  <2> QED
    BY <2>2, <2>4
<1> HIDE DEF F, good
<1>5. C \subseteq good
  BY <1>4, GraphInduction DEF Inductive
<1> QED
  BY <1>1, <1>3, <1>5 DEF Solves, HasSolution

-----------------------------------------------------------------------------
\* Concatenation

\* FlattenSeq concatenates one sequence after the other.
LEMMA FlattenUnfolds ==
    ASSUME NEW S, NEW seqs \in Seq(Seq(S)), seqs # <<>>
    PROVE  \E f \in [1..Len(seqs) -> Seq(S)] :
              /\ f[1] = seqs[1]
              /\ \A i \in 1..(Len(seqs) - 1) : f[i + 1] = f[i] \o seqs[i + 1]
              /\ FlattenSeq(seqs) = f[Len(seqs)]
<1> DEFINE n == Len(seqs)
           C == 1..n
           V == Seq(S)
           next == [i \in C |-> IF i = 1 THEN {} ELSE {i - 1}]
           step == [p \in C \X [C -> V] |-> IF p[1] = 1 THEN seqs[p[1]] ELSE p[2][p[1] - 1] \o seqs[p[1]]]
<1>1. n \in Nat /\ n # 0 /\ \A i \in C : seqs[i] \in V
  BY EmptySeq, ElementOfSeq
<1>2. \A i \in C, g \in [C -> V] :
          step[<<i, g>>] = IF i = 1 THEN seqs[i] ELSE g[i - 1] \o seqs[i]
  OBVIOUS
<1>3. step \in [C \X [C -> V] -> V]
  <2> SUFFICES ASSUME NEW i \in C, NEW g \in [C -> V]
               PROVE  (IF i = 1 THEN seqs[i] ELSE g[i - 1] \o seqs[i]) \in V
    OBVIOUS
  <2>1. CASE i = 1
    BY <1>1, <2>1
  <2>2. CASE i # 1
    <3>1. i - 1 \in C
      BY <1>1, <2>2
    <3>2. g[i - 1] \in V /\ seqs[i] \in V
      BY <1>1, <3>1
    <3> QED
      BY <2>2, <3>2, ConcatProperties
  <2> QED
    BY <2>1, <2>2
<1>4. next \in [C -> SUBSET C]
  BY <1>1
<1>5. WellFounded(C, next)
  <2> SUFFICES ASSUME NEW D \in SUBSET C, D # {}
               PROVE  \E i \in D : next[i] \cap D = {}
    BY <1>4 DEF WellFounded
  <2>1. D \in SUBSET Nat
    BY <1>1
  <2>2. PICK m \in D : \A k \in D : m <= k
    BY <2>1, LeastNatural
  <2> QED
    BY <1>1, <2>1, <2>2
<1>6. Local(C, V, next, step)
  BY <1>2 DEF Local
<1>7. \E f \in [C -> V] : \A i \in C : f[i] = step[<<i, f>>]
  <2> HIDE DEF step, next
  <2>1. V # {}
    BY EmptySeq
  <2> HIDE DEF V, C
  <2>2. Recursive(C, V, next, step)
    BY <1>3, <1>5, <1>6, <2>1 DEF Recursive
  <2> QED
    BY <2>2, GraphRecursion DEF HasSolution
<1>8. PICK f \in [C -> V] : \A i \in C : f[i] = step[<<i, f>>]
  BY <1>7
<1>9. \A i \in C : f[i] = IF i = 1 THEN seqs[i] ELSE f[i - 1] \o seqs[i]
  <2> HIDE DEF step
  <2> QED
    BY <1>2, <1>8
<1> DEFINE flatten == CHOOSE g : g = [i \in 1..Len(seqs) |-> IF i = 1 THEN seqs[i] ELSE g[i - 1] \o seqs[i]]
<1>10. flatten = [i \in 1..Len(seqs) |-> IF i = 1 THEN seqs[i] ELSE flatten[i - 1] \o seqs[i]]
  <2>1. f = [i \in 1..Len(seqs) |-> IF i = 1 THEN seqs[i] ELSE f[i - 1] \o seqs[i]]
    BY <1>9
  <2> QED
    BY <2>1
<1>11. FlattenSeq(seqs) = flatten[n]
  BY <1>1 DEF FlattenSeq
<1> HIDE DEF flatten
<1>12. C \subseteq {i \in C : flatten[i] \in V}
  <2> DEFINE T == {i \in C : flatten[i] \in V}
  <2>1. ASSUME NEW i \in C, next[i] \subseteq T
        PROVE  i \in T
    <3>1. CASE i = 1
      BY <1>1, <1>10, <3>1
    <3>2. CASE i # 1
      <4>1. i - 1 \in T
        BY <1>1, <2>1, <3>2
      <4>2. flatten[i] = flatten[i - 1] \o seqs[i]
        BY <1>10, <3>2
      <4>3. flatten[i - 1] \in Seq(S) /\ seqs[i] \in Seq(S)
        BY <1>1, <4>1
      <4>4. flatten[i] \in Seq(S)
        BY <4>2, <4>3, ConcatProperties
      <4> QED
        BY <4>4
    <3> QED
      BY <3>1, <3>2
  <2>2. Inductive(C, next, T)
    BY <2>1 DEF Inductive
  <2> HIDE DEF T, C, next
  <2>3. C \subseteq T
    BY <1>5, <2>2, GraphInduction
  <2> QED
    BY <2>3 DEF T
<1>13. flatten \in [C -> V]
  BY <1>10, <1>12
<1>14. ASSUME NEW i \in 1..(n - 1)
       PROVE  flatten[i + 1] = flatten[i] \o seqs[i + 1]
  <2> DEFINE j == i + 1
  <2>1. j \in C /\ j # 1 /\ j - 1 = i
    BY <1>1
  <2> HIDE DEF j
  <2>2. flatten[j] = flatten[j - 1] \o seqs[j]
    BY <1>10, <2>1
  <2>3. flatten[j] = flatten[i] \o seqs[j]
    BY <2>1, <2>2
  <2> QED
    BY <2>3 DEF j
<1>15. flatten[1] = seqs[1]
  BY <1>1, <1>10
<1> QED
  BY <1>11, <1>13, <1>14, <1>15

\* What holds of the empty sequence and of the concatenation of any two sequences it
\* holds of, holds of FlattenSeq.
LEMMA FlattenClosed ==
    ASSUME NEW S, NEW seqs \in Seq(Seq(S)), NEW T, <<>> \in T,
           \A i \in 1..Len(seqs) : seqs[i] \in T, \A s, t \in T : s \o t \in T
    PROVE  FlattenSeq(seqs) \in T
<1>1. CASE seqs = <<>>
  <2>1. Len(seqs) = 0
    BY <1>1, EmptySeq
  <2> QED
    BY <1>1, <2>1 DEF FlattenSeq
<1>2. CASE seqs # <<>>
  <2>1. PICK f \in [1..Len(seqs) -> Seq(S)] :
            /\ f[1] = seqs[1]
            /\ \A i \in 1..(Len(seqs) - 1) : f[i + 1] = f[i] \o seqs[i + 1]
            /\ FlattenSeq(seqs) = f[Len(seqs)]
    BY <1>2, FlattenUnfolds
  <2> DEFINE U == {i \in Nat : i \in 0..Len(seqs) => i = 0 \/ f[i] \in T}
  <2>2. Len(seqs) \in Nat /\ Len(seqs) # 0
    BY <1>2, EmptySeq
  <2>3. ASSUME NEW n \in Nat, n \in U
        PROVE  n + 1 \in U
    <3> SUFFICES ASSUME n + 1 \in 1..Len(seqs)
                 PROVE  f[n + 1] \in T
      OBVIOUS
    <3>1. seqs[n + 1] \in T
      OBVIOUS
    <3>2. CASE n = 0
      BY <2>1, <3>1, <3>2
    <3>3. CASE n # 0
      <4>1. n \in 1..(Len(seqs) - 1) /\ f[n] \in T
        BY <2>2, <2>3, <3>3
      <4>2. f[n + 1] = f[n] \o seqs[n + 1]
        BY <2>1, <4>1
      <4> QED
        BY <3>1, <4>1, <4>2
    <3> QED
      BY <3>2, <3>3
  <2>4. 0 \in U
    OBVIOUS
  <2> HIDE DEF U
  <2>5. Nat \subseteq U
    BY <2>3, <2>4, Induction
  <2> QED
    BY <2>1, <2>2, <2>5, SMTT(20) DEF U
<1> QED
  BY <1>1, <1>2

\* The elements of a concatenation.
LEMMA ConcatRange ==
    ASSUME NEW S, NEW s \in Seq(S), NEW t \in Seq(S)
    PROVE  Range(s \o t) = Range(s) \cup Range(t)
<1>1. /\ Len(s) \in Nat /\ Len(t) \in Nat
      /\ DOMAIN s = 1..Len(s) /\ DOMAIN t = 1..Len(t) /\ DOMAIN (s \o t) = 1..(Len(s) + Len(t))
      /\ \A i \in 1..(Len(s) + Len(t)) :
            (s \o t)[i] = IF i <= Len(s) THEN s[i] ELSE t[i - Len(s)]
  BY ConcatProperties, LenProperties
<1>2. ASSUME NEW i \in 1..(Len(s) + Len(t))
      PROVE  (s \o t)[i] \in Range(s) \cup Range(t)
  BY <1>1 DEF Range
<1>3. ASSUME NEW i \in 1..Len(s)
      PROVE  s[i] \in Range(s \o t)
  <2>1. i \in 1..(Len(s) + Len(t)) /\ (s \o t)[i] = s[i]
    BY <1>1
  <2> QED
    BY <1>1, <2>1 DEF Range
<1>4. ASSUME NEW i \in 1..Len(t)
      PROVE  t[i] \in Range(s \o t)
  <2>1. i + Len(s) \in 1..(Len(s) + Len(t)) /\ (s \o t)[i + Len(s)] = t[i]
    BY <1>1
  <2> QED
    BY <1>1, <2>1 DEF Range
<1>5. Range(s \o t) \subseteq Range(s) \cup Range(t)
  BY <1>1, <1>2 DEF Range
<1>6. Range(s) \subseteq Range(s \o t)
  BY <1>1, <1>3 DEF Range
<1>7. Range(t) \subseteq Range(s \o t)
  BY <1>1, <1>4 DEF Range
<1> QED
  BY <1>5, <1>6, <1>7

\* The elements of FlattenSeq.
LEMMA FlattenRange ==
    ASSUME NEW S, NEW seqs \in Seq(Seq(S))
    PROVE  Range(FlattenSeq(seqs)) = UNION {Range(seqs[i]) : i \in 1..Len(seqs)}
<1>1. CASE seqs = <<>>
  <2>1. Len(seqs) = 0
    BY <1>1, EmptySeq
  <2>2. FlattenSeq(seqs) = <<>>
    BY <1>1, <2>1 DEF FlattenSeq
  <2>3. 1..Len(seqs) = {} /\ DOMAIN (<<>>) = {}
    BY <2>1
  <2> QED
    BY <2>2, <2>3 DEF Range
<1>2. CASE seqs # <<>>
  <2>1. PICK f \in [1..Len(seqs) -> Seq(S)] :
            /\ f[1] = seqs[1]
            /\ \A i \in 1..(Len(seqs) - 1) : f[i + 1] = f[i] \o seqs[i + 1]
            /\ FlattenSeq(seqs) = f[Len(seqs)]
    BY <1>2, FlattenUnfolds
  <2> DEFINE upto(n) == UNION {Range(seqs[i]) : i \in 1..n}
             U == {n \in Nat : n \in 1..Len(seqs) => Range(f[n]) = upto(n)}
  <2>2. Len(seqs) \in Nat /\ Len(seqs) # 0
    BY <1>2, EmptySeq
  <2>3. ASSUME NEW n \in Nat, n \in U
        PROVE  n + 1 \in U
    <3> SUFFICES ASSUME n + 1 \in 1..Len(seqs)
                 PROVE  Range(f[n + 1]) = upto(n + 1)
      OBVIOUS
    <3>1. 1..(n + 1) = 1..n \cup {n + 1}
      OBVIOUS
    <3>2. upto(n + 1) = upto(n) \cup Range(seqs[n + 1])
      BY <3>1
    <3>3. CASE n = 0
      <4>1. 1..n = {} /\ n + 1 = 1
        BY <3>3
      <4>2. upto(n) = {}
        BY <4>1
      <4> QED
        BY <2>1, <3>2, <4>1, <4>2
    <3>4. CASE n # 0
      <4>1. n \in 1..Len(seqs) /\ n \in 1..(Len(seqs) - 1)
        BY <2>2, <3>4
      <4>2. Range(f[n]) = upto(n)
        BY <2>3, <4>1
      <4>3. f[n + 1] = f[n] \o seqs[n + 1]
        BY <2>1, <4>1
      <4>4. f[n] \in Seq(S) /\ seqs[n + 1] \in Seq(S)
        BY <2>1, <4>1, ElementOfSeq
      <4>5. Range(f[n + 1]) = Range(f[n]) \cup Range(seqs[n + 1])
        BY <4>3, <4>4, ConcatRange
      <4> QED
        BY <3>2, <4>2, <4>5
    <3> QED
      BY <3>3, <3>4
  <2>4. 0 \in U
    OBVIOUS
  <2> HIDE DEF U
  <2>5. Nat \subseteq U
    BY <2>3, <2>4, Induction
  <2>6. Range(f[Len(seqs)]) = upto(Len(seqs))
    <3>1. Len(seqs) \in U /\ Len(seqs) \in 1..Len(seqs)
      BY <2>2, <2>5
    <3> HIDE DEF upto
    <3> QED
      BY <3>1 DEF U
  <2> QED
    BY <2>1, <2>6
<1> QED
  BY <1>1, <1>2

-----------------------------------------------------------------------------
\* The first of its kind in a sequence

\* e is in P, and nothing in front of it is.
FirstIn(s, P, e) ==
    \E j \in DOMAIN s : /\ s[j] = e /\ e \in P
                        /\ \A i \in DOMAIN s : i < j => s[i] \notin P

\* The first in a concatenation is the first in the first part, or in the second part if
\* there is none in the first.
LEMMA ConcatFirst ==
    ASSUME NEW S, NEW s \in Seq(S), NEW t \in Seq(S), NEW P, NEW e
    PROVE  /\ FirstIn(s, P, e) => FirstIn(s \o t, P, e)
           /\ Range(s) \cap P = {} /\ FirstIn(t, P, e) => FirstIn(s \o t, P, e)
<1> DEFINE u == s \o t
<1>1. /\ Len(s) \in Nat /\ Len(t) \in Nat
      /\ DOMAIN s = 1..Len(s) /\ DOMAIN t = 1..Len(t) /\ DOMAIN u = 1..(Len(s) + Len(t))
      /\ \A i \in 1..(Len(s) + Len(t)) : u[i] = IF i <= Len(s) THEN s[i] ELSE t[i - Len(s)]
  BY ConcatProperties, LenProperties
<1> HIDE DEF u
<1>2. ASSUME FirstIn(s, P, e)
      PROVE  FirstIn(u, P, e)
  <2>1. PICK j \in 1..Len(s) : s[j] = e /\ e \in P /\ \A i \in 1..Len(s) : i < j => s[i] \notin P
    BY <1>1, <1>2 DEF FirstIn
  <2>2. j \in DOMAIN u /\ u[j] = e
    BY <1>1, <2>1
  <2>3. \A i \in DOMAIN u : i < j => i \in 1..Len(s) /\ u[i] = s[i]
    BY <1>1, <2>1
  <2> QED
    BY <2>1, <2>2, <2>3 DEF FirstIn
<1>3. ASSUME Range(s) \cap P = {}, FirstIn(t, P, e)
      PROVE  FirstIn(u, P, e)
  <2>1. PICK j \in 1..Len(t) : t[j] = e /\ e \in P /\ \A i \in 1..Len(t) : i < j => t[i] \notin P
    BY <1>1, <1>3 DEF FirstIn
  <2>2. j + Len(s) \in DOMAIN u /\ u[j + Len(s)] = e
    BY <1>1, <2>1
  <2>3. \A i \in 1..Len(s) : s[i] \notin P
    BY <1>1, <1>3 DEF Range
  <2>4. ASSUME NEW i \in DOMAIN u, i < j + Len(s)
        PROVE  u[i] \notin P
    <3>1. CASE i <= Len(s)
      <4>1. i \in 1..Len(s) /\ u[i] = s[i]
        BY <1>1, <3>1
      <4> QED
        BY <2>3, <4>1
    <3>2. CASE ~(i <= Len(s))
      <4>1. i - Len(s) \in 1..Len(t) /\ i - Len(s) < j /\ u[i] = t[i - Len(s)]
        BY <1>1, <2>4, <3>2
      <4> QED
        BY <2>1, <4>1
    <3> QED
      BY <3>1, <3>2
  <2> QED
    BY <2>1, <2>2, <2>4 DEF FirstIn
<1> QED
  BY <1>2, <1>3 DEF u

\* The same for FlattenSeq.
LEMMA FlattenFirst ==
    ASSUME NEW S, NEW seqs \in Seq(Seq(S)), NEW P, NEW e, NEW k \in 1..Len(seqs),
           \A i \in 1..(k - 1) : Range(seqs[i]) \cap P = {}, FirstIn(seqs[k], P, e)
    PROVE  FirstIn(FlattenSeq(seqs), P, e)
<1>1. Len(seqs) \in Nat /\ seqs # <<>>
  BY EmptySeq, LenProperties
<1>2. PICK f \in [1..Len(seqs) -> Seq(S)] :
          /\ f[1] = seqs[1]
          /\ \A i \in 1..(Len(seqs) - 1) : f[i + 1] = f[i] \o seqs[i + 1]
          /\ FlattenSeq(seqs) = f[Len(seqs)]
  BY <1>1, FlattenUnfolds
<1> DEFINE U == {n \in Nat : n \in 1..Len(seqs) => /\ n < k => Range(f[n]) \cap P = {}
                                                   /\ n >= k => FirstIn(f[n], P, e)}
<1>3. ASSUME NEW n \in Nat, n \in U
      PROVE  n + 1 \in U
  <2> SUFFICES ASSUME n + 1 \in 1..Len(seqs)
               PROVE  /\ n + 1 < k => Range(f[n + 1]) \cap P = {}
                      /\ n + 1 >= k => FirstIn(f[n + 1], P, e)
    OBVIOUS
  <2>1. CASE n = 0
    <3>1. f[n + 1] = seqs[n + 1]
      BY <1>2, <2>1
    <3>2. n + 1 >= k => k = n + 1
      BY <1>1, <2>1
    <3>3. n + 1 < k => n + 1 \in 1..(k - 1)
      BY <1>1
    <3> QED
      BY <3>1, <3>2, <3>3
  <2>2. CASE n # 0
    <3>1. n \in 1..Len(seqs) /\ n \in 1..(Len(seqs) - 1)
      BY <1>1, <2>2
    <3>2. f[n + 1] = f[n] \o seqs[n + 1] /\ f[n] \in Seq(S) /\ seqs[n + 1] \in Seq(S)
      BY <1>2, <3>1, ElementOfSeq
    <3>3. /\ n < k => Range(f[n]) \cap P = {}
          /\ n >= k => FirstIn(f[n], P, e)
      BY <1>3, <3>1
    <3>4. CASE n + 1 < k
      <4>1. n + 1 \in 1..(k - 1) /\ n < k /\ ~(n + 1 >= k)
        BY <1>1, <3>4
      <4>2. Range(f[n]) \cap P = {} /\ Range(seqs[n + 1]) \cap P = {}
        BY <3>3, <4>1
      <4>3. Range(f[n + 1]) = Range(f[n]) \cup Range(seqs[n + 1])
        BY <3>2, ConcatRange
      <4>4. Range(f[n + 1]) \cap P = {}
        BY <4>2, <4>3
      <4> QED
        BY <4>1, <4>4
    <3>5. CASE n + 1 = k
      <4>1. n < k /\ ~(n + 1 < k)
        BY <1>1, <3>5
      <4>2. Range(f[n]) \cap P = {} /\ FirstIn(seqs[n + 1], P, e)
        BY <3>3, <3>5, <4>1
      <4>3. FirstIn(f[n] \o seqs[n + 1], P, e)
        BY <3>2, <4>2, ConcatFirst
      <4> QED
        BY <3>2, <4>1, <4>3
    <3>6. CASE n >= k
      <4>1. ~(n + 1 < k) /\ FirstIn(f[n], P, e)
        BY <1>1, <3>3, <3>6
      <4>2. FirstIn(f[n] \o seqs[n + 1], P, e)
        BY <3>2, <4>1, ConcatFirst
      <4> QED
        BY <3>2, <4>1, <4>2
    <3>7. n + 1 < k \/ n + 1 = k \/ n >= k
      BY <1>1
    <3> QED
      BY <3>4, <3>5, <3>6, <3>7
  <2> QED
    BY <2>1, <2>2
<1>4. 0 \in U
  OBVIOUS
<1>5. Nat \subseteq U
  <2> HIDE DEF U
  <2> QED
    BY <1>3, <1>4, Induction
<1>6. Len(seqs) \in U /\ Len(seqs) \in 1..Len(seqs) /\ Len(seqs) >= k
  <2> HIDE DEF U
  <2> QED
    BY <1>1, <1>5
<1> QED
  BY <1>2, <1>6

\* FlattenSeq of sequences over a set is one.
LEMMA FlattenInSeq ==
    ASSUME NEW S, NEW seqs \in Seq(Seq(S))
    PROVE  FlattenSeq(seqs) \in Seq(S)
<1>1. \A s, t \in Seq(S) : s \o t \in Seq(S)
  BY ConcatProperties
<1>2. <<>> \in Seq(S)
  BY EmptySeq
<1>3. \A i \in 1..Len(seqs) : seqs[i] \in Seq(S)
  BY ElementOfSeq
<1> QED
  BY <1>1, <1>2, <1>3, FlattenClosed
=============================================================================
