------------------------- MODULE RuntimeCallsProofs -------------------------
(***************************************************************************)
(* What is made at runtime is forgotten with the resolves that use it, is  *)
(* called through proxies that are there as long as they are needed, is    *)
(* made once, and passes every argument to its own parameter: the          *)
(* invariants of RuntimeCalls hold for every set of calls, recipes, tasks  *)
(* and overrides.                                                          *)
(***************************************************************************)
EXTENDS RuntimeCalls, Recursion, FiniteSetTheorems

-----------------------------------------------------------------------------
\* The inductive invariant

Name == STRING \cup Range(DepArg) \cup {"extra"}
Parameter == [name : Name, kind : Range(Kinds), dep : Calls \cup {NoDep}]
Signatures == {sign \in Seq(Parameter) : Valid(sign)}
MadeObject == [func : Given, sign : Signatures, bound : Seq(Calls), again : BOOLEAN]
VisitType == [key : Calls, call : Calls, ready : BOOLEAN]
Job == [root : Calls \cup {NoDep}, phase : {"idle", "waiting", "solving"}, todo : Seq(VisitType)]

\* What the app may replace: each entry is one of those there ever are.
Mixtures ==
    {a \in Replacements : \A k \in DOMAIN a : \E e \in Entries \cup {AppOverrides} :
                             k \in DOMAIN e /\ a[k] = e[k]}
Replace(a, k) == IF k \in DOMAIN a THEN a[k] ELSE k

Typed ==
    /\ DOMAIN made \subseteq Objects /\ made \in [DOMAIN made -> MadeObject]
    /\ analysed \subseteq Roots /\ cache \subseteq Calls
    /\ proxies \subseteq [task : Tasks, list : {"root", "handed"}, call : Runtime]
    /\ jobs \in [Tasks -> Job]
    /\ built \in [Calls -> 0..MaxBuilt]
    /\ app \in Mixtures /\ blocks \in Seq(Mixtures) /\ Len(blocks) <= MaxBlocks

\* Every dependency exists, and nothing depends on itself.
Grounded ==
    /\ \A c \in Existing : Graph[c] \subseteq Existing
    /\ \A a \in Mixtures : \A S \in SUBSET Existing : S # {} =>
          \E k \in S : Graph[Replace(a, k)] \cap S = {}

\* What t may call: source code, and what it has a proxy for.
Mine(t) == Static \cup {p.call : p \in {q \in proxies : q.task = t}}

\* A resolve has proxies for what it calls, and for whatever that depends on.
Served ==
    \A t \in Tasks :
        /\ Mine(t) \subseteq Existing /\ \A c \in Mine(t) : Graph[c] \subseteq Mine(t)
        /\ ~Idle(t) => jobs[t].root \in Mine(t)
        /\ \A w \in Range(jobs[t].todo) : w.key \in Mine(t) /\ w.call \in Mine(t)

\* What t uses while it resolves.
Used(t) == UNION {Behind(c) : c \in {jobs[t].root} \cup UNION {Range(e) : e \in Entries \cup {AppOverrides}}}

\* FastAPI holds on to nothing but proxies of what is used.
Forgotten ==
    /\ shown = {} /\ analysed \subseteq Static
    /\ \A p \in proxies : ~Idle(p.task) /\ p.call \in Used(p.task)

\* One task at a time solves, and it stops at a call that has no value yet.
Stops(todo, values) == todo = <<>> \/ (Head(todo).ready /\ Head(todo).key \notin values)
Solving ==
    /\ \A t, u \in Tasks : jobs[t].phase = "solving" /\ jobs[u].phase = "solving" => t = u
    /\ \A t \in Tasks : IF jobs[t].phase = "solving" THEN Stops(jobs[t].todo, cache) ELSE jobs[t].todo = <<>>

\* What was built is kept.
BuiltIsCached == \A c \in Calls : built[c] = 0 \/ (built[c] = 1 /\ c \in cache)

\* The outermost block restores what the app started with.
Restoring == IF blocks = <<>> THEN app = AppOverrides ELSE blocks[1] = AppOverrides

RInv == Typed /\ Grounded /\ Served /\ Forgotten /\ Solving /\ BuiltIsCached /\ Restoring

-----------------------------------------------------------------------------
\* Parameters of a signature

\* part holds the parameters among the first n of sign that are in params, in order.
Selects(part, params, sign, n, S) ==
    /\ part \in Seq(S)
    /\ \E at \in [1..Len(part) -> 1..n] :
          /\ \A i, j \in 1..Len(part) : i < j => at[i] < at[j]
          /\ \A i \in 1..Len(part) : part[i] = sign[at[i]] /\ part[i] \in params
          /\ \A k \in 1..n : sign[k] \in params => \E i \in 1..Len(part) : at[i] = k

\* The next parameter is taken or left.
LEMMA SelectsOne ==
    ASSUME NEW S, NEW sign \in Seq(S), NEW params, NEW n \in Nat, n + 1 \in 1..Len(sign), NEW part,
           Selects(part, params, sign, n, S)
    PROVE  Selects(part \o (IF sign[n + 1] \in params THEN <<sign[n + 1]>> ELSE <<>>), params, sign, n + 1, S)
<1>1. PICK at \in [1..Len(part) -> 1..n] :
          /\ \A i, j \in 1..Len(part) : i < j => at[i] < at[j]
          /\ \A i \in 1..Len(part) : part[i] = sign[at[i]] /\ part[i] \in params
          /\ \A k \in 1..n : sign[k] \in params => \E i \in 1..Len(part) : at[i] = k
  BY DEF Selects
<1>2. part \in Seq(S) /\ Len(part) \in Nat
  BY DEF Selects
<1>3. CASE sign[n + 1] \notin params
  <2>1. part \o <<>> = part
    BY <1>2
  <2>2. at \in [1..Len(part) -> 1..(n + 1)]
    BY <1>1
  <2>3. \A k \in 1..(n + 1) : sign[k] \in params => k \in 1..n
    BY <1>3
  <2>4. Selects(part, params, sign, n + 1, S)
    <3>1. \A k \in 1..(n + 1) : sign[k] \in params => \E i \in 1..Len(part) : at[i] = k
      BY <1>1, <2>3
    <3> QED
      BY ONLY <1>1, <1>2, <2>2, <3>1 DEF Selects
  <2> QED
    BY <1>3, <2>1, <2>4
<1>4. CASE sign[n + 1] \in params
  <2> DEFINE x == sign[n + 1]
             m == Len(part) + 1
             more == [i \in 1..m |-> IF i = m THEN n + 1 ELSE at[i]]
  <2>1. PICK longer : longer = part \o <<x>>
    OBVIOUS
  <2>2. x \in S
    OBVIOUS
  <2>3. longer \in Seq(S) /\ Len(longer) = m /\ longer[m] = x /\ \A i \in 1..Len(part) : longer[i] = part[i]
    BY <1>2, <2>1, <2>2
  <2>4. more \in [1..m -> 1..(n + 1)] /\ more[m] = n + 1 /\ \A i \in 1..Len(part) : more[i] = at[i] /\ at[i] \in 1..n
    <3>1. m \in 1..m /\ \A i \in 1..Len(part) : i \in 1..m /\ i # m /\ at[i] \in 1..n
      BY <1>1, <1>2
    <3>2. \A i \in 1..m : i = m \/ i \in 1..Len(part)
      BY <1>2
    <3>3. \A i \in 1..m : (IF i = m THEN n + 1 ELSE at[i]) \in 1..(n + 1)
      BY <3>1, <3>2
    <3> HIDE DEF m
    <3> QED
      BY <3>1, <3>3
  <2>5. \A i \in 1..m : i = m \/ i \in 1..Len(part)
    BY <1>2
  <2>6. m \in 1..m
    BY <1>2
  <2> HIDE DEF more, m, x
  <2>7. \A i, j \in 1..m : i < j => more[i] < more[j]
    <3> SUFFICES ASSUME NEW i \in 1..m, NEW j \in 1..m, i < j
                 PROVE  more[i] < more[j]
      OBVIOUS
    <3>1. i \in 1..Len(part)
      BY <1>2, <2>5 DEF m
    <3> QED
      BY <1>1, <2>4, <2>5, <3>1
  <2>8. \A i \in 1..m : longer[i] = sign[more[i]] /\ longer[i] \in params
    BY <1>1, <1>4, <2>3, <2>4, <2>5 DEF x
  <2>9. ASSUME NEW k \in 1..(n + 1), sign[k] \in params
        PROVE  \E i \in 1..m : more[i] = k
    <3>1. CASE k = n + 1
      BY <2>4, <2>6, <3>1
    <3>2. CASE k \in 1..n
      <4>1. PICK i \in 1..Len(part) : at[i] = k
        BY <1>1, <2>9, <3>2
      <4>2. i \in 1..m /\ more[i] = k
        BY <1>2, <2>4, <4>1 DEF m
      <4> QED
        BY <4>2
    <3> QED
      BY <3>1, <3>2
  <2>10. Selects(longer, params, sign, n + 1, S)
    <3>1. \A k \in 1..(n + 1) : sign[k] \in params => \E i \in 1..m : more[i] = k
      BY <2>9
    <3>2. longer \in Seq(S) /\ m = Len(longer)
      BY <2>3
    <3>3. /\ more \in [1..Len(longer) -> 1..(n + 1)]
          /\ \A i, j \in 1..Len(longer) : i < j => more[i] < more[j]
          /\ \A i \in 1..Len(longer) : longer[i] = sign[more[i]] /\ longer[i] \in params
          /\ \A k \in 1..(n + 1) : sign[k] \in params => \E i \in 1..Len(longer) : more[i] = k
      BY ONLY <2>4, <2>7, <2>8, <3>1, <3>2
    <3> QED
      BY ONLY <3>2, <3>3, Zenon DEF Selects
  <2> QED
    BY <1>4, <2>1, <2>10 DEF x
<1> QED
  BY <1>3, <1>4

\* Among() selects from the whole signature.
LEMMA AmongSelects ==
    ASSUME NEW S, NEW sign \in Seq(S), NEW params
    PROVE  Selects(Among(params, sign), params, sign, Len(sign), S)
<1> DEFINE seqs == [i \in DOMAIN sign |-> IF sign[i] \in params THEN <<sign[i]>> ELSE <<>>]
<1>1. Len(sign) \in Nat /\ DOMAIN sign = 1..Len(sign)
  OBVIOUS
<1>2. seqs \in Seq(Seq(S)) /\ Len(seqs) = Len(sign)
  <2>1. \A i \in 1..Len(sign) : seqs[i] \in Seq(S)
    <3> SUFFICES ASSUME NEW i \in 1..Len(sign)
                 PROVE  seqs[i] \in Seq(S)
      OBVIOUS
    <3>1. sign[i] \in S
      OBVIOUS
    <3> QED
      BY <3>1
  <2>2. seqs \in [1..Len(sign) -> Seq(S)]
    BY <1>1, <2>1
  <2> HIDE DEF seqs
  <2> QED
    BY <1>1, <2>2, SeqDef, LenProperties
<1>3. Among(params, sign) = FlattenSeq(seqs)
  BY DEF Among
<1>4. Selects(<<>>, params, sign, 0, S)
  <2>1. PICK part : part = <<>>
    OBVIOUS
  <2>2. part \in Seq(S) /\ Len(part) = 0 /\ 1..Len(part) = {} /\ 1..0 = {}
    BY <2>1, EmptySeq
  <2>3. [i \in 1..Len(part) |-> i] \in [1..Len(part) -> 1..0]
    BY <2>2
  <2>4. Selects(part, params, sign, 0, S)
    BY <2>2, <2>3 DEF Selects
  <2> QED
    BY <2>1, <2>4
<1>5. CASE sign = <<>>
  <2>1. Len(seqs) = 0 /\ Len(sign) = 0
    BY <1>2, <1>5
  <2>2. FlattenSeq(seqs) = <<>>
    <3>1. seqs = <<>>
      BY <1>2, <2>1, EmptySeq
    <3> HIDE DEF seqs
    <3> QED
      BY <2>1, <3>1 DEF FlattenSeq
  <2> QED
    BY <1>3, <1>4, <2>1, <2>2
<1>6. CASE sign # <<>>
  <2>1. Len(sign) # 0 /\ seqs # <<>>
    BY <1>1, <1>2, <1>6, EmptySeq
  <2>2. \A i \in 1..Len(sign) : seqs[i] = IF sign[i] \in params THEN <<sign[i]>> ELSE <<>>
    BY <1>1
  <2> HIDE DEF seqs
  <2>3. PICK f \in [1..Len(seqs) -> Seq(S)] :
            /\ f[1] = seqs[1]
            /\ \A i \in 1..(Len(seqs) - 1) : f[i + 1] = f[i] \o seqs[i + 1]
            /\ FlattenSeq(seqs) = f[Len(seqs)]
    BY <1>2, <2>1, FlattenUnfolds
  <2> DEFINE U == {n \in Nat : n \in 1..Len(sign) => Selects(f[n], params, sign, n, S)}
  <2>4. 0 \in U
    OBVIOUS
  <2>5. ASSUME NEW n \in Nat, n \in U
        PROVE  n + 1 \in U
    <3> SUFFICES ASSUME n + 1 \in 1..Len(sign)
                 PROVE  Selects(f[n + 1], params, sign, n + 1, S)
      OBVIOUS
    <3>1. PICK part : part = IF n = 0 THEN <<>> ELSE f[n]
      OBVIOUS
    <3>2. Selects(part, params, sign, n, S)
      <4>1. n # 0 => n \in 1..Len(sign)
        BY <1>1
      <4> QED
        BY <1>4, <2>5, <3>1, <4>1
    <3>3. f[n + 1] = part \o seqs[n + 1]
      <4>1. CASE n = 0
        <5>1. seqs[1] \in Seq(S)
          BY <1>1, <1>2, <2>1
        <5>2. <<>> \o seqs[1] = seqs[1]
          BY <5>1
        <5> QED
          BY <2>3, <3>1, <4>1, <5>2
      <4>2. CASE n # 0
        <5>1. n \in 1..(Len(seqs) - 1)
          BY <1>1, <1>2, <4>2
        <5> QED
          BY <2>3, <3>1, <4>2, <5>1
      <4> QED
        BY <4>1, <4>2
    <3>4. PICK k : k = n + 1
      OBVIOUS
    <3>5. seqs[k] = IF sign[k] \in params THEN <<sign[k]>> ELSE <<>>
      BY <2>2, <3>4
    <3>6. Selects(part \o (IF sign[n + 1] \in params THEN <<sign[n + 1]>> ELSE <<>>), params, sign, n + 1, S)
      BY <3>2, SelectsOne
    <3> QED
      BY <3>3, <3>4, <3>5, <3>6
  <2> HIDE DEF U
  <2>6. Nat \subseteq U
    BY <2>4, <2>5, Induction
  <2>7. Len(sign) \in 1..Len(sign)
    BY <1>1, <2>1
  <2>8. Selects(f[Len(sign)], params, sign, Len(sign), S)
    BY <1>1, <2>6, <2>7 DEF U
  <2> QED
    BY <1>2, <1>3, <2>3, <2>8
<1> QED
  BY <1>5, <1>6

\* It is a sequence of exactly the parameters that are wanted.
LEMMA AmongFacts ==
    ASSUME NEW S, NEW sign \in Seq(S), NEW params
    PROVE  /\ Among(params, sign) \in Seq(S)
           /\ Range(Among(params, sign)) = Range(sign) \cap params
<1>1. PICK part : part = Among(params, sign)
  OBVIOUS
<1>2. Selects(part, params, sign, Len(sign), S)
  BY <1>1, AmongSelects
<1>3. part \in Seq(S) /\ \E at \in [1..Len(part) -> 1..Len(sign)] :
          /\ \A i \in 1..Len(part) : part[i] = sign[at[i]] /\ part[i] \in params
          /\ \A k \in 1..Len(sign) : sign[k] \in params => \E i \in 1..Len(part) : at[i] = k
  BY <1>2 DEF Selects
<1>4. Range(part) = {part[i] : i \in 1..Len(part)} /\ Range(sign) = {sign[i] : i \in 1..Len(sign)}
  BY <1>3 DEF Range
<1>5. Range(part) = Range(sign) \cap params
  <2>1. PICK at \in [1..Len(part) -> 1..Len(sign)] :
            /\ \A i \in 1..Len(part) : part[i] = sign[at[i]] /\ part[i] \in params
            /\ \A k \in 1..Len(sign) : sign[k] \in params => \E i \in 1..Len(part) : at[i] = k
    BY <1>3
  <2>2. \A x \in Range(part) : x \in Range(sign) /\ x \in params
    BY <1>4, <2>1
  <2>3. \A x \in Range(sign) : x \in params => x \in Range(part)
    BY <1>4, <2>1
  <2> QED
    BY <2>2, <2>3
<1> QED
  BY <1>1, <1>3, <1>5

\* What is selected from a valid signature is valid.
LEMMA AmongValid ==
    ASSUME NEW S, NEW sign \in Seq(S), NEW params, Valid(sign)
    PROVE  Valid(Among(params, sign))
<1>1. PICK part : part = Among(params, sign)
  OBVIOUS
<1>2. Selects(part, params, sign, Len(sign), S)
  BY <1>1, AmongSelects
<1>3. PICK at \in [1..Len(part) -> 1..Len(sign)] :
          /\ \A i, j \in 1..Len(part) : i < j => at[i] < at[j]
          /\ \A i \in 1..Len(part) : part[i] = sign[at[i]]
  BY <1>2 DEF Selects
<1>4. part \in Seq(S) /\ DOMAIN part = 1..Len(part) /\ DOMAIN sign = 1..Len(sign)
  BY <1>2 DEF Selects
<1>5. Valid(part)
  <2> SUFFICES ASSUME NEW i \in DOMAIN part, NEW j \in DOMAIN part, i < j
               PROVE  /\ part[i].name # part[j].name
                      /\ \E k, l \in DOMAIN Kinds : k <= l /\ part[i].kind = Kinds[k] /\ part[j].kind = Kinds[l]
    BY DEF Valid
  <2>1. at[i] \in DOMAIN sign /\ at[j] \in DOMAIN sign /\ at[i] < at[j]
    BY <1>3, <1>4
  <2>2. part[i] = sign[at[i]] /\ part[j] = sign[at[j]]
    BY <1>3, <1>4
  <2> QED
    BY <2>1, <2>2 DEF Valid
<1> QED
  BY <1>1, <1>5

\* The kinds of parameters, in the order in which a signature may have them.
Ordered(p, q) == \E k, l \in 1..5 : k <= l /\ p.kind = Kinds[k] /\ q.kind = Kinds[l]
LEMMA KindFacts ==
    /\ DOMAIN Kinds = 1..5 /\ Range(Kinds) = {Kinds[i] : i \in 1..5}
    /\ \A i, j \in 1..5 : Kinds[i] = Kinds[j] => i = j
    /\ \A i \in 1..5 : Kinds[i] \in Range(Kinds)
<1>1. DOMAIN Kinds = 1..5
  BY DEF Kinds
<1>2. Range(Kinds) = {Kinds[i] : i \in 1..5}
  BY <1>1 DEF Range
<1>3. /\ Kinds[1] = "positional only" /\ Kinds[2] = "positional" /\ Kinds[3] = "var positional"
      /\ Kinds[4] = "keyword only" /\ Kinds[5] = "var keyword"
  BY DEF Kinds
<1>4. \A i \in 1..5 : i = 1 \/ i = 2 \/ i = 3 \/ i = 4 \/ i = 5
  OBVIOUS
<1>5. \A i, j \in 1..5 : Kinds[i] = Kinds[j] => i = j
  BY <1>3, <1>4
<1> QED
  BY <1>1, <1>2, <1>5

\* Two valid signatures make one if every parameter of the first may come before those of
\* the second.
LEMMA ConcatValid ==
    ASSUME NEW s \in Seq(Parameter), NEW t \in Seq(Parameter), Valid(s), Valid(t),
           \A p \in Range(s), q \in Range(t) : p.name # q.name /\ Ordered(p, q)
    PROVE  Valid(s \o t)
<1>1. PICK st : st = s \o t
  OBVIOUS
<1>2. /\ Len(s) \in Nat /\ Len(t) \in Nat /\ DOMAIN s = 1..Len(s) /\ DOMAIN t = 1..Len(t)
      /\ DOMAIN st = 1..(Len(s) + Len(t))
      /\ \A i \in 1..(Len(s) + Len(t)) : st[i] = IF i <= Len(s) THEN s[i] ELSE t[i - Len(s)]
  BY <1>1
<1>3. Valid(st)
  <2> SUFFICES ASSUME NEW i \in DOMAIN st, NEW j \in DOMAIN st, i < j
               PROVE  st[i].name # st[j].name /\ Ordered(st[i], st[j])
    BY KindFacts DEF Valid, Ordered
  <2>1. i \in Nat /\ j \in Nat /\ i >= 1 /\ j <= Len(s) + Len(t)
    BY <1>2
  <2>2. CASE j <= Len(s)
    <3>1. i \in DOMAIN s /\ j \in DOMAIN s /\ st[i] = s[i] /\ st[j] = s[j]
      BY <1>2, <2>1, <2>2
    <3> QED
      BY <3>1, KindFacts DEF Valid, Ordered
  <2>3. CASE i > Len(s)
    <3>1. i - Len(s) \in DOMAIN t /\ j - Len(s) \in DOMAIN t /\ i - Len(s) < j - Len(s)
          /\ st[i] = t[i - Len(s)] /\ st[j] = t[j - Len(s)]
      BY <1>2, <2>1, <2>3
    <3> QED
      BY <3>1, KindFacts DEF Valid, Ordered
  <2>4. CASE i <= Len(s) /\ j > Len(s)
    <3>1. i \in DOMAIN s /\ j - Len(s) \in DOMAIN t /\ st[i] = s[i] /\ st[j] = t[j - Len(s)]
      BY <1>2, <2>1, <2>4
    <3>2. st[i] \in Range(s) /\ st[j] \in Range(t)
      BY <3>1 DEF Range
    <3> QED
      BY <3>2
  <2> QED
    BY <1>2, <2>1, <2>2, <2>3, <2>4
<1> QED
  BY <1>1, <1>3

\* A parameter of another kind.
LEMMA MissingFacts ==
    ASSUME NEW sign \in Seq(Parameter), NEW extra \in Seq(Parameter), NEW kind \in Range(Kinds)
    PROVE  /\ Missing(sign, extra, kind) \in Seq(Parameter)
           /\ \A p \in Range(Missing(sign, extra, kind)) :
                 /\ p.kind = kind /\ p.name \notin Names(sign)
                 /\ \E q \in Range(extra) : q.dep = p.dep /\ q.name = p.name
<1>1. PICK new : new = Among({p \in Range(extra) : p.name \notin Names(sign)}, extra)
  OBVIOUS
<1>2. new \in Seq(Parameter) /\ Range(new) = Range(extra) \cap {p \in Range(extra) : p.name \notin Names(sign)}
  BY <1>1, AmongFacts
<1>3. DOMAIN new = 1..Len(new) /\ Len(new) \in Nat
  BY <1>2
<1>4. PICK all : all = [i \in DOMAIN new |-> [new[i] EXCEPT !.kind = kind]]
  OBVIOUS
<1>5. ASSUME NEW i \in DOMAIN new
      PROVE  /\ new[i] \in Parameter /\ all[i] \in Parameter /\ all[i].kind = kind
             /\ all[i].name = new[i].name /\ all[i].dep = new[i].dep /\ new[i] \in Range(new)
  <2>1. new[i] \in Parameter /\ new[i] \in Range(new)
    BY <1>2, <1>3 DEF Range
  <2>2. all[i] = [new[i] EXCEPT !.kind = kind]
    BY <1>4
  <2> QED
    BY <2>1, <2>2 DEF Parameter
<1>6. all \in Seq(Parameter) /\ Range(all) = {all[i] : i \in DOMAIN new}
  <2>1. all \in [1..Len(new) -> Parameter]
    BY <1>3, <1>4, <1>5
  <2> QED
    BY <1>3, <1>4, <2>1, SeqDef DEF Range
<1>7. Missing(sign, extra, kind) = all
  BY <1>1, <1>4 DEF Missing
<1> QED
  BY <1>2, <1>5, <1>6, <1>7, SMTT(20)

DepsIn(sign) == {p.dep : p \in Range(sign)} \ {NoDep}

\* What FastAPI is shown of a signature are its dependencies.
DepsOf(sign) == [i \in DOMAIN Prepare(sign) |-> Prepare(sign)[i].dep]
LEMMA DepsOfFacts ==
    ASSUME NEW sign \in Seq(Parameter)
    PROVE  DepsOf(sign) \in Seq(Calls) /\ Range(DepsOf(sign)) = DepsIn(sign)
<1>1. PICK part : part = Prepare(sign)
  OBVIOUS
<1>2. part \in Seq(Parameter) /\ Range(part) = Range(sign) \cap {p \in Range(sign) : p.dep # NoDep}
  BY <1>1, AmongFacts DEF Prepare
<1>3. DOMAIN part = 1..Len(part) /\ Len(part) \in Nat
  BY <1>2
<1>4. PICK deps : deps = [i \in DOMAIN part |-> part[i].dep]
  OBVIOUS
<1>5. ASSUME NEW i \in DOMAIN part
      PROVE  part[i] \in Range(part) /\ deps[i] = part[i].dep /\ deps[i] \in Calls
  <2>1. part[i] \in Parameter /\ part[i] \in Range(part)
    BY <1>2, <1>3 DEF Range
  <2>2. part[i].dep # NoDep
    BY <1>2, <2>1
  <2> QED
    BY <1>4, <2>1, <2>2 DEF Parameter
<1>6. deps \in Seq(Calls)
  <2>1. deps \in [1..Len(part) -> Calls]
    BY <1>3, <1>4, <1>5
  <2> QED
    BY <1>3, <2>1, SeqDef
<1>7. Range(deps) = {part[i].dep : i \in DOMAIN part} /\ Range(part) = {part[i] : i \in DOMAIN part}
  BY <1>4 DEF Range
<1>8. Range(deps) = DepsIn(sign)
  BY <1>2, <1>7 DEF DepsIn
<1> QED
  BY <1>1, <1>4, <1>6, <1>8 DEF DepsOf

\* A part of a sequence, from some element on.
LEMMA SubSeqFacts ==
    ASSUME NEW S, NEW s \in Seq(S), NEW m \in Nat \ {0}, NEW n \in 0..Len(s)
    PROVE  SubSeq(s, m, n) \in Seq(S) /\ Range(SubSeq(s, m, n)) \subseteq Range(s)
<1>1. PICK part : part = SubSeq(s, m, n)
  OBVIOUS
<1>2. part \in Seq(S) /\ \A i \in 1..Len(part) : i + m - 1 \in 1..Len(s) /\ part[i] = s[i + m - 1]
  <2>1. n \in Nat /\ n <= Len(s) /\ Len(s) \in Nat
    OBVIOUS
  <2>2. CASE m > n
    <3>1. part = <<>>
      BY <1>1, <2>1, <2>2, SubSeqProperties
    <3> QED
      BY <3>1, EmptySeq
  <2>3. CASE m <= n
    <3>1. /\ part \in Seq(S) /\ Len(part) = n - m + 1
          /\ \A i \in 1..(n - m + 1) : part[i] = s[m + i - 1]
      BY <1>1, <2>1, <2>3, SubSeqProperties
    <3>2. \A i \in 1..(n - m + 1) : m + i - 1 = i + m - 1 /\ i + m - 1 \in 1..Len(s)
      BY <2>1, <2>3
    <3> QED
      BY <3>1, <3>2
  <2> QED
    BY <2>1, <2>2, <2>3
<1>3. Range(part) = {part[i] : i \in 1..Len(part)} /\ Range(s) = {s[i] : i \in 1..Len(s)}
  BY <1>2 DEF Range
<1> QED
  BY <1>1, <1>2, <1>3

\* bind_deps(): the markers come first, the other parameters stay.
LEMMA SignatureWithDepsFacts ==
    ASSUME NEW sign \in Seq(Parameter), NEW deps \in Seq(Calls), Len(deps) <= Len(DepArg)
    PROVE  /\ SignatureWithDeps(sign, deps) \in Seq(Parameter)
           /\ DepsIn(SignatureWithDeps(sign, deps)) \subseteq Range(deps) \cup DepsIn(sign)
<1>1. PICK names : names = Names(SubSeq(sign, 1, Len(deps)))
  OBVIOUS
<1>2. PICK rest : rest = Drop(sign, names)
  OBVIOUS
<1>3. rest \in Seq(Parameter) /\ Range(rest) \subseteq Range(sign)
  BY <1>2, AmongFacts DEF Drop
<1>4. PICK new : new = [i \in DOMAIN deps |-> [name |-> DepArg[i], kind |-> Kinds[2], dep |-> deps[i]]]
  OBVIOUS
<1>5. Len(deps) \in Nat /\ DOMAIN deps = 1..Len(deps) /\ Len(DepArg) = 3 /\ Kinds[2] \in Range(Kinds)
  BY KindFacts DEF DepArg
<1>6. \A i \in 1..3 : DepArg[i] \in Name
  <2>1. DOMAIN DepArg = 1..3
    BY DEF DepArg
  <2> QED
    BY <2>1 DEF Name, Range
<1>7. ASSUME NEW i \in DOMAIN deps
      PROVE  new[i] \in Parameter /\ new[i].dep = deps[i]
  <2>1. DepArg[i] \in Name /\ deps[i] \in Calls
    <3>1. i \in 1..3 /\ i \in 1..Len(deps)
      BY <1>5
    <3> QED
      BY <1>6, <3>1
  <2> QED
    BY <1>4, <1>5, <2>1 DEF Parameter
<1>8. new \in Seq(Parameter) /\ Range(new) = {new[i] : i \in DOMAIN deps}
  <2>1. new \in [1..Len(deps) -> Parameter]
    BY <1>4, <1>5, <1>7
  <2> QED
    BY <1>4, <1>5, <2>1, SeqDef DEF Range
<1>9. PICK front : front = Missing(rest, new, Kinds[2])
  OBVIOUS
<1>10. front \in Seq(Parameter) /\ \A p \in Range(front) : \E q \in Range(new) : q.dep = p.dep
  <2>1. PICK kind : kind = Kinds[2]
    OBVIOUS
  <2>2. kind \in Range(Kinds) /\ rest \in Seq(Parameter) /\ new \in Seq(Parameter)
    BY <1>3, <1>5, <1>8, <2>1
  <2>3. /\ Missing(rest, new, kind) \in Seq(Parameter)
        /\ \A p \in Range(Missing(rest, new, kind)) :
              /\ p.kind = kind /\ p.name \notin Names(rest)
              /\ \E q \in Range(new) : q.dep = p.dep /\ q.name = p.name
    BY ONLY <2>2, MissingFacts
  <2> QED
    BY <1>9, <2>1, <2>3
<1>11. SignatureWithDeps(sign, deps) = front \o rest
  BY <1>1, <1>2, <1>4, <1>9 DEF SignatureWithDeps, Prepend
<1>12. front \o rest \in Seq(Parameter) /\ Range(front \o rest) = Range(front) \cup Range(rest)
  <2>1. Range(front \o rest) = Range(front) \cup Range(rest)
    BY <1>3, <1>10, ConcatRange
  <2> QED
    BY <1>3, <1>10, <2>1
<1>13. \A p \in Range(front) : p.dep \in Range(deps)
  <2>1. Range(deps) = {deps[i] : i \in DOMAIN deps}
    BY DEF Range
  <2> QED
    BY <1>7, <1>8, <1>10, <2>1
<1> QED
  BY <1>3, <1>11, <1>12, <1>13 DEF DepsIn

\* Signature.add_dep(): the signature stays valid.
LEMMA AddDepFacts ==
    ASSUME NEW sign \in Seq(Parameter), Valid(sign), NEW name \in Name, NEW dep \in Calls
    PROVE  /\ AddDep(sign, name, dep) \in Seq(Parameter) /\ Valid(AddDep(sign, name, dep))
           /\ DepsIn(AddDep(sign, name, dep)) \subseteq {dep} \cup DepsIn(sign)
<1>1. PICK last : last = {p \in Range(sign) : p.kind \in {Kinds[5]}}
  OBVIOUS
<1>2. PICK first : first = {p \in Range(sign) : p.kind \in Range(Kinds) \ {Kinds[5]}}
  OBVIOUS
<1>3. PICK a, c : a = Among(first, sign) /\ c = Among(last, sign)
  OBVIOUS
<1>4. PICK extra : extra = <<[name |-> name, kind |-> Kinds[4], dep |-> dep]>>
  OBVIOUS
<1>5. Kinds[4] \in Range(Kinds) /\ extra \in Seq(Parameter) /\ Range(extra) = {extra[1]} /\ extra[1].dep = dep
  <2>1. [name |-> name, kind |-> Kinds[4], dep |-> dep] \in Parameter
    BY KindFacts DEF Parameter
  <2>2. extra \in Seq(Parameter) /\ DOMAIN extra = {1} /\ extra[1].dep = dep
    BY <1>4, <2>1
  <2> QED
    BY <2>2, KindFacts DEF Range
<1>6. PICK b : b = Missing(sign, extra, Kinds[4])
  OBVIOUS
<1>7. /\ a \in Seq(Parameter) /\ Range(a) = Range(sign) \cap first /\ Valid(a)
      /\ c \in Seq(Parameter) /\ Range(c) = Range(sign) \cap last /\ Valid(c)
  BY <1>3, AmongFacts, AmongValid
<1>8. b \in Seq(Parameter) /\ \A p \in Range(b) : /\ p.kind = Kinds[4] /\ p.name \notin Names(sign) /\ p.dep = dep
  <2>1. PICK kind : kind = Kinds[4]
    OBVIOUS
  <2>2. kind \in Range(Kinds) /\ extra \in Seq(Parameter)
    BY <1>5, <2>1
  <2>3. /\ Missing(sign, extra, kind) \in Seq(Parameter)
        /\ \A p \in Range(Missing(sign, extra, kind)) :
              /\ p.kind = kind /\ p.name \notin Names(sign)
              /\ \E q \in Range(extra) : q.dep = p.dep /\ q.name = p.name
    BY <2>2, MissingFacts
  <2> QED
    BY <1>5, <1>6, <2>1, <2>3
<1>9. Valid(b)
  <2>1. PICK all : all = {p \in Range(extra) : p.name \notin Names(sign)}
    OBVIOUS
  <2>2. Valid(extra)
    <3>1. DOMAIN extra = {1}
      BY <1>4
    <3> QED
      BY <3>1 DEF Valid
  <2>3. Valid(Among(all, extra)) /\ Among(all, extra) \in Seq(Parameter)
    BY <1>5, <2>2, AmongValid, AmongFacts
  <2>4. PICK new : new = Among(all, extra)
    OBVIOUS
  <2>5. b = [i \in DOMAIN new |-> [new[i] EXCEPT !.kind = Kinds[4]]]
    BY <1>6, <2>1, <2>4 DEF Missing
  <2>6. \A i \in DOMAIN new : new[i] \in Parameter
    BY <2>3, <2>4
  <2>7. DOMAIN b = DOMAIN new /\ \A i \in DOMAIN new : b[i].name = new[i].name /\ b[i].kind = Kinds[4]
    BY <2>5, <2>6 DEF Parameter
  <2>8. 4 \in DOMAIN Kinds /\ 4 <= 4
    BY KindFacts
  <2> QED
    BY <2>3, <2>4, <2>7, <2>8 DEF Valid
<1>10. /\ \A p \in Range(a) : p \in Range(sign) /\ p.kind \in Range(Kinds) \ {Kinds[5]}
       /\ \A p \in Range(c) : p \in Range(sign) /\ p.kind = Kinds[5]
  BY <1>1, <1>2, <1>7
<1>11. \A p \in Range(sign) : p.name \in Names(sign)
  BY DEF Names
<1>12. \A p \in Range(a), q \in Range(c) : p.name # q.name
  <2> SUFFICES ASSUME NEW p \in Range(a), NEW q \in Range(c)
               PROVE  p.name # q.name
    OBVIOUS
  <2>1. p # q /\ p \in Range(sign) /\ q \in Range(sign)
    BY <1>10
  <2>2. PICK i \in DOMAIN sign, j \in DOMAIN sign : p = sign[i] /\ q = sign[j]
    BY <2>1 DEF Range
  <2>3. i < j \/ j < i
    BY <2>1, <2>2
  <2> QED
    BY <2>2, <2>3 DEF Valid
<1>13. /\ \A p \in Range(a), q \in Range(b) : p.name # q.name
       /\ \A p \in Range(b), q \in Range(c) : p.name # q.name
  BY <1>8, <1>10, <1>11
<1>14. \A p \in Range(a) : \E k \in 1..4 : p.kind = Kinds[k]
  <2> SUFFICES ASSUME NEW p \in Range(a)
               PROVE  \E k \in 1..4 : p.kind = Kinds[k]
    OBVIOUS
  <2>1. PICK k \in 1..5 : p.kind = Kinds[k]
    BY <1>10, KindFacts
  <2>2. k # 5
    BY <1>10, <2>1
  <2> QED
    BY <2>1, <2>2
<1>15. \A p \in Range(a), q \in Range(b) : Ordered(p, q)
  <2> SUFFICES ASSUME NEW p \in Range(a), NEW q \in Range(b)
               PROVE  Ordered(p, q)
    OBVIOUS
  <2>1. PICK k \in 1..4 : p.kind = Kinds[k]
    BY <1>14
  <2>2. q.kind = Kinds[4] /\ k \in 1..5 /\ 4 \in 1..5 /\ k <= 4
    BY <1>8
  <2> QED
    BY <2>1, <2>2 DEF Ordered
<1>16. \A p, q : p.kind \in Range(Kinds) /\ q.kind = Kinds[5] => Ordered(p, q)
  <2> SUFFICES ASSUME NEW p, NEW q, p.kind \in Range(Kinds), q.kind = Kinds[5]
               PROVE  Ordered(p, q)
    OBVIOUS
  <2>1. PICK k \in 1..5 : p.kind = Kinds[k]
    BY KindFacts
  <2>2. k <= 5 /\ 5 \in 1..5
    OBVIOUS
  <2> QED
    BY <2>1, <2>2 DEF Ordered
<1>17. a \o b \in Seq(Parameter) /\ Valid(a \o b) /\ Range(a \o b) = Range(a) \cup Range(b)
  <2>1. a \o b \in Seq(Parameter)
    BY <1>7, <1>8, ConcatProperties
  <2>2. \A p \in Range(a), q \in Range(b) : p.name # q.name /\ Ordered(p, q)
    BY <1>13, <1>15
  <2>3. Valid(a \o b)
    BY <1>7, <1>8, <1>9, <2>2, ConcatValid
  <2>4. Range(a \o b) = Range(a) \cup Range(b)
    BY <1>7, <1>8, ConcatRange
  <2> QED
    BY <2>1, <2>3, <2>4
<1>18. PICK ab : ab = a \o b
  OBVIOUS
<1>19. \A p \in Range(ab), q \in Range(c) : p.name # q.name /\ Ordered(p, q)
  <2>1. \A p \in Range(ab) : p.kind \in Range(Kinds)
    BY <1>5, <1>8, <1>10, <1>17, <1>18
  <2> QED
    BY <1>10, <1>12, <1>13, <1>16, <1>17, <1>18, <2>1
<1>20. ab \o c \in Seq(Parameter) /\ Valid(ab \o c) /\ Range(ab \o c) = Range(ab) \cup Range(c)
  <2>1. ab \in Seq(Parameter) /\ Valid(ab)
    BY <1>17, <1>18
  <2>2. ab \o c \in Seq(Parameter)
    BY <1>7, <2>1, ConcatProperties
  <2>3. Valid(ab \o c)
    BY <1>7, <1>19, <2>1, ConcatValid
  <2>4. Range(ab \o c) = Range(ab) \cup Range(c)
    BY <1>7, <2>1, ConcatRange
  <2> QED
    BY <2>2, <2>3, <2>4
<1>21. AddDep(sign, name, dep) = ab \o c
  BY <1>1, <1>2, <1>3, <1>4, <1>6, <1>18 DEF AddDep, Add, OfKind
<1> QED
  BY <1>8, <1>10, <1>17, <1>18, <1>20, <1>21 DEF DepsIn

-----------------------------------------------------------------------------
\* What a node of a graph leads to

\* From satisfies the equation by which it is defined.
LEMMA FromUnfolds ==
    ASSUME NEW graph, WellFounded(DOMAIN graph, graph)
    PROVE  \A c \in DOMAIN graph :
              /\ From(graph, c) \subseteq DOMAIN graph
              /\ From(graph, c) = {c} \cup UNION {From(graph, d) : d \in graph[c]}
<1> DEFINE C == DOMAIN graph
           V == SUBSET C
           step == [p \in C \X [C -> V] |-> {p[1]} \cup UNION {p[2][d] : d \in graph[p[1]]}]
           from == CHOOSE f : f = [n \in DOMAIN graph |-> {n} \cup UNION {f[m] : m \in graph[n]}]
<1>1. \A c \in C, g \in [C -> V] : step[<<c, g>>] = {c} \cup UNION {g[d] : d \in graph[c]}
  OBVIOUS
<1>2. \A c \in C : graph[c] \subseteq C
  BY DEF WellFounded
<1>3. step \in [C \X [C -> V] -> V]
  <2> SUFFICES ASSUME NEW c \in C, NEW g \in [C -> V]
               PROVE  {c} \cup UNION {g[d] : d \in graph[c]} \in V
    OBVIOUS
  <2>1. \A d \in graph[c] : g[d] \subseteq C
    BY <1>2
  <2> QED
    BY <2>1
<1>4. Local(C, V, graph, step)
  <2> SUFFICES ASSUME NEW c \in C, NEW g \in [C -> V], NEW h \in [C -> V],
                      \A d \in graph[c] : g[d] = h[d]
               PROVE  step[<<c, g>>] = step[<<c, h>>]
    BY DEF Local
  <2>1. {g[d] : d \in graph[c]} = {h[d] : d \in graph[c]}
    OBVIOUS
  <2>2. step[<<c, g>>] = {c} \cup UNION {g[d] : d \in graph[c]}
    BY <1>1
  <2>3. step[<<c, h>>] = {c} \cup UNION {h[d] : d \in graph[c]}
    BY <1>1
  <2> QED
    BY <2>1, <2>2, <2>3
<1>5. \E f \in [C -> V] : \A c \in C : f[c] = step[<<c, f>>]
  <2> HIDE DEF step
  <2>1. Recursive(C, V, graph, step)
    BY <1>3, <1>4 DEF Recursive
  <2> QED
    BY <2>1, GraphRecursion DEF HasSolution
<1>6. PICK f \in [C -> V] : \A c \in C : f[c] = step[<<c, f>>]
  BY <1>5
<1>7. f = [c \in C |-> {c} \cup UNION {f[d] : d \in graph[c]}]
  <2> HIDE DEF step
  <2>1. \A c \in C : f[c] = {c} \cup UNION {f[d] : d \in graph[c]}
    BY <1>1, <1>6
  <2> QED
    BY <2>1
<1>8. from = [n \in DOMAIN graph |-> {n} \cup UNION {from[m] : m \in graph[n]}]
  BY <1>7
<1>9. \A c \in C : From(graph, c) = from[c]
  BY DEF From
<1> HIDE DEF from
<1>10. \A c \in C : From(graph, c) = {c} \cup UNION {From(graph, d) : d \in graph[c]}
  <2> SUFFICES ASSUME NEW c \in C
               PROVE  From(graph, c) = {c} \cup UNION {From(graph, d) : d \in graph[c]}
    OBVIOUS
  <2>1. from[c] = {c} \cup UNION {from[d] : d \in graph[c]}
    BY <1>8
  <2>2. \A d \in graph[c] : From(graph, d) = from[d]
    BY <1>2, <1>9
  <2>3. {from[d] : d \in graph[c]} = {From(graph, d) : d \in graph[c]}
    BY <2>2
  <2> QED
    BY <1>9, <2>1, <2>3
<1>11. C \subseteq {c \in C : From(graph, c) \subseteq C}
  <2> DEFINE T == {c \in C : From(graph, c) \subseteq C}
  <2>1. Inductive(C, graph, T)
    BY <1>10 DEF Inductive
  <2> HIDE DEF T
  <2>2. C \subseteq T
    BY <2>1, GraphInduction
  <2> QED
    BY <2>2 DEF T
<1> QED
  BY <1>10, <1>11

\* It is the least set with the node that has whatever its elements lead to: it is in
\* each such set ...
LEMMA FromLeast ==
    ASSUME NEW graph, WellFounded(DOMAIN graph, graph),
           NEW T, \A d \in DOMAIN graph : d \in T => graph[d] \subseteq T
    PROVE  \A c \in DOMAIN graph : c \in T => From(graph, c) \subseteq T
<1> DEFINE U == {c \in DOMAIN graph : c \in T => From(graph, c) \subseteq T}
<1>1. ASSUME NEW c \in DOMAIN graph, graph[c] \subseteq U
      PROVE  c \in U
  <2> SUFFICES ASSUME c \in T
               PROVE  From(graph, c) \subseteq T
    OBVIOUS
  <2>1. \A d \in graph[c] : From(graph, d) \subseteq T
    BY <1>1
  <2>2. From(graph, c) = {c} \cup UNION {From(graph, d) : d \in graph[c]}
    BY FromUnfolds
  <2> QED
    BY <2>1, <2>2
<1> HIDE DEF U
<1>2. DOMAIN graph \subseteq U
  BY <1>1, GraphInduction DEF Inductive
<1> QED
  BY <1>2 DEF U

\* ... and is such a set.
LEMMA FromClosed ==
    ASSUME NEW graph, WellFounded(DOMAIN graph, graph)
    PROVE  \A c \in DOMAIN graph :
              /\ c \in From(graph, c) /\ From(graph, c) \subseteq DOMAIN graph
              /\ \A d \in From(graph, c) : graph[d] \subseteq From(graph, c)
<1> DEFINE U == {c \in DOMAIN graph : \A d \in From(graph, c) : graph[d] \subseteq From(graph, c)}
<1>1. ASSUME NEW c \in DOMAIN graph, graph[c] \subseteq U
      PROVE  c \in U
  <2> SUFFICES ASSUME NEW d \in From(graph, c)
               PROVE  graph[d] \subseteq From(graph, c)
    OBVIOUS
  <2>1. /\ From(graph, c) = {c} \cup UNION {From(graph, m) : m \in graph[c]}
        /\ graph[c] \subseteq DOMAIN graph
    BY FromUnfolds DEF WellFounded
  <2>2. CASE d = c
    <3>1. \A m \in graph[c] : m \in From(graph, m)
      BY <2>1, FromUnfolds
    <3> QED
      BY <2>1, <2>2, <3>1
  <2>3. CASE d # c
    <3>1. PICK m \in graph[c] : d \in From(graph, m)
      BY <2>1, <2>3
    <3>2. graph[d] \subseteq From(graph, m)
      BY <1>1, <3>1
    <3> QED
      BY <2>1, <3>1, <3>2
  <2> QED
    BY <2>2, <2>3
<1> HIDE DEF U
<1>2. DOMAIN graph \subseteq U
  BY <1>1, GraphInduction DEF Inductive
<1> QED
  BY <1>2, FromUnfolds DEF U

\* What a node leads to stays the same when nodes are added.
LEMMA FromExtended ==
    ASSUME NEW graph, WellFounded(DOMAIN graph, graph), NEW more, WellFounded(DOMAIN more, more),
           \A c \in DOMAIN graph : c \in DOMAIN more /\ more[c] = graph[c]
    PROVE  \A c \in DOMAIN graph : From(more, c) = From(graph, c)
<1> SUFFICES ASSUME NEW c \in DOMAIN graph
             PROVE  From(more, c) = From(graph, c)
  OBVIOUS
<1>1. PICK A, B : A = From(graph, c) /\ B = From(more, c)
  OBVIOUS
<1>2. c \in A /\ A \subseteq DOMAIN graph /\ \A d \in A : graph[d] \subseteq A
  BY <1>1, FromClosed
<1>3. c \in B /\ B \subseteq DOMAIN more /\ \A d \in B : more[d] \subseteq B
  BY <1>1, FromClosed
<1>4. B \subseteq A
  <2>1. \A d \in DOMAIN more : d \in A => more[d] \subseteq A
    BY <1>2
  <2> QED
    BY <1>1, <1>2, <2>1, FromLeast
<1>5. A \subseteq B
  <2>1. \A d \in DOMAIN graph : d \in B => graph[d] \subseteq B
    BY <1>3
  <2> QED
    BY <1>1, <1>3, <2>1, FromLeast
<1> QED
  BY <1>1, <1>4, <1>5

-----------------------------------------------------------------------------
\* The graph of what exists

\* Overrides replace by what exists from the start.
LEMMA GivenFacts ==
    /\ Given \subseteq Existing /\ Existing \subseteq Calls /\ Static \subseteq Given
    /\ \A a \in Mixtures : \A k \in DOMAIN a : k \in Given /\ a[k] \in Given
    /\ \A a \in Mixtures : \A k \in Existing : Replace(a, k) \in Existing
<1>1. Given \subseteq Existing /\ Existing \subseteq Calls
  BY DEF Given, Existing, Exists
<1>2. Static \subseteq Given
  BY RuntimeCallsAssumption DEF Given
<1>3. ASSUME NEW a \in Mixtures, NEW k \in DOMAIN a
      PROVE  k \in Given /\ a[k] \in Given
  BY <1>3 DEF Mixtures, Replacements
<1> QED
  BY <1>1, <1>2, <1>3 DEF Replace

\* What exists has a signature, and its dependencies are calls.
LEMMA SignFacts ==
    ASSUME Typed
    PROVE  \A c \in Existing :
              /\ Func(c) \in Given /\ Sign(c) \in Seq(Parameter) /\ Valid(Sign(c)) /\ Bound(c) \in Seq(Calls)
              /\ Deps(c) \in Seq(Calls) /\ Graph[c] = Range(Deps(c)) /\ Graph[c] = DepsIn(Sign(c))
<1> SUFFICES ASSUME NEW c \in Existing
             PROVE  /\ Func(c) \in Given /\ Sign(c) \in Seq(Parameter) /\ Valid(Sign(c)) /\ Bound(c) \in Seq(Calls)
                    /\ Deps(c) \in Seq(Calls) /\ Graph[c] = Range(Deps(c)) /\ Graph[c] = DepsIn(Sign(c))
  OBVIOUS
<1>1. Func(c) \in Given /\ Sign(c) \in Seq(Parameter) /\ Valid(Sign(c)) /\ Bound(c) \in Seq(Calls)
  <2>1. CASE c \in Objects
    <3>1. made[c] \in MadeObject
      BY <2>1 DEF Typed, Existing, Exists
    <3> QED
      BY <2>1, <3>1 DEF MadeObject, Signatures, Func, Sign, Bound
  <2>2. CASE c \notin Objects
    <3>1. c \in Given /\ Signs[c] \in Seq(Parameters) /\ Valid(Signs[c])
      BY <2>2, RuntimeCallsAssumption DEF Given, Existing
    <3>2. Parameters \subseteq Parameter
      BY DEF Parameters, Parameter, Name, Given
    <3>3. Signs[c] \in Seq(Parameter)
      BY <3>1, <3>2
    <3>4. <<>> \in Seq(Calls)
      BY EmptySeq
    <3> QED
      BY <2>2, <3>1, <3>3, <3>4 DEF Func, Sign, Bound
  <2> QED
    BY <2>1, <2>2
<1>2. PICK sign \in Seq(Parameter) : sign = Sign(c)
  BY <1>1
<1>3. Deps(c) = DepsOf(sign)
  BY <1>2 DEF Deps, DepsOf
<1>4. DepsOf(sign) \in Seq(Calls) /\ Range(DepsOf(sign)) = DepsIn(sign)
  BY DepsOfFacts
<1>5. Graph[c] = Range(Deps(c))
  BY DEF Graph
<1> QED
  BY <1>1, <1>2, <1>3, <1>4, <1>5

\* What the app replaces changes what is called for a node, and the graph stays
\* well-founded.
Overridden(a) == [k \in Existing |-> Graph[Replace(a, k)]]
LEMMA GraphFacts ==
    ASSUME Grounded
    PROVE  /\ DOMAIN Graph = Existing /\ WellFounded(Existing, Graph)
           /\ \A a \in Mixtures : WellFounded(Existing, Overridden(a))
<1>1. DOMAIN Graph = Existing
  BY DEF Graph
<1>2. ASSUME NEW a \in Mixtures
      PROVE  WellFounded(Existing, Overridden(a))
  <2>1. \A k \in Existing : Overridden(a)[k] = Graph[Replace(a, k)] /\ Graph[Replace(a, k)] \subseteq Existing
    BY <1>2, GivenFacts DEF Grounded, Overridden
  <2>2. Overridden(a) \in [Existing -> SUBSET Existing]
    BY <2>1 DEF Overridden
  <2>3. ASSUME NEW S \in SUBSET Existing, S # {}
        PROVE  \E k \in S : Overridden(a)[k] \cap S = {}
    BY <1>2, <2>1, <2>3 DEF Grounded
  <2> QED
    BY <2>2, <2>3 DEF WellFounded
<1>3. PICK none : none = [k \in {} |-> k]
  OBVIOUS
<1>4. none \in Mixtures /\ DOMAIN none = {}
  <2>1. none \in [{} -> Given] /\ {} \in SUBSET Given
    BY <1>3
  <2> QED
    BY <1>3, <2>1 DEF Mixtures, Replacements
<1>5. Overridden(none) = Graph
  <2>1. \A k \in Existing : Replace(none, k) = k
    BY <1>4 DEF Replace
  <2>2. Overridden(none) = [k \in Existing |-> Graph[k]]
    BY <2>1 DEF Overridden
  <2> QED
    BY <2>2 DEF Graph
<1> QED
  BY <1>1, <1>2, <1>4, <1>5

\* Source code depends on source code.
LEMMA StaticFacts ==
    ASSUME Typed, Grounded
    PROVE  \A c \in Static : Graph[c] \subseteq Static /\ Behind(c) \subseteq Static
<1>1. ASSUME NEW c \in Static
      PROVE  c \in Existing /\ Graph[c] \subseteq Static
  <2>1. c \in Given /\ c \in Existing /\ c \notin Objects
    BY GivenFacts DEF Given
  <2>2. Graph[c] = DepsIn(Sign(c)) /\ Sign(c) = Signs[c]
    BY <2>1, SignFacts DEF Sign
  <2>3. DepsIn(Signs[c]) \subseteq Static
    BY RuntimeCallsAssumption DEF DepsIn, Range
  <2> QED
    BY <2>1, <2>2, <2>3
<1>2. DOMAIN Graph = Existing /\ WellFounded(DOMAIN Graph, Graph)
  BY GraphFacts
<1>3. \A c \in DOMAIN Graph : c \in Static => From(Graph, c) \subseteq Static
  <2>1. PICK G : G = Graph
    OBVIOUS
  <2>2. WellFounded(DOMAIN G, G) /\ \A d \in DOMAIN G : d \in Static => G[d] \subseteq Static
    BY <1>1, <1>2, <2>1
  <2>3. \A c \in DOMAIN G : c \in Static => From(G, c) \subseteq Static
    BY <2>2, FromLeast
  <2> QED
    BY <2>1, <2>3
<1> QED
  BY <1>1, <1>2, <1>3 DEF Behind

\* What an existing call leads to.
LEMMA BehindFacts ==
    ASSUME Grounded
    PROVE  \A c \in Existing :
              /\ c \in Behind(c) /\ Behind(c) \subseteq Existing
              /\ \A d \in Behind(c) : Graph[d] \subseteq Behind(c)
<1>1. DOMAIN Graph = Existing /\ WellFounded(DOMAIN Graph, Graph)
  BY GraphFacts
<1>2. PICK G : G = Graph
  OBVIOUS
<1>3. \A c \in DOMAIN G : /\ c \in From(G, c) /\ From(G, c) \subseteq DOMAIN G
                          /\ \A d \in From(G, c) : G[d] \subseteq From(G, c)
  BY <1>1, <1>2, FromClosed
<1> QED
  BY <1>1, <1>2, <1>3 DEF Behind

\* The graph changes only when something is made.
LEMMA SameGraph ==
    ASSUME UNCHANGED made
    PROVE  Existing' = Existing /\ Graph' = Graph /\ \A c : Behind(c)' = Behind(c)
<1>1. Existing' = Existing
  BY DEF Existing, Exists
<1>2. \A c : Sign(c)' = Sign(c)
  BY DEF Sign
<1>3. \A c : Deps(c)' = Deps(c)
  BY <1>2 DEF Deps
<1>4. Graph' = Graph
  BY <1>1, <1>3 DEF Graph
<1> QED
  BY <1>1, <1>4 DEF Behind

-----------------------------------------------------------------------------
\* The start

\* At the start there is what is given, nothing is resolved, and nothing is overridden.
LEMMA InitInv ==
    ASSUME Init
    PROVE  RInv
<1> USE DEF Init
<1>1. AppOverrides \in Mixtures
  BY RuntimeCallsAssumption DEF Mixtures
<1>2. DOMAIN made = {} /\ Existing = Given
  BY RuntimeCallsAssumption DEF Existing, Exists, Given
<1>3. Typed
  <2>1. made \in [DOMAIN made -> MadeObject]
    OBVIOUS
  <2>2. <<>> \in Seq(VisitType) /\ <<>> \in Seq(Mixtures) /\ Len(<<>>) = 0
    BY EmptySeq
  <2>3. NoJob \in Job
    BY <2>2 DEF NoJob, Job
  <2>4. jobs \in [Tasks -> Job]
    BY <2>3
  <2>5. built \in [Calls -> 0..MaxBuilt]
    BY DEF MaxBuilt
  <2>6. Len(blocks) <= MaxBlocks
    BY <2>2, RuntimeCallsAssumption
  <2> QED
    BY <1>1, <1>2, <2>1, <2>2, <2>4, <2>5, <2>6 DEF Typed
<1>4. \A c \in Given : Graph[c] = DepsIn(Signs[c]) /\ Graph[c] \subseteq Given
  <2> SUFFICES ASSUME NEW c \in Given
               PROVE  Graph[c] = DepsIn(Signs[c]) /\ Graph[c] \subseteq Given
    OBVIOUS
  <2>1. Sign(c) = Signs[c] /\ c \in Existing
    BY <1>2 DEF Sign, Given
  <2>2. Graph[c] = DepsIn(Signs[c])
    BY <1>3, <2>1, SignFacts
  <2>3. Signs[c] \in Seq(Parameters)
    BY RuntimeCallsAssumption
  <2>4. \A p \in Range(Signs[c]) : p.dep \in Given \cup {NoDep}
    <3>1. \A i \in DOMAIN Signs[c] : Signs[c][i] \in Parameters
      BY <2>3
    <3>2. \A p \in Parameters : p.dep \in Given \cup {NoDep}
      BY DEF Parameters
    <3> QED
      BY <3>1, <3>2 DEF Range
  <2> QED
    BY <2>2, <2>4 DEF DepsIn
<1>5. Grounded
  <2>1. ASSUME NEW a \in Mixtures, NEW S \in SUBSET Given, S # {}
        PROVE  \E k \in S : Graph[Replace(a, k)] \cap S = {}
    <3> DEFINE call == [k \in Given |-> Replace(a, k)]
    <3>1. \A k \in Given : Replace(a, k) \in Given
      BY GivenFacts DEF Replace
    <3>2. call \in [Given -> Given]
      BY <3>1
    <3>3. \A k \in Given : \/ call[k] = k
                           \/ \E e \in Entries \cup {AppOverrides} : k \in DOMAIN e /\ call[k] = e[k]
      BY DEF Mixtures, Replace
    <3>4. \A k \in Given : call[k] = Replace(a, k)
      OBVIOUS
    <3> HIDE DEF call
    <3>5. PICK k \in S : \A i \in DOMAIN Signs[call[k]] : Signs[call[k]][i].dep \notin S
      BY <2>1, <3>2, <3>3, AcyclicAssumption
    <3>6. \A p \in Range(Signs[call[k]]) : p.dep \notin S
      BY <3>5 DEF Range
    <3>7. Graph[call[k]] = DepsIn(Signs[call[k]])
      BY <1>4, <3>2
    <3> QED
      BY <3>4, <3>6, <3>7 DEF DepsIn
  <2> QED
    BY <1>2, <1>4, <2>1 DEF Grounded
<1>6. \A t \in Tasks : jobs[t].phase = "idle" /\ jobs[t].todo = <<>>
  BY DEF NoJob
<1>7. \A t \in Tasks : Mine(t) = Static
  BY DEF Mine
<1>8. Range(<<>>) = {}
  BY DEF Range
<1>9. Served
  BY <1>3, <1>5, <1>6, <1>7, <1>8, GivenFacts, StaticFacts DEF Served, Idle
<1>10. Forgotten
  BY DEF Forgotten
<1>11. Solving
  BY <1>6 DEF Solving
<1>12. BuiltIsCached /\ Restoring
  BY DEF BuiltIsCached, Restoring
<1> QED
  BY <1>3, <1>5, <1>9, <1>10, <1>11, <1>12 DEF RInv

-----------------------------------------------------------------------------
\* Making dependencies at runtime

\* A new object depends on what exists; all else stays as it is.
LEMMA MakeKeeps ==
    ASSUME RInv, NEW o \in Objects, NEW object \in MadeObject, ~Exists(o),
           DepsIn(object.sign) \subseteq Existing, Make(o, object)
    PROVE  RInv'
<1> USE DEF RInv
<1>1. /\ made' = [p \in DOMAIN made \cup {o} |-> IF p = o THEN object ELSE made[p]]
      /\ UNCHANGED <<analysed, shown, proxies, jobs, cache, built, app, blocks>>
  BY DEF Make, calls
<1>2. o \notin DOMAIN made /\ o \notin Existing /\ o \in Calls /\ o \notin Given
  BY RuntimeCallsAssumption DEF Existing, Exists, Given
<1>3. Existing' = Existing \cup {o}
  <2>1. DOMAIN made' = DOMAIN made \cup {o}
    BY <1>1
  <2> QED
    BY <1>2, <2>1 DEF Existing, Exists
<1>4. Typed'
  <2>1. made' \in [DOMAIN made' -> MadeObject] /\ DOMAIN made' \subseteq Objects
    BY <1>1 DEF Typed
  <2> QED
    BY <1>1, <2>1 DEF Typed
<1>5. \A c \in Existing : Graph'[c] = Graph[c]
  <2> SUFFICES ASSUME NEW c \in Existing
               PROVE  Graph'[c] = Graph[c]
    OBVIOUS
  <2>1. Sign(c)' = Sign(c)
    BY <1>1, <1>2 DEF Sign, Existing, Exists
  <2>2. Deps(c)' = Deps(c)
    BY <2>1 DEF Deps
  <2>3. Graph[c] = Range(Deps(c)) /\ Graph'[c] = Range(Deps(c)')
    BY <1>3 DEF Graph
  <2> QED
    BY <2>2, <2>3
<1>6. Graph'[o] = DepsIn(object.sign)
  <2>1. Sign(o)' = object.sign
    BY <1>1 DEF Sign
  <2>2. Deps(o)' = DepsOf(object.sign)
    BY <2>1 DEF Deps, DepsOf
  <2>3. Graph'[o] = Range(Deps(o)')
    BY <1>3 DEF Graph
  <2>4. PICK sign \in Seq(Parameter) : sign = object.sign
    BY DEF MadeObject, Signatures
  <2> QED
    BY <2>2, <2>3, <2>4, DepsOfFacts
<1>7. \A c \in Existing : Graph[c] \subseteq Existing
  BY DEF Grounded
<1>8. Grounded'
  <2>1. \A c \in Existing' : Graph'[c] \subseteq Existing'
    BY <1>3, <1>5, <1>6, <1>7
  <2>2. ASSUME NEW a \in Mixtures, NEW S \in SUBSET Existing', S # {}
        PROVE  \E k \in S : Graph'[Replace(a, k)] \cap S = {}
    <3>1. CASE S \cap Existing # {}
      <4>1. PICK k \in S \cap Existing : Graph[Replace(a, k)] \cap (S \cap Existing) = {}
        BY <3>1 DEF Grounded
      <4>2. Replace(a, k) \in Existing
        BY GivenFacts
      <4> QED
        BY <1>5, <1>7, <4>1, <4>2
    <3>2. CASE S \cap Existing = {}
      <4>1. o \in S
        BY <1>3, <2>2, <3>2
      <4>2. Replace(a, o) = o
        BY <1>2, GivenFacts DEF Replace
      <4> QED
        BY <1>6, <3>2, <4>1, <4>2
    <3> QED
      BY <3>1, <3>2
  <2> QED
    BY <2>1, <2>2 DEF Grounded
<1>9. \A c \in Existing : Behind(c)' = Behind(c)
  <2>1. PICK G, H : G = Graph /\ H = Graph'
    OBVIOUS
  <2>2. DOMAIN G = Existing /\ WellFounded(DOMAIN G, G)
    BY <2>1, GraphFacts
  <2>3. DOMAIN H = Existing' /\ WellFounded(DOMAIN H, H)
    <3>1. DOMAIN Graph' = Existing'
      BY DEF Graph
    <3>2. PICK none : none = [k \in {} |-> k]
      OBVIOUS
    <3>3. none \in Mixtures /\ DOMAIN none = {}
      <4>1. none \in [{} -> Given] /\ {} \in SUBSET Given
        BY <3>2
      <4> QED
        BY <3>2, <4>1 DEF Mixtures, Replacements
    <3>4. \A k : Replace(none, k) = k
      BY <3>3 DEF Replace
    <3>5. \A S \in SUBSET Existing' : S # {} => \E k \in S : Graph'[k] \cap S = {}
      BY <1>8, <3>3, <3>4 DEF Grounded
    <3>6. Graph' \in [Existing' -> SUBSET Existing']
      <4>1. \A c \in Existing' : Graph'[c] \subseteq Existing'
        BY <1>8 DEF Grounded
      <4> QED
        BY <4>1 DEF Graph
    <3> QED
      BY <2>1, <3>1, <3>5, <3>6 DEF WellFounded
  <2>4. \A c \in DOMAIN G : c \in DOMAIN H /\ H[c] = G[c]
    BY <1>3, <1>5, <2>1, <2>2, <2>3
  <2>5. \A c \in DOMAIN G : From(H, c) = From(G, c)
    BY <2>2, <2>3, <2>4, FromExtended
  <2> QED
    BY <2>1, <2>2, <2>5 DEF Behind
<1>10. Served'
  <2>1. \A t \in Tasks : Mine(t)' = Mine(t) /\ Mine(t) \subseteq Existing /\ \A c \in Mine(t) : Graph[c] \subseteq Mine(t)
    BY <1>1 DEF Mine, Served
  <2>2. \A t \in Tasks : Mine(t)' \subseteq Existing' /\ \A c \in Mine(t)' : Graph'[c] \subseteq Mine(t)'
    BY <1>3, <1>5, <2>1
  <2> QED
    BY <1>1, <2>1, <2>2 DEF Served, Idle
<1>11. Forgotten'
  <2>1. \A t \in Tasks : ~Idle(t) => Used(t)' = Used(t)
    <3> SUFFICES ASSUME NEW t \in Tasks, ~Idle(t)
                 PROVE  Used(t)' = Used(t)
      OBVIOUS
    <3>1. jobs[t].root \in Existing
      BY DEF Served
    <3>2. \A e \in Entries \cup {AppOverrides} : Range(e) \subseteq Existing
      BY RuntimeCallsAssumption, GivenFacts DEF Replacements, Range
    <3>3. \A c \in {jobs[t].root} \cup UNION {Range(e) : e \in Entries \cup {AppOverrides}} : Behind(c)' = Behind(c)
      BY <1>9, <3>1, <3>2
    <3> QED
      BY <1>1, <3>3 DEF Used
  <2> QED
    BY <1>1, <2>1 DEF Forgotten, Idle, Typed
<1>12. Solving' /\ BuiltIsCached' /\ Restoring'
  BY <1>1 DEF Solving, BuiltIsCached, Restoring
<1> QED
  BY <1>4, <1>8, <1>10, <1>11, <1>12

\* Whether markers met others is known of everything that exists.
LEMMA AgainFacts ==
    ASSUME Typed, NEW c \in Existing
    PROVE  Again(c) \in BOOLEAN
<1>1. CASE c \in Objects
  <2>1. made[c] \in MadeObject
    BY <1>1 DEF Typed, Existing, Exists
  <2>2. made[c].again \in BOOLEAN
    BY <2>1 DEF MadeObject
  <2> QED
    BY <1>1, <2>2 DEF Again
<1>2. CASE c \notin Objects
  BY <1>2 DEF Again
<1> QED
  BY <1>1, <1>2

\* bind_deps(): the object depends on the markers and on what the function depended on.
LEMMA BindKeeps ==
    ASSUME RInv, NEW r \in Recipes, Bind(r.object, r.func, r.deps)
    PROVE  RInv'
<1>1. PICK o \in Objects, f \in Calls, deps \in Seq(Calls) :
          o = r.object /\ f = r.func /\ deps = r.deps /\ Len(deps) <= Len(DepArg)
  BY RuntimeCallsAssumption
<1>2. /\ ~Exists(o) /\ f \in Existing /\ Range(deps) \subseteq Existing
      /\ Len(deps) <= Len(Sign(f)) /\ Valid(SignatureWithDeps(Sign(f), deps))
      /\ Make(o, [func |-> Func(f), sign |-> SignatureWithDeps(Sign(f), deps),
                  bound |-> Bound(f) \o deps,
                  again |-> Again(f) \/ (Bound(f) # <<>> /\ deps # <<>>)])
  <2>1. Bind(o, f, deps)
    BY <1>1
  <2>2. Range(deps) \subseteq Calls
    BY DEF Range
  <2> QED
    BY <2>1, <2>2 DEF Bind, Binds, Existing
<1>3. /\ Func(f) \in Given /\ Sign(f) \in Seq(Parameter) /\ Bound(f) \in Seq(Calls)
      /\ DepsIn(Sign(f)) \subseteq Existing
  BY <1>2, SignFacts DEF RInv, Grounded
<1>4. PICK sign : sign = SignatureWithDeps(Sign(f), deps)
  OBVIOUS
<1>5. sign \in Seq(Parameter) /\ DepsIn(sign) \subseteq Existing
  <2>1. PICK old \in Seq(Parameter) : old = Sign(f)
    BY <1>3
  <2>2. /\ SignatureWithDeps(old, deps) \in Seq(Parameter)
        /\ DepsIn(SignatureWithDeps(old, deps)) \subseteq Range(deps) \cup DepsIn(old)
    BY <1>1, SignatureWithDepsFacts
  <2> QED
    BY <1>2, <1>3, <1>4, <2>1, <2>2
<1>6. PICK bound, again : /\ bound = Bound(f) \o deps
                          /\ again = (Again(f) \/ (Bound(f) # <<>> /\ deps # <<>>))
  OBVIOUS
<1>7. bound \in Seq(Calls) /\ again \in BOOLEAN
  <2>1. bound \in Seq(Calls)
    BY <1>3, <1>6
  <2>2. again \in BOOLEAN
    BY <1>6
  <2> QED
    BY <2>1, <2>2
<1>8. PICK object : object = [func |-> Func(f), sign |-> sign, bound |-> bound, again |-> again]
  OBVIOUS
<1>9. object \in MadeObject /\ object.sign = sign
  BY <1>2, <1>3, <1>4, <1>5, <1>7, <1>8 DEF MadeObject, Signatures
<1>10. Make(o, object)
  BY <1>2, <1>4, <1>6, <1>8
<1> QED
  BY <1>2, <1>5, <1>9, <1>10, MakeKeeps

\* Signature.add_dep(): the object depends on one more call.
LEMMA ExtendKeeps ==
    ASSUME RInv, NEW r \in Extensions, Extend(r.object, r.func, r.dep)
    PROVE  RInv'
<1>1. PICK o \in Objects, f \in Calls, dep \in Calls : o = r.object /\ f = r.func /\ dep = r.dep
  BY RuntimeCallsAssumption
<1>2. /\ ~Exists(o) /\ f \in Existing /\ dep \in Existing
      /\ Make(o, [func |-> Func(f), sign |-> AddDep(Sign(f), "extra", dep),
                  bound |-> Bound(f), again |-> Again(f)])
  BY <1>1 DEF Extend, Existing
<1>3. /\ Func(f) \in Given /\ Sign(f) \in Seq(Parameter) /\ Valid(Sign(f)) /\ Bound(f) \in Seq(Calls)
      /\ DepsIn(Sign(f)) \subseteq Existing
  BY <1>2, SignFacts DEF RInv, Grounded
<1>4. PICK sign : sign = AddDep(Sign(f), "extra", dep)
  OBVIOUS
<1>5. sign \in Seq(Parameter) /\ Valid(sign) /\ DepsIn(sign) \subseteq Existing
  <2>1. PICK old \in Seq(Parameter), name \in Name : old = Sign(f) /\ name = "extra"
    BY <1>3 DEF Name
  <2>2. /\ AddDep(old, name, dep) \in Seq(Parameter) /\ Valid(AddDep(old, name, dep))
        /\ DepsIn(AddDep(old, name, dep)) \subseteq {dep} \cup DepsIn(old)
    BY <1>3, <2>1, AddDepFacts
  <2> QED
    BY <1>2, <1>3, <1>4, <2>1, <2>2
<1>6. PICK object : object = [func |-> Func(f), sign |-> sign, bound |-> Bound(f), again |-> Again(f)]
  OBVIOUS
<1>7. object \in MadeObject /\ object.sign = sign
  <2>1. Again(f) \in BOOLEAN
    BY <1>2, AgainFacts DEF RInv
  <2> QED
    BY <1>3, <1>5, <1>6, <2>1 DEF MadeObject, Signatures
<1>8. Make(o, object)
  BY <1>2, <1>4, <1>6
<1> QED
  BY <1>2, <1>5, <1>7, <1>8, MakeKeeps

-----------------------------------------------------------------------------
\* The work of FastAPI between two calls

\* Visits of the nodes K, and those that must be done before and behind the dependencies.
Visits(K) == [key : K, call : K, ready : BOOLEAN]

\* The ways to extend a list of visits that is worked off: by one whose dependencies are
\* done, and by one that puts its dependencies and itself in front of the rest.
TakesReady(K, Good) ==
    \A w \in Visits(K), rest \in Seq(Visits(K)) : w.ready /\ rest \in Good => <<w>> \o rest \in Good
TakesOpened(K, opening, closing, Good) ==
    \A w \in Visits(K), rest \in Seq(Visits(K)) :
        ~w.ready /\ opening[w.key] \o (<<closing[w.key]>> \o rest) \in Good => <<w>> \o rest \in Good
Opens(K, graph, opening, closing) ==
    \A k \in K : /\ opening[k] \in Seq(Visits(K)) /\ \A w \in Range(opening[k]) : w.key \in graph[k]
                 /\ closing[k] \in Visits(K) /\ closing[k].ready

\* A list of visits whose keys can all be taken in front of any list that is worked off is
\* worked off.
LEMMA ListTaken ==
    ASSUME NEW K, NEW Good \in SUBSET Seq(Visits(K)), NEW T,
           \A w \in Visits(K), rest \in Seq(Visits(K)) :
               w.key \in T /\ rest \in Good => <<w>> \o rest \in Good
    PROVE  \A list \in Seq(Visits(K)), rest \in Seq(Visits(K)) :
               rest \in Good /\ (\A w \in Range(list) : w.key \in T) => list \o rest \in Good
<1> DEFINE U == {n \in Nat : \A list \in Seq(Visits(K)), rest \in Seq(Visits(K)) :
                    Len(list) = n /\ rest \in Good /\ (\A w \in Range(list) : w.key \in T)
                        => list \o rest \in Good}
<1>1. 0 \in U
  <2> SUFFICES ASSUME NEW list \in Seq(Visits(K)), NEW rest \in Seq(Visits(K)), Len(list) = 0, rest \in Good
               PROVE  list \o rest \in Good
    OBVIOUS
  <2>1. list = <<>>
    BY EmptySeq
  <2>2. <<>> \o rest = rest
    OBVIOUS
  <2> QED
    BY <2>1, <2>2
<1>2. ASSUME NEW n \in Nat, n \in U
      PROVE  n + 1 \in U
  <2> SUFFICES ASSUME NEW list \in Seq(Visits(K)), NEW rest \in Seq(Visits(K)), Len(list) = n + 1,
                      rest \in Good, \A w \in Range(list) : w.key \in T
               PROVE  list \o rest \in Good
    OBVIOUS
  <2>1. list # <<>>
    BY EmptySeq
  <2>2. PICK w, tail : w = Head(list) /\ tail = Tail(list)
    OBVIOUS
  <2>3. /\ w \in Visits(K) /\ w = list[1] /\ tail \in Seq(Visits(K)) /\ Len(tail) = n
        /\ \A i \in 1..n : tail[i] = list[i + 1]
    BY <2>1, <2>2, HeadTailProperties
  <2>4. w \in Range(list) /\ \A v \in Range(tail) : v \in Range(list)
    <3>1. DOMAIN list = 1..(n + 1) /\ DOMAIN tail = 1..n
      BY <2>3
    <3>2. 1 \in 1..(n + 1) /\ \A i \in 1..n : i + 1 \in 1..(n + 1)
      OBVIOUS
    <3>3. Range(list) = {list[i] : i \in 1..(n + 1)} /\ Range(tail) = {tail[i] : i \in 1..n}
      BY <3>1 DEF Range
    <3> QED
      BY <2>3, <3>2, <3>3
  <2>5. tail \o rest \in Good
    BY <1>2, <2>3, <2>4
  <2>6. <<w>> \o (tail \o rest) \in Good
    <3>1. PICK more \in Seq(Visits(K)) : more = tail \o rest
      BY <2>3, ConcatProperties
    <3>2. w.key \in T
      BY <2>4
    <3> QED
      BY <2>3, <2>5, <3>1, <3>2
  <2>7. list \o rest = <<w>> \o (tail \o rest)
    <3>1. list = <<w>> \o tail
      BY <2>1, <2>2, <2>3
    <3>2. <<w>> \in Seq(Visits(K))
      BY <2>3
    <3> QED
      BY <2>3, <3>1, <3>2
  <2> QED
    BY <2>6, <2>7
<1> HIDE DEF U
<1>3. Nat \subseteq U
  BY <1>1, <1>2, Induction
<1> SUFFICES ASSUME NEW list \in Seq(Visits(K)), NEW rest \in Seq(Visits(K)),
                    rest \in Good, \A w \in Range(list) : w.key \in T
             PROVE  list \o rest \in Good
  OBVIOUS
<1>4. Len(list) \in U
  BY <1>3
<1> QED
  BY <1>4 DEF U

\* Every list of visits is worked off, if nothing depends on itself.
LEMMA WalkEnds ==
    ASSUME NEW K, NEW graph, WellFounded(K, graph), NEW opening, NEW closing,
           Opens(K, graph, opening, closing),
           NEW Good \in SUBSET Seq(Visits(K)), <<>> \in Good,
           TakesReady(K, Good), TakesOpened(K, opening, closing, Good)
    PROVE  Seq(Visits(K)) \subseteq Good
<1> DEFINE T == {k \in K : \A w \in Visits(K), rest \in Seq(Visits(K)) :
                              w.key = k /\ rest \in Good => <<w>> \o rest \in Good}
<1>1. \A w \in Visits(K), rest \in Seq(Visits(K)) : w.key \in T /\ rest \in Good => <<w>> \o rest \in Good
  OBVIOUS
<1> HIDE DEF T
<1>2. \A list \in Seq(Visits(K)), rest \in Seq(Visits(K)) :
          rest \in Good /\ (\A w \in Range(list) : w.key \in T) => list \o rest \in Good
  BY <1>1, ListTaken
<1>3. ASSUME NEW k \in K, graph[k] \subseteq T
      PROVE  k \in T
  <2> SUFFICES ASSUME NEW w \in Visits(K), NEW rest \in Seq(Visits(K)), w.key = k, rest \in Good
               PROVE  <<w>> \o rest \in Good
    BY DEF T
  <2>1. CASE w.ready
    BY <2>1 DEF TakesReady
  <2>2. CASE ~w.ready
    <3>1. PICK list, last : list = opening[k] /\ last = closing[k]
      OBVIOUS
    <3>2. list \in Seq(Visits(K)) /\ last \in Visits(K) /\ last.ready /\ \A v \in Range(list) : v.key \in T
      BY <1>3, <3>1 DEF Opens
    <3>3. PICK behind : behind = <<last>> \o rest
      OBVIOUS
    <3>4. behind \in Good /\ behind \in Seq(Visits(K))
      BY <3>2, <3>3 DEF TakesReady
    <3>5. list \o behind \in Good
      BY <1>2, <3>2, <3>4
    <3> QED
      BY <2>2, <3>1, <3>3, <3>5 DEF TakesOpened
  <2> QED
    BY <2>1, <2>2
<1>4. K \subseteq T
  BY <1>3, GraphInduction DEF Inductive
<1> SUFFICES ASSUME NEW list \in Seq(Visits(K))
             PROVE  list \in Good
  OBVIOUS
<1>5. \A w \in Range(list) : w.key \in T
  <2>1. \A i \in DOMAIN list : list[i] \in Visits(K)
    OBVIOUS
  <2> QED
    BY <1>4, <2>1 DEF Range, Visits
<1>6. PICK none \in Seq(Visits(K)) : none = <<>>
  BY EmptySeq
<1>7. list \o none \in Good
  BY <1>2, <1>5, <1>6
<1>8. list \o none = list
  BY <1>6
<1> QED
  BY <1>7, <1>8

\* What has to be visited for a node, and what is called and handed out for it.
Called(k) == Replace(app, k)
Opening(k) == [i \in DOMAIN Deps(Called(k)) |-> Visit(Deps(Called(k))[i])]
Closing(k) == [key |-> k, call |-> Called(k), ready |-> TRUE]
Taken(k) == IF k \in DOMAIN app THEN {Called(k)} ELSE {}

LEMMA VisitFacts ==
    ASSUME Typed, Grounded
    PROVE  \A k \in Existing :
              /\ Called(k) \in Existing /\ Taken(k) \subseteq Existing
              /\ Opening(k) \in Seq(Visits(Existing)) /\ Closing(k) \in Visits(Existing)
              /\ \A w \in Range(Opening(k)) : w.key = w.call /\ w.key \in Graph[Called(k)]
<1> SUFFICES ASSUME NEW k \in Existing
             PROVE  /\ Called(k) \in Existing /\ Taken(k) \subseteq Existing
                    /\ Opening(k) \in Seq(Visits(Existing)) /\ Closing(k) \in Visits(Existing)
                    /\ \A w \in Range(Opening(k)) : w.key = w.call /\ w.key \in Graph[Called(k)]
  OBVIOUS
<1>1. Called(k) \in Existing
  BY GivenFacts DEF Typed, Called
<1>2. PICK deps : deps = Deps(Called(k))
  OBVIOUS
<1>3. deps \in Seq(Calls) /\ Range(deps) = Graph[Called(k)] /\ Range(deps) \subseteq Existing
  BY <1>1, <1>2, SignFacts DEF Grounded
<1>4. DOMAIN deps = 1..Len(deps) /\ Len(deps) \in Nat
  BY <1>3
<1>5. PICK opening : opening = [i \in DOMAIN deps |-> Visit(deps[i])]
  OBVIOUS
<1>6. \A i \in DOMAIN deps : /\ opening[i] \in Visits(Existing) /\ opening[i].key = opening[i].call
                             /\ opening[i].key \in Range(deps)
  <2> SUFFICES ASSUME NEW i \in DOMAIN deps
               PROVE  /\ opening[i] \in Visits(Existing) /\ opening[i].key = opening[i].call
                      /\ opening[i].key \in Range(deps)
    OBVIOUS
  <2>1. deps[i] \in Range(deps) /\ deps[i] \in Existing
    BY <1>3 DEF Range
  <2> QED
    BY <1>5, <2>1 DEF Visit, Visits
<1>7. opening \in Seq(Visits(Existing))
  <2>1. opening \in [1..Len(deps) -> Visits(Existing)]
    BY <1>4, <1>5, <1>6
  <2> QED
    BY <1>4, <2>1, SeqDef
<1>8. Range(opening) = {opening[i] : i \in DOMAIN deps}
  BY <1>5 DEF Range
<1>9. Opening(k) = opening
  BY <1>2, <1>5 DEF Opening
<1>10. Closing(k) \in Visits(Existing)
  BY <1>1 DEF Closing, Visits
<1> QED
  BY <1>1, <1>3, <1>6, <1>7, <1>8, <1>9, <1>10 DEF Taken

\* The states of the work, and the step from one to the next.
States == [todo : Seq(Visits(Existing)), handed : SUBSET Existing]
Opened(s) == [todo |-> Opening(Head(s.todo).key) \o (<<Closing(Head(s.todo).key)>> \o Tail(s.todo)),
              handed |-> s.handed \cup Taken(Head(s.todo).key)]
Ended(s) == [todo |-> Tail(s.todo), handed |-> s.handed]
After(s) == IF Head(s.todo).ready THEN Ended(s) ELSE Opened(s)

LEMMA AfterFacts ==
    ASSUME Typed, Grounded, NEW s \in States, s.todo # <<>>
    PROVE  /\ Head(s.todo) \in Visits(Existing) /\ Head(s.todo) = s.todo[1]
           /\ Tail(s.todo) \in Seq(Visits(Existing)) /\ s.todo = <<Head(s.todo)>> \o Tail(s.todo)
           /\ Ended(s) \in States /\ Opened(s) \in States /\ After(s) \in States
<1>1. s.todo \in Seq(Visits(Existing)) /\ s.handed \subseteq Existing
  BY DEF States
<1>2. PICK todo, w, tail : todo = s.todo /\ w = Head(todo) /\ tail = Tail(todo)
  OBVIOUS
<1>3. todo \in Seq(Visits(Existing)) /\ todo # <<>>
  BY <1>1, <1>2
<1>4. w \in Visits(Existing) /\ w = todo[1] /\ tail \in Seq(Visits(Existing))
  BY <1>2, <1>3, HeadTailProperties
<1>5. todo = <<w>> \o tail
  <2>1. Len(todo) \in Nat /\ Len(todo) # 0 /\ Len(tail) = Len(todo) - 1 /\ \A i \in 1..Len(tail) : tail[i] = todo[i + 1]
    BY <1>2, <1>3, EmptySeq, HeadTailProperties
  <2> QED
    BY <1>3, <1>4, <2>1
<1>6. PICK k \in Existing : k = w.key
  BY <1>4 DEF Visits
<1>7. PICK opening \in Seq(Visits(Existing)), closing \in Visits(Existing), taken \in SUBSET Existing :
          opening = Opening(k) /\ closing = Closing(k) /\ taken = Taken(k)
  BY VisitFacts
<1>8. <<closing>> \o tail \in Seq(Visits(Existing))
  <2>1. <<closing>> \in Seq(Visits(Existing))
    OBVIOUS
  <2> QED
    BY <1>4, <2>1, ConcatProperties
<1>9. opening \o (<<closing>> \o tail) \in Seq(Visits(Existing))
  BY <1>8, ConcatProperties
<1>10. Ended(s) \in States
  BY <1>1, <1>2, <1>4 DEF Ended, States
<1>11. Opened(s) \in States
  <2>1. Opened(s) = [todo |-> opening \o (<<closing>> \o tail), handed |-> s.handed \cup taken]
    BY <1>2, <1>6, <1>7 DEF Opened
  <2> QED
    BY <1>1, <1>9, <2>1 DEF States
<1> QED
  BY <1>2, <1>4, <1>5, <1>10, <1>11 DEF After

\* The work always comes to a stop.
Successor(values) == [s \in States |-> IF Stops(s.todo, values) THEN {} ELSE {After(s)}]
LEMMA WorkEnds ==
    ASSUME Typed, Grounded, NEW values
    PROVE  WellFounded(States, Successor(values))
<1>1. \A s \in States : ~Stops(s.todo, values) => s.todo # <<>> /\ After(s) \in States
  BY AfterFacts DEF Stops
<1>2. Successor(values) \in [States -> SUBSET States]
  BY <1>1 DEF Successor
<1>3. ASSUME NEW S \in SUBSET States, S # {}, \A s \in S : Successor(values)[s] \cap S # {}
      PROVE  FALSE
  <2> DEFINE Good == {todo \in Seq(Visits(Existing)) : \A h \in SUBSET Existing : [todo |-> todo, handed |-> h] \notin S}
             opening == [k \in Existing |-> Opening(k)]
             closing == [k \in Existing |-> Closing(k)]
  <2>1. \A s \in S : ~Stops(s.todo, values) /\ s.todo # <<>> /\ After(s) \in S
    BY <1>1, <1>3 DEF Successor
  <2>2. PICK graph : graph = Overridden(app)
    OBVIOUS
  <2>3. /\ WellFounded(Existing, graph)
        /\ \A k \in Existing : graph[k] = Graph[Called(k)]
    BY <2>2, GraphFacts DEF Typed, Overridden, Called
  <2>4. Opens(Existing, graph, opening, closing)
    <3>1. \A k \in Existing : Closing(k).ready
      BY DEF Closing
    <3> QED
      BY <2>3, <3>1, VisitFacts DEF Opens
  <2>5. \A w \in Visits(Existing), rest \in Seq(Visits(Existing)), h \in SUBSET Existing :
            [todo |-> <<w>> \o rest, handed |-> h] \in S =>
                IF w.ready THEN [todo |-> rest, handed |-> h] \in S
                ELSE [todo |-> Opening(w.key) \o (<<Closing(w.key)>> \o rest), handed |-> h \cup Taken(w.key)] \in S
    <3> SUFFICES ASSUME NEW w \in Visits(Existing), NEW rest \in Seq(Visits(Existing)), NEW h \in SUBSET Existing,
                        [todo |-> <<w>> \o rest, handed |-> h] \in S
                 PROVE  IF w.ready THEN [todo |-> rest, handed |-> h] \in S
                        ELSE [todo |-> Opening(w.key) \o (<<Closing(w.key)>> \o rest),
                              handed |-> h \cup Taken(w.key)] \in S
      OBVIOUS
    <3>1. PICK todo : todo = <<w>> \o rest
      OBVIOUS
    <3>2. PICK s : s = [todo |-> todo, handed |-> h]
      OBVIOUS
    <3>3. s \in S /\ s.todo = todo /\ s.handed = h
      BY <3>1, <3>2
    <3>4. Head(todo) = w /\ Tail(todo) = rest
      BY <3>1
    <3>5. After(s) \in S
      BY <2>1, <3>3
    <3> QED
      BY <3>3, <3>4, <3>5 DEF After, Ended, Opened
  <2>6. TakesReady(Existing, Good)
    <3> SUFFICES ASSUME NEW w \in Visits(Existing), NEW rest \in Seq(Visits(Existing)), w.ready, rest \in Good
                 PROVE  <<w>> \o rest \in Good
      BY DEF TakesReady
    <3>1. <<w>> \o rest \in Seq(Visits(Existing))
      OBVIOUS
    <3>2. \A h \in SUBSET Existing : [todo |-> <<w>> \o rest, handed |-> h] \notin S
      BY <2>5
    <3> QED
      BY <3>1, <3>2
  <2>7. TakesOpened(Existing, opening, closing, Good)
    <3> SUFFICES ASSUME NEW w \in Visits(Existing), NEW rest \in Seq(Visits(Existing)), ~w.ready,
                        opening[w.key] \o (<<closing[w.key]>> \o rest) \in Good
                 PROVE  <<w>> \o rest \in Good
      BY DEF TakesOpened
    <3>1. <<w>> \o rest \in Seq(Visits(Existing))
      OBVIOUS
    <3>2. w.key \in Existing /\ opening[w.key] = Opening(w.key) /\ closing[w.key] = Closing(w.key)
      BY DEF Visits
    <3>3. \A h \in SUBSET Existing : h \cup Taken(w.key) \in SUBSET Existing
      BY <3>2, VisitFacts
    <3>4. PICK more : more = Opening(w.key) \o (<<Closing(w.key)>> \o rest)
      OBVIOUS
    <3>5. more \in Good
      BY <3>2, <3>4
    <3>6. \A h \in SUBSET Existing : [todo |-> <<w>> \o rest, handed |-> h] \notin S
      BY <2>5, <3>3, <3>4, <3>5
    <3> QED
      BY <3>1, <3>6
  <2>8. <<>> \in Good
    <3>1. \A h \in SUBSET Existing : [todo |-> <<>>, handed |-> h].todo = <<>>
      OBVIOUS
    <3>2. <<>> \in Seq(Visits(Existing))
      BY EmptySeq
    <3> QED
      BY <2>1, <3>1, <3>2
  <2>9. Good \in SUBSET Seq(Visits(Existing))
    OBVIOUS
  <2> HIDE DEF Good, opening, closing
  <2>10. Seq(Visits(Existing)) \subseteq Good
    BY <2>3, <2>4, <2>6, <2>7, <2>8, <2>9, WalkEnds
  <2>11. PICK s : s \in S
    BY <1>3
  <2>12. s \in States /\ s = [todo |-> s.todo, handed |-> s.handed] /\ s.todo \in Seq(Visits(Existing)) /\ s.handed \in SUBSET Existing
    BY <2>11 DEF States
  <2> QED
    BY <2>10, <2>11, <2>12 DEF Good
<1> QED
  BY <1>2, <1>3 DEF WellFounded

\* Proceed goes from state to state until the work stops: what every step keeps holds of
\* its result.
Started(todo) == [todo |-> todo, handed |-> {}]
LEMMA ProceedKeeps ==
    ASSUME Typed, Grounded, NEW values, NEW todo \in Seq(Visits(Existing)),
           NEW T \in SUBSET States, Started(todo) \in T,
           \A s \in T : ~Stops(s.todo, values) => After(s) \in T
    PROVE  Proceed(todo, values) \in T /\ Stops(Proceed(todo, values).todo, values)
<1> DEFINE step == [p \in States \X [States -> States] |->
                      IF Stops(p[1].todo, values) THEN p[1] ELSE p[2][After(p[1])]]
<1>1. \A s \in States : ~Stops(s.todo, values) => s.todo # <<>> /\ After(s) \in States
  BY AfterFacts DEF Stops
<1>2. \A s \in States, g \in [States -> States] :
          step[<<s, g>>] = IF Stops(s.todo, values) THEN s ELSE g[After(s)]
  OBVIOUS
<1>3. step \in [States \X [States -> States] -> States]
  <2>1. \A s \in States, g \in [States -> States] :
            (IF Stops(s.todo, values) THEN s ELSE g[After(s)]) \in States
    BY <1>1
  <2> QED
    BY <2>1
<1>4. \A s \in States : ~Stops(s.todo, values) => Successor(values)[s] = {After(s)}
  BY DEF Successor
<1> HIDE DEF step
<1>5. Local(States, States, Successor(values), step)
  <2> SUFFICES ASSUME NEW s \in States, NEW g \in [States -> States], NEW h \in [States -> States],
                      \A d \in Successor(values)[s] : g[d] = h[d]
               PROVE  step[<<s, g>>] = step[<<s, h>>]
    BY DEF Local
  <2> QED
    BY <1>2, <1>4
<1>6. \E f \in [States -> States] : \A s \in States : f[s] = step[<<s, f>>]
  <2>1. States # {}
    BY DEF Started
  <2>2. WellFounded(States, Successor(values))
    BY WorkEnds
  <2>3. Recursive(States, States, Successor(values), step)
    BY <1>3, <1>5, <2>1, <2>2 DEF Recursive
  <2> QED
    BY <2>3, GraphRecursion DEF HasSolution
<1>7. PICK f \in [States -> States] : \A s \in States : f[s] = step[<<s, f>>]
  BY <1>6
<1>8. \A s \in States : f[s] = IF Stops(s.todo, values) THEN s ELSE f[After(s)]
  BY <1>2, <1>7
<1> DEFINE body(g, s) ==
        LET at == Head(s.todo)
            call == IF at.key \in DOMAIN app THEN app[at.key] ELSE at.key
            deps == [i \in DOMAIN Deps(call) |-> Visit(Deps(call)[i])]
        IN  IF s.todo = <<>> \/ (at.ready /\ at.key \notin values) THEN s
            ELSE IF at.ready THEN g[[s EXCEPT !.todo = Tail(@)]]
            ELSE g[[todo |-> deps \o <<[key |-> at.key, call |-> call, ready |-> TRUE]>> \o Tail(s.todo),
                    handed |-> s.handed \cup IF at.key \in DOMAIN app THEN {call} ELSE {}]]
           onward == CHOOSE g : g = [s \in States |-> body(g, s)]
<1>9. ASSUME NEW g, NEW s \in States
      PROVE  body(g, s) = IF Stops(s.todo, values) THEN s ELSE g[After(s)]
  <2>1. CASE Stops(s.todo, values)
    BY <2>1 DEF Stops
  <2>2. CASE ~Stops(s.todo, values) /\ Head(s.todo).ready
    <3>1. [s EXCEPT !.todo = Tail(@)] = Ended(s)
      <4>1. PICK A, B : A = Seq(Visits(Existing)) /\ B = SUBSET Existing
        OBVIOUS
      <4>2. s \in [todo : A, handed : B]
        BY <4>1 DEF States
      <4>3. PICK tail : tail = Tail(s.todo)
        OBVIOUS
      <4>4. [s EXCEPT !.todo = tail] = [todo |-> tail, handed |-> s.handed]
        BY ONLY <4>2
      <4> QED
        BY <4>3, <4>4 DEF Ended
    <3> QED
      BY <2>2, <3>1 DEF Stops, After
  <2>3. CASE ~Stops(s.todo, values) /\ ~Head(s.todo).ready
    <3>1. PICK at, tail : at = Head(s.todo) /\ tail = Tail(s.todo)
      OBVIOUS
    <3>2. at \in Visits(Existing) /\ tail \in Seq(Visits(Existing)) /\ at.key \in Existing
      BY <1>1, <2>3, <3>1, AfterFacts DEF Visits
    <3>3. PICK opening \in Seq(Visits(Existing)), closing \in Visits(Existing) :
              opening = Opening(at.key) /\ closing = Closing(at.key)
      BY <3>2, VisitFacts
    <3>4. (opening \o <<closing>>) \o tail = opening \o (<<closing>> \o tail)
      <4>1. <<closing>> \in Seq(Visits(Existing))
        OBVIOUS
      <4> QED
        BY <3>2, <4>1
    <3>5. body(g, s) = g[[todo |-> Opening(at.key) \o <<Closing(at.key)>> \o tail, handed |-> s.handed \cup Taken(at.key)]]
      BY <2>3, <3>1 DEF Stops, Opening, Closing, Taken, Called, Replace
    <3>6. Opened(s) = [todo |-> opening \o (<<closing>> \o tail), handed |-> s.handed \cup Taken(at.key)]
      BY <3>1, <3>3 DEF Opened
    <3>7. body(g, s) = g[Opened(s)]
      BY <3>3, <3>4, <3>5, <3>6
    <3> HIDE DEF body
    <3> QED
      BY <2>3, <3>7 DEF After
  <2> HIDE DEF body
  <2> QED
    BY <2>1, <2>2, <2>3
<1>10. Proceed(todo, values) = onward[Started(todo)]
  BY DEF Proceed, States, Visits, Started
<1> HIDE DEF body
<1>11. f = [s \in States |-> body(f, s)]
  <2>1. \A s \in States : f[s] = body(f, s)
    BY <1>8, <1>9
  <2> QED
    BY <2>1
<1>12. onward = [s \in States |-> body(onward, s)]
  BY <1>11
<1> HIDE DEF onward
<1>13. \A s \in States : onward[s] = IF Stops(s.todo, values) THEN s ELSE onward[After(s)]
  BY <1>9, <1>12
<1> DEFINE U == {s \in States : s \in T => onward[s] \in T /\ Stops(onward[s].todo, values)}
<1>14. Inductive(States, Successor(values), U)
  <2> SUFFICES ASSUME NEW s \in States, Successor(values)[s] \subseteq U, s \in T
               PROVE  onward[s] \in T /\ Stops(onward[s].todo, values)
    BY DEF Inductive
  <2>1. CASE Stops(s.todo, values)
    BY <1>13, <2>1
  <2>2. CASE ~Stops(s.todo, values)
    <3>1. After(s) \in T /\ After(s) \in U /\ onward[s] = onward[After(s)]
      BY <1>4, <1>13, <2>2
    <3> QED
      BY <3>1
  <2> QED
    BY <2>1, <2>2
<1> HIDE DEF U
<1>15. States \subseteq U
  BY <1>14, WorkEnds, GraphInduction
<1> QED
  BY <1>10, <1>15 DEF U

\* What t may call when these overrides are handed out to it.
Allowed(t, handed) == Mine(t) \cup UNION {Behind(h) : h \in handed}
Allows(t, todo, handed) == \A w \in Range(todo) : w.key \in Allowed(t, handed) /\ w.call \in Allowed(t, handed)

LEMMA AllowedFacts ==
    ASSUME Grounded, Served, NEW t \in Tasks
    PROVE  \A handed \in SUBSET Existing :
              /\ handed \subseteq Allowed(t, handed) /\ Allowed(t, handed) \subseteq Existing
              /\ \A c \in Allowed(t, handed) : Graph[c] \subseteq Allowed(t, handed)
<1> SUFFICES ASSUME NEW handed \in SUBSET Existing
             PROVE  /\ handed \subseteq Allowed(t, handed) /\ Allowed(t, handed) \subseteq Existing
                    /\ \A c \in Allowed(t, handed) : Graph[c] \subseteq Allowed(t, handed)
  OBVIOUS
<1>1. \A h \in handed : /\ h \in Behind(h) /\ Behind(h) \subseteq Existing
                        /\ \A d \in Behind(h) : Graph[d] \subseteq Behind(h)
  BY BehindFacts
<1>2. Mine(t) \subseteq Existing /\ \A c \in Mine(t) : Graph[c] \subseteq Mine(t)
  BY DEF Served
<1> QED
  BY <1>1, <1>2 DEF Allowed

\* The first visit of a list, and the others.
LEMMA HeadTailAllowed ==
    ASSUME NEW t, NEW handed, NEW S, NEW todo \in Seq(S), todo # <<>>, Allows(t, todo, handed)
    PROVE  /\ Head(todo).key \in Allowed(t, handed) /\ Head(todo).call \in Allowed(t, handed)
           /\ Allows(t, Tail(todo), handed)
<1>1. PICK w, tail : w = Head(todo) /\ tail = Tail(todo)
  OBVIOUS
<1>2. /\ Len(todo) \in Nat /\ Len(todo) # 0 /\ w = todo[1] /\ tail \in Seq(S) /\ Len(tail) = Len(todo) - 1
      /\ \A i \in 1..Len(tail) : tail[i] = todo[i + 1]
  BY <1>1, EmptySeq, HeadTailProperties
<1>3. w \in Range(todo) /\ Range(tail) \subseteq Range(todo)
  <2>1. DOMAIN todo = 1..Len(todo) /\ DOMAIN tail = 1..Len(tail)
    BY <1>2
  <2>2. 1 \in 1..Len(todo) /\ \A i \in 1..Len(tail) : i + 1 \in 1..Len(todo)
    BY <1>2
  <2> QED
    BY <1>2, <2>1, <2>2 DEF Range
<1> QED
  BY <1>1, <1>3 DEF Allows

\* FastAPI goes on to calls that the resolve has, or that are handed out to it.
LEMMA ProceedAllowed ==
    ASSUME Typed, Grounded, Served, NEW t \in Tasks, NEW values, NEW todo \in Seq(Visits(Existing)),
           Allows(t, todo, {})
    PROVE  /\ Proceed(todo, values) \in States /\ Stops(Proceed(todo, values).todo, values)
           /\ Proceed(todo, values).handed \subseteq Range(app)
           /\ Allows(t, Proceed(todo, values).todo, Proceed(todo, values).handed)
<1> DEFINE T == {s \in States : s.handed \subseteq Range(app) /\ Allows(t, s.todo, s.handed)}
<1>1. Started(todo) \in T
  BY DEF Started, States
<1>2. ASSUME NEW s \in T, s.todo # <<>>
      PROVE  Ended(s) \in T
  <2>1. s.todo \in Seq(Visits(Existing)) /\ Allows(t, s.todo, s.handed)
    BY DEF States
  <2>2. Allows(t, Tail(s.todo), s.handed)
    BY <1>2, <2>1, HeadTailAllowed
  <2> QED
    BY <1>2, <2>2, AfterFacts DEF Ended
<1>3. ASSUME NEW s \in T, s.todo # <<>>
      PROVE  Opened(s) \in T
  <2>1. PICK at, tail : at = Head(s.todo) /\ tail = Tail(s.todo)
    OBVIOUS
  <2>2. /\ at \in Visits(Existing) /\ tail \in Seq(Visits(Existing)) /\ at.key \in Existing
        /\ Opened(s) \in States /\ s.handed \subseteq Existing
    BY <1>3, <2>1, AfterFacts DEF Visits, States
  <2>3. at.key \in Allowed(t, s.handed) /\ Allows(t, tail, s.handed)
    <3>1. s.todo \in Seq(Visits(Existing)) /\ Allows(t, s.todo, s.handed)
      BY DEF States
    <3> QED
      BY <1>3, <2>1, <3>1, HeadTailAllowed
  <2>4. PICK opening \in Seq(Visits(Existing)), closing \in Visits(Existing), taken \in SUBSET Existing :
            opening = Opening(at.key) /\ closing = Closing(at.key) /\ taken = Taken(at.key)
    BY <2>2, VisitFacts
  <2>5. PICK more \in SUBSET Existing : more = s.handed \cup taken
    BY <2>2
  <2>6. PICK behind : behind = <<closing>> \o tail
    OBVIOUS
  <2>7. Opened(s) = [todo |-> opening \o behind, handed |-> more]
    BY <2>1, <2>4, <2>5, <2>6 DEF Opened
  <2>8. more \subseteq Range(app)
    <3>1. taken \subseteq Range(app)
      BY <2>4 DEF Taken, Called, Replace, Range
    <3> QED
      BY <2>5, <3>1
  <2>9. Allowed(t, s.handed) \subseteq Allowed(t, more)
    BY <2>5 DEF Allowed
  <2>10. Called(at.key) \in Allowed(t, more) /\ Graph[Called(at.key)] \subseteq Allowed(t, more)
    <3>1. more \subseteq Allowed(t, more) /\ \A c \in Allowed(t, more) : Graph[c] \subseteq Allowed(t, more)
      BY AllowedFacts
    <3>2. CASE at.key \in DOMAIN app
      BY <2>4, <2>5, <3>1, <3>2 DEF Taken
    <3>3. CASE at.key \notin DOMAIN app
      BY <2>3, <2>9, <3>1, <3>3 DEF Called, Replace
    <3> QED
      BY <3>2, <3>3
  <2>11. Allows(t, opening, more)
    BY <2>2, <2>4, <2>10, VisitFacts DEF Allows
  <2>12. behind \in Seq(Visits(Existing)) /\ Allows(t, behind, more)
    <3>1. PICK one : one = <<closing>>
      OBVIOUS
    <3>2. one \in Seq(Visits(Existing)) /\ Range(one) = {closing}
      BY <3>1 DEF Range
    <3>3. behind \in Seq(Visits(Existing)) /\ Range(behind) = Range(one) \cup Range(tail)
      <4>1. behind \in Seq(Visits(Existing))
        BY <2>2, <2>6, <3>1, <3>2, ConcatProperties
      <4>2. Range(one \o tail) = Range(one) \cup Range(tail)
        BY <2>2, <3>2, ConcatRange
      <4> QED
        BY <2>6, <3>1, <4>1, <4>2
    <3>4. closing.key \in Allowed(t, more) /\ closing.call \in Allowed(t, more)
      BY <2>3, <2>4, <2>9, <2>10 DEF Closing
    <3> QED
      BY <2>3, <2>9, <3>2, <3>3, <3>4 DEF Allows
  <2>13. Range(opening \o behind) = Range(opening) \cup Range(behind)
    BY <2>12, ConcatRange
  <2>14. Allows(t, opening \o behind, more)
    BY <2>11, <2>12, <2>13 DEF Allows
  <2>15. Opened(s).todo = opening \o behind /\ Opened(s).handed = more
    BY <2>7
  <2> QED
    BY <2>2, <2>8, <2>14, <2>15
<1>4. \A s \in T : ~Stops(s.todo, values) => After(s) \in T
  BY <1>2, <1>3 DEF Stops, After
<1>5. T \in SUBSET States
  OBVIOUS
<1> HIDE DEF T
<1>6. Proceed(todo, values) \in T /\ Stops(Proceed(todo, values).todo, values)
  BY <1>1, <1>4, <1>5, ProceedKeeps
<1> QED
  BY <1>6 DEF T

-----------------------------------------------------------------------------
\* The steps of a resolve

\* What a job and the proxies may be at each time.
LEMMA JobFacts ==
    ASSUME RInv, NEW t \in Tasks
    PROVE  /\ Mine(t) \subseteq Existing /\ Static \subseteq Mine(t)
           /\ jobs[t].todo \in Seq(Visits(Existing)) /\ Allows(t, jobs[t].todo, {})
           /\ ~Idle(t) => jobs[t].root \in Mine(t)
           /\ Idle(t) => Mine(t) = Static /\ jobs[t].todo = <<>>
<1> USE DEF RInv
<1>1. jobs[t] \in Job /\ jobs[t].todo \in Seq(VisitType)
  BY DEF Typed, Job
<1>2. Mine(t) \subseteq Existing /\ Static \subseteq Mine(t)
  BY DEF Served, Mine
<1>3. \A w \in Range(jobs[t].todo) : w.key \in Mine(t) /\ w.call \in Mine(t)
  BY DEF Served
<1>4. jobs[t].todo \in Seq(Visits(Existing))
  <2>1. PICK todo \in Seq(VisitType) : todo = jobs[t].todo
    BY <1>1
  <2>2. \A i \in 1..Len(todo) : todo[i] \in Visits(Existing)
    <3> SUFFICES ASSUME NEW i \in 1..Len(todo)
                 PROVE  todo[i] \in Visits(Existing)
      OBVIOUS
    <3>1. PICK w : w = todo[i]
      OBVIOUS
    <3>2. w \in VisitType /\ w \in Range(todo)
      BY <3>1 DEF Range
    <3>3. w.key \in Existing /\ w.call \in Existing
      BY <1>2, <1>3, <2>1, <3>2
    <3> QED
      BY <3>1, <3>2, <3>3 DEF VisitType, Visits
  <2>3. Len(todo) \in Nat /\ todo \in [1..Len(todo) -> Visits(Existing)]
    BY <2>2
  <2> QED
    BY <2>1, <2>3, SeqDef
<1>5. Allowed(t, {}) = Mine(t)
  BY DEF Allowed
<1>6. Idle(t) => Mine(t) = Static /\ jobs[t].todo = <<>>
  <2> SUFFICES ASSUME Idle(t)
               PROVE  Mine(t) = Static /\ jobs[t].todo = <<>>
    OBVIOUS
  <2>1. \A p \in proxies : p.task # t
    BY DEF Forgotten
  <2>2. jobs[t].phase # "solving"
    BY DEF Idle
  <2> QED
    BY <2>1, <2>2 DEF Mine, Solving
<1> QED
  BY <1>2, <1>3, <1>4, <1>5, <1>6 DEF Allows, Served

\* A task is shown what FastAPI is about to call: it has proxies for all of it.
LEMMA ShowKeeps ==
    ASSUME RInv, NEW t \in Tasks, ~Idle(t), \A u \in Tasks : jobs[u].phase = "solving" => u = t,
           NEW todo \in Seq(Visits(Existing)), Allows(t, todo, {}), NEW values \in SUBSET Calls,
           Show(t, Proceed(todo, values), values), UNCHANGED <<made, analysed, app, blocks>>,
           built' \in [Calls -> 0..MaxBuilt], BuiltIsCached'
    PROVE  RInv'
<1> USE DEF RInv
<1>1. PICK next : next = Proceed(todo, values)
  OBVIOUS
<1>2. /\ next \in States /\ next.todo \in Seq(Visits(Existing)) /\ next.handed \subseteq Existing
      /\ Stops(next.todo, values) /\ next.handed \subseteq Range(app) /\ Allows(t, next.todo, next.handed)
  <2>1. next \in States /\ Stops(next.todo, values) /\ next.handed \subseteq Range(app)
        /\ Allows(t, next.todo, next.handed)
    BY <1>1, ProceedAllowed
  <2> QED
    BY <2>1 DEF States
<1>3. /\ jobs' = [jobs EXCEPT ![t].phase = "solving", ![t].todo = next.todo]
      /\ proxies' = proxies \cup UNION {ProxyAll(t, "handed", c) : c \in next.handed}
      /\ shown' = shown \cup (next.handed \cap Runtime \cap {c \in Calls : IsStatic(c)})
      /\ cache' = values
  BY <1>1 DEF Show
<1>4. Existing' = Existing /\ Graph' = Graph /\ \A c : Behind(c)' = Behind(c)
  BY SameGraph
<1>5. \A c \in next.handed : Behind(c) \subseteq Existing /\ Behind(c) \subseteq Calls
  BY <1>2, BehindFacts, GivenFacts
<1>6. next.todo \in Seq(VisitType)
  <2>1. Visits(Existing) \subseteq VisitType
    BY GivenFacts DEF Visits, VisitType
  <2> QED
    BY <1>2, <2>1
<1>7. \A u \in Tasks : /\ jobs'[u].root = jobs[u].root
                       /\ u # t => jobs'[u] = jobs[u]
                       /\ jobs'[t].phase = "solving" /\ jobs'[t].todo = next.todo /\ jobs'[u] \in Job
  <2>1. \A u \in Tasks : jobs[u] \in Job
    BY DEF Typed
  <2>2. jobs' = [u \in Tasks |-> IF u = t THEN [root |-> jobs[u].root, phase |-> "solving", todo |-> next.todo] ELSE jobs[u]]
    <3>1. PICK mid : mid = [jobs EXCEPT ![t].phase = "solving"]
      OBVIOUS
    <3>2. PICK R, P, L : R = Calls \cup {NoDep} /\ P = {"idle", "waiting", "solving"} /\ L = Seq(VisitType)
      OBVIOUS
    <3>3. jobs \in [Tasks -> [root : R, phase : P, todo : L]] /\ "solving" \in P
      BY <3>2 DEF Typed, Job
    <3>4. jobs' = [mid EXCEPT ![t].todo = next.todo]
      BY <1>3, <3>1
    <3>5. \A j \in [root : R, phase : P, todo : L] : \A phase, rest :
              /\ [j EXCEPT !.phase = phase] = [root |-> j.root, phase |-> phase, todo |-> j.todo]
              /\ [j EXCEPT !.todo = rest] = [root |-> j.root, phase |-> j.phase, todo |-> rest]
      OBVIOUS
    <3>6. /\ mid[t] = [root |-> jobs[t].root, phase |-> "solving", todo |-> jobs[t].todo]
          /\ mid[t] \in [root : R, phase : P, todo : L] /\ DOMAIN mid = Tasks
          /\ \A u \in Tasks : u # t => mid[u] = jobs[u]
      <4>1. mid[t] = [jobs[t] EXCEPT !.phase = "solving"]
        BY <3>1, <3>3
      <4>2. mid[t] = [root |-> jobs[t].root, phase |-> "solving", todo |-> jobs[t].todo]
        BY <3>3, <3>5, <4>1
      <4>3. mid[t] \in [root : R, phase : P, todo : L]
        BY <3>3, <4>2
      <4> QED
        BY <3>1, <3>3, <4>2, <4>3
    <3>7. /\ jobs'[t] = [root |-> jobs[t].root, phase |-> "solving", todo |-> next.todo]
          /\ \A u \in Tasks : u # t => jobs'[u] = jobs[u]
      <4>1. jobs'[t] = [mid[t] EXCEPT !.todo = next.todo]
        BY <3>4, <3>6
      <4>2. jobs'[t] = [root |-> mid[t].root, phase |-> mid[t].phase, todo |-> next.todo]
        BY <3>5, <3>6, <4>1
      <4> QED
        BY <3>4, <3>6, <4>2
    <3>8. jobs' = [u \in Tasks |-> jobs'[u]]
      BY <3>4, <3>6
    <3> QED
      BY <3>7, <3>8
  <2>3. [root |-> jobs[t].root, phase |-> "solving", todo |-> next.todo] \in Job
    BY <1>6, <2>1 DEF Job
  <2> QED
    BY <2>1, <2>2, <2>3
<1>8. \A c \in next.handed : \A p \in ProxyAll(t, "handed", c) :
          /\ p \in [task : Tasks, list : {"root", "handed"}, call : Runtime]
          /\ p.task = t /\ p.call \in Behind(c) /\ p.call \notin Static
  BY <1>5 DEF ProxyAll, Proxy, IsStatic, Runtime
<1>9. \A c \in next.handed : \A d \in Behind(c) : d \notin Static => \E p \in ProxyAll(t, "handed", c) : p.call = d
  <2> SUFFICES ASSUME NEW c \in next.handed, NEW d \in Behind(c), d \notin Static
               PROVE  \E p \in ProxyAll(t, "handed", c) : p.call = d
    OBVIOUS
  <2>1. Proxy(t, "handed", d) \in ProxyAll(t, "handed", c)
    BY DEF ProxyAll, IsStatic
  <2>2. Proxy(t, "handed", d).call = d
    BY DEF Proxy
  <2> QED
    BY <2>1, <2>2
<1>10. \A u \in Tasks : Mine(u)' = IF u = t THEN Allowed(t, next.handed) ELSE Mine(u)
  <2>1. ASSUME NEW u \in Tasks, u # t
        PROVE  Mine(u)' = Mine(u)
    BY <1>3, <1>8, <2>1 DEF Mine
  <2>2. Mine(t)' = Allowed(t, next.handed)
    <3>1. Mine(t)' \subseteq Allowed(t, next.handed)
      BY <1>3, <1>8 DEF Mine, Allowed
    <3>2. Mine(t) \subseteq Mine(t)'
      BY <1>3 DEF Mine
    <3>3. ASSUME NEW c \in next.handed, NEW d \in Behind(c)
          PROVE  d \in Mine(t)'
      <4>1. CASE d \in Static
        BY <4>1 DEF Mine
      <4>2. CASE d \notin Static
        <5>1. PICK p \in ProxyAll(t, "handed", c) : p.call = d
          BY <1>9, <4>2
        <5>2. p \in proxies' /\ p.task = t
          BY <1>3, <1>8
        <5> QED
          BY <5>1, <5>2 DEF Mine
      <4> QED
        BY <4>1, <4>2
    <3> QED
      BY <3>1, <3>2, <3>3 DEF Allowed
  <2> QED
    BY <2>1, <2>2
<1>11. Typed'
  <2>1. jobs' \in [Tasks -> Job]
    BY <1>3, <1>7 DEF Typed
  <2>2. proxies' \subseteq [task : Tasks, list : {"root", "handed"}, call : Runtime]
    BY <1>3, <1>8 DEF Typed
  <2> QED
    BY <1>3, <2>1, <2>2 DEF Typed
<1>12. Grounded'
  BY <1>4 DEF Grounded
<1>13. Served'
  <2> SUFFICES ASSUME NEW u \in Tasks
               PROVE  /\ Mine(u)' \subseteq Existing' /\ \A c \in Mine(u)' : Graph'[c] \subseteq Mine(u)'
                      /\ ~Idle(u)' => jobs'[u].root \in Mine(u)'
                      /\ \A w \in Range(jobs'[u].todo) : w.key \in Mine(u)' /\ w.call \in Mine(u)'
    BY DEF Served
  <2>1. CASE u = t
    <3>1. /\ Allowed(t, next.handed) \subseteq Existing
          /\ \A c \in Allowed(t, next.handed) : Graph[c] \subseteq Allowed(t, next.handed)
      BY <1>2, AllowedFacts
    <3>2. jobs[t].root \in Allowed(t, next.handed)
      BY JobFacts DEF Allowed
    <3> QED
      BY <1>2, <1>4, <1>7, <1>10, <2>1, <3>1, <3>2 DEF Allows
  <2>2. CASE u # t
    BY <1>4, <1>7, <1>10, <2>2 DEF Served, Idle
  <2> QED
    BY <2>1, <2>2
<1>14. Forgotten'
  <2>1. shown' = {} /\ analysed' \subseteq Static
    BY <1>3 DEF Forgotten, IsStatic, Runtime
  <2>2. \A u \in Tasks : Used(u)' = Used(u)
    BY <1>4, <1>7 DEF Used
  <2>3. \A p \in proxies : p.task \in Tasks /\ ~Idle(p.task)' /\ p.call \in Used(p.task)'
    <3>1. \A p \in proxies : p.task \in Tasks /\ ~Idle(p.task) /\ p.call \in Used(p.task)
      BY DEF Forgotten, Typed
    <3>2. \A u \in Tasks : ~Idle(u) => ~Idle(u)'
      BY <1>7 DEF Idle
    <3> QED
      BY <2>2, <3>1, <3>2
  <2>4. \A c \in next.handed : Behind(c) \subseteq Used(t)
    <3>1. \A k \in DOMAIN app : \E e \in Entries \cup {AppOverrides} : k \in DOMAIN e /\ app[k] = e[k]
      BY DEF Typed, Mixtures
    <3>2. Range(app) \subseteq UNION {Range(e) : e \in Entries \cup {AppOverrides}}
      BY <3>1 DEF Range
    <3> QED
      BY <1>2, <3>2 DEF Used
  <2>5. \A c \in next.handed : \A p \in ProxyAll(t, "handed", c) : ~Idle(p.task)' /\ p.call \in Used(p.task)'
    BY <1>7, <1>8, <2>2, <2>4 DEF Idle
  <2> QED
    BY <1>3, <2>1, <2>3, <2>5 DEF Forgotten
<1>15. Solving'
  <2>1. \A u \in Tasks : u # t => jobs'[u].phase # "solving" /\ jobs'[u].todo = <<>>
    BY <1>7 DEF Solving
  <2> QED
    BY <1>2, <1>3, <1>7, <2>1 DEF Solving
<1>16. Restoring'
  BY DEF Restoring
<1> QED
  BY <1>11, <1>12, <1>13, <1>14, <1>15, <1>16

\* solve_arguments(): the task is the only one to solve, and begins with its root.
LEMMA EnterKeeps ==
    ASSUME RInv, NEW t \in Tasks, Enter(t)
    PROVE  RInv'
<1>1. /\ ~Idle(t) /\ \A u \in Tasks : jobs[u].phase # "solving"
      /\ Show(t, Proceed(<<Visit(jobs[t].root)>>, cache), cache)
      /\ UNCHANGED <<made, analysed, built, app, blocks>>
  BY DEF Enter, Idle, LockFree
<1>2. PICK todo : todo = <<Visit(jobs[t].root)>>
  OBVIOUS
<1>3. jobs[t].root \in Mine(t) /\ jobs[t].root \in Existing
  BY <1>1, JobFacts
<1>4. PICK w : w = Visit(jobs[t].root)
  OBVIOUS
<1>5. w \in Visits(Existing) /\ w.key = jobs[t].root /\ w.call = jobs[t].root
  BY <1>3, <1>4 DEF Visit, Visits
<1>6. todo = <<w>> /\ todo \in Seq(Visits(Existing)) /\ Range(todo) = {w}
  BY <1>2, <1>4, <1>5 DEF Range
<1>7. Allows(t, todo, {})
  BY <1>3, <1>5, <1>6 DEF Allows, Allowed
<1>8. Show(t, Proceed(todo, cache), cache)
  BY <1>1, <1>2
<1>9. cache' = cache /\ cache \in SUBSET Calls
  BY <1>1 DEF Show, RInv, Typed
<1>10. built' \in [Calls -> 0..MaxBuilt] /\ BuiltIsCached'
  BY <1>1, <1>9 DEF RInv, Typed, BuiltIsCached
<1>11. \A u \in Tasks : jobs[u].phase = "solving" => u = t
  BY <1>1
<1> QED
  BY <1>1, <1>6, <1>7, <1>8, <1>9, <1>10, <1>11, ShowKeeps

\* A call returns: it had no value before, and has one now.
LEMMA ReturnKeeps ==
    ASSUME RInv, NEW t \in Tasks, Return(t)
    PROVE  RInv'
<1> USE DEF RInv
<1>1. PICK list, key, values, tail :
          list = jobs[t].todo /\ key = Head(jobs[t].todo).key /\ values = cache \cup {Head(jobs[t].todo).key} /\ tail = Tail(jobs[t].todo)
  OBVIOUS
<1>2. /\ jobs[t].phase = "solving" /\ list # <<>>
      /\ built' = [built EXCEPT ![key] = IF @ < MaxBuilt THEN @ + 1 ELSE @]
      /\ Show(t, Proceed(tail, values), values) /\ UNCHANGED <<made, analysed, app, blocks>>
  BY <1>1 DEF Return, Calling, CacheKey
<1>3. list \in Seq(Visits(Existing)) /\ Allows(t, list, {}) /\ Allowed(t, {}) \subseteq Existing
  <2>1. Allowed(t, {}) = Mine(t)
    BY DEF Allowed
  <2> QED
    BY <1>1, <2>1, JobFacts
<1>4. key = Head(list).key /\ tail = Tail(list)
  BY <1>1
<1>5. key \in Existing /\ key \in Calls /\ Allows(t, tail, {}) /\ tail \in Seq(Visits(Existing))
  <2>1. key \in Allowed(t, {}) /\ Allows(t, tail, {})
    BY <1>2, <1>3, <1>4, HeadTailAllowed
  <2>2. tail \in Seq(Visits(Existing))
    BY <1>2, <1>3, <1>4, HeadTailProperties
  <2> QED
    BY <1>3, <2>1, <2>2, GivenFacts
<1>6. key \notin cache
  <2>1. Stops(jobs[t].todo, cache)
    BY <1>2 DEF Solving
  <2> QED
    BY <1>1, <1>2, <2>1 DEF Stops
<1>7. built[key] = 0
  BY <1>5, <1>6 DEF BuiltIsCached
<1>8. built'[key] = 1 /\ \A c \in Calls : c # key => built'[c] = built[c]
  BY <1>2, <1>5, <1>7 DEF Typed, MaxBuilt
<1>9. built' \in [Calls -> 0..MaxBuilt]
  <2>1. built \in [Calls -> 0..MaxBuilt]
    BY DEF Typed
  <2>2. built' = [c \in Calls |-> built'[c]]
    BY <1>2, <2>1
  <2>3. \A c \in Calls : built'[c] \in 0..MaxBuilt
    <3>1. 1 \in 0..MaxBuilt
      BY DEF MaxBuilt
    <3> QED
      BY <1>8, <2>1, <3>1
  <2> QED
    BY <2>2, <2>3
<1>10. cache' = values /\ values = cache \cup {key} /\ values \in SUBSET Calls
  BY <1>1, <1>2, <1>5 DEF Show, Typed
<1>11. BuiltIsCached'
  BY <1>8, <1>10 DEF BuiltIsCached
<1>12. ~Idle(t) /\ \A u \in Tasks : jobs[u].phase = "solving" => u = t
  BY <1>2 DEF Idle, Solving
<1> QED
  BY <1>2, <1>5, <1>9, <1>10, <1>11, <1>12, ShowKeeps

\* open_dependant(): the task gets proxies for what is made at runtime.
LEMMA OpenKeeps ==
    ASSUME RInv, NEW t \in Tasks, NEW c \in Roots, Open(t, c)
    PROVE  RInv'
<1> USE DEF RInv
<1>1. /\ Idle(t) /\ c \in Existing /\ c \in Calls
      /\ jobs' = [jobs EXCEPT ![t] = [root |-> c, phase |-> "waiting", todo |-> <<>>]]
      /\ UNCHANGED <<made, cache, built, app, blocks>>
  BY RuntimeCallsAssumption DEF Open, Existing
<1>2. Existing' = Existing /\ Graph' = Graph /\ \A d : Behind(d)' = Behind(d)
  BY <1>1, SameGraph
<1>3. /\ c \in Behind(c) /\ Behind(c) \subseteq Existing /\ \A d \in Behind(c) : Graph[d] \subseteq Behind(c)
      /\ Behind(c) \subseteq Calls
  BY <1>1, BehindFacts, GivenFacts
<1>4. PICK new : new = IF IsStatic(c) THEN {} ELSE ProxyAll(t, "root", c)
  OBVIOUS
<1>5. c \in Static => Behind(c) \subseteq Static
  BY StaticFacts
<1>6. proxies' = proxies \cup new /\ shown' = {} /\ analysed' \subseteq Static /\ analysed' \subseteq Roots
  <2>1. CASE IsStatic(c)
    <3>1. proxies' = proxies /\ shown' = shown \cup (Behind(c) \cap Runtime) /\ analysed' = analysed \cup {c}
      BY <2>1 DEF Open
    <3>2. Behind(c) \cap Runtime = {}
      BY <1>5, <2>1 DEF IsStatic, Runtime
    <3> QED
      BY <1>4, <2>1, <3>1, <3>2 DEF Forgotten, Typed, IsStatic
  <2>2. CASE ~IsStatic(c)
    BY <1>4, <2>2 DEF Open, Forgotten, Typed
  <2> QED
    BY <2>1, <2>2
<1>7. \A p \in new : /\ p \in [task : Tasks, list : {"root", "handed"}, call : Runtime]
                     /\ p.task = t /\ p.call \in Behind(c) /\ p.call \notin Static
  BY <1>3, <1>4 DEF ProxyAll, Proxy, IsStatic, Runtime
<1>8. \A d \in Behind(c) : d \notin Static => \E p \in new : p.call = d
  <2> SUFFICES ASSUME NEW d \in Behind(c), d \notin Static
               PROVE  \E p \in new : p.call = d
    OBVIOUS
  <2>1. ~IsStatic(c)
    BY <1>5 DEF IsStatic
  <2>2. Proxy(t, "root", d) \in ProxyAll(t, "root", c)
    BY DEF ProxyAll, IsStatic
  <2>3. Proxy(t, "root", d).call = d
    BY DEF Proxy
  <2> QED
    BY <1>4, <2>1, <2>2, <2>3
<1>9. \A u \in Tasks : Mine(u)' = IF u = t THEN Static \cup Behind(c) ELSE Mine(u)
  <2>1. ASSUME NEW u \in Tasks, u # t
        PROVE  Mine(u)' = Mine(u)
    BY <1>6, <1>7, <2>1 DEF Mine
  <2>2. \A p \in proxies : p.task # t
    BY <1>1 DEF Forgotten
  <2>3. Mine(t)' = Static \cup Behind(c)
    <3>1. Mine(t)' \subseteq Static \cup Behind(c)
      BY <1>6, <1>7, <2>2 DEF Mine
    <3>2. \A d \in Behind(c) : d \in Static \/ \E p \in proxies' : p.task = t /\ p.call = d
      BY <1>6, <1>7, <1>8
    <3> QED
      BY <3>1, <3>2 DEF Mine
  <2> QED
    BY <2>1, <2>3
<1>10. /\ jobs'[t].root = c /\ jobs'[t].phase = "waiting" /\ jobs'[t].todo = <<>>
       /\ \A u \in Tasks : u # t => jobs'[u] = jobs[u]
       /\ jobs' \in [Tasks -> Job]
  <2>1. PICK job : job = [root |-> c, phase |-> "waiting", todo |-> <<>>]
    OBVIOUS
  <2>2. job \in Job
    <3>1. <<>> \in Seq(VisitType)
      BY EmptySeq
    <3> QED
      BY <1>1, <2>1, <3>1 DEF Job
  <2>3. jobs' = [jobs EXCEPT ![t] = job] /\ jobs \in [Tasks -> Job]
    BY <1>1, <2>1 DEF Typed
  <2>4. jobs' \in [Tasks -> Job] /\ jobs'[t] = job /\ \A u \in Tasks : u # t => jobs'[u] = jobs[u]
    BY <2>2, <2>3
  <2> QED
    BY <2>1, <2>4
<1>11. Typed'
  <2>1. proxies' \subseteq [task : Tasks, list : {"root", "handed"}, call : Runtime]
    BY <1>6, <1>7 DEF Typed
  <2> QED
    BY <1>1, <1>6, <1>10, <2>1 DEF Typed
<1>12. Grounded'
  BY <1>2 DEF Grounded
<1>13. Served'
  <2> SUFFICES ASSUME NEW u \in Tasks
               PROVE  /\ Mine(u)' \subseteq Existing' /\ \A d \in Mine(u)' : Graph'[d] \subseteq Mine(u)'
                      /\ ~Idle(u)' => jobs'[u].root \in Mine(u)'
                      /\ \A w \in Range(jobs'[u].todo) : w.key \in Mine(u)' /\ w.call \in Mine(u)'
    BY DEF Served
  <2>1. CASE u = t
    <3>1. Static \subseteq Existing /\ \A d \in Static : Graph[d] \subseteq Static
      BY StaticFacts, GivenFacts
    <3>2. Range(<<>>) = {}
      BY DEF Range
    <3> QED
      BY <1>2, <1>3, <1>9, <1>10, <2>1, <3>1, <3>2
  <2>2. CASE u # t
    BY <1>2, <1>9, <1>10, <2>2 DEF Served, Idle
  <2> QED
    BY <2>1, <2>2
<1>14. Forgotten'
  <2>1. \A u \in Tasks : u # t => Used(u)' = Used(u)
    BY <1>2, <1>10 DEF Used
  <2>2. \A p \in proxies : p.task \in Tasks /\ p.task # t /\ ~Idle(p.task) /\ p.call \in Used(p.task)
    BY <1>1 DEF Forgotten, Typed
  <2>3. \A p \in proxies : ~Idle(p.task)' /\ p.call \in Used(p.task)'
    BY <1>10, <2>1, <2>2 DEF Idle
  <2>4. Behind(c) \subseteq Used(t)'
    BY <1>2, <1>10 DEF Used
  <2>5. ~Idle(t)'
    BY <1>10 DEF Idle
  <2> QED
    BY <1>6, <1>7, <2>3, <2>4, <2>5 DEF Forgotten
<1>15. Solving'
  BY <1>1, <1>10 DEF Solving
<1>16. BuiltIsCached' /\ Restoring'
  BY <1>1 DEF BuiltIsCached, Restoring
<1> QED
  BY <1>11, <1>12, <1>13, <1>14, <1>15, <1>16

\* The resolve is over, and its proxies are released.
LEMMA CloseKeeps ==
    ASSUME RInv, NEW t \in Tasks, Close(t)
    PROVE  RInv'
<1> USE DEF RInv
<1>1. /\ jobs' = [jobs EXCEPT ![t] = NoJob] /\ proxies' = {p \in proxies : p.task # t}
      /\ UNCHANGED <<made, analysed, shown, cache, built, app, blocks>>
  BY DEF Close, Release
<1>2. Existing' = Existing /\ Graph' = Graph /\ \A d : Behind(d)' = Behind(d)
  BY <1>1, SameGraph
<1>3. /\ jobs'[t].phase = "idle" /\ jobs'[t].todo = <<>>
      /\ \A u \in Tasks : u # t => jobs'[u] = jobs[u]
      /\ jobs' \in [Tasks -> Job]
  <2>1. NoJob \in Job /\ NoJob.phase = "idle" /\ NoJob.todo = <<>>
    <3>1. <<>> \in Seq(VisitType)
      BY EmptySeq
    <3> QED
      BY <3>1 DEF NoJob, Job
  <2> QED
    BY <1>1, <2>1 DEF Typed
<1>4. \A u \in Tasks : Mine(u)' = IF u = t THEN Static ELSE Mine(u)
  BY <1>1 DEF Mine
<1>5. Typed'
  BY <1>1, <1>3 DEF Typed
<1>6. Grounded'
  BY <1>2 DEF Grounded
<1>7. Served'
  <2> SUFFICES ASSUME NEW u \in Tasks
               PROVE  /\ Mine(u)' \subseteq Existing' /\ \A d \in Mine(u)' : Graph'[d] \subseteq Mine(u)'
                      /\ ~Idle(u)' => jobs'[u].root \in Mine(u)'
                      /\ \A w \in Range(jobs'[u].todo) : w.key \in Mine(u)' /\ w.call \in Mine(u)'
    BY DEF Served
  <2>1. CASE u = t
    <3>1. Static \subseteq Existing /\ \A d \in Static : Graph[d] \subseteq Static
      BY StaticFacts, GivenFacts
    <3>2. Range(<<>>) = {}
      BY DEF Range
    <3> QED
      BY <1>2, <1>3, <1>4, <2>1, <3>1, <3>2 DEF Idle
  <2>2. CASE u # t
    BY <1>2, <1>3, <1>4, <2>2 DEF Served, Idle
  <2> QED
    BY <2>1, <2>2
<1>8. Forgotten'
  <2>1. \A u \in Tasks : u # t => Used(u)' = Used(u)
    BY <1>2, <1>3 DEF Used
  <2>2. \A p \in proxies : p.task \in Tasks /\ ~Idle(p.task) /\ p.call \in Used(p.task)
    BY DEF Forgotten, Typed
  <2> QED
    BY <1>1, <1>3, <2>1, <2>2 DEF Forgotten, Idle
<1>9. Solving'
  BY <1>1, <1>3 DEF Solving
<1>10. BuiltIsCached' /\ Restoring'
  BY <1>1 DEF BuiltIsCached, Restoring
<1> QED
  BY <1>5, <1>6, <1>7, <1>8, <1>9, <1>10

-----------------------------------------------------------------------------
\* Contexts, the remembered analyses and the overrides of the app

\* No task resolves when a context ends.
LEMMA NewContextKeeps ==
    ASSUME RInv, NewContext
    PROVE  RInv'
<1> USE DEF RInv
<1>1. /\ \A t \in Tasks : Idle(t)
      /\ cache' = {} /\ built' = [c \in Calls |-> 0]
      /\ UNCHANGED <<made, analysed, shown, proxies, jobs, app, blocks>>
  BY DEF NewContext
<1>2. Existing' = Existing /\ Graph' = Graph /\ \A d : Behind(d)' = Behind(d)
  BY <1>1, SameGraph
<1>3. Typed'
  <2>1. 0 \in 0..MaxBuilt
    BY DEF MaxBuilt
  <2>2. built' \in [Calls -> 0..MaxBuilt]
    BY <1>1, <2>1
  <2> QED
    BY <1>1, <2>2 DEF Typed
<1>4. Grounded' /\ Served'
  BY <1>1, <1>2 DEF Grounded, Served, Mine, Idle
<1>5. Forgotten'
  <2>1. \A t : Used(t)' = Used(t)
    BY <1>1, <1>2 DEF Used
  <2> QED
    BY <1>1, <2>1 DEF Forgotten, Idle
<1>6. Solving'
  BY <1>1 DEF Solving, Idle
<1>7. BuiltIsCached' /\ Restoring'
  BY <1>1 DEF BuiltIsCached, Restoring
<1> QED
  BY <1>3, <1>4, <1>5, <1>6, <1>7

\* clear_dependant_cache() forgets analyses only.
LEMMA ClearKeeps ==
    ASSUME RInv, ClearDependantCache
    PROVE  RInv'
<1> USE DEF RInv
<1>1. analysed' = {} /\ UNCHANGED <<made, shown, proxies, jobs, cache, built, app, blocks>>
  BY DEF ClearDependantCache
<1>2. Existing' = Existing /\ Graph' = Graph /\ \A d : Behind(d)' = Behind(d)
  BY <1>1, SameGraph
<1>3. Typed'
  BY <1>1 DEF Typed
<1>4. Grounded' /\ Served'
  BY <1>1, <1>2 DEF Grounded, Served, Mine, Idle
<1>5. Forgotten'
  <2>1. \A t : Used(t)' = Used(t)
    BY <1>1, <1>2 DEF Used
  <2> QED
    BY <1>1, <2>1 DEF Forgotten, Idle
<1>6. Solving' /\ BuiltIsCached' /\ Restoring'
  BY <1>1 DEF Solving, BuiltIsCached, Restoring
<1> QED
  BY <1>3, <1>4, <1>5, <1>6

\* The overrides change, and are of the same kind as before.
LEMMA OverridesKeep ==
    ASSUME RInv, UNCHANGED <<made, calls>>, app' \in Mixtures, blocks' \in Seq(Mixtures),
           Len(blocks') <= MaxBlocks, Restoring'
    PROVE  RInv'
<1> USE DEF RInv, calls
<1>1. UNCHANGED <<made, analysed, shown, proxies, jobs, cache, built>>
  OBVIOUS
<1>2. Existing' = Existing /\ Graph' = Graph /\ \A d : Behind(d)' = Behind(d)
  BY <1>1, SameGraph
<1>3. Typed'
  BY <1>1 DEF Typed
<1>4. Grounded' /\ Served'
  BY <1>1, <1>2 DEF Grounded, Served, Mine, Idle
<1>5. Forgotten'
  <2>1. \A t : Used(t)' = Used(t)
    BY <1>1, <1>2 DEF Used
  <2> QED
    BY <1>1, <2>1 DEF Forgotten, Idle
<1>6. Solving' /\ BuiltIsCached'
  BY <1>1 DEF Solving, BuiltIsCached
<1> QED
  BY <1>3, <1>4, <1>5, <1>6

\* Entries come from those there are.
LEMMA UpdatedFacts ==
    ASSUME Typed, NEW overrides \in Entries
    PROVE  Updated(overrides) \in Mixtures
<1>1. PICK a : a = Updated(overrides)
  OBVIOUS
<1>2. /\ app \in Replacements /\ overrides \in Replacements
      /\ \A k \in DOMAIN app : \E e \in Entries \cup {AppOverrides} : k \in DOMAIN e /\ app[k] = e[k]
  BY RuntimeCallsAssumption DEF Typed, Mixtures
<1>3. PICK S \in SUBSET Given, T \in SUBSET Given : app \in [S -> Given] /\ overrides \in [T -> Given]
  BY <1>2 DEF Replacements
<1>4. a = [c \in S \cup T |-> IF c \in T THEN overrides[c] ELSE app[c]]
  BY <1>1, <1>3 DEF Updated
<1>5. a \in [S \cup T -> Given] /\ S \cup T \in SUBSET Given
  BY <1>3, <1>4
<1>6. a \in Replacements
  BY <1>5 DEF Replacements
<1>7. \A k \in DOMAIN a : \E e \in Entries \cup {AppOverrides} : k \in DOMAIN e /\ a[k] = e[k]
  <2> SUFFICES ASSUME NEW k \in S \cup T
               PROVE  \E e \in Entries \cup {AppOverrides} : k \in DOMAIN e /\ a[k] = e[k]
    BY <1>5
  <2>1. CASE k \in T
    BY <1>3, <1>4, <2>1
  <2>2. CASE k \notin T
    <3>1. k \in DOMAIN app /\ a[k] = app[k]
      BY <1>3, <1>4, <2>2
    <3> QED
      BY <1>2, <3>1
  <2> QED
    BY <2>1, <2>2
<1> QED
  BY <1>1, <1>6, <1>7 DEF Mixtures

\* override_app() is entered: it will restore what there is.
LEMMA EnterBlockKeeps ==
    ASSUME RInv, NEW overrides \in Entries, EnterBlock(overrides)
    PROVE  RInv'
<1> USE DEF RInv
<1>1. Len(blocks) < MaxBlocks /\ blocks' = Append(blocks, app) /\ app' = Updated(overrides) /\ UNCHANGED <<made, calls>>
  BY DEF EnterBlock
<1>2. app' \in Mixtures
  BY <1>1, UpdatedFacts
<1>3. blocks \in Seq(Mixtures) /\ app \in Mixtures /\ MaxBlocks \in Nat
  BY RuntimeCallsAssumption DEF Typed
<1>4. blocks' \in Seq(Mixtures) /\ Len(blocks') <= MaxBlocks /\ blocks' # <<>>
  BY <1>1, <1>3
<1>5. blocks'[1] = AppOverrides
  <2>1. CASE blocks = <<>>
    <3>1. app = AppOverrides
      BY <2>1 DEF Restoring
    <3> QED
      BY <1>1, <1>3, <2>1, <3>1
  <2>2. CASE blocks # <<>>
    <3>1. 1 \in 1..Len(blocks)
      BY <1>3, <2>2, EmptySeq
    <3>2. blocks'[1] = blocks[1]
      BY <1>1, <1>3, <3>1
    <3> QED
      BY <2>2, <3>2 DEF Restoring
  <2> QED
    BY <2>1, <2>2
<1>6. Restoring'
  BY <1>4, <1>5 DEF Restoring
<1> QED
  BY <1>1, <1>2, <1>4, <1>6, OverridesKeep

\* Code in a block writes an entry: what the block restores stays.
LEMMA AddEntryKeeps ==
    ASSUME RInv, NEW overrides \in Entries, AddEntry(overrides)
    PROVE  RInv'
<1> USE DEF RInv
<1>1. blocks # <<>> /\ blocks' = blocks /\ app' = Updated(overrides) /\ UNCHANGED <<made, calls>>
  BY DEF AddEntry
<1>2. app' \in Mixtures
  BY <1>1, UpdatedFacts
<1>3. blocks' \in Seq(Mixtures) /\ Len(blocks') <= MaxBlocks
  BY <1>1 DEF Typed
<1>4. Restoring'
  BY <1>1 DEF Restoring
<1> QED
  BY <1>1, <1>2, <1>3, <1>4, OverridesKeep

\* A block is left: the outermost one restores what the app started with.
LEMMA LeaveBlockKeeps ==
    ASSUME RInv, LeaveBlock
    PROVE  RInv'
<1> USE DEF RInv
<1>1. blocks # <<>> /\ app' = Last(blocks) /\ blocks' = Front(blocks) /\ UNCHANGED <<made, calls>>
  BY DEF LeaveBlock
<1>2. blocks \in Seq(Mixtures) /\ Len(blocks) <= MaxBlocks /\ MaxBlocks \in Nat
  BY RuntimeCallsAssumption DEF Typed
<1>3. Len(blocks) \in Nat \ {0}
  BY <1>1, <1>2, EmptySeq
<1>4. PICK n \in Nat : n = Len(blocks) - 1
  BY <1>3
<1>5. app' = blocks[Len(blocks)] /\ app' \in Mixtures
  BY <1>1, <1>2, <1>3 DEF Last
<1>6. /\ blocks' \in Seq(Mixtures) /\ Len(blocks') = n /\ \A i \in 1..n : blocks'[i] = blocks[i]
  <2>1. blocks' = SubSeq(blocks, 1, n)
    BY <1>1, <1>4 DEF Front
  <2>2. n <= Len(blocks)
    BY <1>2, <1>3, <1>4
  <2>3. CASE n = 0
    <3>1. blocks' = <<>>
      BY <1>2, <2>1, <2>3, SubSeqProperties
    <3> QED
      BY <2>3, <3>1, EmptySeq
  <2>4. CASE n # 0
    <3>1. 1 \in 1..(n + 1) /\ 1 <= n /\ n - 1 + 1 = n
      BY <2>4
    <3>2. /\ blocks' \in Seq(Mixtures) /\ Len(blocks') = n - 1 + 1
          /\ \A i \in 1..(n - 1 + 1) : blocks'[i] = blocks[1 + i - 1]
      BY <1>2, <2>1, <2>2, <3>1, SubSeqProperties
    <3>3. \A i \in 1..n : 1 + i - 1 = i
      OBVIOUS
    <3> QED
      BY <3>1, <3>2, <3>3
  <2> QED
    BY <2>3, <2>4
<1>7. blocks[1] = AppOverrides
  BY <1>1 DEF Restoring
<1>8. Restoring'
  <2>1. CASE n = 0
    <3>1. blocks' = <<>>
      BY <1>6, <2>1, EmptySeq
    <3>2. Len(blocks) = 1
      BY <1>3, <1>4, <2>1
    <3> QED
      BY <1>5, <1>7, <3>1, <3>2 DEF Restoring
  <2>2. CASE n # 0
    <3>1. 1 \in 1..n /\ blocks' # <<>>
      BY <1>6, <2>2, EmptySeq
    <3> QED
      BY <1>6, <1>7, <3>1 DEF Restoring
  <2> QED
    BY <2>1, <2>2
<1>9. Len(blocks') <= MaxBlocks
  BY <1>2, <1>3, <1>4, <1>6
<1> QED
  BY <1>1, <1>5, <1>6, <1>8, <1>9, OverridesKeep

-----------------------------------------------------------------------------
\* The invariant

\* What makes the theorems below hold: every step of every task and block keeps it.
THEOREM RuntimeInvariant == Spec => []RInv
<1>1. Init => RInv
  BY InitInv
<1>2. RInv /\ [Next]_vars => RInv'
  <2> SUFFICES ASSUME RInv, [Next]_vars
               PROVE  RInv'
    OBVIOUS
  <2>1. ASSUME NEW r \in Recipes, Bind(r.object, r.func, r.deps)
        PROVE  RInv'
    BY <2>1, BindKeeps
  <2>2. ASSUME NEW r \in Extensions, Extend(r.object, r.func, r.dep)
        PROVE  RInv'
    BY <2>2, ExtendKeeps
  <2>3. ASSUME NEW t \in Tasks, NEW c \in Roots, Open(t, c)
        PROVE  RInv'
    BY <2>3, OpenKeeps
  <2>4. ASSUME NEW t \in Tasks, Enter(t)
        PROVE  RInv'
    BY <2>4, EnterKeeps
  <2>5. ASSUME NEW t \in Tasks, Return(t)
        PROVE  RInv'
    BY <2>5, ReturnKeeps
  <2>6. ASSUME NEW t \in Tasks, Close(t)
        PROVE  RInv'
    BY <2>6, CloseKeeps
  <2>7. CASE NewContext
    BY <2>7, NewContextKeeps
  <2>8. CASE ClearDependantCache
    BY <2>8, ClearKeeps
  <2>9. ASSUME NEW e \in Entries, EnterBlock(e)
        PROVE  RInv'
    BY <2>9, EnterBlockKeeps
  <2>10. ASSUME NEW e \in Entries, AddEntry(e)
         PROVE  RInv'
    BY <2>10, AddEntryKeeps
  <2>11. CASE LeaveBlock
    BY <2>11, LeaveBlockKeeps
  <2>12. CASE UNCHANGED vars
    <3>1. UNCHANGED <<made, analysed, shown, proxies, jobs, cache, built, app, blocks>>
      BY <2>12 DEF vars, calls
    <3>2. UNCHANGED <<made, calls>> /\ app' \in Mixtures /\ blocks' \in Seq(Mixtures)
          /\ Len(blocks') <= MaxBlocks /\ Restoring'
      BY <3>1 DEF RInv, Typed, Restoring, calls
    <3> QED
      BY <3>2, OverridesKeep
  <2> QED
    BY <2>1, <2>2, <2>3, <2>4, <2>5, <2>6, <2>7, <2>8, <2>9, <2>10, <2>11, <2>12 DEF Next
<1> QED
  BY <1>1, <1>2, PTL DEF Spec

-----------------------------------------------------------------------------
\* The properties

\* Every variable has its type, and no two tasks solve at the same time.
THEOREM RuntimeTypes == Spec => []TypeOK
<1>1. RInv => TypeOK
  <2> SUFFICES ASSUME RInv
               PROVE  TypeOK
    OBVIOUS
  <2>1. ASSUME NEW o \in DOMAIN made
        PROVE  /\ made[o].func \in Calls \ Objects /\ Valid(made[o].sign)
               /\ Range(made[o].bound) \subseteq Calls /\ made[o].again \in BOOLEAN
    <3>1. made[o] \in MadeObject
      BY DEF RInv, Typed
    <3>2. /\ made[o].bound \in Seq(Calls) /\ made[o].func \in Given /\ made[o].sign \in Signatures
          /\ made[o].again \in BOOLEAN
      BY <3>1 DEF MadeObject
    <3>3. Range(made[o].bound) \subseteq Calls
      BY <3>2 DEF Range
    <3> QED
      BY <3>2, <3>3 DEF Given, Signatures
  <2>2. \A t \in Tasks : jobs[t].phase \in {"idle", "waiting", "solving"}
    BY DEF RInv, Typed, Job
  <2> QED
    BY <2>1, <2>2 DEF RInv, Typed, Forgotten, Solving, TypeOK
<1> QED
  BY <1>1, RuntimeInvariant, PTL

\* What is made at runtime is held by process-wide memory only while a resolve uses it.
THEOREM NothingIsKept == Spec => []NothingKept
<1>1. RInv => NothingKept
  <2> SUFFICES ASSUME RInv
               PROVE  NothingKept
    OBVIOUS
  <2>1. shown = {} /\ analysed \subseteq Static /\ \A p \in proxies : p.task \in Tasks /\ ~Idle(p.task) /\ p.call \in Used(p.task)
    BY DEF RInv, Forgotten, Typed
  <2>2. Runtime \cap UNION {Behind(c) : c \in analysed} = {}
    BY <2>1, StaticFacts DEF RInv, Runtime
  <2> QED
    BY <2>1, <2>2 DEF NothingKept, Used
<1> QED
  BY <1>1, RuntimeInvariant, PTL

\* A resolve has a proxy for whatever it still has to call.
THEOREM ProxiesAlwaysServe == Spec => []ProxiesServe
<1>1. RInv => ProxiesServe
  <2> SUFFICES ASSUME RInv, NEW t \in Tasks,
                      NEW w \in Range(jobs[t].todo) \cup
                          (IF jobs[t].phase = "waiting" THEN {Visit(jobs[t].root)} ELSE {}),
                      w.call \in Runtime
               PROVE  \E p \in proxies : p.task = t /\ p.call = w.call
    BY DEF ProxiesServe
  <2>1. w.call \in Mine(t)
    <3>1. CASE w \in Range(jobs[t].todo)
      BY <3>1 DEF RInv, Served
    <3>2. CASE w \notin Range(jobs[t].todo)
      <4>1. w = Visit(jobs[t].root) /\ jobs[t].phase = "waiting"
        BY <3>2
      <4>2. w.call = jobs[t].root
        BY <4>1 DEF Visit
      <4> QED
        BY <4>1, <4>2 DEF RInv, Served, Idle
    <3> QED
      BY <3>1, <3>2
  <2> QED
    BY <2>1 DEF Mine, Runtime
<1> QED
  BY <1>1, RuntimeInvariant, PTL

\* A context builds no dependency twice.
THEOREM OneEntryEach == Spec => []OneEntry
<1>1. RInv => OneEntry
  BY DEF RInv, BuiltIsCached, OneEntry
<1> QED
  BY <1>1, RuntimeInvariant, PTL

\* Outside of all blocks the app has the overrides it started with.
THEOREM BlocksAlwaysRestore == Spec => []BlocksRestore
<1>1. RInv => BlocksRestore
  BY DEF RInv, Restoring, BlocksRestore
<1> QED
  BY <1>1, RuntimeInvariant, PTL
-----------------------------------------------------------------------------
\* What an object wears

\* The parameter that stands for the first parameters which were bound.
BoundParam(i, c) == [name |-> DepArg[i], kind |-> Kinds[2], dep |-> c]

\* A parameter that was added to a function that takes any keywords.
IsAdded(p, func) ==
    /\ p.name = "extra" /\ p.kind = Kinds[4] /\ p.dep # NoDep
    /\ OfKind(func, {Kinds[5]}) # <<>>

\* A signature over that of the function, of whose positional parameters the first are
\* bound: these are replaced one by one, and the others stay.
Wears(func, sign, bound) ==
    LET m == Len(bound)
        slots == Len(Slots(func))
    IN  m <= slots =>
          /\ m <= Len(DepArg) /\ slots <= Len(sign)
          /\ \A i \in 1..slots : sign[i] = IF i <= m THEN BoundParam(i, bound[i]) ELSE func[i]
          /\ \A p \in Range(sign) : \/ \E i \in 1..m : p = BoundParam(i, bound[i])
                                    \/ \E i \in (m + 1)..Len(func) : p = func[i]
                                    \/ IsAdded(p, func)
          /\ \A i \in (m + 1)..Len(func) : func[i] \in Range(sign)

\* Every object that is made wears its function: the invariant that ArgumentsArrive needs.
Worn == \A o \in DOMAIN made : ~made[o].again => Wears(Signs[made[o].func], made[o].sign, made[o].bound)

-----------------------------------------------------------------------------
\* Positions in a signature

\* Those that are wanted stand next to each other, behind the first k.
Together(params, sign, k) ==
    /\ sign \in Seq(Parameter) /\ k \in 0..Len(sign)
    /\ \A i \in 1..k : sign[i] \notin params
    /\ \A i, j \in (k + 1)..Len(sign) : i < j /\ sign[j] \in params => sign[i] \in params

\* They are what follows the first k.
Follow(part, params, sign, k) ==
    /\ part \in Seq(Parameter) /\ k + Len(part) <= Len(sign)
    /\ \A i \in 1..Len(part) : part[i] = sign[k + i] /\ sign[k + i] \in params
    /\ \A i \in (k + Len(part) + 1)..Len(sign) : sign[i] \notin params

\* If those that are wanted stand next to each other, they come as they stand.
LEMMA AmongPart ==
    ASSUME NEW params, NEW sign, NEW k, Together(params, sign, k)
    PROVE  Follow(Among(params, sign), params, sign, k)
<1> SUFFICES ASSUME sign \in Seq(Parameter), k \in 0..Len(sign), \A i \in 1..k : sign[i] \notin params,
                    \A i, j \in (k + 1)..Len(sign) : i < j /\ sign[j] \in params => sign[i] \in params,
                    NEW part, part = Among(params, sign)
             PROVE  Follow(part, params, sign, k)
  BY DEF Together
<1> DEFINE S == Parameter
<1> HIDE DEF S
<1>1. sign \in Seq(S)
  BY DEF S
<1>2. Selects(part, params, sign, Len(sign), S)
  BY <1>1, AmongSelects
<1>3. PICK at \in [1..Len(part) -> 1..Len(sign)] :
          /\ \A i, j \in 1..Len(part) : i < j => at[i] < at[j]
          /\ \A i \in 1..Len(part) : part[i] = sign[at[i]] /\ part[i] \in params
          /\ \A j \in 1..Len(sign) : sign[j] \in params => \E i \in 1..Len(part) : at[i] = j
  BY <1>2 DEF Selects
<1>4. part \in Seq(S) /\ Len(part) \in Nat /\ Len(sign) \in Nat /\ k \in Nat
  BY <1>2 DEF Selects
<1>5. \A i \in 1..Len(part) : at[i] \in (k + 1)..Len(sign) /\ sign[at[i]] \in params
  <2> SUFFICES ASSUME NEW i \in 1..Len(part)
               PROVE  at[i] \in (k + 1)..Len(sign) /\ sign[at[i]] \in params
    OBVIOUS
  <2>1. at[i] \in 1..Len(sign) /\ sign[at[i]] \in params
    BY <1>3
  <2>2. ~(at[i] \in 1..k)
    BY <2>1
  <2> QED
    BY <1>4, <2>1, <2>2
<1> DEFINE U == {n \in Nat : \A i \in 1..Len(part) : i <= n => at[i] = k + i}
<1>6. 0 \in U
  OBVIOUS
<1>7. ASSUME NEW n \in Nat, n \in U
      PROVE  n + 1 \in U
  <2> SUFFICES ASSUME n + 1 \in 1..Len(part)
               PROVE  at[n + 1] = k + (n + 1)
    <3>1. n + 1 \in 1..Len(part) => at[n + 1] = k + (n + 1)
      OBVIOUS
    <3>2. \A i \in 1..Len(part) : i <= n => at[i] = k + i
      BY <1>7
    <3>3. \A i \in 1..Len(part) : i <= n + 1 => i <= n \/ i = n + 1
      OBVIOUS
    <3> QED
      BY <3>1, <3>2, <3>3
  <2>1. \A i \in 1..Len(part) : i <= n => at[i] = k + i
    BY <1>7
  <2>2. at[n + 1] >= k + n + 1
    <3>1. at[n + 1] \in (k + 1)..Len(sign)
      BY <1>5
    <3>2. CASE n = 0
      BY <1>4, <3>1, <3>2
    <3>3. CASE n # 0
      <4>1. n \in 1..Len(part) /\ n < n + 1
        BY <1>4, <3>3
      <4>2. at[n] < at[n + 1] /\ at[n] = k + n
        BY <1>3, <2>1, <4>1
      <4> QED
        BY <1>4, <3>1, <4>2
    <3> QED
      BY <3>2, <3>3
  <2>3. k + n + 1 \in (k + 1)..Len(sign) /\ at[n + 1] \in (k + 1)..Len(sign)
    BY <1>4, <1>5, <2>2
  <2>4. sign[k + n + 1] \in params
    <3>1. sign[at[n + 1]] \in params
      BY <1>5
    <3>2. PICK i \in (k + 1)..Len(sign), j \in (k + 1)..Len(sign) : i = k + n + 1 /\ j = at[n + 1]
      BY <2>3
    <3>3. i = j \/ i < j
      BY <1>4, <2>2, <3>2
    <3>4. sign[j] \in params => sign[i] \in params
      BY <3>3
    <3> QED
      BY <3>1, <3>2, <3>4
  <2>5. PICK j \in 1..Len(part) : at[j] = k + n + 1
    <3>1. k + n + 1 \in 1..Len(sign)
      BY <1>4, <2>3
    <3> QED
      BY <1>3, <2>4, <3>1
  <2>6. ~(j <= n)
    BY <1>4, <2>1, <2>5
  <2>7. ~(n + 1 < j)
    <3>1. n + 1 < j => at[n + 1] < at[j]
      BY <1>3
    <3> QED
      BY <1>4, <2>2, <2>3, <2>5, <3>1
  <2>8. j = n + 1
    BY <2>6, <2>7
  <2> QED
    BY <1>4, <2>5, <2>8
<1>8. \A i \in 1..Len(part) : at[i] = k + i
  <2> HIDE DEF U
  <2>1. Nat \subseteq U
    BY <1>6, <1>7, Induction
  <2> SUFFICES ASSUME NEW i \in 1..Len(part)
               PROVE  at[i] = k + i
    OBVIOUS
  <2>2. i \in U /\ i <= i
    BY <1>4, <2>1
  <2> QED
    BY <2>2 DEF U
<1>9. k + Len(part) <= Len(sign)
  <2>1. CASE Len(part) = 0
    BY <1>4, <2>1
  <2>2. CASE Len(part) # 0
    <3>1. Len(part) \in 1..Len(part)
      BY <1>4, <2>2
    <3> QED
      BY <1>4, <1>5, <1>8, <3>1
  <2> QED
    BY <2>1, <2>2
<1>10. \A i \in (k + Len(part) + 1)..Len(sign) : sign[i] \notin params
  BY <1>3, <1>4, <1>8
<1> QED
  BY <1>3, <1>4, <1>5, <1>8, <1>9, <1>10 DEF Follow, S

\* If the first ones are wanted, they come first.
StartsWith(part, sign, k) == k <= Len(part) /\ \A i \in 1..k : part[i] = sign[i]

LEMMA AmongStart ==
    ASSUME NEW sign \in Seq(Parameter), NEW params, NEW k \in 0..Len(sign), \A i \in 1..k : sign[i] \in params
    PROVE  StartsWith(Among(params, sign), sign, k)
<1> DEFINE S == Parameter
<1> HIDE DEF S
<1>1. PICK part : part = Among(params, sign)
  OBVIOUS
<1>2. sign \in Seq(S)
  BY DEF S
<1>3. Selects(part, params, sign, Len(sign), S)
  BY <1>1, <1>2, AmongSelects
<1>4. PICK at \in [1..Len(part) -> 1..Len(sign)] :
          /\ \A i, j \in 1..Len(part) : i < j => at[i] < at[j]
          /\ \A i \in 1..Len(part) : part[i] = sign[at[i]] /\ part[i] \in params
          /\ \A j \in 1..Len(sign) : sign[j] \in params => \E i \in 1..Len(part) : at[i] = j
  BY <1>3 DEF Selects
<1>5. part \in Seq(S) /\ Len(part) \in Nat /\ Len(sign) \in Nat /\ k \in Nat /\ k <= Len(sign)
  BY <1>3 DEF Selects
<1> DEFINE U == {n \in Nat : \A i \in 1..k : i <= n => i <= Len(part) /\ at[i] = i}
<1>6. 0 \in U
  OBVIOUS
<1>7. ASSUME NEW n \in Nat, n \in U
      PROVE  n + 1 \in U
  <2>1. \A i \in 1..k : i <= n => i <= Len(part) /\ at[i] = i
    BY <1>7
  <2> SUFFICES ASSUME n + 1 \in 1..k
               PROVE  n + 1 <= Len(part) /\ at[n + 1] = n + 1
    <3>1. n + 1 \in 1..k => n + 1 <= Len(part) /\ at[n + 1] = n + 1
      OBVIOUS
    <3>2. \A i \in 1..k : i <= n + 1 => i <= n \/ i = n + 1
      OBVIOUS
    <3> QED
      BY <2>1, <3>1, <3>2
  <2>2. n + 1 \in 1..Len(sign) /\ sign[n + 1] \in params
    BY <1>5
  <2>3. PICK j \in 1..Len(part) : at[j] = n + 1
    BY <1>4, <2>2
  <2>4. ~(j <= n)
    <3>1. j <= n => j \in 1..k
      BY <1>5
    <3> QED
      BY <1>5, <2>1, <2>3, <3>1
  <2>5. n + 1 \in 1..Len(part) /\ at[n + 1] \in 1..Len(sign)
    <3>1. n + 1 \in 1..Len(part)
      BY <1>5, <2>4
    <3> QED
      BY <1>4, <3>1
  <2>6. at[n + 1] <= n + 1
    <3>1. n + 1 < j => at[n + 1] < at[j]
      BY <1>4, <2>5
    <3> QED
      BY <1>5, <2>3, <2>4, <2>5, <3>1
  <2>7. at[n + 1] >= n + 1
    <3>1. CASE n = 0
      BY <1>5, <2>5, <3>1
    <3>2. CASE n # 0
      <4>1. n \in 1..k /\ n \in 1..Len(part) /\ n < n + 1
        BY <1>5, <2>5, <3>2
      <4>2. at[n] < at[n + 1] /\ at[n] = n
        BY <1>4, <2>1, <2>5, <4>1
      <4> QED
        BY <1>5, <2>5, <4>2
    <3> QED
      BY <3>1, <3>2
  <2> QED
    BY <1>5, <2>5, <2>6, <2>7
<1>8. \A i \in 1..k : i \in 1..Len(part) /\ at[i] = i
  <2> HIDE DEF U
  <2>1. Nat \subseteq U
    BY <1>6, <1>7, Induction
  <2> QED
    BY <1>5, <2>1 DEF U
<1>9. k <= Len(part)
  <2>1. CASE k = 0
    BY <1>5, <2>1
  <2>2. CASE k # 0
    <3>1. k \in 1..k
      BY <1>5, <2>2
    <3> QED
      BY <1>5, <1>8, <3>1
  <2> QED
    BY <2>1, <2>2
<1> QED
  BY <1>1, <1>4, <1>8, <1>9 DEF StartsWith

\* No two parameters of a valid signature have the same name.
LEMMA NamesApart ==
    ASSUME NEW sign \in Seq(Parameter), Valid(sign)
    PROVE  /\ \A i, j \in 1..Len(sign) : sign[i].name = sign[j].name => i = j
           /\ \A p, q \in Range(sign) : p.name = q.name => p = q
<1>1. DOMAIN sign = 1..Len(sign) /\ Range(sign) = {sign[i] : i \in 1..Len(sign)}
  BY DEF Range
<1>2. \A i, j \in 1..Len(sign) : sign[i].name = sign[j].name => i = j
  <2> SUFFICES ASSUME NEW i \in 1..Len(sign), NEW j \in 1..Len(sign), i # j
               PROVE  sign[i].name # sign[j].name
    OBVIOUS
  <2>1. i < j \/ j < i
    OBVIOUS
  <2> QED
    BY <1>1, <2>1 DEF Valid
<1> QED
  BY <1>1, <1>2

\* Those that can be passed by position come first, and **kwargs comes last.
LEMMA KindsInOrder ==
    ASSUME NEW sign \in Seq(Parameter), Valid(sign), NEW i \in 1..Len(sign), NEW j \in 1..Len(sign), i < j
    PROVE  /\ sign[j].kind \in Positional => sign[i].kind \in Positional
           /\ sign[i].kind # Kinds[5] \/ sign[j].kind = Kinds[5]
<1>1. PICK k \in 1..5, l \in 1..5 : k <= l /\ sign[i].kind = Kinds[k] /\ sign[j].kind = Kinds[l]
  <2>1. DOMAIN sign = 1..Len(sign)
    OBVIOUS
  <2> QED
    BY <2>1, KindFacts DEF Valid
<1>2. sign[j].kind \in Positional => l \in {1, 2}
  BY <1>1, KindFacts DEF Positional
<1>3. k \in {1, 2} => sign[i].kind \in Positional
  BY <1>1 DEF Positional
<1>4. l \in {1, 2} => k \in {1, 2}
  BY <1>1
<1>5. sign[i].kind = Kinds[5] => k = 5
  <2>1. 5 \in 1..5
    OBVIOUS
  <2>2. Kinds[k] = Kinds[5] => k = 5
    BY <2>1, KindFacts
  <2> QED
    BY <1>1, <2>2
<1>6. k = 5 => l = 5
  BY <1>1
<1> QED
  BY <1>1, <1>2, <1>3, <1>4, <1>5, <1>6

\* Arguments passed by position go to the first parameters.
LEMMA SlotFacts ==
    ASSUME NEW func \in Seq(Parameter), Valid(func), NEW slots, slots = Slots(func)
    PROVE  /\ slots \in Seq(Parameter) /\ Len(slots) <= Len(func)
           /\ \A i \in 1..Len(slots) : slots[i] = func[i] /\ func[i].kind \in Positional
           /\ \A i \in (Len(slots) + 1)..Len(func) : func[i].kind \notin Positional
<1>1. PICK params : params = {p \in Range(func) : p.kind \in Positional}
  OBVIOUS
<1>2. slots = Among(params, func)
  BY <1>1 DEF Slots, OfKind
<1>3. \A i \in 1..Len(func) : func[i] \in params <=> func[i].kind \in Positional
  BY <1>1 DEF Range
<1>4. \A i, j \in 1..Len(func) : i < j /\ func[j] \in params => func[i] \in params
  BY <1>3, KindsInOrder
<1>5. 0 \in 0..Len(func) /\ 1..0 = {} /\ Len(func) \in Nat
  OBVIOUS
<1>6. /\ slots \in Seq(Parameter) /\ 0 + Len(slots) <= Len(func)
      /\ \A i \in 1..Len(slots) : slots[i] = func[0 + i] /\ func[0 + i] \in params
      /\ \A i \in (0 + Len(slots) + 1)..Len(func) : func[i] \notin params
  <2>1. PICK k : k = 0
    OBVIOUS
  <2>2. k \in 0..Len(func) /\ \A i \in 1..k : func[i] \notin params
    BY <1>5, <2>1
  <2>3. \A i, j \in (k + 1)..Len(func) : i < j /\ func[j] \in params => func[i] \in params
    BY <1>4, <1>5, <2>1
  <2>4. /\ slots \in Seq(Parameter) /\ k + Len(slots) <= Len(func)
        /\ \A i \in 1..Len(slots) : slots[i] = func[k + i] /\ func[k + i] \in params
        /\ \A i \in (k + Len(slots) + 1)..Len(func) : func[i] \notin params
    <3>1. Together(params, func, k)
      BY <2>2, <2>3 DEF Together
    <3>2. Follow(slots, params, func, k)
      BY ONLY <1>2, <3>1, AmongPart
    <3> QED
      BY ONLY <3>2 DEF Follow
  <2> QED
    BY <2>1, <2>4
<1>7. Len(slots) \in Nat
  BY <1>6
<1>8. \A i \in 1..Len(slots) : i \in 1..Len(func) /\ 0 + i = i
  BY <1>5, <1>6, <1>7
<1>9. \A i \in (Len(slots) + 1)..Len(func) : i \in 1..Len(func) /\ i \in (0 + Len(slots) + 1)..Len(func)
  BY <1>5, <1>7
<1> QED
  BY <1>3, <1>6, <1>7, <1>8, <1>9

\* The names of bound parameters, as many as there are.
LEMMA DepArgFacts ==
    /\ DOMAIN DepArg = 1..3 /\ Len(DepArg) = 3 /\ Range(DepArg) = {DepArg[i] : i \in 1..3}
    /\ \A i, j \in 1..3 : DepArg[i] = DepArg[j] => i = j
    /\ \A i \in 1..3 : DepArg[i] # "extra" /\ DepArg[i] \in Name
<1>1. DOMAIN DepArg = 1..3 /\ Len(DepArg) = 3
  BY DEF DepArg
<1>2. Range(DepArg) = {DepArg[i] : i \in 1..3}
  BY <1>1 DEF Range
<1>3. DepArg[1] = "__dep_arg_0" /\ DepArg[2] = "__dep_arg_1" /\ DepArg[3] = "__dep_arg_2"
  BY DEF DepArg
<1>4. \A i \in 1..3 : i = 1 \/ i = 2 \/ i = 3
  OBVIOUS
<1>5. \A i, j \in 1..3 : DepArg[i] = DepArg[j] => i = j
  BY <1>3, <1>4
<1>6. \A i \in 1..3 : DepArg[i] # "extra"
  BY <1>3, <1>4
<1> QED
  BY <1>1, <1>2, <1>5, <1>6 DEF Name

\* A function wears its own signature.
LEMMA WearsOwn ==
    ASSUME NEW func \in Seq(Parameter), Valid(func)
    PROVE  Wears(func, func, <<>>)
<1>1. PICK slots, none : slots = Slots(func) /\ none = <<>>
  OBVIOUS
<1>2. Len(slots) \in Nat /\ Len(slots) <= Len(func) /\ Len(func) \in Nat
  BY <1>1, SlotFacts
<1>3. Len(none) = 0 /\ 1..0 = {} /\ Len(DepArg) = 3
  BY <1>1, DepArgFacts
<1>4. Range(func) = {func[i] : i \in 1..Len(func)} /\ 0 + 1 = 1
  BY DEF Range
<1>5. \A i \in 1..Len(slots) : ~(i <= 0)
  BY <1>2
<1> QED
  BY <1>1, <1>2, <1>3, <1>4, <1>5 DEF Wears

\* The elements of two sequences in a row.
LEMMA ConcatAt ==
    ASSUME NEW S, NEW s \in Seq(S), NEW t \in Seq(S), NEW st, st = s \o t
    PROVE  /\ st \in Seq(S) /\ Len(st) = Len(s) + Len(t)
           /\ \A i \in 1..Len(s) : st[i] = s[i]
           /\ \A i \in 1..Len(t) : st[Len(s) + i] = t[i]
<1>1. Len(s) \in Nat /\ Len(t) \in Nat
  OBVIOUS
<1>2. /\ st \in Seq(S) /\ Len(st) = Len(s) + Len(t)
      /\ \A i \in 1..(Len(s) + Len(t)) : st[i] = IF i <= Len(s) THEN s[i] ELSE t[i - Len(s)]
  OBVIOUS
<1>3. \A i \in 1..Len(s) : i \in 1..(Len(s) + Len(t)) /\ i <= Len(s)
  BY <1>1
<1>4. \A i \in 1..Len(t) : /\ Len(s) + i \in 1..(Len(s) + Len(t)) /\ ~(Len(s) + i <= Len(s))
                            /\ Len(s) + i - Len(s) = i
  BY <1>1
<1> QED
  BY <1>2, <1>3, <1>4

\* What is bound last takes the first places of what was bound before.
LEMMA BoundAgain ==
    ASSUME NEW deps \in Seq(Calls), NEW bound \in Seq(Calls), NEW k, NEW m, k = Len(deps), m = Len(bound),
           NEW more, more = deps \o SubSeq(bound, k + 1, m)
    PROVE  /\ more \in Seq(Calls) /\ Len(more) = IF k > m THEN k ELSE m
           /\ \A i \in 1..k : more[i] = deps[i]
           /\ \A i \in (k + 1)..m : more[i] = bound[i]
<1>1. PICK tail : tail = SubSeq(bound, k + 1, m)
  OBVIOUS
<1>2. k \in Nat /\ m \in Nat
  OBVIOUS
<1>3. CASE k >= m
  <2>1. tail = <<>>
    BY <1>1, <1>2, <1>3, SubSeqProperties
  <2>2. deps \o <<>> = deps
    OBVIOUS
  <2>3. more = deps
    BY <1>1, <2>1, <2>2
  <2> QED
    BY <1>2, <1>3, <2>3
<1>4. CASE k < m
  <2>1. /\ tail \in Seq(Calls) /\ Len(tail) = m - (k + 1) + 1
        /\ \A i \in 1..(m - (k + 1) + 1) : tail[i] = bound[(k + 1) + i - 1]
    BY <1>1, <1>2, <1>4, SubSeqProperties
  <2>2. /\ more \in Seq(Calls) /\ Len(more) = k + Len(tail)
        /\ \A i \in 1..k : more[i] = deps[i]
        /\ \A i \in 1..Len(tail) : more[k + i] = tail[i]
    <3>1. more = deps \o tail
      BY <1>1
    <3> QED
      BY <2>1, <3>1, ConcatAt
  <2>3. Len(tail) = m - k /\ k + (m - k) = m
    BY <1>2, <2>1
  <2>4. \A i \in (k + 1)..m : /\ i - k \in 1..Len(tail) /\ i - k \in 1..(m - (k + 1) + 1)
                               /\ k + (i - k) = i /\ (k + 1) + (i - k) - 1 = i
    BY <1>2, <1>4, <2>3
  <2>5. \A i \in (k + 1)..m : more[i] = bound[i]
    BY <2>1, <2>2, <2>4
  <2> QED
    BY <1>2, <1>4, <2>2, <2>3, <2>5
<1> QED
  BY <1>2, <1>3, <1>4

\* Without the names of the first parameters, the others are left.
LEMMA DropFirst ==
    ASSUME NEW sign \in Seq(Parameter), Valid(sign), NEW k \in 0..Len(sign)
    PROVE  /\ \A x \in Names(SubSeq(sign, 1, k)) : \E i \in 1..k : x = sign[i].name
           /\ \A i \in 1..Len(sign) : sign[i].name \in Names(SubSeq(sign, 1, k)) <=> i <= k
           /\ Drop(sign, Names(SubSeq(sign, 1, k))) \in Seq(Parameter)
           /\ Len(Drop(sign, Names(SubSeq(sign, 1, k)))) = Len(sign) - k
           /\ \A i \in 1..(Len(sign) - k) : Drop(sign, Names(SubSeq(sign, 1, k)))[i] = sign[k + i]
           /\ \A p : p \in Range(Drop(sign, Names(SubSeq(sign, 1, k))))
                      <=> p \in Range(sign) /\ p.name \notin Names(SubSeq(sign, 1, k))
<1>1. PICK n, names, rest : n = Len(sign) /\ names = Names(SubSeq(sign, 1, k)) /\ rest = Drop(sign, names)
  OBVIOUS
<1>2. n \in Nat /\ k \in Nat /\ k <= n
  BY <1>1
<1>3. names = {sign[i].name : i \in 1..k}
  <2>1. PICK start : start = SubSeq(sign, 1, k)
    OBVIOUS
  <2>2. start \in Seq(Parameter) /\ Len(start) = k /\ \A i \in 1..k : start[i] = sign[i]
    <3>1. CASE k = 0
      <4>1. start = <<>>
        BY <1>2, <2>1, <3>1, SubSeqProperties
      <4> QED
        BY <3>1, <4>1, EmptySeq
    <3>2. CASE k # 0
      <4>1. 1 <= k /\ k - 1 + 1 = k /\ \A i \in 1..k : 1 + i - 1 = i
        BY <3>2
      <4>2. /\ start \in Seq(Parameter) /\ Len(start) = k - 1 + 1
            /\ \A i \in 1..(k - 1 + 1) : start[i] = sign[1 + i - 1]
        BY <1>1, <1>2, <2>1, <4>1, SubSeqProperties
      <4> QED
        BY <4>1, <4>2
    <3> QED
      BY <3>1, <3>2
  <2>3. DOMAIN start = 1..k
    BY <2>2
  <2>4. Range(start) = {start[i] : i \in 1..k}
    BY <2>3 DEF Range
  <2> QED
    BY <1>1, <2>1, <2>2, <2>4 DEF Names
<1>4. ASSUME NEW i \in 1..n
      PROVE  sign[i].name \in names <=> i <= k
  <2>1. i <= k => i \in 1..k
    OBVIOUS
  <2>2. \A j \in 1..k : j \in 1..n /\ j <= k
    BY <1>2
  <2>3. \A j \in 1..k : sign[j].name = sign[i].name => i = j
    BY <1>1, <2>2, NamesApart
  <2> QED
    BY <1>3, <2>1, <2>2, <2>3
<1>5. PICK params : params = {p \in Range(sign) : p.name \notin names}
  OBVIOUS
<1>6. rest = Among(params, sign)
  BY <1>1, <1>5 DEF Drop
<1>7. \A i \in 1..n : sign[i] \in params <=> ~(i <= k)
  <2>1. \A i \in 1..n : sign[i] \in Range(sign)
    BY <1>1 DEF Range
  <2> QED
    BY <1>4, <1>5, <2>1
<1>8. k \in 0..Len(sign) /\ \A i \in 1..k : sign[i] \notin params
  BY <1>1, <1>2, <1>7
<1>9. \A i, j \in (k + 1)..Len(sign) : i < j /\ sign[j] \in params => sign[i] \in params
  BY <1>1, <1>2, <1>7
<1>10. /\ rest \in Seq(Parameter) /\ k + Len(rest) <= Len(sign)
       /\ \A i \in 1..Len(rest) : rest[i] = sign[k + i] /\ sign[k + i] \in params
       /\ \A i \in (k + Len(rest) + 1)..Len(sign) : sign[i] \notin params
  <2>1. Together(params, sign, k)
    BY <1>8, <1>9 DEF Together
  <2>2. Follow(rest, params, sign, k)
    BY ONLY <1>6, <2>1, AmongPart
  <2> QED
    BY ONLY <2>2 DEF Follow
<1>11. Len(rest) = n - k
  <2>1. PICK l \in Nat : l = Len(rest)
    BY <1>10
  <2>2. k + l <= n
    BY <1>1, <1>10, <2>1
  <2>3. ~(k + l < n)
    <3> SUFFICES ASSUME k + l < n
                 PROVE  FALSE
      OBVIOUS
    <3>1. n \in (k + l + 1)..n /\ n \in 1..n /\ ~(n <= k)
      BY <1>2
    <3>2. sign[n] \in params
      BY ONLY <1>7, <3>1
    <3>3. \A i \in (k + l + 1)..n : sign[i] \notin params
      BY ONLY <1>1, <1>10, <2>1
    <3> QED
      BY ONLY <3>1, <3>2, <3>3
  <2> QED
    BY <1>2, <2>1, <2>2, <2>3
<1>12. Range(rest) = Range(sign) \cap params
  BY <1>6, AmongFacts
<1>13. /\ \A x \in names : \E i \in 1..k : x = sign[i].name
       /\ \A p : p \in Range(rest) <=> p \in Range(sign) /\ p.name \notin names
  BY <1>3, <1>5, <1>12
<1>14. rest \in Seq(Parameter) /\ \A i \in 1..(n - k) : rest[i] = sign[k + i]
  BY <1>10, <1>11
<1> QED
  BY <1>1, <1>4, <1>11, <1>13, <1>14

\* What is new altogether is added as it is.
LEMMA AllMissing ==
    ASSUME NEW sign, NEW new \in Seq(Parameter), NEW kind,
           \A p \in Range(new) : p.kind = kind /\ p.name \notin Names(sign)
    PROVE  Missing(sign, new, kind) = new
<1>1. PICK params, all, k, z :
          /\ params = {p \in Range(new) : p.name \notin Names(sign)} /\ all = Among(params, new)
          /\ k = Len(new) /\ z = 0
  OBVIOUS
<1>2. k \in Nat /\ k \in 0..Len(new) /\ DOMAIN new = 1..k
  BY <1>1
<1>3. \A i \in 1..k : new[i] \in Range(new) /\ new[i] \in params
  BY <1>1, <1>2 DEF Range
<1>4. k <= Len(all) /\ \A i \in 1..k : all[i] = new[i]
  <2>1. \A i \in 1..k : new[i] \in params
    BY <1>3
  <2>2. StartsWith(Among(params, new), new, k)
    BY <1>2, <2>1, AmongStart
  <2> QED
    BY ONLY <1>1, <2>2 DEF StartsWith
<1>5. all \in Seq(Parameter) /\ Len(all) <= k
  <2>1. z \in 0..Len(new) /\ \A i \in 1..z : new[i] \notin params
    BY <1>1, <1>2
  <2>2. \A i, j \in (z + 1)..Len(new) : i < j /\ new[j] \in params => new[i] \in params
    BY <1>1, <1>3
  <2>3. all \in Seq(Parameter) /\ z + Len(all) <= Len(new)
    <3>1. Together(params, new, z)
      BY <2>1, <2>2 DEF Together
    <3>2. Follow(all, params, new, z)
      BY ONLY <1>1, <3>1, AmongPart
    <3> QED
      BY ONLY <3>2 DEF Follow
  <2> QED
    BY <1>1, <2>3
<1>6. all = new
  <2>1. Len(all) = Len(new)
    BY <1>1, <1>2, <1>4, <1>5
  <2> QED
    BY <1>1, <1>4, <1>5, <2>1, SeqEqual
<1>7. \A i \in DOMAIN new : [new[i] EXCEPT !.kind = kind] = new[i]
  <2> SUFFICES ASSUME NEW i \in DOMAIN new
               PROVE  [new[i] EXCEPT !.kind = kind] = new[i]
    OBVIOUS
  <2>1. new[i] \in Parameter /\ new[i].kind = kind
    BY <1>2, <1>3
  <2> QED
    BY <2>1 DEF Parameter
<1>8. Missing(sign, new, kind) = [i \in DOMAIN new |-> [new[i] EXCEPT !.kind = kind]]
  BY <1>1, <1>6 DEF Missing
<1>9. new = [i \in DOMAIN new |-> new[i]]
  OBVIOUS
<1> QED
  BY <1>7, <1>8, <1>9

\* bind_deps(): what was bound before is bound again or stays bound.
LEMMA WearsBound ==
    ASSUME NEW func \in Seq(Parameter), Valid(func), Ordinary(func),
           NEW sign \in Seq(Parameter), Valid(sign), NEW bound \in Seq(Calls),
           Wears(func, sign, bound),
           NEW deps \in Seq(Calls), Len(deps) <= Len(DepArg), Len(deps) <= Len(sign)
    PROVE  Wears(func, SignatureWithDeps(sign, deps), deps \o SubSeq(bound, Len(deps) + 1, Len(bound)))
<1>1. PICK k \in Nat, m \in Nat, n \in Nat, slots \in Nat :
          k = Len(deps) /\ m = Len(bound) /\ n = Len(sign) /\ slots = Len(Slots(func))
  <2>1. Slots(func) \in Seq(Parameter)
    BY SlotFacts
  <2> QED
    BY <2>1
<1>2. slots <= Len(func) /\ k <= 3 /\ k <= n
  BY <1>1, SlotFacts, DepArgFacts
<1>3. PICK more, names, rest, new :
          /\ more = deps \o SubSeq(bound, k + 1, m)
          /\ names = Names(SubSeq(sign, 1, k))
          /\ rest = Drop(sign, names)
          /\ new = [i \in DOMAIN deps |-> [name |-> DepArg[i], kind |-> Kinds[2], dep |-> deps[i]]]
  OBVIOUS
<1>4. /\ more \in Seq(Calls) /\ Len(more) = IF k > m THEN k ELSE m
      /\ \A i \in 1..k : more[i] = deps[i]
      /\ \A i \in (k + 1)..m : more[i] = bound[i]
  BY <1>1, <1>3, BoundAgain
<1> SUFFICES ASSUME Len(more) <= slots
             PROVE  Wears(func, SignatureWithDeps(sign, deps), more)
  BY <1>1, <1>3 DEF Wears
<1>5. m <= slots /\ k <= slots /\ m <= 3 /\ slots <= n
  <2>1. m <= slots /\ k <= slots
    BY <1>1, <1>4
  <2> QED
    BY <1>1, <2>1, DepArgFacts DEF Wears
<1>6. /\ \A i \in 1..slots : sign[i] = IF i <= m THEN BoundParam(i, bound[i]) ELSE func[i]
      /\ \A p \in Range(sign) : \/ \E i \in 1..m : p = BoundParam(i, bound[i])
                                \/ \E i \in (m + 1)..Len(func) : p = func[i]
                                \/ IsAdded(p, func)
      /\ \A i \in (m + 1)..Len(func) : func[i] \in Range(sign)
  BY <1>1, <1>5 DEF Wears
<1>7. /\ \A x \in names : \E i \in 1..k : x = sign[i].name
      /\ \A i \in 1..n : sign[i].name \in names <=> i <= k
      /\ rest \in Seq(Parameter) /\ Len(rest) = n - k
      /\ \A i \in 1..(n - k) : rest[i] = sign[k + i]
      /\ \A p : p \in Range(rest) <=> p \in Range(sign) /\ p.name \notin names
  <2>1. k \in 0..Len(sign) /\ n = Len(sign) /\ names = Names(SubSeq(sign, 1, k)) /\ rest = Drop(sign, names)
    BY <1>1, <1>2, <1>3
  <2>2. /\ \A x \in Names(SubSeq(sign, 1, k)) : \E i \in 1..k : x = sign[i].name
        /\ \A i \in 1..Len(sign) : sign[i].name \in Names(SubSeq(sign, 1, k)) <=> i <= k
        /\ Drop(sign, Names(SubSeq(sign, 1, k))) \in Seq(Parameter)
        /\ Len(Drop(sign, Names(SubSeq(sign, 1, k)))) = Len(sign) - k
        /\ \A i \in 1..(Len(sign) - k) : Drop(sign, Names(SubSeq(sign, 1, k)))[i] = sign[k + i]
        /\ \A p : p \in Range(Drop(sign, Names(SubSeq(sign, 1, k))))
                   <=> p \in Range(sign) /\ p.name \notin Names(SubSeq(sign, 1, k))
    BY <2>1, DropFirst
  <2> QED
    BY <2>1, <2>2
<1>8. new \in Seq(Parameter) /\ Len(new) = k /\ \A i \in 1..k : new[i] = BoundParam(i, deps[i])
  <2>1. \A i \in 1..k : BoundParam(i, deps[i]) \in Parameter
    <3>1. \A i \in 1..k : i \in 1..3 /\ deps[i] \in Calls
      BY <1>1, <1>2
    <3> QED
      BY <3>1, DepArgFacts, KindFacts DEF BoundParam, Parameter
  <2>2. \A i \in 1..k : new[i] = BoundParam(i, deps[i])
    BY <1>1, <1>3 DEF BoundParam
  <2>3. DOMAIN new = 1..k
    BY <1>1, <1>3
  <2>4. new = [i \in 1..k |-> new[i]]
    BY <1>1, <1>3
  <2>5. new \in [1..k -> Parameter]
    BY <2>1, <2>2, <2>4
  <2>6. new \in Seq(Parameter)
    BY ONLY <1>1, <2>5, SeqDef
  <2>7. Len(new) = k
    BY ONLY <1>1, <2>3, <2>6, LenProperties
  <2> QED
    BY ONLY <2>2, <2>6, <2>7
<1>9. \A i \in 1..k : DepArg[i] \notin Names(rest)
  <2> SUFFICES ASSUME NEW i \in 1..k, NEW p \in Range(rest), p.name = DepArg[i]
               PROVE  FALSE
    BY DEF Names
  <2>1. p \in Range(sign) /\ p.name \notin names /\ i \in 1..3 /\ i \in 1..n /\ i \in 1..slots
    <3>1. p \in Range(sign) /\ p.name \notin names
      BY ONLY <1>7, p \in Range(rest)
    <3>2. i \in 1..3 /\ i \in 1..n /\ i \in 1..slots
      <4>1. k \in Nat /\ n \in Nat /\ slots \in Nat /\ i \in 1..k
        OBVIOUS
      <4> QED
        BY ONLY <1>2, <1>5, <4>1
    <3> QED
      BY ONLY <3>1, <3>2
  <2>2. CASE \E j \in 1..m : p = BoundParam(j, bound[j])
    <3>1. PICK j \in 1..m : p = BoundParam(j, bound[j])
      BY <2>2
    <3>2. j \in 1..3
      BY <1>5
    <3>3. j = i
      BY <2>1, <3>1, <3>2, DepArgFacts DEF BoundParam
    <3>4. sign[i].name = DepArg[i]
      BY <1>6, <2>1, <3>1, <3>3 DEF BoundParam
    <3>5. i <= k
      OBVIOUS
    <3> QED
      BY <1>7, <2>1, <3>4, <3>5
  <2>3. CASE \E j \in (m + 1)..Len(func) : p = func[j]
    <3>1. PICK j \in (m + 1)..Len(func) : p = func[j]
      BY <2>3
    <3>2. j \in DOMAIN func
      BY <1>1, <3>1
    <3> QED
      BY <2>1, <3>1, <3>2, DepArgFacts DEF Ordinary
  <2>4. CASE IsAdded(p, func)
    BY <2>1, <2>4, DepArgFacts DEF IsAdded
  <2> QED
    BY <1>6, <2>1, <2>2, <2>3, <2>4
<1>10. Missing(rest, new, Kinds[2]) = new
  <2>1. PICK kind : kind = Kinds[2]
    OBVIOUS
  <2>2. ASSUME NEW p \in Range(new)
        PROVE  p.kind = kind /\ p.name \notin Names(rest)
    <3>1. DOMAIN new = 1..k
      BY <1>8
    <3>2. PICK i \in 1..k : p = new[i]
      BY <3>1 DEF Range
    <3> QED
      BY <1>8, <1>9, <2>1, <3>2 DEF BoundParam
  <2>3. Missing(rest, new, kind) = new
    BY <1>7, <1>8, <2>2, AllMissing
  <2> QED
    BY <2>1, <2>3
<1>11. PICK worn : worn = new \o rest
  OBVIOUS
<1>12. SignatureWithDeps(sign, deps) = worn
  <2>1. SignatureWithDeps(sign, deps) = Missing(rest, new, Kinds[2]) \o rest
    BY <1>1, <1>3 DEF SignatureWithDeps, Prepend
  <2> QED
    BY <1>10, <1>11, <2>1
<1>13. /\ worn \in Seq(Parameter) /\ Len(worn) = n
       /\ \A i \in 1..k : worn[i] = BoundParam(i, deps[i])
       /\ \A i \in (k + 1)..n : worn[i] = sign[i]
       /\ Range(worn) = Range(new) \cup Range(rest)
  <2>1. /\ worn \in Seq(Parameter) /\ Len(worn) = Len(new) + Len(rest)
        /\ \A i \in 1..Len(new) : worn[i] = new[i]
        /\ \A i \in 1..Len(rest) : worn[Len(new) + i] = rest[i]
    <3>1. new \in Seq(Parameter) /\ rest \in Seq(Parameter)
      BY <1>7, <1>8
    <3> QED
      BY ONLY <3>1, <1>11, ConcatAt
  <2>2. /\ worn \in Seq(Parameter) /\ Len(worn) = k + (n - k)
        /\ \A i \in 1..k : worn[i] = new[i]
        /\ \A i \in 1..(n - k) : worn[k + i] = rest[i]
    BY <1>7, <1>8, <2>1
  <2>3. k + (n - k) = n
    OBVIOUS
  <2>4. \A i \in (k + 1)..n : i - k \in 1..(n - k) /\ k + (i - k) = i
    OBVIOUS
  <2>5. Range(worn) = Range(new) \cup Range(rest)
    BY <1>7, <1>8, <1>11, ConcatRange
  <2>6. \A i \in (k + 1)..n : worn[i] = sign[i]
    <3> SUFFICES ASSUME NEW i \in (k + 1)..n
                 PROVE  worn[i] = sign[i]
      OBVIOUS
    <3>1. PICK j \in 1..(n - k) : k + j = i
      BY <2>4
    <3> QED
      BY <1>7, <2>2, <3>1
  <2> QED
    BY <1>8, <1>11, <2>2, <2>3, <2>5, <2>6
<1>14. \A i \in 1..slots : worn[i] = IF i <= Len(more) THEN BoundParam(i, more[i]) ELSE func[i]
  <2> SUFFICES ASSUME NEW i \in 1..slots
               PROVE  worn[i] = IF i <= Len(more) THEN BoundParam(i, more[i]) ELSE func[i]
    OBVIOUS
  <2>1. CASE i <= k
    <3>1. i \in 1..k /\ i <= Len(more)
      BY <1>4, <2>1
    <3> QED
      BY <1>4, <1>13, <3>1
  <2>2. CASE k < i
    <3>1. i \in (k + 1)..n
      BY <1>5, <2>2
    <3>2. worn[i] = IF i <= m THEN BoundParam(i, bound[i]) ELSE func[i]
      BY <1>6, <1>13, <3>1
    <3>3. i <= m => i \in (k + 1)..m /\ i <= Len(more)
      BY <1>4, <2>2
    <3>4. ~(i <= m) => ~(i <= Len(more))
      BY <1>4, <2>2
    <3> QED
      BY <1>4, <3>2, <3>3, <3>4
  <2> QED
    BY <2>1, <2>2
<1>15. ASSUME NEW p \in Range(worn)
       PROVE  \/ \E i \in 1..Len(more) : p = BoundParam(i, more[i])
              \/ \E i \in (Len(more) + 1)..Len(func) : p = func[i]
              \/ IsAdded(p, func)
  <2>1. CASE p \in Range(new)
    <3>1. PICK i \in 1..k : p = BoundParam(i, deps[i])
      BY <1>8, <2>1 DEF Range
    <3>2. i \in 1..Len(more)
      BY <1>4
    <3> QED
      BY <1>4, <3>1, <3>2
  <2>2. CASE p \in Range(rest)
    <3>1. p \in Range(sign) /\ p.name \notin names
      BY <1>7, <2>2
    <3>2. \A i \in 1..k : sign[i] # p
      <4>1. \A i \in 1..k : i \in 1..n /\ i <= k
        BY <1>2
      <4> QED
        BY <1>7, <3>1, <4>1
    <3>3. CASE \E i \in 1..m : p = BoundParam(i, bound[i])
      <4>1. PICK i \in 1..m : p = BoundParam(i, bound[i])
        BY <3>3
      <4>2. i \in 1..slots /\ sign[i] = p
        BY <1>5, <1>6, <4>1
      <4>3. i \in (k + 1)..m /\ i \in 1..Len(more)
        BY <1>4, <3>2, <4>2
      <4> QED
        BY <1>4, <4>1, <4>3
    <3>4. CASE \E i \in (m + 1)..Len(func) : p = func[i]
      <4>1. PICK i \in (m + 1)..Len(func) : p = func[i]
        BY <3>4
      <4>2. i <= k => i \in 1..slots /\ i \in 1..k /\ ~(i <= m)
        BY <1>5
      <4>3. ~(i <= k)
        BY <1>6, <3>2, <4>1, <4>2
      <4>4. i \in (Len(more) + 1)..Len(func)
        BY <1>4, <4>3
      <4> QED
        BY <4>1, <4>4
    <3> QED
      BY <1>6, <3>1, <3>3, <3>4
  <2> QED
    BY <1>13, <2>1, <2>2
<1>16. ASSUME NEW i \in (Len(more) + 1)..Len(func)
       PROVE  func[i] \in Range(worn)
  <2>1. i \in (m + 1)..Len(func) /\ ~(i <= k) /\ i \in 1..Len(func)
    BY <1>4
  <2>2. func[i] \in Range(sign)
    BY <1>6, <2>1
  <2>3. func[i].name \notin names
    <3> SUFFICES ASSUME NEW j \in 1..k, sign[j].name = func[i].name
                 PROVE  FALSE
      BY <1>7
    <3>0. sign[j].name = func[i].name
      OBVIOUS
    <3>1. j \in 1..slots /\ j \in 1..Len(func) /\ j \in 1..3
      BY <1>2, <1>5
    <3>2. CASE j <= m
      <4>1. func[i].name = DepArg[j]
        <5>1. sign[j] = BoundParam(j, bound[j])
          BY <1>6, <3>1, <3>2
        <5>2. sign[j].name = DepArg[j]
          BY <5>1 DEF BoundParam
        <5> QED
          BY <3>0, <5>2
      <4>2. i \in DOMAIN func
        BY <2>1
      <4> QED
        BY <3>1, <4>1, <4>2, DepArgFacts DEF Ordinary
    <3>3. CASE ~(j <= m)
      <4>1. func[j].name = func[i].name
        BY <1>6, <3>1, <3>3
      <4>2. j = i
        BY <2>1, <3>1, <4>1, NamesApart
      <4> QED
        BY <2>1, <4>2
    <3> QED
      BY <3>2, <3>3
  <2> QED
    BY <1>7, <1>13, <2>2, <2>3
<1>17. Len(more) <= Len(DepArg) /\ slots <= Len(worn)
  BY <1>2, <1>4, <1>5, <1>13, DepArgFacts
<1> QED
  BY <1>1, <1>14, <1>15, <1>16, <1>17, <1>12 DEF Wears

\* Signature.add_dep(): one more parameter, behind those that can be passed by position.
LEMMA WearsAdded ==
    ASSUME NEW func \in Seq(Parameter), Valid(func), NEW sign \in Seq(Parameter), Valid(sign),
           NEW bound \in Seq(Calls), Wears(func, sign, bound), NEW dep \in Calls,
           OfKind(func, {Kinds[5]}) # <<>>
    PROVE  Wears(func, AddDep(sign, "extra", dep), bound)
<1>1. PICK first, last, x :
          /\ first = {p \in Range(sign) : p.kind \in Range(Kinds) \ {Kinds[5]}}
          /\ last = {p \in Range(sign) : p.kind \in {Kinds[5]}}
          /\ x = [name |-> "extra", kind |-> Kinds[4], dep |-> dep]
  OBVIOUS
<1>2. PICK a, b, c, worn : /\ a = Among(first, sign) /\ c = Among(last, sign)
                           /\ b = Missing(sign, <<x>>, Kinds[4]) /\ worn = (a \o b) \o c
  OBVIOUS
<1>3. AddDep(sign, "extra", dep) = worn
  BY <1>1, <1>2 DEF AddDep, Add, OfKind
<1>4. PICK m \in Nat, n \in Nat, slots \in Nat :
          m = Len(bound) /\ n = Len(sign) /\ slots = Len(Slots(func))
  BY SlotFacts
<1> SUFFICES ASSUME m <= slots
             PROVE  Wears(func, worn, bound)
  BY <1>3, <1>4 DEF Wears
<1>5. /\ m <= Len(DepArg) /\ slots <= n
      /\ \A i \in 1..slots : sign[i] = IF i <= m THEN BoundParam(i, bound[i]) ELSE func[i]
      /\ \A p \in Range(sign) : \/ \E i \in 1..m : p = BoundParam(i, bound[i])
                                \/ \E i \in (m + 1)..Len(func) : p = func[i]
                                \/ IsAdded(p, func)
      /\ \A i \in (m + 1)..Len(func) : func[i] \in Range(sign)
  BY <1>4 DEF Wears
<1>6. \A i \in 1..n : sign[i] \in Range(sign) /\ sign[i].kind \in Range(Kinds)
  <2>1. \A i \in 1..n : sign[i] \in Range(sign) /\ sign[i] \in Parameter
    BY <1>4 DEF Range
  <2> QED
    BY <2>1 DEF Parameter
<1>7. a \in Seq(Parameter) /\ Len(a) <= n /\ slots <= Len(a) /\ \A i \in 1..Len(a) : a[i] = sign[i]
  <2>1. PICK k : k = 0
    OBVIOUS
  <2>2. k \in 0..Len(sign) /\ \A i \in 1..k : sign[i] \notin first
    BY <1>4, <2>1
  <2>3. \A i, j \in (k + 1)..Len(sign) : i < j /\ sign[j] \in first => sign[i] \in first
    <3> SUFFICES ASSUME NEW i \in 1..n, NEW j \in 1..n, i < j, sign[j] \in first
                 PROVE  sign[i] \in first
      BY <1>4, <2>1
    <3>1. sign[j].kind # Kinds[5]
      BY <1>1
    <3>2. sign[i].kind # Kinds[5]
      BY <1>4, <3>1, KindsInOrder
    <3> QED
      BY <1>1, <1>6, <3>2
  <2>4. /\ a \in Seq(Parameter) /\ k + Len(a) <= Len(sign)
        /\ \A i \in 1..Len(a) : a[i] = sign[k + i] /\ sign[k + i] \in first
        /\ \A i \in (k + Len(a) + 1)..Len(sign) : sign[i] \notin first
    <3>1. Together(first, sign, k)
      BY <2>2, <2>3 DEF Together
    <3>2. Follow(a, first, sign, k)
      BY ONLY <1>2, <3>1, AmongPart
    <3> QED
      BY ONLY <3>2 DEF Follow
  <2>5. PICK l \in Nat : l = Len(a)
    BY <2>4
  <2>6. \A i \in 1..slots : sign[i].kind \in Positional
    <3> SUFFICES ASSUME NEW i \in 1..slots
                 PROVE  sign[i].kind \in Positional
      OBVIOUS
    <3>1. func[i].kind \in Positional
      BY <1>4, SlotFacts
    <3>2. BoundParam(i, bound[i]).kind \in Positional
      BY DEF BoundParam, Positional
    <3> QED
      BY <1>5, <3>1, <3>2
  <2>7. Kinds[5] \notin Positional
    <3>1. Kinds[5] # Kinds[1] /\ Kinds[5] # Kinds[2]
      BY KindFacts
    <3> QED
      BY <3>1 DEF Positional
  <2>8. slots <= l
    <3> SUFFICES ASSUME l < slots
                 PROVE  FALSE
      OBVIOUS
    <3>1. slots \in 1..slots /\ slots \in 1..n /\ slots \in (k + l + 1)..n
      BY <1>5, <2>1
    <3>2. sign[slots] \in first
      BY <1>1, <1>6, <2>6, <2>7, <3>1
    <3> QED
      BY <1>4, <2>4, <2>5, <3>1, <3>2
  <2>9. \A i \in 1..l : k + i = i
    BY <2>1
  <2> QED
    BY <1>4, <2>1, <2>4, <2>5, <2>8, <2>9
<1>8. Range(a) = Range(sign) \cap first /\ Range(c) = Range(sign) \cap last /\ c \in Seq(Parameter)
  BY <1>2, AmongFacts
<1>9. b \in Seq(Parameter) /\ \A p \in Range(b) : IsAdded(p, func)
  <2>1. PICK extra, kind : extra = <<x>> /\ kind = Kinds[4]
    OBVIOUS
  <2>2. x \in Parameter
    BY <1>1, KindFacts DEF Parameter, Name
  <2>3. extra \in Seq(Parameter) /\ DOMAIN extra = {1} /\ extra[1] = x
    BY <2>1, <2>2
  <2>4. Range(extra) = {x}
    BY <2>3 DEF Range
  <2>5. kind \in Range(Kinds)
    BY <2>1, KindFacts
  <2>6. /\ Missing(sign, extra, kind) \in Seq(Parameter)
        /\ \A p \in Range(Missing(sign, extra, kind)) :
              /\ p.kind = kind /\ p.name \notin Names(sign)
              /\ \E q \in Range(extra) : q.dep = p.dep /\ q.name = p.name
    BY <2>3, <2>5, MissingFacts
  <2>7. b = Missing(sign, extra, kind)
    BY <1>2, <2>1
  <2>8. x.name = "extra" /\ x.dep = dep /\ dep # NoDep
    BY <1>1, RuntimeCallsAssumption
  <2> QED
    BY <2>1, <2>4, <2>6, <2>7, <2>8 DEF IsAdded
<1>10. PICK ab : ab = a \o b
  OBVIOUS
<1>11. /\ ab \in Seq(Parameter) /\ Len(ab) = Len(a) + Len(b) /\ \A i \in 1..Len(a) : ab[i] = a[i]
       /\ Range(ab) = Range(a) \cup Range(b)
  <2>1. /\ ab \in Seq(Parameter) /\ Len(ab) = Len(a) + Len(b)
        /\ \A i \in 1..Len(a) : ab[i] = a[i]
        /\ \A i \in 1..Len(b) : ab[Len(a) + i] = b[i]
    BY <1>7, <1>9, <1>10, ConcatAt
  <2>2. Range(ab) = Range(a) \cup Range(b)
    BY <1>7, <1>9, <1>10, ConcatRange
  <2> QED
    BY <2>1, <2>2
<1>12. /\ worn \in Seq(Parameter) /\ Len(worn) = Len(ab) + Len(c) /\ \A i \in 1..Len(ab) : worn[i] = ab[i]
       /\ Range(worn) = Range(ab) \cup Range(c)
  <2>1. worn = ab \o c
    BY <1>2, <1>10
  <2>2. /\ worn \in Seq(Parameter) /\ Len(worn) = Len(ab) + Len(c)
        /\ \A i \in 1..Len(ab) : worn[i] = ab[i]
        /\ \A i \in 1..Len(c) : worn[Len(ab) + i] = c[i]
    <3>1. ab \in Seq(Parameter) /\ c \in Seq(Parameter)
      BY <1>8, <1>11
    <3> QED
      BY ONLY <2>1, <3>1, ConcatAt
  <2>3. Range(worn) = Range(ab) \cup Range(c)
    BY <1>8, <1>11, <2>1, ConcatRange
  <2> QED
    BY <2>2, <2>3
<1>13. slots <= Len(worn) /\ \A i \in 1..slots : worn[i] = sign[i]
  <2>1. Len(a) \in Nat /\ Len(b) \in Nat /\ Len(c) \in Nat
    BY <1>7, <1>8, <1>9
  <2>2. \A i \in 1..slots : i \in 1..Len(a) /\ i \in 1..Len(ab)
    BY <1>7, <1>11, <2>1
  <2>3. \A i \in 1..slots : worn[i] = sign[i]
    BY <1>7, <1>11, <1>12, <2>2
  <2>4. slots <= Len(worn)
    BY <1>7, <1>11, <1>12, <2>1
  <2> QED
    BY <2>3, <2>4
<1>14. \A p \in Range(worn) : p \in Range(sign) \/ IsAdded(p, func)
  BY <1>8, <1>9, <1>11, <1>12
<1>15. \A p \in Range(sign) : p \in Range(worn)
  <2>1. \A p \in Range(sign) : p.kind \in Range(Kinds)
    <3>1. Range(sign) = {sign[i] : i \in 1..n}
      BY <1>4 DEF Range
    <3> QED
      BY <1>6, <3>1
  <2>2. \A p \in Range(sign) : p \in first \/ p \in last
    BY <1>1, <2>1
  <2> QED
    BY <1>8, <1>11, <1>12, <2>2
<1>16. \A p \in Range(worn) : \/ \E i \in 1..m : p = BoundParam(i, bound[i])
                              \/ \E i \in (m + 1)..Len(func) : p = func[i]
                              \/ IsAdded(p, func)
  BY <1>5, <1>14
<1>17. \A i \in (m + 1)..Len(func) : func[i] \in Range(worn)
  BY <1>5, <1>15
<1>18. \A i \in 1..slots : worn[i] = IF i <= m THEN BoundParam(i, bound[i]) ELSE func[i]
  BY <1>5, <1>13
<1> QED
  BY <1>4, <1>5, <1>13, <1>16, <1>17, <1>18 DEF Wears

\* What is made wears the function underneath.
LEMMA ExistingWears ==
    ASSUME RInv, Worn, NEW c \in Existing, ~Again(c)
    PROVE  Wears(Signs[Func(c)], Sign(c), Bound(c))
<1>1. CASE c \in Objects
  <2>1. c \in DOMAIN made
    BY <1>1 DEF Existing, Exists
  <2> QED
    BY <1>1, <2>1 DEF Worn, Func, Sign, Bound, Again
<1>2. CASE c \notin Objects
  <2>1. Func(c) = c /\ Sign(c) = Signs[c] /\ Bound(c) = <<>>
    BY <1>2 DEF Func, Sign, Bound
  <2>2. PICK func \in Seq(Parameter) : func = Signs[c] /\ Valid(func)
    BY <2>1, SignFacts DEF RInv
  <2> QED
    BY <2>1, <2>2, WearsOwn
<1> QED
  BY <1>1, <1>2

\* The signatures there are from the start are signatures.
LEMMA GivenSigns ==
    ASSUME NEW c \in Given
    PROVE  Signs[c] \in Seq(Parameter) /\ Valid(Signs[c])
<1>1. Signs[c] \in Seq(Parameters) /\ Valid(Signs[c])
  BY RuntimeCallsAssumption
<1>2. Parameters \subseteq Parameter
  BY DEF Parameters, Parameter, Name, Given
<1> QED
  BY <1>1, <1>2

\* A new object wears its function.
LEMMA MakeWears ==
    ASSUME Worn, NEW o, NEW object, Make(o, object),
           ~object.again => Wears(Signs[object.func], object.sign, object.bound)
    PROVE  Worn'
<1>1. made' = [p \in DOMAIN made \cup {o} |-> IF p = o THEN object ELSE made[p]]
  BY DEF Make
<1>2. ASSUME NEW p \in DOMAIN made', ~made'[p].again
      PROVE  Wears(Signs[made'[p].func], made'[p].sign, made'[p].bound)
  <2>1. CASE p = o
    BY <1>1, <1>2, <2>1
  <2>2. CASE p # o
    <3>1. p \in DOMAIN made /\ made'[p] = made[p]
      BY <1>1, <2>2
    <3> QED
      BY <1>2, <3>1 DEF Worn
  <2> QED
    BY <2>1, <2>2
<1> QED
  BY <1>2 DEF Worn

\* What is bound at once is what is bound.
LEMMA BoundOnce ==
    ASSUME NEW deps \in Seq(Calls), NEW bound \in Seq(Calls), bound = <<>> \/ deps = <<>>
    PROVE  deps \o SubSeq(bound, Len(deps) + 1, Len(bound)) = bound \o deps
<1>1. CASE bound = <<>>
  <2>1. PICK n \in Nat : n = Len(deps)
    OBVIOUS
  <2>2. SubSeq(bound, n + 1, Len(bound)) = <<>>
    BY <1>1, <2>1
  <2>3. deps \o <<>> = deps /\ <<>> \o deps = deps
    OBVIOUS
  <2> QED
    BY <1>1, <2>1, <2>2, <2>3
<1>2. CASE deps = <<>>
  <2>1. SubSeq(bound, 1, Len(bound)) = bound
    OBVIOUS
  <2>2. <<>> \o bound = bound /\ bound \o <<>> = bound
    OBVIOUS
  <2> QED
    BY <1>2, <2>1, <2>2
<1> QED
  BY <1>1, <1>2

LEMMA BindWears ==
    ASSUME RInv, Worn, OrdinarySigns, NEW r \in Recipes, Bind(r.object, r.func, r.deps)
    PROVE  Worn'
<1>1. PICK o, f \in Calls, deps \in Seq(Calls) :
          o = r.object /\ f = r.func /\ deps = r.deps /\ Len(deps) <= Len(DepArg)
  BY RuntimeCallsAssumption
<1>2. /\ f \in Existing /\ Len(deps) <= Len(Sign(f))
      /\ Make(o, [func |-> Func(f), sign |-> SignatureWithDeps(Sign(f), deps),
                  bound |-> Bound(f) \o deps,
                  again |-> Again(f) \/ (Bound(f) # <<>> /\ deps # <<>>)])
  <2>1. Bind(o, f, deps)
    BY <1>1
  <2> QED
    BY <2>1 DEF Bind, Binds, Existing
<1>3. Func(f) \in Given /\ Sign(f) \in Seq(Parameter) /\ Valid(Sign(f)) /\ Bound(f) \in Seq(Calls)
  BY <1>2, SignFacts DEF RInv
<1>4. PICK func, sign, bound, again :
          /\ func = Signs[Func(f)] /\ sign = Sign(f) /\ bound = Bound(f)
          /\ again = (Again(f) \/ (Bound(f) # <<>> /\ deps # <<>>))
  OBVIOUS
<1>5. /\ func \in Seq(Parameter) /\ Valid(func) /\ Ordinary(func)
      /\ sign \in Seq(Parameter) /\ Valid(sign) /\ bound \in Seq(Calls)
      /\ ~Again(f) => Wears(func, sign, bound)
  BY <1>2, <1>3, <1>4, GivenSigns, ExistingWears DEF OrdinarySigns
<1>6. ASSUME ~again
      PROVE  Wears(func, SignatureWithDeps(sign, deps), bound \o deps)
  <2>1. ~Again(f) /\ (bound = <<>> \/ deps = <<>>)
    BY <1>4, <1>6
  <2>2. Wears(func, SignatureWithDeps(sign, deps), deps \o SubSeq(bound, Len(deps) + 1, Len(bound)))
    BY <1>1, <1>2, <1>4, <1>5, <2>1, WearsBound
  <2>3. deps \o SubSeq(bound, Len(deps) + 1, Len(bound)) = bound \o deps
    BY <1>5, <2>1, BoundOnce
  <2> QED
    BY <2>2, <2>3
<1>7. PICK object : object = [func |-> Func(f), sign |-> SignatureWithDeps(sign, deps),
                              bound |-> bound \o deps, again |-> again]
  OBVIOUS
<1>8. Make(o, object) /\ (~object.again => Wears(Signs[object.func], object.sign, object.bound))
  BY <1>2, <1>4, <1>6, <1>7
<1> QED
  BY <1>8, MakeWears

LEMMA ExtendWears ==
    ASSUME RInv, Worn, OrdinarySigns, NEW r \in Extensions, Extend(r.object, r.func, r.dep)
    PROVE  Worn'
<1>1. PICK o, f \in Calls, dep \in Calls : o = r.object /\ f = r.func /\ dep = r.dep
  BY RuntimeCallsAssumption
<1>2. /\ f \in Existing /\ OfKind(Signs[Func(f)], {Kinds[5]}) # <<>>
      /\ Make(o, [func |-> Func(f), sign |-> AddDep(Sign(f), "extra", dep),
                  bound |-> Bound(f), again |-> Again(f)])
  BY <1>1 DEF Extend, Existing
<1>3. Func(f) \in Given /\ Sign(f) \in Seq(Parameter) /\ Valid(Sign(f)) /\ Bound(f) \in Seq(Calls)
  BY <1>2, SignFacts DEF RInv
<1>4. PICK func, sign, bound, again :
          func = Signs[Func(f)] /\ sign = Sign(f) /\ bound = Bound(f) /\ again = Again(f)
  OBVIOUS
<1>5. /\ func \in Seq(Parameter) /\ Valid(func)
      /\ sign \in Seq(Parameter) /\ Valid(sign) /\ bound \in Seq(Calls)
      /\ ~again => Wears(func, sign, bound)
  BY <1>2, <1>3, <1>4, GivenSigns, ExistingWears
<1>6. ~again => Wears(func, AddDep(sign, "extra", dep), bound)
  BY <1>2, <1>4, <1>5, WearsAdded
<1>7. PICK object : object = [func |-> Func(f), sign |-> AddDep(sign, "extra", dep),
                              bound |-> bound, again |-> again]
  OBVIOUS
<1>8. Make(o, object) /\ (~object.again => Wears(Signs[object.func], object.sign, object.bound))
  BY <1>2, <1>4, <1>6, <1>7
<1> QED
  BY <1>8, MakeWears

\* Every object that was not bound twice wears its function, however often it was extended.
LEMMA AlwaysWorn ==
    ASSUME OrdinarySigns
    PROVE  Spec => []Worn
<1>1. Init => Worn
  BY DEF Init, Worn
<1>2. RInv /\ Worn /\ [Next]_vars => Worn'
  <2> SUFFICES ASSUME RInv, Worn, [Next]_vars
               PROVE  Worn'
    OBVIOUS
  <2>1. ASSUME NEW r \in Recipes, Bind(r.object, r.func, r.deps)
        PROVE  Worn'
    BY <2>1, BindWears
  <2>2. ASSUME NEW r \in Extensions, Extend(r.object, r.func, r.dep)
        PROVE  Worn'
    BY <2>2, ExtendWears
  <2>3. CASE UNCHANGED made
    BY <2>3 DEF Worn
  <2>4. ASSUME NEW t \in Tasks, \/ \E c \in Roots : Open(t, c)
                                \/ Enter(t) \/ Return(t) \/ Close(t)
        PROVE  UNCHANGED made
    BY <2>4 DEF Open, Enter, Return, Close
  <2>5. CASE NewContext \/ ClearDependantCache \/ LeaveBlock
    BY <2>3, <2>5 DEF NewContext, ClearDependantCache, LeaveBlock
  <2>6. ASSUME NEW e \in Entries, EnterBlock(e) \/ AddEntry(e)
        PROVE  UNCHANGED made
    BY <2>6 DEF EnterBlock, AddEntry
  <2>7. CASE UNCHANGED vars
    BY <2>3, <2>7 DEF vars
  <2> QED
    BY <2>1, <2>2, <2>3, <2>4, <2>5, <2>6, <2>7 DEF Next
<1> QED
  BY <1>1, <1>2, RuntimeInvariant, PTL DEF Spec

-----------------------------------------------------------------------------
\* What a call passes

\* The caller sees what is no dependency.
LEMMA StripFacts ==
    ASSUME NEW sign \in Seq(Parameter), Valid(sign)
    PROVE  /\ Strip(sign) \in Seq(Parameter) /\ Valid(Strip(sign))
           /\ \A p : p \in Range(Strip(sign)) <=> p \in Range(sign) /\ p.dep = NoDep
           /\ \A x : x \in Names(Prepare(sign)) <=> \E p \in Range(sign) : p.dep # NoDep /\ p.name = x
           /\ \A i \in 1..Len(sign) : sign[i].dep = NoDep => sign[i].name \notin Names(Prepare(sign))
<1>1. PICK filled, names, left : /\ filled = {p \in Range(sign) : p.dep # NoDep}
                                 /\ names = Names(Prepare(sign))
                                 /\ left = {p \in Range(sign) : p.name \notin names}
  OBVIOUS
<1>2. Range(Prepare(sign)) = Range(sign) \cap filled
  BY <1>1, AmongFacts DEF Prepare
<1>3. \A x : x \in names <=> \E p \in Range(sign) : p.dep # NoDep /\ p.name = x
  BY <1>1, <1>2 DEF Names
<1>4. \A p \in Range(sign) : p.name \in names <=> p.dep # NoDep
  BY <1>3, NamesApart
<1>5. Strip(sign) = Among(left, sign)
  BY <1>1 DEF Strip, Drop
<1>6. /\ Strip(sign) \in Seq(Parameter) /\ Valid(Strip(sign)) /\ Range(Strip(sign)) = Range(sign) \cap left
  BY <1>5, AmongFacts, AmongValid
<1>7. \A p : p \in Range(Strip(sign)) <=> p \in Range(sign) /\ p.dep = NoDep
  BY <1>1, <1>4, <1>6
<1>8. \A i \in 1..Len(sign) : sign[i] \in Range(sign)
  BY DEF Range
<1>9. \A i \in 1..Len(sign) : sign[i].dep = NoDep => sign[i].name \notin names
  BY <1>4, <1>8
<1> QED
  BY <1>1, <1>3, <1>6, <1>7, <1>9

\* If nothing is bound, the first parameters that the caller sees are those of the function.
LEMMA PublicFirst ==
    ASSUME NEW func \in Seq(Parameter), Valid(func), Ordinary(func), NEW sign \in Seq(Parameter), Valid(sign),
           Wears(func, sign, <<>>), NEW public, public = Strip(sign),
           NEW n \in Nat, n <= Len(Slots(public))
    PROVE  /\ n <= Len(Slots(func)) /\ n <= Len(public)
           /\ \A i \in 1..n : public[i] = func[i] /\ func[i].dep = NoDep
<1>1. /\ public \in Seq(Parameter) /\ Valid(public)
      /\ \A p : p \in Range(public) <=> p \in Range(sign) /\ p.dep = NoDep
  BY StripFacts
<1>2. PICK slots \in Nat, seen \in Nat : slots = Len(Slots(func)) /\ seen = Len(Slots(public))
  BY <1>1, SlotFacts
<1>3. /\ slots <= Len(func) /\ \A i \in 1..slots : func[i].kind \in Positional
      /\ \A i \in (slots + 1)..Len(func) : func[i].kind \notin Positional
  BY <1>2, SlotFacts
<1>4. n <= seen /\ seen <= Len(public) /\ \A i \in 1..seen : public[i].kind \in Positional
  BY <1>1, <1>2, SlotFacts
<1>5. /\ slots <= Len(sign) /\ \A i \in 1..slots : sign[i] = func[i]
      /\ \A p \in Range(sign) : (\E i \in 1..Len(func) : p = func[i]) \/ IsAdded(p, func)
  <2>1. PICK none, m : none = <<>> /\ m = Len(none)
    OBVIOUS
  <2>2. m = 0
    BY <2>1
  <2>3. /\ slots <= Len(sign)
        /\ \A i \in 1..slots : sign[i] = IF i <= m THEN BoundParam(i, none[i]) ELSE func[i]
        /\ \A p \in Range(sign) : \/ \E i \in 1..m : p = BoundParam(i, none[i])
                                  \/ \E i \in (m + 1)..Len(func) : p = func[i]
                                  \/ IsAdded(p, func)
    BY <1>2, <2>1, <2>2 DEF Wears
  <2>4. 1..m = {} /\ m + 1 = 1 /\ \A i \in 1..slots : ~(i <= m)
    BY <2>2
  <2> QED
    BY <2>3, <2>4
<1>6. PICK wanted, free : /\ wanted = {p \in Range(func) : p.kind \in Positional /\ p.dep = NoDep}
                          /\ free = Among(wanted, func)
  OBVIOUS
<1>7. \A i \in 1..Len(func) : func[i] \in wanted <=> i <= slots /\ func[i].dep = NoDep
  <2> SUFFICES ASSUME NEW i \in 1..Len(func)
               PROVE  func[i] \in wanted <=> i <= slots /\ func[i].dep = NoDep
    OBVIOUS
  <2>1. func[i] \in Range(func)
    BY DEF Range
  <2>2. func[i].kind \in Positional <=> i <= slots
    <3>1. i \in 1..slots \/ i \in (slots + 1)..Len(func)
      BY <1>2
    <3> QED
      BY <1>2, <1>3, <3>1
  <2> QED
    BY <1>6, <2>1, <2>2
<1>8. PICK q \in Nat : q = Len(free) /\ q <= Len(func) /\ \A i \in 1..Len(func) : func[i] \in wanted <=> i <= q
  <2>1. PICK k : k = 0
    OBVIOUS
  <2>2. k \in 0..Len(func) /\ \A i \in 1..k : func[i] \notin wanted
    BY <2>1
  <2>3. \A i, j \in (k + 1)..Len(func) : i < j /\ func[j] \in wanted => func[i] \in wanted
    <3> SUFFICES ASSUME NEW i \in 1..Len(func), NEW j \in 1..Len(func), i < j, func[j] \in wanted
                 PROVE  func[i] \in wanted
      BY <2>1
    <3>1. j <= slots /\ func[j].dep = NoDep /\ i <= slots /\ j \in 1..slots
      BY <1>2, <1>7
    <3>2. func[j].kind \in Positional
      BY <1>3, <3>1
    <3>3. i \in DOMAIN func /\ j \in DOMAIN func
      OBVIOUS
    <3>4. func[i].dep = NoDep
      BY <3>1, <3>2, <3>3 DEF Ordinary
    <3> QED
      BY <1>7, <3>1, <3>4
  <2>4. /\ free \in Seq(Parameter) /\ k + Len(free) <= Len(func)
        /\ \A i \in 1..Len(free) : free[i] = func[k + i] /\ func[k + i] \in wanted
        /\ \A i \in (k + Len(free) + 1)..Len(func) : func[i] \notin wanted
    <3>1. Together(wanted, func, k)
      BY <2>2, <2>3 DEF Together
    <3>2. Follow(free, wanted, func, k)
      BY ONLY <1>6, <3>1, AmongPart
    <3> QED
      BY ONLY <3>2 DEF Follow
  <2>5. PICK q \in Nat : q = Len(free)
    BY <2>4
  <2>6. \A i \in 1..Len(func) : IF i <= q THEN i \in 1..q /\ k + i = i ELSE i \in (k + q + 1)..Len(func)
    BY <2>1
  <2>7. \A i \in 1..Len(func) : func[i] \in wanted <=> i <= q
    BY <2>4, <2>5, <2>6
  <2> QED
    BY <2>1, <2>4, <2>5, <2>7
<1>9. q <= slots /\ \A i \in 1..q : i \in 1..Len(func) /\ i <= slots /\ func[i].dep = NoDep
  <2>1. \A i \in 1..q : i \in 1..Len(func) /\ i <= q
    BY <1>8
  <2>2. \A i \in 1..q : i <= slots /\ func[i].dep = NoDep
    BY <1>7, <1>8, <2>1
  <2>3. q <= slots
    <3>1. q = 0 \/ q \in 1..q
      OBVIOUS
    <3> QED
      BY <1>2, <2>2, <3>1
  <2> QED
    BY <2>1, <2>2, <2>3
<1>10. q <= Len(public) /\ \A i \in 1..q : public[i] = func[i]
  <2>1. PICK left : left = {p \in Range(sign) : p.name \notin Names(Prepare(sign))}
    OBVIOUS
  <2>2. public = Among(left, sign)
    BY <2>1 DEF Strip, Drop
  <2>3. \A i \in 1..q : i \in 1..Len(sign) /\ i \in 1..slots /\ sign[i] = func[i]
    BY <1>2, <1>5, <1>9
  <2>4. \A i \in 1..q : sign[i] \in left
    <3> SUFFICES ASSUME NEW i \in 1..q
                 PROVE  sign[i] \in left
      OBVIOUS
    <3>1. i \in 1..Len(sign) /\ sign[i].dep = NoDep
      BY <1>9, <2>3
    <3>2. sign[i] \in Range(sign)
      BY <3>1 DEF Range
    <3> QED
      BY <2>1, <3>1, <3>2, StripFacts
  <2>5. q \in 0..Len(sign)
    BY <1>2, <1>5, <1>9
  <2>6. q <= Len(public) /\ \A i \in 1..q : public[i] = sign[i]
    <3>1. sign \in Seq(Parameter)
      OBVIOUS
    <3>2. StartsWith(public, sign, q)
      BY ONLY <2>2, <2>4, <2>5, <3>1, AmongStart
    <3> QED
      BY ONLY <3>2 DEF StartsWith
  <2> QED
    BY <2>3, <2>6
<1>11. ASSUME NEW i \in 1..n
       PROVE  i <= q
  <2>1. i \in 1..seen /\ i \in 1..Len(public)
    BY <1>1, <1>4
  <2>2. public[i] \in Range(public)
    BY <1>1, <2>1 DEF Range
  <2>3. public[i] \in Range(sign) /\ public[i].dep = NoDep /\ public[i].kind \in Positional
    BY <1>1, <1>4, <2>1, <2>2
  <2>4. PICK j \in 1..Len(func) : public[i] = func[j]
    BY <1>5, <2>3 DEF IsAdded
  <2>5. j <= slots
    BY <1>2, <1>3, <2>3, <2>4
  <2>6. j <= q
    BY <1>7, <1>8, <2>3, <2>4, <2>5
  <2>7. j \in 1..q /\ j \in 1..Len(public)
    BY <1>1, <1>10, <2>6
  <2>8. i = j
    BY <1>1, <1>10, <2>1, <2>4, <2>7, NamesApart
  <2> QED
    BY <2>6, <2>8
<1>12. n <= q
  <2>1. n = 0 \/ n \in 1..n
    OBVIOUS
  <2> QED
    BY <1>8, <1>11, <2>1
<1>13. \A i \in 1..n : i \in 1..q
  BY <1>11
<1> QED
  BY <1>2, <1>4, <1>1, <1>9, <1>10, <1>12, <1>13

\* A signature for a function, of whose positional parameters the first are bound.
Dressed(func, sign, bound) ==
    /\ func \in Seq(Parameter) /\ Valid(func) /\ Ordinary(func)
    /\ sign \in Seq(Parameter) /\ Valid(sign)
    /\ bound \in Seq(Calls) /\ Wears(func, sign, bound) /\ Len(bound) <= Len(Slots(func))

\* Its parameters stand for bound ones, are those of the function, or were added.
Consists(func, sign, bound) ==
    LET m == Len(bound)
    IN  /\ \A i \in 1..m : BoundParam(i, bound[i]) \in Range(sign)
        /\ \A p \in Range(sign) : \/ \E i \in 1..m : p = BoundParam(i, bound[i])
                                  \/ \E i \in (m + 1)..Len(func) : p = func[i]
                                  \/ IsAdded(p, func)
        /\ \A i \in (m + 1)..Len(func) : func[i] \in Range(sign)
        /\ \A p \in Range(sign) : p.dep # NoDep => p.kind \notin Variable
        /\ \A p \in Range(sign) : p.name = "extra" <=> IsAdded(p, func)
        /\ m <= 3

\* Parameters that are filled in are not variable, and nothing but what was added is called
\* as it.
LEMMA WornParameters ==
    ASSUME NEW func, NEW sign, NEW bound, Dressed(func, sign, bound)
    PROVE  Consists(func, sign, bound)
<1> SUFFICES ASSUME func \in Seq(Parameter), Valid(func), Ordinary(func), sign \in Seq(Parameter), Valid(sign),
                    bound \in Seq(Calls), Wears(func, sign, bound), Len(bound) <= Len(Slots(func))
             PROVE  Consists(func, sign, bound)
  BY DEF Dressed
<1>1. PICK m \in Nat, slots \in Nat : m = Len(bound) /\ slots = Len(Slots(func)) /\ m <= slots
  BY SlotFacts
<1>2. /\ m <= 3 /\ slots <= Len(sign)
      /\ \A i \in 1..slots : sign[i] = IF i <= m THEN BoundParam(i, bound[i]) ELSE func[i]
      /\ \A p \in Range(sign) : \/ \E i \in 1..m : p = BoundParam(i, bound[i])
                                \/ \E i \in (m + 1)..Len(func) : p = func[i]
                                \/ IsAdded(p, func)
      /\ \A i \in (m + 1)..Len(func) : func[i] \in Range(sign)
  BY <1>1, DepArgFacts DEF Wears
<1>3. ASSUME NEW i \in 1..m
      PROVE  BoundParam(i, bound[i]) \in Range(sign)
  <2>1. i \in 1..slots /\ i \in DOMAIN sign /\ i <= m
    BY <1>1, <1>2
  <2>2. sign[i] = BoundParam(i, bound[i])
    BY <1>2, <2>1
  <2> QED
    BY <2>1, <2>2 DEF Range
<1>4. Kinds[2] \notin Variable /\ Kinds[4] \notin Variable
  <2>1. Kinds[2] # Kinds[3] /\ Kinds[2] # Kinds[5] /\ Kinds[4] # Kinds[3] /\ Kinds[4] # Kinds[5]
    BY KindFacts
  <2> QED
    BY <2>1 DEF Variable
<1>5. ASSUME NEW p \in Range(sign)
      PROVE  /\ p.dep # NoDep => p.kind \notin Variable
             /\ p.name = "extra" <=> IsAdded(p, func)
  <2>1. CASE \E i \in 1..m : p = BoundParam(i, bound[i])
    <3>1. PICK i \in 1..3 : p = BoundParam(i, bound[i])
      BY <1>2, <2>1
    <3>2. p.kind = Kinds[2] /\ p.name = DepArg[i]
      BY <3>1 DEF BoundParam
    <3>3. p.name # "extra"
      BY <3>2, DepArgFacts
    <3> QED
      BY <1>4, <3>2, <3>3 DEF IsAdded
  <2>2. CASE \E i \in (m + 1)..Len(func) : p = func[i]
    <3>1. PICK i \in DOMAIN func : p = func[i]
      BY <1>1, <2>2
    <3>2. func[i].name # "extra" /\ (func[i].dep # NoDep => func[i].kind \notin Variable)
      BY DEF Ordinary
    <3> QED
      BY <3>1, <3>2 DEF IsAdded
  <2>3. CASE IsAdded(p, func)
    BY <1>4, <2>3 DEF IsAdded
  <2> QED
    BY <1>2, <2>1, <2>2, <2>3
<1> QED
  BY <1>1, <1>2, <1>3, <1>5 DEF Consists

\* The wrapper passes by keyword what the caller does and what is filled in.
Passes(sign, given, left, solved, kwargs) ==
    /\ sign \in Seq(Parameter) /\ Valid(sign)
    /\ \A p \in Range(sign) : p.dep # NoDep => p.kind \notin Variable
    /\ left = Names(OfKind(Strip(sign), Range(Kinds) \ Variable)) \ given
    /\ solved = [x \in Names(Prepare(sign)) |-> (CHOOSE p \in Range(sign) : p.name = x).dep]
    /\ kwargs = [x \in left \cup Names(Prepare(sign)) |-> IF x \in left THEN x ELSE solved[x]]

\* Every parameter that is not given yet is passed, with its own value.
AllPassed(sign, given, kwargs) ==
    /\ \A x : x \in DOMAIN kwargs <=>
                \E p \in Range(sign) : p.name = x /\ p.kind \notin Variable /\ (p.dep = NoDep => x \notin given)
    /\ \A p \in Range(sign) : p.name \in DOMAIN kwargs => kwargs[p.name] = Own(p)

\* CallInjected(): what is passed are all parameters of the signature.
LEMMA Passed ==
    ASSUME NEW sign, NEW given, NEW left, NEW solved, NEW kwargs, Passes(sign, given, left, solved, kwargs)
    PROVE  AllPassed(sign, given, kwargs)
<1> SUFFICES ASSUME sign \in Seq(Parameter), Valid(sign),
                    \A p \in Range(sign) : p.dep # NoDep => p.kind \notin Variable,
                    left = Names(OfKind(Strip(sign), Range(Kinds) \ Variable)) \ given,
                    solved = [x \in Names(Prepare(sign)) |-> (CHOOSE p \in Range(sign) : p.name = x).dep],
                    kwargs = [x \in left \cup Names(Prepare(sign)) |-> IF x \in left THEN x ELSE solved[x]]
             PROVE  AllPassed(sign, given, kwargs)
  BY DEF Passes
<1>1. /\ Strip(sign) \in Seq(Parameter)
      /\ \A p : p \in Range(Strip(sign)) <=> p \in Range(sign) /\ p.dep = NoDep
      /\ \A x : x \in Names(Prepare(sign)) <=> \E p \in Range(sign) : p.dep # NoDep /\ p.name = x
  BY StripFacts
<1>2. \A p \in Range(sign) : p.kind \in Range(Kinds)
  <2>1. DOMAIN sign = 1..Len(sign) /\ \A i \in 1..Len(sign) : sign[i] \in Parameter
    OBVIOUS
  <2> QED
    BY <2>1 DEF Range, Parameter
<1>3. PICK public, fixed : public = Strip(sign) /\ fixed = {p \in Range(public) : p.kind \in Range(Kinds) \ Variable}
  OBVIOUS
<1>4. Range(OfKind(public, Range(Kinds) \ Variable)) = Range(public) \cap fixed
  <2>1. OfKind(public, Range(Kinds) \ Variable) = Among(fixed, public)
    BY <1>3 DEF OfKind
  <2>2. public \in Seq(Parameter)
    BY <1>1, <1>3
  <2>3. Range(Among(fixed, public)) = Range(public) \cap fixed
    BY ONLY <2>2, AmongFacts
  <2> QED
    BY <2>1, <2>3
<1>5. \A x : x \in left <=> \E p \in Range(sign) : p.name = x /\ p.dep = NoDep /\ p.kind \notin Variable /\ x \notin given
  BY <1>1, <1>2, <1>3, <1>4 DEF Names
<1>6. DOMAIN kwargs = left \cup Names(Prepare(sign))
  OBVIOUS
<1>7. ASSUME NEW x
      PROVE  x \in DOMAIN kwargs <=> \E p \in Range(sign) : /\ p.name = x /\ p.kind \notin Variable
                                                            /\ p.dep = NoDep => x \notin given
  BY <1>1, <1>5, <1>6
<1>8. ASSUME NEW p \in Range(sign), p.name \in DOMAIN kwargs
      PROVE  kwargs[p.name] = Own(p)
  <2>1. p.name \in left <=> p.dep = NoDep
    <3>1. \A q \in Range(sign) : q.name = p.name => q = p
      BY NamesApart
    <3>2. p.kind \notin Variable /\ (p.dep = NoDep => p.name \notin given)
      BY <1>7, <1>8, <3>1
    <3>3. p.dep = NoDep => p.name \in left
      BY <1>5, <3>2
    <3>4. p.name \in left => p.dep = NoDep
      BY <1>5, <3>1
    <3> QED
      BY <3>3, <3>4
  <2>2. CASE p.dep = NoDep
    BY <1>6, <1>8, <2>1, <2>2 DEF Own
  <2>3. CASE p.dep # NoDep
    <3>1. p.name \in Names(Prepare(sign))
      BY <1>6, <1>8, <2>1, <2>3
    <3>2. \A q \in Range(sign) : q.name = p.name <=> q = p
      BY NamesApart
    <3>3. (CHOOSE q \in Range(sign) : q.name = p.name) = p
      BY <3>2
    <3>4. solved[p.name] = p.dep
      BY <3>1, <3>3
    <3> QED
      BY <1>6, <1>8, <2>1, <2>3, <3>4 DEF Own
  <2> QED
    BY <2>2, <2>3
<1> QED
  BY <1>7, <1>8 DEF AllPassed

\* take_dep_args(): what was bound is found again, in its order.
LEMMA BoundTaken ==
    ASSUME NEW bound \in Seq(Calls), Len(bound) <= 3, NEW kwargs,
           \A i \in 1..3 : DepArg[i] \in DOMAIN kwargs <=> i <= Len(bound),
           \A i \in 1..Len(bound) : kwargs[DepArg[i]] = bound[i]
    PROVE  ~Gap(kwargs) /\ TakeDepArgs(kwargs) = bound
<1>1. PICK m \in Nat : m = Len(bound) /\ m <= 3
  OBVIOUS
<1>2. Indexes(kwargs) = 1..m
  <2>1. \A i : i \in 1..m <=> i \in 1..3 /\ i <= m
    BY <1>1
  <2>2. \A i : i \in Indexes(kwargs) <=> i \in 1..3 /\ DepArg[i] \in DOMAIN kwargs
    BY DepArgFacts DEF Indexes
  <2> QED
    BY <1>1, <2>1, <2>2
<1>3. Cardinality(1..m) = m
  <2>1. 1 \in Int /\ m \in Int
    OBVIOUS
  <2>2. Cardinality(1..m) = IF 1 > m THEN 0 ELSE m - 1 + 1
    BY <2>1, FS_Interval
  <2> QED
    BY <2>2
<1>4. TakeDepArgs(kwargs) = [i \in 1..m |-> bound[i]]
  BY <1>1, <1>2 DEF TakeDepArgs
<1>5. bound = [i \in 1..m |-> bound[i]]
  BY <1>1
<1> QED
  BY <1>2, <1>3, <1>4, <1>5 DEF Gap

\* Arguments that fit a function: the first k parameters by position, the others by keyword.
Fits(func, args, k, kwargs) ==
    /\ func \in Seq(Parameter) /\ Valid(func)
    /\ k \in Nat /\ Len(args) = k /\ k <= Len(Slots(func))
    /\ \A i \in 1..k : func[i].name \notin DOMAIN kwargs
    /\ DOMAIN kwargs \subseteq Names(OfKind(func, Keyword)) \/ OfKind(func, {Kinds[5]}) # <<>>
    /\ \A i \in 1..Len(func) : i <= k \/ func[i].kind \in Variable \/ func[i].name \in DOMAIN kwargs

\* Each argument is the value of its parameter.
Fitted(called, func, args, k, kwargs) ==
    /\ DOMAIN called = {func[i].name : i \in 1..k} \cup DOMAIN kwargs
    /\ \A i \in 1..k : called[func[i].name] = args[i]
    /\ \A x \in DOMAIN kwargs : called[x] = kwargs[x]
    /\ \E f : called = [x \in {func[i].name : i \in 1..k} \cup DOMAIN kwargs |-> f[x]]

\* Python gives the first parameters what is passed by position, the others what is passed
\* by their names.
LEMMA CallFits ==
    ASSUME NEW func, NEW args, NEW k, NEW kwargs, Fits(func, args, k, kwargs)
    PROVE  Fitted(PyCall(func, args, kwargs), func, args, k, kwargs)
<1> SUFFICES ASSUME func \in Seq(Parameter), Valid(func), k \in Nat, Len(args) = k, k <= Len(Slots(func)),
                    \A i \in 1..k : func[i].name \notin DOMAIN kwargs,
                    \/ DOMAIN kwargs \subseteq Names(OfKind(func, Keyword))
                    \/ OfKind(func, {Kinds[5]}) # <<>>,
                    \A i \in 1..Len(func) : i <= k \/ func[i].kind \in Variable \/ func[i].name \in DOMAIN kwargs
             PROVE  Fitted(PyCall(func, args, kwargs), func, args, k, kwargs)
  BY DEF Fits
<1>1. PICK slots, filled : slots = Slots(func) /\ filled = {func[i].name : i \in 1..k}
  OBVIOUS
<1>2. /\ slots \in Seq(Parameter) /\ Len(slots) <= Len(func) /\ k <= Len(slots)
      /\ \A i \in 1..Len(slots) : slots[i] = func[i] /\ func[i].kind \in Positional
      /\ DOMAIN slots = 1..Len(slots)
  BY <1>1, SlotFacts
<1>3. \A i \in 1..k : i \in 1..Len(slots) /\ i \in 1..Len(func) /\ slots[i] = func[i]
  BY <1>2
<1>4. Filled(func, args) = filled
  <2>1. 1..Len(args) \cap DOMAIN slots = 1..k
    BY <1>2
  <2>2. \A x : x \in Filled(func, args) <=> \E i \in 1..k : x = slots[i].name
    BY <1>1, <2>1 DEF Filled
  <2> QED
    BY <1>1, <1>3, <2>2
<1>5. filled \cap DOMAIN kwargs = {}
  BY <1>1
<1>6. Names(OfKind(func, Positional \cup Keyword)) \subseteq filled \cup DOMAIN kwargs
  <2>1. PICK params : params = {p \in Range(func) : p.kind \in Positional \cup Keyword}
    OBVIOUS
  <2>2. OfKind(func, Positional \cup Keyword) = Among(params, func)
    BY <2>1 DEF OfKind
  <2>3. Range(OfKind(func, Positional \cup Keyword)) = Range(func) \cap params
    BY <2>2, AmongFacts
  <2>4. (Positional \cup Keyword) \cap Variable = {}
    <3>1. \A i \in {1, 2, 4}, j \in {3, 5} : Kinds[i] # Kinds[j]
      BY KindFacts
    <3> QED
      BY <3>1 DEF Positional, Keyword, Variable
  <2>5. ASSUME NEW p \in Range(func), p \in params
        PROVE  p.name \in filled \cup DOMAIN kwargs
    <3>1. PICK i \in 1..Len(func) : p = func[i]
      BY DEF Range
    <3>2. p.kind \notin Variable
      BY <2>1, <2>4, <2>5
    <3>3. i <= k => i \in 1..k
      OBVIOUS
    <3> QED
      BY <1>1, <3>1, <3>2, <3>3
  <2> QED
    BY <2>3, <2>5 DEF Names
<1>7. ~(Len(args) > Len(slots))
  BY <1>2
<1>8. ~Refused(func, args, kwargs)
  BY <1>1, <1>4, <1>5, <1>6, <1>7 DEF Refused
<1>9. PICK result : result = PyCall(func, args, kwargs)
  OBVIOUS
<1>10. result = [n \in filled \cup DOMAIN kwargs |->
                   IF n \in filled THEN args[CHOOSE i \in DOMAIN Slots(func) : Slots(func)[i].name = n] ELSE kwargs[n]]
  BY <1>4, <1>8, <1>9 DEF PyCall
<1>11. ASSUME NEW i \in 1..k
       PROVE  result[func[i].name] = args[i]
  <2>1. \A j \in DOMAIN Slots(func) : Slots(func)[j].name = func[i].name <=> j = i
    <3> SUFFICES ASSUME NEW j \in DOMAIN slots
                 PROVE  slots[j].name = func[i].name <=> j = i
      BY <1>1
    <3>1. j \in 1..Len(func) /\ i \in 1..Len(func) /\ slots[j] = func[j]
      BY <1>2, <1>3
    <3> QED
      BY <3>1, NamesApart
  <2>2. i \in DOMAIN Slots(func)
    BY <1>1, <1>2, <1>3
  <2>3. (CHOOSE j \in DOMAIN Slots(func) : Slots(func)[j].name = func[i].name) = i
    BY <2>1, <2>2
  <2>4. func[i].name \in filled
    BY <1>1
  <2> QED
    BY <1>10, <2>3, <2>4
<1>12. \A x \in DOMAIN kwargs : result[x] = kwargs[x]
  BY <1>5, <1>10
<1>13. DOMAIN result = filled \cup DOMAIN kwargs /\ result = [x \in filled \cup DOMAIN kwargs |-> result[x]]
  BY <1>10
<1> QED
  BY <1>1, <1>9, <1>11, <1>12, <1>13 DEF Fitted

\* What is passed by keyword, once the bound arguments are taken out.
Rest(kwargs) == [x \in DOMAIN kwargs \ Range(DepArg) |-> kwargs[x]]

\* The names of the first n parameters, which the caller passes by position.
GivenFirst(func, bound, n, given) ==
    /\ n \in Nat /\ (n = 0 \/ Len(bound) = 0) /\ n <= Len(Slots(func))
    /\ \A i \in 1..n : func[i].dep = NoDep
    /\ \A x : x \in given <=> \E i \in 1..n : x = func[i].name

\* The parameters of the function behind the first k, and those that were added.
RestPassed(func, sign, k, rest) ==
    /\ \A x : x \in DOMAIN rest <=>
           \/ \E i \in (k + 1)..Len(func) : x = func[i].name /\ func[i].kind \notin Variable
           \/ \E p \in Range(sign) : IsAdded(p, func) /\ x = p.name
    /\ \A i \in (k + 1)..Len(func) : func[i].kind \notin Variable => rest[func[i].name] = Own(func[i])
    /\ \A p \in Range(sign) : IsAdded(p, func) => rest[p.name] = Own(p)

\* CallBound(): without the bound arguments, these are what is passed by keyword.
LEMMA RestFacts ==
    ASSUME NEW func, NEW sign, NEW bound, Dressed(func, sign, bound),
           NEW n, NEW given, GivenFirst(func, bound, n, given),
           NEW kwargs, AllPassed(sign, given, kwargs)
    PROVE  RestPassed(func, sign, n + Len(bound), Rest(kwargs))
<1> SUFFICES ASSUME func \in Seq(Parameter), Valid(func), Ordinary(func), sign \in Seq(Parameter), Valid(sign),
                    bound \in Seq(Calls), Wears(func, sign, bound), Len(bound) <= Len(Slots(func)),
                    n \in Nat, n = 0 \/ Len(bound) = 0, n <= Len(Slots(func)),
                    \A i \in 1..n : func[i].dep = NoDep,
                    \A x : x \in given <=> \E i \in 1..n : x = func[i].name,
                    \A x : x \in DOMAIN kwargs <=>
                       \E p \in Range(sign) : p.name = x /\ p.kind \notin Variable /\ (p.dep = NoDep => x \notin given),
                    \A p \in Range(sign) : p.name \in DOMAIN kwargs => kwargs[p.name] = Own(p),
                    NEW k, k = n + Len(bound)
             PROVE  RestPassed(func, sign, k, Rest(kwargs))
  BY DEF Dressed, GivenFirst, AllPassed
<1>1. PICK m \in Nat : m = Len(bound) /\ k = n + m
  OBVIOUS
<1>2. /\ \A p \in Range(sign) : \/ \E i \in 1..m : p = BoundParam(i, bound[i])
                                \/ \E i \in (m + 1)..Len(func) : p = func[i]
                                \/ IsAdded(p, func)
      /\ \A i \in (m + 1)..Len(func) : func[i] \in Range(sign)
      /\ \A p \in Range(sign) : p.dep # NoDep => p.kind \notin Variable
      /\ \A p \in Range(sign) : p.name = "extra" <=> IsAdded(p, func)
      /\ m <= 3
  <2>1. Dressed(func, sign, bound)
    BY DEF Dressed
  <2>2. Consists(func, sign, bound)
    BY ONLY <2>1, WornParameters
  <2> QED
    BY ONLY <1>1, <2>2 DEF Consists
<1>3. /\ \A i \in 1..m : BoundParam(i, bound[i]).name \in Range(DepArg)
      /\ \A i \in 1..Len(func) : func[i].name \notin Range(DepArg) /\ func[i].name # "extra"
      /\ \A p : IsAdded(p, func) => p.name = "extra" /\ p.name \notin Range(DepArg) /\ p.dep # NoDep
  <2>1. \A i \in 1..m : BoundParam(i, bound[i]).name \in Range(DepArg)
    <3>1. \A i \in 1..m : i \in 1..3
      BY <1>2
    <3> QED
      BY <3>1, DepArgFacts DEF BoundParam
  <2>2. DOMAIN func = 1..Len(func)
    OBVIOUS
  <2>3. \A i \in 1..Len(func) : func[i].name \notin Range(DepArg) /\ func[i].name # "extra"
    BY <2>2 DEF Ordinary
  <2>4. "extra" \notin Range(DepArg)
    BY DepArgFacts
  <2> QED
    BY <2>1, <2>3, <2>4 DEF IsAdded
<1>4. ASSUME NEW i \in (k + 1)..Len(func), func[i].kind \notin Variable
      PROVE  func[i] \in Range(sign) /\ func[i].name \in DOMAIN Rest(kwargs)
  <2>1. i \in (m + 1)..Len(func) /\ i \in 1..Len(func)
    BY <1>1
  <2>2. func[i] \in Range(sign) /\ func[i].name \notin Range(DepArg)
    BY <1>2, <1>3, <2>1
  <2>3. func[i].name \notin given
    <3> SUFFICES ASSUME NEW j \in 1..n, func[i].name = func[j].name
                 PROVE  FALSE
      OBVIOUS
    <3>1. j \in 1..Len(func) /\ i # j
      <4>1. Len(func) \in Nat
        OBVIOUS
      <4> QED
        BY <1>1, <4>1
    <3>2. func[i].name = func[j].name
      OBVIOUS
    <3> QED
      BY <2>1, <3>1, <3>2, NamesApart
  <2>4. func[i].name \in DOMAIN kwargs
    BY <1>4, <2>2, <2>3
  <2> QED
    BY <2>2, <2>4 DEF Rest
<1>5. ASSUME NEW p \in Range(sign), IsAdded(p, func)
      PROVE  p.name \in DOMAIN Rest(kwargs)
  <2>1. p.name \in DOMAIN kwargs
    BY <1>2, <1>3, <1>5
  <2> QED
    BY <1>3, <1>5, <2>1 DEF Rest
<1>6. ASSUME NEW x \in DOMAIN Rest(kwargs)
      PROVE  \/ \E i \in (k + 1)..Len(func) : x = func[i].name /\ func[i].kind \notin Variable
             \/ \E p \in Range(sign) : IsAdded(p, func) /\ x = p.name
  <2>1. x \in DOMAIN kwargs /\ x \notin Range(DepArg)
    BY DEF Rest
  <2>2. PICK p \in Range(sign) : p.name = x /\ p.kind \notin Variable /\ (p.dep = NoDep => x \notin given)
    BY <2>1
  <2>3. CASE \E i \in 1..m : p = BoundParam(i, bound[i])
    BY <1>3, <2>1, <2>2, <2>3
  <2>4. CASE \E i \in (m + 1)..Len(func) : p = func[i]
    <3>1. PICK i \in (m + 1)..Len(func) : p = func[i]
      BY <2>4
    <3>2. ~(i \in 1..n)
      <4> SUFFICES ASSUME i \in 1..n
                   PROVE  FALSE
        OBVIOUS
      <4>1. p.dep = NoDep /\ x \in given
        BY <2>2, <3>1
      <4> QED
        BY <2>2, <4>1
    <3>3. i \in (k + 1)..Len(func)
      BY <1>1, <3>1, <3>2
    <3> QED
      BY <2>2, <3>1, <3>3
  <2>5. CASE IsAdded(p, func)
    BY <2>2, <2>5
  <2> QED
    BY <1>2, <2>3, <2>4, <2>5
<1>7. ASSUME NEW x
      PROVE  x \in DOMAIN Rest(kwargs) <=>
                  \/ \E i \in (k + 1)..Len(func) : x = func[i].name /\ func[i].kind \notin Variable
                  \/ \E p \in Range(sign) : IsAdded(p, func) /\ x = p.name
  BY <1>4, <1>5, <1>6
<1>8. ASSUME NEW p \in Range(sign), p.name \in DOMAIN Rest(kwargs)
      PROVE  Rest(kwargs)[p.name] = Own(p)
  BY <1>8 DEF Rest
<1>9. \A i \in (k + 1)..Len(func) : func[i].kind \notin Variable => Rest(kwargs)[func[i].name] = Own(func[i])
  BY <1>4, <1>8
<1>10. \A p \in Range(sign) : IsAdded(p, func) => Rest(kwargs)[p.name] = Own(p)
  BY <1>5, <1>8
<1> QED
  BY <1>7, <1>9, <1>10 DEF RestPassed

\* What the parameters should get.
LEMMA ExpectedFacts ==
    ASSUME NEW func \in Seq(Parameter), Valid(func), Ordinary(func), NEW sign \in Seq(Parameter), Valid(sign),
           NEW bound \in Seq(Calls), Wears(func, sign, bound), Len(bound) <= Len(Slots(func))
    PROVE  /\ \A x : x \in DOMAIN Expected(func, sign, bound) <=>
                  \/ \E i \in 1..Len(func) : x = func[i].name /\ func[i].kind \notin Variable
                  \/ \E p \in Range(sign) : IsAdded(p, func) /\ x = p.name
           /\ \A i \in 1..Len(bound) : Expected(func, sign, bound)[func[i].name] = bound[i]
           /\ \A i \in (Len(bound) + 1)..Len(func) :
                 func[i].kind \notin Variable => Expected(func, sign, bound)[func[i].name] = Own(func[i])
           /\ \A p \in Range(sign) : IsAdded(p, func) => Expected(func, sign, bound)[p.name] = Own(p)
           /\ \E f : Expected(func, sign, bound) = [x \in DOMAIN Expected(func, sign, bound) |-> f[x]]
<1>1. PICK taken, m : /\ taken = {p \in Range(func) \cup {q \in Range(sign) : q.name = "extra"} : p.kind \notin Variable}
                      /\ m = Len(bound)
  OBVIOUS
<1>2. PICK due : due = Expected(func, sign, bound)
  OBVIOUS
<1>3. due = [n \in {p.name : p \in taken} |->
                IF {i \in DOMAIN bound : func[i].name = n} # {}
                THEN bound[CHOOSE i \in {j \in DOMAIN bound : func[j].name = n} : TRUE]
                ELSE Own(CHOOSE p \in taken : p.name = n)]
  BY <1>1, <1>2 DEF Expected
<1>4. /\ \A p \in Range(sign) : p.name = "extra" <=> IsAdded(p, func)
      /\ m \in Nat /\ m <= Len(Slots(func)) /\ DOMAIN bound = 1..m
  <2>1. Dressed(func, sign, bound)
    BY DEF Dressed
  <2>2. Consists(func, sign, bound)
    BY ONLY <2>1, WornParameters
  <2> QED
    BY <1>1, <2>2 DEF Consists
<1>5. /\ DOMAIN func = 1..Len(func) /\ Len(func) \in Nat /\ Range(func) = {func[i] : i \in 1..Len(func)}
      /\ \A i \in 1..Len(func) : func[i].name # "extra"
  BY DEF Ordinary, Range
<1>6. \A i \in 1..m : i \in 1..Len(func) /\ func[i].kind \notin Variable
  <2>1. PICK slots : slots = Slots(func)
    OBVIOUS
  <2>2. slots \in Seq(Parameter) /\ Len(slots) <= Len(func) /\ \A i \in 1..Len(slots) : func[i].kind \in Positional
    BY <2>1, SlotFacts
  <2>3. Positional \cap Variable = {}
    <3>1. \A i \in {1, 2}, j \in {3, 5} : Kinds[i] # Kinds[j]
      BY KindFacts
    <3> QED
      BY <3>1 DEF Positional, Variable
  <2>4. \A i \in 1..m : i \in 1..Len(slots) /\ i \in 1..Len(func)
    BY <1>4, <1>5, <2>1, <2>2
  <2> QED
    BY <2>2, <2>3, <2>4
<1>7. \A p : IsAdded(p, func) => p.name = "extra" /\ p.kind \notin Variable
  <2>1. Kinds[4] # Kinds[3] /\ Kinds[4] # Kinds[5]
    BY KindFacts
  <2> QED
    BY <2>1 DEF IsAdded, Variable
<1>8. \A p : p \in taken <=> \/ p \in Range(func) /\ p.kind \notin Variable
                             \/ p \in Range(sign) /\ IsAdded(p, func)
  BY <1>1, <1>4, <1>7
<1>9. \A p, q \in taken : p.name = q.name => p = q
  <2>1. \A p, q \in Range(func) : p.name = q.name => p = q
    BY NamesApart
  <2>2. \A p, q \in Range(sign) : p.name = q.name => p = q
    BY NamesApart
  <2>3. \A p \in Range(func) : p.name # "extra"
    BY <1>5
  <2> QED
    BY <1>7, <1>8, <2>1, <2>2, <2>3
<1>10. DOMAIN due = {p.name : p \in taken}
  BY <1>3
<1>11. ASSUME NEW i \in 1..m
       PROVE  due[func[i].name] = bound[i]
  <2>1. func[i] \in taken
    BY <1>5, <1>6, <1>8
  <2>2. func[i].name \in DOMAIN due
    BY <1>10, <2>1
  <2>3. \A j \in DOMAIN bound : func[j].name = func[i].name <=> j = i
    <3> SUFFICES ASSUME NEW j \in 1..m
                 PROVE  func[j].name = func[i].name <=> j = i
      BY <1>4
    <3>1. j \in 1..Len(func) /\ i \in 1..Len(func)
      BY <1>6
    <3> QED
      BY <3>1, NamesApart
  <2>4. {j \in DOMAIN bound : func[j].name = func[i].name} = {i}
    BY <1>4, <2>3
  <2>5. (CHOOSE j \in {l \in DOMAIN bound : func[l].name = func[i].name} : TRUE) = i
    BY <2>4
  <2> QED
    BY <1>3, <1>10, <2>2, <2>4, <2>5
<1>12. ASSUME NEW p \in taken, \A i \in 1..m : func[i].name # p.name
       PROVE  due[p.name] = Own(p)
  <2>1. p.name \in DOMAIN due
    BY <1>10
  <2>2. {i \in DOMAIN bound : func[i].name = p.name} = {}
    BY <1>4, <1>12
  <2>3. (CHOOSE q \in taken : q.name = p.name) = p
    <3>1. \A q \in taken : q.name = p.name <=> q = p
      BY <1>9
    <3> QED
      BY <3>1
  <2> QED
    BY <1>3, <1>10, <2>1, <2>2, <2>3
<1>13. ASSUME NEW i \in (m + 1)..Len(func), func[i].kind \notin Variable
       PROVE  due[func[i].name] = Own(func[i])
  <2>1. i \in 1..Len(func)
    BY <1>4
  <2>2. func[i] \in taken
    BY <1>5, <1>8, <1>13, <2>1
  <2>3. \A j \in 1..m : j \in 1..Len(func) /\ j # i
    BY <1>4, <1>6
  <2>4. \A j \in 1..m : func[j].name # func[i].name
    BY <2>1, <2>3, NamesApart
  <2> QED
    BY <1>12, <2>2, <2>4
<1>14. ASSUME NEW p \in Range(sign), IsAdded(p, func)
       PROVE  due[p.name] = Own(p)
  BY <1>5, <1>6, <1>7, <1>8, <1>12, <1>14
<1>15. ASSUME NEW x
       PROVE  x \in DOMAIN due <=>
                  \/ \E i \in 1..Len(func) : x = func[i].name /\ func[i].kind \notin Variable
                  \/ \E p \in Range(sign) : IsAdded(p, func) /\ x = p.name
  <2>1. x \in DOMAIN due <=> \E p \in taken : x = p.name
    BY <1>10
  <2> QED
    BY <1>5, <1>8, <2>1
<1>16. due = [x \in DOMAIN due |-> due[x]]
  BY <1>3
<1> QED
  BY <1>1, <1>2, <1>11, <1>13, <1>14, <1>15, <1>16

\* Every argument arrives at its own parameter.
LEMMA CallArrives ==
    ASSUME NEW func \in Seq(Parameter), Valid(func), Ordinary(func), NEW sign \in Seq(Parameter), Valid(sign),
           NEW bound \in Seq(Calls), Wears(func, sign, bound), Len(bound) <= Len(Slots(func)),
           NEW n \in Nat, n <= IF bound = <<>> THEN Len(Slots(Strip(sign))) ELSE 0
    PROVE  CallPublic(func, sign, n) = Expected(func, sign, bound)
<1>1. PICK m \in Nat, k \in Nat : m = Len(bound) /\ k = n + m /\ (m # 0 => n = 0)
  <2>1. Len(bound) \in Nat /\ (Len(bound) # 0 => bound # <<>>)
    BY EmptySeq
  <2>2. Len(bound) # 0 => n = 0
    BY <2>1
  <2> QED
    BY <2>1, <2>2
<1>2. PICK public, args, left, solved, kwargs :
          /\ public = Strip(sign)
          /\ args = [i \in 1..n |-> public[i].name]
          /\ left = Names(OfKind(public, Range(Kinds) \ Variable)) \ Range(args)
          /\ solved = [x \in Names(Prepare(sign)) |-> (CHOOSE p \in Range(sign) : p.name = x).dep]
          /\ kwargs = [x \in left \cup Names(Prepare(sign)) |-> IF x \in left THEN x ELSE solved[x]]
  OBVIOUS
<1>3. CallPublic(func, sign, n) = CallBound(func, args, kwargs)
  <2>1. CallPublic(func, sign, n) = CallInjected(func, sign, args, [x \in left |-> x])
    BY <1>2 DEF CallPublic
  <2>2. PICK own : own = [x \in left |-> x]
    OBVIOUS
  <2>3. DOMAIN own = left /\ \A x \in left : own[x] = x
    BY <2>2
  <2>4. DOMAIN solved = Names(Prepare(sign))
    BY <1>2
  <2>5. CallInjected(func, sign, args, own) =
          CallBound(func, args, [x \in DOMAIN own \cup DOMAIN solved |-> IF x \in DOMAIN own THEN own[x] ELSE solved[x]])
    BY <1>2 DEF CallInjected
  <2>6. [x \in DOMAIN own \cup DOMAIN solved |-> IF x \in DOMAIN own THEN own[x] ELSE solved[x]] = kwargs
    <3>1. PICK both : both = [x \in DOMAIN own \cup DOMAIN solved |-> IF x \in DOMAIN own THEN own[x] ELSE solved[x]]
      OBVIOUS
    <3>2. both = [x \in left \cup Names(Prepare(sign)) |-> IF x \in left THEN own[x] ELSE solved[x]]
      BY ONLY <2>3, <2>4, <3>1
    <3>3. \A x \in left \cup Names(Prepare(sign)) :
            (IF x \in left THEN own[x] ELSE solved[x]) = (IF x \in left THEN x ELSE solved[x])
      BY ONLY <2>3
    <3>4. kwargs = [x \in left \cup Names(Prepare(sign)) |-> IF x \in left THEN x ELSE solved[x]]
      BY <1>2
    <3>5. both = kwargs
      BY ONLY <3>2, <3>3, <3>4
    <3> QED
      BY ONLY <3>1, <3>5
  <2> QED
    BY <2>1, <2>2, <2>5, <2>6
<1>4. /\ \A i \in 1..m : BoundParam(i, bound[i]) \in Range(sign)
      /\ \A p \in Range(sign) : \/ \E i \in 1..m : p = BoundParam(i, bound[i])
                                \/ \E i \in (m + 1)..Len(func) : p = func[i]
                                \/ IsAdded(p, func)
      /\ \A p \in Range(sign) : p.dep # NoDep => p.kind \notin Variable
      /\ m <= 3
  <2>1. Dressed(func, sign, bound)
    BY DEF Dressed
  <2>2. Consists(func, sign, bound)
    BY ONLY <2>1, WornParameters
  <2> QED
    BY ONLY <1>1, <2>2 DEF Consists
<1>5. n <= Len(Slots(func)) /\ \A i \in 1..n : public[i].name = func[i].name /\ func[i].dep = NoDep
  <2>1. CASE n = 0
    <3>1. PICK slots : slots = Slots(func)
      OBVIOUS
    <3>2. Len(slots) \in Nat
      BY <3>1, SlotFacts
    <3> QED
      BY <2>1, <3>1, <3>2
  <2>2. CASE n # 0
    <3>1. bound = <<>> /\ n <= Len(Slots(public))
      BY <1>2, <2>2
    <3>2. Wears(func, sign, <<>>)
      BY <3>1
    <3>3. /\ n <= Len(Slots(func)) /\ n <= Len(public)
          /\ \A i \in 1..n : public[i] = func[i] /\ func[i].dep = NoDep
      BY <1>2, <3>1, <3>2, PublicFirst
    <3> QED
      BY <3>3
  <2> QED
    BY <2>1, <2>2
<1>6. /\ args \in Seq(Name) /\ Len(args) = n /\ \A i \in 1..n : args[i] = func[i].name
      /\ \A x : x \in Range(args) <=> \E i \in 1..n : x = func[i].name
  <2>1. Len(Slots(func)) <= Len(func)
    BY SlotFacts
  <2>2. \A i \in 1..n : i \in 1..Len(func)
    <3>1. PICK slots : slots = Slots(func)
      OBVIOUS
    <3>2. Len(slots) \in Nat /\ Len(func) \in Nat
      BY <3>1, SlotFacts
    <3> QED
      BY <1>5, <2>1, <3>1, <3>2
  <2>3. \A i \in 1..n : args[i] = func[i].name /\ func[i].name \in Name
    <3>1. \A i \in 1..n : func[i] \in Parameter
      BY <2>2
    <3> QED
      BY <1>2, <1>5, <3>1 DEF Parameter
  <2>4. args = [i \in 1..n |-> args[i]]
    BY <1>2
  <2>5. args \in [1..n -> Name]
    BY <2>3, <2>4
  <2>6. args \in Seq(Name) /\ Len(args) = n /\ DOMAIN args = 1..n
    BY <2>5, SeqDef, LenProperties
  <2> QED
    BY <2>3, <2>6 DEF Range
<1>7. /\ \A x : x \in DOMAIN kwargs <=>
             \E p \in Range(sign) : p.name = x /\ p.kind \notin Variable /\ (p.dep = NoDep => x \notin Range(args))
      /\ \A p \in Range(sign) : p.name \in DOMAIN kwargs => kwargs[p.name] = Own(p)
  <2>1. PICK given : given = Range(args)
    OBVIOUS
  <2>2. left = Names(OfKind(Strip(sign), Range(Kinds) \ Variable)) \ given
    BY ONLY <1>2, <2>1
  <2>3. Passes(sign, given, left, solved, kwargs)
    BY <1>2, <1>4, <2>2 DEF Passes
  <2>4. AllPassed(sign, given, kwargs)
    BY ONLY <2>3, Passed
  <2> QED
    BY ONLY <2>1, <2>4 DEF AllPassed
<1>8. ~Gap(kwargs) /\ TakeDepArgs(kwargs) = bound
  <2>1. Kinds[2] \notin Variable
    <3>1. Kinds[2] # Kinds[3] /\ Kinds[2] # Kinds[5]
      BY KindFacts
    <3> QED
      BY <3>1 DEF Variable
  <2>2. ASSUME NEW i \in 1..m
        PROVE  DepArg[i] \in DOMAIN kwargs /\ kwargs[DepArg[i]] = bound[i]
    <3>1. PICK p \in Range(sign) : p = BoundParam(i, bound[i])
      BY <1>4
    <3>2. p.name = DepArg[i] /\ p.kind = Kinds[2] /\ p.dep = bound[i] /\ bound[i] # NoDep
      <4>1. bound[i] \in Calls
        BY <1>1
      <4> QED
        BY <3>1, <4>1, RuntimeCallsAssumption DEF BoundParam
    <3>3. DepArg[i] \in DOMAIN kwargs
      BY <1>7, <2>1, <3>2
    <3> QED
      BY <1>7, <3>2, <3>3 DEF Own
  <2>3. ASSUME NEW i \in 1..3, DepArg[i] \in DOMAIN kwargs
        PROVE  i <= m
    <3>1. PICK p \in Range(sign) : p.name = DepArg[i]
      BY <1>7, <2>3
    <3>2. CASE \E j \in 1..m : p = BoundParam(j, bound[j])
      <4>1. PICK j \in 1..m : p = BoundParam(j, bound[j])
        BY <3>2
      <4>2. j \in 1..3 /\ DepArg[j] = DepArg[i]
        BY <1>4, <3>1, <4>1 DEF BoundParam
      <4>3. i = j
        BY <4>2, DepArgFacts
      <4> QED
        BY <4>3
    <3>3. CASE \E j \in (m + 1)..Len(func) : p = func[j]
      <4>1. PICK j \in DOMAIN func : p = func[j]
        BY <3>3
      <4> QED
        BY <3>1, <4>1, DepArgFacts DEF Ordinary
    <3>4. CASE IsAdded(p, func)
      BY <3>1, <3>4, DepArgFacts DEF IsAdded
    <3> QED
      BY <1>4, <3>2, <3>3, <3>4
  <2>4. \A i \in 1..3 : DepArg[i] \in DOMAIN kwargs <=> i <= m
    <3>1. \A i \in 1..3 : i <= m => i \in 1..m
      OBVIOUS
    <3> QED
      BY <2>2, <2>3, <3>1
  <2> QED
    BY <1>1, <1>4, <2>2, <2>4, BoundTaken
<1>9. PICK all, rest : all = args \o bound /\ rest = Rest(kwargs)
  OBVIOUS
<1>10. CallPublic(func, sign, n) = PyCall(func, all, rest)
  BY <1>3, <1>8, <1>9 DEF CallBound, Rest
<1>11. Len(all) = k /\ \A i \in 1..k : all[i] = IF m = 0 THEN func[i].name ELSE bound[i]
  <2>1. PICK values : values = Name \cup Calls
    OBVIOUS
  <2>2. args \in Seq(values) /\ bound \in Seq(values)
    BY <1>6, <2>1
  <2>3. /\ Len(all) = Len(args) + Len(bound)
        /\ \A i \in 1..Len(args) : all[i] = args[i]
        /\ \A i \in 1..Len(bound) : all[Len(args) + i] = bound[i]
    <3>1. all = args \o bound
      BY <1>9
    <3> QED
      BY ONLY <2>2, <3>1, ConcatAt
  <2>4. Len(all) = k
    BY <1>1, <1>6, <2>3
  <2>5. CASE m = 0
    BY <1>1, <1>6, <2>3, <2>4, <2>5
  <2>6. CASE m # 0
    <3>1. Len(args) = 0 /\ k = m /\ \A i \in 1..m : 0 + i = i
      BY <1>1, <1>6, <2>6
    <3>2. \A i \in 1..m : all[i] = bound[i]
      BY <1>1, <2>3, <3>1
    <3> QED
      BY <2>4, <2>6, <3>1, <3>2
  <2> QED
    BY <2>5, <2>6
<1>12. /\ func \in Seq(Parameter) /\ Valid(func) /\ Ordinary(func) /\ sign \in Seq(Parameter) /\ Valid(sign)
       /\ bound \in Seq(Calls) /\ Wears(func, sign, bound) /\ Len(bound) <= Len(Slots(func)) /\ n \in Nat
  OBVIOUS
<1>13. /\ \A x : x \in DOMAIN rest <=>
              \/ \E i \in (k + 1)..Len(func) : x = func[i].name /\ func[i].kind \notin Variable
              \/ \E p \in Range(sign) : IsAdded(p, func) /\ x = p.name
       /\ \A i \in (k + 1)..Len(func) : func[i].kind \notin Variable => rest[func[i].name] = Own(func[i])
       /\ \A p \in Range(sign) : IsAdded(p, func) => rest[p.name] = Own(p)
  <2>1. n = 0 \/ Len(bound) = 0
    BY <1>1
  <2>2. \A i \in 1..n : func[i].dep = NoDep
    BY <1>5
  <2>3. k = n + Len(bound)
    BY <1>1
  <2>4. PICK given : given = Range(args)
    OBVIOUS
  <2>5. \A x : x \in given <=> \E i \in 1..n : x = func[i].name
    BY ONLY <1>6, <2>4
  <2>6. GivenFirst(func, bound, n, given)
    BY ONLY <1>12, <1>5, <2>1, <2>2, <2>5 DEF GivenFirst
  <2>7. AllPassed(sign, given, kwargs)
    BY ONLY <1>7, <2>4 DEF AllPassed
  <2>8. Dressed(func, sign, bound)
    BY ONLY <1>12 DEF Dressed
  <2>9. RestPassed(func, sign, k, Rest(kwargs))
    BY ONLY <2>3, <2>6, <2>7, <2>8, RestFacts
  <2>10. rest = Rest(kwargs)
    BY <1>9
  <2> QED
    BY ONLY <2>9, <2>10 DEF RestPassed
<1>14. /\ k <= Len(Slots(func)) /\ Len(Slots(func)) <= Len(func)
       /\ \A i \in 1..k : i \in 1..Len(func) /\ func[i].kind \in Positional /\ func[i].kind \notin Variable
       /\ Len(func) \in Nat
  <2>1. PICK slots : slots = Slots(func)
    OBVIOUS
  <2>2. /\ Len(slots) \in Nat /\ Len(slots) <= Len(func) /\ Len(func) \in Nat
        /\ \A i \in 1..Len(slots) : func[i].kind \in Positional
    BY <2>1, SlotFacts
  <2>3. k <= Len(slots)
    BY <1>1, <1>5, <2>1
  <2>4. \A i \in 1..k : i \in 1..Len(func) /\ i \in 1..Len(slots)
    BY <2>2, <2>3
  <2>5. Positional \cap Variable = {}
    <3>1. \A i \in {1, 2}, j \in {3, 5} : Kinds[i] # Kinds[j]
      BY KindFacts
    <3> QED
      BY <3>1 DEF Positional, Variable
  <2> QED
    BY <2>1, <2>2, <2>3, <2>4, <2>5
<1>15. \A i \in 1..Len(func) : /\ func[i].name # "extra" /\ func[i].kind # Kinds[1]
                               /\ func[i].kind \in Range(Kinds) /\ func[i] \in Range(func)
  <2>1. \A i \in 1..Len(func) : i \in DOMAIN func /\ func[i] \in Parameter
    OBVIOUS
  <2> QED
    BY <2>1 DEF Ordinary, Parameter, Range
<1>16. \A i \in 1..k : func[i].name \notin DOMAIN rest
  <2> SUFFICES ASSUME NEW i \in 1..k, func[i].name \in DOMAIN rest
               PROVE  FALSE
    OBVIOUS
  <2>1. i \in 1..Len(func) /\ func[i].name # "extra"
    BY <1>14, <1>15
  <2>2. PICK j \in (k + 1)..Len(func) : func[i].name = func[j].name
    BY <1>13, <2>1 DEF IsAdded
  <2>3. j \in 1..Len(func) /\ i # j
    BY <1>14
  <2> QED
    BY <2>1, <2>2, <2>3, NamesApart
<1>17. DOMAIN rest \subseteq Names(OfKind(func, Keyword)) \/ OfKind(func, {Kinds[5]}) # <<>>
  <2> SUFFICES ASSUME OfKind(func, {Kinds[5]}) = <<>>, NEW x \in DOMAIN rest
               PROVE  x \in Names(OfKind(func, Keyword))
    OBVIOUS
  <2>1. PICK i \in (k + 1)..Len(func) : x = func[i].name /\ func[i].kind \notin Variable
    BY <1>13 DEF IsAdded
  <2>2. i \in 1..Len(func)
    BY <1>14
  <2>3. func[i].kind \in Keyword
    <3>1. PICK l \in 1..5 : func[i].kind = Kinds[l]
      BY <1>15, <2>2, KindFacts
    <3>2. l # 1 /\ l # 3 /\ l # 5
      BY <1>15, <2>1, <2>2, <3>1 DEF Variable
    <3>3. l = 2 \/ l = 4
      BY <3>2
    <3> QED
      BY <3>1, <3>3 DEF Keyword
  <2>4. Range(OfKind(func, Keyword)) = Range(func) \cap {p \in Range(func) : p.kind \in Keyword}
    BY AmongFacts DEF OfKind
  <2> QED
    BY <1>15, <2>1, <2>2, <2>3, <2>4 DEF Names
<1>18. \A i \in 1..Len(func) : i <= k \/ func[i].kind \in Variable \/ func[i].name \in DOMAIN rest
  <2>1. \A i \in 1..Len(func) : i <= k \/ i \in (k + 1)..Len(func)
    BY <1>14
  <2> QED
    BY <1>13, <2>1
<1>19. PICK called : called = PyCall(func, all, rest)
  OBVIOUS
<1>20. /\ DOMAIN called = {func[i].name : i \in 1..k} \cup DOMAIN rest
       /\ \A i \in 1..k : called[func[i].name] = all[i]
       /\ \A x \in DOMAIN rest : called[x] = rest[x]
       /\ \E f : called = [x \in {func[i].name : i \in 1..k} \cup DOMAIN rest |-> f[x]]
  <2>1. k \in Nat /\ Len(all) = k /\ k <= Len(Slots(func)) /\ func \in Seq(Parameter) /\ Valid(func)
    BY <1>11, <1>14
  <2>2. Fits(func, all, k, rest)
    BY ONLY <2>1, <1>16, <1>17, <1>18 DEF Fits
  <2>3. Fitted(called, func, all, k, rest)
    BY ONLY <1>19, <2>2, CallFits
  <2> QED
    BY ONLY <2>3 DEF Fitted
<1>21. PICK due : due = Expected(func, sign, bound)
  OBVIOUS
<1>22. /\ \A x : x \in DOMAIN due <=>
              \/ \E i \in 1..Len(func) : x = func[i].name /\ func[i].kind \notin Variable
              \/ \E p \in Range(sign) : IsAdded(p, func) /\ x = p.name
       /\ \A i \in 1..m : due[func[i].name] = bound[i]
       /\ \A i \in (m + 1)..Len(func) : func[i].kind \notin Variable => due[func[i].name] = Own(func[i])
       /\ \A p \in Range(sign) : IsAdded(p, func) => due[p.name] = Own(p)
       /\ \E f : due = [x \in DOMAIN due |-> f[x]]
  BY <1>1, <1>21, ExpectedFacts
<1>23. DOMAIN called = DOMAIN due
  <2>1. \A i \in (k + 1)..Len(func) : i \in 1..Len(func)
    <3>1. k + 1 >= 1
      OBVIOUS
    <3> QED
      BY <1>14, <3>1
  <2>2. \A i \in 1..Len(func) : i \in 1..k \/ i \in (k + 1)..Len(func)
    BY <1>14
  <2>3. ASSUME NEW x
        PROVE  x \in DOMAIN called <=> x \in DOMAIN due
    <3>1. x \in DOMAIN called <=> x \in DOMAIN rest \/ \E i \in 1..k : x = func[i].name
      BY <1>20
    <3>2. x \in DOMAIN called => x \in DOMAIN due
      BY <1>13, <1>14, <1>22, <2>1, <3>1
    <3>3. x \in DOMAIN due => x \in DOMAIN called
      BY <1>13, <1>22, <2>2, <3>1
    <3> QED
      BY <3>2, <3>3
  <2> QED
    BY <2>3
<1>24. ASSUME NEW x \in DOMAIN called
       PROVE  called[x] = due[x]
  <2>1. CASE \E i \in 1..k : x = func[i].name
    <3>1. PICK i \in 1..k : x = func[i].name
      BY <2>1
    <3>2. CASE m = 0
      <4>1. called[x] = func[i].name
        BY <1>11, <1>20, <3>1, <3>2
      <4>2. i \in 1..n /\ i \in (m + 1)..Len(func) /\ func[i].kind \notin Variable
        BY <1>1, <1>14, <3>2
      <4>3. due[x] = Own(func[i]) /\ func[i].dep = NoDep
        BY <1>5, <1>22, <3>1, <4>2
      <4> QED
        BY <4>1, <4>3 DEF Own
    <3>3. CASE m # 0
      <4>1. i \in 1..m
        BY <1>1, <3>3
      <4> QED
        BY <1>11, <1>20, <1>22, <3>1, <3>3, <4>1
    <3> QED
      BY <3>2, <3>3
  <2>2. CASE x \in DOMAIN rest
    <3>1. called[x] = rest[x]
      BY <1>20, <2>2
    <3>2. \A i \in (k + 1)..Len(func) : i \in (m + 1)..Len(func)
      BY <1>1, <1>14
    <3>3. CASE \E i \in (k + 1)..Len(func) : x = func[i].name /\ func[i].kind \notin Variable
      <4>1. PICK i \in (k + 1)..Len(func) : x = func[i].name /\ func[i].kind \notin Variable
        BY <3>3
      <4>2. rest[func[i].name] = Own(func[i])
        BY ONLY <1>13, <4>1
      <4>3. due[func[i].name] = Own(func[i])
        BY ONLY <1>22, <3>2, <4>1
      <4> QED
        BY ONLY <3>1, <4>1, <4>2, <4>3
    <3>4. CASE \E p \in Range(sign) : IsAdded(p, func) /\ x = p.name
      <4>1. PICK p \in Range(sign) : IsAdded(p, func) /\ x = p.name
        BY <3>4
      <4>2. rest[p.name] = Own(p) /\ due[p.name] = Own(p)
        BY ONLY <1>13, <1>22, <4>1
      <4> QED
        BY ONLY <3>1, <4>1, <4>2
    <3> QED
      BY <1>13, <2>2, <3>3, <3>4
  <2> QED
    BY <1>20, <2>1, <2>2
<1>25. called = due
  BY <1>20, <1>22, <1>23, <1>24
<1> QED
  BY <1>10, <1>19, <1>21, <1>25

\* Before and after it is bound, a function may be extended as often as one likes: called
\* by keywords, every argument arrives at its own parameter.  Nothing is claimed of a
\* bound function that is bound again or called by position, see WellBound.
THEOREM ArgumentsArrive == OrdinarySigns => (Spec => []ArgumentsInPlace)
<1> SUFFICES ASSUME OrdinarySigns
             PROVE  Spec => []ArgumentsInPlace
  OBVIOUS
<1>1. RInv /\ Worn => ArgumentsInPlace
  <2> SUFFICES ASSUME RInv, Worn, NEW o \in WellBound,
                      NEW n \in 0..(IF Bound(o) = <<>> THEN Len(Slots(Strip(Sign(o)))) ELSE 0)
               PROVE  CallPublic(Signs[Func(o)], Sign(o), n) = Expected(Signs[Func(o)], Sign(o), Bound(o))
    BY DEF ArgumentsInPlace
  <2>1. o \in Existing /\ ~Again(o) /\ Len(Bound(o)) <= Len(Slots(Signs[Func(o)]))
    BY RuntimeCallsAssumption DEF WellBound, Existing, Exists, RInv, Typed
  <2>2. PICK func, sign, bound : func = Signs[Func(o)] /\ sign = Sign(o) /\ bound = Bound(o)
    OBVIOUS
  <2>3. /\ func \in Seq(Parameter) /\ Valid(func) /\ Ordinary(func)
        /\ sign \in Seq(Parameter) /\ Valid(sign) /\ bound \in Seq(Calls) /\ Wears(func, sign, bound)
    <3>1. Func(o) \in Given /\ Sign(o) \in Seq(Parameter) /\ Valid(Sign(o)) /\ Bound(o) \in Seq(Calls)
      BY <2>1, SignFacts DEF RInv
    <3> QED
      BY <2>1, <2>2, <3>1, GivenSigns, ExistingWears DEF OrdinarySigns
  <2>4. n \in Nat /\ n <= IF bound = <<>> THEN Len(Slots(Strip(sign))) ELSE 0
    <3>1. PICK public : public = Strip(sign)
      OBVIOUS
    <3>2. public \in Seq(Parameter) /\ Valid(public)
      BY <2>3, <3>1, StripFacts
    <3>3. Slots(public) \in Seq(Parameter)
      BY <3>2, SlotFacts
    <3>4. Len(Slots(public)) \in Nat
      BY <3>3
    <3> QED
      BY <2>2, <3>1, <3>4
  <2> QED
    BY <2>1, <2>2, <2>3, <2>4, CallArrives
<1> QED
  BY <1>1, RuntimeInvariant, AlwaysWorn, PTL
=============================================================================
