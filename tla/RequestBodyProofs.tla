------------------------- MODULE RequestBodyProofs -------------------------
(***************************************************************************)
(* One request has one body and one form, for every number of tasks and of *)
(* messages, provided that contexts do not read at the same time (Overlap  *)
(* = FALSE) and that a synthetic request has one exit stack to close its   *)
(* form on (OneStack).  RequestBodyOverlap.cfg shows that the first        *)
(* condition is needed.  The types need neither.                           *)
(***************************************************************************)
EXTENDS RequestBody, FiniteSetTheorems, SequenceTheorems, TLAPS

-----------------------------------------------------------------------------
\* Types

\* The calls of a form's close on finitely many stacks are finitely many.
LEMMA CloseCallsFinite ==
    ASSUME TypeOK, NEW f, NEW which \in SUBSET Stacks, IsFiniteSet(which)
    PROVE  IsFiniteSet(CloseCalls(f, which))
<1> DEFINE calls(s) == {s} \X {i \in DOMAIN stacks[s] : stacks[s][i] = f}
<1>1. \A s \in which : IsFiniteSet(calls(s))
  <2> SUFFICES ASSUME NEW s \in which
               PROVE  IsFiniteSet(calls(s))
    OBVIOUS
  <2>1. stacks[s] \in Seq(1..Len(forms))
    BY DEF TypeOK
  <2>2. DOMAIN stacks[s] = 1..Len(stacks[s]) /\ Len(stacks[s]) \in Nat
    BY <2>1, LenProperties
  <2>3. IsFiniteSet(DOMAIN stacks[s])
    BY <2>2, FS_Interval
  <2>4. IsFiniteSet({i \in DOMAIN stacks[s] : stacks[s][i] = f})
    BY <2>3, FS_Subset
  <2>5. IsFiniteSet({s})
    BY FS_Singleton
  <2> QED
    BY <2>4, <2>5, FS_Product
<1>2. IsFiniteSet({calls(s) : s \in which})
  <2> DEFINE g == [s \in which |-> calls(s)]
  <2>1. g \in Surjection(which, {calls(s) : s \in which})
    BY DEF Surjection
  <2> QED
    BY <2>1, FS_Surjection
<1>3. IsFiniteSet(UNION {calls(s) : s \in which})
  BY <1>1, <1>2, FS_UNION
<1> QED
  BY <1>3 DEF CloseCalls

\* Whatever the exit stacks hold, unwinding finitely many of them leaves forms and stacks
\* well typed, and as many forms as there were.
LEMMA UnwindTypes ==
    ASSUME TypeOK, NEW which \in SUBSET Stacks, IsFiniteSet(which), Unwind(which)
    PROVE  /\ forms' \in Seq([parts : SUBSET Whole, closes : Nat])
           /\ Len(forms') = Len(forms)
           /\ stacks' \in [Stacks -> Seq(1..Len(forms))]
<1> DEFINE Form == [parts : SUBSET Whole, closes : Nat]
<1>1. forms \in Seq(Form) /\ Len(forms) \in Nat /\ DOMAIN forms = 1..Len(forms)
  BY LenProperties DEF TypeOK
<1>2. \A f \in DOMAIN forms : Cardinality(CloseCalls(f, which)) \in Nat
  BY CloseCallsFinite, FS_CardinalityType
<1>3. \A f \in DOMAIN forms : forms[f] \in Form
  BY <1>1, ElementOfSeq
<1>4. forms' \in [1..Len(forms) -> Form]
  <2>1. ASSUME NEW f \in DOMAIN forms, NEW n \in Nat
        PROVE  [forms[f] EXCEPT !.closes = @ + n] \in Form
    BY <1>3
  <2> QED
    BY <1>1, <1>2, <2>1 DEF Unwind
<1>5. forms' \in Seq(Form) /\ Len(forms') = Len(forms)
  <2>1. forms' \in Seq(Form)
    BY <1>1, <1>4, SeqDef
  <2> QED
    BY <1>1, <1>4, <2>1, LenProperties
<1>6. stacks' \in [Stacks -> Seq(1..Len(forms))]
  BY EmptySeq DEF Unwind, TypeOK
<1> QED
  BY <1>5, <1>6

\* A form more only widens the types that speak of the forms there are.
LEMMA MoreForms ==
    ASSUME TypeOK, NEW parts \in SUBSET Whole
    PROVE  LET more == Append(forms, [parts |-> parts, closes |-> 0])
           IN  /\ more \in Seq([parts : SUBSET Whole, closes : Nat])
               /\ Len(more) = Len(forms) + 1
               /\ \A s \in Stacks : stacks[s] \in Seq(1..(Len(forms) + 1))
<1>1. /\ forms \in Seq([parts : SUBSET Whole, closes : Nat])
      /\ [parts |-> parts, closes |-> 0] \in [parts : SUBSET Whole, closes : Nat]
      /\ Len(forms) \in Nat
  BY LenProperties DEF TypeOK
<1>2. \A s \in Stacks : stacks[s] \in Seq(1..(Len(forms) + 1))
  <2> SUFFICES ASSUME NEW s \in Stacks
               PROVE  stacks[s] \in Seq(1..(Len(forms) + 1))
    OBVIOUS
  <2>1. stacks[s] \in Seq(1..Len(forms)) /\ 1..Len(forms) \subseteq 1..(Len(forms) + 1)
    BY <1>1 DEF TypeOK
  <2> QED
    BY <2>1, SeqMonotonic
<1> QED
  BY <1>1, <1>2, AppendProperties

\* Every reading ends with well typed results, wherever the form comes from.
LEMMA HandFormTypes ==
    ASSUME TypeOK, NEW t \in Tasks, NEW parts \in SUBSET Whole, NEW parsed \in BOOLEAN,
           NEW n \in Nat, Len(forms) <= n, NEW f \in 1..n,
           HandForm(t, f, parts, parsed), Len(forms') = n
    PROVE  /\ form' \in 0..n
           /\ stacks' \in [Stacks -> Seq(1..n)]
           /\ task' \in [Tasks -> TaskStates]
           /\ \A u \in Tasks : task'[u].holds \in 0..n
<1>1. Len(forms) \in Nat /\ 1..Len(forms) \subseteq 1..n
  BY LenProperties DEF TypeOK
<1>2. \A s \in Stacks : stacks[s] \in Seq(1..n)
  BY <1>1, SeqMonotonic DEF TypeOK
<1>3. \A s \in Stacks : Append(stacks[s], f) \in Seq(1..n)
  BY <1>2, AppendProperties
<1>4. stacks' \in [Stacks -> Seq(1..n)]
  BY <1>2, <1>3 DEF HandForm, TypeOK
<1>5. /\ task' \in [Tasks -> TaskStates]
      /\ \A u \in Tasks : task'[u].holds \in 0..n
  <2> DEFINE r == [task[t] EXCEPT !.phase = "app", !.isForm = TRUE, !.value = parts,
                                  !.holds = f, !.got = {}, !.failed = FALSE]
  <2>1. task[t] \in TaskStates /\ f \in Nat
    BY DEF TypeOK
  <2>2. r \in TaskStates /\ r.holds = f
    BY <2>1 DEF TaskStates
  <2>3. task' = [task EXCEPT ![t] = r]
    BY DEF HandForm
  <2> HIDE DEF r
  <2> QED
    BY <1>1, <2>2, <2>3 DEF TypeOK
<1> QED
  BY <1>4, <1>5 DEF HandForm

\* Every step keeps the types, with and without the conditions of the other theorems.
THEOREM TypeCorrect == Spec => []TypeOK
<1>1. Init => TypeOK
  <2> SUFFICES ASSUME Init
               PROVE  TypeOK
    OBVIOUS
  <2> DEFINE Form == [parts : SUBSET Whole, closes : Nat]
  <2>1. forms \in Seq(Form) /\ form = Len(forms)
    <3>1. [parts |-> Whole, closes |-> 0] \in Form
      OBVIOUS
    <3> HIDE DEF Form
    <3>2. <<>> \in Seq(Form) /\ <<[parts |-> Whole, closes |-> 0]>> \in Seq(Form)
      BY <3>1, EmptySeq
    <3> QED
      BY <3>2 DEF Init
  <2>2. form \in 0..Len(forms)
    BY <2>1, LenProperties
  <2>3. stacks \in [Stacks -> Seq(1..Len(forms))]
    <3>1. CASE shape = "form"
      <4>1. Len(forms) = 1 /\ stacks = [s \in Stacks |-> IF s = App THEN <<1>> ELSE <<>>]
        BY <3>1 DEF Init
      <4> QED
        BY <4>1
    <3>2. CASE shape # "form"
      BY <3>2, EmptySeq DEF Init
    <3> QED
      BY <3>1, <3>2
  <2>4. task \in [Tasks -> TaskStates] /\ \A t \in Tasks : task[t].holds \in 0..Len(forms)
    <3>1. Idle \in TaskStates /\ Idle.holds = 0
      BY DEF Idle, TaskStates
    <3>2. Len(forms) \in Nat
      BY <2>1, LenProperties
    <3> QED
      BY <3>1, <3>2 DEF Init
  <2> QED
    <3>1. kind \in Requests /\ shape \in {"none", "body", "form"}
      BY DEF Init
    <3>2. received \in 0..Messages /\ body \subseteq Whole /\ lost \subseteq Whole
      BY RequestBodyAssumption DEF Init, Whole
    <3>3. consumed \in BOOLEAN /\ over \in BOOLEAN
      BY DEF Init
    <3> QED
      BY <2>1, <2>2, <2>3, <2>4, <3>1, <3>2, <3>3 DEF TypeOK
<1>2. TypeOK /\ [Next]_vars => TypeOK'
  <2> SUFFICES ASSUME TypeOK, [Next]_vars
               PROVE  TypeOK'
    OBVIOUS
  <2>0. Len(forms) \in Nat /\ DOMAIN forms = 1..Len(forms)
    BY LenProperties DEF TypeOK
  <2>1. ASSUME NEW t \in Tasks, NEW again \in BOOLEAN, OpenCtx(t, again)
        PROVE  TypeOK'
    <3> DEFINE r == [task[t] EXCEPT !.own = TRUE, !.again = again]
    <3>1. r \in TaskStates /\ r.holds \in 0..Len(forms)
      BY <2>0, ZenonT(30) DEF TypeOK, TaskStates
    <3>2. task' = [task EXCEPT ![t] = r]
      BY <2>1 DEF OpenCtx
    <3> HIDE DEF r
    <3>3. /\ task' \in [Tasks -> TaskStates]
          /\ \A u \in Tasks : task'[u].holds \in 0..Len(forms)
      BY <2>0, <3>1, <3>2 DEF TypeOK
    <3> QED
      BY <2>1, <3>3 DEF OpenCtx, TypeOK, stream, Whole, Stacks
  <2>2. ASSUME NEW t \in Tasks, LeaveCtx(t)
        PROVE  TypeOK'
    <3>1. {t} \in SUBSET Stacks /\ IsFiniteSet({t})
      BY FS_Singleton DEF Stacks
    <3>2. /\ forms' \in Seq([parts : SUBSET Whole, closes : Nat])
          /\ Len(forms') = Len(forms)
          /\ stacks' \in [Stacks -> Seq(1..Len(forms))]
      BY <2>2, <3>1, UnwindTypes DEF LeaveCtx
    <3> DEFINE r == [task[t] EXCEPT !.own = FALSE, !.again = FALSE]
    <3>3. r \in TaskStates /\ r.holds \in 0..Len(forms)
      BY DEF TypeOK, TaskStates
    <3>4. task' = [task EXCEPT ![t] = r]
      BY <2>2 DEF LeaveCtx
    <3> HIDE DEF r
    <3>5. /\ task' \in [Tasks -> TaskStates]
          /\ \A u \in Tasks : task'[u].holds \in 0..Len(forms)
      BY <2>0, <3>3, <3>4 DEF TypeOK
    <3> QED
      BY <2>2, <3>2, <3>5 DEF LeaveCtx, TypeOK, stream, Whole, Stacks
  <2>3. ASSUME NEW t \in Tasks, Finish(t)
        PROVE  TypeOK'
    <3> DEFINE r == [Idle EXCEPT !.phase = "done"]
    <3>1. r \in TaskStates /\ r.holds \in 0..Len(forms)
      <4>1. r \in TaskStates /\ r.holds = 0
        BY DEF TaskStates, Idle
      <4> QED
        BY <2>0, <4>1
    <3>2. task' = [task EXCEPT ![t] = r]
      BY <2>3 DEF Finish
    <3> HIDE DEF r
    <3>3. /\ task' \in [Tasks -> TaskStates]
          /\ \A u \in Tasks : task'[u].holds \in 0..Len(forms)
      BY <2>0, <3>1, <3>2 DEF TypeOK
    <3> QED
      BY <2>3, <3>3 DEF Finish, TypeOK, stream, Whole, Stacks
  <2>4. CASE EndRequest
    <3>1. {Outer, App} \in SUBSET Stacks
      BY DEF Stacks
    <3>2. IsFiniteSet({Outer, App})
      <4>1. IsFiniteSet({Outer}) /\ {Outer, App} = {Outer} \cup {App}
        BY FS_Singleton
      <4> QED
        BY <4>1, FS_AddElement
    <3>3. /\ forms' \in Seq([parts : SUBSET Whole, closes : Nat])
          /\ Len(forms') = Len(forms)
          /\ stacks' \in [Stacks -> Seq(1..Len(forms))]
      BY <2>4, <3>1, <3>2, UnwindTypes DEF EndRequest
    <3> QED
      BY <2>4, <3>3 DEF EndRequest, TypeOK, TaskStates, stream, Whole, Stacks
  <2>5. ASSUME NEW t \in Tasks, TakeForm(t)
        PROVE  TypeOK'
    <3>1. form \in 1..Len(forms) /\ forms' = forms /\ UNCHANGED <<kind, shape, stream, over>>
      BY <2>0, <2>5 DEF TakeForm, TypeOK
    <3>2. forms[form].parts \in SUBSET Whole
      <4>1. forms[form] \in [parts : SUBSET Whole, closes : Nat]
        BY <3>1, ElementOfSeq DEF TypeOK
      <4> QED
        BY <4>1
    <3>3. HandForm(t, form, forms[form].parts, TRUE)
      BY <2>5 DEF TakeForm
    <3>4. /\ form' \in 0..Len(forms)
          /\ stacks' \in [Stacks -> Seq(1..Len(forms))]
          /\ task' \in [Tasks -> TaskStates]
          /\ \A u \in Tasks : task'[u].holds \in 0..Len(forms)
      <4> DEFINE n == Len(forms)
                 parts == forms[form].parts
      <4>1. n \in Nat /\ Len(forms) <= n /\ form \in 1..n /\ Len(forms') = n
        BY <2>0, <3>1
      <4>2. parts \in SUBSET Whole /\ HandForm(t, form, parts, TRUE)
        BY <3>2, <3>3
      <4> HIDE DEF n, parts
      <4>3. /\ form' \in 0..n
            /\ stacks' \in [Stacks -> Seq(1..n)]
            /\ task' \in [Tasks -> TaskStates]
            /\ \A u \in Tasks : task'[u].holds \in 0..n
        BY <4>1, <4>2, HandFormTypes
      <4> QED
        BY <4>3 DEF n
    <3> QED
      BY <3>1, <3>4 DEF TypeOK, stream, Whole, Stacks
  <2>6. ASSUME NEW t \in Tasks, NEW isForm \in BOOLEAN, NEW parsed \in BOOLEAN,
               NEW parts \in SUBSET Whole, Hand(t, isForm, parsed, parts),
               UNCHANGED <<kind, shape, lost, over>>, received' \in 0..Messages,
               consumed' \in BOOLEAN
        PROVE  TypeOK'
    <3>1. CASE isForm
      <4> DEFINE n == Len(forms) + 1
      <4>1. /\ forms' \in Seq([parts : SUBSET Whole, closes : Nat])
            /\ Len(forms') = n
        BY <2>6, <3>1, MoreForms DEF Hand
      <4>2. n \in Nat /\ Len(forms) <= n /\ n \in 1..n
        BY <2>0
      <4>3. HandForm(t, n, parts, parsed) /\ body' = body
        BY <2>6, <3>1 DEF Hand
      <4> HIDE DEF n
      <4>4. /\ form' \in 0..n
            /\ stacks' \in [Stacks -> Seq(1..n)]
            /\ task' \in [Tasks -> TaskStates]
            /\ \A u \in Tasks : task'[u].holds \in 0..n
        BY <4>1, <4>2, <4>3, HandFormTypes
      <4> QED
        BY <2>6, <4>1, <4>3, <4>4 DEF TypeOK, Whole, Stacks
    <3>2. CASE ~isForm
      <4> DEFINE r == [task[t] EXCEPT !.phase = "app", !.isForm = FALSE, !.value = parts,
                                      !.got = {}, !.failed = FALSE]
      <4>1. r \in TaskStates /\ r.holds \in 0..Len(forms)
        BY ZenonT(30) DEF TypeOK, TaskStates
      <4>2. task' = [task EXCEPT ![t] = r]
        BY <2>6, <3>2 DEF Hand
      <4> HIDE DEF r
      <4>3. /\ task' \in [Tasks -> TaskStates]
            /\ \A u \in Tasks : task'[u].holds \in 0..Len(forms)
        BY <2>0, <4>1, <4>2 DEF TypeOK
      <4> QED
        BY <2>6, <3>2, <4>3 DEF Hand, Keep, TypeOK, Whole, Stacks
    <3> QED
      BY <3>1, <3>2
  <2>7. ASSUME NEW t \in Tasks, TakeBody(t)
        PROVE  TypeOK'
    BY <2>6, <2>7 DEF TakeBody, TypeOK
  <2>8. ASSUME NEW t \in Tasks, ReadSynthetic(t)
        PROVE  TypeOK'
    BY <2>6, <2>8 DEF ReadSynthetic, TypeOK
  <2>9. ASSUME NEW t \in Tasks, ParseAtOnce(t)
        PROVE  TypeOK'
    <3> DEFINE r == [task[t] EXCEPT !.phase = "parsing", !.isForm = TRUE, !.parsed = FALSE,
                                    !.got = IF body # {} THEN body ELSE Whole]
    <3>1. r \in TaskStates /\ r.holds \in 0..Len(forms)
      BY <2>0, ZenonT(30) DEF TypeOK, TaskStates
    <3>2. task' = [task EXCEPT ![t] = r]
      BY <2>9 DEF ParseAtOnce
    <3> HIDE DEF r
    <3>3. /\ task' \in [Tasks -> TaskStates]
          /\ \A u \in Tasks : task'[u].holds \in 0..Len(forms)
      BY <2>0, <3>1, <3>2 DEF TypeOK
    <3> QED
      BY <2>9, <3>3 DEF ParseAtOnce, TypeOK, Whole, Stacks
  <2>10. ASSUME NEW t \in Tasks, NEW isForm \in BOOLEAN, StartReading(t, isForm)
         PROVE  TypeOK'
    <3> DEFINE r == [task[t] EXCEPT !.phase = "waiting", !.isForm = isForm, !.parsed = (form # 0)]
    <3>1. r \in TaskStates /\ r.holds \in 0..Len(forms)
      BY <2>0, ZenonT(30) DEF TypeOK, TaskStates
    <3>2. task' = [task EXCEPT ![t] = r]
      BY <2>10 DEF StartReading
    <3> HIDE DEF r
    <3>3. /\ task' \in [Tasks -> TaskStates]
          /\ \A u \in Tasks : task'[u].holds \in 0..Len(forms)
      BY <2>0, <3>1, <3>2 DEF TypeOK
    <3> QED
      BY <2>10, <3>3 DEF StartReading, TypeOK, stream, Whole, Stacks
  <2>11. ASSUME NEW t \in Tasks, NEW isForm \in BOOLEAN, StreamConsumed(t, isForm)
         PROVE  TypeOK'
    <3> DEFINE r == [task[t] EXCEPT !.failed = TRUE, !.isForm = isForm]
    <3>1. r \in TaskStates /\ r.holds \in 0..Len(forms)
      BY <2>0, ZenonT(30) DEF TypeOK, TaskStates
    <3>2. task' = [task EXCEPT ![t] = r]
      BY <2>11 DEF StreamConsumed
    <3> HIDE DEF r
    <3>3. /\ task' \in [Tasks -> TaskStates]
          /\ \A u \in Tasks : task'[u].holds \in 0..Len(forms)
      BY <2>0, <3>1, <3>2 DEF TypeOK
    <3> QED
      BY <2>11, <3>3 DEF StreamConsumed, TypeOK, stream, Whole, Stacks
  <2>12. ASSUME NEW t \in Tasks, Receive(t)
         PROVE  TypeOK'
    <3> DEFINE got == task[t].got \cup {received + 1}
    <3>1. got \in SUBSET Whole /\ received' \in 0..Messages /\ consumed' \in BOOLEAN
      BY <2>12, RequestBodyAssumption DEF Receive, TypeOK, TaskStates, Whole
    <3>2. CASE consumed' /\ ~task[t].isForm
      <4>1. Hand(t, FALSE, TRUE, got) /\ UNCHANGED <<kind, shape, lost, over>>
        BY <2>12, <3>2 DEF Receive
      <4> QED
        BY <2>6, <3>1, <4>1
    <3>3. CASE ~(consumed' /\ ~task[t].isForm)
      <4> DEFINE r == [task[t] EXCEPT !.got = got,
                                      !.phase = IF consumed' THEN "parsing" ELSE "waiting"]
      <4>1. r \in TaskStates /\ r.holds \in 0..Len(forms)
        BY <3>1 DEF TypeOK, TaskStates
      <4>2. task' = [task EXCEPT ![t] = r]
        BY <2>12, <3>3 DEF Receive
      <4> HIDE DEF r
      <4>3. /\ task' \in [Tasks -> TaskStates]
            /\ \A u \in Tasks : task'[u].holds \in 0..Len(forms)
        BY <2>0, <4>1, <4>2 DEF TypeOK
      <4> QED
        BY <2>12, <3>1, <3>3, <4>3 DEF Receive, TypeOK, Whole, Stacks
    <3> QED
      BY <3>2, <3>3
  <2>13. ASSUME NEW t \in Tasks, Parsed(t)
         PROVE  TypeOK'
    <3>1. task[t].parsed \in BOOLEAN /\ task[t].got \in SUBSET Whole
      BY DEF TypeOK, TaskStates
    <3> QED
      BY <2>6, <2>13, <3>1 DEF Parsed, TypeOK
  <2>14. ASSUME NEW t \in Tasks, Interrupted(t)
         PROVE  TypeOK'
    <3> DEFINE r == [task[t] EXCEPT !.phase = "app", !.got = {}]
    <3>1. r \in TaskStates /\ r.holds \in 0..Len(forms)
      BY <2>0 DEF TypeOK, TaskStates
    <3>2. task' = [task EXCEPT ![t] = r]
      BY <2>14 DEF Interrupted
    <3> HIDE DEF r
    <3>3. /\ task' \in [Tasks -> TaskStates]
          /\ \A u \in Tasks : task'[u].holds \in 0..Len(forms)
      BY <2>0, <3>1, <3>2 DEF TypeOK
    <3>4. task[t].got \in SUBSET Whole
      BY DEF TypeOK, TaskStates
    <3> QED
      BY <2>14, <3>3, <3>4 DEF Interrupted, TypeOK, Whole, Stacks
  <2>15. CASE UNCHANGED vars
    BY <2>15 DEF vars, stream, TypeOK, TaskStates, Whole, Stacks
  <2> QED
    BY <2>1, <2>2, <2>3, <2>4, <2>5, <2>7, <2>8, <2>9, <2>10, <2>11, <2>12, <2>13, <2>14, <2>15
       DEF Next
<1> QED
  BY <1>1, <1>2, PTL DEF Spec

-----------------------------------------------------------------------------
\* The inductive invariant

\* All contexts of a synthetic request are made from the rebound one, so that there is one
\* exit stack for its form; a request of the server has FastAPI's.
OneStack == Again => "synthetic" \notin Requests

\* Where the form's close is registered.
Home == IF kind = "server" THEN App ELSE Outer

\* One task reads at a time, it found no form, and it waits only while the stream has not
\* ended.
Readers ==
    /\ \A t, u \in Tasks : Reading(t) /\ Reading(u) => t = u
    /\ \A t \in Tasks : Reading(t) => form = 0 /\ ~task[t].parsed
    /\ \A t \in Tasks : Waiting(t) => ~consumed /\ kind = "server"
    /\ \A t \in Tasks : Parsing(t) => consumed
    /\ \A t \in Tasks : task[t].again => Again

\* There is at most one form, and its close stands at one place until it has run.
OneForm ==
    /\ form = Len(forms) /\ form <= 1
    /\ form # 0 => consumed
    /\ \A f \in DOMAIN forms : forms[f].closes = IF over THEN 1 ELSE 0
    /\ stacks = [s \in Stacks |-> IF s = Home /\ form # 0 /\ ~over THEN <<1>> ELSE <<>>]
    /\ \A t \in Tasks : task[t].phase = "done" => task[t].holds = 0
    /\ over => \A t \in Tasks : task[t].phase = "done"

\* Every message that was received is at one place: with the one reader or lost, until it
\* is in the body or in the form.  A stream that ended has left something behind.
Pieces ==
    /\ kind = "synthetic" => received = 0
    /\ \A t \in Tasks : InApp(t) => task[t].got = {}
    /\ ~consumed /\ (\A t \in Tasks : ~Waiting(t)) => lost = 1..received
    /\ \A t \in Tasks : Waiting(t) => /\ lost \subseteq 1..received
                                     /\ task[t].got = (1..received) \ lost
    /\ \A t \in Tasks : Parsing(t) => task[t].got = Whole \ lost
    /\ body # {} => consumed /\ body = Whole \ lost
    /\ \A f \in DOMAIN forms : forms[f].parts = Whole \ lost
    /\ consumed => body # {} \/ form # 0 \/ lost # {} \/ \E t \in Tasks : Parsing(t)
    /\ \A t \in Tasks : task[t].value # {} => body # {} \/ form # 0
    /\ OnePiece
    /\ ConsumedOnlyByForm

IInv == TypeOK /\ Readers /\ OneForm /\ Pieces

-----------------------------------------------------------------------------
\* What the invariant says before a step

\* A task that asks for the body finds nobody reading it.
LEMMA NobodyReads ==
    ASSUME ~Overlap, NEW t \in Tasks, NEW isForm \in BOOLEAN, Asks(t, isForm)
    PROVE  \A u \in Tasks : ~Reading(u)
BY DEF Asks, MayRead, Alone

\* Whatever context a form is parsed in, its close goes on the same stack.
LEMMA SameStack ==
    ASSUME TypeOK, Readers, OneStack, NEW t \in Tasks
    PROVE  FormStack(CtxOf(t)) = Home /\ Home \in Stacks
<1>1. task[t].again => kind = "server"
  BY RequestBodyAssumption DEF OneStack, Readers, TypeOK
<1>2. Home \in Stacks
  BY DEF Home, Stacks
<1>3. CASE task[t].own
  BY <1>1, <1>2, <1>3 DEF FormStack, CtxOf, Home
<1>4. CASE ~task[t].own
  BY <1>2, <1>4, RequestBodyAssumption DEF FormStack, CtxOf, Home
<1> QED
  BY <1>2, <1>3, <1>4

\* The calls of a form's close: one, at home, while the request runs.
LEMMA OneCall ==
    ASSUME OneForm, TypeOK, NEW f \in DOMAIN forms, NEW which \in SUBSET Stacks
    PROVE  /\ f = 1 /\ form = 1 /\ DOMAIN forms = {1}
           /\ CloseCalls(f, which) = IF Home \in which /\ ~over THEN {<<Home, 1>>} ELSE {}
<1>1. Len(forms) \in Nat /\ DOMAIN forms = 1..Len(forms)
  BY LenProperties DEF TypeOK
<1>2. f = 1 /\ form = 1 /\ DOMAIN forms = {1}
  BY <1>1 DEF OneForm
<1>3. \A s \in which : {s} \X {i \in DOMAIN stacks[s] : stacks[s][i] = f}
                       = IF s = Home /\ ~over THEN {<<Home, 1>>} ELSE {}
  <2> SUFFICES ASSUME NEW s \in which
               PROVE  {s} \X {i \in DOMAIN stacks[s] : stacks[s][i] = f}
                      = IF s = Home /\ ~over THEN {<<Home, 1>>} ELSE {}
    OBVIOUS
  <2>1. CASE s = Home /\ ~over
    <3>1. stacks[s] = <<1>>
      BY <1>2, <2>1 DEF OneForm
    <3>2. {i \in DOMAIN stacks[s] : stacks[s][i] = f} = {1}
      BY <1>2, <3>1
    <3> QED
      BY <2>1, <3>2
  <2>2. CASE ~(s = Home /\ ~over)
    <3>1. stacks[s] = <<>>
      BY <2>2 DEF OneForm
    <3>2. {i \in DOMAIN stacks[s] : stacks[s][i] = f} = {}
      BY <3>1
    <3> QED
      BY <2>2, <3>2
  <2> QED
    BY <2>1, <2>2
<1> QED
  BY <1>2, <1>3 DEF CloseCalls

-----------------------------------------------------------------------------
\* The steps

\* What a step of t that does not read leaves alone.
Apart(t, phase) ==
    /\ \A u \in Tasks : u # t => task'[u] = task[u]
    /\ task'[t].phase = phase /\ task'[t].got = {}
    /\ UNCHANGED <<received, consumed, body, lost, kind>>

\* A step that neither reads nor makes a form keeps the order of the readers.
LEMMA ReadersApart ==
    ASSUME TypeOK, Readers, NEW t \in Tasks, NEW phase \in {"app", "done"},
           Apart(t, phase), form' = form, task'[t].again => Again
    PROVE  Readers'
BY DEF Readers, Apart, Reading, Waiting, Parsing

\* It keeps what is known of the messages.
LEMMA PiecesApart ==
    ASSUME TypeOK, Readers, Pieces, NEW t \in Tasks, NEW phase \in {"app", "done"},
           InApp(t), Apart(t, phase), form' = form,
           \A f \in DOMAIN forms' : f \in DOMAIN forms /\ forms'[f].parts = forms[f].parts,
           task'[t].value # {} => task'[t].value = Whole \ lost /\ (body # {} \/ form # 0),
           task'[t].failed => (~task'[t].isForm /\ form # 0) \/ lost # {}
    PROVE  Pieces'
<1>1. \A u \in Tasks : /\ Waiting(u)' <=> Waiting(u)
                       /\ Parsing(u)' <=> Parsing(u)
                       /\ Waiting(u) \/ Parsing(u) => u # t
  BY DEF Apart, InApp, Waiting, Parsing
<1>2. \A u \in Tasks : InApp(u)' => task'[u].got = {}
  BY DEF Apart, Pieces, InApp
<1>3. \A u \in Tasks : u # t => task'[u] = task[u]
  BY DEF Apart
<1>4. UNCHANGED <<received, consumed, body, lost, form>>
  BY DEF Apart
<1>5. OnePiece'
  BY <1>3, <1>4 DEF Pieces, OnePiece, Whole
<1>6. ConsumedOnlyByForm'
  BY <1>3, <1>4 DEF Pieces, ConsumedOnlyByForm
<1>7. (\A u \in Tasks : ~Waiting(u)') => \A u \in Tasks : ~Waiting(u)
  BY <1>1
<1>8. \A u \in Tasks : Waiting(u)' => /\ lost' \subseteq 1..received'
                                     /\ task'[u].got = (1..received') \ lost'
  BY <1>1, <1>3, <1>4 DEF Pieces
<1>9. \A u \in Tasks : Parsing(u)' => task'[u].got = Whole \ lost'
  BY <1>1, <1>3, <1>4 DEF Pieces
<1>10. \A f \in DOMAIN forms' : forms'[f].parts = Whole \ lost'
  BY <1>4 DEF Pieces
<1>11. consumed' => body' # {} \/ form' # 0 \/ lost' # {} \/ \E u \in Tasks : Parsing(u)'
  BY <1>1, <1>4 DEF Pieces
<1>12. \A u \in Tasks : task'[u].value # {} => body' # {} \/ form' # 0
  BY <1>3, <1>4 DEF Pieces
<1>13. kind' = "synthetic" => received' = 0
  BY DEF Apart, Pieces
<1>14. ~consumed' /\ (\A u \in Tasks : ~Waiting(u)') => lost' = 1..received'
  BY <1>4, <1>7 DEF Pieces
<1> QED
  BY <1>2, <1>5, <1>6, <1>8, <1>9, <1>10, <1>11, <1>4, <1>12, <1>13, <1>14 DEF Pieces, Whole

\* A step that leaves the form and the stacks alone keeps the form closed once.
LEMMA OneFormKept ==
    ASSUME OneForm, NEW t \in Tasks, UNCHANGED <<kind, form, forms, stacks, over>>,
           consumed => consumed', task[t].phase # "done",
           \A u \in Tasks : u # t => task'[u] = task[u],
           task'[t].phase = "done" => task'[t].holds = 0
    PROVE  OneForm'
BY DEF OneForm, Home, Stacks

\* The context of a task has no close on its stack: to leave it closes nothing.
LEMMA LeavingClosesNothing ==
    ASSUME TypeOK, OneForm, NEW t \in Tasks, Unwind({t})
    PROVE  UNCHANGED <<forms, stacks>>
<1> DEFINE Form == [parts : SUBSET Whole, closes : Nat]
<1>1. Home # t /\ {t} \in SUBSET Stacks
  BY RequestBodyAssumption DEF Home, Stacks
<1>2. \A f \in DOMAIN forms : Cardinality(CloseCalls(f, {t})) = 0
  BY <1>1, OneCall, FS_EmptySet
<1>3. forms \in Seq(Form)
  BY DEF TypeOK
<1>4. forms = [f \in 1..Len(forms) |-> forms[f]] /\ DOMAIN forms = 1..Len(forms)
  BY <1>3, LenProperties
<1>5. \A f \in 1..Len(forms) : forms[f] \in Form
  BY <1>3, ElementOfSeq
<1>6. \A f \in 1..Len(forms) : [forms[f] EXCEPT !.closes = @ + 0] = forms[f]
  BY <1>5
<1>7. forms' = [f \in DOMAIN forms |-> [forms[f] EXCEPT !.closes = @ + 0]]
  BY <1>2 DEF Unwind
<1>8. forms' = forms
  BY <1>4, <1>6, <1>7
<1>9. stacks' = stacks
  BY <1>1 DEF Unwind, OneForm
<1> QED
  BY <1>8, <1>9

\* A new form is the first, and its close goes home.
LEMMA OneFormMade ==
    ASSUME TypeOK, Readers, OneForm, OneStack, NEW t \in Tasks, NEW parts \in SUBSET Whole,
           Hand(t, TRUE, FALSE, parts), form = 0, task[t].phase # "done", consumed',
           UNCHANGED <<kind, over>>
    PROVE  OneForm' /\ form' = 1 /\ DOMAIN forms' = {1} /\ forms'[1].parts = parts
<1>1. forms = <<>> /\ Len(forms) = 0
  BY EmptySeq DEF OneForm, TypeOK
<1>2. forms' = <<[parts |-> parts, closes |-> 0]>> /\ form' = 1
  BY <1>1 DEF Hand, HandForm
<1>3. FormStack(CtxOf(t)) = Home /\ Home \in Stacks
  BY SameStack
<1>4. stacks' = [stacks EXCEPT ![Home] = Append(@, 1)]
  BY <1>1, <1>3 DEF Hand, HandForm, Registers
<1>5. stacks = [s \in Stacks |-> <<>>]
  BY DEF OneForm
<1>6. stacks' = [s \in Stacks |-> IF s = Home THEN <<1>> ELSE <<>>]
  BY <1>3, <1>4, <1>5
<1>7. ~over
  BY DEF OneForm
<1>8. task \in [Tasks -> TaskStates] /\ task' = [task EXCEPT ![t] =
         [@ EXCEPT !.phase = "app", !.isForm = TRUE, !.value = parts,
                   !.holds = 1, !.got = {}, !.failed = FALSE]]
  BY <1>1 DEF Hand, HandForm, TypeOK
<1>9. \A u \in Tasks : task'[u].phase = "done" => task'[u].holds = 0
  BY <1>8 DEF OneForm, TaskStates
<1>10. DOMAIN forms' = {1} /\ forms'[1] = [parts |-> parts, closes |-> 0] /\ Len(forms') = 1
  BY <1>2
<1>11. Home' = Home
  BY DEF Home
<1> QED
  BY <1>2, <1>6, <1>7, <1>9, <1>10, <1>11 DEF OneForm, Stacks

\* A read that ends with all that is left of the messages keeps the invariant.
LEMMA ReadHanded ==
    ASSUME TypeOK, Readers, OneForm, Pieces, OneStack,
           NEW t \in Tasks, NEW isForm \in BOOLEAN, NEW parsed \in BOOLEAN,
           NEW parts \in SUBSET Whole, parts = Whole \ lost, isForm \/ parts # {},
           Hand(t, isForm, parsed, parts), isForm => ~parsed /\ form = 0,
           \A u \in Tasks : Reading(u) => u = t, task[t].phase # "done", consumed',
           kind = "synthetic" => received' = received, UNCHANGED <<kind, lost, over>>
    PROVE  Readers' /\ OneForm' /\ Pieces'
<1>1. /\ \A u \in Tasks : u # t => task'[u] = task[u]
      /\ InApp(t)' /\ task'[t].got = {} /\ task'[t].value = parts /\ ~task'[t].failed
      /\ task'[t].again = task[t].again
  <2>1. task \in [Tasks -> TaskStates]
    BY DEF TypeOK
  <2>2. CASE isForm
    <3> DEFINE f == Len(forms) + 1
    <3>1. task' = [task EXCEPT ![t] =
             [@ EXCEPT !.phase = "app", !.isForm = TRUE, !.value = parts,
                       !.holds = f, !.got = {}, !.failed = FALSE]]
      BY <2>2 DEF Hand, HandForm
    <3> HIDE DEF f
    <3> QED
      BY <2>1, <3>1 DEF InApp, TaskStates
  <2>3. CASE ~isForm
    <3>1. task' = [task EXCEPT ![t] =
             [@ EXCEPT !.phase = "app", !.isForm = FALSE, !.value = parts,
                       !.got = {}, !.failed = FALSE]]
      BY <2>3 DEF Hand
    <3> QED
      BY <2>1, <3>1 DEF InApp, TaskStates
  <2> QED
    BY <2>2, <2>3
<1>2. \A u \in Tasks : ~Waiting(u)' /\ ~Parsing(u)'
  BY <1>1 DEF Reading, Waiting, Parsing, InApp
<1>3. /\ OneForm'
      /\ \A f \in DOMAIN forms' : forms'[f].parts = Whole \ lost
      /\ body' # {} \/ form' # 0
  <2>1. CASE isForm
    <3>1. Hand(t, TRUE, FALSE, parts)
      BY <2>1
    <3>2. OneForm' /\ form' = 1 /\ DOMAIN forms' = {1} /\ forms'[1].parts = parts
      BY <2>1, <3>1, OneFormMade
    <3> QED
      BY <3>2
  <2>2. CASE ~isForm
    <3>1. UNCHANGED <<form, forms, stacks>> /\ body' = parts
      BY <2>2 DEF Hand, Keep
    <3>2. task'[t].phase # "done"
      BY <1>1 DEF InApp
    <3>3. OneForm'
      BY <1>1, <3>1, <3>2, OneFormKept
    <3> QED
      BY <2>2, <3>1, <3>3 DEF Pieces
  <2> QED
    BY <2>1, <2>2
<1>4. Readers'
  BY <1>1, <1>2 DEF Readers, Reading
<1>5. body' # {} => body' = Whole \ lost
  BY DEF Hand, Keep, Pieces
<1>6. OnePiece'
  BY <1>1 DEF Pieces, OnePiece, Whole
<1>7. form # 0 => form' # 0
  BY DEF Hand
<1>8. ConsumedOnlyByForm'
  BY <1>1, <1>7 DEF Pieces, ConsumedOnlyByForm
<1>9. \A u \in Tasks : InApp(u)' => task'[u].got = {}
  BY <1>1 DEF Pieces, InApp
<1>10. kind' = "synthetic" => received' = 0
  BY DEF Pieces
<1> QED
  BY <1>2, <1>3, <1>4, <1>5, <1>6, <1>8, <1>9, <1>10 DEF Pieces, Whole

-----------------------------------------------------------------------------
\* The theorems

\* The invariant holds of what FastAPI has read when the first task starts.
LEMMA InvariantInit ==
    ASSUME Init
    PROVE  Readers /\ OneForm /\ Pieces
<1>1. \A t \in Tasks : task[t] = Idle
  BY DEF Init
<1>2. \A t \in Tasks : /\ task[t].phase = "app" /\ task[t].got = {} /\ task[t].value = {}
                       /\ ~task[t].failed /\ ~task[t].again /\ task[t].holds = 0
  BY <1>1 DEF Idle
<1>3. \A t \in Tasks : InApp(t) /\ ~Reading(t) /\ ~Waiting(t) /\ ~Parsing(t)
  BY <1>2 DEF InApp, Reading, Waiting, Parsing
<1>4. Readers
  BY <1>2, <1>3 DEF Readers
<1>5. shape = "form" => kind = "server"
  BY RequestBodyAssumption DEF Init
<1>6. /\ consumed <=> shape # "none"
      /\ over = FALSE
  BY DEF Init
<1>7. OneForm
  <2>1. CASE shape = "form"
    <3>1. forms = <<[parts |-> Whole, closes |-> 0]>> /\ form = 1
      BY <2>1 DEF Init
    <3>2. Len(forms) = 1 /\ DOMAIN forms = {1} /\ forms[1].closes = 0
      BY <3>1
    <3>3. stacks = [s \in Stacks |-> IF s = App THEN <<1>> ELSE <<>>]
      BY <2>1 DEF Init
    <3> QED
      BY <1>2, <1>5, <1>6, <2>1, <3>1, <3>2, <3>3 DEF OneForm, Home
  <2>2. CASE shape # "form"
    <3>1. forms = <<>> /\ form = 0 /\ stacks = [s \in Stacks |-> <<>>]
      BY <2>2 DEF Init
    <3> QED
      BY <1>2, <1>6, <3>1 DEF OneForm
  <2> QED
    BY <2>1, <2>2
<1>8. Pieces
  <2>1. /\ shape = "none" => received = 0
        /\ lost = {}
        /\ body = IF shape = "body" THEN Whole ELSE {}
    BY DEF Init
  <2>2. 1 \in Whole
    BY RequestBodyAssumption DEF Whole
  <2>3. shape # "none" => body # {} \/ form # 0
    <3>1. CASE shape = "form"
      BY <3>1 DEF Init
    <3>2. CASE shape = "body"
      BY <2>1, <2>2, <3>2
    <3> QED
      BY <3>1, <3>2 DEF Init
  <2>4. \A f \in DOMAIN forms : forms[f].parts = Whole
    BY DEF Init
  <2>5. OnePiece /\ ConsumedOnlyByForm
    BY <1>2 DEF OnePiece, ConsumedOnlyByForm
  <2>6. body # {} => consumed /\ body = Whole \ lost
    BY <1>6, <2>1
  <2>7. ~consumed => lost = 1..received
    BY <1>6, <2>1
  <2>8. kind = "synthetic" => received = 0
    BY <2>1 DEF Init
  <2> QED
    BY <1>2, <1>3, <1>6, <2>1, <2>3, <2>4, <2>5, <2>6, <2>7, <2>8 DEF Pieces
<1> QED
  BY <1>4, <1>7, <1>8

\* Every step of the program keeps the invariant.
LEMMA InvariantNext ==
    ASSUME ~Overlap, OneStack, IInv, TypeOK', [Next]_vars
    PROVE  Readers' /\ OneForm' /\ Pieces'
<1> USE DEF IInv
<1>0. task \in [Tasks -> TaskStates]
  BY DEF TypeOK
<1>1. ASSUME NEW t \in Tasks, NEW again \in BOOLEAN, OpenCtx(t, again)
      PROVE  Readers' /\ OneForm' /\ Pieces'
  <2>1. task' = [task EXCEPT ![t] = [@ EXCEPT !.own = TRUE, !.again = again]]
    BY <1>1 DEF OpenCtx
  <2>2. InApp(t) /\ (again => Again) /\ UNCHANGED <<kind, stream, form, forms, stacks, over>>
    BY <1>1 DEF OpenCtx
  <2>3. /\ task'[t].got = task[t].got /\ task'[t].value = task[t].value
        /\ task'[t].phase = "app" /\ task'[t].again = again
        /\ task'[t].isForm = task[t].isForm /\ task'[t].failed = task[t].failed
    BY <1>0, <2>1, <2>2 DEF InApp, TaskStates
  <2>4. Apart(t, "app")
    BY <2>1, <2>2, <2>3 DEF Apart, Pieces, stream
  <2>5. Readers'
    BY <2>2, <2>3, <2>4, ReadersApart
  <2>6. OneForm'
    BY <2>1, <2>2, <2>3, OneFormKept DEF InApp, stream
  <2>7. Pieces'
    BY <2>2, <2>3, <2>4, PiecesApart DEF Pieces, OnePiece, ConsumedOnlyByForm
  <2> QED
    BY <2>5, <2>6, <2>7
<1>2. ASSUME NEW t \in Tasks, LeaveCtx(t)
      PROVE  Readers' /\ OneForm' /\ Pieces'
  <2>1. task' = [task EXCEPT ![t] = [@ EXCEPT !.own = FALSE, !.again = FALSE]]
    BY <1>2 DEF LeaveCtx
  <2>2. InApp(t) /\ UNCHANGED <<kind, stream, form, forms, stacks, over>>
    BY <1>2, LeavingClosesNothing DEF LeaveCtx
  <2>3. /\ task'[t].got = task[t].got /\ task'[t].value = task[t].value
        /\ task'[t].phase = "app" /\ ~task'[t].again
        /\ task'[t].isForm = task[t].isForm /\ task'[t].failed = task[t].failed
    BY <1>0, <2>1, <2>2 DEF InApp, TaskStates
  <2>4. Apart(t, "app")
    BY <2>1, <2>2, <2>3 DEF Apart, Pieces, stream
  <2>5. Readers'
    BY <2>2, <2>3, <2>4, ReadersApart
  <2>6. OneForm'
    BY <2>1, <2>2, <2>3, OneFormKept DEF InApp, stream
  <2>7. Pieces'
    BY <2>2, <2>3, <2>4, PiecesApart DEF Pieces, OnePiece, ConsumedOnlyByForm
  <2> QED
    BY <2>5, <2>6, <2>7
<1>3. ASSUME NEW t \in Tasks, Finish(t)
      PROVE  Readers' /\ OneForm' /\ Pieces'
  <2>1. task' = [task EXCEPT ![t] = [Idle EXCEPT !.phase = "done"]]
    BY <1>3 DEF Finish
  <2>2. InApp(t) /\ UNCHANGED <<kind, stream, form, forms, stacks, over>>
    BY <1>3 DEF Finish
  <2>3. /\ task'[t].got = {} /\ task'[t].value = {} /\ task'[t].phase = "done"
        /\ ~task'[t].again /\ ~task'[t].failed /\ task'[t].holds = 0
    BY <1>0, <2>1 DEF Idle
  <2>4. Apart(t, "done")
    BY <2>1, <2>2, <2>3 DEF Apart, stream
  <2>5. Readers'
    BY <2>2, <2>3, <2>4, ReadersApart
  <2>6. OneForm'
    BY <2>1, <2>2, <2>3, OneFormKept DEF InApp, stream
  <2>7. Pieces'
    BY <2>2, <2>3, <2>4, PiecesApart
  <2> QED
    BY <2>5, <2>6, <2>7
<1>4. CASE EndRequest
  <2>1. UNCHANGED <<kind, stream, form, task>> /\ over' /\ ~over /\ Unwind({Outer, App})
    BY <1>4 DEF EndRequest
  <2>2. \A f \in DOMAIN forms : f = 1 /\ Cardinality(CloseCalls(f, {Outer, App})) = 1
    <3>1. {Outer, App} \in SUBSET Stacks /\ Home \in {Outer, App}
      BY DEF Stacks, Home
    <3> QED
      BY <2>1, <3>1, OneCall, FS_Singleton
  <2>3. DOMAIN forms' = DOMAIN forms /\ Len(forms') = Len(forms)
    BY <2>1 DEF Unwind, TypeOK
  <2>4. \A f \in DOMAIN forms : forms'[f].parts = forms[f].parts /\ forms'[f].closes = 1
    <3> SUFFICES ASSUME NEW f \in DOMAIN forms
                 PROVE  forms'[f].parts = forms[f].parts /\ forms'[f].closes = 1
      OBVIOUS
    <3>1. forms[f] \in [parts : SUBSET Whole, closes : Nat] /\ forms[f].closes = 0
      <4>1. f \in 1..Len(forms) /\ forms \in Seq([parts : SUBSET Whole, closes : Nat])
        BY LenProperties DEF TypeOK
      <4>2. forms[f] \in [parts : SUBSET Whole, closes : Nat]
        BY <4>1, ElementOfSeq
      <4> QED
        BY <2>1, <4>2 DEF OneForm
    <3>2. forms'[f] = [forms[f] EXCEPT !.closes = 0 + 1]
      BY <2>1, <2>2, <3>1 DEF Unwind
    <3> QED
      BY <3>1, <3>2
  <2>5. stacks' = [s \in Stacks |-> <<>>]
    <3>1. \A s \in Stacks \ {Outer, App} : stacks[s] = <<>>
      BY DEF OneForm, Home
    <3> QED
      BY <2>1, <3>1 DEF Unwind
  <2>6. Readers'
    BY <2>1 DEF Readers, Reading, Waiting, Parsing, stream
  <2>7. OneForm'
    BY <1>4, <2>1, <2>3, <2>4, <2>5 DEF OneForm, EndRequest, stream
  <2>8. Pieces'
    <3>1. OnePiece' /\ ConsumedOnlyByForm'
      BY <2>1 DEF Pieces, OnePiece, ConsumedOnlyByForm, stream, Whole
    <3> QED
      BY <2>1, <2>3, <2>4, <3>1 DEF Pieces, InApp, Waiting, Parsing, stream, Whole
  <2> QED
    BY <2>6, <2>7, <2>8
<1>5. ASSUME NEW t \in Tasks, TakeForm(t)
      PROVE  Readers' /\ OneForm' /\ Pieces'
  <2>1. task' = [task EXCEPT ![t] =
           [@ EXCEPT !.phase = "app", !.isForm = TRUE, !.value = forms[form].parts,
                     !.holds = form, !.got = {}, !.failed = FALSE]]
    BY <1>5 DEF TakeForm, HandForm
  <2>2. InApp(t) /\ UNCHANGED <<kind, stream, form, forms, stacks, over>>
    BY <1>5 DEF TakeForm, Asks, HandForm, Registers
  <2>3. /\ task'[t].got = {} /\ task'[t].value = forms[form].parts
        /\ task'[t].phase = "app" /\ task'[t].again = task[t].again
        /\ ~task'[t].failed
    BY <1>0, <2>1 DEF TaskStates
  <2>4. Apart(t, "app")
    BY <2>1, <2>2, <2>3 DEF Apart, stream
  <2>5. Readers'
    BY <2>2, <2>3, <2>4, ReadersApart DEF Readers
  <2>6. OneForm'
    BY <2>1, <2>2, <2>3, OneFormKept DEF InApp, stream
  <2>7. form \in DOMAIN forms /\ form # 0
    BY <1>5, LenProperties DEF TakeForm, OneForm, TypeOK
  <2>8. Pieces'
    BY <2>2, <2>3, <2>4, <2>7, PiecesApart DEF Pieces
  <2> QED
    BY <2>5, <2>6, <2>8
<1>6. ASSUME NEW t \in Tasks, TakeBody(t)
      PROVE  Readers' /\ OneForm' /\ Pieces'
  <2>1. \A u \in Tasks : ~Reading(u)
    BY <1>6, NobodyReads DEF TakeBody
  <2>2. Hand(t, FALSE, TRUE, body) /\ UNCHANGED <<kind, lost, over, consumed>> /\ body # {}
    BY <1>6 DEF TakeBody
  <2>3. body \in SUBSET Whole /\ body = Whole \ lost /\ consumed /\ received' = received
    BY <1>6, <2>2 DEF Pieces, TypeOK, TakeBody
  <2>4. task[t].phase # "done"
    BY <1>6 DEF TakeBody, Asks, InApp
  <2> QED
    BY <2>1, <2>2, <2>3, <2>4, ReadHanded
<1>7. ASSUME NEW t \in Tasks, ReadSynthetic(t)
      PROVE  Readers' /\ OneForm' /\ Pieces'
  <2>1. \A u \in Tasks : ~Reading(u)
    BY <1>7, NobodyReads DEF ReadSynthetic
  <2>2. Hand(t, FALSE, TRUE, Whole) /\ UNCHANGED <<kind, lost, over, received>> /\ consumed'
    BY <1>7 DEF ReadSynthetic
  <2>3. Whole # {} /\ Whole = Whole \ lost
    <3>1. Whole # {}
      BY RequestBodyAssumption DEF Whole
    <3>2. lost = 1..0
      BY <1>7, <2>1 DEF ReadSynthetic, Pieces, Reading
    <3> QED
      BY <3>1, <3>2
  <2>4. task[t].phase # "done"
    BY <1>7 DEF ReadSynthetic, Asks, InApp
  <2> QED
    BY <2>1, <2>2, <2>3, <2>4, ReadHanded
<1>8. ASSUME NEW t \in Tasks, ParseAtOnce(t)
      PROVE  Readers' /\ OneForm' /\ Pieces'
  <2> DEFINE parts == IF body # {} THEN body ELSE Whole
  <2>1. \A u \in Tasks : ~Reading(u)
    BY <1>8, NobodyReads DEF ParseAtOnce
  <2>2. task' = [task EXCEPT ![t] = [@ EXCEPT !.phase = "parsing", !.isForm = TRUE,
                                              !.parsed = FALSE, !.got = parts]]
    BY <1>8 DEF ParseAtOnce
  <2>3. /\ InApp(t) /\ form = 0 /\ consumed'
        /\ UNCHANGED <<kind, received, body, lost, form, forms, stacks, over>>
    BY <1>8 DEF ParseAtOnce, Asks
  <2>4. parts = Whole \ lost
    <3>1. CASE body # {}
      BY <3>1 DEF Pieces
    <3>2. CASE body = {}
      <4>1. lost = 1..0
        BY <1>8, <2>1, <3>2 DEF ParseAtOnce, Pieces, Reading
      <4> QED
        BY <3>2, <4>1
    <3> QED
      BY <3>1, <3>2
  <2> HIDE DEF parts
  <2>5. /\ \A u \in Tasks : u # t => task'[u] = task[u]
        /\ task'[t].got = parts /\ task'[t].value = task[t].value
        /\ task'[t].phase = "parsing" /\ task'[t].again = task[t].again
        /\ task'[t].parsed = FALSE /\ task'[t].isForm /\ task'[t].failed = task[t].failed
    BY <1>0, <2>2 DEF TaskStates
  <2>6. /\ \A u \in Tasks : ~Waiting(u)' /\ (Parsing(u)' <=> u = t)
    BY <2>1, <2>5 DEF Reading, Waiting, Parsing
  <2>7. Readers'
    BY <2>3, <2>5, <2>6 DEF Readers, Reading
  <2>8. OneForm'
    BY <2>3, <2>5, OneFormKept DEF InApp
  <2>9. OnePiece' /\ ConsumedOnlyByForm'
    BY <2>3, <2>5 DEF Pieces, OnePiece, ConsumedOnlyByForm, Whole
  <2>10. \A u \in Tasks : InApp(u)' => task'[u].got = {}
    BY <2>5 DEF Pieces, InApp
  <2>11. Pieces'
    BY <2>3, <2>4, <2>5, <2>6, <2>9, <2>10 DEF Pieces, Whole
  <2> QED
    BY <2>7, <2>8, <2>11
<1>9. ASSUME NEW t \in Tasks, NEW isForm \in BOOLEAN, StartReading(t, isForm)
      PROVE  Readers' /\ OneForm' /\ Pieces'
  <2>1. \A u \in Tasks : ~Reading(u)
    BY <1>9, NobodyReads DEF StartReading
  <2>2. task' = [task EXCEPT ![t] = [@ EXCEPT !.phase = "waiting", !.isForm = isForm,
                                              !.parsed = (form # 0)]]
    BY <1>9 DEF StartReading
  <2>3. /\ InApp(t) /\ ~consumed /\ kind = "server"
        /\ UNCHANGED <<kind, received, consumed, body, lost, form, forms, stacks, over>>
    BY <1>9 DEF StartReading, Asks, stream
  <2>4. form = 0 /\ body = {} /\ lost = 1..received /\ task[t].got = {}
    BY <2>1, <2>3 DEF Pieces, OneForm, Reading
  <2>5. /\ \A u \in Tasks : u # t => task'[u] = task[u]
        /\ task'[t].got = task[t].got /\ task'[t].value = task[t].value
        /\ task'[t].phase = "waiting" /\ task'[t].again = task[t].again
        /\ task'[t].parsed = FALSE /\ task'[t].failed = task[t].failed
    BY <1>0, <2>2, <2>4, ZenonT(30) DEF TaskStates
  <2>6. /\ \A u \in Tasks : ~Parsing(u)' /\ (Waiting(u)' <=> u = t)
    BY <2>1, <2>5 DEF Reading, Waiting, Parsing
  <2>7. Readers'
    BY <2>3, <2>4, <2>5, <2>6 DEF Readers, Reading
  <2>8. OneForm'
    BY <2>3, <2>5, OneFormKept DEF InApp
  <2>9. OnePiece' /\ ConsumedOnlyByForm'
    BY <2>3, <2>4, <2>5 DEF Pieces, OnePiece, ConsumedOnlyByForm, Whole
  <2>10. \A u \in Tasks : InApp(u)' => task'[u].got = {}
    BY <2>5 DEF Pieces, InApp
  <2>11. Pieces'
    BY <2>3, <2>4, <2>5, <2>6, <2>9, <2>10 DEF Pieces, Whole
  <2> QED
    BY <2>7, <2>8, <2>11
<1>10. ASSUME NEW t \in Tasks, NEW isForm \in BOOLEAN, StreamConsumed(t, isForm)
       PROVE  Readers' /\ OneForm' /\ Pieces'
  <2>1. \A u \in Tasks : ~Reading(u)
    BY <1>10, NobodyReads DEF StreamConsumed
  <2>2. task' = [task EXCEPT ![t] = [@ EXCEPT !.failed = TRUE, !.isForm = isForm]]
    BY <1>10 DEF StreamConsumed
  <2>3. /\ InApp(t) /\ consumed /\ body = {} /\ (isForm => form = 0)
        /\ UNCHANGED <<kind, stream, form, forms, stacks, over>>
    BY <1>10 DEF StreamConsumed, Asks
  <2>4. form # 0 \/ lost # {}
    BY <2>1, <2>3 DEF Pieces, Reading
  <2>5. /\ task'[t].got = task[t].got /\ task'[t].value = task[t].value
        /\ task'[t].phase = "app" /\ task'[t].again = task[t].again
        /\ task'[t].isForm = isForm
    BY <1>0, <2>2, <2>3 DEF TaskStates, InApp
  <2>6. Apart(t, "app")
    BY <2>2, <2>3, <2>5 DEF Apart, Pieces, stream
  <2>7. Readers'
    BY <2>3, <2>5, <2>6, ReadersApart DEF Readers
  <2>8. OneForm'
    BY <2>2, <2>3, <2>5, OneFormKept DEF InApp, stream
  <2>9. Pieces'
    BY <2>3, <2>4, <2>5, <2>6, PiecesApart DEF Pieces, OnePiece
  <2> QED
    BY <2>7, <2>8, <2>9
<1>11. ASSUME NEW t \in Tasks, Receive(t)
       PROVE  Readers' /\ OneForm' /\ Pieces'
  <2> DEFINE got == task[t].got \cup {received + 1}
  <2>1. /\ Waiting(t) /\ received' = received + 1 /\ (consumed' <=> received' = Messages)
        /\ UNCHANGED <<kind, lost, over>>
    BY <1>11 DEF Receive
  <2>2. /\ ~consumed /\ form = 0 /\ ~task[t].parsed /\ body = {}
        /\ \A u \in Tasks : Reading(u) => u = t
    BY <2>1 DEF Readers, Reading, Pieces
  <2>3. /\ got = (1..received') \ lost /\ lost \subseteq 1..received' /\ got # {}
        /\ got \in SUBSET Whole
    <3>1. /\ task[t].got = (1..received) \ lost /\ lost \subseteq 1..received
          /\ task[t].got \in SUBSET Whole
      BY <1>0, <2>1 DEF Pieces, TaskStates
    <3>2. received \in Nat /\ received' <= Messages
      BY <1>11, RequestBodyAssumption DEF TypeOK, Receive
    <3>3. 1..(received + 1) = 1..received \cup {received + 1} /\ received + 1 \notin 1..received
      BY <3>2
    <3>4. received + 1 \in Whole
      BY <2>1, <3>2, RequestBodyAssumption DEF Whole
    <3> QED
      BY <2>1, <3>1, <3>3, <3>4
  <2>4. consumed' => got = Whole \ lost
    BY <2>1, <2>3 DEF Whole
  <2>5. CASE consumed' /\ ~task[t].isForm
    <3>1. Hand(t, FALSE, TRUE, got)
      BY <1>11, <2>5 DEF Receive
    <3>2. task[t].phase # "done" /\ got # {} /\ kind # "synthetic"
      BY <2>1, <2>3 DEF Waiting, Readers
    <3> HIDE DEF got
    <3> QED
      BY <2>1, <2>2, <2>3, <2>4, <2>5, <3>1, <3>2, ReadHanded
  <2>6. CASE ~(consumed' /\ ~task[t].isForm)
    <3>1. /\ task' = [task EXCEPT ![t] = [@ EXCEPT !.got = got,
                          !.phase = IF consumed' THEN "parsing" ELSE "waiting"]]
          /\ UNCHANGED <<body, form, forms, stacks>>
      BY <1>11, <2>6 DEF Receive
    <3> HIDE DEF got
    <3>2. /\ \A u \in Tasks : u # t => task'[u] = task[u]
          /\ task'[t].got = got /\ task'[t].value = task[t].value
          /\ task'[t].phase = IF consumed' THEN "parsing" ELSE "waiting"
          /\ task'[t].again = task[t].again /\ ~task'[t].parsed
          /\ task'[t].isForm = task[t].isForm /\ task'[t].failed = task[t].failed
      BY <1>0, <2>2, <3>1 DEF TaskStates
    <3>3. \A u \in Tasks : /\ Waiting(u)' <=> u = t /\ ~consumed'
                           /\ Parsing(u)' <=> u = t /\ consumed'
      BY <2>2, <3>2 DEF Reading, Waiting, Parsing
    <3>4. Readers'
      BY <2>1, <2>2, <3>1, <3>2, <3>3 DEF Readers, Reading
    <3>5. OneForm'
      BY <2>1, <2>2, <3>1, <3>2, OneFormKept DEF Waiting
    <3>6. OnePiece' /\ ConsumedOnlyByForm'
      BY <2>1, <3>1, <3>2 DEF Pieces, OnePiece, ConsumedOnlyByForm, Whole
    <3>7. \A u \in Tasks : InApp(u)' => task'[u].got = {}
      BY <3>2 DEF Pieces, InApp
    <3>8. Pieces'
      <4>1. kind' = "synthetic" => received' = 0
        BY <2>1 DEF Readers
      <4>2. \A u \in Tasks : task'[u].value # {} => body' # {} \/ form' # 0
        BY <3>1, <3>2 DEF Pieces
      <4>3. \A f \in DOMAIN forms' : forms'[f].parts = Whole \ lost'
        BY <2>1, <3>1 DEF Pieces
      <4>4. \A u \in Tasks : Waiting(u)' => /\ lost' \subseteq 1..received'
                                           /\ task'[u].got = (1..received') \ lost'
        BY <2>1, <2>3, <3>2, <3>3
      <4>5. \A u \in Tasks : Parsing(u)' => task'[u].got = Whole \ lost'
        BY <2>1, <2>4, <3>2, <3>3
      <4>6. ~consumed' => \E u \in Tasks : Waiting(u)'
        BY <3>3
      <4>7. consumed' => \E u \in Tasks : Parsing(u)'
        BY <3>3
      <4>8. body' = {}
        BY <2>2, <3>1
      <4> QED
        BY <3>6, <3>7, <4>1, <4>2, <4>3, <4>4, <4>5, <4>6, <4>7, <4>8 DEF Pieces, Whole
    <3> QED
      BY <3>4, <3>5, <3>8
  <2> QED
    BY <2>5, <2>6
<1>12. ASSUME NEW t \in Tasks, Parsed(t)
       PROVE  Readers' /\ OneForm' /\ Pieces'
  <2> DEFINE parts == task[t].got
  <2>1. /\ Parsing(t) /\ Hand(t, TRUE, FALSE, parts) /\ form = 0 /\ consumed'
        /\ UNCHANGED <<kind, lost, over>>
    <3>1. /\ Parsing(t) /\ Hand(t, TRUE, task[t].parsed, parts)
          /\ UNCHANGED <<kind, consumed, lost, over>>
      BY <1>12 DEF Parsed
    <3>2. task[t].parsed = FALSE /\ form = 0 /\ consumed
      BY <1>0, <3>1 DEF Readers, Reading, TaskStates
    <3> QED
      BY <3>1, <3>2
  <2>2. \A u \in Tasks : Reading(u) => u = t
    BY <2>1 DEF Readers, Reading
  <2>3. /\ parts \in SUBSET Whole /\ parts = Whole \ lost /\ task[t].phase # "done"
        /\ received' = received
    BY <1>0, <1>12, <2>1 DEF Pieces, TaskStates, Parsing, Parsed
  <2> HIDE DEF parts
  <2> QED
    BY <2>1, <2>2, <2>3, ReadHanded
<1>13. ASSUME NEW t \in Tasks, Interrupted(t)
       PROVE  Readers' /\ OneForm' /\ Pieces'
  <2>1. task' = [task EXCEPT ![t] = [@ EXCEPT !.phase = "app", !.got = {}]]
    BY <1>13 DEF Interrupted
  <2>2. /\ Reading(t) /\ lost' = lost \cup (task[t].got \ body)
        /\ UNCHANGED <<kind, received, consumed, body, form, forms, stacks, over>>
    BY <1>13 DEF Interrupted
  <2>3. /\ \A u \in Tasks : u # t => task'[u] = task[u]
        /\ task'[t].got = {} /\ task'[t].value = task[t].value
        /\ task'[t].phase = "app" /\ task'[t].again = task[t].again
        /\ task'[t].isForm = task[t].isForm /\ task'[t].failed = task[t].failed
    BY <1>0, <2>1 DEF TaskStates
  <2>4. \A u \in Tasks : ~Waiting(u)' /\ ~Parsing(u)'
    BY <2>2, <2>3 DEF Readers, Reading, Waiting, Parsing
  <2>5. Readers'
    BY <2>2, <2>3, <2>4 DEF Readers, Reading
  <2>6. OneForm'
    BY <2>2, <2>3, OneFormKept DEF Reading, Waiting, Parsing
  <2>7. /\ ~consumed => lost' = 1..received
        /\ lost' # lost => body = {} /\ form = 0
    <3>1. CASE Waiting(t)
      <4>1. body = {} /\ ~consumed /\ form = 0
        BY <2>2, <3>1 DEF Pieces, Readers
      <4> QED
        BY <2>2, <3>1, <4>1 DEF Pieces
    <3>2. CASE Parsing(t)
      <4>1. consumed /\ form = 0 /\ task[t].got = Whole \ lost
        BY <2>2, <3>2 DEF Pieces, Readers
      <4>2. body # {} => task[t].got \ body = {}
        BY <4>1 DEF Pieces
      <4> QED
        BY <2>2, <4>1, <4>2
    <3> QED
      BY <2>2, <3>1, <3>2 DEF Reading
  <2>8. OnePiece'
    <3>1. \A u \in Tasks : task'[u].value = task[u].value
      BY <2>3
    <3>2. \A u \in Tasks : task[u].value # {} => lost' = lost
      BY <2>7 DEF Pieces
    <3> QED
      BY <3>1, <3>2 DEF Pieces, OnePiece, Whole
  <2>9. ConsumedOnlyByForm'
    BY <2>2, <2>3 DEF Pieces, ConsumedOnlyByForm
  <2>10. consumed => body # {} \/ form # 0 \/ lost' # {}
    <3>1. Whole # {}
      BY RequestBodyAssumption DEF Whole
    <3>2. Parsing(t) /\ body = {} => task[t].got \ body = Whole \ lost
      BY DEF Pieces
    <3> QED
      BY <2>2, <3>1, <3>2 DEF Pieces, Readers, Reading
  <2>11. Pieces'
    <3>1. \A u \in Tasks : InApp(u)' => task'[u].got = {}
      BY <2>3 DEF Pieces, InApp
    <3>2. \A f \in DOMAIN forms' : forms'[f].parts = Whole \ lost'
      <4>1. form = 0 => forms = <<>>
        BY EmptySeq DEF OneForm, TypeOK
      <4> QED
        BY <2>2, <2>7, <4>1 DEF Pieces
    <3>3. body' # {} => consumed' /\ body' = Whole \ lost'
      BY <2>2, <2>7 DEF Pieces
    <3>4. \A u \in Tasks : task'[u].value # {} => body' # {} \/ form' # 0
      BY <2>2, <2>3 DEF Pieces
    <3>5. kind' = "synthetic" => received' = 0
      BY <2>2 DEF Pieces
    <3> QED
      BY <2>2, <2>4, <2>7, <2>8, <2>9, <2>10, <3>1, <3>2, <3>3, <3>4, <3>5 DEF Pieces, Whole
  <2> QED
    BY <2>5, <2>6, <2>11
<1>14. CASE UNCHANGED vars
  BY <1>14 DEF vars, stream, Readers, OneForm, Pieces, OnePiece, ConsumedOnlyByForm, Reading,
               Waiting, Parsing, InApp, Home, Stacks, Whole
<1> QED
  BY <1>1, <1>2, <1>3, <1>4, <1>5, <1>6, <1>7, <1>8, <1>9, <1>10, <1>11, <1>12, <1>13, <1>14
     DEF Next

\* The invariant holds always.
THEOREM Invariant == ~Overlap /\ OneStack => (Spec => []IInv)
<1> SUFFICES ASSUME ~Overlap, OneStack
             PROVE  Spec => []IInv
  OBVIOUS
<1>1. Init /\ TypeOK => IInv
  BY InvariantInit DEF IInv
<1>2. IInv /\ TypeOK' /\ [Next]_vars => IInv'
  <2> SUFFICES ASSUME IInv, TypeOK', [Next]_vars
               PROVE  IInv'
    OBVIOUS
  <2> QED
    BY InvariantNext DEF IInv
<1> QED
  BY <1>1, <1>2, TypeCorrect, PTL DEF Spec

\* A request has one form, and it is closed exactly once, whichever of its contexts it was
\* parsed in and however they end (_read_form(), the exit stack of the request).
THEOREM ClosedOnce == ~Overlap /\ OneStack => (Spec => []FormClosedOnce)
<1> SUFFICES ASSUME ~Overlap, OneStack
             PROVE  Spec => []FormClosedOnce
  OBVIOUS
<1>1. IInv => FormClosedOnce
  <2> SUFFICES ASSUME IInv
               PROVE  FormClosedOnce
    OBVIOUS
  <2>1. Home \in Stacks /\ Stacks \in SUBSET Stacks
    BY DEF Home, Stacks
  <2>2. ASSUME NEW f \in DOMAIN forms
        PROVE  forms[f].closes + Cardinality(CloseCalls(f, Stacks)) = 1
    <3>1. CloseCalls(f, Stacks) = IF ~over THEN {<<Home, 1>>} ELSE {}
      BY <2>1, OneCall DEF IInv
    <3>2. forms[f].closes = IF over THEN 1 ELSE 0
      BY DEF IInv, OneForm
    <3>3. Cardinality({<<Home, 1>>}) = 1 /\ Cardinality({}) = 0
      BY FS_Singleton, FS_EmptySet
    <3> QED
      BY <3>1, <3>2, <3>3
  <2>3. over => \A f \in DOMAIN forms : forms[f].closes = 1
    BY DEF IInv, OneForm
  <2> QED
    BY <2>2, <2>3 DEF FormClosedOnce, IInv, OneForm
<1> QED
  BY <1>1, Invariant, PTL

\* A form that a task holds is open: no context that ends closes it under another one.
THEOREM StaysOpen == ~Overlap /\ OneStack => (Spec => []FormStaysOpen)
<1> SUFFICES ASSUME ~Overlap, OneStack
             PROVE  Spec => []FormStaysOpen
  OBVIOUS
<1>1. IInv => FormStaysOpen
  <2> SUFFICES ASSUME IInv, NEW t \in Tasks, task[t].holds # 0
               PROVE  forms[task[t].holds].closes = 0
    BY DEF FormStaysOpen
  <2>1. ~over
    BY DEF IInv, OneForm
  <2>2. task[t].holds \in DOMAIN forms
    BY LenProperties DEF IInv, TypeOK
  <2> QED
    BY <2>1, <2>2 DEF IInv, OneForm
<1> QED
  BY <1>1, Invariant, PTL

\* Whoever reads a body or a form, in whatever context and after whichever interrupted
\* reads, is handed the same messages: all but those that interrupted reads took with them.
THEOREM ReadWhole == ~Overlap /\ OneStack => (Spec => []OnePiece)
<1> SUFFICES ASSUME ~Overlap, OneStack
             PROVE  Spec => []OnePiece
  OBVIOUS
<1>1. IInv => OnePiece
  BY DEF IInv, Pieces
<1> QED
  BY <1>1, Invariant, PTL

\* "Stream consumed" is said only to who asks for the body after the form, or after a read
\* that was interrupted.
THEOREM FailsByForm == ~Overlap /\ OneStack => (Spec => []ConsumedOnlyByForm)
<1> SUFFICES ASSUME ~Overlap, OneStack
             PROVE  Spec => []ConsumedOnlyByForm
  OBVIOUS
<1>1. IInv => ConsumedOnlyByForm
  BY DEF IInv, Pieces
<1> QED
  BY <1>1, Invariant, PTL
=============================================================================
