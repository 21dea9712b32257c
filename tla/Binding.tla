------------------------------ MODULE Binding ------------------------------
(***************************************************************************)
(* Signatures and how arguments reach parameters: the operations of        *)
(* signature.py, bind_deps() of _bind.py, the wrapper of inject.py, and    *)
(* Python's own call underneath.                                           *)
(*                                                                         *)
(* A signature is a sequence of parameters [name, kind, dep], where dep is *)
(* the call of its Depends() marker or NoDep; no parameter has a default.  *)
(***************************************************************************)
EXTENDS Naturals, Sequences, SequencesExt, FiniteSets

CONSTANT NoDep

Kinds == <<"positional only", "positional", "var positional", "keyword only", "var keyword">>
Positional == {Kinds[1], Kinds[2]}
Keyword == {Kinds[2], Kinds[4]}
Variable == {Kinds[3], Kinds[5]}

Names(sign) == {p.name : p \in Range(sign)}

\* Those of the parameters that are in params, in their order.
Among(params, sign) == FlattenSeq([i \in DOMAIN sign |-> IF sign[i] \in params THEN <<sign[i]>> ELSE <<>>])

OfKind(sign, kinds) == Among({p \in Range(sign) : p.kind \in kinds}, sign)

\* inspect.Signature refuses any other sequence of parameters.
Valid(sign) ==
    \A i, j \in DOMAIN sign : i < j =>
        /\ sign[i].name # sign[j].name
        /\ \E k, l \in DOMAIN Kinds :
              k <= l /\ sign[i].kind = Kinds[k] /\ sign[j].kind = Kinds[l]

-----------------------------------------------------------------------------
\* signature.py

\* What is new in extra, as parameters of the kind.
Missing(sign, extra, kind) ==
    LET new == Among({p \in Range(extra) : p.name \notin Names(sign)}, extra)
    IN  [i \in DOMAIN new |-> [new[i] EXCEPT !.kind = kind]]

\* Keyword-only parameters, before **kwargs.
Add(sign, extra) ==
    OfKind(sign, Range(Kinds) \ {Kinds[5]})
    \o Missing(sign, extra, Kinds[4]) \o OfKind(sign, {Kinds[5]})

AddDep(sign, name, dep) == Add(sign, <<[name |-> name, kind |-> Kinds[4], dep |-> dep]>>)

Drop(sign, names) == Among({p \in Range(sign) : p.name \notin names}, sign)

Prepend(sign, extra) == Missing(sign, extra, Kinds[2]) \o sign

\* What FastAPI is shown of an injected function: the dependencies.
Prepare(sign) == Among({p \in Range(sign) : p.dep # NoDep}, sign)

\* What a caller of an injected function is shown: the rest.
Strip(sign) == Drop(sign, Names(Prepare(sign)))

-----------------------------------------------------------------------------
\* _bind.py

\* dep_arg_name(), for as many as are ever bound here.
DepArg == <<"__dep_arg_0", "__dep_arg_1", "__dep_arg_2">>

\* signature_with_deps(); bound before or not, the first parameters are taken away.
SignatureWithDeps(sign, deps) ==
    Prepend(Drop(sign, Names(SubSeq(sign, 1, Len(deps)))),
            [i \in DOMAIN deps |-> [name |-> DepArg[i], kind |-> Kinds[2], dep |-> deps[i]]])

Binds(sign, deps) ==
    Len(deps) <= Len(sign) /\ Valid(SignatureWithDeps(sign, deps))

Error == "error"

\* What is passed by position goes to the first parameters, and Python refuses a call that
\* leaves an argument without a parameter, or a parameter without an argument (external).
Slots(sign) == OfKind(sign, Positional)
Filled(sign, args) == {Slots(sign)[i].name : i \in 1..Len(args) \cap DOMAIN Slots(sign)}
Refused(sign, args, kwargs) ==
    LET takes(kind) == OfKind(sign, {kind}) # <<>>
    IN  \/ Len(args) > Len(Slots(sign)) /\ ~takes(Kinds[3])
        \/ Filled(sign, args) \cap DOMAIN kwargs # {}
        \/ ~(DOMAIN kwargs \subseteq Names(OfKind(sign, Keyword))) /\ ~takes(Kinds[5])
        \/ ~(Names(OfKind(sign, Positional \cup Keyword)) \subseteq Filled(sign, args) \cup DOMAIN kwargs)

\* Python calls a function of the signature: what each parameter gets (external).
PyCall(sign, args, kwargs) ==
    IF Refused(sign, args, kwargs)
    THEN [error |-> Error]
    ELSE [n \in Filled(sign, args) \cup DOMAIN kwargs |->
            IF n \in Filled(sign, args)
            THEN args[CHOOSE i \in DOMAIN Slots(sign) : Slots(sign)[i].name = n]
            ELSE kwargs[n]]

\* The indexes of the bound arguments; a gap in them is an UnboundDepArgsError.
Indexes(kwargs) == {i \in DOMAIN DepArg : DepArg[i] \in DOMAIN kwargs}
Gap(kwargs) == Indexes(kwargs) # 1..Cardinality(Indexes(kwargs))

\* Bug: the last one comes first.
TakeDepArgsReversed(kwargs) == Reverse([i \in Indexes(kwargs) |-> kwargs[DepArg[i]]])

\* take_dep_args(): the values, in the order of the indexes in their names.
TakeDepArgs(kwargs) == [i \in Indexes(kwargs) |-> kwargs[DepArg[i]]]

\* remap_dep_args(): func(*args, *take_dep_args(kwargs), **kwargs).
CallBound(func, args, kwargs) ==
    IF ~Gap(kwargs)
    THEN PyCall(func, args \o TakeDepArgs(kwargs),
                [n \in DOMAIN kwargs \ Range(DepArg) |-> kwargs[n]])
    ELSE [error |-> Error]

-----------------------------------------------------------------------------
\* inject.py

\* The wrapper of a function that wears a signature: what the caller leaves out of the
\* dependencies is filled in by name.  A dependency resolves to a value of the same name.
CallInjected(func, sign, args, kwargs) ==
    LET solved == [n \in Names(Prepare(sign)) |->
                      (CHOOSE p \in Range(sign) : p.name = n).dep]
    IN  CallBound(func, args, [n \in DOMAIN kwargs \cup DOMAIN solved |->
            IF n \in DOMAIN kwargs THEN kwargs[n] ELSE solved[n]])
=============================================================================
