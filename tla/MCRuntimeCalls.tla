--------------------------- MODULE MCRuntimeCalls ---------------------------
(***************************************************************************)
(* describe(doc, role, *, loud: Dep[clock]) and log(text, **kwargs) are    *)
(* bound to the runtime marker given, to clock and role, and to a bound    *)
(* describe.  The app replaces role by fake, which is made at runtime and  *)
(* depends on given, or given by role.                                     *)
(***************************************************************************)
EXTENDS RuntimeCalls

CONSTANTS clock, role, describe, log, given, fake, first, second

P(name, kind, dep) == [name |-> name, kind |-> kind, dep |-> dep]

MCSigns == [c \in {clock, role, describe, log, given, fake} |->
    CASE c = describe -> <<P("doc", "positional", NoDep), P("role", "positional", NoDep),
                           P("loud", "keyword only", clock)>>
      [] c = log -> <<P("text", "positional", NoDep), P("kwargs", "var keyword", NoDep)>>
      [] c = fake -> <<P("doc", "positional", given)>>
      [] OTHER -> <<>>]

R(object, func, deps) == [object |-> object, func |-> func, deps |-> deps]

MCRecipes ==
    {R(first, describe, <<given>>), R(first, describe, <<given, role>>),
     R(first, describe, <<role, given, clock>>),
     R(second, first, <<role>>), R(second, log, <<first>>), R(second, log, <<given>>)}

MCExtensions == {[object |-> first, func |-> log, dep |-> given],
                 [object |-> second, func |-> first, dep |-> role]}

NoOverrides == [c \in {} |-> c]
Fake == [c \in {role} |-> fake]
Plain == [c \in {given} |-> role]
MCEntries == {Fake, Plain}

\* The hypothesis of RuntimeCallsProofs!ArgumentsArrive.
ASSUME OrdinarySigns
=============================================================================
