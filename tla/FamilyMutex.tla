---------------------------- MODULE FamilyMutex ----------------------------
(***************************************************************************)
(* What a resolution expects of InjectionContext.lock, with none of the    *)
(* lock's machinery: tasks form families, a task joins a family when it is *)
(* spawned by a member while the family is inside, and only one family is  *)
(* inside at a time.  RLock implements this (see RLock!Promise).           *)
(***************************************************************************)
EXTENDS Naturals

CONSTANTS Tasks

VARIABLES family,   \* family[t]: the task on whose behalf t runs, t itself by default
          nest      \* nest[t]: how many blocks of the lock t is inside

Inside(t) == nest[t] > 0

Init ==
    /\ family = [t \in Tasks |-> t]
    /\ nest = [t \in Tasks |-> 0]

\* A task is born: a family of its own, or a member of its parent's family,
\* which then has to be inside.
Begin(t, u) ==
    /\ nest[u] = 0
    /\ \/ family' = [family EXCEPT ![u] = u]
       \/ /\ \E v \in Tasks : Inside(v) /\ family[v] = family[t]
          /\ family' = [family EXCEPT ![u] = family[t]]
    /\ UNCHANGED nest

\* Only members of the family that is inside may enter.
Enter(t) ==
    /\ \A u \in Tasks : Inside(u) => family[u] = family[t]
    /\ nest' = [nest EXCEPT ![t] = @ + 1]
    /\ UNCHANGED family

Exit(t) ==
    /\ Inside(t)
    /\ nest' = [nest EXCEPT ![t] = @ - 1]
    /\ UNCHANGED family

\* A task that is outside ends; its identifier is a family of its own again.
End(t) ==
    /\ nest[t] = 0
    /\ family' = [family EXCEPT ![t] = t]
    /\ UNCHANGED nest

Next ==
    \/ \E t, u \in Tasks : Begin(t, u)
    \/ \E t \in Tasks : Enter(t) \/ Exit(t) \/ End(t)

Spec == Init /\ [][Next]_<<family, nest>>
=============================================================================
