--------------------------- MODULE DeleteContract ---------------------------
(***************************************************************************)
(* What the ref journal promises to the partition manager, which asks for  *)
(* a partition's audio to be deleted and does not look back: an object     *)
(* goes only because its target (a prefix of one backend) was asked for,   *)
(* and a target is forgotten only when none of its objects is left.        *)
(***************************************************************************)
CONSTANTS
    Objects,  \* the objects of the audio backends
    Targets,  \* what a delete may be asked for
    TargetOf  \* Objects -> Targets: the target that covers an object

VARIABLES
    objects,  \* the objects that exist
    pending   \* the targets that were asked for and are not done

vars == <<objects, pending>>

Left(t) == {o \in objects : TargetOf[o] = t}

Init == objects \subseteq Objects /\ pending \subseteq Targets

\* Every way the contract lets a step change the two.
Ask(t) == pending' = pending \cup {t} /\ UNCHANGED objects

Remove(S) == /\ S \subseteq objects /\ \A o \in S : TargetOf[o] \in pending
             /\ objects' = objects \ S
             /\ UNCHANGED pending

Forget(t) == t \in pending /\ Left(t) = {} /\ pending' = pending \ {t}
             /\ UNCHANGED objects

Next == \/ \E t \in Targets : Ask(t) \/ Forget(t)
        \/ \E S \in SUBSET objects : Remove(S)

Spec == Init /\ [][Next]_vars
=============================================================================
