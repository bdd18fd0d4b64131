-------------------------- MODULE MCSessionLifecycle --------------------------
(* Small instances of SessionLifecycle for TLC. *)
EXTENDS SessionLifecycle, TLC

CONSTANTS p1, p2, p3, a0, a0debug, custom

\* oca-a-0 is the one session of a project that is numbered.  The name
\* oca-a-0-debug is given with --name, and starts with it; the name "oc" has
\* no prefix "oca-", and both start with it.
MCNumbered == << a0 >>

MCLonger ==
    [n \in Names |-> IF n = a0 THEN {a0debug} \cap Names
                     ELSE IF n = custom THEN Names \ {custom}
                     ELSE {}]

OneSession == << a0 >>

\* The commands are interchangeable.
Symmetry == Permutations(Callers)

=============================================================================
