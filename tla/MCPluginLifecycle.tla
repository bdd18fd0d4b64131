--------------------------- MODULE MCPluginLifecycle ---------------------------
(* Small instances of PluginLifecycle for TLC. *)
EXTENDS PluginLifecycle, TLC

CONSTANTS p1, p2, k1, k2, k3

\* k1 and k2 are published; k3 is a change that was made on top of k1.
MCOrder == << "advance", "oca" >>
MCPublished == << k1, k2 >>
MCBefore == [k \in Commits |-> IF k = k1 THEN {} ELSE {k1}]
MCCloned == {"advance"}

Symmetry == Permutations(Callers)
================================================================================
