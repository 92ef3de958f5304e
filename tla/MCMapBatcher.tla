---------------------------- MODULE MCMapBatcher -----------------------------
(* Instances of MapBatcher for TLC. *)
EXTENDS MapBatcher

CONSTANTS a, b, s1, s2, w1, w2

\* s1 and s2 are two streams of node a, which watches node b.
MCOwner == [s \in Streams |-> a]

\* Policy 0 has no ACL rules and hides b.  The other policies have rules:
\* 1 shows everything, 2 hides b.
MCAllows == [v \in Policies |-> IF v = 1 THEN Nodes ELSE {a}]
=============================================================================
