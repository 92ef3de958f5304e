----------------------------- MODULE MCSshCheck ------------------------------
(* An instance of SshCheck for TLC. *)
EXTENDS SshCheck, TLC

CONSTANTS p, q, u, v, strict, lax

\* The strict policy checks both users of pair p, one of them every time; the
\* lax one has no rule for the second user, and none for pair q.
MCPeriod ==
    [d \in Docs |-> [pair \in Pairs |-> [user \in Users |->
        IF pair = q THEN IF d = strict THEN 1 ELSE NoRule
        ELSE IF d = strict THEN IF user = u THEN 2 ELSE 0
        ELSE IF user = u THEN 1 ELSE NoRule]]]

\* Requests and holds are interchangeable.
Symmetry == Permutations(Clients) \cup Permutations(AuthIds)
=============================================================================
