------------------------- MODULE MCNodeStoreWriter -------------------------
(***************************************************************************)
(* NodeStoreWriter for TLC: a node with two keys, or two nodes.            *)
(***************************************************************************)
EXTENDS NodeStoreWriter

CONSTANTS n1, n2, k1, k2

Write(kind, keys, to, node) == [kind |-> kind, keys |-> keys, to |-> to, node |-> node]

\* A node that is registered, changes its key, is deleted and used, with
\* either key.
OneNode ==
    {Write("put", {}, k1, n1), Write("rekey", {k1}, k2, n1), Write("delete", {k1}, None, None),
     Write("delete", {k2}, None, None), Write("connect", {k1}, None, None),
     Write("update", {k2}, None, None), Write("patch", {k1}, None, None),
     Write("many", {k1, k2}, None, None)}

\* Two nodes whose routes a policy approves while they are deleted.
Approvals ==
    {Write("put", {}, k1, n1), Write("put", {}, k2, n2), Write("delete", {k1}, None, None),
     Write("delete", {k2}, None, None), Write("approve", {k1, k2}, None, None)}
=============================================================================
