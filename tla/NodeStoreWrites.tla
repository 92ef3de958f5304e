-------------------------- MODULE NodeStoreWrites --------------------------
(***************************************************************************)
(* The writes of the NodeStore: what each does to the map of machine       *)
(* records, what it tells its caller, and what a list of them applied one  *)
(* after the other under the writer lock leaves.                           *)
(*                                                                         *)
(* A write is a record [kind, keys, to, node].  A record of the map shows  *)
(* the node it describes and the caller that wrote it last; its contents   *)
(* are left out.                                                           *)
(***************************************************************************)
EXTENDS Integers, Sequences, FiniteSets

CONSTANTS
    Keys,       \* node keys, the keys of the map
    Nodes,      \* stable node ids
    Callers,    \* tasks and threads that write
    Writes,     \* the writes they may ask for
    None

\* put: upsert under the key "to".  delete: remove the one of keys.  rekey:
\* move from the one of keys to the key "to".  update: change the record of
\* the one of keys, provided the node is still there after the batch; connect
\* also gives the node a session.  patch: the same without that proviso.
\* many: change the records of keys.  approve: the same for
\* apply_policy_route_approvals, which returns the ids left in its outcome.
Kinds == {"put", "delete", "rekey", "update", "connect", "patch", "many", "approve"}

ASSUME WritesAssumption ==
    /\ Writes \subseteq [kind : Kinds, keys : SUBSET Keys,
                         to : Keys \cup {None}, node : Nodes \cup {None}]
    /\ \A w \in Writes :
          IF w.kind \in {"put", "rekey"} THEN w.to # None /\ w.node # None ELSE w.to = None
    /\ \A w \in Writes : w.kind = "put" => w.keys = {}

Record == [node : Nodes, by : Callers]
Map == [Keys -> Record \cup {None}]

ASSUME NoneAssumption ==
    /\ None \notin Keys \cup Nodes \cup Callers \cup Writes \cup Record
    /\ \A ns \in SUBSET Nodes : ns # None

-----------------------------------------------------------------------------
\* One write.

Present(s) == {s[k].node : k \in {j \in Keys : s[j] # None}}

\* The nodes the write's keys lead to.
Found(s, w) == {s[k].node : k \in {j \in w.keys : s[j] # None}}

\* The map after the write w of caller c.
Effect(s, c, w) ==
    [k \in Keys |->
        CASE w.kind \in {"put", "rekey"} /\ k = w.to -> [node |-> w.node, by |-> c]
          [] w.kind \in {"delete", "rekey"} /\ k \in w.keys /\ k # w.to -> None
          [] w.kind \in {"update", "connect", "patch", "many", "approve"} /\ k \in w.keys /\ s[k] # None ->
                [s[k] EXCEPT !.by = c]
          [] OTHER -> s[k]]

\* What the caller is told, as a set of nodes: the one a put replaced, the
\* one a delete removed, the ones an update changed.
Outcome(s, w) ==
    CASE w.kind = "put" -> IF s[w.to] # None THEN {w.node} ELSE {}
      [] w.kind = "rekey" -> {}
      [] OTHER -> Found(s, w)

\* The nodes whose map streams are told of a change.  The update of a map
\* request (map_runtime_update) names no node that must be there after the
\* batch: when it is given a reason to announce, its change goes out whatever
\* the rest of its batch does to the node.  Its callers give none so far.
Notice(s, w) ==
    CASE w.kind = "rekey" -> {w.node}
      [] w.kind \in {"update", "patch"} -> Found(s, w)
      [] OTHER -> {}

\* The writes whose outcome counts only for nodes present after the batch.
NeedsPresence(w) == w.kind \in {"update", "connect", "many", "approve", "rekey"}

\* Whether the write makes the writer publish the map.
Publishes(s, w) == w.kind \in {"put", "delete", "rekey"} \/ Found(s, w) # {}

-----------------------------------------------------------------------------
\* A list of writes: the callers q, whose writes are op.

\* Mutant: the sessions of absent nodes are dropped after the whole batch.
RetiredLater(s, ss) == ss

\* retire_absent_stream_state: a node that is not in the map has no session.
Retired(s, ss) == ss \cap Present(s)

Connected(s, w, ss) == IF w.kind = "connect" THEN ss \cup Found(s, w) ELSE ss

\* A map and its sessions, after the write w of caller c to "before".
Applied(before, c, w) ==
    LET after == Effect(before.map, c, w)
    IN  [map |-> after,
         sessions |-> Retired(after, Connected(before.map, w, before.sessions))]

\* The map and the sessions after each write of q, from map s and sessions ss.
Course(op, q, s, ss) ==
    LET at[i \in 0 .. Len(q)] ==
            IF i = 0 THEN [map |-> s, sessions |-> ss]
            ELSE Applied(at[i - 1], q[i], op[q[i]])
    IN  at

\* Mutant: an outcome stands as the write left it.
RevalidatedNever(w, ns, final) == ns

\* mark_absent_after_batch, revalidate_final_presence_after_batch.  When none
\* of the nodes is left the list of ids is not cut down, unlike the rest of
\* the outcome.
Revalidated(w, ns, final) ==
    LET still == ns \cap Present(final)
    IN  IF ~NeedsPresence(w) \/ (w.kind = "approve" /\ still = {}) THEN ns ELSE still

\* The answer to the i-th write of q.
AnswerOf(op, q, s, i) ==
    LET at == Course(op, q, s, {})
    IN  Revalidated(op[q[i]], Outcome(at[i - 1].map, op[q[i]]), at[Len(q)].map)

NoticeOf(op, q, s, i) ==
    LET at == Course(op, q, s, {})
    IN  Revalidated(op[q[i]], Notice(at[i - 1].map, op[q[i]]), at[Len(q)].map)

MapAfter(op, q, s) == Course(op, q, s, {})[Len(q)].map
=============================================================================
