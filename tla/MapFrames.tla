------------------------------ MODULE MapFrames ------------------------------
(***************************************************************************)
(* Map changes, and the frames a map stream builds from them               *)
(* (tailscale_wire/mod.rs: MapChange, MapChangeContent; tailscale_wire/    *)
(* map.rs: rebuild_map_batch_chunk, rebuild_peer_delta_chunk,              *)
(* rebuild_map_chunk).  Pure operators: the module MapBatcher says where   *)
(* the changes come from and when a frame is built.                        *)
(*                                                                         *)
(* A change carries no node data.  It says which peers are affected and    *)
(* how much of the map has to be recomputed; the frame is computed when it *)
(* is sent, by comparing the live registry with what the stream has been   *)
(* shown.  So a view here is the version of each peer the stream has been  *)
(* shown (0 for a peer it does not show) and the versions of the policy    *)
(* and of the DNS configuration.                                           *)
(***************************************************************************)
EXTENDS Naturals, FiniteSets

CONSTANTS
    Nodes,    \* the stable node ids
    None      \* no node: an untargeted change

ASSUME MapFramesAssumption == None \notin Nodes

-----------------------------------------------------------------------------
(* Changes.  One reason stands for each class of content: NodeUpdated for  *)
(* the reasons that resend a whole peer, EndpointDerpUpdate for those that *)
(* patch one, FullUpdate for the full ones, PolicyChange for those that    *)
(* have the peers recomputed.                                              *)

Reasons ==
    {"NodeUpdated", "EndpointDerpUpdate", "PeersRemoved", "FullUpdate",
     "PolicyChange", "PingNode"}

Change ==
    [reason : Reasons, node : Nodes \cup {None}, target : Nodes \cup {None}]

Broadcast(reason, node) == [reason |-> reason, node |-> node, target |-> None]
Global(reason)          == Broadcast(reason, None)
Targeted(reason, node)  == [reason |-> reason, node |-> node, target |-> node]

IsFull(c)  == c.reason = "FullUpdate"
IsPing(c)  == c.reason = "PingNode"
IsRuntime(c) == c.reason = "PolicyChange"

PeersOf(c, reason) == IF c.reason = reason THEN {c.node} ELSE {}

PeersChanged(c) == PeersOf(c, "NodeUpdated")
PeerPatches(c)  == PeersOf(c, "EndpointDerpUpdate")
PeersRemoved(c) == PeersOf(c, "PeersRemoved")

ShouldSendTo(c, n) == c.target \in {None, n}

\* The peers whose state the changes allow a delta to touch; a change that
\* has the peers recomputed lifts the restriction.
PeerFilter(changes) ==
    IF \E c \in changes : IsFull(c) \/ IsRuntime(c)
    THEN Nodes
    ELSE UNION {PeersChanged(c) \cup PeersRemoved(c) \cup PeerPatches(c) : c \in changes}

ForcedFull(changes) == UNION {PeersChanged(c) : c \in changes}

-----------------------------------------------------------------------------
(* Frames.  "sent" tells whether the changes produce a frame at all.       *)

View == [peers : [Nodes -> Nat], policy : Nat, dns : Nat]

FullFrame(world) == [sent |-> TRUE, view |-> world]

\* The delta of a stream of node self that has been shown view and is to be
\* shown world: removals are computed over every peer, additions
\* and updates only over the peers in scope.  (A self record whose DNS inputs
\* changed also brings the DNS configuration along; the model does not count
\* on it.)
DeltaFrame(self, view, world, policyFrame, forced, scope) ==
    LET removed == {p \in Nodes \ {self} : view.peers[p] # 0 /\ world.peers[p] = 0}
        changed == {p \in scope \ {self} :
                      /\ world.peers[p] # 0
                      /\ \/ policyFrame
                         \/ p \in forced
                         \/ view.peers[p] # world.peers[p]}
        peerless    == changed = {} /\ removed = {} /\ ~policyFrame
        selfChanged == view.peers[self] # world.peers[self]
    IN  IF peerless /\ ~selfChanged
        THEN [sent |-> FALSE, view |-> view]
        ELSE [sent |-> TRUE,
              view |-> [peers  |-> [p \in Nodes |->
                                      IF p \in changed \cup removed \cup {self}
                                      THEN world.peers[p]
                                      ELSE view.peers[p]],
                        policy |-> IF peerless THEN view.policy ELSE world.policy,
                        dns    |-> view.dns]]

\* What a delta compares with under a policy without ACL rules, when records
\* are the versions in the registry (incremental_allowed_peer_ids_for_snapshot):
\* a peer stays when it is shown already, and is shown when it was not there
\* when the first map was built, whatever a full map shows.
Surfaced(self, view, world, records, initial) ==
    [world EXCEPT !.peers =
        [p \in Nodes |-> IF p = self \/ view.peers[p] # 0 \/ p \notin initial
                         THEN records[p] ELSE 0]]

\* The frame of one batch of changes.  A delta without a policy change is
\* compared with surfaced, everything else with what a full map shows.
BatchFrame(self, view, world, surfaced, changes) ==
    LET runtime == \E c \in changes : IsRuntime(c)
    IN  IF \A c \in changes : IsPing(c)
        THEN [sent |-> FALSE, view |-> view]
        ELSE IF \E c \in changes : IsFull(c)
        THEN FullFrame(world)
        ELSE DeltaFrame(self, view, IF runtime THEN world ELSE surfaced, runtime,
                        ForcedFull(changes), PeerFilter(changes))
=============================================================================
