----------------------------- MODULE MapBatcher ------------------------------
(***************************************************************************)
(* How a change of the registry reaches the map streams when the batcher   *)
(* runs (tailscale_wire/mod.rs and map.rs), as it does in the server.      *)
(*                                                                         *)
(* A writer edits the registry (or the policy), then queues a change for   *)
(* every node that has a connection entry: it reads the entries first and  *)
(* takes the lock of the queue afterwards.  The batcher drains the queue   *)
(* and, after it has released the lock, sends the batch on a broadcast     *)
(* channel of bounded size.  A stream registers its connection, subscribes *)
(* to the channel, takes its snapshot and builds its first map; then it    *)
(* waits for batches, DNS edits, pings and its keepalive timer, in that    *)
(* order of preference.  Streams, writers, batcher and the deletion of     *)
(* nodes are concurrent.                                                   *)
(*                                                                         *)
(* The wake-up of the generation counter is left out: with the batcher     *)
(* running it only notes the number.  So is the watch channel of a policy  *)
(* store that has no registry bound to it.                                 *)
(***************************************************************************)
EXTENDS MapFrames, Sequences

CONSTANTS
    Streams,      \* map requests, each a stream of its owner
    Owner,        \* the node of a stream
    Writers,      \* callers that edit the registry or the policy
    Policies,     \* the policies, numbered; 0 is the one the server starts with
    Allows,       \* the peers a full map shows under each policy
    EmptyAcl,     \* the policies without ACL rules (grants may still show peers)
    UpdateReasons,\* how an edit of a node is announced
    BatchBuffer,  \* capacity of the broadcast channel
    MaxEdits,     \* bound: edits of registry, policy and DNS
    MaxPings      \* bound: pings queued

ASSUME MapBatcherAssumption ==
    /\ Owner \in [Streams -> Nodes]
    /\ MaxEdits \in Nat /\ MaxPings \in Nat
    /\ BatchBuffer \in Nat \ {0}
    /\ Policies \subseteq Nat /\ 0 \in Policies /\ EmptyAcl \subseteq Policies
    /\ Allows \in [Policies -> SUBSET Nodes]
    /\ UpdateReasons \subseteq {"NodeUpdated", "EndpointDerpUpdate"}

VARIABLES
    registry,   \* version of each node's record, 0 when there is none
    retired,    \* ids of deleted nodes, which are never given again
    policy,     \* the policy in force
    dns,        \* version of the DNS configuration
    edits,      \* edits made so far, the source of fresh versions
    unsaved,    \* nodes edited live by a request whose save then failed
    todo,       \* changes each writer has still to queue
    ids,        \* connection entries a writer has read, before it locks the queue
    active,     \* nodes with a connection entry
    pending,    \* changes queued for each node
    batch,      \* the batch drained and not sent yet
    pc,         \* what each stream is doing
    view,       \* what each stream has been shown
    initial,    \* nodes that were registered when a stream's first map was built
    queue,      \* batches a stream has still to receive
    lagged,     \* streams that missed a batch
    dnsDirty,   \* streams with a DNS edit to look at
    pingDirty,  \* streams with a ping wake-up to look at
    hold,       \* streams that began their wait with a full update queued
    cancelled,  \* streams of deleted nodes
    pings,      \* pings waiting for a stream of each node
    pinged      \* pings queued so far

registryVars == <<registry, retired, policy, dns, edits, unsaved>>
queueVars    == <<pending, batch>>
streamVars   == <<pc, view, initial, queue, lagged, dnsDirty, pingDirty, hold>>
pingVars     == <<pings, pinged>>
vars == <<registryVars, todo, ids, active, queueVars, streamVars, cancelled, pingVars>>

NoIds   == {None}
NoBatch == <<>>
EmptyView == [peers |-> [p \in Nodes |-> 0], policy |-> 0, dns |-> 0]
Nothing   == [n \in Nodes |-> {}]

StreamStates == {"idle", "connected", "subscribed", "built", "poll", "wait", "ended"}

\* Mutant: the channels are subscribed to after the first map is built.
SubscribedLate == {s \in Streams : pc[s] \in {"poll", "wait"}}

\* Streams that hold a receiver of the batches.
Subscribed == {s \in Streams : pc[s] \in {"subscribed", "built", "poll", "wait"}}

\* Streams that have been shown a map and will be shown more.
Streaming == {s \in Streams : pc[s] \in {"built", "poll", "wait"} /\ s \notin cancelled}

\* The map a full rebuild shows to node n now.
World(n) ==
    [peers  |-> [p \in Nodes |-> IF p = n \/ p \in Allows[policy] THEN registry[p] ELSE 0],
     policy |-> policy,
     dns    |-> dns]

\* The map a delta without a policy change brings stream s to.
DeltaWorld(s) ==
    IF policy \in EmptyAcl
    THEN Surfaced(Owner[s], view[s], World(Owner[s]), registry, initial[s])
    ELSE World(Owner[s])

TypeOK ==
    /\ registry \in [Nodes -> 0..MaxEdits + 1]
    /\ retired \subseteq Nodes
    /\ policy \in Policies /\ dns \in 0..MaxEdits /\ edits \in 0..MaxEdits
    /\ unsaved \subseteq Nodes
    /\ todo \in [Writers -> Seq(Change)]
    /\ ids \in [Writers -> (SUBSET Nodes) \cup {NoIds}]
    /\ active \subseteq Nodes
    /\ pending \in [Nodes -> SUBSET Change]
    /\ batch = NoBatch \/ batch \in [Nodes -> SUBSET Change]
    /\ pc \in [Streams -> StreamStates]
    /\ view \in [Streams -> View]
    /\ initial \in [Streams -> SUBSET Nodes]
    /\ queue \in [Streams -> Seq(SUBSET Change)]
    /\ \A s \in Streams : Len(queue[s]) <= BatchBuffer
    /\ lagged \subseteq Streams /\ dnsDirty \subseteq Streams
    /\ pingDirty \subseteq Streams /\ hold \subseteq Streams /\ cancelled \subseteq Streams
    /\ pings \in [Nodes -> 0..MaxPings] /\ pinged \in 0..MaxPings

Init ==
    /\ registry \in [Nodes -> {0, 1}]
    /\ retired = {}
    /\ policy = 0 /\ dns = 0 /\ edits = 0 /\ unsaved = {}
    /\ todo = [w \in Writers |-> <<>>]
    /\ ids = [w \in Writers |-> NoIds]
    /\ active = {}
    /\ pending = Nothing /\ batch = NoBatch
    /\ pc = [s \in Streams |-> "idle"]
    /\ view = [s \in Streams |-> EmptyView]
    /\ initial = [s \in Streams |-> {}]
    /\ queue = [s \in Streams |-> <<>>]
    /\ lagged = {} /\ dnsDirty = {} /\ pingDirty = {} /\ hold = {} /\ cancelled = {}
    /\ pings = [n \in Nodes |-> 0] /\ pinged = 0

-----------------------------------------------------------------------------
(* Writers.  The registry is edited first, the change queued afterwards.   *)

Edit(w) ==
    /\ todo[w] = <<>>
    /\ edits < MaxEdits
    /\ edits' = edits + 1

Announce(w, changes) == todo' = [todo EXCEPT ![w] = changes]

\* An edit of one node's record, announced as a change of that peer.
UpdateNode(w, p, reason) ==
    /\ Edit(w)
    /\ registry[p] # 0
    /\ registry' = [registry EXCEPT ![p] = edits + 2]
    /\ unsaved' = unsaved \ {p}
    /\ Announce(w, <<Broadcast(reason, p)>>)
    /\ UNCHANGED <<retired, policy, dns, ids, active, queueVars, streamVars, cancelled,
                   pingVars>>

\* A registration gives the node a fresh id.  It is announced by one change:
\* the new peer, or a policy change when the policy depends on the node.
AddNode(w, p) ==
    /\ Edit(w)
    /\ registry[p] = 0 /\ p \notin retired
    /\ registry' = [registry EXCEPT ![p] = edits + 2]
    /\ \E c \in {Broadcast("NodeUpdated", p), Global("PolicyChange")} : Announce(w, <<c>>)
    /\ UNCHANGED <<retired, policy, dns, unsaved, ids, active, queueVars, streamVars,
                   cancelled, pingVars>>

\* auto_approve_registered_routes: after its registration the routes of the
\* node are approved in the live record, quietly.  The policy change that
\* tells of it comes only when the save has succeeded.
ApproveRoutes(w, p) ==
    /\ Edit(w)
    /\ registry[p] # 0
    /\ registry' = [registry EXCEPT ![p] = edits + 2]
    /\ \/ Announce(w, <<Global("PolicyChange")>>) /\ unsaved' = {}
       \/ Announce(w, <<>>) /\ unsaved' = unsaved \cup {p}
    /\ UNCHANGED <<retired, policy, dns, ids, active, queueVars, streamVars, cancelled,
                   pingVars>>

\* A change of the primary routes: it shows in the records of several nodes,
\* so everyone gets a full update.
MoveRoutes(w) ==
    /\ Edit(w)
    /\ registry' = [p \in Nodes |-> IF registry[p] = 0 THEN 0 ELSE edits + 2]
    /\ unsaved' = {}
    /\ Announce(w, <<Global("FullUpdate")>>)
    /\ UNCHANGED <<retired, policy, dns, ids, active, queueVars, streamVars, cancelled,
                   pingVars>>

\* A new policy, announced as a change that has every peer recomputed.
SetPolicy(w, v) ==
    /\ Edit(w)
    /\ policy' = v
    /\ unsaved' = {}
    /\ Announce(w, <<Global("PolicyChange")>>)
    /\ UNCHANGED <<registry, retired, dns, ids, active, queueVars, streamVars, cancelled,
                   pingVars>>

\* Deleting a node: the writer of the node store also retires the connection
\* entry, the queue and the streams of the node.
DeleteNode(w, p) ==
    /\ Edit(w)
    /\ registry[p] # 0
    /\ registry' = [registry EXCEPT ![p] = 0]
    /\ retired' = retired \cup {p}
    /\ unsaved' = unsaved \ {p}
    /\ active' = active \ {p}
    /\ pending' = [pending EXCEPT ![p] = {}]
    /\ cancelled' = cancelled \cup {s \in Streams : Owner[s] = p /\ pc[s] \notin {"idle", "ended"}}
    /\ Announce(w, <<Broadcast("PeersRemoved", p)>>)
    /\ UNCHANGED <<policy, dns, ids, batch, streamVars, pingVars>>

\* The save of a map request fails after the live record was edited: the
\* request is answered with an error and its change is never queued.
SaveFails(w) ==
    /\ todo[w] # <<>> /\ ids[w] = NoIds
    /\ Head(todo[w]).reason \in UpdateReasons /\ Len(todo[w]) = 1
    /\ unsaved' = unsaved \cup {Head(todo[w]).node}
    /\ Announce(w, <<>>)
    /\ UNCHANGED <<registry, retired, policy, dns, edits, ids, active, queueVars,
                   streamVars, cancelled, pingVars>>

\* dispatch_ping_request: the ping is queued and every stream woken, then a
\* change that carries no content is queued for the node.
DispatchPing(w, n) ==
    /\ todo[w] = <<>>
    /\ pinged < MaxPings
    /\ pinged' = pinged + 1
    /\ pings' = [pings EXCEPT ![n] = @ + 1]
    /\ pingDirty' = pingDirty \cup {s \in Streams : pc[s] \in {"poll", "wait"}}
    /\ Announce(w, <<Targeted("PingNode", n)>>)
    /\ UNCHANGED <<registryVars, ids, active, queueVars, pc, view, initial, queue, lagged,
                   dnsDirty, hold, cancelled>>

-----------------------------------------------------------------------------
(* The queue of changes and the batcher.                                   *)

\* batcher_node_ids: the entries are read before the queue is locked.
ReadIds(w) ==
    /\ todo[w] # <<>> /\ ids[w] = NoIds
    /\ ids' = [ids EXCEPT ![w] = active]
    /\ UNCHANGED <<registryVars, todo, active, queueVars, streamVars, cancelled, pingVars>>

\* The queue after a change: a full update stands for everything queued
\* before it, and nothing is kept for a removed node.
Enqueued(nodeIds, c) ==
    [n \in Nodes |->
        IF n \in PeersRemoved(c) THEN {}
        ELSE IF n \in nodeIds /\ ShouldSendTo(c, n)
        THEN IF IsFull(c) /\ c.target = None THEN {c} ELSE pending[n] \cup {c}
        ELSE pending[n]]

EnqueueMapChange(w) ==
    /\ todo[w] # <<>> /\ ids[w] # NoIds
    /\ pending' = Enqueued(ids[w], Head(todo[w]))
    /\ todo' = [todo EXCEPT ![w] = Tail(@)]
    /\ ids' = [ids EXCEPT ![w] = NoIds]
    /\ UNCHANGED <<registryVars, active, batch, streamVars, cancelled, pingVars>>

\* Mutant: a single queued change does not make a batch.
DrainPendingMany ==
    /\ batch = NoBatch
    /\ \E n \in Nodes : Cardinality(pending[n]) > 1
    /\ batch' = pending
    /\ pending' = Nothing
    /\ UNCHANGED <<registryVars, todo, ids, active, streamVars, cancelled, pingVars>>

DrainPending ==
    /\ batch = NoBatch
    /\ pending # Nothing
    /\ batch' = pending
    /\ pending' = Nothing
    /\ UNCHANGED <<registryVars, todo, ids, active, streamVars, cancelled, pingVars>>

\* The broadcast: a receiver that is full loses its oldest batch and will be
\* told that it lagged.
Delivered(s) ==
    LET q == Append(queue[s], batch[Owner[s]])
    IN  IF Len(q) > BatchBuffer THEN Tail(q) ELSE q

SendBatch ==
    /\ batch # NoBatch
    /\ batch' = NoBatch
    /\ queue' = [s \in Streams |-> IF s \in Subscribed THEN Delivered(s) ELSE queue[s]]
    /\ lagged' = lagged \cup {s \in Subscribed : Len(queue[s]) = BatchBuffer}
    /\ UNCHANGED <<registryVars, todo, ids, active, pending, pc, view, initial, dnsDirty,
                   pingDirty, hold, cancelled, pingVars>>

-----------------------------------------------------------------------------
(* Streams.                                                                *)

Goto(s, state) == pc' = [pc EXCEPT ![s] = state]

\* The connection entry is there before the stream subscribes or looks.
Connect(s) ==
    /\ pc[s] = "idle"
    /\ registry[Owner[s]] # 0
    /\ active' = active \cup {Owner[s]}
    /\ Goto(s, "connected")
    /\ UNCHANGED <<registryVars, todo, ids, queueVars, view, initial, queue, lagged,
                   dnsDirty, pingDirty, hold, cancelled, pingVars>>

Subscribe(s) ==
    /\ pc[s] = "connected"
    /\ Goto(s, "subscribed")
    /\ UNCHANGED <<registryVars, todo, ids, active, queueVars, view, initial, queue, lagged,
                   dnsDirty, pingDirty, hold, cancelled, pingVars>>

\* Taking a ping wakes every stream again when more are queued.
PopPing(n) ==
    /\ pings' = [pings EXCEPT ![n] = @ - 1]
    /\ pingDirty' = IF pings[n] > 1
                    THEN pingDirty \cup {t \in Streams : pc[t] \in {"poll", "wait"}}
                    ELSE pingDirty

\* The initial map, which takes a ping along.
BuildInitial(s) ==
    /\ pc[s] = "subscribed" /\ s \notin cancelled
    /\ view' = [view EXCEPT ![s] = World(Owner[s])]
    /\ initial' = [initial EXCEPT ![s] = {p \in Nodes : registry[p] # 0}]
    /\ IF pings[Owner[s]] > 0 THEN PopPing(Owner[s]) ELSE UNCHANGED <<pings, pingDirty>>
    /\ Goto(s, "built")
    /\ UNCHANGED <<registryVars, todo, ids, active, queueVars, queue, lagged, dnsDirty,
                   hold, cancelled, pinged>>

\* The ping channel is subscribed to last; a ping queued before is not seen
\* as a wake-up.
OpenStream(s) ==
    /\ pc[s] = "built" /\ s \notin cancelled
    /\ Goto(s, "poll")
    /\ UNCHANGED <<registryVars, todo, ids, active, queueVars, view, initial, queue, lagged,
                   dnsDirty, pingDirty, hold, cancelled, pingVars>>

BatchReady(s) == s \in lagged \/ queue[s] # <<>>
FullPending(n) == \E c \in pending[n] : IsFull(c)

\* Mutant: the wait starts without a look at the queued pings.
PollWakeOnly(s) ==
    /\ pc[s] = "poll" /\ s \notin cancelled
    /\ Goto(s, "wait")
    /\ hold' = IF FullPending(Owner[s]) THEN hold \cup {s} ELSE hold \ {s}
    /\ UNCHANGED <<registryVars, todo, ids, active, queueVars, view, initial, queue, lagged,
                   dnsDirty, pingDirty, cancelled, pingVars>>

\* The start of a wait: a queued ping goes out at once unless a full update
\* is queued or a batch is ready.
Poll(s) ==
    /\ pc[s] = "poll" /\ s \notin cancelled
    /\ LET n == Owner[s]
       IN  IF ~FullPending(n) /\ ~BatchReady(s) /\ pings[n] > 0
           THEN PopPing(n) /\ UNCHANGED <<pc, hold>>
           ELSE /\ Goto(s, "wait")
                /\ hold' = IF FullPending(n) THEN hold \cup {s} ELSE hold \ {s}
                /\ UNCHANGED <<pings, pingDirty>>
    /\ UNCHANGED <<registryVars, todo, ids, active, queueVars, view, initial, queue, lagged,
                   dnsDirty, cancelled, pinged>>

Waiting(s) == pc[s] = "wait" /\ s \notin cancelled

\* A frame ends the wait.  A wake-up without a frame does not, unless the
\* keepalive deadline has passed meanwhile.
Resume(s, frame) ==
    /\ view' = [view EXCEPT ![s] = frame.view]
    /\ \/ Goto(s, "poll")
       \/ ~frame.sent /\ UNCHANGED pc

ReceiveBatch(s) ==
    /\ Waiting(s) /\ s \notin lagged /\ queue[s] # <<>>
    /\ queue' = [queue EXCEPT ![s] = Tail(@)]
    /\ Resume(s, BatchFrame(Owner[s], view[s], World(Owner[s]), DeltaWorld(s), Head(queue[s])))
    /\ UNCHANGED <<registryVars, todo, ids, active, queueVars, initial, lagged, dnsDirty,
                   pingDirty, hold, cancelled, pingVars>>

\* A receiver that lost batches is shown everything.
ReceiveLagged(s) ==
    /\ Waiting(s) /\ s \in lagged
    /\ lagged' = lagged \ {s}
    /\ Resume(s, FullFrame(World(Owner[s])))
    /\ UNCHANGED <<registryVars, todo, ids, active, queueVars, initial, queue, dnsDirty,
                   pingDirty, hold, cancelled, pingVars>>

DnsWake(s) ==
    /\ Waiting(s) /\ ~BatchReady(s) /\ s \in dnsDirty
    /\ dnsDirty' = dnsDirty \ {s}
    /\ Resume(s, FullFrame(World(Owner[s])))
    /\ UNCHANGED <<registryVars, todo, ids, active, queueVars, initial, queue, lagged,
                   pingDirty, hold, cancelled, pingVars>>

PingReady(s) == s \in pingDirty /\ s \notin hold

PingWake(s) ==
    /\ Waiting(s) /\ ~BatchReady(s) /\ s \notin dnsDirty /\ PingReady(s)
    /\ LET n == Owner[s]
       IN  IF pings[n] > 0
           THEN /\ pings' = [pings EXCEPT ![n] = @ - 1]
                /\ pingDirty' = IF pings[n] > 1
                                THEN pingDirty \cup {t \in Streams : pc[t] \in {"poll", "wait"}}
                                ELSE pingDirty \ {s}
                /\ Goto(s, "poll")
           ELSE /\ pingDirty' = pingDirty \ {s}
                /\ pc' \in {pc, [pc EXCEPT ![s] = "poll"]}
                /\ UNCHANGED pings
    /\ UNCHANGED <<registryVars, todo, ids, active, queueVars, view, initial, queue, lagged,
                   dnsDirty, hold, cancelled, pinged>>

Keepalive(s) ==
    /\ Waiting(s) /\ ~BatchReady(s) /\ s \notin dnsDirty /\ ~PingReady(s)
    /\ Goto(s, "poll")
    /\ UNCHANGED <<registryVars, todo, ids, active, queueVars, view, initial, queue, lagged,
                   dnsDirty, pingDirty, hold, cancelled, pingVars>>

\* The client goes away, or the stream notices that its node is gone.  The
\* connection entry stays until the cleanup of long-offline nodes.
EndStream(s) ==
    /\ pc[s] \notin {"idle", "ended"}
    /\ Goto(s, "ended")
    /\ queue' = [queue EXCEPT ![s] = <<>>]
    /\ view' = [view EXCEPT ![s] = EmptyView]
    /\ initial' = [initial EXCEPT ![s] = {}]
    /\ lagged' = lagged \ {s} /\ dnsDirty' = dnsDirty \ {s}
    /\ pingDirty' = pingDirty \ {s} /\ hold' = hold \ {s}
    /\ cancelled' = cancelled \ {s}
    /\ UNCHANGED <<registryVars, todo, ids, active, queueVars, pingVars>>

EditDns ==
    /\ edits < MaxEdits
    /\ edits' = edits + 1
    /\ dns' = dns + 1
    /\ dnsDirty' = dnsDirty \cup Subscribed
    /\ UNCHANGED <<registry, retired, policy, unsaved, todo, ids, active, queueVars, pc,
                   view, initial, queue, lagged, pingDirty, hold, cancelled, pingVars>>

CleanupOffline(n) ==
    /\ n \in active
    /\ \A s \in Streams : Owner[s] = n => pc[s] \in {"idle", "ended"}
    /\ active' = active \ {n}
    /\ pending' = [pending EXCEPT ![n] = {}]
    /\ UNCHANGED <<registryVars, todo, ids, batch, streamVars, cancelled, pingVars>>

-----------------------------------------------------------------------------
WriterStep(w) ==
    \/ ReadIds(w)
    \/ EnqueueMapChange(w)

StreamStep(s) ==
    \/ Subscribe(s)
    \/ BuildInitial(s)
    \/ OpenStream(s)
    \/ Poll(s)
    \/ ReceiveBatch(s)
    \/ ReceiveLagged(s)
    \/ DnsWake(s)
    \/ PingWake(s)
    \/ Keepalive(s)

Next ==
    \/ \E w \in Writers, p \in Nodes :
         \/ \E r \in UpdateReasons : UpdateNode(w, p, r)
         \/ AddNode(w, p)
         \/ ApproveRoutes(w, p)
         \/ DeleteNode(w, p)
         \/ DispatchPing(w, p)
    \/ \E w \in Writers, v \in Policies : SetPolicy(w, v)
    \/ \E w \in Writers : MoveRoutes(w) \/ SaveFails(w) \/ WriterStep(w)
    \/ DrainPending
    \/ SendBatch
    \/ \E s \in Streams : Connect(s) \/ StreamStep(s) \/ EndStream(s)
    \/ EditDns
    \/ \E n \in Nodes : CleanupOffline(n)

Spec == Init /\ [][Next]_vars

\* A dispatch runs to its end, the batcher ticks, and a stream that is polled
\* makes progress.  Nobody is obliged to edit, to ping or to hang up; a
\* cancelled stream does end.
Fairness ==
    /\ \A w \in Writers : WF_vars(WriterStep(w))
    /\ WF_vars(DrainPending)
    /\ WF_vars(SendBatch)
    /\ \A s \in Streams : WF_vars(StreamStep(s)) /\ WF_vars(s \in cancelled /\ EndStream(s))

FairSpec == Spec /\ Fairness

-----------------------------------------------------------------------------
(* Properties.                                                             *)

\* The changes on their way to stream s: in the hands of a writer that will
\* still find the node, queued, drained, or in the stream's own channel.
OnTheWay(s) ==
    LET n == Owner[s]
        finders == {w \in Writers : ids[w] = NoIds \/ n \in ids[w]}
        first   == UNION {{todo[w][i] : i \in DOMAIN todo[w]} : w \in finders}
        later   == UNION {{todo[w][i] : i \in 2..Len(todo[w])} : w \in Writers}
        drained == IF batch = NoBatch THEN {} ELSE batch[n]
        sent    == UNION {queue[s][i] : i \in DOMAIN queue[s]}
    IN  first \cup later \cup pending[n] \cup drained \cup sent

\* Whether a change makes the stream of node n look at peer p again.
Refreshes(c, n, p) ==
    /\ ShouldSendTo(c, n)
    /\ ~IsPing(c)
    /\ p = n \/ p \in PeerFilter({c})

\* Stream s shows peer p as a full map would.  Under a policy without ACL
\* rules there is one more possibility, which the repository asserts
\* (map.rs stream_true_empty_acl_registry_delta_matches_headscale_go): a peer
\* that was not there when the first map was built may be shown as the
\* registry has it although a full map hides it.
Shows(s, p) ==
    \/ view[s].peers[p] = World(Owner[s]).peers[p]
    \/ policy \in EmptyAcl /\ p \notin initial[s] /\ view[s].peers[p] = registry[p]

\* Whatever a stream has not been shown yet is on its way to it: a change
\* that names the peer, a full or a policy update, or the news that it
\* lagged.  The only exception is a node whose last edit failed to be saved,
\* which nobody announces (mod.rs enqueue_map_change, map.rs stream loop).
NoChangeLost ==
    \A s \in Streaming : s \notin lagged =>
        /\ \A p \in Nodes : ~Shows(s, p) =>
             p \in unsaved \/ \E c \in OnTheWay(s) : Refreshes(c, Owner[s], p)
        /\ view[s].policy # policy =>
             \E c \in OnTheWay(s) : IsFull(c) \/ IsRuntime(c)
        /\ view[s].dns # dns =>
             s \in dnsDirty \/ \E c \in OnTheWay(s) : IsFull(c)

\* A stream that stays open is shown the registry as it is, again and again
\* after every edit, whatever it missed while it subscribed or lagged; under
\* a policy without ACL rules up to the peers that came later.
Current(s) ==
    s \in Streaming =>
      /\ \A p \in Nodes \ unsaved : Shows(s, p)
      /\ view[s].policy = policy /\ view[s].dns = dns

Converges == \A s \in Streams : []<>Current(s)

\* A ping queued for a node with an open stream is taken by it, also when it
\* was queued before the stream subscribed to the pings.
PingTaken ==
    \A n \in Nodes :
        (pings[n] > 0) ~>
          (pings[n] = 0 \/ \A s \in Streaming : Owner[s] # n)
=============================================================================
