-------------------------- MODULE MapBatcherProofs --------------------------
(***************************************************************************)
(* Proofs about MapBatcher, for any number of nodes, streams, writers,     *)
(* edits and pings, any policy and any size of the broadcast channel: the  *)
(* types, and that no change is lost on its way to an open stream.         *)
(*                                                                         *)
(* NoChangeLost is not inductive as it stands.  It lets any change for the *)
(* stream's own node stand for an edit of that node, and when the request  *)
(* behind that change fails to be saved, nothing would be left.  NothingLost *)
(* is what really holds: whatever a stream has not been shown is covered   *)
(* by a change that names it, or that has every peer recomputed.  Under a  *)
(* policy without ACL rules a change that names a peer is not enough when  *)
(* the peer is shown or hidden against the policy (Astray): then a policy  *)
(* or a full update must be on its way.                                    *)
(***************************************************************************)
EXTENDS MapBatcher, TLAPS

\* A change is carried to stream s by place i of a writer's list, when the
\* writer has not read the connection entries yet or has found the node.
ByWriter(s, w, i) == ids[w] = NoIds \/ Owner[s] \in ids[w] \/ i # 1

\* OnTheWay, one change at a time.
Carried(s, c) ==
    \/ \E w \in Writers : \E i \in DOMAIN todo[w] : todo[w][i] = c /\ ByWriter(s, w, i)
    \/ c \in pending[Owner[s]]
    \/ batch # NoBatch /\ c \in batch[Owner[s]]
    \/ \E i \in DOMAIN queue[s] : c \in queue[s][i]

\* Change c has the stream of node n compare its view of p with the registry.
Covers(c, n, p) == ShouldSendTo(c, n) /\ p \in PeerFilter({c})

\* Change c has the whole policy sent again.
CoversPolicy(c, n) == ShouldSendTo(c, n) /\ (IsFull(c) \/ IsRuntime(c))

\* What stream s has not been shown of peer p, of the policy and of the DNS.
Behind(s, p)    == ~Shows(s, p)
BehindPolicy(s) == view[s].policy # policy
BehindDns(s)    == view[s].dns # dns

Told(s, p)    == \E c \in Change : Carried(s, c) /\ Covers(c, Owner[s], p)
ToldPolicy(s) == \E c \in Change : Carried(s, c) /\ CoversPolicy(c, Owner[s])

\* Peer p is shown against the policy, or hidden against it, in a way that a
\* delta without a policy change may leave as it is.
Astray(s, p) ==
    \/ /\ view[s].peers[p] # 0 /\ p \notin Allows[policy]
       /\ p \in initial[s] \/ policy \notin EmptyAcl
    \/ /\ view[s].peers[p] = 0 /\ p \in Allows[policy]
       /\ p \in initial[s] /\ registry[p] # 0

UpToDate(s) ==
    /\ \A p \in Nodes : Behind(s, p) => p \in unsaved \/ Told(s, p)
    /\ BehindPolicy(s) => ToldPolicy(s)
    /\ BehindDns(s) => s \in dnsDirty
    /\ \A p \in Nodes \ {Owner[s]} : Astray(s, p) => ToldPolicy(s)

NothingLost == \A s \in Streaming \ lagged : UpToDate(s)

\* Versions are drawn from the edits, pings from the dispatched ones.
Counters ==
    /\ dns <= edits
    /\ \A n \in Nodes : pings[n] <= pinged

\* A writer has read the connection entries only for a change it still has.
IdsForChange == \A w \in Writers : todo[w] = <<>> => ids[w] = NoIds

\* The changes of a writer: an update and a removal name a node, and a removed
\* node's id is retired.
TodoSound ==
    \A w \in Writers : \A i \in DOMAIN todo[w] :
       /\ todo[w][i].reason \in {"NodeUpdated", "EndpointDerpUpdate", "PeersRemoved"} =>
            todo[w][i].node \in Nodes
       /\ todo[w][i].reason = "PeersRemoved" => todo[w][i].node \in retired

\* A retired id has no record, and a node that was there when a first map was
\* built is still there or retired: a node that is added is new to everyone.
IdsFresh ==
    /\ \A p \in retired : registry[p] = 0
    /\ \A s \in Streams : \A p \in initial[s] : registry[p] # 0 \/ p \in retired

\* A stream that goes on has a connection entry and a registered node.
StreamsKnown ==
    \A s \in Streams \ cancelled : pc[s] \notin {"idle", "ended"} =>
       Owner[s] \in active /\ registry[Owner[s]] # 0

Inv ==
    /\ TypeOK
    /\ Counters
    /\ IdsForChange
    /\ TodoSound
    /\ IdsFresh
    /\ StreamsKnown
    /\ NothingLost

-----------------------------------------------------------------------------
\* Changes and frames.

LEMMA ChangeTypes ==
  ASSUME NEW p \in Nodes, NEW r \in Reasons
  PROVE  /\ Broadcast(r, p) \in Change
         /\ Global(r) \in Change
         /\ Targeted(r, p) \in Change
BY DEF Broadcast, Global, Targeted, Change

\* The scope of a batch holds the scope of each of its changes.
LEMMA ScopeGrows ==
  ASSUME NEW changes, NEW c \in changes
  PROVE  /\ Nodes \cap PeerFilter({c}) \subseteq PeerFilter(changes)
         /\ IsFull(c) \/ IsRuntime(c) => PeerFilter({c}) = Nodes
         /\ IsPing(c) => PeerFilter({c}) = {}
BY DEF PeerFilter, IsFull, IsRuntime, IsPing, PeersChanged, PeersRemoved, PeerPatches, PeersOf

\* A full rebuild is a view.
LEMMA WorldView ==
  ASSUME TypeOK, NEW n \in Nodes
  PROVE  World(n) \in View
BY MapBatcherAssumption DEF World, View, TypeOK

\* What a delta shows: the peers in its scope as they are, the others as they
\* are or as they were.
LEMMA DeltaShows ==
  ASSUME NEW self \in Nodes, NEW v \in View, NEW world \in View,
         NEW policyFrame \in BOOLEAN, NEW forced, NEW scope, NEW after,
         after = DeltaFrame(self, v, world, policyFrame, forced, scope).view
  PROVE  /\ after \in View
         /\ \A p \in Nodes : after.peers[p] \in {v.peers[p], world.peers[p]}
         /\ \A p \in Nodes \cap scope : after.peers[p] = world.peers[p]
         /\ after.policy \in {v.policy, world.policy}
         /\ policyFrame => after.policy = world.policy
         /\ after.dns = v.dns
<1> DEFINE removed == {p \in Nodes \ {self} : v.peers[p] # 0 /\ world.peers[p] = 0}
           changed == {p \in scope \ {self} :
                         /\ world.peers[p] # 0
                         /\ \/ policyFrame
                            \/ p \in forced
                            \/ v.peers[p] # world.peers[p]}
           peerless == changed = {} /\ removed = {} /\ ~policyFrame
           selfChanged == v.peers[self] # world.peers[self]
           sent == [peers  |-> [p \in Nodes |->
                                  IF p \in changed \cup removed \cup {self}
                                  THEN world.peers[p]
                                  ELSE v.peers[p]],
                    policy |-> IF peerless THEN v.policy ELSE world.policy,
                    dns    |-> v.dns]
<1>1. after = IF peerless /\ ~selfChanged THEN v ELSE sent
  BY DEF DeltaFrame
<1>2. /\ v.peers \in [Nodes -> Nat] /\ v.policy \in Nat /\ v.dns \in Nat
      /\ world.peers \in [Nodes -> Nat] /\ world.policy \in Nat /\ world.dns \in Nat
  BY DEF View
<1>3. CASE peerless /\ ~selfChanged
  <2>1. after = v
    BY <1>1, <1>3
  <2>2. ASSUME NEW p \in Nodes \cap scope
        PROVE  v.peers[p] = world.peers[p]
    <3>1. p \notin changed /\ p \notin removed
      BY <1>3
    <3> QED BY <1>3, <3>1
  <2> QED BY <1>3, <2>1, <2>2
<1>4. CASE ~(peerless /\ ~selfChanged)
  <2>1. after = sent
    BY <1>1, <1>4
  <2>2. /\ sent.peers = [p \in Nodes |-> IF p \in changed \cup removed \cup {self}
                                         THEN world.peers[p] ELSE v.peers[p]]
        /\ sent.policy = IF peerless THEN v.policy ELSE world.policy
        /\ sent.dns = v.dns
    OBVIOUS
  <2>3. sent \in View
    <3> HIDE DEF changed, removed, peerless
    <3> QED BY <1>2 DEF View
  <2>4. ASSUME NEW p \in Nodes \cap scope
        PROVE  sent.peers[p] = world.peers[p]
    <3>1. CASE p \in changed \cup removed \cup {self}
      BY <2>2, <3>1
    <3>2. CASE p \notin changed \cup removed \cup {self}
      <4>1. sent.peers[p] = v.peers[p]
        BY <2>2, <3>2
      <4>2. v.peers[p] = world.peers[p]
        BY <3>2
      <4> QED BY <4>1, <4>2
    <3> QED BY <3>1, <3>2
  <2>5. \A p \in Nodes : sent.peers[p] \in {v.peers[p], world.peers[p]}
    <3> HIDE DEF changed, removed, peerless, sent
    <3> QED BY <2>2
  <2>6. policyFrame => ~peerless
    OBVIOUS
  <2> HIDE DEF sent, peerless
  <2> QED BY <2>1, <2>2, <2>3, <2>4, <2>5, <2>6
<1> QED BY <1>3, <1>4

\* A batch that has every peer recomputed.
Recomputes(changes) == \E c \in changes : IsFull(c) \/ IsRuntime(c)

\* What the frame of a batch shows, change by change.
LEMMA BatchShows ==
  ASSUME NEW self \in Nodes, NEW v \in View, NEW world \in View, NEW surfaced \in View,
         surfaced.policy = world.policy, surfaced.dns = world.dns, NEW changes,
         NEW after, after = BatchFrame(self, v, world, surfaced, changes).view
  PROVE  /\ after \in View
         /\ Recomputes(changes) => \A p \in Nodes : after.peers[p] = world.peers[p]
         /\ ~Recomputes(changes) =>
               /\ \A p \in Nodes : after.peers[p] \in {v.peers[p], surfaced.peers[p]}
               /\ \A p \in Nodes, c \in changes :
                     Covers(c, self, p) => after.peers[p] = surfaced.peers[p]
         /\ after.policy \in {v.policy, world.policy}
         /\ \A c \in changes :
               CoversPolicy(c, self) => after.policy = world.policy
         /\ after.dns \in {v.dns, world.dns}
<1> DEFINE runtime == \E c \in changes : IsRuntime(c)
           target == IF runtime THEN world ELSE surfaced
           delta == DeltaFrame(self, v, target, runtime, ForcedFull(changes), PeerFilter(changes))
<1>1. CASE \A c \in changes : IsPing(c)
  <2>1. after = v
    BY <1>1 DEF BatchFrame
  <2>2. \A p \in Nodes, c \in changes : ~Covers(c, self, p)
    BY <1>1, ScopeGrows DEF Covers
  <2>3. ~Recomputes(changes) /\ \A c \in changes : ~CoversPolicy(c, self)
    BY <1>1 DEF Recomputes, CoversPolicy, IsPing, IsFull, IsRuntime
  <2> QED BY <2>1, <2>2, <2>3
<1>2. CASE ~(\A c \in changes : IsPing(c)) /\ \E c \in changes : IsFull(c)
  <2>1. after = world
    BY <1>2 DEF BatchFrame, FullFrame
  <2>2. Recomputes(changes)
    BY <1>2 DEF Recomputes
  <2> QED BY <2>1, <2>2
<1>3. CASE ~(\A c \in changes : IsPing(c)) /\ ~(\E c \in changes : IsFull(c))
  <2>1. after = delta.view
    BY <1>3 DEF BatchFrame
  <2>2. runtime \in BOOLEAN /\ target \in View /\ target.policy = world.policy
    OBVIOUS
  <2>3. /\ after \in View
        /\ \A p \in Nodes : after.peers[p] \in {v.peers[p], target.peers[p]}
        /\ \A p \in Nodes \cap PeerFilter(changes) : after.peers[p] = target.peers[p]
        /\ after.policy \in {v.policy, world.policy}
        /\ runtime => after.policy = world.policy
        /\ after.dns = v.dns
    <3> HIDE DEF runtime, target
    <3> QED BY <2>1, <2>2, DeltaShows
  <2>4. \A p \in Nodes, c \in changes : Covers(c, self, p) => p \in PeerFilter(changes)
    BY ScopeGrows DEF Covers
  <2>5. \A c \in changes : CoversPolicy(c, self) => runtime
    BY <1>3 DEF CoversPolicy
  <2>6. Recomputes(changes) <=> runtime
    BY <1>3 DEF Recomputes
  <2>7. runtime => PeerFilter(changes) = Nodes
    BY DEF PeerFilter
  <2>8. target = IF runtime THEN world ELSE surfaced
    OBVIOUS
  <2> HIDE DEF delta, runtime, target
  <2>9. CASE runtime
    <3>1. \A p \in Nodes : after.peers[p] = world.peers[p]
      BY <2>3, <2>7, <2>8, <2>9
    <3> QED BY <2>3, <2>6, <2>9, <3>1
  <2>10. CASE ~runtime
    BY <2>3, <2>4, <2>5, <2>6, <2>8, <2>10
  <2> QED BY <2>9, <2>10
<1> QED BY <1>1, <1>2, <1>3

\* What a delta without a policy change brings a stream to.
LEMMA DeltaWorldView ==
  ASSUME TypeOK, NEW s \in Streams
  PROVE  /\ DeltaWorld(s) \in View
         /\ DeltaWorld(s).policy = policy /\ DeltaWorld(s).dns = dns
         /\ policy \notin EmptyAcl => DeltaWorld(s) = World(Owner[s])
         /\ policy \in EmptyAcl => \A p \in Nodes : DeltaWorld(s).peers[p] =
               IF p = Owner[s] \/ view[s].peers[p] # 0 \/ p \notin initial[s]
               THEN registry[p] ELSE 0
<1> DEFINE shown == [p \in Nodes |->
                       IF p = Owner[s] \/ view[s].peers[p] # 0 \/ p \notin initial[s]
                       THEN registry[p] ELSE 0]
<1>1. World(Owner[s]) \in View /\ World(Owner[s]).policy = policy /\ World(Owner[s]).dns = dns
  BY WorldView, MapBatcherAssumption DEF World
<1>2. CASE policy \notin EmptyAcl
  BY <1>1, <1>2 DEF DeltaWorld
<1>3. CASE policy \in EmptyAcl
  <2>1. DeltaWorld(s) = [World(Owner[s]) EXCEPT !.peers = shown]
    BY <1>3 DEF DeltaWorld, Surfaced
  <2>2. shown \in [Nodes -> Nat]
    BY MapBatcherAssumption DEF TypeOK
  <2>3. DeltaWorld(s) = [peers |-> shown, policy |-> policy, dns |-> dns]
    BY <2>1 DEF World
  <2>4. DeltaWorld(s).peers = shown /\ DeltaWorld(s).policy = policy /\ DeltaWorld(s).dns = dns
    BY <2>3
  <2>5. DeltaWorld(s) \in View
    <3> HIDE DEF shown
    <3> QED BY <1>1, <2>2, <2>3 DEF View, World
  <2> QED BY <1>3, <2>4, <2>5
<1> QED BY <1>2, <1>3

\* A peer that such a delta has looked at is up to date or was astray before,
\* and it leads none astray.
LEMMA DeltaAstray ==
  ASSUME TypeOK, NEW s \in Streams, NEW p \in Nodes,
         UNCHANGED <<registry, policy, initial>>,
         view'[s].peers[p] = DeltaWorld(s).peers[p]
  PROVE  /\ Behind(s, p)' => p # Owner[s] /\ Astray(s, p)
         /\ p # Owner[s] /\ Astray(s, p)' => Astray(s, p)
<1>1. /\ World(Owner[s]).peers[p] =
           IF p = Owner[s] \/ p \in Allows[policy] THEN registry[p] ELSE 0
      /\ World(Owner[s])'.peers[p] = World(Owner[s]).peers[p]
  BY DEF World
<1>2. CASE policy \notin EmptyAcl
  <2>1. view'[s].peers[p] = World(Owner[s]).peers[p]
    BY <1>2, DeltaWorldView
  <2> QED BY <1>1, <1>2, <2>1 DEF Behind, Shows, Astray
<1>3. CASE policy \in EmptyAcl
  <2>1. view'[s].peers[p] = IF p = Owner[s] \/ view[s].peers[p] # 0 \/ p \notin initial[s]
                            THEN registry[p] ELSE 0
    BY <1>3, DeltaWorldView
  <2> QED BY <1>1, <1>3, <2>1 DEF Behind, Shows, Astray
<1> QED BY <1>2, <1>3

-----------------------------------------------------------------------------
\* What is on its way.

\* A stream to which everything that was on its way still is, and which has
\* nothing more to be shown, stays up to date.
LEMMA StaysUpToDate ==
  ASSUME NEW s \in Streams, UpToDate(s),
         UNCHANGED <<registry, policy, dns>>, view'[s] = view[s], initial'[s] = initial[s],
         unsaved \subseteq unsaved', s \in dnsDirty => s \in dnsDirty',
         \A c \in Change : Carried(s, c) => Carried(s, c)'
  PROVE  UpToDate(s)'
<1>1. /\ UNCHANGED <<BehindPolicy(s), BehindDns(s)>>
      /\ \A p \in Nodes : Behind(s, p)' = Behind(s, p) /\ Astray(s, p)' = Astray(s, p)
  BY DEF Behind, Shows, BehindPolicy, BehindDns, World, Astray
<1>2. (ToldPolicy(s) => ToldPolicy(s)') /\ \A p \in Nodes : Told(s, p) => Told(s, p)'
  BY DEF Told, ToldPolicy
<1> QED BY <1>1, <1>2 DEF UpToDate

\* A step that leaves the way to s alone.
LEMMA CarriedSame ==
  ASSUME NEW s \in Streams, NEW c,
         UNCHANGED <<todo, ids, pending, batch>>, queue'[s] = queue[s]
  PROVE  Carried(s, c) => Carried(s, c)'
BY DEF Carried, ByWriter

\* A writer that has made an edit has its changes on their way to every
\* stream, and takes none of the others away.
LEMMA CarriedAnnounce ==
  ASSUME TypeOK, IdsForChange, NEW s \in Streams, NEW w \in Writers, todo[w] = <<>>,
         NEW changes, todo' = [todo EXCEPT ![w] = changes],
         UNCHANGED <<ids, batch>>, queue'[s] = queue[s],
         pending'[Owner[s]] = pending[Owner[s]]
  PROVE  /\ \A c : Carried(s, c) => Carried(s, c)'
         /\ \A i \in DOMAIN changes : Carried(s, changes[i])'
<1>1. todo'[w] = changes /\ \A v \in Writers \ {w} : todo'[v] = todo[v]
  BY DEF TypeOK
<1>2. ids'[w] = NoIds
  BY DEF IdsForChange
<1>3. ASSUME NEW i \in DOMAIN changes PROVE Carried(s, changes[i])'
  BY <1>1, <1>2 DEF Carried, ByWriter
<1>4. ASSUME NEW c, Carried(s, c) PROVE Carried(s, c)'
  <2>1. CASE \E v \in Writers : \E i \in DOMAIN todo[v] : todo[v][i] = c /\ ByWriter(s, v, i)
    <3>1. PICK v \in Writers : \E i \in DOMAIN todo[v] : todo[v][i] = c /\ ByWriter(s, v, i)
      BY <2>1
    <3>2. v # w
      BY <3>1
    <3>3. todo'[v] = todo[v] /\ ids'[v] = ids[v]
      BY <1>1, <3>2
    <3> QED BY <3>1, <3>3 DEF Carried, ByWriter
  <2>2. CASE ~(\E v \in Writers : \E i \in DOMAIN todo[v] : todo[v][i] = c /\ ByWriter(s, v, i))
    BY <1>4, <2>2 DEF Carried
  <2> QED BY <2>1, <2>2
<1> QED BY <1>3, <1>4

\* What is carried to a stream is on its way to it.
LEMMA CarriedIsOnTheWay ==
  ASSUME TypeOK, NEW s \in Streams, NEW c, Carried(s, c)
  PROVE  c \in OnTheWay(s)
<1> DEFINE n == Owner[s]
           A == UNION {{todo[w][i] : i \in DOMAIN todo[w]} :
                          w \in {v \in Writers : ids[v] = NoIds \/ n \in ids[v]}}
           B == UNION {{todo[w][i] : i \in 2..Len(todo[w])} : w \in Writers}
           D == IF batch = NoBatch THEN {} ELSE batch[n]
           E == UNION {queue[s][i] : i \in DOMAIN queue[s]}
<1>0. OnTheWay(s) = A \cup B \cup pending[n] \cup D \cup E
  BY Zenon DEF OnTheWay
<1> HIDE DEF A, B, D, E
<1>1. CASE \E w \in Writers : \E i \in DOMAIN todo[w] : todo[w][i] = c /\ ByWriter(s, w, i)
  <2>1. PICK w \in Writers : \E i \in DOMAIN todo[w] : todo[w][i] = c /\ ByWriter(s, w, i)
    BY <1>1
  <2>2. PICK i \in DOMAIN todo[w] : todo[w][i] = c /\ ByWriter(s, w, i)
    BY <2>1
  <2>3. CASE ids[w] = NoIds \/ n \in ids[w]
    <3>1. c \in {todo[w][j] : j \in DOMAIN todo[w]}
      BY <2>2
    <3>2. c \in A
      BY <2>3, <3>1, Zenon DEF A
    <3> QED BY <1>0, <3>2
  <2>4. CASE i # 1
    <3>1. i \in 2 .. Len(todo[w])
      BY <2>4 DEF TypeOK
    <3>2. c \in {todo[w][j] : j \in 2 .. Len(todo[w])}
      BY <2>2, <3>1
    <3>3. c \in B
      BY <3>2, Zenon DEF B
    <3> QED BY <1>0, <3>3
  <2> QED BY <2>2, <2>3, <2>4 DEF ByWriter
<1>2. CASE c \in pending[n] \/ (batch # NoBatch /\ c \in batch[n])
  BY <1>0, <1>2 DEF D
<1>3. CASE \E i \in DOMAIN queue[s] : c \in queue[s][i]
  <2>1. c \in E
    BY <1>3, Zenon DEF E
  <2> QED BY <1>0, <2>1
<1> QED BY <1>1, <1>2, <1>3 DEF Carried

\* The invariant is stronger than what the run checks.
LEMMA InvImplies == Inv => NoChangeLost
<1> SUFFICES ASSUME Inv, NEW s \in Streaming, s \notin lagged
             PROVE  /\ \A p \in Nodes : ~Shows(s, p) =>
                          p \in unsaved \/ \E c \in OnTheWay(s) : Refreshes(c, Owner[s], p)
                    /\ view[s].policy # policy =>
                          \E c \in OnTheWay(s) : IsFull(c) \/ IsRuntime(c)
                    /\ view[s].dns # dns =>
                          s \in dnsDirty \/ \E c \in OnTheWay(s) : IsFull(c)
  BY DEF NoChangeLost
<1>1. s \in Streams /\ UpToDate(s) /\ TypeOK
  BY DEF Inv, NothingLost, Streaming
<1>2. ASSUME NEW p \in Nodes, Behind(s, p), p \notin unsaved
      PROVE  \E c \in OnTheWay(s) : Refreshes(c, Owner[s], p)
  <2>1. PICK c \in Change : Carried(s, c) /\ Covers(c, Owner[s], p)
    BY <1>1, <1>2 DEF UpToDate, Told
  <2>2. ~IsPing(c)
    BY <2>1, ScopeGrows DEF Covers
  <2> QED BY <1>1, <2>1, <2>2, CarriedIsOnTheWay DEF Refreshes, Covers
<1>3. ASSUME BehindPolicy(s)
      PROVE  \E c \in OnTheWay(s) : IsFull(c) \/ IsRuntime(c)
  BY <1>1, <1>3, CarriedIsOnTheWay DEF UpToDate, ToldPolicy, CoversPolicy
<1> QED BY <1>1, <1>2, <1>3 DEF Behind, BehindPolicy, BehindDns, UpToDate

-----------------------------------------------------------------------------
\* The invariant.

LEMMA InitInv == Init => Inv
<1> SUFFICES ASSUME Init PROVE Inv
  OBVIOUS
<1>1. TypeOK
  <2>1. EmptyView \in View
    BY DEF EmptyView, View
  <2>2. <<>> \in Seq(Change) /\ <<>> \in Seq(SUBSET Change) /\ Len(<<>>) = 0
    OBVIOUS
  <2>3. registry \in [Nodes -> 0..MaxEdits + 1] /\ pinged \in 0..MaxPings /\ edits \in 0..MaxEdits
    BY MapBatcherAssumption DEF Init
  <2>4. todo \in [Writers -> Seq(Change)] /\ queue \in [Streams -> Seq(SUBSET Change)]
    BY <2>2 DEF Init
  <2>5. \A s \in Streams : Len(queue[s]) <= BatchBuffer
    BY <2>2, MapBatcherAssumption DEF Init
  <2>6. pings \in [Nodes -> 0..MaxPings] /\ policy \in Policies /\ dns \in 0..MaxEdits
    BY MapBatcherAssumption DEF Init
  <2>7. /\ ids \in [Writers -> (SUBSET Nodes) \cup {NoIds}]
        /\ batch = NoBatch
    <3>1. NoIds \in (SUBSET Nodes) \cup {NoIds}
      BY Zenon
    <3>2. ids = [w \in Writers |-> NoIds] /\ batch = NoBatch
      BY DEF Init
    <3> QED BY <3>1, <3>2, Zenon
  <2>10. pending \in [Nodes -> SUBSET Change]
    BY DEF Init, Nothing
  <2>8. /\ pc \in [Streams -> StreamStates] /\ view \in [Streams -> View]
        /\ initial \in [Streams -> SUBSET Nodes]
    BY <2>1 DEF Init, StreamStates
  <2>9. /\ retired \subseteq Nodes /\ unsaved \subseteq Nodes /\ active \subseteq Nodes
        /\ lagged \subseteq Streams /\ dnsDirty \subseteq Streams
        /\ pingDirty \subseteq Streams /\ hold \subseteq Streams /\ cancelled \subseteq Streams
    BY DEF Init
  <2> QED BY <2>3, <2>4, <2>5, <2>6, <2>7, <2>8, <2>9, <2>10, Zenon DEF TypeOK
<1>2. Counters /\ IdsForChange /\ StreamsKnown
  BY DEF Init, Counters, IdsForChange, StreamsKnown
<1>3. TodoSound /\ IdsFresh
  BY DEF Init, TodoSound, IdsFresh
<1>4. Streaming = {}
  BY DEF Init, Streaming
<1> QED BY <1>1, <1>2, <1>3, <1>4 DEF Inv, NothingLost

-----------------------------------------------------------------------------
\* Steps that show a stream nothing and take nothing from its way.

\* Then no stream that was open is lost to, and one that is opened later is
\* shown everything first.
LEMMA QuietKept ==
  ASSUME NothingLost, UNCHANGED <<registry, policy, dns, unsaved, todo, ids, pending, batch>>,
         \A s \in Streaming' \ lagged' :
            /\ s \in Streaming \ lagged
            /\ queue'[s] = queue[s] /\ view'[s] = view[s] /\ initial'[s] = initial[s]
            /\ s \in dnsDirty => s \in dnsDirty'
  PROVE  NothingLost'
<1> SUFFICES ASSUME NEW s \in Streaming' \ lagged' PROVE UpToDate(s)'
  BY DEF NothingLost
<1>1. s \in Streams /\ UpToDate(s)
  BY DEF NothingLost, Streaming
<1>2. \A c \in Change : Carried(s, c) => Carried(s, c)'
  BY <1>1, CarriedSame
<1> QED BY <1>1, <1>2, StaysUpToDate

\* What the rest of the invariant says of the writers and of the counters
\* depends on these variables only.
LEMMA RestKept ==
  ASSUME Counters, IdsForChange, TodoSound, IdsFresh,
         UNCHANGED <<registry, retired, initial, policy, dns, edits, todo, ids, pings, pinged>>
  PROVE  Counters' /\ IdsForChange' /\ TodoSound' /\ IdsFresh'
BY DEF Counters, IdsForChange, TodoSound, IdsFresh


\* The entry is there before the stream, and the node is registered.
LEMMA ConnectInv ==
  ASSUME Inv, NEW s \in Streams, Connect(s)
  PROVE  Inv'
<1> USE DEF Inv
<1>1. TypeOK'
  BY MapBatcherAssumption DEF Connect, Goto, TypeOK, StreamStates,
                                   registryVars, queueVars, streamVars, pingVars
<1>2. Counters' /\ IdsForChange' /\ TodoSound' /\ IdsFresh'
  BY RestKept DEF Connect,
                                   registryVars, queueVars, streamVars, pingVars
<1>3. StreamsKnown'
  BY MapBatcherAssumption DEF Connect, Goto, TypeOK, StreamsKnown,
                                   registryVars, queueVars, streamVars, pingVars
<1>4. NothingLost'
  <2>1. \A t \in Streaming' : t \in Streaming
    BY DEF Connect, Goto, TypeOK, Streaming,
                                   registryVars, queueVars, streamVars, pingVars
  <2> QED BY <2>1, QuietKept DEF Connect,
                                   registryVars, queueVars, streamVars, pingVars
<1> QED BY <1>1, <1>2, <1>3, <1>4

\* A subscription shows nothing.
LEMMA SubscribeInv ==
  ASSUME Inv, NEW s \in Streams, Subscribe(s)
  PROVE  Inv'
<1> USE DEF Inv
<1>1. TypeOK'
  BY MapBatcherAssumption DEF Subscribe, Goto, TypeOK, StreamStates,
                                   registryVars, queueVars, streamVars, pingVars
<1>2. Counters' /\ IdsForChange' /\ TodoSound' /\ IdsFresh'
  BY RestKept DEF Subscribe,
                                   registryVars, queueVars, streamVars, pingVars
<1>3. StreamsKnown'
  BY MapBatcherAssumption DEF Subscribe, Goto, TypeOK, StreamsKnown,
                                   registryVars, queueVars, streamVars, pingVars
<1>4. NothingLost'
  <2>1. \A t \in Streaming' : t \in Streaming
    BY DEF Subscribe, Goto, TypeOK, Streaming,
                                   registryVars, queueVars, streamVars, pingVars
  <2> QED BY <2>1, QuietKept DEF Subscribe,
                                   registryVars, queueVars, streamVars, pingVars
<1> QED BY <1>1, <1>2, <1>3, <1>4

\* The open stream has been shown its first map.
LEMMA OpenStreamInv ==
  ASSUME Inv, NEW s \in Streams, OpenStream(s)
  PROVE  Inv'
<1> USE DEF Inv
<1>1. TypeOK'
  BY MapBatcherAssumption DEF OpenStream, Goto, TypeOK, StreamStates,
                                   registryVars, queueVars, streamVars, pingVars
<1>2. Counters' /\ IdsForChange' /\ TodoSound' /\ IdsFresh'
  BY RestKept DEF OpenStream,
                                   registryVars, queueVars, streamVars, pingVars
<1>3. StreamsKnown'
  BY MapBatcherAssumption DEF OpenStream, Goto, TypeOK, StreamsKnown,
                                   registryVars, queueVars, streamVars, pingVars
<1>4. NothingLost'
  <2>1. \A t \in Streaming' : t \in Streaming
    BY DEF OpenStream, Goto, TypeOK, Streaming,
                                   registryVars, queueVars, streamVars, pingVars
  <2> QED BY <2>1, QuietKept DEF OpenStream,
                                   registryVars, queueVars, streamVars, pingVars
<1> QED BY <1>1, <1>2, <1>3, <1>4

\* A keepalive shows nothing.
LEMMA KeepaliveInv ==
  ASSUME Inv, NEW s \in Streams, Keepalive(s)
  PROVE  Inv'
<1> USE DEF Inv
<1>1. TypeOK'
  BY MapBatcherAssumption DEF Keepalive, Waiting, Goto, TypeOK, StreamStates,
                                   registryVars, queueVars, streamVars, pingVars
<1>2. Counters' /\ IdsForChange' /\ TodoSound' /\ IdsFresh'
  BY RestKept DEF Keepalive, Waiting,
                                   registryVars, queueVars, streamVars, pingVars
<1>3. StreamsKnown'
  BY MapBatcherAssumption DEF Keepalive, Waiting, Goto, TypeOK, StreamsKnown,
                                   registryVars, queueVars, streamVars, pingVars
<1>4. NothingLost'
  <2>1. \A t \in Streaming' : t \in Streaming
    BY DEF Keepalive, Waiting, Goto, TypeOK, Streaming,
                                   registryVars, queueVars, streamVars, pingVars
  <2> QED BY <2>1, QuietKept DEF Keepalive, Waiting,
                                   registryVars, queueVars, streamVars, pingVars
<1> QED BY <1>1, <1>2, <1>3, <1>4

\* Taking a ping changes the pings of the node and the wake-ups only.
LEMMA PopPingTypes ==
  ASSUME TypeOK, Counters, NEW n \in Nodes, PopPing(n), pings[n] > 0, pinged' = pinged
  PROVE  /\ pings' \in [Nodes -> 0..MaxPings]
         /\ pingDirty' \subseteq Streams
         /\ \A m \in Nodes : pings'[m] <= pinged'
<1>1. pings[n] \in Nat /\ pings[n] - 1 \in 0..MaxPings
  BY MapBatcherAssumption DEF TypeOK
<1>2. pings' = [pings EXCEPT ![n] = pings[n] - 1]
  BY DEF PopPing, TypeOK
<1>3. pings' \in [Nodes -> 0..MaxPings]
  BY <1>1, <1>2 DEF TypeOK
<1>4. pingDirty' \subseteq Streams
  BY DEF PopPing, TypeOK
<1>5. ASSUME NEW m \in Nodes PROVE pings'[m] <= pinged'
  <2>1. pings[m] \in Nat /\ pinged \in Nat /\ pings[m] <= pinged
    BY MapBatcherAssumption DEF TypeOK, Counters
  <2>2. pings'[m] \in {pings[m], pings[m] - 1}
    BY <1>2 DEF TypeOK
  <2> QED BY <2>1, <2>2
<1> QED BY <1>3, <1>4, <1>5

\* The same with the counters said whole.
LEMMA PingsKept ==
  ASSUME Counters, UNCHANGED <<policy, dns, edits>>, \A m \in Nodes : pings'[m] <= pinged'
  PROVE  Counters'
BY DEF Counters

\* The start of a wait shows nothing; it may take a ping.
LEMMA PollInv ==
  ASSUME Inv, NEW s \in Streams, Poll(s)
  PROVE  Inv'
<1> USE DEF Inv
<1>0. Owner[s] \in Nodes
  BY MapBatcherAssumption
<1>1. UNCHANGED <<registry, retired, policy, dns, edits, unsaved, todo, ids, active, pending,
                  batch, view, initial, queue, lagged, dnsDirty, cancelled, pinged>>
  BY DEF Poll, registryVars, queueVars
<1>2. /\ pc' \in [Streams -> StreamStates] /\ hold' \subseteq Streams
      /\ \A t \in Streams : pc'[t] # pc[t] => t = s /\ pc[t] = "poll" /\ pc'[t] = "wait"
  BY DEF Poll, Goto, TypeOK, StreamStates
<1>3. /\ pings' \in [Nodes -> 0..MaxPings]
      /\ pingDirty' \subseteq Streams
      /\ \A m \in Nodes : pings'[m] <= pinged'
  <2>1. CASE UNCHANGED <<pings, pingDirty>>
    BY <1>1, <2>1 DEF TypeOK, Counters
  <2>2. CASE PopPing(Owner[s]) /\ pings[Owner[s]] > 0
    BY <1>0, <1>1, <2>2, PopPingTypes
  <2> QED BY <2>1, <2>2 DEF Poll
<1>4. TypeOK'
  BY <1>1, <1>2, <1>3 DEF TypeOK
<1>5. Counters' /\ IdsForChange' /\ TodoSound' /\ IdsFresh'
  BY <1>1, <1>3, PingsKept DEF IdsForChange, TodoSound, IdsFresh
<1>6. StreamsKnown'
  BY <1>1, <1>2 DEF StreamsKnown
<1>7. NothingLost'
  <2>1. \A t \in Streaming' : t \in Streaming
    BY <1>1, <1>2 DEF Streaming
  <2> QED BY <1>1, <2>1, QuietKept
<1> QED BY <1>4, <1>5, <1>6, <1>7

\* A ping wake-up shows no change.
LEMMA PingWakeInv ==
  ASSUME Inv, NEW s \in Streams, PingWake(s)
  PROVE  Inv'
<1> USE DEF Inv
<1>0. Owner[s] \in Nodes
  BY MapBatcherAssumption
<1>1. UNCHANGED <<registry, retired, policy, dns, edits, unsaved, todo, ids, active, pending,
                  batch, view, initial, queue, lagged, dnsDirty, hold, cancelled, pinged>>
  BY DEF PingWake, registryVars, queueVars
<1>2. /\ pc' \in [Streams -> StreamStates]
      /\ \A t \in Streams : pc'[t] # pc[t] => t = s /\ pc[t] = "wait" /\ pc'[t] = "poll"
  BY DEF PingWake, Goto, Waiting, TypeOK, StreamStates
<1>3. /\ pings' \in [Nodes -> 0..MaxPings]
      /\ pingDirty' \subseteq Streams
      /\ \A m \in Nodes : pings'[m] <= pinged'
  <2>1. CASE pings[Owner[s]] > 0
    <3>1. /\ pings' = [pings EXCEPT ![Owner[s]] = @ - 1]
          /\ pingDirty' \subseteq Streams
      BY <2>1 DEF PingWake, TypeOK
    <3>2. pings[Owner[s]] \in Nat /\ pings[Owner[s]] - 1 \in 0..MaxPings
      BY <1>0, <2>1, MapBatcherAssumption DEF TypeOK
    <3>3. pings' \in [Nodes -> 0..MaxPings]
      BY <1>0, <3>1, <3>2 DEF TypeOK
    <3>4. ASSUME NEW m \in Nodes PROVE pings'[m] <= pinged'
      <4>1. pings[m] \in Nat /\ pinged \in Nat /\ pings[m] <= pinged
        BY MapBatcherAssumption DEF TypeOK, Counters
      <4>2. pings'[m] \in {pings[m], pings[m] - 1}
        BY <3>1, <1>0 DEF TypeOK
      <4> QED BY <1>1, <4>1, <4>2
    <3> QED BY <3>1, <3>3, <3>4
  <2>2. CASE ~(pings[Owner[s]] > 0)
    BY <1>1, <2>2 DEF PingWake, TypeOK, Counters
  <2> QED BY <2>1, <2>2
<1>4. TypeOK'
  BY <1>1, <1>2, <1>3 DEF TypeOK
<1>5. Counters' /\ IdsForChange' /\ TodoSound' /\ IdsFresh'
  BY <1>1, <1>3, PingsKept DEF IdsForChange, TodoSound, IdsFresh
<1>6. StreamsKnown'
  BY <1>1, <1>2 DEF StreamsKnown
<1>7. NothingLost'
  <2>1. \A t \in Streaming' : t \in Streaming
    BY <1>1, <1>2 DEF Streaming
  <2> QED BY <1>1, <2>1, QuietKept
<1> QED BY <1>4, <1>5, <1>6, <1>7

\* A stream that ends is shown nothing more.
LEMMA EndStreamInv ==
  ASSUME Inv, NEW s \in Streams, EndStream(s)
  PROVE  Inv'
<1> USE DEF Inv
<1>1. UNCHANGED <<registry, retired, policy, dns, edits, unsaved, todo, ids, active, pending,
                  batch, pings, pinged>>
  BY DEF EndStream, registryVars, queueVars, pingVars
<1>2. /\ pc' \in [Streams -> StreamStates]
      /\ pc'[s] = "ended" /\ \A t \in Streams \ {s} : pc'[t] = pc[t]
  BY DEF EndStream, Goto, TypeOK, StreamStates
<1>3. /\ queue' \in [Streams -> Seq(SUBSET Change)]
      /\ queue'[s] = <<>> /\ \A t \in Streams \ {s} : queue'[t] = queue[t]
  <2>1. <<>> \in Seq(SUBSET Change)
    OBVIOUS
  <2> QED BY <2>1 DEF EndStream, TypeOK
<1>4. \A t \in Streams : Len(queue'[t]) <= BatchBuffer
  <2>1. Len(<<>>) = 0 /\ BatchBuffer \in Nat /\ 0 <= BatchBuffer
    BY MapBatcherAssumption
  <2>2. Len(queue'[s]) <= BatchBuffer
    BY <1>3, <2>1
  <2>3. \A t \in Streams \ {s} : Len(queue'[t]) <= BatchBuffer
    BY <1>3 DEF TypeOK
  <2> QED BY <2>2, <2>3
<1>5. /\ view' \in [Streams -> View]
      /\ \A t \in Streams \ {s} : view'[t] = view[t]
  <2>1. EmptyView \in View
    BY DEF EmptyView, View
  <2> QED BY <2>1 DEF EndStream, TypeOK
<1>11. /\ initial' \in [Streams -> SUBSET Nodes]
       /\ initial'[s] = {} /\ \A t \in Streams \ {s} : initial'[t] = initial[t]
  BY DEF EndStream, TypeOK
<1>6. /\ lagged' = lagged \ {s} /\ dnsDirty' = dnsDirty \ {s} /\ pingDirty' = pingDirty \ {s}
      /\ hold' = hold \ {s} /\ cancelled' = cancelled \ {s}
  BY DEF EndStream
<1>7. TypeOK'
  BY <1>1, <1>2, <1>3, <1>4, <1>5, <1>6, <1>11 DEF TypeOK
<1>8. Counters' /\ IdsForChange' /\ TodoSound' /\ IdsFresh'
  BY <1>1, <1>11 DEF Counters, IdsForChange, TodoSound, IdsFresh
<1>9. StreamsKnown'
  BY <1>1, <1>2, <1>6 DEF StreamsKnown
<1>10. NothingLost'
  <2>1. \A t \in Streaming' : t \in Streaming /\ t # s
    BY <1>2, <1>6 DEF Streaming
  <2>2. \A t \in Streaming : t \in Streams
    BY DEF Streaming
  <2> QED BY <1>1, <1>3, <1>5, <1>6, <1>11, <2>1, <2>2, QuietKept
<1> QED BY <1>7, <1>8, <1>9, <1>10

\* The entry of a node goes only when no stream needs it.
LEMMA CleanupOfflineInv ==
  ASSUME Inv, NEW n \in Nodes, CleanupOffline(n)
  PROVE  Inv'
<1> USE DEF Inv
<1>1. UNCHANGED <<registry, retired, policy, dns, edits, unsaved, todo, ids, batch, pc, view,
                  initial, queue, lagged, dnsDirty, pingDirty, hold, cancelled, pings, pinged>>
  BY DEF CleanupOffline, registryVars, streamVars, pingVars
<1>2. /\ active' = active \ {n}
      /\ pending' = [pending EXCEPT ![n] = {}]
      /\ \A s \in Streams : Owner[s] = n => pc[s] \in {"idle", "ended"}
  BY DEF CleanupOffline
<1>3. TypeOK'
  BY <1>1, <1>2 DEF TypeOK
<1>4. Counters' /\ IdsForChange' /\ TodoSound' /\ IdsFresh'
  BY <1>1, RestKept
<1>5. StreamsKnown'
  BY <1>1, <1>2 DEF StreamsKnown
<1>6. NothingLost'
  <2> SUFFICES ASSUME NEW s \in Streaming \ lagged PROVE UpToDate(s)'
    BY <1>1 DEF NothingLost, Streaming
  <2>1. s \in Streams /\ UpToDate(s) /\ Owner[s] # n /\ Owner[s] \in Nodes
    BY <1>2, MapBatcherAssumption DEF NothingLost, Streaming
  <2>2. pending'[Owner[s]] = pending[Owner[s]]
    BY <1>2, <2>1 DEF TypeOK
  <2>3. \A c \in Change : Carried(s, c) => Carried(s, c)'
    BY <1>1, <2>2 DEF Carried, ByWriter
  <2> QED BY <1>1, <2>1, <2>3, StaysUpToDate
<1> QED BY <1>3, <1>4, <1>5, <1>6

-----------------------------------------------------------------------------
\* Steps that show a stream something.

\* Whoever is shown everything is behind in nothing.
LEMMA ShownAll ==
  ASSUME NEW s \in Streams, view'[s] = World(Owner[s]), UNCHANGED <<registry, policy, dns>>
  PROVE  UpToDate(s)'
<1>1. World(Owner[s])' = World(Owner[s]) /\ World(Owner[s]).policy = policy
      /\ World(Owner[s]).dns = dns
      /\ \A p \in Nodes : World(Owner[s]).peers[p] =
            IF p = Owner[s] \/ p \in Allows[policy] THEN registry[p] ELSE 0
  BY DEF World
<1>2. ~BehindPolicy(s)' /\ ~BehindDns(s)' /\ \A p \in Nodes : ~Behind(s, p)'
  BY <1>1 DEF Behind, Shows, BehindPolicy, BehindDns
<1>3. \A p \in Nodes \ {Owner[s]} : ~Astray(s, p)'
  BY <1>1 DEF Astray
<1> QED BY <1>2, <1>3 DEF UpToDate

\* The other streams are where they were.
LEMMA ShownKept ==
  ASSUME NothingLost, UNCHANGED <<registry, policy, dns, unsaved, todo, ids, pending, batch>>,
         NEW s \in Streams, UpToDate(s)',
         \A t \in (Streaming' \ lagged') \ {s} :
            /\ t \in Streaming \ lagged
            /\ queue'[t] = queue[t] /\ view'[t] = view[t] /\ initial'[t] = initial[t]
            /\ t \in dnsDirty => t \in dnsDirty'
  PROVE  NothingLost'
<1> SUFFICES ASSUME NEW t \in (Streaming' \ lagged') \ {s} PROVE UpToDate(t)'
  BY DEF NothingLost
<1>1. t \in Streams /\ UpToDate(t)
  BY DEF NothingLost, Streaming
<1>2. \A c \in Change : Carried(t, c) => Carried(t, c)'
  BY <1>1, CarriedSame
<1> QED BY <1>1, <1>2, StaysUpToDate

\* The first map is everything there is.
LEMMA BuildInitialInv ==
  ASSUME Inv, NEW s \in Streams, BuildInitial(s)
  PROVE  Inv'
<1> USE DEF Inv
<1>0. Owner[s] \in Nodes
  BY MapBatcherAssumption
<1>1. UNCHANGED <<registry, retired, policy, dns, edits, unsaved, todo, ids, active, pending,
                  batch, queue, lagged, dnsDirty, hold, cancelled, pinged>>
  BY DEF BuildInitial, registryVars, queueVars
<1>2. /\ pc' \in [Streams -> StreamStates]
      /\ pc[s] = "subscribed" /\ \A t \in Streams \ {s} : pc'[t] = pc[t]
  BY DEF BuildInitial, Goto, TypeOK, StreamStates
<1>3. /\ view' \in [Streams -> View]
      /\ view'[s] = World(Owner[s]) /\ \A t \in Streams \ {s} : view'[t] = view[t]
  BY <1>0, WorldView DEF BuildInitial, TypeOK
<1>9. /\ initial' \in [Streams -> SUBSET Nodes]
      /\ initial'[s] = {p \in Nodes : registry[p] # 0}
      /\ \A t \in Streams \ {s} : initial'[t] = initial[t]
  BY DEF BuildInitial, TypeOK
<1>4. /\ pings' \in [Nodes -> 0..MaxPings]
      /\ pingDirty' \subseteq Streams
      /\ \A m \in Nodes : pings'[m] <= pinged'
  <2>1. CASE UNCHANGED <<pings, pingDirty>>
    BY <1>1, <2>1 DEF TypeOK, Counters
  <2>2. CASE PopPing(Owner[s]) /\ pings[Owner[s]] > 0
    BY <1>0, <1>1, <2>2, PopPingTypes
  <2> QED BY <2>1, <2>2 DEF BuildInitial
<1>5. TypeOK'
  BY <1>1, <1>2, <1>3, <1>4, <1>9 DEF TypeOK
<1>6. Counters' /\ IdsForChange' /\ TodoSound' /\ IdsFresh'
  BY <1>1, <1>4, <1>9, PingsKept DEF IdsForChange, TodoSound, IdsFresh
<1>7. StreamsKnown'
  BY <1>1, <1>2 DEF StreamsKnown
<1>8. NothingLost'
  <2>1. \A t \in Streaming' \ {s} : t \in Streaming /\ t \in Streams
    BY <1>1, <1>2 DEF Streaming
  <2>2. UpToDate(s)'
    BY <1>1, <1>3, ShownAll
  <2> QED BY <1>1, <1>3, <1>9, <2>1, <2>2, ShownKept
<1> QED BY <1>5, <1>6, <1>7, <1>8

\* What a frame does to the stream that gets it, whatever is in it.
LEMMA ResumeTypes ==
  ASSUME TypeOK, NEW s \in Streams, pc[s] = "wait", NEW frame, frame.view \in View,
         Resume(s, frame)
  PROVE  /\ view' \in [Streams -> View]
         /\ view'[s] = frame.view /\ \A t \in Streams \ {s} : view'[t] = view[t]
         /\ pc' \in [Streams -> StreamStates]
         /\ \A t \in Streams : pc'[t] # pc[t] => t = s /\ pc'[t] = "poll"
BY DEF Resume, Goto, TypeOK, StreamStates

\* A stream that lagged is shown everything.
LEMMA ReceiveLaggedInv ==
  ASSUME Inv, NEW s \in Streams, ReceiveLagged(s)
  PROVE  Inv'
<1> USE DEF Inv
<1>1. UNCHANGED <<registry, retired, policy, dns, edits, unsaved, todo, ids, active, pending,
                  batch, initial, queue, dnsDirty, pingDirty, hold, cancelled, pings, pinged>>
  BY DEF ReceiveLagged, registryVars, queueVars, pingVars
<1>2. lagged' = lagged \ {s} /\ pc[s] = "wait"
  BY DEF ReceiveLagged, Waiting
<1>3. /\ view' \in [Streams -> View]
      /\ view'[s] = World(Owner[s]) /\ \A t \in Streams \ {s} : view'[t] = view[t]
      /\ pc' \in [Streams -> StreamStates]
      /\ \A t \in Streams : pc'[t] # pc[t] => t = s /\ pc'[t] = "poll"
  <2>1. FullFrame(World(Owner[s])).view = World(Owner[s])
    BY DEF FullFrame
  <2>2. World(Owner[s]) \in View
    BY MapBatcherAssumption, WorldView
  <2>3. Resume(s, FullFrame(World(Owner[s])))
    BY DEF ReceiveLagged
  <2> QED BY <1>2, <2>1, <2>2, <2>3, ResumeTypes
<1>4. TypeOK'
  BY <1>1, <1>2, <1>3 DEF TypeOK
<1>5. Counters' /\ IdsForChange' /\ TodoSound' /\ IdsFresh'
  BY <1>1, RestKept
<1>6. StreamsKnown'
  BY <1>1, <1>2, <1>3 DEF StreamsKnown
<1>7. NothingLost'
  <2>1. \A t \in Streaming' \ {s} : t \in Streaming /\ t \in Streams
    BY <1>1, <1>3 DEF Streaming
  <2>2. UpToDate(s)'
    BY <1>1, <1>3, ShownAll
  <2> QED BY <1>1, <1>2, <1>3, <2>1, <2>2, ShownKept
<1> QED BY <1>4, <1>5, <1>6, <1>7

\* A DNS wake-up has everything shown again.
LEMMA DnsWakeInv ==
  ASSUME Inv, NEW s \in Streams, DnsWake(s)
  PROVE  Inv'
<1> USE DEF Inv
<1>1. UNCHANGED <<registry, retired, policy, dns, edits, unsaved, todo, ids, active, pending,
                  batch, initial, queue, lagged, pingDirty, hold, cancelled, pings, pinged>>
  BY DEF DnsWake, registryVars, queueVars, pingVars
<1>2. dnsDirty' = dnsDirty \ {s} /\ pc[s] = "wait"
  BY DEF DnsWake, Waiting
<1>3. /\ view' \in [Streams -> View]
      /\ view'[s] = World(Owner[s]) /\ \A t \in Streams \ {s} : view'[t] = view[t]
      /\ pc' \in [Streams -> StreamStates]
      /\ \A t \in Streams : pc'[t] # pc[t] => t = s /\ pc'[t] = "poll"
  <2>1. FullFrame(World(Owner[s])).view = World(Owner[s])
    BY DEF FullFrame
  <2>2. World(Owner[s]) \in View
    BY MapBatcherAssumption, WorldView
  <2>3. Resume(s, FullFrame(World(Owner[s])))
    BY DEF DnsWake
  <2> QED BY <1>2, <2>1, <2>2, <2>3, ResumeTypes
<1>4. TypeOK'
  BY <1>1, <1>2, <1>3 DEF TypeOK
<1>5. Counters' /\ IdsForChange' /\ TodoSound' /\ IdsFresh'
  BY <1>1, RestKept
<1>6. StreamsKnown'
  BY <1>1, <1>2, <1>3 DEF StreamsKnown
<1>7. NothingLost'
  <2>1. \A t \in Streaming' \ {s} : t \in Streaming /\ t \in Streams
    BY <1>1, <1>3 DEF Streaming
  <2>2. UpToDate(s)'
    BY <1>1, <1>3, ShownAll
  <2> QED BY <1>1, <1>2, <1>3, <2>1, <2>2, ShownKept
<1> QED BY <1>4, <1>5, <1>6, <1>7

\* A batch shows what its changes cover; the rest is still on its way.
LEMMA ReceiveBatchInv ==
  ASSUME Inv, NEW s \in Streams, ReceiveBatch(s)
  PROVE  Inv'
<1> USE DEF Inv
<1> DEFINE changes == Head(queue[s])
           n == Owner[s]
           frame == BatchFrame(n, view[s], World(n), DeltaWorld(s), changes)
<1>0. /\ n \in Nodes /\ World(n) \in View /\ view[s] \in View /\ DeltaWorld(s) \in View
      /\ DeltaWorld(s).policy = World(n).policy /\ DeltaWorld(s).dns = World(n).dns
  <2>1. n \in Nodes /\ World(n).policy = policy /\ World(n).dns = dns
    BY MapBatcherAssumption DEF World
  <2> QED BY <2>1, WorldView, DeltaWorldView DEF TypeOK
<1>1. UNCHANGED <<registry, retired, policy, dns, edits, unsaved, todo, ids, active, pending,
                  batch, initial, lagged, dnsDirty, pingDirty, hold, cancelled, pings, pinged>>
  BY DEF ReceiveBatch, registryVars, queueVars, pingVars
<1>2. pc[s] = "wait" /\ s \notin lagged /\ s \notin cancelled /\ queue[s] # <<>>
  BY DEF ReceiveBatch, Waiting
<1>3. /\ frame.view \in View
      /\ Recomputes(changes) => \A p \in Nodes : frame.view.peers[p] = World(n).peers[p]
      /\ ~Recomputes(changes) =>
            /\ \A p \in Nodes :
                  frame.view.peers[p] \in {view[s].peers[p], DeltaWorld(s).peers[p]}
            /\ \A p \in Nodes, c \in changes :
                  Covers(c, n, p) => frame.view.peers[p] = DeltaWorld(s).peers[p]
      /\ frame.view.policy \in {view[s].policy, World(n).policy}
      /\ \A c \in changes : CoversPolicy(c, n) => frame.view.policy = World(n).policy
      /\ frame.view.dns \in {view[s].dns, World(n).dns}
  BY <1>0, BatchShows
<1>4. Resume(s, frame)
  BY DEF ReceiveBatch
<1>5. /\ view' \in [Streams -> View]
      /\ view'[s] = frame.view /\ \A t \in Streams \ {s} : view'[t] = view[t]
      /\ pc' \in [Streams -> StreamStates]
      /\ \A t \in Streams : pc'[t] # pc[t] => t = s /\ pc'[t] = "poll"
  <2> HIDE DEF frame
  <2> QED BY <1>2, <1>3, <1>4, ResumeTypes
<1>6. /\ queue' = [queue EXCEPT ![s] = Tail(queue[s])]
      /\ queue[s] \in Seq(SUBSET Change) /\ Len(queue[s]) <= BatchBuffer
      /\ Tail(queue[s]) \in Seq(SUBSET Change) /\ Len(Tail(queue[s])) <= BatchBuffer
  <2>1. queue' = [queue EXCEPT ![s] = Tail(queue[s])]
    BY DEF ReceiveBatch, TypeOK
  <2>2. queue[s] \in Seq(SUBSET Change) /\ Len(queue[s]) <= BatchBuffer /\ BatchBuffer \in Nat
    BY MapBatcherAssumption DEF TypeOK
  <2>3. Tail(queue[s]) \in Seq(SUBSET Change) /\ Len(Tail(queue[s])) <= BatchBuffer
    BY <1>2, <2>2
  <2> QED BY <2>1, <2>2, <2>3
<1>7. TypeOK'
  <2>1. /\ queue' \in [Streams -> Seq(SUBSET Change)]
        /\ \A t \in Streams : Len(queue'[t]) <= BatchBuffer
    BY <1>6 DEF TypeOK
  <2> QED BY <1>1, <1>5, <2>1 DEF TypeOK
<1>8. Counters' /\ IdsForChange' /\ TodoSound' /\ IdsFresh'
  BY <1>1, RestKept
<1>9. StreamsKnown'
  BY <1>1, <1>2, <1>5 DEF StreamsKnown
<1>10. NothingLost'
  <2>1. \A t \in Streaming' \ {s} : t \in Streaming /\ t \in Streams
    BY <1>1, <1>5 DEF Streaming
  <2>2. \A t \in Streams \ {s} : queue'[t] = queue[t]
    BY <1>6 DEF TypeOK
  <2>3. UpToDate(s)'
    <3>1. UpToDate(s)
      BY <1>2 DEF NothingLost, Streaming
    <3>2. World(n)' = World(n) /\ World(n).policy = policy /\ World(n).dns = dns
      BY <1>1 DEF World
    <3>3. ASSUME NEW c \in Change, Carried(s, c), c \notin changes PROVE Carried(s, c)'
      <4>1. CASE \E i \in DOMAIN queue[s] : c \in queue[s][i]
        <5>1. PICK i \in DOMAIN queue[s] : c \in queue[s][i]
          BY <4>1
        <5>2. i # 1 /\ i \in 1 .. Len(queue[s])
          BY <1>2, <1>6, <3>3, <5>1
        <5>3. /\ i - 1 \in 1 .. Len(Tail(queue[s]))
              /\ Tail(queue[s])[i - 1] = queue[s][i]
              /\ DOMAIN Tail(queue[s]) = 1 .. Len(Tail(queue[s]))
          BY <1>2, <1>6, <5>2
        <5>4. queue'[s] = Tail(queue[s])
          BY <1>6 DEF TypeOK
        <5> QED BY <5>1, <5>3, <5>4 DEF Carried
      <4>2. CASE ~(\E i \in DOMAIN queue[s] : c \in queue[s][i])
        BY <1>1, <3>3, <4>2 DEF Carried, ByWriter
      <4> QED BY <4>1, <4>2
    <3>7. ASSUME ToldPolicy(s), ~Recomputes(changes)
          PROVE  ToldPolicy(s)' /\ \A p \in Nodes : Told(s, p)'
      <4>1. PICK c \in Change : Carried(s, c) /\ CoversPolicy(c, n)
        BY <3>7 DEF ToldPolicy
      <4>2. c \notin changes
        BY <3>7, <4>1 DEF Recomputes, CoversPolicy
      <4>3. \A p \in Nodes : Covers(c, n, p)
        BY <4>1, ScopeGrows DEF CoversPolicy, Covers
      <4> QED BY <3>3, <4>1, <4>2, <4>3 DEF Told, ToldPolicy
    <3>4. ASSUME NEW p \in Nodes, Behind(s, p)', p \notin unsaved' PROVE Told(s, p)'
      <4>1. ~Recomputes(changes)
        BY <1>3, <1>5, <3>2, <3>4 DEF Behind, Shows
      <4>2. CASE frame.view.peers[p] = DeltaWorld(s).peers[p]
        <5>1. p # n /\ Astray(s, p)
          BY <1>1, <1>5, <3>4, <4>2, DeltaAstray
        <5> QED BY <3>1, <3>7, <4>1, <5>1 DEF UpToDate
      <4>3. CASE frame.view.peers[p] # DeltaWorld(s).peers[p]
        <5>1. view'[s].peers[p] = view[s].peers[p]
          BY <1>3, <1>5, <4>1, <4>3
        <5>2. Behind(s, p)
          BY <1>1, <3>2, <3>4, <5>1 DEF Behind, Shows
        <5>3. PICK c \in Change : Carried(s, c) /\ Covers(c, n, p)
          BY <1>1, <3>1, <3>4, <5>2 DEF UpToDate, Told
        <5>4. c \notin changes
          BY <1>3, <4>1, <4>3, <5>3
        <5> QED BY <3>3, <5>3, <5>4 DEF Told
      <4> QED BY <4>2, <4>3
    <3>8. ASSUME NEW p \in Nodes \ {n}, Astray(s, p)' PROVE ToldPolicy(s)'
      <4>1. ~Recomputes(changes)
        <5>1. World(n).peers[p] = IF p \in Allows[policy] THEN registry[p] ELSE 0
          BY <3>8 DEF World
        <5> QED BY <1>1, <1>3, <1>5, <3>8, <5>1 DEF Astray
      <4>2. Astray(s, p)
        <5>1. CASE view'[s].peers[p] = DeltaWorld(s).peers[p]
          BY <1>1, <3>8, <5>1, DeltaAstray
        <5>2. CASE view'[s].peers[p] = view[s].peers[p]
          BY <1>1, <3>8, <5>2 DEF Astray
        <5> QED BY <1>3, <1>5, <4>1, <5>1, <5>2
      <4> QED BY <3>1, <3>7, <4>1, <4>2 DEF UpToDate
    <3>5. ASSUME BehindPolicy(s)' PROVE ToldPolicy(s)'
      <4>1. frame.view.policy # World(n).policy
        BY <1>1, <1>5, <3>2, <3>5 DEF BehindPolicy
      <4>2. BehindPolicy(s)
        BY <1>3, <3>2, <4>1 DEF BehindPolicy
      <4>3. PICK c \in Change : Carried(s, c) /\ CoversPolicy(c, n)
        BY <3>1, <4>2 DEF UpToDate, ToldPolicy
      <4>4. c \notin changes
        BY <1>3, <4>1, <4>3
      <4> QED BY <3>3, <4>3, <4>4 DEF ToldPolicy
    <3>6. BehindDns(s)' => s \in dnsDirty'
      BY <1>1, <1>3, <1>5, <3>1, <3>2 DEF BehindDns, UpToDate
    <3> QED BY <3>4, <3>5, <3>6, <3>8 DEF UpToDate
  <2> QED BY <1>1, <1>5, <2>1, <2>2, <2>3, ShownKept
<1> QED BY <1>7, <1>8, <1>9, <1>10

-----------------------------------------------------------------------------
\* Edits.

\* What an edit makes of the world is on its way when the edit is announced
\* by changes that cover it.
LEMMA EditKept ==
  ASSUME TypeOK, IdsForChange, NothingLost, NEW w \in Writers, todo[w] = <<>>,
         NEW changes \in Seq(Change), todo' = [todo EXCEPT ![w] = changes],
         UNCHANGED <<ids, batch, queue, view, initial, lagged, dnsDirty, dns>>,
         \A s \in Streaming' \ lagged' :
            /\ s \in Streaming
            /\ pending'[Owner[s]] = pending[Owner[s]]
            /\ \A p \in Nodes :
                  \/ registry'[p] # registry[p] /\ p \notin unsaved'
                  \/ policy' # policy
                  \/ p \in unsaved /\ p \notin unsaved'
                  => \E i \in DOMAIN changes : Covers(changes[i], Owner[s], p)
            /\ policy' # policy =>
                  \E i \in DOMAIN changes : CoversPolicy(changes[i], Owner[s])
            /\ \A p \in initial[s] : registry'[p] # 0 => registry[p] # 0
  PROVE  NothingLost'
<1> SUFFICES ASSUME NEW s \in Streaming' \ lagged' PROVE UpToDate(s)'
  BY DEF NothingLost
<1>1. s \in Streams /\ UpToDate(s)
  BY DEF NothingLost, Streaming
<1>2. /\ \A c : Carried(s, c) => Carried(s, c)'
      /\ \A i \in DOMAIN changes : Carried(s, changes[i])' /\ changes[i] \in Change
  <2>1. \A i \in DOMAIN changes : changes[i] \in Change
    OBVIOUS
  <2>2. queue'[s] = queue[s] /\ pending'[Owner[s]] = pending[Owner[s]]
    OBVIOUS
  <2>3. /\ \A c : Carried(s, c) => Carried(s, c)'
        /\ \A i \in DOMAIN changes : Carried(s, changes[i])'
    BY <1>1, <2>2, CarriedAnnounce
  <2> QED BY <2>1, <2>3
<1>3. ASSUME NEW p \in Nodes, Behind(s, p)', p \notin unsaved' PROVE Told(s, p)'
  <2>1. CASE \/ registry'[p] # registry[p]
             \/ policy' # policy
             \/ p \in unsaved /\ p \notin unsaved'
    <3>1. PICK i \in DOMAIN changes : Covers(changes[i], Owner[s], p)
      BY <1>3, <2>1
    <3> QED BY <1>2, <3>1 DEF Told
  <2>2. CASE registry'[p] = registry[p] /\ policy' = policy /\ p \notin unsaved
    <3>1. Behind(s, p)
      BY <1>3, <2>2 DEF Behind, Shows, World
    <3>2. Told(s, p)
      BY <1>1, <2>2, <3>1 DEF UpToDate
    <3> QED BY <1>2, <3>2 DEF Told
  <2> QED BY <1>3, <2>1, <2>2
<1>4. ASSUME BehindPolicy(s)' PROVE ToldPolicy(s)'
  <2>1. CASE policy' # policy
    <3>1. PICK i \in DOMAIN changes : CoversPolicy(changes[i], Owner[s])
      BY <2>1
    <3> QED BY <1>2, <3>1 DEF ToldPolicy
  <2>2. CASE policy' = policy
    BY <1>1, <1>2, <1>4, <2>2 DEF BehindPolicy, UpToDate, ToldPolicy
  <2> QED BY <2>1, <2>2
<1>5. BehindDns(s)' => s \in dnsDirty'
  BY <1>1 DEF BehindDns, UpToDate
<1>6. ASSUME NEW p \in Nodes \ {Owner[s]}, Astray(s, p)' PROVE ToldPolicy(s)'
  <2>1. CASE policy' # policy
    <3>1. PICK i \in DOMAIN changes : CoversPolicy(changes[i], Owner[s])
      BY <2>1
    <3> QED BY <1>2, <3>1 DEF ToldPolicy
  <2>2. CASE policy' = policy
    <3>1. Astray(s, p)
      BY <1>6, <2>2 DEF Astray
    <3> QED BY <1>1, <1>2, <3>1 DEF UpToDate, ToldPolicy
  <2> QED BY <2>1, <2>2
<1> QED BY <1>3, <1>4, <1>5, <1>6 DEF UpToDate

\* What an announcement makes of the writers' lists.
LEMMA AnnounceKept ==
  ASSUME TypeOK, IdsForChange, TodoSound, NEW w \in Writers, todo[w] = <<>>,
         NEW changes \in Seq(Change), todo' = [todo EXCEPT ![w] = changes], ids' = ids,
         \A i \in DOMAIN changes :
            /\ changes[i].reason \in {"NodeUpdated", "EndpointDerpUpdate", "PeersRemoved"} =>
                 changes[i].node \in Nodes
            /\ changes[i].reason = "PeersRemoved" => changes[i].node \in retired',
         retired \subseteq retired'
  PROVE  todo' \in [Writers -> Seq(Change)] /\ IdsForChange' /\ TodoSound'
<1>1. todo'[w] = changes /\ \A v \in Writers \ {w} : todo'[v] = todo[v]
  BY DEF TypeOK
<1>2. todo' \in [Writers -> Seq(Change)]
  BY DEF TypeOK
<1>3. IdsForChange'
  BY <1>1 DEF IdsForChange
<1>4. TodoSound'
  <2> SUFFICES ASSUME NEW v \in Writers, NEW i \in DOMAIN todo'[v]
               PROVE  /\ todo'[v][i].reason \in {"NodeUpdated", "EndpointDerpUpdate", "PeersRemoved"}
                           => todo'[v][i].node \in Nodes
                      /\ todo'[v][i].reason = "PeersRemoved" => todo'[v][i].node \in retired'
    BY DEF TodoSound
  <2>1. CASE v = w
    BY <1>1, <2>1
  <2>2. CASE v # w
    BY <1>1, <2>2 DEF TodoSound
  <2> QED BY <2>1, <2>2
<1> QED BY <1>2, <1>3, <1>4

\* The numbers of an edit.
LEMMA EditNumbers ==
  ASSUME TypeOK, Counters, NEW w \in Writers, Edit(w)
  PROVE  /\ todo[w] = <<>>
         /\ edits' \in 0..MaxEdits
         /\ edits + 2 \in 0..MaxEdits + 1 /\ edits + 2 # 0
         /\ dns \in Nat /\ edits \in Nat /\ dns <= edits'
BY MapBatcherAssumption DEF Edit, TypeOK, Counters


\* The record of one node is edited: the change names it.
LEMMA UpdateNodeInv ==
  ASSUME Inv, NEW w \in Writers, NEW p \in Nodes, NEW r \in UpdateReasons, UpdateNode(w, p, r)
  PROVE  Inv'
<1> USE DEF Inv
<1> DEFINE c == Broadcast(r, p)
           changes == <<c>>
<1>1. UNCHANGED <<retired, policy, dns, ids, active, pending, batch, pc, view, initial, queue,
                  lagged, dnsDirty, pingDirty, hold, cancelled, pings, pinged>>
  BY DEF UpdateNode, queueVars, streamVars, pingVars
<1>2. /\ Edit(w) /\ registry[p] # 0
      /\ registry' = [registry EXCEPT ![p] = edits + 2]
      /\ unsaved' = unsaved \ {p}
      /\ todo' = [todo EXCEPT ![w] = changes]
  BY DEF UpdateNode, Announce
<1>3. r \in {"NodeUpdated", "EndpointDerpUpdate"} /\ r \in Reasons
  BY MapBatcherAssumption DEF Reasons
<1>4. c \in Change /\ c.reason = r /\ c.node = p /\ c.target = None
  BY <1>3, ChangeTypes DEF Broadcast
<1>5. changes \in Seq(Change) /\ DOMAIN changes = {1} /\ changes[1] = c
  BY <1>4
<1>6. /\ todo[w] = <<>> /\ edits' \in 0..MaxEdits
      /\ edits + 2 \in 0..MaxEdits + 1 /\ edits + 2 # 0
      /\ dns <= edits'
  BY <1>2, EditNumbers
<1>7. registry' \in [Nodes -> 0..MaxEdits + 1] /\ \A q \in Nodes \ {p} : registry'[q] = registry[q]
  BY <1>2, <1>6 DEF TypeOK
<1> HIDE DEF c, changes
<1>8. todo' \in [Writers -> Seq(Change)] /\ IdsForChange' /\ TodoSound'
  BY <1>1, <1>2, <1>3, <1>4, <1>5, <1>6, AnnounceKept
<1>9. TypeOK'
  BY <1>1, <1>2, <1>6, <1>7, <1>8 DEF TypeOK
<1>10. Counters'
  BY <1>1, <1>6 DEF Counters
<1>11. StreamsKnown'
  <2>1. registry'[p] # 0
    BY <1>2, <1>6 DEF TypeOK
  <2> QED BY <1>1, <1>7, <2>1, MapBatcherAssumption DEF StreamsKnown
<1>13. IdsFresh' /\ \A s \in Streams : \A q \in initial[s] : registry'[q] # 0 => registry[q] # 0
  <2>1. \A q \in Nodes : registry'[q] = 0 <=> registry[q] = 0
    BY <1>2, <1>6, <1>7 DEF TypeOK
  <2> QED BY <1>1, <2>1 DEF IdsFresh, TypeOK
<1>12. NothingLost'
  <2>1. \A s \in Streams : Covers(c, Owner[s], p)
    BY <1>3, <1>4 DEF Covers, ShouldSendTo, PeerFilter, IsFull, IsRuntime, PeersChanged,
                      PeersRemoved, PeerPatches, PeersOf
  <2>2. \A q \in Nodes : registry'[q] # registry[q] => q = p
    BY <1>7
  <2>3. \A s \in Streaming' : s \in Streaming /\ s \in Streams
    BY <1>1 DEF Streaming
  <2>4. \A s \in Streaming' \ lagged' :
           /\ s \in Streaming
           /\ pending'[Owner[s]] = pending[Owner[s]]
           /\ \A q \in Nodes :
                 \/ registry'[q] # registry[q] /\ q \notin unsaved'
                 \/ policy' # policy
                 \/ q \in unsaved /\ q \notin unsaved'
                 => \E i \in DOMAIN changes : Covers(changes[i], Owner[s], q)
           /\ policy' # policy =>
                 \E i \in DOMAIN changes : CoversPolicy(changes[i], Owner[s])
           /\ \A q \in initial[s] : registry'[q] # 0 => registry[q] # 0
    BY <1>1, <1>2, <1>5, <1>13, <2>1, <2>2, <2>3
  <2> QED BY <1>1, <1>2, <1>5, <1>6, <2>4, EditKept
<1> QED BY <1>8, <1>9, <1>10, <1>11, <1>12, <1>13

\* A node is added under an id nobody has seen: the change names it, or has
\* every peer recomputed.
LEMMA AddNodeInv ==
  ASSUME Inv, NEW w \in Writers, NEW p \in Nodes, AddNode(w, p)
  PROVE  Inv'
<1> USE DEF Inv
<1>0. PICK c \in {Broadcast("NodeUpdated", p), Global("PolicyChange")} : Announce(w, <<c>>)
  BY DEF AddNode
<1> DEFINE changes == <<c>>
<1>1. UNCHANGED <<retired, policy, dns, unsaved, ids, active, pending, batch, pc, view, initial,
                  queue, lagged, dnsDirty, pingDirty, hold, cancelled, pings, pinged>>
  BY DEF AddNode, queueVars, streamVars, pingVars
<1>2. /\ Edit(w) /\ registry[p] = 0 /\ p \notin retired
      /\ registry' = [registry EXCEPT ![p] = edits + 2]
      /\ todo' = [todo EXCEPT ![w] = changes]
  BY <1>0 DEF AddNode, Announce
<1>3. "NodeUpdated" \in Reasons /\ "PolicyChange" \in Reasons
  BY DEF Reasons
<1>4. /\ c \in Change /\ c.target = None
      /\ \/ c.reason = "NodeUpdated" /\ c.node = p
         \/ c.reason = "PolicyChange"
  <2>1. /\ Broadcast("NodeUpdated", p) = [reason |-> "NodeUpdated", node |-> p, target |-> None]
        /\ Global("PolicyChange") = [reason |-> "PolicyChange", node |-> None, target |-> None]
    BY DEF Broadcast, Global
  <2>2. CASE c = Broadcast("NodeUpdated", p)
    BY <1>3, <2>1, <2>2 DEF Change
  <2>3. CASE c = Global("PolicyChange")
    BY <1>3, <2>1, <2>3 DEF Change
  <2> QED BY <1>0, <2>2, <2>3
<1>5. changes \in Seq(Change) /\ DOMAIN changes = {1} /\ changes[1] = c
  BY <1>4
<1>6. /\ todo[w] = <<>> /\ edits' \in 0..MaxEdits
      /\ edits + 2 \in 0..MaxEdits + 1 /\ edits + 2 # 0
      /\ dns <= edits'
  BY <1>2, EditNumbers
<1>7. registry' \in [Nodes -> 0..MaxEdits + 1] /\ \A q \in Nodes \ {p} : registry'[q] = registry[q]
  BY <1>2, <1>6 DEF TypeOK
<1> HIDE DEF changes
<1>8. todo' \in [Writers -> Seq(Change)] /\ IdsForChange' /\ TodoSound'
  BY <1>1, <1>2, <1>4, <1>5, <1>6, AnnounceKept
<1>9. TypeOK'
  BY <1>1, <1>2, <1>6, <1>7, <1>8 DEF TypeOK
<1>10. Counters'
  BY <1>1, <1>6 DEF Counters
<1>11. StreamsKnown'
  <2>1. registry'[p] # 0
    BY <1>2, <1>6 DEF TypeOK
  <2> QED BY <1>1, <1>7, <2>1, MapBatcherAssumption DEF StreamsKnown
<1>13. IdsFresh' /\ \A s \in Streams : \A q \in initial[s] : registry'[q] # 0 => registry[q] # 0
  <2>1. \A s \in Streams : \A q \in initial[s] : q \in Nodes /\ q # p
    BY <1>2 DEF IdsFresh, TypeOK
  <2>2. \A q \in retired : q \in Nodes /\ q # p
    BY <1>2 DEF TypeOK
  <2> QED BY <1>1, <1>7, <2>1, <2>2 DEF IdsFresh
<1>12. NothingLost'
  <2>1. \A s \in Streams : Covers(c, Owner[s], p)
    BY <1>4 DEF Covers, ShouldSendTo, PeerFilter, IsFull, IsRuntime, PeersChanged,
                PeersRemoved, PeerPatches, PeersOf
  <2>2. \A q \in Nodes : registry'[q] # registry[q] => q = p
    BY <1>7
  <2>3. \A s \in Streaming' : s \in Streaming /\ s \in Streams
    BY <1>1 DEF Streaming
  <2>4. \A s \in Streaming' \ lagged' :
           /\ s \in Streaming
           /\ pending'[Owner[s]] = pending[Owner[s]]
           /\ \A q \in Nodes :
                 \/ registry'[q] # registry[q] /\ q \notin unsaved'
                 \/ policy' # policy
                 \/ q \in unsaved /\ q \notin unsaved'
                 => \E i \in DOMAIN changes : Covers(changes[i], Owner[s], q)
           /\ policy' # policy =>
                 \E i \in DOMAIN changes : CoversPolicy(changes[i], Owner[s])
           /\ \A q \in initial[s] : registry'[q] # 0 => registry[q] # 0
    BY <1>1, <1>2, <1>5, <1>13, <2>1, <2>2, <2>3
  <2> QED BY <1>1, <1>2, <1>5, <1>6, <2>4, EditKept
<1> QED BY <1>8, <1>9, <1>10, <1>11, <1>12, <1>13

\* The routes of a node are approved: a policy change covers everything, or
\* the node is left unsaved.
LEMMA ApproveRoutesInv ==
  ASSUME Inv, NEW w \in Writers, NEW p \in Nodes, ApproveRoutes(w, p)
  PROVE  Inv'
<1> USE DEF Inv
<1> DEFINE c == Global("PolicyChange")
<1>0. PICK changes \in {<<c>>, <<>>} :
         /\ todo' = [todo EXCEPT ![w] = changes]
         /\ \/ changes = <<c>> /\ unsaved' = {}
            \/ changes = <<>> /\ unsaved' = unsaved \cup {p}
  BY DEF ApproveRoutes, Announce
<1>1. UNCHANGED <<retired, policy, dns, ids, active, pending, batch, pc, view, initial, queue,
                  lagged, dnsDirty, pingDirty, hold, cancelled, pings, pinged>>
  BY DEF ApproveRoutes, queueVars, streamVars, pingVars
<1>2. /\ Edit(w) /\ registry[p] # 0
      /\ registry' = [registry EXCEPT ![p] = edits + 2]
  BY DEF ApproveRoutes
<1>4. c \in Change /\ c.reason = "PolicyChange" /\ c.target = None
  <2>1. c = [reason |-> "PolicyChange", node |-> None, target |-> None]
    BY DEF Global, Broadcast
  <2> QED BY <2>1 DEF Change, Reasons
<1> HIDE DEF c
<1>5. changes \in Seq(Change) /\ \A i \in DOMAIN changes : changes[i] = c
  <2>1. <<c>> \in Seq(Change) /\ DOMAIN <<c>> = {1} /\ <<c>>[1] = c
    BY <1>4
  <2>2. <<>> \in Seq(Change) /\ DOMAIN <<>> = {}
    OBVIOUS
  <2> QED BY <1>0, <2>1, <2>2
<1>3. changes = <<c>> => 1 \in DOMAIN changes
  OBVIOUS
<1>6. /\ todo[w] = <<>> /\ edits' \in 0..MaxEdits
      /\ edits + 2 \in 0..MaxEdits + 1 /\ edits + 2 # 0
      /\ dns <= edits'
  BY <1>2, EditNumbers
<1>7. registry' \in [Nodes -> 0..MaxEdits + 1] /\ \A q \in Nodes \ {p} : registry'[q] = registry[q]
  BY <1>2, <1>6 DEF TypeOK
<1>8. todo' \in [Writers -> Seq(Change)] /\ IdsForChange' /\ TodoSound'
  BY <1>0, <1>1, <1>4, <1>5, <1>6, AnnounceKept
<1>9. TypeOK'
  <2>1. unsaved' \subseteq Nodes
    BY <1>0 DEF TypeOK
  <2> QED BY <1>1, <1>6, <1>7, <1>8, <2>1 DEF TypeOK
<1>10. Counters'
  BY <1>1, <1>6 DEF Counters
<1>14. \A q \in Nodes : registry'[q] = 0 <=> registry[q] = 0
  BY <1>2, <1>6, <1>7 DEF TypeOK
<1>11. StreamsKnown'
  BY <1>1, <1>14, MapBatcherAssumption DEF StreamsKnown
<1>13. IdsFresh' /\ \A s \in Streams : \A q \in initial[s] : registry'[q] # 0 => registry[q] # 0
  BY <1>1, <1>14 DEF IdsFresh, TypeOK
<1>12. NothingLost'
  <2>1. \A s \in Streams, q \in Nodes : Covers(c, Owner[s], q)
    BY <1>4 DEF Covers, ShouldSendTo, PeerFilter, IsRuntime
  <2>2. \A q \in Nodes : registry'[q] # registry[q] => q = p
    BY <1>7
  <2>3. \A s \in Streaming' : s \in Streaming /\ s \in Streams
    BY <1>1 DEF Streaming
  <2>5. ASSUME NEW s \in Streams, NEW q \in Nodes,
               \/ registry'[q] # registry[q] /\ q \notin unsaved'
               \/ q \in unsaved /\ q \notin unsaved'
        PROVE  \E i \in DOMAIN changes : Covers(changes[i], Owner[s], q)
    <3>1. changes = <<c>>
      BY <1>0, <2>2, <2>5
    <3> QED BY <1>3, <1>5, <2>1, <3>1
  <2>4. \A s \in Streaming' \ lagged' :
           /\ s \in Streaming
           /\ pending'[Owner[s]] = pending[Owner[s]]
           /\ \A q \in Nodes :
                 \/ registry'[q] # registry[q] /\ q \notin unsaved'
                 \/ policy' # policy
                 \/ q \in unsaved /\ q \notin unsaved'
                 => \E i \in DOMAIN changes : Covers(changes[i], Owner[s], q)
           /\ policy' # policy =>
                 \E i \in DOMAIN changes : CoversPolicy(changes[i], Owner[s])
           /\ \A q \in initial[s] : registry'[q] # 0 => registry[q] # 0
    BY <1>1, <1>13, <2>3, <2>5
  <2> QED BY <1>0, <1>1, <1>5, <1>6, <2>4, EditKept
<1> QED BY <1>8, <1>9, <1>10, <1>11, <1>12, <1>13

\* A full update covers everything.
LEMMA MoveRoutesInv ==
  ASSUME Inv, NEW w \in Writers, MoveRoutes(w)
  PROVE  Inv'
<1> USE DEF Inv
<1> DEFINE c == Global("FullUpdate")
           changes == <<c>>
<1>1. UNCHANGED <<retired, policy, dns, ids, active, pending, batch, pc, view, initial, queue,
                  lagged, dnsDirty, pingDirty, hold, cancelled, pings, pinged>>
  BY DEF MoveRoutes, queueVars, streamVars, pingVars
<1>2. /\ Edit(w)
      /\ registry' = [p \in Nodes |-> IF registry[p] = 0 THEN 0 ELSE edits + 2]
      /\ unsaved' = {}
      /\ todo' = [todo EXCEPT ![w] = changes]
  BY DEF MoveRoutes, Announce
<1>3. "FullUpdate" \in Reasons
  BY DEF Reasons
<1>4. c \in Change /\ c.reason = "FullUpdate" /\ c.target = None
  <2>1. c = [reason |-> "FullUpdate", node |-> None, target |-> None]
    BY DEF Global, Broadcast
  <2> QED BY <1>3, <2>1 DEF Change
<1>5. changes \in Seq(Change) /\ DOMAIN changes = {1} /\ changes[1] = c
  BY <1>4
<1>6. /\ todo[w] = <<>> /\ edits' \in 0..MaxEdits
      /\ edits + 2 \in 0..MaxEdits + 1 /\ edits + 2 # 0
      /\ dns <= edits'
  BY <1>2, EditNumbers
<1>7. /\ registry' \in [Nodes -> 0..MaxEdits + 1]
      /\ \A q \in Nodes : registry'[q] = 0 <=> registry[q] = 0
  BY <1>2, <1>6, MapBatcherAssumption DEF TypeOK
<1> HIDE DEF c, changes
<1>8. todo' \in [Writers -> Seq(Change)] /\ IdsForChange' /\ TodoSound'
  BY <1>1, <1>2, <1>4, <1>5, <1>6, AnnounceKept
<1>9. TypeOK'
  BY <1>1, <1>2, <1>6, <1>7, <1>8 DEF TypeOK
<1>10. Counters'
  BY <1>1, <1>6 DEF Counters
<1>11. StreamsKnown'
  BY <1>1, <1>7, MapBatcherAssumption DEF StreamsKnown
<1>13. IdsFresh' /\ \A s \in Streams : \A q \in initial[s] : registry'[q] # 0 => registry[q] # 0
  BY <1>1, <1>7 DEF IdsFresh, TypeOK
<1>12. NothingLost'
  <2>1. \A s \in Streams, q \in Nodes : Covers(c, Owner[s], q)
    BY <1>4 DEF Covers, ShouldSendTo, PeerFilter, IsFull
  <2>2. \A s \in Streaming' : s \in Streaming /\ s \in Streams
    BY <1>1 DEF Streaming
  <2>3. \A s \in Streaming' \ lagged' :
           /\ s \in Streaming
           /\ pending'[Owner[s]] = pending[Owner[s]]
           /\ \A q \in Nodes :
                 \/ registry'[q] # registry[q] /\ q \notin unsaved'
                 \/ policy' # policy
                 \/ q \in unsaved /\ q \notin unsaved'
                 => \E i \in DOMAIN changes : Covers(changes[i], Owner[s], q)
           /\ policy' # policy =>
                 \E i \in DOMAIN changes : CoversPolicy(changes[i], Owner[s])
           /\ \A q \in initial[s] : registry'[q] # 0 => registry[q] # 0
    BY <1>1, <1>5, <1>13, <2>1, <2>2
  <2> QED BY <1>1, <1>2, <1>5, <1>6, <2>3, EditKept
<1> QED BY <1>8, <1>9, <1>10, <1>11, <1>12, <1>13

\* A policy change has every peer and the policy sent again.
LEMMA SetPolicyInv ==
  ASSUME Inv, NEW w \in Writers, NEW v \in Policies, SetPolicy(w, v)
  PROVE  Inv'
<1> USE DEF Inv
<1> DEFINE c == Global("PolicyChange")
           changes == <<c>>
<1>1. UNCHANGED <<registry, retired, dns, ids, active, pending, batch, pc, view, initial, queue,
                  lagged, dnsDirty, pingDirty, hold, cancelled, pings, pinged>>
  BY DEF SetPolicy, queueVars, streamVars, pingVars
<1>2. /\ Edit(w)
      /\ policy' = v
      /\ unsaved' = {}
      /\ todo' = [todo EXCEPT ![w] = changes]
  BY DEF SetPolicy, Announce
<1>3. "PolicyChange" \in Reasons
  BY DEF Reasons
<1>4. c \in Change /\ c.reason = "PolicyChange" /\ c.target = None
  <2>1. c = [reason |-> "PolicyChange", node |-> None, target |-> None]
    BY DEF Global, Broadcast
  <2> QED BY <1>3, <2>1 DEF Change
<1>5. changes \in Seq(Change) /\ DOMAIN changes = {1} /\ changes[1] = c
  BY <1>4
<1>6. /\ todo[w] = <<>> /\ edits' \in 0..MaxEdits
      /\ dns <= edits'
  BY <1>2, EditNumbers
<1> HIDE DEF c, changes
<1>8. todo' \in [Writers -> Seq(Change)] /\ IdsForChange' /\ TodoSound'
  BY <1>1, <1>2, <1>4, <1>5, <1>6, AnnounceKept
<1>9. TypeOK'
  BY <1>1, <1>2, <1>6, <1>8 DEF TypeOK
<1>10. Counters'
  BY <1>1, <1>6 DEF Counters
<1>11. StreamsKnown'
  BY <1>1 DEF StreamsKnown
<1>13. IdsFresh' /\ \A s \in Streams : \A q \in initial[s] : registry'[q] # 0 => registry[q] # 0
  BY <1>1 DEF IdsFresh
<1>12. NothingLost'
  <2>1. \A s \in Streams : CoversPolicy(c, Owner[s]) /\ \A q \in Nodes : Covers(c, Owner[s], q)
    BY <1>4 DEF Covers, CoversPolicy, ShouldSendTo, PeerFilter, IsRuntime
  <2>2. \A s \in Streaming' : s \in Streaming /\ s \in Streams
    BY <1>1 DEF Streaming
  <2>3. \A s \in Streaming' \ lagged' :
           /\ s \in Streaming
           /\ pending'[Owner[s]] = pending[Owner[s]]
           /\ \A q \in Nodes :
                 \/ registry'[q] # registry[q] /\ q \notin unsaved'
                 \/ policy' # policy
                 \/ q \in unsaved /\ q \notin unsaved'
                 => \E i \in DOMAIN changes : Covers(changes[i], Owner[s], q)
           /\ policy' # policy =>
                 \E i \in DOMAIN changes : CoversPolicy(changes[i], Owner[s])
           /\ \A q \in initial[s] : registry'[q] # 0 => registry[q] # 0
    BY <1>1, <1>5, <1>13, <2>1, <2>2
  <2> QED BY <1>1, <1>2, <1>5, <1>6, <2>3, EditKept
<1> QED BY <1>8, <1>9, <1>10, <1>11, <1>12, <1>13

\* A node is deleted: its own streams are cancelled, the others are told.
LEMMA DeleteNodeInv ==
  ASSUME Inv, NEW w \in Writers, NEW p \in Nodes, DeleteNode(w, p)
  PROVE  Inv'
<1> USE DEF Inv
<1> DEFINE c == Broadcast("PeersRemoved", p)
           changes == <<c>>
<1>1. UNCHANGED <<policy, dns, ids, batch, pc, view, initial, queue, lagged, dnsDirty,
                  pingDirty, hold, pings, pinged>>
  BY DEF DeleteNode, streamVars, pingVars
<1>2. /\ Edit(w)
      /\ registry' = [registry EXCEPT ![p] = 0]
      /\ retired' = retired \cup {p}
      /\ unsaved' = unsaved \ {p}
      /\ active' = active \ {p}
      /\ pending' = [pending EXCEPT ![p] = {}]
      /\ cancelled' = cancelled \cup {s \in Streams : Owner[s] = p /\ pc[s] \notin {"idle", "ended"}}
      /\ todo' = [todo EXCEPT ![w] = changes]
  BY DEF DeleteNode, Announce
<1>3. "PeersRemoved" \in Reasons
  BY DEF Reasons
<1>4. c \in Change /\ c.reason = "PeersRemoved" /\ c.node = p /\ c.target = None
  BY <1>3, ChangeTypes DEF Broadcast
<1>5. changes \in Seq(Change) /\ DOMAIN changes = {1} /\ changes[1] = c
  BY <1>4
<1>6. /\ todo[w] = <<>> /\ edits' \in 0..MaxEdits /\ dns <= edits'
  BY <1>2, EditNumbers
<1>7. /\ registry' \in [Nodes -> 0..MaxEdits + 1]
      /\ registry'[p] = 0 /\ \A q \in Nodes \ {p} : registry'[q] = registry[q]
  BY <1>2, MapBatcherAssumption DEF TypeOK
<1> HIDE DEF c, changes
<1>8. todo' \in [Writers -> Seq(Change)] /\ IdsForChange' /\ TodoSound'
  BY <1>1, <1>2, <1>4, <1>5, <1>6, <1>7, AnnounceKept
<1>9. TypeOK'
  BY <1>1, <1>2, <1>6, <1>7, <1>8 DEF TypeOK
<1>10. Counters'
  BY <1>1, <1>6 DEF Counters
<1>11. StreamsKnown'
  BY <1>1, <1>2, <1>7, MapBatcherAssumption DEF StreamsKnown
<1>13. IdsFresh' /\ \A s \in Streams : \A q \in initial[s] : registry'[q] # 0 => registry[q] # 0
  BY <1>1, <1>2, <1>7 DEF IdsFresh, TypeOK
<1>12. NothingLost'
  <2>1. \A s \in Streams : Covers(c, Owner[s], p)
    BY <1>4 DEF Covers, ShouldSendTo, PeerFilter, IsFull, IsRuntime, PeersChanged,
                PeersRemoved, PeerPatches, PeersOf
  <2>2. \A q \in Nodes : registry'[q] # registry[q] => q = p
    BY <1>7
  <2>3. \A s \in Streaming' : s \in Streaming /\ s \in Streams /\ Owner[s] # p
    BY <1>1, <1>2 DEF Streaming
  <2>4. \A s \in Streaming' : pending'[Owner[s]] = pending[Owner[s]]
    BY <1>2, <2>3, MapBatcherAssumption DEF TypeOK
  <2>5. \A s \in Streaming' \ lagged' :
           /\ s \in Streaming
           /\ pending'[Owner[s]] = pending[Owner[s]]
           /\ \A q \in Nodes :
                 \/ registry'[q] # registry[q] /\ q \notin unsaved'
                 \/ policy' # policy
                 \/ q \in unsaved /\ q \notin unsaved'
                 => \E i \in DOMAIN changes : Covers(changes[i], Owner[s], q)
           /\ policy' # policy =>
                 \E i \in DOMAIN changes : CoversPolicy(changes[i], Owner[s])
           /\ \A q \in initial[s] : registry'[q] # 0 => registry[q] # 0
    BY <1>1, <1>2, <1>5, <1>13, <2>1, <2>2, <2>3, <2>4
  <2> QED BY <1>1, <1>2, <1>5, <1>6, <2>5, EditKept
<1> QED BY <1>8, <1>9, <1>10, <1>11, <1>12, <1>13

\* A ping is announced by a change without content.
LEMMA DispatchPingInv ==
  ASSUME Inv, NEW w \in Writers, NEW n \in Nodes, DispatchPing(w, n)
  PROVE  Inv'
<1> USE DEF Inv
<1> DEFINE c == Targeted("PingNode", n)
           changes == <<c>>
<1>1. UNCHANGED <<registry, retired, policy, dns, edits, unsaved, ids, active, pending, batch, pc,
                  view, initial, queue, lagged, dnsDirty, hold, cancelled>>
  BY DEF DispatchPing, registryVars, queueVars
<1>2. /\ todo[w] = <<>> /\ pinged < MaxPings /\ pinged' = pinged + 1
      /\ pings' = [pings EXCEPT ![n] = @ + 1]
      /\ pingDirty' = pingDirty \cup {s \in Streams : pc[s] \in {"poll", "wait"}}
      /\ todo' = [todo EXCEPT ![w] = changes]
  BY DEF DispatchPing, Announce
<1>3. c \in Change /\ c.reason = "PingNode"
  <2>1. "PingNode" \in Reasons
    BY DEF Reasons
  <2> QED BY <2>1, ChangeTypes DEF Targeted
<1>4. changes \in Seq(Change) /\ DOMAIN changes = {1} /\ changes[1] = c
  BY <1>3
<1>5. /\ pinged' \in 0..MaxPings
      /\ pings' \in [Nodes -> 0..MaxPings] /\ \A m \in Nodes : pings'[m] <= pinged'
  <2>1. pinged \in Nat /\ pinged' \in 0..MaxPings /\ pinged' = pinged + 1
    BY <1>2, MapBatcherAssumption DEF TypeOK
  <2>2. \A m \in Nodes : pings[m] \in Nat /\ pings[m] <= pinged
    BY MapBatcherAssumption DEF TypeOK, Counters
  <2>3. \A m \in Nodes : pings'[m] = IF m = n THEN pings[m] + 1 ELSE pings[m]
    BY <1>2 DEF TypeOK
  <2>4. ASSUME NEW m \in Nodes PROVE pings'[m] \in 0..MaxPings /\ pings'[m] <= pinged'
    <3>1. MaxPings \in Nat /\ pinged + 1 <= MaxPings
      BY <2>1, MapBatcherAssumption
    <3>2. pings'[m] \in {pings[m], pings[m] + 1}
      BY <2>3
    <3> QED BY <2>1, <2>2, <3>1, <3>2
  <2>5. pings' = [m \in Nodes |-> pings'[m]]
    BY <1>2 DEF TypeOK
  <2> QED BY <2>1, <2>4, <2>5
<1> HIDE DEF c, changes
<1>6. todo' \in [Writers -> Seq(Change)] /\ IdsForChange' /\ TodoSound'
  BY <1>1, <1>2, <1>3, <1>4, AnnounceKept
<1>7. TypeOK'
  BY <1>1, <1>2, <1>5, <1>6 DEF TypeOK
<1>8. Counters'
  BY <1>1, <1>5, PingsKept
<1>9. StreamsKnown'
  BY <1>1 DEF StreamsKnown
<1>11. IdsFresh'
  BY <1>1 DEF IdsFresh
<1>10. NothingLost'
  <2>1. \A s \in Streaming' : s \in Streaming
    BY <1>1 DEF Streaming
  <2>3. \A s \in Streaming' \ lagged' :
           /\ s \in Streaming
           /\ pending'[Owner[s]] = pending[Owner[s]]
           /\ \A q \in Nodes :
                 \/ registry'[q] # registry[q] /\ q \notin unsaved'
                 \/ policy' # policy
                 \/ q \in unsaved /\ q \notin unsaved'
                 => \E i \in DOMAIN changes : Covers(changes[i], Owner[s], q)
           /\ policy' # policy =>
                 \E i \in DOMAIN changes : CoversPolicy(changes[i], Owner[s])
           /\ \A q \in initial[s] : registry'[q] # 0 => registry[q] # 0
    BY <1>1, <2>1
  <2> QED BY <1>1, <1>2, <1>4, <2>3, EditKept
<1> QED BY <1>6, <1>7, <1>8, <1>9, <1>10, <1>11

\* A DNS edit wakes every stream that has a receiver.
LEMMA EditDnsInv ==
  ASSUME Inv, EditDns
  PROVE  Inv'
<1> USE DEF Inv
<1>1. UNCHANGED <<registry, retired, policy, unsaved, todo, ids, active, pending, batch, pc, view,
                  initial, queue, lagged, pingDirty, hold, cancelled, pings, pinged>>
  BY DEF EditDns, queueVars, pingVars
<1>2. edits < MaxEdits /\ edits' = edits + 1 /\ dns' = dns + 1 /\ dnsDirty' = dnsDirty \cup Subscribed
  BY DEF EditDns
<1>3. /\ edits' \in 0..MaxEdits /\ dns' \in 0..MaxEdits
      /\ dns' <= edits'
  BY <1>2, MapBatcherAssumption DEF TypeOK, Counters
<1>4. TypeOK'
  BY <1>1, <1>2, <1>3 DEF TypeOK, Subscribed
<1>5. Counters' /\ IdsForChange' /\ TodoSound' /\ IdsFresh'
  BY <1>1, <1>3 DEF Counters, IdsForChange, TodoSound, IdsFresh
<1>6. StreamsKnown'
  BY <1>1 DEF StreamsKnown
<1>7. NothingLost'
  <2> SUFFICES ASSUME NEW s \in Streaming \ lagged PROVE UpToDate(s)'
    BY <1>1 DEF NothingLost, Streaming
  <2>1. s \in Streams /\ UpToDate(s) /\ s \in Subscribed
    BY DEF NothingLost, Streaming, Subscribed
  <2>2. \A c \in Change : Carried(s, c) => Carried(s, c)'
    BY <1>1, <2>1, CarriedSame
  <2>3. \A p \in Nodes : Behind(s, p)' = Behind(s, p) /\ Astray(s, p)' = Astray(s, p)
    BY <1>1 DEF Behind, Shows, World, Astray
  <2>4. BehindPolicy(s)' = BehindPolicy(s)
    BY <1>1 DEF BehindPolicy
  <2>5. (ToldPolicy(s) => ToldPolicy(s)') /\ \A p \in Nodes : Told(s, p) => Told(s, p)'
    BY <2>2 DEF Told, ToldPolicy
  <2> QED BY <1>1, <1>2, <2>1, <2>3, <2>4, <2>5 DEF UpToDate
<1> QED BY <1>4, <1>5, <1>6, <1>7

-----------------------------------------------------------------------------
\* Changes on their way.

\* A change that is given up covers only the node that is now unsaved.
LEMMA SaveFailsInv ==
  ASSUME Inv, NEW w \in Writers, SaveFails(w)
  PROVE  Inv'
<1> USE DEF Inv
<1> DEFINE c == Head(todo[w])
<1>1. UNCHANGED <<registry, retired, policy, dns, edits, ids, active, pending, batch, pc, view,
                  initial, queue, lagged, dnsDirty, pingDirty, hold, cancelled, pings, pinged>>
  BY DEF SaveFails, queueVars, streamVars, pingVars
<1>2. /\ todo[w] # <<>> /\ ids[w] = NoIds /\ Len(todo[w]) = 1
      /\ c.reason \in {"NodeUpdated", "EndpointDerpUpdate"}
      /\ unsaved' = unsaved \cup {c.node}
      /\ todo' = [todo EXCEPT ![w] = <<>>]
  BY MapBatcherAssumption DEF SaveFails, Announce
<1>3. todo[w] \in Seq(Change) /\ c = todo[w][1] /\ DOMAIN todo[w] = {1}
  BY <1>2 DEF TypeOK
<1> HIDE DEF c
<1>4. c.node \in Nodes
  BY <1>2, <1>3 DEF TodoSound
<1>5. /\ todo' \in [Writers -> Seq(Change)]
      /\ todo'[w] = <<>> /\ \A v \in Writers \ {w} : todo'[v] = todo[v]
  <2>1. <<>> \in Seq(Change)
    OBVIOUS
  <2> QED BY <1>2, <2>1 DEF TypeOK
<1>6. TypeOK'
  BY <1>1, <1>2, <1>4, <1>5 DEF TypeOK
<1>7. Counters'
  BY <1>1 DEF Counters
<1>8. IdsForChange'
  BY <1>1, <1>2, <1>5 DEF IdsForChange
<1>9. TodoSound' /\ IdsFresh'
  BY <1>1, <1>5 DEF TodoSound, IdsFresh
<1>10. StreamsKnown'
  BY <1>1 DEF StreamsKnown
<1>11. NothingLost'
  <2> SUFFICES ASSUME NEW s \in Streaming \ lagged PROVE UpToDate(s)'
    BY <1>1 DEF NothingLost, Streaming
  <2>1. s \in Streams /\ UpToDate(s)
    BY DEF NothingLost, Streaming
  <2>2. ASSUME NEW d \in Change, Carried(s, d), d # c PROVE Carried(s, d)'
    <3>1. CASE \E v \in Writers : \E i \in DOMAIN todo[v] : todo[v][i] = d /\ ByWriter(s, v, i)
      <4>1. PICK v \in Writers : \E i \in DOMAIN todo[v] : todo[v][i] = d /\ ByWriter(s, v, i)
        BY <3>1
      <4>2. v # w
        BY <1>3, <2>2, <4>1
      <4> QED BY <1>1, <1>5, <4>1, <4>2 DEF Carried, ByWriter
    <3>2. CASE ~(\E v \in Writers : \E i \in DOMAIN todo[v] : todo[v][i] = d /\ ByWriter(s, v, i))
      BY <1>1, <2>2, <3>2 DEF Carried
    <3> QED BY <3>1, <3>2
  <2>3. \A p \in Nodes : Covers(c, Owner[s], p) => p = c.node
    BY <1>2 DEF Covers, PeerFilter, IsFull, IsRuntime, PeersChanged, PeersRemoved, PeerPatches,
                PeersOf
  <2>4. ~CoversPolicy(c, Owner[s])
    BY <1>2 DEF CoversPolicy, IsFull, IsRuntime
  <2>5. ASSUME NEW p \in Nodes, Behind(s, p)', p \notin unsaved' PROVE Told(s, p)'
    <3>1. Behind(s, p) /\ p \notin unsaved /\ p # c.node
      BY <1>1, <1>2, <2>5 DEF Behind, Shows, World
    <3>2. PICK d \in Change : Carried(s, d) /\ Covers(d, Owner[s], p)
      BY <2>1, <3>1 DEF UpToDate, Told
    <3> QED BY <2>2, <2>3, <3>1, <3>2 DEF Told
  <2>6. ASSUME ToldPolicy(s) PROVE ToldPolicy(s)'
    <3>1. PICK d \in Change : Carried(s, d) /\ CoversPolicy(d, Owner[s])
      BY <2>6 DEF ToldPolicy
    <3> QED BY <2>2, <2>4, <3>1 DEF ToldPolicy
  <2>7. BehindDns(s)' => s \in dnsDirty'
    BY <1>1, <2>1 DEF BehindDns, UpToDate
  <2>8. BehindPolicy(s)' = BehindPolicy(s) /\ \A p \in Nodes : Astray(s, p)' = Astray(s, p)
    BY <1>1 DEF BehindPolicy, Astray
  <2> QED BY <2>1, <2>5, <2>6, <2>7, <2>8 DEF UpToDate
<1> QED BY <1>6, <1>7, <1>8, <1>9, <1>10, <1>11

\* A step that keeps the registry, the views and the streams, and takes
\* nothing from the way to an open stream that has not lagged.
LEMMA CarryKept ==
  ASSUME NothingLost, UNCHANGED <<registry, policy, dns, unsaved, view, initial, dnsDirty>>,
         \A s \in Streaming' \ lagged' :
            /\ s \in Streaming \ lagged
            /\ \A c \in Change : Carried(s, c) => Carried(s, c)'
  PROVE  NothingLost'
<1> SUFFICES ASSUME NEW s \in Streaming' \ lagged' PROVE UpToDate(s)'
  BY DEF NothingLost
<1>1. s \in Streams /\ UpToDate(s)
  BY DEF NothingLost, Streaming
<1> QED BY <1>1, StaysUpToDate

\* An open stream has an entry, so the writer finds its node.
LEMMA ReadIdsInv ==
  ASSUME Inv, NEW w \in Writers, ReadIds(w)
  PROVE  Inv'
<1> USE DEF Inv
<1>1. UNCHANGED <<registry, retired, policy, dns, edits, unsaved, todo, active, pending, batch,
                  pc, view, initial, queue, lagged, dnsDirty, pingDirty, hold, cancelled, pings,
                  pinged>>
  BY DEF ReadIds,
                                   registryVars, queueVars, streamVars, pingVars
<1>2. /\ todo[w] # <<>> /\ ids[w] = NoIds /\ ids' = [ids EXCEPT ![w] = active]
  BY DEF ReadIds
<1>3. ids'[w] = active /\ \A v \in Writers \ {w} : ids'[v] = ids[v]
  BY <1>2 DEF TypeOK
<1>4. TypeOK'
  BY <1>1, <1>2 DEF TypeOK
<1>5. Counters' /\ TodoSound' /\ IdsFresh' /\ StreamsKnown'
  BY <1>1 DEF Counters, TodoSound, IdsFresh, StreamsKnown
<1>6. IdsForChange'
  BY <1>1, <1>2, <1>3 DEF IdsForChange
<1>7. NothingLost'
  <2>1. \A s \in Streaming' \ lagged' : s \in Streaming \ lagged
    BY <1>1 DEF Streaming
  <2>2. ASSUME NEW s \in Streaming, NEW c, Carried(s, c) PROVE Carried(s, c)'
    <3>1. Owner[s] \in active
      BY DEF Streaming, StreamsKnown
    <3>2. \A v \in Writers : \A i : ByWriter(s, v, i) => ByWriter(s, v, i)'
      BY <1>3, <3>1 DEF ByWriter
    <3> QED BY <1>1, <2>2, <3>2 DEF Carried
  <2> QED BY <1>1, <2>1, <2>2, CarryKept
<1> QED BY <1>4, <1>5, <1>6, <1>7

\* The drained batch is what was queued.
LEMMA DrainPendingInv ==
  ASSUME Inv, DrainPending
  PROVE  Inv'
<1> USE DEF Inv
<1>1. UNCHANGED <<registry, retired, policy, dns, edits, unsaved, todo, ids, active, pc, view,
                  initial, queue, lagged, dnsDirty, pingDirty, hold, cancelled, pings, pinged>>
  BY DEF DrainPending, registryVars, streamVars, pingVars
<1>2. batch = NoBatch /\ batch' = pending /\ pending' = Nothing
  BY DEF DrainPending
<1>3. TypeOK'
  BY <1>1, <1>2 DEF TypeOK, Nothing
<1>4. Counters' /\ IdsForChange' /\ TodoSound' /\ IdsFresh' /\ StreamsKnown'
  BY <1>1 DEF Counters, IdsForChange, TodoSound, IdsFresh, StreamsKnown
<1>5. NothingLost'
  <2>1. \A s \in Streaming' \ lagged' : s \in Streaming \ lagged
    BY <1>1 DEF Streaming
  <2>2. ASSUME NEW s \in Streaming, NEW c, Carried(s, c) PROVE Carried(s, c)'
    <3>1. Owner[s] \in Nodes
      BY MapBatcherAssumption DEF Streaming
    <3>2. DOMAIN pending = Nodes /\ DOMAIN NoBatch = {}
      BY DEF TypeOK, NoBatch
    <3>3. batch' # NoBatch
      BY <1>2, <3>1, <3>2
    <3> QED BY <1>1, <1>2, <2>2, <3>3 DEF Carried, ByWriter
  <2> QED BY <1>1, <2>1, <2>2, CarryKept
<1> QED BY <1>3, <1>4, <1>5

\* A receiver that has room gets the batch; one that has none will be told.
LEMMA SendBatchInv ==
  ASSUME Inv, SendBatch
  PROVE  Inv'
<1> USE DEF Inv
<1>1. UNCHANGED <<registry, retired, policy, dns, edits, unsaved, todo, ids, active, pending, pc,
                  view, initial, dnsDirty, pingDirty, hold, cancelled, pings, pinged>>
  BY DEF SendBatch, registryVars, pingVars
<1>2. /\ batch # NoBatch /\ batch' = NoBatch
      /\ queue' = [s \in Streams |-> IF s \in Subscribed THEN Delivered(s) ELSE queue[s]]
      /\ lagged' = lagged \cup {s \in Subscribed : Len(queue[s]) = BatchBuffer}
  BY DEF SendBatch
<1>3. ASSUME NEW s \in Streams
      PROVE  /\ Delivered(s) \in Seq(SUBSET Change) /\ Len(Delivered(s)) <= BatchBuffer
             /\ Len(queue[s]) # BatchBuffer => Delivered(s) = Append(queue[s], batch[Owner[s]])
  <2> DEFINE q == Append(queue[s], batch[Owner[s]])
  <2>1. batch[Owner[s]] \in SUBSET Change
    BY <1>2, MapBatcherAssumption DEF TypeOK
  <2>2. /\ queue[s] \in Seq(SUBSET Change) /\ Len(queue[s]) \in Nat
        /\ Len(queue[s]) <= BatchBuffer /\ BatchBuffer \in Nat
    BY MapBatcherAssumption DEF TypeOK
  <2>3. q \in Seq(SUBSET Change) /\ Len(q) = Len(queue[s]) + 1
    BY <2>1, <2>2
  <2>4. Delivered(s) = IF Len(q) > BatchBuffer THEN Tail(q) ELSE q
    BY DEF Delivered
  <2> HIDE DEF q
  <2>5. CASE Len(q) > BatchBuffer
    <3>1. Tail(q) \in Seq(SUBSET Change) /\ Len(Tail(q)) = Len(queue[s])
      BY <2>2, <2>3
    <3> QED BY <2>2, <2>3, <2>4, <2>5, <3>1
  <2>6. CASE ~(Len(q) > BatchBuffer)
    BY <2>2, <2>3, <2>4, <2>6 DEF q
  <2> QED BY <2>5, <2>6
<1>4. TypeOK'
  <2>1. queue' \in [Streams -> Seq(SUBSET Change)]
    BY <1>2, <1>3 DEF TypeOK
  <2>2. \A s \in Streams : Len(queue'[s]) <= BatchBuffer
    BY <1>2, <1>3 DEF TypeOK
  <2>3. lagged' \subseteq Streams
    BY <1>2 DEF TypeOK, Subscribed
  <2> QED BY <1>1, <1>2, <2>1, <2>2, <2>3 DEF TypeOK
<1>5. Counters' /\ IdsForChange' /\ TodoSound' /\ IdsFresh' /\ StreamsKnown'
  BY <1>1 DEF Counters, IdsForChange, TodoSound, IdsFresh, StreamsKnown
<1>6. NothingLost'
  <2>1. \A s \in Streaming' \ lagged' : s \in Streaming \ lagged
    BY <1>1, <1>2 DEF Streaming
  <2>2. ASSUME NEW s \in Streaming' \ lagged', NEW c, Carried(s, c) PROVE Carried(s, c)'
    <3>1. s \in Streams /\ s \in Subscribed /\ Len(queue[s]) # BatchBuffer
      BY <1>1, <1>2 DEF Streaming, Subscribed
    <3>2. queue'[s] = Append(queue[s], batch[Owner[s]])
      BY <1>2, <1>3, <3>1
    <3>3. queue[s] \in Seq(SUBSET Change)
      BY <3>1 DEF TypeOK
    <3>4. /\ \A i \in DOMAIN queue[s] : i \in DOMAIN queue'[s] /\ queue'[s][i] = queue[s][i]
          /\ Len(queue[s]) + 1 \in DOMAIN queue'[s]
          /\ queue'[s][Len(queue[s]) + 1] = batch[Owner[s]]
      BY <3>2, <3>3
    <3>5. CASE \E i \in DOMAIN queue[s] : c \in queue[s][i]
      BY <3>4, <3>5 DEF Carried
    <3>6. CASE batch # NoBatch /\ c \in batch[Owner[s]]
      BY <3>4, <3>6 DEF Carried
    <3>7. CASE \/ \E w \in Writers : \E i \in DOMAIN todo[w] : todo[w][i] = c /\ ByWriter(s, w, i)
               \/ c \in pending[Owner[s]]
      BY <1>1, <3>7 DEF Carried, ByWriter
    <3> QED BY <2>2, <3>5, <3>6, <3>7 DEF Carried
  <2> QED BY <1>1, <2>1, <2>2, CarryKept
<1> QED BY <1>4, <1>5, <1>6

\* The writer's first change moves to the queues of the nodes it has found.
LEMMA EnqueueMapChangeInv ==
  ASSUME Inv, NEW w \in Writers, EnqueueMapChange(w)
  PROVE  Inv'
<1> USE DEF Inv
<1> DEFINE c == Head(todo[w])
<1>1. UNCHANGED <<registry, retired, policy, dns, edits, unsaved, active, batch, pc, view,
                  initial, queue, lagged, dnsDirty, pingDirty, hold, cancelled, pings, pinged>>
  BY DEF EnqueueMapChange, registryVars, streamVars, pingVars
<1>2. /\ todo[w] # <<>> /\ ids[w] # NoIds
      /\ pending' = Enqueued(ids[w], c)
      /\ todo' = [todo EXCEPT ![w] = Tail(todo[w])]
      /\ ids' = [ids EXCEPT ![w] = NoIds]
  BY DEF EnqueueMapChange, TypeOK
<1>3. /\ todo[w] \in Seq(Change) /\ c = todo[w][1] /\ c \in Change
      /\ 1 \in DOMAIN todo[w]
      /\ Tail(todo[w]) \in Seq(Change)
      /\ DOMAIN Tail(todo[w]) = 1 .. Len(todo[w]) - 1
      /\ \A i \in DOMAIN Tail(todo[w]) : Tail(todo[w])[i] = todo[w][i + 1]
                                         /\ i + 1 \in DOMAIN todo[w]
  <2>1. todo[w] \in Seq(Change)
    BY DEF TypeOK
  <2> QED BY <1>2, <2>1
<1> HIDE DEF c
<1>4. /\ todo' \in [Writers -> Seq(Change)]
      /\ todo'[w] = Tail(todo[w]) /\ \A v \in Writers \ {w} : todo'[v] = todo[v]
  BY <1>2, <1>3 DEF TypeOK
<1>5. /\ ids' \in [Writers -> (SUBSET Nodes) \cup {NoIds}]
      /\ ids'[w] = NoIds /\ \A v \in Writers \ {w} : ids'[v] = ids[v]
  BY <1>2 DEF TypeOK
<1>6. pending' \in [Nodes -> SUBSET Change]
  <2>1. \A n \in Nodes : pending[n] \in SUBSET Change
    BY DEF TypeOK
  <2>2. \A n \in Nodes : Enqueued(ids[w], c)[n] \in SUBSET Change
    BY <1>3, <2>1 DEF Enqueued
  <2>3. Enqueued(ids[w], c) = [n \in Nodes |-> Enqueued(ids[w], c)[n]]
    BY DEF Enqueued
  <2> QED BY <1>2, <2>2, <2>3
<1>7. TypeOK'
  BY <1>1, <1>4, <1>5, <1>6 DEF TypeOK
<1>8. Counters' /\ StreamsKnown' /\ IdsFresh'
  BY <1>1 DEF Counters, StreamsKnown, IdsFresh
<1>9. IdsForChange'
  BY <1>4, <1>5 DEF IdsForChange
<1>10. TodoSound'
  <2> SUFFICES ASSUME NEW v \in Writers, NEW i \in DOMAIN todo'[v]
               PROVE  \E j \in DOMAIN todo[v] : todo'[v][i] = todo[v][j]
    BY <1>1 DEF TodoSound
  <2>1. CASE v = w
    BY <1>3, <1>4, <2>1
  <2>2. CASE v # w
    BY <1>4, <2>2
  <2> QED BY <2>1, <2>2
<1>11. NothingLost'
  <2> SUFFICES ASSUME NEW s \in Streaming \ lagged PROVE UpToDate(s)'
    BY <1>1 DEF NothingLost, Streaming
  <2> DEFINE n == Owner[s]
  <2>1. s \in Streams /\ UpToDate(s) /\ n \in Nodes /\ registry[n] # 0
    BY MapBatcherAssumption DEF NothingLost, Streaming, StreamsKnown
  <2>2. n \notin PeersRemoved(c)
    <3>1. c.reason = "PeersRemoved" => registry[c.node] = 0
      BY <1>3 DEF TodoSound, IdsFresh
    <3> QED BY <2>1, <3>1 DEF PeersRemoved, PeersOf
  <2>3. /\ n \in ids[w] /\ ShouldSendTo(c, n) => c \in pending'[n]
        /\ \/ pending[n] \subseteq pending'[n]
           \/ IsFull(c) /\ ShouldSendTo(c, n) /\ c \in pending'[n]
    BY <1>2, <2>1, <2>2 DEF Enqueued
  <2>4. ASSUME NEW d \in Change, Carried(s, d), ShouldSendTo(d, n)
        PROVE  \/ Carried(s, d)'
               \/ IsFull(c) /\ ShouldSendTo(c, n) /\ c \in pending'[n]
    <3>1. CASE \E v \in Writers : \E i \in DOMAIN todo[v] : todo[v][i] = d /\ ByWriter(s, v, i)
      <4>1. PICK v \in Writers : \E i \in DOMAIN todo[v] : todo[v][i] = d /\ ByWriter(s, v, i)
        BY <3>1
      <4>2. PICK i \in DOMAIN todo[v] : todo[v][i] = d /\ ByWriter(s, v, i)
        BY <4>1
      <4>3. CASE v # w
        <5>1. todo'[v] = todo[v] /\ ids'[v] = ids[v]
          BY <1>4, <1>5, <4>3
        <5> QED BY <4>2, <5>1 DEF Carried, ByWriter
      <4>4. CASE v = w /\ i = 1
        <5>1. n \in ids[w] /\ d = c
          BY <1>2, <1>3, <4>2, <4>4 DEF ByWriter
        <5> QED BY <2>3, <2>4, <5>1 DEF Carried
      <4>5. CASE v = w /\ i # 1
        <5>1. i - 1 \in DOMAIN todo'[w] /\ todo'[w][i - 1] = d
          <6>1. i \in 1 .. Len(todo[w]) /\ i # 1
            BY <1>3, <4>5
          <6>2. i - 1 \in 1 .. Len(todo[w]) - 1 /\ (i - 1) + 1 = i
            BY <1>3, <6>1
          <6> QED BY <1>3, <1>4, <4>2, <4>5, <6>2
        <5> QED BY <1>5, <5>1 DEF Carried, ByWriter
      <4> QED BY <4>3, <4>4, <4>5
    <3>2. CASE d \in pending[n]
      BY <2>3, <3>2 DEF Carried
    <3>3. CASE (batch # NoBatch /\ d \in batch[n]) \/ (\E i \in DOMAIN queue[s] : d \in queue[s][i])
      BY <1>1, <3>3 DEF Carried
    <3> QED BY <2>4, <3>1, <3>2, <3>3 DEF Carried
  <2>5. PICK e \in Change : e = c
    BY <1>3
  <2>6. ASSUME NEW p \in Nodes, Behind(s, p)', p \notin unsaved' PROVE Told(s, p)'
    <3>1. Behind(s, p) /\ p \notin unsaved
      BY <1>1, <2>6 DEF Behind, Shows, World
    <3>2. PICK d \in Change : Carried(s, d) /\ Covers(d, n, p)
      BY <2>1, <3>1 DEF UpToDate, Told
    <3>3. CASE Carried(s, d)'
      BY <3>2, <3>3 DEF Told
    <3>4. CASE IsFull(c) /\ ShouldSendTo(c, n) /\ c \in pending'[n]
      <4>1. Covers(e, n, p)
        BY <2>5, <3>4 DEF Covers, PeerFilter
      <4>2. Carried(s, e)'
        BY <2>5, <3>4 DEF Carried
      <4> QED BY <4>1, <4>2 DEF Told
    <3> QED BY <2>4, <3>2, <3>3, <3>4 DEF Covers
  <2>7. ASSUME ToldPolicy(s) PROVE ToldPolicy(s)'
    <3>2. PICK d \in Change : Carried(s, d) /\ CoversPolicy(d, n)
      BY <2>7 DEF ToldPolicy
    <3>3. CASE Carried(s, d)'
      BY <3>2, <3>3 DEF ToldPolicy
    <3>4. CASE IsFull(c) /\ ShouldSendTo(c, n) /\ c \in pending'[n]
      <4>1. CoversPolicy(e, n)
        BY <2>5, <3>4 DEF CoversPolicy
      <4>2. Carried(s, e)'
        BY <2>5, <3>4 DEF Carried
      <4> QED BY <4>1, <4>2 DEF ToldPolicy
    <3> QED BY <2>4, <3>2, <3>3, <3>4 DEF CoversPolicy
  <2>8. BehindDns(s)' => s \in dnsDirty'
    BY <1>1, <2>1 DEF BehindDns, UpToDate
  <2>9. BehindPolicy(s)' = BehindPolicy(s) /\ \A p \in Nodes : Astray(s, p)' = Astray(s, p)
    BY <1>1 DEF BehindPolicy, Astray
  <2> QED BY <2>1, <2>6, <2>7, <2>8, <2>9 DEF UpToDate
<1> QED BY <1>7, <1>8, <1>9, <1>10, <1>11

-----------------------------------------------------------------------------
\* The results.

LEMMA StepInv == Inv /\ [Next]_vars => Inv'
<1> SUFFICES ASSUME Inv, [Next]_vars PROVE Inv'
  OBVIOUS
<1>1. CASE UNCHANGED vars
  <2>1. UNCHANGED <<registry, retired, policy, dns, edits, unsaved, todo, ids, active, pending,
                    batch, pc, view, initial, queue, lagged, dnsDirty, pingDirty, hold, cancelled,
                    pings, pinged>>
    BY <1>1 DEF vars,
                                   registryVars, queueVars, streamVars, pingVars
  <2>2. TypeOK'
    BY <2>1 DEF Inv, TypeOK
  <2>3. Counters' /\ IdsForChange' /\ TodoSound' /\ IdsFresh'
    BY <2>1, RestKept DEF Inv
  <2>4. StreamsKnown'
    BY <2>1 DEF Inv, StreamsKnown
  <2>5. NothingLost'
    <3>1. \A s \in Streaming' : s \in Streaming
      BY <2>1 DEF Streaming
    <3> QED BY <2>1, <3>1, QuietKept DEF Inv
  <2> QED BY <2>2, <2>3, <2>4, <2>5 DEF Inv
<1>2. CASE Next
  <2>1. CASE \E w \in Writers, p \in Nodes :
               \/ \E r \in UpdateReasons : UpdateNode(w, p, r)
               \/ AddNode(w, p)
               \/ ApproveRoutes(w, p)
               \/ DeleteNode(w, p)
               \/ DispatchPing(w, p)
    BY <2>1, UpdateNodeInv, AddNodeInv, ApproveRoutesInv, DeleteNodeInv, DispatchPingInv
  <2>5. CASE \E w \in Writers, v \in Policies : SetPolicy(w, v)
    BY <2>5, SetPolicyInv
  <2>2. CASE \E w \in Writers : MoveRoutes(w) \/ SaveFails(w) \/ WriterStep(w)
    BY <2>2, MoveRoutesInv, SaveFailsInv, ReadIdsInv, EnqueueMapChangeInv
       DEF WriterStep
  <2>3. CASE DrainPending \/ SendBatch \/ EditDns \/ \E n \in Nodes : CleanupOffline(n)
    BY <2>3, DrainPendingInv, SendBatchInv, EditDnsInv, CleanupOfflineInv
  <2>4. CASE \E s \in Streams : Connect(s) \/ StreamStep(s) \/ EndStream(s)
    BY <2>4, ConnectInv, SubscribeInv, BuildInitialInv, OpenStreamInv, PollInv, ReceiveBatchInv,
       ReceiveLaggedInv, DnsWakeInv, PingWakeInv, KeepaliveInv, EndStreamInv
       DEF StreamStep
  <2> QED BY <1>2, <2>1, <2>2, <2>3, <2>4, <2>5 DEF Next
<1> QED BY <1>1, <1>2

\* Inv holds in every reachable state.
THEOREM Invariance == Spec => []Inv
<1>1. Init => Inv
  BY InitInv
<1>2. Inv /\ [Next]_vars => Inv'
  BY StepInv
<1> QED BY <1>1, <1>2, PTL DEF Spec

\* The types of the queues, the views and the counters; in particular no
\* receiver's channel ever outgrows its size.
THEOREM TypeCorrect == Spec => []TypeOK
<1>1. Inv => TypeOK
  BY DEF Inv
<1> QED BY <1>1, Invariance, PTL

\* Whatever an open stream has not been shown is on its way to it: between
\* enqueue_map_change, publish_pending_map_changes and the stream loop no
\* change of the registry, the policy or the DNS configuration is lost,
\* however entries are read before the queue is locked, batches are drained
\* and sent, receivers lag and nodes are deleted and added.  Under a policy
\* without ACL rules "shown" has the meaning Shows gives it.
THEOREM DeliveryLossless == Spec => []NoChangeLost
<1>1. Inv => NoChangeLost
  BY InvImplies
<1> QED BY <1>1, Invariance, PTL
=============================================================================
