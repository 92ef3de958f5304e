------------------------ MODULE StreamSessionsProofs ------------------------
(***************************************************************************)
(* Proofs about StreamSessions, for every set of nodes, every number of    *)
(* requests and timers, and every choice of the ephemeral nodes.           *)
(*                                                                         *)
(* The invariant says who owns what between the critical sections: the     *)
(* machine's lock belongs to the request or the collector task that is in  *)
(* the middle of its work, an epoch belongs to a node in the NodeStore,    *)
(* and a task that arms a timer keeps the epoch it compared.  The counters *)
(* are cardinalities, so the proofs count sets of requests.                *)
(***************************************************************************)
EXTENDS StreamSessions, FiniteSetTheorems, TLAPS

Guarded == {"acquired", "open"}
Counted == {"acquired", "open", "releasing"}
Leaving == {"offline", "arming"}

\* A request that does nothing has no trace, a request under way has its node
\* and, from the acquisition on, the epoch it acquired.
ConnShape ==
    \A c \in Conns :
        /\ conn[c].pc # "none" => conn[c].node \in Nodes
        /\ conn[c].pc \in Counted \cup Leaving => conn[c].epoch \in Epochs
        /\ conn[c].pc \in {"none", "locked"} => conn[c].epoch = None

\* A collector task has its node and its epoch.
TaskShape ==
    \A g \in Gens :
        task[g].pc # "none" => task[g].node \in Nodes /\ task[g].epoch \in Epochs

\* The lock of the machine belongs to the request that is connecting and to
\* the collector task that is deleting.
LockOwned ==
    /\ \A c \in Conns : conn[c].pc \in {"locked", "acquired"} => lock[conn[c].node] = c
    /\ \A g \in Gens : task[g].pc \in {"claimed", "destroyed"} => lock[task[g].node] = g

\* Only nodes in the NodeStore have an epoch; a request that still holds the
\* lock, or the read guard, has the epoch of its node.
EpochsCurrent ==
    /\ \A n \in Nodes : epoch[n] # None => present[n]
    /\ \A c \in Conns :
          conn[c].pc \in {"acquired", "arming"} => epoch[conn[c].node] = conn[c].epoch

\* The collector is closed by the shutdown, and nothing else.
Phases == gcClosed <=> shutdown \in {"closingGc", "gcClosed", "draining", "done"}

Shape == TypeOK /\ ConnShape /\ TaskShape /\ Phases

Inv ==
    /\ Shape
    /\ LockOwned
    /\ EpochsCurrent
    /\ PresenceMatches
    /\ StreamsToldToStop
    /\ TimersOwned
    /\ GcSparesConnected
    /\ IdleEphemeralTracked

-----------------------------------------------------------------------------
\* Counting.

\* The requests of a node are finitely many.
LEMMA HeldFinite ==
    ASSUME NEW n, NEW P
    PROVE  IsFiniteSet(Held(n, P)) /\ Cardinality(Held(n, P)) \in Nat
<1>1. Held(n, P) \subseteq Conns
    BY DEF Held
<1> QED
    BY <1>1, ConnsAssumption, FS_Subset, FS_CardinalityType

\* The counters are 0 exactly where there is nothing to count, and every
\* guard is counted as a session.
LEMMA CountersTell ==
    ASSUME CountsMatch, NEW n \in Nodes
    PROVE  /\ active[n] \in Nat /\ sessions[n] \in Nat
           /\ active[n] = 0 <=> Held(n, Guarded) = {}
           /\ sessions[n] = 0 <=> Held(n, Counted) = {}
           /\ sessions[n] = 0 => active[n] = 0
<1>1. /\ active[n] = Cardinality(Held(n, Guarded))
      /\ sessions[n] = Cardinality(Held(n, Counted))
    BY DEF CountsMatch, Guarded, Counted
<1>2. Held(n, Guarded) \subseteq Held(n, Counted)
    BY DEF Held, Guarded, Counted
<1> QED
    BY <1>1, <1>2, HeldFinite, FS_EmptySet

-----------------------------------------------------------------------------
\* The shape of the state.

\* A request that ends leaves nothing.
LEMMA ConnDoneShape ==
    ASSUME Shape, NEW c \in Conns, conn' = ConnDone(c)
    PROVE  conn' \in [Conns -> ConnType] /\ ConnShape'
<1>1. IdleConn \in ConnType /\ IdleConn.pc = "none" /\ IdleConn.epoch = None
    BY DEF IdleConn, ConnType
<1>2. /\ conn' \in [Conns -> ConnType]
      /\ conn'[c] = IdleConn /\ \A d \in Conns \ {c} : conn'[d] = conn[d]
    BY <1>1 DEF ConnDone, Shape, TypeOK
<1> QED
    BY <1>1, <1>2 DEF Shape, ConnShape, Counted, Leaving

\* Aborting a timer's task, or nobody's, leaves the others alone.
LEMMA TaskAbortedShape ==
    ASSUME Shape, NEW h \in Gens \cup {None}
    PROVE  /\ TaskAborted(h) \in [Gens -> TaskType]
           /\ \A g \in Gens : TaskAborted(h)[g] = IF g = h THEN IdleTask ELSE task[g]
BY NoneAssumption DEF TaskAborted, IdleTask, TaskType, Shape, TypeOK

\* The tasks keep their shape when one of them is aborted.
LEMMA TaskAbortedTaskShape ==
    ASSUME Shape, NEW h \in Gens \cup {None}, task' = TaskAborted(h)
    PROVE  task' \in [Gens -> TaskType] /\ TaskShape'
<1>1. IdleTask.pc = "none"
    BY DEF IdleTask
<1> QED
    BY <1>1, TaskAbortedShape DEF Shape, TaskShape

\* A request that connects keeps the shape of the state.
LEMMA ConnectingShape ==
    ASSUME Inv, NEW c \in Conns,
           \/ \E n \in Nodes : StartConnect(c, n)
           \/ ConnectFails(c) \/ Acquire(c) \/ AcquireRefused(c) \/ FinishConnect(c)
    PROVE  Shape'
<1> USE DEF Inv
<1>1. ASSUME NEW n \in Nodes, StartConnect(c, n)
      PROVE  Shape'
  <2> DEFINE r == [IdleConn EXCEPT !.pc = "locked", !.node = n]
  <2>1. conn' = [conn EXCEPT ![c] = r]
      BY <1>1 DEF StartConnect
  <2>2. r \in ConnType /\ r.pc = "locked" /\ r.node = n /\ r.epoch = None
      BY DEF IdleConn, ConnType
  <2> HIDE DEF r
  <2>3. conn' \in [Conns -> ConnType] /\ ConnShape'
      BY <2>1, <2>2 DEF Shape, TypeOK, ConnShape, Counted, Leaving
  <2> QED
      BY <1>1, <2>3 DEF StartConnect, Shape, TypeOK, TaskShape, Phases,
         nodeVars, sessionVars, gcVars, stopVars
<1>2. CASE ConnectFails(c) \/ AcquireRefused(c)
  <2>1. conn' = ConnDone(c) /\ conn[c].node \in Nodes
      BY <1>2 DEF ConnectFails, AcquireRefused, Shape, ConnShape
  <2>2. conn' \in [Conns -> ConnType] /\ ConnShape'
      BY <2>1, ConnDoneShape
  <2> QED
      BY <1>2, <2>1, <2>2 DEF ConnectFails, AcquireRefused, Shape, TypeOK, TaskShape, Phases,
         nodeVars, sessionVars, gcVars, stopVars
<1>3. CASE Acquire(c)
  <2>1. PICK e \in EpochFor(conn[c].node) :
            /\ epoch' = [epoch EXCEPT ![conn[c].node] = e]
            /\ conn' = [conn EXCEPT ![c].pc = "acquired", ![c].epoch = e]
      BY <1>3 DEF Acquire
  <2>2. conn[c].node \in Nodes /\ e \in Epochs
      BY <1>3 DEF Acquire, Shape, TypeOK, ConnShape, EpochFor
  <2> DEFINE r == [conn[c] EXCEPT !.pc = "acquired", !.epoch = e]
  <2>r. r \in ConnType /\ r.pc = "acquired" /\ r.node = conn[c].node /\ r.epoch = e
    <3>1. conn[c] \in ConnType
        BY DEF Shape, TypeOK
    <3> QED
        BY <2>2, <3>1 DEF ConnType
  <2>c. conn' = [conn EXCEPT ![c] = r]
      BY <2>1
  <2> HIDE DEF r
  <2>3. conn' \in [Conns -> ConnType] /\ ConnShape'
      BY <2>2, <2>r, <2>c DEF Shape, TypeOK, ConnShape, Counted, Leaving
  <2>4. epoch' \in [Nodes -> Epochs \cup {None}]
      BY <2>1, <2>2 DEF Shape, TypeOK
  <2>5. /\ active' \in [Nodes -> Nat] /\ sessions' \in [Nodes -> Nat]
        /\ stale' \in [Nodes -> BOOLEAN]
    <3>1. /\ active' = [active EXCEPT ![conn[c].node] = @ + 1]
          /\ sessions' = [sessions EXCEPT ![conn[c].node] = @ + 1]
          /\ stale' = [stale EXCEPT ![conn[c].node] = FALSE]
        BY <1>3 DEF Acquire
    <3> QED
        BY <2>2, <3>1 DEF Shape, TypeOK
  <2>6. online' \in [Nodes -> BOOLEAN]
      BY <1>3, <2>2, Zenon DEF Acquire, Shape, TypeOK
  <2> QED
      BY <1>3, <2>3, <2>4, <2>5, <2>6 DEF Acquire, Shape, TypeOK, TaskShape, Phases, nodeVars, stopVars
<1>4. CASE FinishConnect(c)
  <2>1. conn' = [conn EXCEPT ![c].pc = "open"] /\ conn[c].node \in Nodes /\ conn[c].pc = "acquired"
      BY <1>4 DEF FinishConnect, Shape, ConnShape
  <2>2. conn' \in [Conns -> ConnType] /\ ConnShape'
      BY <2>1 DEF Shape, TypeOK, ConnType, ConnShape, Counted, Leaving
  <2>3. timers[conn[c].node] \in Gens \cup {None}
      BY <2>1 DEF Shape, TypeOK
  <2>4. /\ timers' \in [Nodes -> Gens \cup {None}]
        /\ task' \in [Gens -> TaskType] /\ TaskShape'
      BY <1>4, <2>1, <2>3, TaskAbortedTaskShape DEF FinishConnect, CancelTimer, Shape, TypeOK, TaskShape
  <2> QED
      BY <1>4, <2>1, <2>2, <2>4 DEF FinishConnect, Shape, TypeOK, Phases,
         nodeVars, sessionVars, stopVars
<1> QED
    BY <1>1, <1>2, <1>3, <1>4

\* A request that disconnects keeps the shape of the state: the counters are
\* decremented only where something is counted.
LEMMA DisconnectingShape ==
    ASSUME Inv, NEW c \in Conns,
           DropGuard(c) \/ Release(c) \/ DispatchDisconnect(c) \/ InstallTimer(c)
    PROVE  Shape'
<1> USE DEF Inv
<1> DEFINE n == conn[c].node
<1>1. n \in Nodes /\ timers[n] \in Gens \cup {None} /\ CountsMatch
    BY DEF DropGuard, Release, DispatchDisconnect, InstallTimer, Shape, TypeOK, ConnShape,
       PresenceMatches
<1>2. /\ active[n] \in Nat /\ sessions[n] \in Nat
      /\ active[n] = 0 <=> Held(n, Guarded) = {}
      /\ sessions[n] = 0 <=> Held(n, Counted) = {}
    BY <1>1, CountersTell
<1>3. ASSUME NEW x \in {"releasing", "offline", "arming"},
             conn[c].pc \in Counted \cup Leaving, conn' = [conn EXCEPT ![c].pc = x]
      PROVE  conn' \in [Conns -> ConnType] /\ ConnShape'
    BY <1>3 DEF Shape, TypeOK, ConnType, ConnShape, Counted, Leaving
<1>4. CASE DropGuard(c)
  <2>1. CASE EpochMatches(c)
    <3>1. c \in Held(n, Guarded)
        BY <1>4, <2>1 DEF DropGuard, EpochMatches, Held, Guarded
    <3>2. active' \in [Nodes -> Nat]
        BY <1>1, <1>2, <1>4, <2>1, <3>1 DEF DropGuard, Shape, TypeOK
    <3>3. conn' \in [Conns -> ConnType] /\ ConnShape'
        BY <1>3, <1>4, <2>1 DEF DropGuard, Counted
    <3> QED
        BY <1>4, <3>2, <3>3 DEF DropGuard, Shape, TypeOK, TaskShape, Phases, nodeVars, gcVars, stopVars
  <2>2. CASE ~EpochMatches(c)
    <3>1. conn' \in [Conns -> ConnType] /\ ConnShape'
        BY <1>4, <2>2, ConnDoneShape DEF DropGuard
    <3> QED
        BY <1>4, <2>2, <3>1 DEF DropGuard, Shape, TypeOK, TaskShape, Phases, nodeVars, gcVars, stopVars
  <2> QED
      BY <2>1, <2>2
<1>5. CASE Release(c)
  <2>1. conn' \in [Conns -> ConnType] /\ ConnShape'
      BY <1>3, <1>5, ConnDoneShape DEF Release, Counted
  <2>2. CASE EpochMatches(c) /\ present[n]
    <3>1. c \in Held(n, Counted)
        BY <1>5, <2>2 DEF Release, EpochMatches, Held, Counted
    <3>2. sessions' \in [Nodes -> Nat]
        BY <1>1, <1>2, <1>5, <2>2, <3>1 DEF Release, Shape, TypeOK
    <3>3. online' \in [Nodes -> BOOLEAN]
        BY <1>1, <1>5, <2>2 DEF Release, Shape, TypeOK
    <3> QED
        BY <1>5, <2>1, <3>2, <3>3 DEF Release, Shape, TypeOK, TaskShape, Phases, nodeVars, gcVars, stopVars
  <2>3. CASE ~(EpochMatches(c) /\ present[n])
      BY <1>5, <2>1, <2>3 DEF Release, Shape, TypeOK, TaskShape, Phases, nodeVars, gcVars, stopVars
  <2> QED
      BY <2>2, <2>3
<1>6. CASE DispatchDisconnect(c)
  <2>1. conn' \in [Conns -> ConnType] /\ ConnShape'
      BY <1>3, <1>6, ConnDoneShape DEF DispatchDisconnect, Leaving
  <2>2. /\ timers' \in [Nodes -> Gens \cup {None}]
        /\ task' \in [Gens -> TaskType] /\ TaskShape'
      BY <1>1, <1>6, TaskAbortedTaskShape DEF DispatchDisconnect, CancelTimer, Shape, TypeOK, TaskShape
  <2> QED
      BY <1>6, <2>1, <2>2 DEF DispatchDisconnect, Shape, TypeOK, Phases,
         nodeVars, sessionVars, stopVars
<1>7. CASE InstallTimer(c)
  <2>1. conn' \in [Conns -> ConnType] /\ ConnShape'
      BY <1>7, ConnDoneShape DEF InstallTimer
  <2>2. ASSUME NEW g \in Gens,
               timers' = [timers EXCEPT ![n] = g],
               task' = [TaskAborted(timers[n]) EXCEPT
                          ![g] = [pc |-> "sleeping", node |-> n, epoch |-> conn[c].epoch]]
        PROVE  /\ timers' \in [Nodes -> Gens \cup {None}]
               /\ task' \in [Gens -> TaskType] /\ TaskShape'
    <3>1. conn[c].epoch \in Epochs
        BY <1>7 DEF InstallTimer, Shape, ConnShape, Leaving
    <3>2. /\ TaskAborted(timers[n]) \in [Gens -> TaskType]
          /\ \A h \in Gens : TaskAborted(timers[n])[h] = IF h = timers[n] THEN IdleTask ELSE task[h]
        BY <1>1, TaskAbortedShape
    <3>3. [pc |-> "sleeping", node |-> n, epoch |-> conn[c].epoch] \in TaskType
        BY <1>1, <3>1 DEF TaskType
    <3>4. IdleTask.pc = "none"
        BY DEF IdleTask
    <3> QED
        BY <1>1, <2>2, <3>1, <3>2, <3>3, <3>4 DEF Shape, TypeOK, TaskShape
  <2>3. /\ timers' \in [Nodes -> Gens \cup {None}]
        /\ task' \in [Gens -> TaskType] /\ TaskShape'
      BY <1>7, <2>2 DEF InstallTimer, Shape, TypeOK, TaskShape
  <2> QED
      BY <1>7, <2>1, <2>3 DEF InstallTimer, Shape, TypeOK, Phases,
         nodeVars, sessionVars, stopVars
<1> QED
    BY <1>4, <1>5, <1>6, <1>7

\* A stream that is told to stop keeps everything but its flag.
LEMMA FlagSet ==
    ASSUME Shape, NEW c \in Conns
    PROVE  LET r == [conn[c] EXCEPT !.cancelled = TRUE]
           IN  /\ r \in ConnType /\ r.cancelled = TRUE
               /\ r.pc = conn[c].pc /\ r.node = conn[c].node /\ r.epoch = conn[c].epoch
<1>1. conn[c] \in ConnType
    BY DEF Shape, TypeOK
<1> QED
    BY <1>1 DEF ConnType

\* What retire_absent_stream_state does to the streams, and to a node.
LEMMA Retired ==
    ASSUME Shape, NEW n \in Nodes, RemoveNode(n)
    PROVE  /\ conn' \in [Conns -> ConnType] /\ ConnShape'
           /\ \A c \in Conns :
                 /\ conn'[c].pc = conn[c].pc /\ conn'[c].node = conn[c].node
                 /\ conn'[c].epoch = conn[c].epoch
                 /\ conn[c].cancelled => conn'[c].cancelled
                 /\ Streaming(c) /\ conn[c].node = n => conn'[c].cancelled
           /\ epoch' = [epoch EXCEPT ![n] = None]
           /\ active' = [active EXCEPT ![n] = 0]
           /\ sessions' = [sessions EXCEPT ![n] = 0]
           /\ online' = [online EXCEPT ![n] = FALSE]
           /\ present' = [present EXCEPT ![n] = FALSE]
           /\ timers' = [timers EXCEPT ![n] = None]
           /\ UNCHANGED <<gcClosed, stopVars>>
           /\ WriterFree
<1>1. conn' = RetiredConns(n)
    BY DEF RemoveNode
<1>2. ASSUME NEW c \in Conns
      PROVE  /\ conn'[c] \in ConnType
             /\ conn'[c].pc = conn[c].pc /\ conn'[c].node = conn[c].node
             /\ conn'[c].epoch = conn[c].epoch
             /\ conn[c].cancelled => conn'[c].cancelled
             /\ Streaming(c) /\ conn[c].node = n => conn'[c].cancelled
  <2>1. CASE Streaming(c) /\ conn[c].node = n
    <3>1. conn'[c] = [conn[c] EXCEPT !.cancelled = TRUE]
        BY <1>1, <2>1 DEF RetiredConns
    <3> QED
        BY <3>1, FlagSet
  <2>2. CASE ~(Streaming(c) /\ conn[c].node = n)
    <3>1. conn'[c] = conn[c]
        BY <1>1, <2>2 DEF RetiredConns
    <3> QED
        BY <2>2, <3>1 DEF Shape, TypeOK
  <2> QED
      BY <2>1, <2>2
<1>3. conn' \in [Conns -> ConnType]
  <2>1. conn' = [c \in Conns |-> conn'[c]]
      BY <1>1 DEF RetiredConns
  <2> QED
      BY <1>2, <2>1
<1>4. ConnShape'
    BY <1>2 DEF Shape, ConnShape
<1>5. timers' = [timers EXCEPT ![n] = None]
    BY DEF RemoveNode, RetiredTimers
<1> QED
    BY <1>2, <1>3, <1>4, <1>5 DEF RemoveNode

\* A removal keeps the shape of the registry.
LEMMA RetiredShape ==
    ASSUME Shape, NEW n \in Nodes, RemoveNode(n)
    PROVE  /\ present' \in [Nodes -> BOOLEAN]
           /\ epoch' \in [Nodes -> Epochs \cup {None}]
           /\ active' \in [Nodes -> Nat] /\ sessions' \in [Nodes -> Nat]
           /\ online' \in [Nodes -> BOOLEAN]
           /\ timers' \in [Nodes -> Gens \cup {None}]
           /\ conn' \in [Conns -> ConnType] /\ ConnShape'
           /\ UNCHANGED <<gcClosed, closing, shutdown>> /\ Phases'
<1>1. UNCHANGED <<gcClosed, closing, shutdown>>
    BY DEF RemoveNode, stopVars
<1>2. conn' \in [Conns -> ConnType] /\ ConnShape'
    BY Retired
<1>3. Phases'
    BY <1>1 DEF Shape, Phases
<1>4. /\ present' \in [Nodes -> BOOLEAN]
      /\ epoch' \in [Nodes -> Epochs \cup {None}]
      /\ active' \in [Nodes -> Nat] /\ sessions' \in [Nodes -> Nat]
      /\ online' \in [Nodes -> BOOLEAN]
      /\ timers' \in [Nodes -> Gens \cup {None}]
    BY DEF RemoveNode, RetiredTimers, Shape, TypeOK
<1> QED
    BY <1>1, <1>2, <1>3, <1>4

\* What the shutdown's sweep over stream_cancel_flags does to the streams.
LEMMA Cancelled ==
    ASSUME Shape, conn' = CancelledConns
    PROVE  /\ conn' \in [Conns -> ConnType] /\ ConnShape'
           /\ \A c \in Conns :
                 /\ conn'[c].pc = conn[c].pc /\ conn'[c].node = conn[c].node
                 /\ conn'[c].epoch = conn[c].epoch
                 /\ Streaming(c) => conn'[c].cancelled
<1>2. ASSUME NEW c \in Conns
      PROVE  /\ conn'[c] \in ConnType
             /\ conn'[c].pc = conn[c].pc /\ conn'[c].node = conn[c].node
             /\ conn'[c].epoch = conn[c].epoch
             /\ Streaming(c) => conn'[c].cancelled
  <2>1. CASE Streaming(c)
    <3>1. conn'[c] = [conn[c] EXCEPT !.cancelled = TRUE]
        BY <2>1 DEF CancelledConns
    <3> QED
        BY <3>1, FlagSet
  <2>2. CASE ~Streaming(c)
    <3>1. conn'[c] = conn[c]
        BY <2>2 DEF CancelledConns
    <3> QED
        BY <2>2, <3>1 DEF Shape, TypeOK
  <2> QED
      BY <2>1, <2>2
<1>3. conn' \in [Conns -> ConnType]
  <2>1. conn' = [c \in Conns |-> conn'[c]]
      BY DEF CancelledConns
  <2> QED
      BY <1>2, <2>1
<1>4. ConnShape'
    BY <1>2 DEF Shape, ConnShape
<1> QED
    BY <1>2, <1>3, <1>4

\* A task moves on, or ends: the tasks keep their shape.
LEMMA TaskMoves ==
    ASSUME Shape, NEW g \in Gens, task[g].pc # "none",
           \/ task' = [task EXCEPT ![g] = IdleTask]
           \/ \E x \in {"waiting", "claimed", "destroyed"} : task' = [task EXCEPT ![g].pc = x]
    PROVE  task' \in [Gens -> TaskType] /\ TaskShape'
<1>1. IdleTask \in TaskType /\ IdleTask.pc = "none"
    BY DEF IdleTask, TaskType
<1>2. CASE task' = [task EXCEPT ![g] = IdleTask]
    BY <1>1, <1>2 DEF Shape, TypeOK, TaskShape
<1>3. ASSUME NEW x \in {"waiting", "claimed", "destroyed"}, task' = [task EXCEPT ![g].pc = x]
      PROVE  task' \in [Gens -> TaskType] /\ TaskShape'
    BY <1>3 DEF Shape, TypeOK, TaskType, TaskShape
<1> QED
    BY <1>2, <1>3

\* The collector's steps keep the shape of the state.
LEMMA GcShape ==
    ASSUME Inv, NEW g \in Gens, GcStep(g) \/ GcDestroyFails(g)
    PROVE  Shape'
<1> USE DEF Inv
<1>1. task[g].pc # "none" /\ task[g].node \in Nodes /\ timers[task[g].node] \in Gens \cup {None}
    BY DEF GcStep, GcDestroyFails, Fire, Claim, GcDestroyRow, GcRemove, Shape, TypeOK, TaskShape
<1>2. CASE Fire(g)
  <2>1. task' \in [Gens -> TaskType] /\ TaskShape'
      BY <1>1, <1>2, TaskMoves DEF Fire
  <2> QED
      BY <1>2, <2>1 DEF Fire, Shape, TypeOK, ConnShape, Phases, nodeVars, sessionVars, stopVars
<1>3. CASE Claim(g)
  <2>1. task' \in [Gens -> TaskType] /\ TaskShape'
      BY <1>1, <1>3, TaskMoves DEF Claim
  <2>2. lock' \in [Nodes -> Conns \cup Gens \cup {None}] /\ timers' \in [Nodes -> Gens \cup {None}]
      BY <1>1, <1>3 DEF Claim, Shape, TypeOK
  <2> QED
      BY <1>3, <2>1, <2>2 DEF Claim, Shape, TypeOK, ConnShape, Phases, nodeVars, sessionVars, stopVars
<1>4. CASE GcDestroyRow(g)
  <2>1. task' \in [Gens -> TaskType] /\ TaskShape'
      BY <1>1, <1>4, TaskMoves DEF GcDestroyRow
  <2> QED
      BY <1>4, <2>1 DEF GcDestroyRow, Shape, TypeOK, ConnShape, Phases, nodeVars, sessionVars, stopVars
<1>5. CASE GcDestroyFails(g)
  <2>1. task' \in [Gens -> TaskType] /\ TaskShape'
      BY <1>1, <1>5, TaskMoves DEF GcDestroyFails
  <2> QED
      BY <1>1, <1>5, <2>1 DEF GcDestroyFails, Shape, TypeOK, ConnShape, Phases, nodeVars,
         sessionVars, stopVars
<1>6. CASE GcRemove(g)
  <2>1. RemoveNode(task[g].node) /\ task' = [TaskAborted(timers[task[g].node]) EXCEPT ![g] = IdleTask]
      BY <1>6 DEF GcRemove
  <2>2. task' \in [Gens -> TaskType] /\ TaskShape'
    <3>1. IdleTask \in TaskType /\ IdleTask.pc = "none"
        BY DEF IdleTask, TaskType
    <3>2. /\ TaskAborted(timers[task[g].node]) \in [Gens -> TaskType]
          /\ \A h \in Gens : TaskAborted(timers[task[g].node])[h]
                = IF h = timers[task[g].node] THEN IdleTask ELSE task[h]
        BY <1>1, TaskAbortedShape
    <3> QED
        BY <2>1, <3>1, <3>2 DEF Shape, TaskShape
  <2>3. lock' \in [Nodes -> Conns \cup Gens \cup {None}] /\ UNCHANGED <<expiry, stale>>
      BY <1>1, <1>6 DEF GcRemove, Shape, TypeOK
  <2> QED
      BY <1>1, <2>1, <2>2, <2>3, RetiredShape DEF Shape, TypeOK
<1> QED
    BY <1>2, <1>3, <1>4, <1>5, <1>6 DEF GcStep

\* The steps of administrators, registrations, the expiry waker and the
\* shutdown keep the shape of the state.
LEMMA NodeShape ==
    ASSUME Inv, NEW n \in Nodes,
           \/ ScheduleExisting(n) \/ DeleteNode(n) \/ Register(n) \/ Rekey(n)
           \/ KeyLapses(n) \/ WakeExpired(n)
           \/ \E x \in {"valid", "lapsed"} : SetExpiry(n, x)
    PROVE  Shape'
<1> USE DEF Inv
<1>1. timers[n] \in Gens \cup {None}
    BY DEF Shape, TypeOK
<1>2. CASE ScheduleExisting(n)
  <2>1. PICK e \in EpochFor(n), g \in Gens :
            /\ epoch' = [epoch EXCEPT ![n] = e]
            /\ timers' = [timers EXCEPT ![n] = g]
            /\ task' = [task EXCEPT ![g] = [pc |-> "sleeping", node |-> n, epoch |-> e]]
      BY <1>2 DEF ScheduleExisting
  <2>2. e \in Epochs
      BY <1>2 DEF ScheduleExisting, EpochFor
  <2>3. task' \in [Gens -> TaskType] /\ TaskShape'
      BY <2>1, <2>2 DEF Shape, TypeOK, TaskType, TaskShape
  <2>4. epoch' \in [Nodes -> Epochs \cup {None}] /\ timers' \in [Nodes -> Gens \cup {None}]
      BY <2>1, <2>2 DEF Shape, TypeOK
  <2>5. UNCHANGED <<present, expiry, active, sessions, online, lock, conn, gcClosed, stale,
                    closing, shutdown>>
      BY <1>2 DEF ScheduleExisting, nodeVars, stopVars
  <2> QED
      BY <2>3, <2>4, <2>5 DEF Shape, TypeOK, ConnShape, Phases
<1>3. CASE DeleteNode(n)
  <2>1. RemoveNode(n) /\ task' = TaskAborted(timers[n]) /\ UNCHANGED <<expiry, lock, stale>>
      BY <1>3 DEF DeleteNode
  <2>2. task' \in [Gens -> TaskType] /\ TaskShape'
      BY <1>1, <2>1, TaskAbortedTaskShape
  <2> QED
      BY <2>1, <2>2, RetiredShape DEF Shape, TypeOK
<1>4. CASE Register(n)
    BY <1>4 DEF Register, Shape, TypeOK, ConnShape, TaskShape, Phases, sessionVars, stopVars
<1>5. CASE Rekey(n)
  <2>1. task' \in [Gens -> TaskType] /\ TaskShape'
      BY <1>1, <1>5, TaskAbortedTaskShape DEF Rekey, CancelTimer
  <2> QED
      BY <1>5, <2>1 DEF Rekey, CancelTimer, Shape, TypeOK, ConnShape, Phases, sessionVars, stopVars
<1>6. CASE KeyLapses(n) \/ WakeExpired(n)
  <2>1. /\ expiry' \in [Nodes -> {"valid", "lapsed", "swept"}]
        /\ online' \in [Nodes -> BOOLEAN]
      BY <1>6 DEF KeyLapses, WakeExpired, Shape, TypeOK, sessionVars
  <2>2. UNCHANGED <<present, epoch, active, sessions, lock, conn, gcVars, stopVars>>
      BY <1>6 DEF KeyLapses, WakeExpired, sessionVars
  <2> QED
      BY <2>1, <2>2 DEF Shape, TypeOK, ConnShape, TaskShape, Phases, gcVars, stopVars
<1>7. ASSUME NEW x \in {"valid", "lapsed"}, SetExpiry(n, x)
      PROVE  Shape'
  <2>1. online' \in [Nodes -> BOOLEAN]
      BY <1>7, Zenon DEF SetExpiry, OnlineAfterExpiry, Shape, TypeOK
  <2>2. expiry' \in [Nodes -> {"valid", "lapsed", "swept"}]
      BY <1>7 DEF SetExpiry, Shape, TypeOK
  <2> QED
      BY <1>7, <2>1, <2>2 DEF SetExpiry, Shape, TypeOK, ConnShape, TaskShape, Phases, gcVars, stopVars
<1> QED
    BY <1>2, <1>3, <1>4, <1>5, <1>6, <1>7

\* The start of the server and its shutdown keep the shape of the state.
LEMMA StopShape ==
    ASSUME Inv, Serve \/ Stop
    PROVE  Shape'
<1> USE DEF Inv
<1>1. CASE Serve \/ CloseGc \/ Drained
  <2>1. UNCHANGED <<nodeVars, sessionVars, lock, conn, timers, task, stale, closing>>
      BY <1>1 DEF Serve, CloseGc, Drained, gcVars
  <2>2. /\ gcClosed' \in BOOLEAN /\ Phases'
        /\ shutdown' \in {"booting", "running", "closingGc", "gcClosed", "draining", "done"}
    <3>1. CASE CloseGc
        BY <3>1 DEF CloseGc, Shape, TypeOK, Phases
    <3>2. CASE Serve
        BY <3>2 DEF Serve, gcVars, Shape, TypeOK, Phases
    <3>3. CASE Drained
        BY <3>3 DEF Drained, gcVars, Shape, TypeOK, Phases
    <3> QED
        BY <1>1, <3>1, <3>2, <3>3
  <2> QED
      BY <2>1, <2>2 DEF Shape, TypeOK, ConnShape, TaskShape, nodeVars, sessionVars
<1>2. CASE AbortTimers
  <2>1. IdleTask \in TaskType /\ IdleTask.pc = "none"
      BY DEF IdleTask, TaskType
  <2>2. task' \in [Gens -> TaskType] /\ TaskShape'
      BY <1>2, <2>1 DEF AbortTimers, Shape, TypeOK, TaskShape
  <2> QED
      BY <1>2, <2>2 DEF AbortTimers, Shape, TypeOK, ConnShape, Phases, nodeVars, sessionVars
<1>3. CASE MarkClosing
  <2>1. conn' \in [Conns -> ConnType] /\ ConnShape'
      BY <1>3, Cancelled DEF MarkClosing
  <2> QED
      BY <1>3, <2>1 DEF MarkClosing, Shape, TypeOK, TaskShape, Phases, nodeVars, sessionVars, gcVars
<1> QED
    BY <1>1, <1>2, <1>3 DEF Stop

\* Every step keeps the shape of the state.
LEMMA ShapeKept == ASSUME Inv, [Next]_vars PROVE Shape'
<1>1. CASE UNCHANGED vars
    BY <1>1 DEF vars, nodeVars, sessionVars, gcVars, stopVars, Inv, Shape, TypeOK, ConnShape,
       TaskShape, Phases
<1> QED
    BY <1>1, ConnectingShape, DisconnectingShape, GcShape, NodeShape, StopShape DEF Next, ConnStep

-----------------------------------------------------------------------------
\* What a request's step does to the requests, and to the sets that are counted.

\* Nothing happens to the other requests.
OthersSame(c) == \A d \in Conns \ {c} : conn'[d] = conn[d]

\* A request that ends is idle.
LEMMA ConnDoneEffect ==
    ASSUME Shape, NEW c \in Conns, conn' = ConnDone(c)
    PROVE  /\ OthersSame(c)
           /\ conn'[c].pc = "none" /\ conn'[c].epoch = None
BY DEF ConnDone, IdleConn, Shape, TypeOK, OthersSame

\* A request that moves on keeps its node, its epoch and its flag.
LEMMA ConnMovesEffect ==
    ASSUME Shape, NEW c \in Conns, NEW x, conn' = [conn EXCEPT ![c].pc = x]
    PROVE  /\ OthersSame(c)
           /\ conn'[c].pc = x /\ conn'[c].node = conn[c].node
           /\ conn'[c].epoch = conn[c].epoch /\ conn'[c].cancelled = conn[c].cancelled
BY DEF Shape, TypeOK, ConnType, OthersSame

\* A request that starts has the lock and no epoch.
LEMMA StartConnectEffect ==
    ASSUME Shape, NEW c \in Conns, NEW n \in Nodes, StartConnect(c, n)
    PROVE  /\ OthersSame(c) /\ conn[c].pc = "none"
           /\ conn'[c].pc = "locked" /\ conn'[c].node = n /\ conn'[c].epoch = None
           /\ lock[n] = None /\ lock' = [lock EXCEPT ![n] = c] /\ present[n]
           /\ UNCHANGED <<nodeVars, sessionVars, gcVars, stopVars>>
<1> DEFINE r == [IdleConn EXCEPT !.pc = "locked", !.node = n]
<1>1. conn' = [conn EXCEPT ![c] = r]
    BY DEF StartConnect
<1>2. r.pc = "locked" /\ r.node = n /\ r.epoch = None
    BY DEF IdleConn
<1> HIDE DEF r
<1>3. /\ OthersSame(c) /\ conn'[c].pc = "locked" /\ conn'[c].node = n /\ conn'[c].epoch = None
    BY <1>1, <1>2 DEF Shape, TypeOK, OthersSame
<1> QED
    BY <1>3 DEF StartConnect, RegistrationFree

\* The acquisition: an epoch that is the node's, or nobody's.
LEMMA AcquireEffect ==
    ASSUME Shape, NEW c \in Conns, Acquire(c)
    PROVE  LET n == conn[c].node
               e == conn'[c].epoch
           IN  /\ n \in Nodes /\ conn[c].pc = "locked" /\ WriterFree /\ present[n] /\ ~closing
               /\ OthersSame(c)
               /\ conn'[c].pc = "acquired" /\ conn'[c].node = n
               /\ e \in Epochs /\ e # None
               /\ epoch' = [epoch EXCEPT ![n] = e]
               /\ epoch[n] # None => epoch[n] = e
               /\ epoch[n] = None => \A d \in Conns : conn[d].epoch # e
               /\ active' = [active EXCEPT ![n] = @ + 1]
               /\ sessions' = [sessions EXCEPT ![n] = @ + 1]
               /\ online' = [online EXCEPT ![n] = expiry[n] = "valid"]
               /\ stale' = [stale EXCEPT ![n] = FALSE]
               /\ UNCHANGED <<present, expiry, lock, timers, task, gcClosed, closing, shutdown>>
<1> DEFINE n == conn[c].node
<1>1. PICK e \in EpochFor(n) :
          /\ epoch' = [epoch EXCEPT ![n] = e]
          /\ conn' = [conn EXCEPT ![c].pc = "acquired", ![c].epoch = e]
    BY DEF Acquire
<1>2. n \in Nodes /\ conn[c].pc = "locked"
    BY DEF Acquire, Shape, ConnShape
<1>3. /\ e \in Epochs /\ e # None
      /\ epoch[n] # None => epoch[n] = e
      /\ epoch[n] = None => \A d \in Conns : conn[d].epoch # e
    BY <1>2, NoneAssumption DEF EpochFor, EpochsInUse, Shape, TypeOK
<1> DEFINE r == [conn[c] EXCEPT !.pc = "acquired", !.epoch = e]
<1>4. r.pc = "acquired" /\ r.node = n /\ r.epoch = e
  <2>1. conn[c] \in ConnType
      BY DEF Shape, TypeOK
  <2> QED
      BY <2>1 DEF ConnType
<1>5. conn' = [conn EXCEPT ![c] = r]
    BY <1>1
<1> HIDE DEF r
<1>6. OthersSame(c) /\ conn'[c].pc = "acquired" /\ conn'[c].node = n /\ conn'[c].epoch = e
    BY <1>4, <1>5 DEF Shape, TypeOK, OthersSame
<1>7. /\ WriterFree /\ present[n] /\ ~closing
      /\ active' = [active EXCEPT ![n] = @ + 1]
      /\ sessions' = [sessions EXCEPT ![n] = @ + 1]
      /\ online' = [online EXCEPT ![n] = expiry[n] = "valid"]
      /\ stale' = [stale EXCEPT ![n] = FALSE]
      /\ UNCHANGED <<present, expiry, lock, timers, task, gcClosed, closing, shutdown>>
    BY DEF Acquire, Admissible, nodeVars, stopVars
<1> QED
    BY <1>1, <1>2, <1>3, <1>6, <1>7

\* Only the request that moves can enter or leave what is counted.
LEMMA HeldMoved ==
    ASSUME NEW c \in Conns, OthersSame(c), NEW n, epoch'[n] = epoch[n], NEW P
    PROVE  /\ Held(n, P)' \ {c} = Held(n, P) \ {c}
           /\ c \in Held(n, P)' <=> /\ conn'[c].pc \in P /\ conn'[c].node = n
                                    /\ conn'[c].epoch # None /\ conn'[c].epoch = epoch[n]
           /\ c \in Held(n, P) <=> /\ conn[c].pc \in P /\ conn[c].node = n
                                   /\ conn[c].epoch # None /\ conn[c].epoch = epoch[n]
BY DEF Held, OthersSame

\* The sets are the same if the requests and the epoch are.
LEMMA HeldSame ==
    ASSUME NEW n, NEW P, epoch'[n] = epoch[n],
           \A c \in Conns : /\ conn'[c].pc = conn[c].pc /\ conn'[c].node = conn[c].node
                            /\ conn'[c].epoch = conn[c].epoch
    PROVE  Held(n, P)' = Held(n, P)
BY DEF Held

\* A node that got an epoch nobody had has no requests yet.
LEMMA HeldFresh ==
    ASSUME NEW n, NEW P, epoch[n] = None
    PROVE  Held(n, P) = {}
BY DEF Held

-----------------------------------------------------------------------------
\* Who owns the locks, the epochs and the streams.

Owned == LockOwned /\ EpochsCurrent /\ StreamsToldToStop

\* A request that ends gives up what it owned.
LEMMA EndsOwned ==
    ASSUME Inv, NEW c \in Conns, conn' = ConnDone(c), UNCHANGED <<present, epoch, closing, task>>,
           \/ lock' = lock
           \/ conn[c].pc = "locked" /\ lock' = [lock EXCEPT ![conn[c].node] = None]
    PROVE  Owned'
<1> USE DEF Inv
<1>1. OthersSame(c) /\ conn'[c].pc = "none"
    BY ConnDoneEffect
<1>2. LockOwned'
    BY <1>1, NoneAssumption DEF LockOwned, OthersSame, Shape, TypeOK, ConnShape, TaskShape
<1>3. EpochsCurrent'
    BY <1>1 DEF EpochsCurrent, OthersSame
<1>4. StreamsToldToStop'
    BY <1>1 DEF StreamsToldToStop, Streaming, OthersSame
<1> QED
    BY <1>2, <1>3, <1>4 DEF Owned

\* A request that connects takes the lock, then the epoch, and gives the lock
\* back.
LEMMA ConnectingOwned ==
    ASSUME Inv, NEW c \in Conns,
           \/ \E n \in Nodes : StartConnect(c, n)
           \/ ConnectFails(c) \/ Acquire(c) \/ AcquireRefused(c) \/ FinishConnect(c)
    PROVE  Owned'
<1> USE DEF Inv
<1>1. ASSUME NEW n \in Nodes, StartConnect(c, n)
      PROVE  Owned'
  <2>1. /\ OthersSame(c) /\ conn[c].pc = "none"
        /\ conn'[c].pc = "locked" /\ conn'[c].node = n /\ conn'[c].epoch = None
        /\ lock[n] = None /\ lock' = [lock EXCEPT ![n] = c] /\ present[n]
        /\ UNCHANGED <<present, epoch, closing, task>>
      BY <1>1, StartConnectEffect DEF nodeVars, sessionVars, gcVars, stopVars
  <2>2. LockOwned'
      BY <2>1, NoneAssumption DEF LockOwned, OthersSame, Shape, TypeOK, ConnShape, TaskShape
  <2>3. EpochsCurrent' /\ StreamsToldToStop'
      BY <2>1 DEF EpochsCurrent, StreamsToldToStop, Streaming, OthersSame
  <2> QED
      BY <2>2, <2>3 DEF Owned
<1>2. CASE ConnectFails(c) \/ AcquireRefused(c)
    BY <1>2, EndsOwned DEF ConnectFails, AcquireRefused, nodeVars, sessionVars, gcVars, stopVars
<1>3. CASE Acquire(c)
  <2> DEFINE n == conn[c].node
             e == conn'[c].epoch
  <2>1. /\ n \in Nodes /\ conn[c].pc = "locked" /\ WriterFree /\ present[n] /\ ~closing
        /\ OthersSame(c)
        /\ conn'[c].pc = "acquired" /\ conn'[c].node = n
        /\ e \in Epochs /\ e # None
        /\ epoch' = [epoch EXCEPT ![n] = e]
        /\ epoch[n] # None => epoch[n] = e
        /\ UNCHANGED <<present, lock, task, closing>>
      BY <1>3, AcquireEffect
  <2>2. LockOwned'
      BY <2>1 DEF LockOwned, OthersSame
  <2>3. ASSUME NEW d \in Conns, d # c, conn[d].pc = "acquired"
        PROVE  conn[d].node # n
      BY <2>1, <2>3 DEF LockOwned
  <2>4. EpochsCurrent'
    <3>1. \A m \in Nodes : epoch'[m] # None => present'[m]
        BY <2>1 DEF EpochsCurrent, Shape, TypeOK
    <3>2. ASSUME NEW d \in Conns, conn'[d].pc \in {"acquired", "arming"}
          PROVE  epoch'[conn'[d].node] = conn'[d].epoch
      <4>1. CASE d = c
          BY <2>1, <4>1 DEF Shape, TypeOK
      <4>2. CASE d # c
          BY <2>1, <2>3, <3>2, <4>2 DEF WriterFree, OthersSame, EpochsCurrent, Shape, TypeOK
      <4> QED
          BY <4>1, <4>2
    <3> QED
        BY <3>1, <3>2 DEF EpochsCurrent
  <2>5. ASSUME NEW d \in Conns, Streaming(d)', closing' \/ conn'[d].epoch # epoch'[conn'[d].node]
        PROVE  conn'[d].cancelled
    <3>1. d # c
        BY <2>1, <2>5 DEF Shape, TypeOK
    <3>2. conn'[d] = conn[d] /\ Streaming(d) /\ conn[d].epoch \in Epochs
        BY <2>1, <2>5, <3>1 DEF OthersSame, Streaming, Shape, ConnShape, Counted, Leaving
    <3>3. conn[d].epoch # epoch[conn[d].node]
        BY <2>1, <2>5, <3>2, NoneAssumption DEF Shape, TypeOK
    <3> QED
        BY <3>2, <3>3 DEF StreamsToldToStop
  <2> QED
      BY <2>2, <2>4, <2>5 DEF Owned, StreamsToldToStop
<1>4. CASE FinishConnect(c)
  <2>1. /\ conn[c].pc = "acquired" /\ conn' = [conn EXCEPT ![c].pc = "open"]
        /\ lock' = [lock EXCEPT ![conn[c].node] = None]
        /\ UNCHANGED <<present, epoch, closing>>
      BY <1>4 DEF FinishConnect, nodeVars, sessionVars, stopVars
  <2>2. /\ OthersSame(c) /\ conn'[c].pc = "open" /\ conn'[c].node = conn[c].node
        /\ conn'[c].epoch = conn[c].epoch /\ conn'[c].cancelled = conn[c].cancelled
        /\ conn[c].node \in Nodes
      BY <2>1, ConnMovesEffect DEF Shape, ConnShape
  <2>3. \A g \in Gens : task'[g] = task[g] \/ task'[g].pc = "none"
    <3>1. timers[conn[c].node] \in Gens \cup {None} /\ IdleTask.pc = "none"
        BY <2>2 DEF Shape, TypeOK, IdleTask
    <3> QED
        BY <1>4, <3>1, TaskAbortedShape DEF FinishConnect, CancelTimer
  <2>4. LockOwned'
    <3>1. ASSUME NEW d \in Conns, conn'[d].pc \in {"locked", "acquired"}
          PROVE  lock'[conn'[d].node] = d
        BY <2>1, <2>2, <3>1 DEF LockOwned, OthersSame, Shape, TypeOK, ConnShape
    <3>2. ASSUME NEW g \in Gens, task'[g].pc \in {"claimed", "destroyed"}
          PROVE  lock'[task'[g].node] = g
        BY <2>1, <2>2, <2>3, <3>2, NoneAssumption DEF LockOwned, Shape, TypeOK, TaskShape
    <3> QED
        BY <3>1, <3>2 DEF LockOwned
  <2>5. EpochsCurrent'
      BY <2>1, <2>2 DEF EpochsCurrent, OthersSame
  <2>6. StreamsToldToStop'
      BY <2>1, <2>2 DEF StreamsToldToStop, Streaming, OthersSame
  <2> QED
      BY <2>4, <2>5, <2>6 DEF Owned
<1> QED
    BY <1>1, <1>2, <1>3, <1>4

\* A task that is aborted, or begins to sleep, owns no lock.
TasksCalm == \A g \in Gens : task'[g] = task[g] \/ task'[g].pc \in {"none", "sleeping", "waiting"}

\* Aborting the timer of a node leaves tasks that own a lock alone, or ends them.
LEMMA AbortedCalm ==
    ASSUME Shape, NEW n \in Nodes, task' = TaskAborted(timers[n])
    PROVE  TasksCalm
<1>1. timers[n] \in Gens \cup {None} /\ IdleTask.pc = "none"
    BY DEF Shape, TypeOK, IdleTask
<1> QED
    BY <1>1, TaskAbortedShape DEF TasksCalm

\* A request that disconnects keeps neither lock nor stream; only one that
\* arms a timer still needs its epoch, and has just compared it.
LEMMA DisconnectingOwned ==
    ASSUME Inv, NEW c \in Conns,
           DropGuard(c) \/ Release(c) \/ DispatchDisconnect(c) \/ InstallTimer(c)
    PROVE  Owned'
<1> USE DEF Inv
<1>1. UNCHANGED <<present, epoch, closing, lock>> /\ conn[c].node \in Nodes
    BY DEF DropGuard, Release, DispatchDisconnect, InstallTimer, nodeVars, sessionVars, stopVars,
       Shape, ConnShape
<1>2. TasksCalm
  <2>1. CASE DropGuard(c) \/ Release(c)
      BY <2>1 DEF DropGuard, Release, gcVars, TasksCalm
  <2>2. CASE DispatchDisconnect(c)
      BY <1>1, <2>2, AbortedCalm DEF DispatchDisconnect, CancelTimer, TasksCalm
  <2>3. CASE InstallTimer(c)
    <3>1. timers[conn[c].node] \in Gens \cup {None} /\ IdleTask.pc = "none"
        BY <1>1 DEF Shape, TypeOK, IdleTask
    <3> QED
        BY <2>3, <3>1, TaskAbortedShape DEF InstallTimer, TasksCalm
  <2> QED
      BY <2>1, <2>2, <2>3
<1>3. /\ OthersSame(c) /\ conn'[c].pc \notin {"locked", "acquired", "open"}
      /\ conn'[c].pc = "arming" => epoch[conn'[c].node] = conn'[c].epoch
  <2>1. CASE conn' = ConnDone(c)
      BY <2>1, ConnDoneEffect
  <2>2. CASE conn' = [conn EXCEPT ![c].pc = "releasing"] \/ conn' = [conn EXCEPT ![c].pc = "offline"]
      BY <2>2, ConnMovesEffect
  <2>3. CASE conn' = [conn EXCEPT ![c].pc = "arming"] /\ EpochMatches(c)
    <3>1. /\ OthersSame(c) /\ conn'[c].pc = "arming" /\ conn'[c].node = conn[c].node
          /\ conn'[c].epoch = conn[c].epoch
        BY <2>3, ConnMovesEffect
    <3> QED
        BY <2>3, <3>1 DEF EpochMatches
  <2> QED
      BY <2>1, <2>2, <2>3 DEF DropGuard, Release, DispatchDisconnect, InstallTimer
<1>4. LockOwned'
    BY <1>1, <1>2, <1>3 DEF LockOwned, OthersSame, TasksCalm
<1>5. EpochsCurrent'
    BY <1>1, <1>3 DEF EpochsCurrent, OthersSame
<1>6. StreamsToldToStop'
    BY <1>1, <1>3 DEF StreamsToldToStop, Streaming, OthersSame
<1> QED
    BY <1>4, <1>5, <1>6 DEF Owned

\* A removal: the node's epoch is gone, its streams are told to stop.  Nobody
\* is connecting to it, because the remover has its lock.
LEMMA RemovalOwned ==
    ASSUME Inv, NEW n \in Nodes, RemoveNode(n),
           \A c \in Conns : conn[c].pc \in {"locked", "acquired"} => conn[c].node # n
    PROVE  EpochsCurrent' /\ StreamsToldToStop'
<1> USE DEF Inv
<1>1. /\ \A c \in Conns :
            /\ conn'[c].pc = conn[c].pc /\ conn'[c].node = conn[c].node
            /\ conn'[c].epoch = conn[c].epoch
            /\ conn[c].cancelled => conn'[c].cancelled
            /\ Streaming(c) /\ conn[c].node = n => conn'[c].cancelled
      /\ epoch' = [epoch EXCEPT ![n] = None]
      /\ present' = [present EXCEPT ![n] = FALSE]
      /\ closing' = closing
      /\ WriterFree
    BY Retired DEF stopVars
<1>2. EpochsCurrent'
    BY <1>1 DEF EpochsCurrent, WriterFree, Shape, TypeOK, ConnShape
<1>3. ASSUME NEW c \in Conns, Streaming(c)', closing' \/ conn'[c].epoch # epoch'[conn'[c].node]
      PROVE  conn'[c].cancelled
  <2>1. Streaming(c) /\ conn[c].node \in Nodes
      BY <1>1, <1>3 DEF Streaming, Shape, ConnShape
  <2>2. conn[c].node = n \/ closing \/ conn[c].epoch # epoch[conn[c].node]
      BY <1>1, <1>3, <2>1 DEF Shape, TypeOK
  <2> QED
      BY <1>1, <2>1, <2>2 DEF StreamsToldToStop
<1> QED
    BY <1>2, <1>3 DEF StreamsToldToStop

\* The collector's task has the lock from its claim to its end.
LEMMA GcOwned ==
    ASSUME Inv, NEW g \in Gens, GcStep(g) \/ GcDestroyFails(g)
    PROVE  Owned'
<1> USE DEF Inv
<1> DEFINE n == task[g].node
<1>1. n \in Nodes /\ task[g].pc # "none" /\ IdleTask.pc = "none"
    BY DEF GcStep, GcDestroyFails, Fire, Claim, GcDestroyRow, GcRemove, Shape, TaskShape, IdleTask
<1>2. CASE Fire(g) \/ GcDestroyRow(g)
  <2>1. /\ UNCHANGED <<present, epoch, closing, lock, conn>>
        /\ \A h \in Gens : \/ task'[h] = task[h] \/ task'[h].pc \in {"none", "waiting"}
                           \/ task[h].pc = "claimed" /\ task'[h].node = task[h].node
      BY <1>1, <1>2 DEF Fire, GcDestroyRow, nodeVars, sessionVars, stopVars, Shape, TypeOK, TaskType
  <2> QED
      BY <2>1 DEF Owned, LockOwned, EpochsCurrent, StreamsToldToStop, Streaming
<1>3. CASE Claim(g)
  <2>1. UNCHANGED <<present, epoch, closing, conn>> /\ lock[n] = None
      BY <1>3 DEF Claim, RegistrationFree, nodeVars, sessionVars, stopVars
  <2>2. \/ /\ lock' = [lock EXCEPT ![n] = g]
           /\ task' = [task EXCEPT ![g].pc = "claimed"]
        \/ /\ lock' = lock
           /\ task' = [task EXCEPT ![g] = IdleTask]
      BY <1>3 DEF Claim
  <2>3. LockOwned'
      BY <1>1, <2>1, <2>2, NoneAssumption DEF LockOwned, Shape, TypeOK, TaskType, ConnShape, TaskShape
  <2> QED
      BY <2>1, <2>3 DEF Owned, EpochsCurrent, StreamsToldToStop, Streaming
<1>4. CASE GcDestroyFails(g)
  <2>1. /\ UNCHANGED <<present, epoch, closing, conn>> /\ task[g].pc = "claimed"
        /\ lock' = [lock EXCEPT ![n] = None] /\ task' = [task EXCEPT ![g] = IdleTask]
      BY <1>4 DEF GcDestroyFails, nodeVars, sessionVars, stopVars
  <2>2. lock[n] = g
      BY <2>1 DEF LockOwned
  <2>3. LockOwned'
      BY <1>1, <2>1, <2>2, NoneAssumption DEF LockOwned, Shape, TypeOK, ConnShape, TaskShape
  <2> QED
      BY <2>1, <2>3 DEF Owned, EpochsCurrent, StreamsToldToStop, Streaming
<1>5. CASE GcRemove(g)
  <2>1. /\ RemoveNode(n) /\ task[g].pc = "destroyed" /\ lock' = [lock EXCEPT ![n] = None]
        /\ task' = [TaskAborted(timers[n]) EXCEPT ![g] = IdleTask]
      BY <1>5 DEF GcRemove
  <2>2. lock[n] = g
      BY <2>1 DEF LockOwned
  <2>3. \A c \in Conns : conn[c].pc \in {"locked", "acquired"} => conn[c].node # n
      BY <2>2, NoneAssumption DEF LockOwned
  <2>4. EpochsCurrent' /\ StreamsToldToStop'
      BY <1>1, <2>1, <2>3, RemovalOwned
  <2>5. \A h \in Gens : task'[h].pc = "none" \/ (h # g /\ task'[h] = task[h])
    <3>1. timers[n] \in Gens \cup {None}
        BY <1>1 DEF Shape, TypeOK
    <3> QED
        BY <1>1, <2>1, <3>1, TaskAbortedShape
  <2>6. \A c \in Conns : conn'[c].pc = conn[c].pc /\ conn'[c].node = conn[c].node
      BY <1>1, <2>1, Retired
  <2>7. LockOwned'
      BY <1>1, <2>1, <2>2, <2>3, <2>5, <2>6, NoneAssumption
         DEF LockOwned, Shape, TypeOK, ConnShape, TaskShape
  <2> QED
      BY <2>4, <2>7 DEF Owned
<1> QED
    BY <1>2, <1>3, <1>4, <1>5 DEF GcStep

\* Registrations and deletions find the lock free; the others leave locks,
\* epochs and streams alone.
LEMMA NodeOwned ==
    ASSUME Inv, NEW n \in Nodes,
           \/ ScheduleExisting(n) \/ DeleteNode(n) \/ Register(n) \/ Rekey(n)
           \/ KeyLapses(n) \/ WakeExpired(n)
           \/ \E x \in {"valid", "lapsed"} : SetExpiry(n, x)
    PROVE  Owned'
<1> USE DEF Inv
<1>1. CASE ScheduleExisting(n)
  <2>1. PICK e \in EpochFor(n), g \in Gens :
            /\ epoch' = [epoch EXCEPT ![n] = e] /\ task[g].pc = "none"
            /\ task' = [task EXCEPT ![g] = [pc |-> "sleeping", node |-> n, epoch |-> e]]
      BY <1>1 DEF ScheduleExisting
  <2>2. present[n] /\ epoch[n] = None /\ UNCHANGED <<present, lock, conn, closing>>
      BY <1>1 DEF ScheduleExisting, nodeVars, stopVars
  <2>3. LockOwned'
      BY <2>1, <2>2 DEF LockOwned, Shape, TypeOK
  <2>4. EpochsCurrent'
      BY <2>1, <2>2, NoneAssumption DEF EpochsCurrent, Shape, TypeOK, ConnShape, Counted, Leaving
  <2>5. ASSUME NEW c \in Conns, Streaming(c), conn[c].epoch # epoch'[conn[c].node]
        PROVE  closing \/ conn[c].epoch # epoch[conn[c].node]
      BY <2>1, <2>2, <2>5, NoneAssumption DEF Streaming, Shape, TypeOK, ConnShape, Counted, Leaving
  <2>6. StreamsToldToStop'
      BY <2>2, <2>5 DEF StreamsToldToStop, Streaming
  <2> QED
      BY <2>3, <2>4, <2>6 DEF Owned
<1>2. CASE DeleteNode(n)
  <2>1. /\ RemoveNode(n) /\ lock[n] = None /\ lock' = lock /\ task' = TaskAborted(timers[n])
      BY <1>2 DEF DeleteNode, RegistrationFree
  <2>2. \A c \in Conns : conn[c].pc \in {"locked", "acquired"} => conn[c].node # n
      BY <2>1, NoneAssumption DEF LockOwned
  <2>3. EpochsCurrent' /\ StreamsToldToStop'
      BY <2>1, <2>2, RemovalOwned
  <2>4. LockOwned'
      BY <2>1, AbortedCalm, Retired DEF LockOwned, TasksCalm
  <2> QED
      BY <2>3, <2>4 DEF Owned
<1>3. CASE Register(n)
  <2>1. present' = [present EXCEPT ![n] = TRUE] /\ UNCHANGED <<epoch, lock, conn, task, closing>>
      BY <1>3 DEF Register, sessionVars, stopVars
  <2> QED
      BY <2>1 DEF Owned, LockOwned, EpochsCurrent, StreamsToldToStop, Streaming, Shape, TypeOK
<1>4. CASE Rekey(n)
  <2>1. UNCHANGED <<present, epoch, lock, conn, closing>> /\ TasksCalm
      BY <1>4, AbortedCalm DEF Rekey, CancelTimer, sessionVars, stopVars
  <2> QED
      BY <2>1 DEF Owned, LockOwned, EpochsCurrent, StreamsToldToStop, Streaming, TasksCalm
<1>5. CASE KeyLapses(n) \/ WakeExpired(n) \/ \E x \in {"valid", "lapsed"} : SetExpiry(n, x)
  <2>1. UNCHANGED <<present, epoch, lock, conn, closing, task>>
      BY <1>5 DEF KeyLapses, WakeExpired, SetExpiry, sessionVars, gcVars, stopVars
  <2> QED
      BY <2>1 DEF Owned, LockOwned, EpochsCurrent, StreamsToldToStop, Streaming
<1> QED
    BY <1>1, <1>2, <1>3, <1>4, <1>5

\* The shutdown tells every stream to stop in the step that marks the server
\* closing.
LEMMA StopOwned ==
    ASSUME Inv, Serve \/ Stop
    PROVE  Owned'
<1> USE DEF Inv
<1>1. CASE Serve \/ CloseGc \/ Drained
  <2>1. UNCHANGED <<present, epoch, lock, conn, closing, task>>
      BY <1>1 DEF Serve, CloseGc, Drained, nodeVars, sessionVars, gcVars
  <2> QED
      BY <2>1 DEF Owned, LockOwned, EpochsCurrent, StreamsToldToStop, Streaming
<1>2. CASE AbortTimers
  <2>1. UNCHANGED <<present, epoch, lock, conn, closing>>
      BY <1>2 DEF AbortTimers, nodeVars, sessionVars
  <2>2. TasksCalm
      BY <1>2 DEF AbortTimers, TasksCalm, IdleTask
  <2> QED
      BY <2>1, <2>2 DEF Owned, LockOwned, EpochsCurrent, StreamsToldToStop, Streaming, TasksCalm
<1>3. CASE MarkClosing
  <2>1. /\ UNCHANGED <<present, epoch, lock, task>>
        /\ \A c \in Conns : /\ conn'[c].pc = conn[c].pc /\ conn'[c].node = conn[c].node
                            /\ conn'[c].epoch = conn[c].epoch
                            /\ Streaming(c) => conn'[c].cancelled
      BY <1>3, Cancelled DEF MarkClosing, nodeVars, sessionVars, gcVars
  <2> QED
      BY <2>1 DEF Owned, LockOwned, EpochsCurrent, StreamsToldToStop, Streaming
<1> QED
    BY <1>1, <1>2, <1>3 DEF Stop

\* Every step keeps the ownership of locks, epochs and streams.
LEMMA OwnedKept == ASSUME Inv, [Next]_vars PROVE Owned'
<1>1. CASE UNCHANGED vars
    BY <1>1 DEF vars, nodeVars, sessionVars, gcVars, stopVars, Inv, Owned, LockOwned,
       EpochsCurrent, StreamsToldToStop, Streaming
<1> QED
    BY <1>1, ConnectingOwned, DisconnectingOwned, GcOwned, NodeOwned, StopOwned DEF Next, ConnStep

-----------------------------------------------------------------------------
\* The counters and the online state.

\* Counters that count the same sets are right if they are left alone.
LEMMA CountsSame ==
    ASSUME CountsMatch, UNCHANGED <<active, sessions>>,
           \A n \in Nodes : /\ Held(n, Guarded)' = Held(n, Guarded)
                            /\ Held(n, Counted)' = Held(n, Counted)
    PROVE  CountsMatch'
BY DEF CountsMatch, Guarded, Counted

\* The size of a set with one request more ...
LEMMA CountOneMore ==
    ASSUME NEW n, NEW P, NEW c, c \notin Held(n, P), Held(n, P)' = Held(n, P) \cup {c}
    PROVE  Cardinality(Held(n, P))' = Cardinality(Held(n, P)) + 1
BY HeldFinite, FS_AddElement

\* ... and one request less.
LEMMA CountOneLess ==
    ASSUME NEW n, NEW P, NEW c, c \in Held(n, P), Held(n, P)' = Held(n, P) \ {c}
    PROVE  Cardinality(Held(n, P))' = Cardinality(Held(n, P)) - 1
BY HeldFinite, FS_RemoveElement

\* A request that is counted neither before nor after its step leaves the
\* counted sets alone.
LEMMA Uncounted ==
    ASSUME NEW c \in Conns, OthersSame(c), NEW n, epoch'[n] = epoch[n], NEW P,
           c \notin Held(n, P), c \notin Held(n, P)'
    PROVE  Held(n, P)' = Held(n, P)
BY HeldMoved

\* Requests that connect.
LEMMA ConnectingCounts ==
    ASSUME Inv, NEW c \in Conns,
           \/ \E n \in Nodes : StartConnect(c, n)
           \/ ConnectFails(c) \/ Acquire(c) \/ AcquireRefused(c) \/ FinishConnect(c)
    PROVE  CountsMatch'
<1> USE DEF Inv, PresenceMatches
<1>1. ASSUME OthersSame(c), conn[c].pc \in {"none", "locked"}, conn'[c].pc \in {"none", "locked"},
             UNCHANGED <<epoch, active, sessions>>
      PROVE  CountsMatch'
  <2>1. ASSUME NEW n \in Nodes
        PROVE  /\ Held(n, Guarded)' = Held(n, Guarded)
               /\ Held(n, Counted)' = Held(n, Counted)
    <3>1. /\ c \notin Held(n, Guarded) /\ c \notin Held(n, Counted)
          /\ c \notin Held(n, Guarded)' /\ c \notin Held(n, Counted)'
        BY <1>1 DEF Held, Guarded, Counted
    <3> QED
        BY <1>1, <3>1, Uncounted
  <2> QED
      BY <1>1, <2>1, CountsSame
<1>2. ASSUME NEW n \in Nodes, StartConnect(c, n)
      PROVE  CountsMatch'
    BY <1>1, <1>2, StartConnectEffect DEF sessionVars
<1>3. CASE ConnectFails(c) \/ AcquireRefused(c)
    BY <1>1, <1>3, ConnDoneEffect DEF ConnectFails, AcquireRefused, sessionVars
<1>4. CASE FinishConnect(c)
  <2>1. /\ conn[c].pc = "acquired" /\ UNCHANGED <<epoch, active, sessions>>
        /\ OthersSame(c) /\ conn'[c].pc = "open" /\ conn'[c].node = conn[c].node
        /\ conn'[c].epoch = conn[c].epoch
      BY <1>4, ConnMovesEffect DEF FinishConnect, sessionVars
  <2>2. \A n \in Nodes : /\ Held(n, Guarded)' = Held(n, Guarded)
                         /\ Held(n, Counted)' = Held(n, Counted)
      BY <2>1 DEF Held, OthersSame, Guarded, Counted
  <2> QED
      BY <2>1, <2>2, CountsSame
<1>5. CASE Acquire(c)
  <2> DEFINE e == conn'[c].epoch
  <2>0. PICK n \in Nodes : n = conn[c].node
      BY <1>5, AcquireEffect
  <2>1. /\ conn[c].pc = "locked" /\ OthersSame(c)
        /\ conn'[c].pc = "acquired" /\ conn'[c].node = n /\ conn[c].node = n
        /\ e # None
        /\ epoch' = [epoch EXCEPT ![n] = e]
        /\ epoch[n] # None => epoch[n] = e
        /\ epoch[n] = None => \A d \in Conns : conn[d].epoch # e
        /\ active' = [active EXCEPT ![n] = @ + 1]
        /\ sessions' = [sessions EXCEPT ![n] = @ + 1]
      BY <1>5, <2>0, AcquireEffect
  <2>2. ASSUME NEW m \in Nodes, m # n
        PROVE  /\ Held(m, Guarded)' = Held(m, Guarded)
               /\ Held(m, Counted)' = Held(m, Counted)
               /\ active'[m] = active[m] /\ sessions'[m] = sessions[m]
    <3>1. epoch'[m] = epoch[m] /\ active'[m] = active[m] /\ sessions'[m] = sessions[m]
        BY <2>1, <2>2 DEF Shape, TypeOK
    <3>2. /\ c \notin Held(m, Guarded) /\ c \notin Held(m, Counted)
          /\ c \notin Held(m, Guarded)' /\ c \notin Held(m, Counted)'
        BY <2>1, <2>2 DEF Held
    <3> QED
        BY <2>1, <3>1, <3>2, Uncounted
  <2>3. ASSUME NEW P, "acquired" \in P, "locked" \notin P
        PROVE  /\ c \notin Held(n, P) /\ Held(n, P)' = Held(n, P) \cup {c}
    <3>1. epoch'[n] = e
        BY <2>1 DEF Shape, TypeOK
    <3>2. c \notin Held(n, P) /\ c \in Held(n, P)'
        BY <2>1, <2>3, <3>1 DEF Held
    <3>3. ASSUME NEW d \in Conns, d # c
          PROVE  d \in Held(n, P)' <=> d \in Held(n, P)
        BY <2>1, <3>1, <3>3 DEF Held, OthersSame
    <3> QED
        BY <3>2, <3>3 DEF Held
  <2>4. /\ Cardinality(Held(n, Guarded))' = Cardinality(Held(n, Guarded)) + 1
        /\ Cardinality(Held(n, Counted))' = Cardinality(Held(n, Counted)) + 1
    <3>1. /\ c \notin Held(n, Guarded) /\ Held(n, Guarded)' = Held(n, Guarded) \cup {c}
          /\ c \notin Held(n, Counted) /\ Held(n, Counted)' = Held(n, Counted) \cup {c}
        BY <2>3 DEF Guarded, Counted
    <3> QED
        BY <3>1, CountOneMore
  <2>5. active'[n] = active[n] + 1 /\ sessions'[n] = sessions[n] + 1
      BY <2>1 DEF Shape, TypeOK
  <2> QED
      BY <2>1, <2>2, <2>4, <2>5 DEF CountsMatch, Guarded, Counted
<1> QED
    BY <1>2, <1>3, <1>4, <1>5

\* Requests that disconnect.
LEMMA DisconnectingCounts ==
    ASSUME Inv, NEW c \in Conns,
           DropGuard(c) \/ Release(c) \/ DispatchDisconnect(c) \/ InstallTimer(c)
    PROVE  CountsMatch'
<1> USE DEF Inv, PresenceMatches
<1>0. PICK n \in Nodes : n = conn[c].node
    BY DEF DropGuard, Release, DispatchDisconnect, InstallTimer, Shape, ConnShape
<1>1. n = conn[c].node /\ UNCHANGED epoch
    BY <1>0 DEF DropGuard, Release, DispatchDisconnect, InstallTimer, sessionVars
<1>2. EpochMatches(c) => present[n]
    BY <1>1 DEF EpochMatches, EpochsCurrent
<1>3. OthersSame(c)
    BY ConnDoneEffect, ConnMovesEffect DEF DropGuard, Release, DispatchDisconnect, InstallTimer
<1>4. ASSUME NEW P, NEW m \in Nodes, m # n \/ ~EpochMatches(c)
      PROVE  c \notin Held(m, P)
    BY <1>1, <1>4 DEF Held, EpochMatches
<1>5. ASSUME conn'[c].pc = "none" \/ conn'[c].node = n
      PROVE  \A m \in Nodes \ {n} : /\ Held(m, Guarded)' = Held(m, Guarded)
                                    /\ Held(m, Counted)' = Held(m, Counted)
  <2>1. ASSUME NEW P \in {Guarded, Counted}, NEW m \in Nodes \ {n}
        PROVE  Held(m, P)' = Held(m, P)
    <3>1. c \notin Held(m, P)
        BY <1>4
    <3>2. c \notin Held(m, P)'
        BY <1>5, <2>1 DEF Held, Guarded, Counted
    <3> QED
        BY <1>1, <1>3, <3>1, <3>2, Uncounted
  <2> QED
      BY <2>1
<1>6. CASE ~EpochMatches(c) /\ conn' = ConnDone(c) /\ UNCHANGED <<active, sessions>>
  <2>1. conn'[c].pc = "none"
      BY <1>6, ConnDoneEffect
  <2>2. ASSUME NEW P \in {Guarded, Counted}, NEW m \in Nodes
        PROVE  Held(m, P)' = Held(m, P)
    <3>1. c \notin Held(m, P)
        BY <1>4, <1>6
    <3>2. c \notin Held(m, P)'
        BY <2>1, <2>2 DEF Held, Guarded, Counted
    <3> QED
        BY <1>1, <1>3, <3>1, <3>2, Uncounted
  <2> QED
      BY <1>6, <2>2, CountsSame
<1>7. CASE DropGuard(c) /\ EpochMatches(c)
  <2>1. /\ conn[c].pc = "open" /\ conn'[c].pc = "releasing" /\ conn'[c].node = n
        /\ conn'[c].epoch = conn[c].epoch
        /\ active' = [active EXCEPT ![n] = @ - 1] /\ sessions' = sessions
      BY <1>1, <1>7, ConnMovesEffect DEF DropGuard
  <2>2. c \in Held(n, Guarded) /\ c \in Held(n, Counted)
      BY <1>1, <1>7, <2>1 DEF Held, EpochMatches, Guarded, Counted
  <2>3. c \notin Held(n, Guarded)' /\ c \in Held(n, Counted)'
      BY <1>1, <1>7, <2>1 DEF Held, EpochMatches, Guarded, Counted
  <2>4. Held(n, Guarded)' = Held(n, Guarded) \ {c} /\ Held(n, Counted)' = Held(n, Counted)
    <3>1. /\ Held(n, Guarded)' \ {c} = Held(n, Guarded) \ {c}
          /\ Held(n, Counted)' \ {c} = Held(n, Counted) \ {c}
        BY <1>1, <1>3, HeldMoved
    <3> QED
        BY <2>2, <2>3, <3>1
  <2>5. Cardinality(Held(n, Guarded))' = Cardinality(Held(n, Guarded)) - 1
      BY <2>2, <2>4, CountOneLess
  <2>6. active'[n] = active[n] - 1 /\ \A m \in Nodes \ {n} : active'[m] = active[m]
      BY <1>1, <2>1 DEF Shape, TypeOK
  <2> QED
      BY <1>1, <1>5, <2>1, <2>4, <2>5, <2>6 DEF CountsMatch, Guarded, Counted
<1>8. CASE Release(c) /\ EpochMatches(c)
  <2>1. /\ conn[c].pc = "releasing"
        /\ sessions' = [sessions EXCEPT ![n] = @ - 1] /\ active' = active
        /\ conn' = ConnDone(c) \/ conn' = [conn EXCEPT ![c].pc = "offline"]
      BY <1>1, <1>2, <1>8 DEF Release
  <2>2. conn'[c].pc = "none" \/ (conn'[c].pc = "offline" /\ conn'[c].node = n)
      BY <1>1, <2>1, ConnDoneEffect, ConnMovesEffect
  <2>3. c \notin Held(n, Guarded) /\ c \in Held(n, Counted)
      BY <1>1, <1>8, <2>1 DEF Held, EpochMatches, Guarded, Counted
  <2>4. c \notin Held(n, Guarded)' /\ c \notin Held(n, Counted)'
      BY <2>2 DEF Held, Guarded, Counted
  <2>5. Held(n, Guarded)' = Held(n, Guarded) /\ Held(n, Counted)' = Held(n, Counted) \ {c}
    <3>1. /\ Held(n, Guarded)' \ {c} = Held(n, Guarded) \ {c}
          /\ Held(n, Counted)' \ {c} = Held(n, Counted) \ {c}
        BY <1>1, <1>3, HeldMoved
    <3> QED
        BY <2>3, <2>4, <3>1
  <2>6. Cardinality(Held(n, Counted))' = Cardinality(Held(n, Counted)) - 1
      BY <2>3, <2>5, CountOneLess
  <2>7. sessions'[n] = sessions[n] - 1 /\ \A m \in Nodes \ {n} : sessions'[m] = sessions[m]
      BY <1>1, <2>1 DEF Shape, TypeOK
  <2> QED
      BY <1>1, <1>5, <2>1, <2>2, <2>5, <2>6, <2>7 DEF CountsMatch, Guarded, Counted
<1>9. CASE DispatchDisconnect(c) \/ InstallTimer(c)
  <2>1. /\ conn[c].pc \in Leaving /\ UNCHANGED <<active, sessions>>
        /\ conn' = ConnDone(c) \/ conn' = [conn EXCEPT ![c].pc = "arming"]
      BY <1>9 DEF DispatchDisconnect, InstallTimer, sessionVars, Leaving
  <2>2. conn'[c].pc = "none" \/ conn'[c].pc = "arming"
      BY <2>1, ConnDoneEffect, ConnMovesEffect
  <2>3. ASSUME NEW P \in {Guarded, Counted}, NEW m \in Nodes
        PROVE  Held(m, P)' = Held(m, P)
    <3>1. c \notin Held(m, P) /\ c \notin Held(m, P)'
        BY <2>1, <2>2, <2>3 DEF Held, Guarded, Counted, Leaving
    <3> QED
        BY <1>1, <1>3, <3>1, Uncounted
  <2> QED
      BY <2>1, <2>3, CountsSame
<1>10. DropGuard(c) /\ ~EpochMatches(c) => conn' = ConnDone(c) /\ UNCHANGED <<active, sessions>>
    BY DEF DropGuard
<1>11. Release(c) /\ ~EpochMatches(c) => conn' = ConnDone(c) /\ UNCHANGED <<active, sessions>>
    BY DEF Release
<1> QED
    BY <1>6, <1>7, <1>8, <1>9, <1>10, <1>11

\* A removal empties what is counted, and the counters with it.
LEMMA RemovalCounts ==
    ASSUME Inv, NEW n \in Nodes, RemoveNode(n)
    PROVE  CountsMatch'
<1> USE DEF Inv, PresenceMatches
<1>1. /\ \A c \in Conns : /\ conn'[c].pc = conn[c].pc /\ conn'[c].node = conn[c].node
                          /\ conn'[c].epoch = conn[c].epoch
      /\ epoch' = [epoch EXCEPT ![n] = None]
      /\ active' = [active EXCEPT ![n] = 0]
      /\ sessions' = [sessions EXCEPT ![n] = 0]
    BY Retired
<1>2. epoch'[n] = None /\ active'[n] = 0 /\ sessions'[n] = 0
    BY <1>1 DEF Shape, TypeOK
<1>3. \A P : Held(n, P)' = {}
    BY <1>2 DEF Held
<1>4. ASSUME NEW m \in Nodes \ {n}
      PROVE  /\ active'[m] = active[m] /\ sessions'[m] = sessions[m]
             /\ Held(m, Guarded)' = Held(m, Guarded)
             /\ Held(m, Counted)' = Held(m, Counted)
  <2>1. epoch'[m] = epoch[m] /\ active'[m] = active[m] /\ sessions'[m] = sessions[m]
      BY <1>1 DEF Shape, TypeOK
  <2> QED
      BY <1>1, <2>1, HeldSame
<1>5. Cardinality({}) = 0
    BY FS_EmptySet
<1> QED
    BY <1>2, <1>3, <1>4, <1>5 DEF CountsMatch, Guarded, Counted

\* A node gets its epoch from schedule_existing: nobody else has it.
LEMMA ScheduleCounts ==
    ASSUME Inv, NEW n \in Nodes, ScheduleExisting(n)
    PROVE  CountsMatch'
<1> USE DEF Inv, PresenceMatches
<1>1. PICK e \in EpochFor(n) : epoch' = [epoch EXCEPT ![n] = e]
    BY DEF ScheduleExisting
<1>2. epoch[n] = None /\ UNCHANGED <<active, sessions, conn>>
    BY DEF ScheduleExisting
<1>3. \A c \in Conns : conn[c].epoch # e
    BY <1>1, <1>2 DEF EpochFor, EpochsInUse
<1>4. ASSUME NEW m \in Nodes, NEW P
      PROVE  Held(m, P)' = Held(m, P)
  <2>1. CASE m = n
      BY <1>1, <1>2, <1>3, <2>1 DEF Held, Shape, TypeOK
  <2>2. CASE m # n
      BY <1>1, <1>2, <2>2, HeldSame DEF Shape, TypeOK
  <2> QED
      BY <2>1, <2>2
<1> QED
    BY <1>2, <1>4, CountsSame

\* Every step keeps the counters right.
LEMMA CountsKept == ASSUME Inv, [Next]_vars PROVE CountsMatch'
<1>1. ASSUME UNCHANGED <<conn, epoch, active, sessions>>
      PROVE  CountsMatch'
    BY <1>1, HeldSame, CountsSame DEF Inv, PresenceMatches
<1>2. CASE UNCHANGED vars
    BY <1>1, <1>2 DEF vars, sessionVars
<1>3. ASSUME NEW g \in Gens, Fire(g) \/ Claim(g) \/ GcDestroyRow(g) \/ GcDestroyFails(g)
      PROVE  CountsMatch'
    BY <1>1, <1>3 DEF Fire, Claim, GcDestroyRow, GcDestroyFails, sessionVars
<1>4. ASSUME NEW g \in Gens, GcRemove(g)
      PROVE  CountsMatch'
  <2>1. RemoveNode(task[g].node) /\ task[g].node \in Nodes
      BY <1>4 DEF GcRemove, Inv, Shape, TaskShape
  <2> QED
      BY <2>1, RemovalCounts
<1>5. ASSUME NEW n \in Nodes, DeleteNode(n)
      PROVE  CountsMatch'
    BY <1>5, RemovalCounts DEF DeleteNode
<1>6. ASSUME NEW n \in Nodes,
             \/ Register(n) \/ Rekey(n) \/ KeyLapses(n) \/ WakeExpired(n)
             \/ \E x \in {"valid", "lapsed"} : SetExpiry(n, x)
      PROVE  CountsMatch'
    BY <1>1, <1>6 DEF Register, Rekey, KeyLapses, WakeExpired, SetExpiry, sessionVars
<1>7. CASE Serve \/ CloseGc \/ AbortTimers \/ Drained
    BY <1>1, <1>7 DEF Serve, CloseGc, AbortTimers, Drained, sessionVars
<1>8. CASE MarkClosing
  <2>1. \A n \in Nodes : /\ Held(n, Guarded)' = Held(n, Guarded)
                         /\ Held(n, Counted)' = Held(n, Counted)
      BY <1>8, Cancelled, HeldSame DEF MarkClosing, sessionVars, Inv
  <2> QED
      BY <1>8, <2>1, CountsSame DEF MarkClosing, sessionVars, Inv, PresenceMatches
<1> QED
    BY <1>2, <1>3, <1>4, <1>5, <1>6, <1>7, <1>8, ConnectingCounts, DisconnectingCounts,
       ScheduleCounts DEF Next, ConnStep, GcStep, Stop

\* Every step keeps online_states right.
LEMMA OnlineKept == ASSUME Inv, [Next]_vars PROVE OnlineMatchesSessions'
<1> USE DEF Inv, PresenceMatches
<1>0. \A n \in Nodes : ~present[n] => sessions[n] = 0 /\ ~online[n]
  <2>1. ASSUME NEW n \in Nodes, ~present[n]
        PROVE  sessions[n] = 0
      BY <2>1, CountersTell, HeldFresh DEF EpochsCurrent
  <2> QED
      BY <2>1 DEF OnlineMatchesSessions
<1>1. ASSUME UNCHANGED <<present, expiry, sessions, online>>,
             \A n \in Nodes : stale[n] => stale'[n]
      PROVE  OnlineMatchesSessions'
    BY <1>1 DEF OnlineMatchesSessions
<1>2. ASSUME NEW c \in Conns, Acquire(c)
      PROVE  OnlineMatchesSessions'
  <2>1. PICK n \in Nodes : n = conn[c].node
      BY <1>2, AcquireEffect
  <2>2. /\ present[n] /\ UNCHANGED <<present, expiry>>
        /\ sessions' = [sessions EXCEPT ![n] = @ + 1]
        /\ online' = [online EXCEPT ![n] = expiry[n] = "valid"]
        /\ stale' = [stale EXCEPT ![n] = FALSE]
      BY <1>2, <2>1, AcquireEffect
  <2>3. sessions'[n] > 0 /\ ~stale'[n]
      BY <2>2 DEF Shape, TypeOK
  <2>5. online'[n] <=> expiry[n] = "valid"
      BY <2>2, Zenon DEF Shape, TypeOK
  <2>4. ASSUME NEW m \in Nodes \ {n}
        PROVE  sessions'[m] = sessions[m] /\ online'[m] = online[m] /\ stale'[m] = stale[m]
      BY <2>2 DEF Shape, TypeOK
  <2> QED
      BY <2>2, <2>3, <2>4, <2>5 DEF OnlineMatchesSessions
<1>3. ASSUME NEW c \in Conns, Release(c)
      PROVE  OnlineMatchesSessions'
  <2>1. PICK n \in Nodes : n = conn[c].node
      BY <1>3 DEF Release, Shape, ConnShape
  <2>2. UNCHANGED <<present, expiry, stale>>
      BY <1>3 DEF Release, nodeVars, gcVars
  <2>3. CASE EpochMatches(c) /\ present[n]
    <3>1. c \in Held(n, Counted)
        BY <1>3, <2>1, <2>3 DEF Release, EpochMatches, Held, Counted
    <3>2. sessions[n] \in Nat /\ sessions[n] # 0
        BY <3>1, CountersTell
    <3>3. /\ sessions' = [sessions EXCEPT ![n] = @ - 1]
          /\ online' = IF sessions[n] = 1 THEN [online EXCEPT ![n] = FALSE] ELSE online
        BY <1>3, <2>1, <2>3 DEF Release, LastSession
    <3>4. ASSUME NEW m \in Nodes \ {n}
          PROVE  sessions'[m] = sessions[m] /\ online'[m] = online[m]
        BY <3>3 DEF Shape, TypeOK
    <3>5. CASE sessions[n] = 1
      <4>1. sessions'[n] = 0 /\ online'[n] = FALSE
          BY <3>2, <3>3, <3>5 DEF Shape, TypeOK
      <4> QED
          BY <2>2, <2>3, <3>4, <4>1 DEF OnlineMatchesSessions
    <3>6. CASE sessions[n] # 1
      <4>1. sessions'[n] > 0 /\ online' = online
          BY <3>2, <3>3, <3>6 DEF Shape, TypeOK
      <4> QED
          BY <2>2, <2>3, <3>2, <3>4, <4>1 DEF OnlineMatchesSessions
    <3> QED
        BY <3>5, <3>6
  <2>4. CASE ~(EpochMatches(c) /\ present[n])
      BY <1>1, <1>3, <2>1, <2>2, <2>4 DEF Release
  <2> QED
      BY <2>3, <2>4
<1>4. ASSUME NEW n \in Nodes, RemoveNode(n), UNCHANGED <<expiry, stale>>
      PROVE  OnlineMatchesSessions'
  <2>1. /\ present' = [present EXCEPT ![n] = FALSE]
        /\ sessions' = [sessions EXCEPT ![n] = 0] /\ online' = [online EXCEPT ![n] = FALSE]
      BY <1>4 DEF RemoveNode
  <2> QED
      BY <1>4, <2>1 DEF OnlineMatchesSessions, Shape, TypeOK
<1>5. ASSUME NEW n \in Nodes, Register(n)
      PROVE  OnlineMatchesSessions'
  <2>1. /\ ~present[n] /\ present' = [present EXCEPT ![n] = TRUE]
        /\ expiry' = [expiry EXCEPT ![n] = "valid"]
        /\ stale' = [stale EXCEPT ![n] = FALSE] /\ UNCHANGED <<sessions, online>>
      BY <1>5 DEF Register, sessionVars
  <2> QED
      BY <1>0, <2>1 DEF OnlineMatchesSessions, Shape, TypeOK
<1>6. ASSUME NEW n \in Nodes, Rekey(n)
      PROVE  OnlineMatchesSessions'
  <2>1. /\ expiry' = [expiry EXCEPT ![n] = "valid"]
        /\ stale' = [stale EXCEPT ![n] = TRUE] /\ UNCHANGED <<present, sessions, online>>
      BY <1>6 DEF Rekey, sessionVars
  <2> QED
      BY <2>1 DEF OnlineMatchesSessions, Shape, TypeOK
<1>7. ASSUME NEW n \in Nodes, NEW x \in {"valid", "lapsed"}, SetExpiry(n, x)
      PROVE  OnlineMatchesSessions'
  <2>1. /\ present[n] /\ UNCHANGED <<present, sessions, stale>>
        /\ expiry' = [expiry EXCEPT ![n] = x]
        /\ online' = [online EXCEPT ![n] = sessions[n] > 0 /\ x = "valid"]
      BY <1>7 DEF SetExpiry, OnlineAfterExpiry, gcVars
  <2>2. expiry'[n] = x /\ (online'[n] <=> sessions[n] > 0 /\ x = "valid")
      BY <2>1 DEF Shape, TypeOK
  <2>3. \A m \in Nodes \ {n} : expiry'[m] = expiry[m] /\ online'[m] = online[m]
      BY <2>1 DEF Shape, TypeOK
  <2> QED
      BY <2>1, <2>2, <2>3 DEF OnlineMatchesSessions
<1>8. ASSUME NEW n \in Nodes, KeyLapses(n)
      PROVE  OnlineMatchesSessions'
  <2>1. expiry' = [expiry EXCEPT ![n] = "lapsed"] /\ UNCHANGED <<present, sessions, online, stale>>
      BY <1>8 DEF KeyLapses, sessionVars, gcVars
  <2> QED
      BY <2>1 DEF OnlineMatchesSessions, Shape, TypeOK
<1>9. ASSUME NEW n \in Nodes, WakeExpired(n)
      PROVE  OnlineMatchesSessions'
  <2>1. /\ expiry' = [expiry EXCEPT ![n] = "swept"] /\ online' = [online EXCEPT ![n] = FALSE]
        /\ UNCHANGED <<present, sessions, stale>>
      BY <1>9 DEF WakeExpired, sessionVars, gcVars
  <2> QED
      BY <2>1 DEF OnlineMatchesSessions, Shape, TypeOK
<1>10. ASSUME NEW c \in Conns,
              \/ \E n \in Nodes : StartConnect(c, n)
              \/ ConnectFails(c) \/ AcquireRefused(c) \/ FinishConnect(c)
              \/ DropGuard(c) \/ DispatchDisconnect(c) \/ InstallTimer(c)
       PROVE  OnlineMatchesSessions'
  <2>1. UNCHANGED <<present, expiry, sessions, online, stale>>
      BY <1>10 DEF StartConnect, ConnectFails, AcquireRefused, FinishConnect, DropGuard,
         DispatchDisconnect, InstallTimer, nodeVars, sessionVars, gcVars
  <2> QED
      BY <1>1, <2>1
<1>11. ASSUME NEW g \in Gens, GcStep(g) \/ GcDestroyFails(g)
       PROVE  OnlineMatchesSessions'
  <2>1. CASE Fire(g) \/ Claim(g) \/ GcDestroyRow(g)
      BY <1>1, <2>1 DEF Fire, Claim, GcDestroyRow, nodeVars, sessionVars
  <2>2. CASE GcRemove(g)
      BY <1>4, <2>2 DEF GcRemove, Shape, TaskShape
  <2>3. CASE GcDestroyFails(g)
    <3>1. /\ UNCHANGED <<present, expiry, sessions, online>>
          /\ stale' = [stale EXCEPT ![task[g].node] = TRUE]
        BY <2>3 DEF GcDestroyFails, nodeVars, sessionVars
    <3> QED
        BY <1>1, <3>1 DEF Shape, TypeOK
  <2> QED
      BY <1>11, <2>1, <2>2, <2>3 DEF GcStep
<1>12. ASSUME NEW n \in Nodes, ScheduleExisting(n) \/ DeleteNode(n)
       PROVE  OnlineMatchesSessions'
    BY <1>1, <1>4, <1>12 DEF ScheduleExisting, DeleteNode, nodeVars
<1>13. CASE Serve \/ Stop \/ UNCHANGED vars
  <2>1. UNCHANGED <<present, expiry, sessions, online, stale>>
      BY <1>13 DEF Serve, Stop, CloseGc, AbortTimers, MarkClosing, Drained, vars, nodeVars,
         sessionVars, gcVars
  <2> QED
      BY <1>1, <2>1
<1> QED
    BY <1>2, <1>3, <1>5, <1>6, <1>7, <1>8, <1>9, <1>10, <1>11, <1>12, <1>13
       DEF Next, ConnStep

-----------------------------------------------------------------------------
\* The timers.

\* The task of a timer, as long as the collector is open: it works for the
\* timer's node and is past no claim.
LEMMA TimerTask ==
    ASSUME Inv, NEW n \in Nodes, timers[n] # None, ~gcClosed
    PROVE  /\ timers[n] \in Gens /\ task[timers[n]].pc \in {"sleeping", "waiting"}
           /\ task[timers[n]].node = n /\ task[timers[n]].epoch = epoch[n]
           /\ epoch[n] # None
BY NoneAssumption DEF Inv, TimersOwned, Shape, TypeOK, TaskShape

\* A step that installs no timer and leaves the tasks of the remaining ones
\* alone.
LEMMA TimersKept ==
    ASSUME Inv, gcClosed => gcClosed',
           shutdown' \in {"gcClosed", "draining", "done"} => shutdown \in {"gcClosed", "draining", "done"},
           \A m \in Nodes :
               timers'[m] # None =>
                   /\ timers'[m] = timers[m]
                   /\ present[m] => present'[m]
                   /\ ~gcClosed => /\ epoch[m] # None => epoch'[m] = epoch[m]
                                   /\ task'[timers[m]] = task[timers[m]]
    PROVE  TimersOwned'
<1> SUFFICES ASSUME NEW m \in Nodes, timers'[m] # None
             PROVE  /\ present'[m]
                    /\ shutdown' \notin {"gcClosed", "draining", "done"}
                    /\ ~gcClosed' => /\ task'[timers'[m]].pc \in {"sleeping", "waiting"}
                                     /\ task'[timers'[m]].node = m
                                     /\ task'[timers'[m]].epoch = epoch'[m]
    BY DEF TimersOwned
<1>1. /\ present'[m] /\ shutdown' \notin {"gcClosed", "draining", "done"}
    BY DEF Inv, TimersOwned
<1>2. CASE ~gcClosed'
  <2>1. ~gcClosed /\ timers'[m] = timers[m] /\ timers[m] # None
      BY <1>2
  <2>2. /\ task[timers[m]].pc \in {"sleeping", "waiting"}
        /\ task[timers[m]].node = m /\ task[timers[m]].epoch = epoch[m]
        /\ epoch[m] # None
      BY <2>1, TimerTask
  <2>3. epoch'[m] = epoch[m] /\ task'[timers[m]] = task[timers[m]]
      BY <2>1, <2>2
  <2> QED
      BY <1>1, <2>1, <2>2, <2>3
<1> QED
    BY <1>1, <1>2

\* Aborting the task of one node's timer leaves the tasks of the others.
LEMMA AbortedSparesOthers ==
    ASSUME Inv, NEW n \in Nodes, NEW m \in Nodes, m # n, timers[m] # None, ~gcClosed
    PROVE  TaskAborted(timers[n])[timers[m]] = task[timers[m]]
<1>1. timers[n] \in Gens \cup {None} /\ timers[m] \in Gens
    BY TimerTask DEF Inv, Shape, TypeOK
<1>2. timers[m] # timers[n]
    BY <1>1, TimerTask, NoneAssumption
<1> QED
    BY <1>1, <1>2, TaskAbortedShape DEF Inv

\* The timer of a node is cancelled, or none is touched.
LEMMA CancelKeepsTimers ==
    ASSUME Inv, NEW n \in Nodes, CancelTimer(n),
           UNCHANGED <<present, epoch, gcClosed, shutdown>>
    PROVE  TimersOwned'
<1>1. timers' = [timers EXCEPT ![n] = None] /\ task' = TaskAborted(timers[n])
    BY DEF CancelTimer
<1>2. ASSUME NEW m \in Nodes, timers'[m] # None
      PROVE  m # n /\ timers'[m] = timers[m] /\ (~gcClosed => task'[timers[m]] = task[timers[m]])
    BY <1>1, <1>2, AbortedSparesOthers DEF Inv, Shape, TypeOK
<1> QED
    BY <1>2, TimersKept

\* Requests: only InstallTimer installs one, for a node that is still there.
LEMMA ConnTimers ==
    ASSUME Inv, NEW c \in Conns,
           \/ \E n \in Nodes : StartConnect(c, n)
           \/ ConnStep(c) \/ DropGuard(c)
    PROVE  TimersOwned'
<1> USE DEF Inv
<1>1. ASSUME UNCHANGED <<present, epoch, timers, task, gcClosed, shutdown>>
      PROVE  TimersOwned'
    BY <1>1, TimersKept
<1>2. CASE \/ \E n \in Nodes : StartConnect(c, n)
           \/ ConnectFails(c) \/ AcquireRefused(c) \/ DropGuard(c) \/ Release(c)
  <2>1. UNCHANGED <<present, epoch, timers, task, gcClosed, shutdown>>
      BY <1>2 DEF StartConnect, ConnectFails, AcquireRefused, DropGuard, Release, nodeVars,
         sessionVars, gcVars, stopVars
  <2> QED
      BY <1>1, <2>1
<1>3. CASE Acquire(c)
  <2>1. /\ conn[c].node \in Nodes
        /\ epoch' = [epoch EXCEPT ![conn[c].node] = conn'[c].epoch]
        /\ epoch[conn[c].node] # None => epoch[conn[c].node] = conn'[c].epoch
        /\ UNCHANGED <<present, timers, task, gcClosed, shutdown>>
      BY <1>3, AcquireEffect
  <2>2. \A m \in Nodes : epoch[m] # None => epoch'[m] = epoch[m]
      BY <2>1 DEF Shape, TypeOK
  <2> QED
      BY <2>1, <2>2, TimersKept
<1>4. CASE FinishConnect(c)
  <2>1. /\ conn[c].node \in Nodes /\ UNCHANGED <<present, epoch, gcClosed, shutdown>>
        /\ CancelTimer(conn[c].node) \/ UNCHANGED <<timers, task>>
      BY <1>4 DEF FinishConnect, nodeVars, sessionVars, stopVars, Shape, ConnShape
  <2> QED
      BY <1>1, <2>1, CancelKeepsTimers
<1>5. CASE DispatchDisconnect(c)
  <2>1. /\ conn[c].node \in Nodes /\ UNCHANGED <<present, epoch, gcClosed, shutdown>>
        /\ CancelTimer(conn[c].node) \/ UNCHANGED <<timers, task>>
      BY <1>5 DEF DispatchDisconnect, nodeVars, sessionVars, stopVars, Shape, ConnShape
  <2> QED
      BY <1>1, <2>1, CancelKeepsTimers
<1>6. CASE InstallTimer(c)
  <2>1. PICK n \in Nodes : n = conn[c].node
      BY <1>6 DEF InstallTimer, Shape, ConnShape
  <2>2. UNCHANGED <<present, epoch, gcClosed, shutdown>> /\ conn[c].pc = "arming"
      BY <1>6 DEF InstallTimer, nodeVars, sessionVars, stopVars
  <2>3. conn[c].epoch \in Epochs /\ epoch[n] = conn[c].epoch /\ present[n]
      BY <2>1, <2>2, NoneAssumption DEF EpochsCurrent, Shape, ConnShape, Leaving
  <2>4. CASE ~gcClosed
    <3>1. PICK g \in Gens :
              /\ task[g].pc = "none"
              /\ timers' = [timers EXCEPT ![n] = g]
              /\ task' = [TaskAborted(timers[n]) EXCEPT
                            ![g] = [pc |-> "sleeping", node |-> n, epoch |-> conn[c].epoch]]
        BY <1>6, <2>1, <2>4 DEF InstallTimer, TimerAllowed
    <3>2. TaskAborted(timers[n]) \in [Gens -> TaskType]
        BY TaskAbortedShape DEF Shape, TypeOK
    <3>3. /\ timers'[n] = g /\ task'[g].pc = "sleeping"
          /\ task'[g].node = n /\ task'[g].epoch = epoch'[n]
        BY <2>2, <2>3, <3>1, <3>2 DEF Shape, TypeOK
    <3>4. ASSUME NEW m \in Nodes, m # n, timers'[m] # None
          PROVE  timers'[m] = timers[m] /\ task'[timers[m]] = task[timers[m]]
      <4>1. timers'[m] = timers[m]
          BY <3>1, <3>4 DEF Shape, TypeOK
      <4>2. timers[m] \in Gens /\ timers[m] # g
          BY <2>4, <3>1, <3>4, <4>1, TimerTask
      <4> QED
          BY <2>4, <3>1, <3>2, <3>4, <4>1, <4>2, AbortedSparesOthers
    <3>5. shutdown' \notin {"gcClosed", "draining", "done"}
        BY <2>2, <2>4 DEF Shape, Phases
    <3>6. ASSUME NEW m \in Nodes, m # n, timers'[m] # None
          PROVE  /\ present'[m]
                 /\ task'[timers'[m]].pc \in {"sleeping", "waiting"}
                 /\ task'[timers'[m]].node = m
                 /\ task'[timers'[m]].epoch = epoch'[m]
        BY <2>2, <2>4, <3>4, <3>6, TimerTask DEF TimersOwned
    <3> QED
        BY <2>2, <2>3, <3>3, <3>5, <3>6 DEF TimersOwned
  <2>5. CASE gcClosed
      BY <1>1, <1>6, <2>2, <2>5 DEF InstallTimer, TimerAllowed
  <2> QED
      BY <2>4, <2>5
<1> QED
    BY <1>2, <1>3, <1>4, <1>5, <1>6 DEF ConnStep

\* The collector: a claimed timer is gone, and so is the timer of a node that
\* is removed.
LEMMA GcTimers ==
    ASSUME Inv, NEW g \in Gens, GcStep(g) \/ GcDestroyFails(g)
    PROVE  TimersOwned'
<1> USE DEF Inv
<1>1. PICK n \in Nodes : n = task[g].node
    BY DEF GcStep, GcDestroyFails, Fire, Claim, GcDestroyRow, GcRemove, Shape, TaskShape
<1>2. CASE Fire(g)
  <2>1. /\ UNCHANGED <<present, epoch, timers, gcClosed, shutdown>> /\ task[g].pc = "sleeping"
        /\ task' = IF gcClosed \/ timers[n] # g THEN [task EXCEPT ![g] = IdleTask]
                                                ELSE [task EXCEPT ![g].pc = "waiting"]
      BY <1>1, <1>2 DEF Fire, nodeVars, sessionVars, stopVars
  <2>2. ASSUME NEW m \in Nodes, timers[m] # None
        PROVE  /\ present'[m]
               /\ shutdown' \notin {"gcClosed", "draining", "done"}
      BY <2>1, <2>2 DEF TimersOwned
  <2>3. ASSUME NEW m \in Nodes, timers[m] # None, ~gcClosed
        PROVE  /\ task'[timers[m]].pc \in {"sleeping", "waiting"}
               /\ task'[timers[m]].node = m
               /\ task'[timers[m]].epoch = epoch[m]
    <3>1. /\ timers[m] \in Gens /\ task[timers[m]].pc \in {"sleeping", "waiting"}
          /\ task[timers[m]].node = m /\ task[timers[m]].epoch = epoch[m]
        BY <2>3, TimerTask
    <3>2. CASE timers[m] # g
        BY <2>1, <3>1, <3>2 DEF Shape, TypeOK
    <3>3. CASE timers[m] = g
      <4>1. m = n
          BY <1>1, <3>1, <3>3
      <4>2. task' = [task EXCEPT ![g].pc = "waiting"]
          BY <2>1, <2>3, <3>3, <4>1
      <4> QED
          BY <3>1, <3>3, <4>2 DEF Shape, TypeOK, TaskType
    <3> QED
        BY <3>2, <3>3
  <2> QED
      BY <2>1, <2>2, <2>3 DEF TimersOwned
<1>3. CASE Claim(g)
  <2>1. /\ UNCHANGED <<present, epoch, gcClosed, shutdown>>
        /\ timers' = IF timers[n] = g THEN [timers EXCEPT ![n] = None] ELSE timers
        /\ task' = [task EXCEPT ![g].pc = "claimed"] \/ task' = [task EXCEPT ![g] = IdleTask]
      BY <1>1, <1>3 DEF Claim, nodeVars, sessionVars, stopVars
  <2>2. ASSUME NEW m \in Nodes, timers'[m] # None
        PROVE  timers'[m] = timers[m] /\ (~gcClosed => task'[timers[m]] = task[timers[m]])
    <3>1. timers'[m] = timers[m] /\ (m = n => timers[m] # g)
        BY <2>1, <2>2 DEF Shape, TypeOK
    <3>2. ASSUME ~gcClosed
          PROVE  task'[timers[m]] = task[timers[m]]
      <4>1. timers[m] \in Gens /\ timers[m] # g
          BY <1>1, <2>2, <3>1, <3>2, TimerTask
      <4> QED
          BY <2>1, <4>1 DEF Shape, TypeOK
    <3> QED
        BY <3>1, <3>2
  <2> QED
      BY <2>1, <2>2, TimersKept
<1>4. CASE GcDestroyRow(g) \/ GcDestroyFails(g)
  <2>1. /\ UNCHANGED <<present, epoch, timers, gcClosed, shutdown>> /\ task[g].pc = "claimed"
        /\ task' = [task EXCEPT ![g].pc = "destroyed"] \/ task' = [task EXCEPT ![g] = IdleTask]
      BY <1>4 DEF GcDestroyRow, GcDestroyFails, nodeVars, sessionVars, stopVars
  <2>2. ASSUME NEW m \in Nodes, timers[m] # None, ~gcClosed
        PROVE  task'[timers[m]] = task[timers[m]]
    <3>1. timers[m] \in Gens /\ timers[m] # g
        BY <2>1, <2>2, TimerTask
    <3> QED
        BY <2>1, <3>1 DEF Shape, TypeOK
  <2> QED
      BY <2>1, <2>2, TimersKept
<1>5. CASE GcRemove(g)
  <2>1. /\ RemoveNode(n) /\ task[g].pc = "destroyed"
        /\ task' = [TaskAborted(timers[n]) EXCEPT ![g] = IdleTask]
      BY <1>1, <1>5 DEF GcRemove
  <2>2. /\ epoch' = [epoch EXCEPT ![n] = None]
        /\ present' = [present EXCEPT ![n] = FALSE]
        /\ timers' = [timers EXCEPT ![n] = None]
        /\ UNCHANGED <<gcClosed, shutdown>>
      BY <2>1 DEF RemoveNode, RetiredTimers, stopVars
  <2>3. TaskAborted(timers[n]) \in [Gens -> TaskType]
      BY TaskAbortedShape DEF Shape, TypeOK
  <2>4. ASSUME NEW m \in Nodes, timers'[m] # None
        PROVE  /\ timers'[m] = timers[m] /\ present'[m] = present[m] /\ epoch'[m] = epoch[m]
               /\ ~gcClosed => task'[timers[m]] = task[timers[m]]
    <3>1. m # n /\ timers'[m] = timers[m] /\ present'[m] = present[m] /\ epoch'[m] = epoch[m]
        BY <2>2, <2>4 DEF Shape, TypeOK
    <3>2. ASSUME ~gcClosed
          PROVE  task'[timers[m]] = task[timers[m]]
      <4>1. timers[m] \in Gens /\ timers[m] # g
          BY <2>1, <2>4, <3>1, <3>2, TimerTask
      <4> QED
          BY <2>1, <2>3, <2>4, <3>1, <3>2, <4>1, AbortedSparesOthers
    <3> QED
        BY <3>1, <3>2
  <2> QED
      BY <2>2, <2>4, TimersKept
<1> QED
    BY <1>2, <1>3, <1>4, <1>5 DEF GcStep

\* Deletions take the node's timer with it; schedule_existing installs timers
\* before anything is served.
LEMMA NodeTimers ==
    ASSUME Inv, NEW n \in Nodes,
           \/ ScheduleExisting(n) \/ DeleteNode(n) \/ Register(n) \/ Rekey(n)
           \/ KeyLapses(n) \/ WakeExpired(n)
           \/ \E x \in {"valid", "lapsed"} : SetExpiry(n, x)
    PROVE  TimersOwned'
<1> USE DEF Inv
<1>1. CASE ScheduleExisting(n)
  <2>1. PICK e \in EpochFor(n), g \in Gens :
            /\ task[g].pc = "none"
            /\ epoch' = [epoch EXCEPT ![n] = e]
            /\ timers' = [timers EXCEPT ![n] = g]
            /\ task' = [task EXCEPT ![g] = [pc |-> "sleeping", node |-> n, epoch |-> e]]
      BY <1>1 DEF ScheduleExisting
  <2>2. /\ shutdown = "booting" /\ present[n] /\ epoch[n] = None
        /\ UNCHANGED <<present, gcClosed, shutdown>>
      BY <1>1 DEF ScheduleExisting, nodeVars, stopVars
  <2>3. ~gcClosed
      BY <2>2 DEF Shape, Phases
  <2>4. /\ timers'[n] = g /\ task'[g].pc = "sleeping"
        /\ task'[g].node = n /\ task'[g].epoch = epoch'[n]
      BY <2>1 DEF Shape, TypeOK
  <2>5. ASSUME NEW m \in Nodes, m # n, timers'[m] # None
        PROVE  /\ present'[m]
               /\ task'[timers'[m]].pc \in {"sleeping", "waiting"}
               /\ task'[timers'[m]].node = m
               /\ task'[timers'[m]].epoch = epoch'[m]
    <3>1. timers'[m] = timers[m] /\ epoch'[m] = epoch[m]
        BY <2>1, <2>5 DEF Shape, TypeOK
    <3>2. timers[m] \in Gens /\ timers[m] # g
        BY <2>1, <2>3, <2>5, <3>1, TimerTask
    <3>3. task'[timers[m]] = task[timers[m]]
        BY <2>1, <3>2 DEF Shape, TypeOK
    <3> QED
        BY <2>2, <2>3, <2>5, <3>1, <3>3, TimerTask DEF TimersOwned
  <2> QED
      BY <2>2, <2>4, <2>5 DEF TimersOwned
<1>2. CASE DeleteNode(n)
  <2>1. /\ epoch' = [epoch EXCEPT ![n] = None]
        /\ present' = [present EXCEPT ![n] = FALSE]
        /\ timers' = [timers EXCEPT ![n] = None]
        /\ task' = TaskAborted(timers[n])
        /\ UNCHANGED <<gcClosed, shutdown>>
      BY <1>2 DEF DeleteNode, RemoveNode, RetiredTimers, stopVars
  <2>2. ASSUME NEW m \in Nodes, timers'[m] # None
        PROVE  /\ timers'[m] = timers[m] /\ present'[m] = present[m] /\ epoch'[m] = epoch[m]
               /\ ~gcClosed => task'[timers[m]] = task[timers[m]]
    <3>1. m # n /\ timers'[m] = timers[m] /\ present'[m] = present[m] /\ epoch'[m] = epoch[m]
        BY <2>1, <2>2 DEF Shape, TypeOK
    <3> QED
        BY <2>1, <2>2, <3>1, AbortedSparesOthers
  <2> QED
      BY <2>1, <2>2, TimersKept
<1>3. CASE Register(n)
  <2>1. /\ present' = [present EXCEPT ![n] = TRUE]
        /\ UNCHANGED <<epoch, timers, task, gcClosed, shutdown>>
      BY <1>3 DEF Register, sessionVars, stopVars
  <2>2. \A m \in Nodes : present[m] => present'[m]
      BY <2>1 DEF Shape, TypeOK
  <2> QED
      BY <2>1, <2>2, TimersKept
<1>4. CASE Rekey(n)
    BY <1>4, CancelKeepsTimers DEF Rekey, sessionVars, stopVars
<1>5. CASE KeyLapses(n) \/ WakeExpired(n) \/ \E x \in {"valid", "lapsed"} : SetExpiry(n, x)
  <2>1. UNCHANGED <<present, epoch, timers, task, gcClosed, shutdown>>
      BY <1>5 DEF KeyLapses, WakeExpired, SetExpiry, sessionVars, gcVars, stopVars
  <2> QED
      BY <2>1, TimersKept
<1> QED
    BY <1>1, <1>2, <1>3, <1>4, <1>5

\* Once abort_all has run there is no timer left, and none comes.
LEMMA StopTimers ==
    ASSUME Inv, Serve \/ Stop
    PROVE  TimersOwned'
<1> USE DEF Inv
<1>1. CASE AbortTimers
  <2>1. \A m \in Nodes : timers'[m] = None
      BY <1>1 DEF AbortTimers
  <2> QED
      BY <2>1 DEF TimersOwned
<1>2. CASE CloseGc
  <2>1. /\ UNCHANGED <<present, epoch, timers, task>> /\ gcClosed' = TRUE
        /\ shutdown' = "closingGc"
      BY <1>2 DEF CloseGc, nodeVars, sessionVars
  <2> QED
      BY <2>1 DEF TimersOwned
<1>3. CASE Serve \/ MarkClosing \/ Drained
  <2>1. /\ UNCHANGED <<present, epoch, timers, task, gcClosed>>
        /\ shutdown' \in {"gcClosed", "draining", "done"} =>
              shutdown \in {"gcClosed", "draining", "done"}
      BY <1>3 DEF Serve, MarkClosing, Drained, nodeVars, sessionVars, gcVars
  <2> QED
      BY <2>1, TimersKept
<1> QED
    BY <1>1, <1>2, <1>3 DEF Stop

\* Every step keeps the timers owned.
LEMMA TimersOwnedKept == ASSUME Inv, [Next]_vars PROVE TimersOwned'
<1>1. CASE UNCHANGED vars
    BY <1>1, TimersKept DEF vars, nodeVars, sessionVars, gcVars, stopVars
<1> QED
    BY <1>1, ConnTimers, GcTimers, NodeTimers, StopTimers DEF Next

-----------------------------------------------------------------------------
\* The collector and the streams.

\* The collector task is deleting the node.
Deleting(g, n) == task[g].pc \in {"claimed", "destroyed"} /\ task[g].node = n

\* A step that claims nothing and adds no stream to a node being deleted.
LEMMA SparedKept ==
    ASSUME Inv, \A g \in Gens, n \in Nodes : Deleting(g, n)' => Deleting(g, n),
           \A g \in Gens, n \in Nodes :
               Deleting(g, n) => Held(n, Guarded)' \subseteq Held(n, Guarded)
    PROVE  \A g \in Gens, n \in Nodes : Deleting(g, n)' => Held(n, Guarded)' = {}
<1>1. \A g \in Gens, n \in Nodes : Deleting(g, n) => Held(n, Guarded) = {}
    BY DEF Inv, GcSparesConnected, Deleting, Guarded
<1> QED
    BY <1>1

\* The invariant, said of the nodes being deleted.
LEMMA SparedByNode ==
    ASSUME TaskShape', \A g \in Gens, n \in Nodes : Deleting(g, n)' => Held(n, Guarded)' = {}
    PROVE  GcSparesConnected'
<1> SUFFICES ASSUME NEW g \in Gens, task'[g].pc \in {"claimed", "destroyed"}
             PROVE  Held(task[g].node, Guarded)' = {}
    BY DEF GcSparesConnected, Guarded
<1>1. PICK n \in Nodes : n = task'[g].node
    BY DEF TaskShape
<1>2. Held(n, Guarded)' = {}
    BY <1>1 DEF Deleting
<1> QED
    BY <1>1, <1>2 DEF Held

\* Every step spares the nodes with a stream: a claim sees the counter at 0
\* under the lock that a connecting request needs.
LEMMA SparedStep == ASSUME Inv, [Next]_vars PROVE GcSparesConnected'
<1> USE DEF Inv
<1>1. TaskShape'
    BY ShapeKept DEF Shape
<1> SUFFICES \A g \in Gens, n \in Nodes : Deleting(g, n)' => Held(n, Guarded)' = {}
    BY <1>1, SparedByNode
<1> DEFINE Goal == \A g \in Gens, n \in Nodes : Deleting(g, n)' => Held(n, Guarded)' = {}
<1>2. ASSUME UNCHANGED epoch, TasksCalm,
             \A n \in Nodes : Held(n, Guarded)' \subseteq Held(n, Guarded)
      PROVE  Goal
    BY <1>2, SparedKept DEF TasksCalm, Deleting
<1>3. ASSUME UNCHANGED <<conn, epoch>>, TasksCalm
      PROVE  Goal
    BY <1>2, <1>3, HeldSame
<1>4. ASSUME NEW c \in Conns, NEW n \in Nodes, StartConnect(c, n)
      PROVE  Goal
  <2>1. /\ OthersSame(c) /\ conn'[c].pc = "locked" /\ UNCHANGED epoch /\ TasksCalm
      BY <1>4, StartConnectEffect DEF sessionVars, gcVars, TasksCalm
  <2> QED
      BY <1>2, <2>1 DEF Held, OthersSame, Guarded
<1>5. ASSUME NEW c \in Conns, ConnectFails(c) \/ AcquireRefused(c)
      PROVE  Goal
  <2>1. /\ OthersSame(c) /\ conn'[c].pc = "none" /\ UNCHANGED epoch /\ TasksCalm
      BY <1>5, ConnDoneEffect DEF ConnectFails, AcquireRefused, sessionVars, gcVars, TasksCalm
  <2> QED
      BY <1>2, <2>1 DEF Held, OthersSame, Guarded
<1>6. ASSUME NEW c \in Conns, Acquire(c)
      PROVE  Goal
  <2>1. PICK n \in Nodes : n = conn[c].node
      BY <1>6, AcquireEffect
  <2>2. /\ conn[c].pc = "locked" /\ OthersSame(c) /\ conn'[c].node = n
        /\ epoch' = [epoch EXCEPT ![n] = conn'[c].epoch] /\ UNCHANGED task
      BY <1>6, <2>1, AcquireEffect
  <2>3. \A g \in Gens : ~Deleting(g, n)
      BY <2>1, <2>2, NoneAssumption DEF LockOwned, Deleting
  <2>4. ASSUME NEW m \in Nodes \ {n}
        PROVE  Held(m, Guarded)' \subseteq Held(m, Guarded)
    <3>1. epoch'[m] = epoch[m]
        BY <2>2 DEF Shape, TypeOK
    <3> QED
        BY <2>1, <2>2, <3>1 DEF Held, OthersSame
  <2> QED
      BY <2>2, <2>3, <2>4, SparedKept DEF Deleting
<1>7. ASSUME NEW c \in Conns, FinishConnect(c)
      PROVE  Goal
  <2>1. /\ OthersSame(c) /\ conn[c].pc = "acquired" /\ conn'[c].node = conn[c].node
        /\ conn'[c].epoch = conn[c].epoch /\ UNCHANGED epoch
      BY <1>7, ConnMovesEffect DEF FinishConnect, sessionVars
  <2>2. TasksCalm
      BY <1>7, AbortedCalm DEF FinishConnect, CancelTimer, TasksCalm, Shape, ConnShape
  <2> QED
      BY <1>2, <2>1, <2>2 DEF Held, OthersSame, Guarded
<1>8. ASSUME NEW c \in Conns,
             DropGuard(c) \/ Release(c) \/ DispatchDisconnect(c) \/ InstallTimer(c)
      PROVE  Goal
  <2>1. UNCHANGED epoch /\ conn[c].node \in Nodes
      BY <1>8 DEF DropGuard, Release, DispatchDisconnect, InstallTimer, sessionVars, Shape, ConnShape
  <2>2. OthersSame(c) /\ conn'[c].pc \notin Guarded
    <3>1. \/ conn' = ConnDone(c)
          \/ \E x \in {"releasing", "offline", "arming"} : conn' = [conn EXCEPT ![c].pc = x]
        BY <1>8 DEF DropGuard, Release, DispatchDisconnect, InstallTimer
    <3> QED
        BY <3>1, ConnDoneEffect, ConnMovesEffect DEF Guarded
  <2>3. TasksCalm
    <3>1. CASE DropGuard(c) \/ Release(c)
        BY <3>1 DEF DropGuard, Release, gcVars, TasksCalm
    <3>2. CASE DispatchDisconnect(c)
        BY <2>1, <3>2, AbortedCalm DEF DispatchDisconnect, CancelTimer, TasksCalm
    <3>3. CASE InstallTimer(c)
      <4>1. timers[conn[c].node] \in Gens \cup {None} /\ IdleTask.pc = "none"
          BY <2>1 DEF Shape, TypeOK, IdleTask
      <4> QED
          BY <3>3, <4>1, TaskAbortedShape DEF InstallTimer, TasksCalm
    <3> QED
        BY <1>8, <3>1, <3>2, <3>3
  <2> QED
      BY <1>2, <2>1, <2>2, <2>3 DEF Held, OthersSame
<1>9. ASSUME NEW n \in Nodes, RemoveNode(n),
             \A g \in Gens, m \in Nodes : Deleting(g, m)' => Deleting(g, m)
      PROVE  Goal
  <2>1. /\ \A c \in Conns : /\ conn'[c].pc = conn[c].pc /\ conn'[c].node = conn[c].node
                            /\ conn'[c].epoch = conn[c].epoch
        /\ epoch' = [epoch EXCEPT ![n] = None]
      BY <1>9, Retired
  <2>2. \A m \in Nodes : Held(m, Guarded)' \subseteq Held(m, Guarded)
      BY <2>1 DEF Held, Shape, TypeOK
  <2> QED
      BY <1>9, <2>2, SparedKept
<1>10. ASSUME NEW g \in Gens, Fire(g) \/ GcDestroyRow(g) \/ GcDestroyFails(g)
       PROVE  Goal
  <2>1. UNCHANGED <<conn, epoch>>
      BY <1>10 DEF Fire, GcDestroyRow, GcDestroyFails, sessionVars
  <2>2. IdleTask.pc = "none"
      BY DEF IdleTask
  <2>3. \A h \in Gens, n \in Nodes : Deleting(h, n)' => Deleting(h, n)
      BY <1>10, <2>2 DEF Fire, GcDestroyRow, GcDestroyFails, Deleting, Shape, TypeOK, TaskType
  <2> QED
      BY <2>1, <2>3, HeldSame, SparedKept
<1>11. ASSUME NEW g \in Gens, Claim(g)
       PROVE  Goal
  <2>1. PICK n \in Nodes : n = task[g].node
      BY <1>11 DEF Claim, Shape, TaskShape
  <2>2. /\ UNCHANGED <<conn, epoch>>
        /\ \/ task' = [task EXCEPT ![g].pc = "claimed"] /\ active[n] = 0
           \/ task' = [task EXCEPT ![g] = IdleTask]
      BY <1>11, <2>1 DEF Claim, sessionVars
  <2>3. active[n] = 0 => Held(n, Guarded) = {}
      BY CountersTell DEF PresenceMatches
  <2>4. \A m \in Nodes : Held(m, Guarded)' = Held(m, Guarded)
      BY <2>2, HeldSame
  <2>5. ASSUME NEW h \in Gens, NEW m \in Nodes, Deleting(h, m)'
        PROVE  Held(m, Guarded)' = {}
    <3>1. CASE h = g
      <4>1. CASE task' = [task EXCEPT ![g].pc = "claimed"] /\ active[n] = 0
        <5>1. task'[g].node = n
            BY <2>1, <4>1 DEF Shape, TypeOK, TaskType
        <5> QED
            BY <2>3, <2>4, <2>5, <3>1, <4>1, <5>1 DEF Deleting
      <4>2. CASE task' = [task EXCEPT ![g] = IdleTask]
          BY <2>5, <3>1, <4>2 DEF Deleting, Shape, TypeOK, IdleTask
      <4> QED
          BY <2>2, <4>1, <4>2
    <3>2. CASE h # g
      <4>1. Deleting(h, m)
          BY <2>2, <2>5, <3>2 DEF Deleting, Shape, TypeOK
      <4> QED
          BY <2>4, <4>1 DEF GcSparesConnected, Deleting, Guarded
    <3> QED
        BY <3>1, <3>2
  <2> QED
      BY <2>5
<1>12. ASSUME NEW g \in Gens, GcRemove(g)
       PROVE  Goal
  <2>1. PICK n \in Nodes : n = task[g].node
      BY <1>12 DEF GcRemove, Shape, TaskShape
  <2>2. RemoveNode(n) /\ task' = [TaskAborted(timers[n]) EXCEPT ![g] = IdleTask]
      BY <1>12, <2>1 DEF GcRemove
  <2>3. \A h \in Gens : task'[h].pc = "none" \/ task'[h] = task[h]
    <3>1. timers[n] \in Gens \cup {None} /\ IdleTask.pc = "none"
        BY DEF Shape, TypeOK, IdleTask
    <3> QED
        BY <2>2, <3>1, TaskAbortedShape
  <2> QED
      BY <1>9, <2>2, <2>3 DEF Deleting
<1>13. ASSUME NEW n \in Nodes, DeleteNode(n)
       PROVE  Goal
    BY <1>9, <1>13, AbortedCalm DEF DeleteNode, TasksCalm, Deleting
<1>14. ASSUME NEW n \in Nodes, ScheduleExisting(n)
       PROVE  Goal
  <2>1. PICK e \in EpochFor(n), g \in Gens :
            /\ epoch' = [epoch EXCEPT ![n] = e]
            /\ task' = [task EXCEPT ![g] = [pc |-> "sleeping", node |-> n, epoch |-> e]]
      BY <1>14 DEF ScheduleExisting
  <2>2. conn' = conn /\ \A c \in Conns : conn[c].epoch # e
      BY <1>14 DEF ScheduleExisting, EpochFor, EpochsInUse
  <2>3. \A m \in Nodes : Held(m, Guarded)' \subseteq Held(m, Guarded)
      BY <2>1, <2>2 DEF Held, Shape, TypeOK
  <2>4. \A h \in Gens, m \in Nodes : Deleting(h, m)' => Deleting(h, m)
      BY <2>1 DEF Deleting, Shape, TypeOK
  <2> QED
      BY <2>3, <2>4, SparedKept
<1>15. ASSUME NEW n \in Nodes,
              \/ Register(n) \/ Rekey(n) \/ KeyLapses(n) \/ WakeExpired(n)
              \/ \E x \in {"valid", "lapsed"} : SetExpiry(n, x)
       PROVE  Goal
  <2>1. UNCHANGED <<conn, epoch>>
      BY <1>15 DEF Register, Rekey, KeyLapses, WakeExpired, SetExpiry, sessionVars
  <2>2. TasksCalm
      BY <1>15, AbortedCalm DEF Register, Rekey, CancelTimer, KeyLapses, WakeExpired, SetExpiry,
         gcVars, TasksCalm
  <2> QED
      BY <1>3, <2>1, <2>2
<1>16. CASE Serve \/ CloseGc \/ Drained \/ AbortTimers \/ UNCHANGED vars
  <2>1. UNCHANGED <<conn, epoch>>
      BY <1>16 DEF Serve, CloseGc, Drained, AbortTimers, vars, sessionVars
  <2>2. TasksCalm
      BY <1>16 DEF Serve, CloseGc, Drained, AbortTimers, vars, gcVars, TasksCalm, IdleTask
  <2> QED
      BY <1>3, <2>1, <2>2
<1>17. CASE MarkClosing
  <2>1. /\ \A c \in Conns : /\ conn'[c].pc = conn[c].pc /\ conn'[c].node = conn[c].node
                            /\ conn'[c].epoch = conn[c].epoch
        /\ UNCHANGED <<epoch, task>>
      BY <1>17, Cancelled DEF MarkClosing, sessionVars, gcVars
  <2> QED
      BY <1>2, <2>1, HeldSame DEF TasksCalm
<1> HIDE DEF Goal
<1> QED
    BY <1>4, <1>5, <1>6, <1>7, <1>8, <1>10, <1>11, <1>12, <1>13, <1>14, <1>15, <1>16, <1>17
       DEF Next, ConnStep, GcStep, Stop, Goal

-----------------------------------------------------------------------------
\* The idle ephemeral nodes.

Idle(n) == present[n] /\ epoch[n] # None /\ sessions[n] = 0 /\ ~gcClosed /\ ~stale[n]

Tracked(n) ==
    timers[n] # None \/ Held(n, Leaving) # {} \/ (\E g \in Gens : Deleting(g, n))

\* The property, said with these words.
LEMMA TrackedMeans ==
    IdleEphemeralTracked <=> \A n \in Ephemeral : Idle(n) => Tracked(n)
BY DEF IdleEphemeralTracked, Idle, Tracked, Deleting, Leaving

\* What keeps a node tracked that was idle before.
LEMMA TrackedStays ==
    ASSUME Inv, NEW n \in Ephemeral, Idle(n),
           timers[n] # None => timers'[n] # None,
           Held(n, Leaving) \subseteq Held(n, Leaving)',
           \A g \in Gens : Deleting(g, n) => Deleting(g, n)'
    PROVE  Tracked(n)'
<1>1. Tracked(n)
    BY TrackedMeans DEF Inv
<1> QED
    BY <1>1 DEF Tracked

\* As long as the collector is open, aborting the task of a timer interrupts
\* no deletion.
LEMMA AbortKeepsDeleting ==
    ASSUME Inv, ~gcClosed, NEW n \in Nodes, NEW m \in Nodes, NEW g \in Gens, Deleting(g, m)
    PROVE  TaskAborted(timers[n])[g] = task[g]
<1>1. timers[n] \in Gens \cup {None}
    BY DEF Inv, Shape, TypeOK
<1>2. g # timers[n]
    BY NoneAssumption, TimerTask DEF Deleting
<1> QED
    BY <1>1, <1>2, TaskAbortedShape DEF Inv

\* Requests that connect make the node busy, or leave it alone.
LEMMA ConnectingTracked ==
    ASSUME Inv, NEW c \in Conns, NEW n \in Ephemeral, Idle(n)',
           \/ \E m \in Nodes : StartConnect(c, m)
           \/ ConnectFails(c) \/ Acquire(c) \/ AcquireRefused(c) \/ FinishConnect(c)
    PROVE  Tracked(n)'
<1> USE DEF Inv
<1>0. n \in Nodes
    BY EphemeralAssumption
<1>1. ASSUME OthersSame(c), conn[c].pc \notin Leaving,
             UNCHANGED <<nodeVars, sessionVars, gcVars>>
      PROVE  Tracked(n)'
  <2>1. Idle(n) /\ timers' = timers /\ \A g \in Gens : Deleting(g, n) => Deleting(g, n)'
      BY <1>1 DEF Idle, Deleting, nodeVars, sessionVars, gcVars
  <2>2. Held(n, Leaving) \subseteq Held(n, Leaving)'
      BY <1>1 DEF Held, OthersSame, sessionVars
  <2> QED
      BY <2>1, <2>2, TrackedStays
<1>2. ASSUME NEW m \in Nodes, StartConnect(c, m)
      PROVE  Tracked(n)'
    BY <1>1, <1>2, StartConnectEffect DEF Leaving
<1>3. CASE ConnectFails(c) \/ AcquireRefused(c)
    BY <1>1, <1>3, ConnDoneEffect DEF ConnectFails, AcquireRefused, Leaving
<1>4. CASE Acquire(c)
  <2>1. PICK m \in Nodes : m = conn[c].node
      BY <1>4, AcquireEffect
  <2>2. /\ OthersSame(c) /\ conn[c].pc = "locked"
        /\ epoch' = [epoch EXCEPT ![m] = conn'[c].epoch]
        /\ sessions' = [sessions EXCEPT ![m] = @ + 1]
        /\ stale' = [stale EXCEPT ![m] = FALSE]
        /\ UNCHANGED <<present, timers, task, gcClosed>>
      BY <1>4, <2>1, AcquireEffect
  <2>3. n # m
      BY <2>2 DEF Idle, Shape, TypeOK
  <2>4. epoch'[n] = epoch[n] /\ sessions'[n] = sessions[n] /\ stale'[n] = stale[n]
      BY <1>0, <2>2, <2>3 DEF Shape, TypeOK
  <2>5. Idle(n) /\ \A g \in Gens : Deleting(g, n) => Deleting(g, n)'
      BY <2>2, <2>4 DEF Idle, Deleting
  <2>6. Held(n, Leaving) \subseteq Held(n, Leaving)'
      BY <2>2, <2>4 DEF Held, OthersSame, Leaving
  <2> QED
      BY <2>2, <2>5, <2>6, TrackedStays
<1>5. CASE FinishConnect(c)
  <2>1. PICK m \in Nodes : m = conn[c].node
      BY <1>5 DEF FinishConnect, Shape, ConnShape
  <2>2. /\ conn[c].pc = "acquired" /\ OthersSame(c)
        /\ UNCHANGED <<present, epoch, sessions, gcClosed, stale>>
      BY <1>5, ConnMovesEffect DEF FinishConnect, nodeVars, sessionVars
  <2>3. Idle(n)
      BY <2>2 DEF Idle
  <2>4. c \in Held(m, Counted)
      BY <2>1, <2>2, NoneAssumption DEF Held, EpochsCurrent, Shape, ConnShape, Counted
  <2>5. n # m
      BY <2>3, <2>4, CountersTell DEF Idle, PresenceMatches
  <2>6. \/ timers' = [timers EXCEPT ![m] = None] /\ task' = TaskAborted(timers[m])
        \/ UNCHANGED <<timers, task>>
      BY <1>5, <2>1 DEF FinishConnect, CancelTimer
  <2>7. timers'[n] = timers[n] /\ \A g \in Gens : Deleting(g, n) => Deleting(g, n)'
      BY <1>0, <2>3, <2>5, <2>6, AbortKeepsDeleting DEF Idle, Deleting, Shape, TypeOK
  <2>8. Held(n, Leaving) \subseteq Held(n, Leaving)'
      BY <2>2 DEF Held, OthersSame, Leaving
  <2> QED
      BY <2>3, <2>7, <2>8, TrackedStays
<1> QED
    BY <1>2, <1>3, <1>4, <1>5

\* Requests that disconnect: the last session of a node hands it to the
\* dispatcher, the dispatcher to the timer.
LEMMA DisconnectingTracked ==
    ASSUME Inv, NEW c \in Conns, NEW n \in Ephemeral, Idle(n)',
           DropGuard(c) \/ Release(c) \/ DispatchDisconnect(c) \/ InstallTimer(c)
    PROVE  Tracked(n)'
<1> USE DEF Inv
<1>0. n \in Nodes
    BY EphemeralAssumption
<1>1. PICK m \in Nodes : m = conn[c].node
    BY DEF DropGuard, Release, DispatchDisconnect, InstallTimer, Shape, ConnShape
<1>2. UNCHANGED <<present, epoch, gcClosed, stale>> /\ ~gcClosed
    BY DEF DropGuard, Release, DispatchDisconnect, InstallTimer, nodeVars, sessionVars, gcVars, Idle
<1>3. OthersSame(c)
    BY ConnDoneEffect, ConnMovesEffect DEF DropGuard, Release, DispatchDisconnect, InstallTimer
<1>4. ASSUME c \in Held(n, Leaving) => c \in Held(n, Leaving)'
      PROVE  Held(n, Leaving) \subseteq Held(n, Leaving)'
    BY <1>2, <1>3, <1>4 DEF Held, OthersSame
<1>5. CASE DropGuard(c)
  <2>1. /\ conn[c].pc = "open" /\ UNCHANGED <<sessions, timers, task>>
      BY <1>5 DEF DropGuard, gcVars
  <2>2. Idle(n) /\ \A g \in Gens : Deleting(g, n) => Deleting(g, n)'
      BY <1>2, <2>1 DEF Idle, Deleting
  <2>3. c \notin Held(n, Leaving)
      BY <2>1 DEF Held, Leaving
  <2> QED
      BY <1>4, <2>1, <2>2, <2>3, TrackedStays
<1>6. CASE Release(c)
  <2>1. conn[c].pc = "releasing" /\ UNCHANGED <<timers, task>>
      BY <1>6 DEF Release, gcVars
  <2>2. c \notin Held(n, Leaving)
      BY <2>1 DEF Held, Leaving
  <2>3. CASE sessions'[n] = sessions[n]
    <3>1. Idle(n) /\ \A g \in Gens : Deleting(g, n) => Deleting(g, n)'
        BY <1>2, <2>1, <2>3 DEF Idle, Deleting
    <3> QED
        BY <1>4, <2>1, <2>2, <3>1, TrackedStays
  <2>4. CASE sessions'[n] # sessions[n]
    <3>1. EpochMatches(c) /\ sessions' = [sessions EXCEPT ![m] = @ - 1]
        BY <1>1, <1>6, <2>4 DEF Release
    <3>2. m = n
        BY <1>0, <2>4, <3>1 DEF Shape, TypeOK
    <3>3. sessions[n] \in Nat /\ sessions'[n] = 0
        BY <1>0 DEF Idle, Shape, TypeOK
    <3>4. sessions[n] = 1
        BY <1>0, <3>1, <3>2, <3>3 DEF Shape, TypeOK
    <3>5. conn' = [conn EXCEPT ![c].pc = "offline"]
        BY <1>1, <1>6, <2>4, <3>2, <3>4 DEF Release, LastSession
    <3>6. conn'[c].pc = "offline" /\ conn'[c].node = n /\ conn'[c].epoch = conn[c].epoch
        BY <1>1, <3>2, <3>5, ConnMovesEffect
    <3>7. c \in Held(n, Leaving)'
        BY <1>1, <1>2, <3>1, <3>2, <3>6 DEF Held, EpochMatches, Leaving
    <3> QED
        BY <3>7 DEF Tracked
  <2> QED
      BY <2>3, <2>4
<1>7. CASE DispatchDisconnect(c)
  <2>1. conn[c].pc = "offline" /\ UNCHANGED sessions
      BY <1>7 DEF DispatchDisconnect, sessionVars
  <2>2. Idle(n)
      BY <1>2, <2>1 DEF Idle
  <2>3. CASE m = n /\ EpochMatches(c)
    <3>1. present[n] /\ sessions[n] = 0
        BY <2>2 DEF Idle
    <3>2. conn' = [conn EXCEPT ![c].pc = "arming"]
        BY <1>1, <1>2, <1>7, <2>3, <3>1 DEF DispatchDisconnect
    <3>3. conn'[c].pc = "arming" /\ conn'[c].node = n /\ conn'[c].epoch = conn[c].epoch
        BY <1>1, <2>3, <3>2, ConnMovesEffect
    <3>4. c \in Held(n, Leaving)'
        BY <1>1, <1>2, <2>3, <3>3 DEF Held, EpochMatches, Leaving
    <3> QED
        BY <3>4 DEF Tracked
  <2>4. CASE ~(m = n /\ EpochMatches(c))
    <3>1. c \notin Held(n, Leaving)
        BY <1>1, <2>4 DEF Held, EpochMatches
    <3>2. \/ timers' = [timers EXCEPT ![m] = None] /\ task' = TaskAborted(timers[m]) /\ m # n
          \/ UNCHANGED <<timers, task>>
        BY <1>1, <1>7, <2>4 DEF DispatchDisconnect, CancelTimer
    <3>3. timers'[n] = timers[n] /\ \A g \in Gens : Deleting(g, n) => Deleting(g, n)'
        BY <1>0, <1>2, <3>2, AbortKeepsDeleting DEF Deleting, Shape, TypeOK
    <3> QED
        BY <1>4, <2>2, <3>1, <3>3, TrackedStays
  <2> QED
      BY <2>3, <2>4
<1>8. CASE InstallTimer(c)
  <2>1. conn[c].pc = "arming" /\ UNCHANGED sessions
      BY <1>8 DEF InstallTimer, sessionVars
  <2>2. PICK g \in Gens :
            /\ task[g].pc = "none"
            /\ timers' = [timers EXCEPT ![m] = g]
            /\ task' = [TaskAborted(timers[m]) EXCEPT
                          ![g] = [pc |-> "sleeping", node |-> m, epoch |-> conn[c].epoch]]
      BY <1>1, <1>2, <1>8 DEF InstallTimer, TimerAllowed
  <2>3. CASE m = n
      BY <2>2, <2>3, NoneAssumption DEF Tracked, Shape, TypeOK
  <2>4. CASE m # n
    <3>1. Idle(n) /\ c \notin Held(n, Leaving)
        BY <1>1, <1>2, <2>1, <2>4 DEF Idle, Held
    <3>2. timers'[n] = timers[n]
        BY <1>0, <2>2, <2>4 DEF Shape, TypeOK
    <3>3. TaskAborted(timers[m]) \in [Gens -> TaskType]
        BY TaskAbortedShape DEF Shape, TypeOK
    <3>4. ASSUME NEW h \in Gens, Deleting(h, n)
          PROVE  Deleting(h, n)'
      <4>1. h # g /\ TaskAborted(timers[m])[h] = task[h]
          BY <1>0, <1>2, <2>2, <3>4, AbortKeepsDeleting DEF Deleting
      <4> QED
          BY <2>2, <3>3, <3>4, <4>1 DEF Deleting
    <3> QED
        BY <1>4, <3>1, <3>2, <3>4, TrackedStays
  <2> QED
      BY <2>3, <2>4
<1> QED
    BY <1>5, <1>6, <1>7, <1>8

\* The collector: a timer that finds its node idle claims it.
LEMMA GcTracked ==
    ASSUME Inv, NEW g \in Gens, NEW n \in Ephemeral, Idle(n)', GcStep(g) \/ GcDestroyFails(g)
    PROVE  Tracked(n)'
<1> USE DEF Inv
<1>0. n \in Nodes
    BY EphemeralAssumption
<1>1. PICK m \in Nodes : m = task[g].node
    BY DEF GcStep, GcDestroyFails, Fire, Claim, GcDestroyRow, GcRemove, Shape, TaskShape
<1>2. CASE Fire(g) \/ GcDestroyRow(g)
  <2>1. UNCHANGED <<present, epoch, sessions, gcClosed, stale, conn, timers>>
      BY <1>2 DEF Fire, GcDestroyRow, nodeVars, sessionVars
  <2>2. \A h \in Gens : Deleting(h, n) => Deleting(h, n)'
    <3>1. CASE Fire(g)
      <4>1. task[g].pc = "sleeping" /\ \A h \in Gens \ {g} : task'[h] = task[h]
          BY <3>1 DEF Fire, Shape, TypeOK
      <4> QED
          BY <4>1 DEF Deleting
    <3>2. CASE GcDestroyRow(g)
        BY <3>2 DEF GcDestroyRow, Deleting, Shape, TypeOK, TaskType
    <3> QED
        BY <1>2, <3>1, <3>2
  <2>3. Idle(n) /\ Held(n, Leaving)' = Held(n, Leaving)
      BY <2>1, HeldSame DEF Idle
  <2> QED
      BY <2>1, <2>2, <2>3, TrackedStays
<1>3. CASE Claim(g)
  <2>1. UNCHANGED <<present, epoch, active, sessions, gcClosed, stale, conn>> /\ task[g].pc = "waiting"
      BY <1>3 DEF Claim, nodeVars, sessionVars
  <2>2. Idle(n) /\ Held(n, Leaving)' = Held(n, Leaving)
      BY <2>1, HeldSame DEF Idle
  <2>3. CASE timers[n] = g
    <3>1. ~gcClosed /\ timers[n] # None
        BY <2>2, <2>3, NoneAssumption DEF Idle
    <3>2. m = n /\ epoch[n] = task[g].epoch
        BY <1>0, <1>1, <2>3, <3>1, TimerTask
    <3>3. active[n] = 0 /\ present[n]
        BY <1>0, <2>2, CountersTell DEF Idle, PresenceMatches
    <3>4. task' = [task EXCEPT ![g].pc = "claimed"]
        BY <1>1, <1>3, <2>3, <3>1, <3>2, <3>3 DEF Claim
    <3>5. Deleting(g, n)'
        BY <1>1, <3>2, <3>4 DEF Deleting, Shape, TypeOK, TaskType
    <3> QED
        BY <3>5 DEF Tracked
  <2>4. CASE timers[n] # g
    <3>1. timers'[n] = timers[n]
        BY <1>0, <1>1, <1>3, <2>4 DEF Claim, Shape, TypeOK
    <3>2. \A h \in Gens \ {g} : task'[h] = task[h]
        BY <1>3 DEF Claim, Shape, TypeOK
    <3>3. \A h \in Gens : Deleting(h, n) => Deleting(h, n)'
        BY <2>1, <3>2 DEF Deleting
    <3> QED
        BY <2>2, <3>1, <3>3, TrackedStays
  <2> QED
      BY <2>3, <2>4
<1>4. CASE GcDestroyFails(g)
  <2>1. /\ UNCHANGED <<present, epoch, sessions, gcClosed, conn, timers>>
        /\ stale' = [stale EXCEPT ![m] = TRUE]
        /\ task' = [task EXCEPT ![g] = IdleTask]
      BY <1>1, <1>4 DEF GcDestroyFails, nodeVars, sessionVars
  <2>2. m # n
      BY <2>1 DEF Idle, Shape, TypeOK
  <2>3. stale'[n] = stale[n] /\ \A h \in Gens : Deleting(h, n) => Deleting(h, n)'
      BY <1>0, <1>1, <2>1, <2>2 DEF Deleting, Shape, TypeOK
  <2>4. Idle(n) /\ Held(n, Leaving)' = Held(n, Leaving)
      BY <2>1, <2>3, HeldSame DEF Idle
  <2> QED
      BY <2>1, <2>3, <2>4, TrackedStays
<1>5. CASE GcRemove(g)
  <2>1. /\ RemoveNode(m) /\ task' = [TaskAborted(timers[m]) EXCEPT ![g] = IdleTask]
        /\ UNCHANGED stale
      BY <1>1, <1>5 DEF GcRemove
  <2>2. /\ \A c \in Conns : /\ conn'[c].pc = conn[c].pc /\ conn'[c].node = conn[c].node
                            /\ conn'[c].epoch = conn[c].epoch
        /\ epoch' = [epoch EXCEPT ![m] = None] /\ sessions' = [sessions EXCEPT ![m] = 0]
        /\ present' = [present EXCEPT ![m] = FALSE] /\ timers' = [timers EXCEPT ![m] = None]
        /\ UNCHANGED gcClosed
      BY <2>1, Retired
  <2>3. m # n
      BY <2>2 DEF Idle, Shape, TypeOK
  <2>4. /\ epoch'[n] = epoch[n] /\ sessions'[n] = sessions[n] /\ present'[n] = present[n]
        /\ timers'[n] = timers[n]
      BY <1>0, <2>2, <2>3 DEF Shape, TypeOK
  <2>5. Idle(n) /\ Held(n, Leaving)' = Held(n, Leaving)
      BY <2>1, <2>2, <2>4, HeldSame DEF Idle
  <2>6. TaskAborted(timers[m]) \in [Gens -> TaskType]
      BY TaskAbortedShape DEF Shape, TypeOK
  <2>7. ASSUME NEW h \in Gens, Deleting(h, n)
        PROVE  Deleting(h, n)'
    <3>1. h # g /\ TaskAborted(timers[m])[h] = task[h]
        BY <1>0, <1>1, <2>3, <2>5, <2>7, AbortKeepsDeleting DEF Deleting, Idle
    <3> QED
        BY <2>1, <2>6, <2>7, <3>1 DEF Deleting
  <2> QED
      BY <2>4, <2>5, <2>7, TrackedStays
<1> QED
    BY <1>2, <1>3, <1>4, <1>5 DEF GcStep

\* Deletions, registrations and the expiry waker: a node that is gone, new or
\* rekeyed is not idle in the sense of the property.
LEMMA NodeTracked ==
    ASSUME Inv, NEW m \in Nodes, NEW n \in Ephemeral, Idle(n)',
           \/ ScheduleExisting(m) \/ DeleteNode(m) \/ Register(m) \/ Rekey(m)
           \/ KeyLapses(m) \/ WakeExpired(m)
           \/ \E x \in {"valid", "lapsed"} : SetExpiry(m, x)
    PROVE  Tracked(n)'
<1> USE DEF Inv
<1>0. n \in Nodes
    BY EphemeralAssumption
<1>1. CASE ScheduleExisting(m)
  <2>1. PICK e \in EpochFor(m), g \in Gens :
            /\ task[g].pc = "none"
            /\ epoch' = [epoch EXCEPT ![m] = e]
            /\ timers' = [timers EXCEPT ![m] = g]
            /\ task' = [task EXCEPT ![g] = [pc |-> "sleeping", node |-> m, epoch |-> e]]
      BY <1>1 DEF ScheduleExisting
  <2>2. UNCHANGED <<present, sessions, gcClosed, stale, conn>>
      BY <1>1 DEF ScheduleExisting, nodeVars
  <2>3. CASE m = n
      BY <2>1, <2>3, NoneAssumption DEF Tracked, Shape, TypeOK
  <2>4. CASE m # n
    <3>1. epoch'[n] = epoch[n] /\ timers'[n] = timers[n]
        BY <1>0, <2>1, <2>4 DEF Shape, TypeOK
    <3>2. \A h \in Gens : Deleting(h, n) => Deleting(h, n)'
        BY <2>1 DEF Deleting, Shape, TypeOK
    <3>3. Idle(n) /\ Held(n, Leaving)' = Held(n, Leaving)
        BY <2>2, <3>1, HeldSame DEF Idle
    <3> QED
        BY <3>1, <3>2, <3>3, TrackedStays
  <2> QED
      BY <2>3, <2>4
<1>2. CASE DeleteNode(m)
  <2>1. RemoveNode(m) /\ task' = TaskAborted(timers[m]) /\ UNCHANGED stale
      BY <1>2 DEF DeleteNode
  <2>2. /\ \A c \in Conns : /\ conn'[c].pc = conn[c].pc /\ conn'[c].node = conn[c].node
                            /\ conn'[c].epoch = conn[c].epoch
        /\ epoch' = [epoch EXCEPT ![m] = None] /\ sessions' = [sessions EXCEPT ![m] = 0]
        /\ present' = [present EXCEPT ![m] = FALSE] /\ timers' = [timers EXCEPT ![m] = None]
        /\ UNCHANGED gcClosed
      BY <2>1, Retired
  <2>3. m # n
      BY <2>2 DEF Idle, Shape, TypeOK
  <2>4. /\ epoch'[n] = epoch[n] /\ sessions'[n] = sessions[n] /\ present'[n] = present[n]
        /\ timers'[n] = timers[n]
      BY <1>0, <2>2, <2>3 DEF Shape, TypeOK
  <2>5. Idle(n) /\ Held(n, Leaving)' = Held(n, Leaving)
      BY <2>1, <2>2, <2>4, HeldSame DEF Idle
  <2>6. \A h \in Gens : Deleting(h, n) => Deleting(h, n)'
      BY <1>0, <2>1, <2>5, AbortKeepsDeleting DEF Deleting, Idle
  <2> QED
      BY <2>4, <2>5, <2>6, TrackedStays
<1>3. CASE Register(m)
  <2>1. /\ ~present[m] /\ present' = [present EXCEPT ![m] = TRUE]
        /\ stale' = [stale EXCEPT ![m] = FALSE]
        /\ UNCHANGED <<epoch, sessions, gcClosed, conn, timers, task>>
      BY <1>3 DEF Register, sessionVars
  <2>2. m # n
      BY <2>1 DEF Idle, EpochsCurrent
  <2>3. present'[n] = present[n] /\ stale'[n] = stale[n]
      BY <1>0, <2>1, <2>2 DEF Shape, TypeOK
  <2>4. Idle(n) /\ Held(n, Leaving)' = Held(n, Leaving)
      BY <2>1, <2>3, HeldSame DEF Idle
  <2> QED
      BY <2>1, <2>4, TrackedStays DEF Deleting
<1>4. CASE Rekey(m)
  <2>1. /\ timers' = [timers EXCEPT ![m] = None] /\ task' = TaskAborted(timers[m])
        /\ stale' = [stale EXCEPT ![m] = TRUE]
        /\ UNCHANGED <<present, epoch, sessions, gcClosed, conn>>
      BY <1>4 DEF Rekey, CancelTimer, sessionVars
  <2>2. m # n
      BY <2>1 DEF Idle, Shape, TypeOK
  <2>3. timers'[n] = timers[n] /\ stale'[n] = stale[n]
      BY <1>0, <2>1, <2>2 DEF Shape, TypeOK
  <2>4. Idle(n) /\ Held(n, Leaving)' = Held(n, Leaving)
      BY <2>1, <2>3, HeldSame DEF Idle
  <2>5. \A h \in Gens : Deleting(h, n) => Deleting(h, n)'
      BY <1>0, <2>1, <2>4, AbortKeepsDeleting DEF Deleting, Idle
  <2> QED
      BY <2>3, <2>4, <2>5, TrackedStays
<1>5. CASE KeyLapses(m) \/ WakeExpired(m) \/ \E x \in {"valid", "lapsed"} : SetExpiry(m, x)
  <2>1. UNCHANGED <<present, epoch, sessions, gcClosed, stale, conn, timers, task>>
      BY <1>5 DEF KeyLapses, WakeExpired, SetExpiry, sessionVars, gcVars
  <2>2. Idle(n) /\ Held(n, Leaving)' = Held(n, Leaving)
      BY <2>1, HeldSame DEF Idle
  <2> QED
      BY <2>1, <2>2, TrackedStays DEF Deleting
<1> QED
    BY <1>1, <1>2, <1>3, <1>4, <1>5

\* Every step keeps the idle ephemeral nodes tracked.
LEMMA TrackedKept == ASSUME Inv, [Next]_vars PROVE IdleEphemeralTracked'
<1> SUFFICES ASSUME NEW n \in Ephemeral, Idle(n)'
             PROVE  Tracked(n)'
  <2>1. \A n \in Ephemeral : Idle(n)' => Tracked(n)'
      OBVIOUS
  <2> QED
      BY <2>1 DEF IdleEphemeralTracked, Idle, Tracked, Deleting, Leaving
<1>1. ASSUME UNCHANGED <<present, epoch, sessions, gcClosed, stale, conn, timers, task>>
      PROVE  Tracked(n)'
  <2>1. Idle(n) /\ Held(n, Leaving)' = Held(n, Leaving)
      BY <1>1, HeldSame DEF Idle
  <2> QED
      BY <1>1, <2>1, TrackedStays DEF Deleting
<1>2. CASE Serve \/ CloseGc \/ Drained \/ UNCHANGED vars
  <2>1. CASE CloseGc
      BY <2>1 DEF CloseGc, Idle
  <2>2. CASE Serve \/ Drained \/ UNCHANGED vars
      BY <1>1, <2>2 DEF Serve, Drained, vars, nodeVars, sessionVars, gcVars
  <2> QED
      BY <1>2, <2>1, <2>2
<1>3. CASE AbortTimers \/ MarkClosing
  <2>1. gcClosed /\ UNCHANGED gcClosed
      BY <1>3 DEF AbortTimers, MarkClosing, gcVars, Inv, Shape, Phases
  <2> QED
      BY <2>1 DEF Idle
<1> QED
    BY <1>2, <1>3, ConnectingTracked, DisconnectingTracked, GcTracked, NodeTracked
       DEF Next, ConnStep, Stop

-----------------------------------------------------------------------------

\* Before the server starts nothing is under way.
LEMMA InitInv == ASSUME Init PROVE Inv
<1>1. \A c \in Conns : conn[c] = IdleConn
    BY DEF Init
<1>2. \A g \in Gens : task[g] = IdleTask
    BY DEF Init
<1>3. IdleConn.pc = "none" /\ IdleConn.epoch = None /\ IdleTask.pc = "none"
    BY DEF IdleConn, IdleTask
<1>4. IdleConn \in ConnType /\ IdleTask \in TaskType
    BY DEF IdleConn, IdleTask, ConnType, TaskType
<1>5. TypeOK
    BY <1>4 DEF Init, TypeOK
<1>6. ConnShape /\ TaskShape /\ Phases
    BY <1>1, <1>2, <1>3 DEF ConnShape, TaskShape, Phases, Init, Counted, Leaving
<1>7. LockOwned /\ EpochsCurrent /\ StreamsToldToStop
    BY <1>1, <1>2, <1>3 DEF LockOwned, EpochsCurrent, StreamsToldToStop, Streaming, Init
<1>8. \A n, P : n \in Nodes => Held(n, P) = {}
    BY DEF Held, Init
<1>9. CountsMatch
    BY <1>8, FS_EmptySet DEF CountsMatch, Init
<1>10. OnlineMatchesSessions /\ TimersOwned /\ IdleEphemeralTracked
    BY EphemeralAssumption DEF OnlineMatchesSessions, TimersOwned, IdleEphemeralTracked, Init
<1>11. GcSparesConnected
    BY <1>2, <1>3 DEF GcSparesConnected
<1> QED
    BY <1>5, <1>6, <1>7, <1>9, <1>10, <1>11 DEF Inv, Shape, PresenceMatches

\* Every step preserves the invariant.
LEMMA NextInv == ASSUME Inv, [Next]_vars PROVE Inv'
BY ShapeKept, OwnedKept, CountsKept, OnlineKept, TimersOwnedKept, SparedStep, TrackedKept
   DEF Inv, Owned, PresenceMatches

\* The invariant holds in every history.
THEOREM Invariance == Spec => []Inv
BY InitInv, NextInv, PTL DEF Spec

\* The state keeps its shape: in particular the two counters, which the code
\* decrements without looking at every owner, never go below 0
\* (release_stream_connection, release_state_session_in_epoch).
THEOREM TypeCorrect == Spec => []TypeOK
<1>1. Inv => TypeOK
    BY DEF Inv, Shape
<1> QED
    BY <1>1, Invariance, PTL

\* Presence is what the streams say, in every history of connections,
\* deletions, registrations and expiries.
THEOREM PresenceCorrect == Spec => []PresenceMatches
<1>1. Inv => PresenceMatches
    BY DEF Inv
<1> QED
    BY <1>1, Invariance, PTL

\* A stream of a deleted node, and every stream of a closing server, has been
\* told to stop (retire_absent_stream_state, shutdown_native_streams).
THEOREM StreamsStop == Spec => []StreamsToldToStop
<1>1. Inv => StreamsToldToStop
    BY DEF Inv
<1> QED
    BY <1>1, Invariance, PTL

\* No timer outlives its node, works for an earlier incarnation of it or is
\* installed after abort_all (EphemeralNodeGc).
THEOREM TimersStayOwned == Spec => []TimersOwned
<1>1. Inv => TimersOwned
    BY DEF Inv
<1> QED
    BY <1>1, Invariance, PTL

\* The collector deletes no node that has a stream (EphemeralNodeGc::fire).
THEOREM ConnectedSpared == Spec => []GcSparesConnected
<1>1. Inv => GcSparesConnected
    BY DEF Inv
<1> QED
    BY <1>1, Invariance, PTL

\* The collector forgets no idle ephemeral node (dispatch_state_disconnect,
\* schedule_owned, fire).
THEOREM IdleTracked == Spec => []IdleEphemeralTracked
<1>1. Inv => IdleEphemeralTracked
    BY DEF Inv
<1> QED
    BY <1>1, Invariance, PTL
=============================================================================
