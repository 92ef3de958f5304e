-------------------------- MODULE NodeStoreWriter --------------------------
(***************************************************************************)
(* The NodeStore's write path: MachineRegistry's writers, the optional     *)
(* write batcher (run_nodestore_write_worker, apply_nodestore_write_batch) *)
(* and the dropping of its handle.                                         *)
(*                                                                         *)
(* A caller clones the sender of the queue, sends its write and waits for  *)
(* the reply; without a queue, or when the worker is gone, it applies the  *)
(* write itself.  The worker collects writes until the batch is full, the  *)
(* ticker ticks or the handle is being dropped, applies them to one copy   *)
(* of the map, publishes it and then replies.                              *)
(***************************************************************************)
EXTENDS NodeStoreWrites

CONSTANTS
    BatchSize,  \* writes in a full batch
    Async       \* callers that are tasks; the others block their thread

ASSUME BatchSizeAssumption == BatchSize \in Nat \ {0}
ASSUME AsyncAssumption == Async \subseteq Callers

VARIABLES
    store,      \* MachineRegistry.inner, the published map
    sessions,   \* nodes with stream state of their present incarnation
    op,         \* caller -> its write, None between calls
    pc,         \* caller -> where it is
    answer,     \* caller -> the reply it has got
    installed,  \* nodestore_write_queue holds the sender
    queue,      \* the channel: callers, and Wake
    batch,      \* the worker's open batch, of callers
    worker,     \* "recv", "flush", "reply", "exited", "dead"
    replies,    \* completions yet to be sent
    handle      \* NodeStoreWriteBatcherHandle: how far its drop is

callerVars == <<op, pc, answer>>
workerVars == <<queue, batch, worker, replies>>
vars == <<store, sessions, callerVars, installed, workerVars, handle>>

Wake == "wake"

ASSUME WakeAssumption == Wake \notin Callers

\* The flag the handle's drop sets first.
Stopping == handle # "up"

-----------------------------------------------------------------------------
\* Callers.

\* Writes that register a machine run one at a time for a node, under
\* lock_registration, and in tasks that complete_state_mutation detaches.
Registers(w) == w.kind \in {"put", "rekey"}

RegistrationFree(n) ==
    \A c \in Callers : op[c] # None /\ Registers(op[c]) => op[c].node # n

\* The conditions a caller has checked on the published map: the node of a
\* put is under no other key, a rekeyed or deleted one is there.
Sensible(w) ==
    /\ Registers(w) => RegistrationFree(w.node)
    /\ w.kind = "put" => \A k \in Keys \ {w.to} : store[k] # None => store[k].node # w.node
    /\ w.kind = "rekey" => Found(store, w) = {w.node}
    /\ w.kind = "delete" => Found(store, w) # {}

\* Deletions and updates of many nodes have no async form.
MayAsk(c, w) == w.kind \in {"delete", "many", "approve"} => c \notin Async

\* The caller looks for the queue.
Begin(c, w) ==
    /\ pc[c] = "idle"
    /\ MayAsk(c, w)
    /\ Sensible(w)
    /\ op' = [op EXCEPT ![c] = w]
    /\ pc' = [pc EXCEPT ![c] = IF installed THEN "cloned" ELSE "direct"]
    /\ UNCHANGED <<store, sessions, answer, installed, workerVars, handle>>

\* It sends its write; without a receiver it gets the write back.
Send(c) ==
    /\ pc[c] = "cloned"
    /\ IF worker = "dead"
       THEN pc' = [pc EXCEPT ![c] = "direct"] /\ UNCHANGED queue
       ELSE pc' = [pc EXCEPT ![c] = "waiting"] /\ queue' = Append(queue, c)
    /\ UNCHANGED <<store, sessions, op, answer, installed, batch, worker, replies, handle>>

\* Mutant: a waiting task keeps its sender.
HoldsSenderWaiting(c) == pc[c] \in {"cloned", "waiting", "replied"}

\* A blocked thread keeps the sender it cloned until it has the reply; a task
\* drops it before it waits.
HoldsSender(c) == pc[c] = "cloned" \/ (pc[c] \in {"waiting", "replied"} /\ c \notin Async)

\* The caller applies its write itself.
ApplyDirect(c) ==
    /\ pc[c] = "direct"
    /\ LET at == Course(op, <<c>>, store, sessions)
       IN  store' = at[1].map /\ sessions' = at[1].sessions
    /\ answer' = [answer EXCEPT ![c] = AnswerOf(op, <<c>>, store, 1)]
    /\ pc' = [pc EXCEPT ![c] = "done"]
    /\ UNCHANGED <<op, installed, workerVars, handle>>

\* The reply's sender is gone with the worker.  An update cannot be had back.
LoseReply(c) ==
    /\ pc[c] = "waiting"
    /\ worker = "dead"
    /\ IF op[c].kind \in {"update", "connect", "patch", "many", "approve"}
       THEN /\ pc' = [pc EXCEPT ![c] = "done"]
            /\ answer' = [answer EXCEPT ![c] = {}]
       ELSE /\ pc' = [pc EXCEPT ![c] = "direct"]
            /\ UNCHANGED answer
    /\ UNCHANGED <<store, sessions, op, installed, workerVars, handle>>

\* The request of a waiting task is dropped.  Two updates wait outside a
\* detached task, and both are patches: the one of a map request's hostinfo
\* and endpoints, and touch_last_seen.
Cancel(c) ==
    /\ pc[c] = "waiting"
    /\ c \in Async
    /\ op[c].kind = "patch"
    /\ pc' = [pc EXCEPT ![c] = "gone"]
    /\ UNCHANGED <<store, sessions, op, answer, installed, workerVars, handle>>

\* The caller goes on with its answer.
Resume(c) ==
    /\ pc[c] \in {"replied", "done"}
    /\ pc' = [pc EXCEPT ![c] = "idle"]
    /\ op' = [op EXCEPT ![c] = None]
    /\ answer' = [answer EXCEPT ![c] = None]
    /\ UNCHANGED <<store, sessions, installed, workerVars, handle>>

\* Nothing is left of a dropped request's write.
Forget(c) ==
    /\ pc[c] = "gone"
    /\ worker = "dead"
    /\ pc' = [pc EXCEPT ![c] = "idle"]
    /\ op' = [op EXCEPT ![c] = None]
    /\ UNCHANGED <<store, sessions, answer, installed, workerVars, handle>>

-----------------------------------------------------------------------------
\* The worker.

\* A batch to which a write was added is applied at once.
FlushDue(b) == Len(b) >= BatchSize \/ Stopping

\* Mutant: a wake-up is put into the batch.
ReceiveAny ==
    /\ worker = "recv"
    /\ queue # <<>>
    /\ queue' = Tail(queue)
    /\ batch' = Append(batch, Head(queue))
    /\ worker' = IF FlushDue(batch') THEN "flush" ELSE "recv"
    /\ UNCHANGED <<store, sessions, callerVars, installed, replies, handle>>

\* A wake-up ends the wait for more writes.
Receive ==
    /\ worker = "recv"
    /\ queue # <<>>
    /\ queue' = Tail(queue)
    /\ batch' = IF Head(queue) = Wake THEN batch ELSE Append(batch, Head(queue))
    /\ worker' = IF batch' # <<>> /\ (Head(queue) = Wake \/ FlushDue(batch')) THEN "flush" ELSE "recv"
    /\ UNCHANGED <<store, sessions, callerVars, installed, replies, handle>>

\* Mutant: an open batch waits for more writes or for the stop.
TickOnStop ==
    /\ worker = "recv"
    /\ batch # <<>>
    /\ queue = <<>>
    /\ Stopping
    /\ worker' = "flush"
    /\ UNCHANGED <<store, sessions, callerVars, installed, queue, batch, replies, handle>>

\* The ticker ticks over an open batch.
Tick ==
    /\ worker = "recv"
    /\ batch # <<>>
    /\ queue = <<>>
    /\ worker' = "flush"
    /\ UNCHANGED <<store, sessions, callerVars, installed, queue, batch, replies, handle>>

\* Every sender is gone.  The open batch is applied before the worker ends.
Disconnect ==
    /\ worker = "recv"
    /\ queue = <<>>
    /\ ~installed
    /\ handle \in {"joining", "dropped"}
    /\ \A c \in Callers : ~HoldsSender(c)
    /\ worker' = IF batch # <<>> THEN "flush" ELSE "exited"
    /\ UNCHANGED <<store, sessions, callerVars, installed, queue, batch, replies, handle>>

\* Mutant: the last write decides whether the map is published.
PublishedByLast(q) ==
    LET at == Course(op, q, store, sessions)
    IN  Publishes(at[Len(q) - 1].map, op[q[Len(q)]])

\* publish_snapshot, after the writes of q.
Published(q) ==
    LET at == Course(op, q, store, sessions)
    IN  \E i \in DOMAIN q : Publishes(at[i - 1].map, op[q[i]])

\* apply_nodestore_write_batch, up to the release of the writer lock.
ApplyBatch ==
    /\ worker = "flush"
    /\ LET at == Course(op, batch, store, sessions)
       IN  /\ store' = IF Published(batch) THEN at[Len(batch)].map ELSE store
           /\ sessions' = at[Len(batch)].sessions
    /\ replies' = [i \in DOMAIN batch |->
                      [to |-> batch[i],
                       answer |-> AnswerOf(op, batch, store, i),
                       notice |-> NoticeOf(op, batch, store, i)]]
    /\ batch' = <<>>
    /\ worker' = "reply"
    /\ UNCHANGED <<callerVars, installed, queue, handle>>

\* The next completion: its change is announced, its caller gets its answer.
Reply ==
    /\ worker = "reply"
    /\ LET r == Head(replies)
       IN  IF pc[r.to] = "gone"
           THEN /\ pc' = [pc EXCEPT ![r.to] = "idle"]
                /\ op' = [op EXCEPT ![r.to] = None]
                /\ UNCHANGED answer
           ELSE /\ pc' = [pc EXCEPT ![r.to] = "replied"]
                /\ answer' = [answer EXCEPT ![r.to] = r.answer]
                /\ UNCHANGED op
    /\ replies' = Tail(replies)
    /\ worker' = IF Tail(replies) = <<>> THEN "recv" ELSE "reply"
    /\ UNCHANGED <<store, sessions, installed, queue, batch, handle>>

\* An update panics in the worker: the map it was working on is not published,
\* the writes it had taken and the queued ones are lost with their replies.
\* What the writes so far did to the stream state stays.
Panic ==
    /\ worker = "flush"
    /\ \E i \in 0 .. Len(batch) - 1 :
          sessions' = Course(op, batch, store, sessions)[i].sessions
    /\ worker' = "dead"
    /\ queue' = <<>>
    /\ batch' = <<>>
    /\ UNCHANGED <<store, callerVars, installed, replies, handle>>

-----------------------------------------------------------------------------
\* The handle is dropped.

Stop ==
    /\ handle = "up"
    /\ handle' = "flagged"
    /\ UNCHANGED <<store, sessions, callerVars, installed, workerVars>>

SendWake ==
    /\ handle = "flagged"
    /\ queue' = IF worker = "dead" THEN queue ELSE Append(queue, Wake)
    /\ handle' = "woken"
    /\ UNCHANGED <<store, sessions, callerVars, installed, batch, worker, replies>>

\* The queue leaves the registry, and the handle lets its sender go.
Retire ==
    /\ handle = "woken"
    /\ installed' = FALSE
    /\ handle' = "joining"
    /\ UNCHANGED <<store, sessions, callerVars, workerVars>>

Join ==
    /\ handle = "joining"
    /\ worker \in {"exited", "dead"}
    /\ handle' = "dropped"
    /\ UNCHANGED <<store, sessions, callerVars, installed, workerVars>>

-----------------------------------------------------------------------------

Init ==
    /\ store = [k \in Keys |-> None]
    /\ sessions = {}
    /\ op = [c \in Callers |-> None]
    /\ pc = [c \in Callers |-> "idle"]
    /\ answer = [c \in Callers |-> None]
    /\ installed = TRUE
    /\ queue = <<>>
    /\ batch = <<>>
    /\ worker = "recv"
    /\ replies = <<>>
    /\ handle = "up"

CallerStep(c) ==
    \/ \E w \in Writes : Begin(c, w)
    \/ Send(c)
    \/ ApplyDirect(c)
    \/ LoseReply(c)
    \/ Cancel(c)
    \/ Resume(c)
    \/ Forget(c)

WorkerStep == Receive \/ Tick \/ Disconnect \/ ApplyBatch \/ Reply \/ Panic

DropStep == Stop \/ SendWake \/ Retire \/ Join

Next == (\E c \in Callers : CallerStep(c)) \/ WorkerStep \/ DropStep

Spec == Init /\ [][Next]_vars

\* Threads run, and so do tasks while no join blocks the runtime's only
\* thread.  The ticker is left out: its period may be as long as one likes.
Fairness ==
    /\ WF_vars(Receive) /\ WF_vars(Disconnect) /\ WF_vars(ApplyBatch) /\ WF_vars(Reply)
    /\ WF_vars(SendWake) /\ WF_vars(Retire) /\ WF_vars(Join)
    /\ \A c \in Callers :
          /\ WF_vars(Send(c)) /\ WF_vars(ApplyDirect(c)) /\ WF_vars(LoseReply(c))
          /\ WF_vars((c \in Async => handle # "joining") /\ Resume(c))

FairSpec == Spec /\ Fairness

-----------------------------------------------------------------------------

\* The shape of the state; a batch never outgrows its size, and holds no
\* wake-up.
TypeOK ==
    /\ store \in Map
    /\ sessions \subseteq Nodes
    /\ op \in [Callers -> Writes \cup {None}]
    /\ pc \in [Callers -> {"idle", "cloned", "direct", "waiting", "gone", "replied", "done"}]
    /\ answer \in [Callers -> (SUBSET Nodes) \cup {None}]
    /\ installed \in BOOLEAN
    /\ queue \in Seq(Callers \cup {Wake})
    /\ batch \in Seq(Callers) /\ Len(batch) <= BatchSize
    /\ worker \in {"recv", "flush", "reply", "exited", "dead"}
    /\ replies \in Seq([to : Callers, answer : SUBSET Nodes, notice : SUBSET Nodes])
    /\ handle \in {"up", "flagged", "woken", "joining", "dropped"}

\* The answer the worker has yet to send to c.
Owed(c) == {replies[i].answer : i \in {j \in DOMAIN replies : replies[j].to = c}}

Abstract == INSTANCE NodeStore WITH
    call <- op,
    answer <- [c \in Callers |->
                  IF Owed(c) # {} THEN CHOOSE a \in Owed(c) : TRUE ELSE answer[c]]

\* The write path keeps the promises of NodeStore: every registration,
\* rekeying and deletion happens exactly once before its caller returns, by
\* the worker or by the caller itself, whatever batches, stops and panics come
\* between; an update is answered by what it did.
WritesAtomic == Abstract!Spec

\* What is told after a batch is true of the map it published.
\*
\* An update, a connect, a rekeying or an update of many tells, by its answer
\* and by the change it announces, only of nodes that are in that map, and it
\* reports every node it found that is; the ids that a route approval returns
\* are the subject of ApprovalsSkipAbsent.  The other writes are not looked at
\* again: the answer of a put, of a delete and of a patch, and the change that
\* a patch announces, may name a node that is gone, but then one which that
\* write or a later one of the batch took out of the map.
\*
\* And what a write did to a key is lost to later writes of its batch alone:
\* the key is free, or its record was written last by it or by one of them.
\* An update whose node was deleted and registered again behind it is told
\* that it took effect; it did, and the registration went over it.
ToldIsTrue ==
    [][ApplyBatch => \A i \in DOMAIN batch :
          LET w == op[batch[i]]
              After(j) == MapAfter(op, SubSeq(batch, 1, j), store)
              told == replies'[i].answer \cup replies'[i].notice
          IN  /\ NeedsPresence(w) /\ w.kind # "approve" => told \subseteq Present(store')
              /\ w.kind \in {"update", "connect", "many"} =>
                    Found(After(i - 1), w) \cap Present(store') \subseteq replies'[i].answer
              /\ \A n \in told \ Present(store') : \E j \in i .. Len(batch) :
                    n \in Present(After(j - 1)) /\ n \notin Present(After(j))
              /\ \A k \in Keys : k \in w.keys \cup {w.to} /\ store'[k] # None =>
                    store'[k].by \in {batch[j] : j \in i .. Len(batch)}]_vars

\* apply_policy_route_approvals skips the nodes that are absent after its
\* batch: it returns only ids of nodes that are still there.  It does not,
\* when all of them were removed.
ApprovalsSkipAbsent ==
    [][replies = <<>> => \A i \in DOMAIN replies' :
          op[replies'[i].to].kind = "approve" => replies'[i].answer \subseteq Present(store')]_vars

\* A session outlives a batch only on a node that no write of it removed, and
\* a new one only on a node that none removed afterwards: one removed and
\* registered again in the same batch starts without sessions.
SessionsOfIncarnation ==
    [][ApplyBatch => \A n \in sessions' :
          \E i \in 0 .. Len(batch) :
             /\ IF i = 0 THEN n \in sessions
                ELSE op[batch[i]].kind = "connect"
             /\ \A j \in i .. Len(batch) :
                   n \in Present(MapAfter(op, SubSeq(batch, 1, j), store))]_vars

\* Without a single tick, whose period may be a year, dropping the handle ends,
\* although a task cannot run while the drop waits for the worker, and a full
\* batch is applied without another write.
TickNotNeeded ==
    /\ handle = "flagged" ~> handle = "dropped"
    /\ Len(batch) = BatchSize ~> batch = <<>>

\* While the ticker ticks a caller that asked gets an answer, unless its
\* request was dropped.
CallsAnswered ==
    WF_vars(Tick) => \A c \in Callers : pc[c] \in {"cloned", "direct", "waiting"} ~> pc[c] \in {"replied", "done", "gone"}
=============================================================================
