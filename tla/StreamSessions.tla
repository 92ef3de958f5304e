--------------------------- MODULE StreamSessions ---------------------------
(***************************************************************************)
(* Map-stream sessions and the ephemeral-node garbage collector of         *)
(* tailscale_wire/mod.rs, with the parts of the /map handler, of node      *)
(* deletion and of native shutdown that race with them.                    *)
(*                                                                         *)
(* A node keeps a session epoch (an Arc compared by identity) from its     *)
(* first stream, or GC timer, until it leaves the NodeStore.  Guards,      *)
(* release tasks and timers remember the epoch they belong to, so that     *)
(* after the node was deleted and registered again they do not touch its   *)
(* successor.  Like addresses of Arcs, epoch values are reused, but only   *)
(* once nobody holds them; the same goes for timer generations.            *)
(*                                                                         *)
(* A step is one critical section.  The NodeStore writer (inner.write)     *)
(* runs the acquisition, release and removal closures; a task that is      *)
(* installing a timer holds inner.read, which keeps the writer out.        *)
(***************************************************************************)
EXTENDS Integers, FiniteSets

CONSTANTS
    Nodes,      \* node ids; a node's node key and machine key go with it
    Ephemeral,  \* the nodes registered as ephemeral
    Conns,      \* concurrent map-stream requests
    Gens,       \* GC timers alive at once
    Epochs,     \* session epochs alive at once
    None        \* no epoch, no timer, no lock owner

ASSUME EphemeralAssumption == Ephemeral \subseteq Nodes
ASSUME NoneAssumption ==
    /\ None \notin Nodes
    /\ None \notin Gens
    /\ None \notin Epochs
    /\ None \notin Conns
    /\ Conns \cap Gens = {}
ASSUME ConnsAssumption == IsFiniteSet(Conns)

VARIABLES
    present,    \* node -> it is in the NodeStore
    expiry,     \* node -> its key is "valid", "lapsed" or, once the waker saw it, "swept"
    epoch,      \* stream_session_epochs
    active,     \* active_connections
    sessions,   \* state_sessions
    online,     \* online_states
    lock,       \* node -> who holds its machine's registration lock
    conn,       \* stream -> [pc, node, epoch, cancelled]
    timers,     \* node -> the generation of its timer
    task,       \* generation -> [pc, node, epoch]
    gcClosed,   \* EphemeralNodeGc.closed
    closing,    \* NativeShutdown.closing
    shutdown,   \* start-up, then the progress of shutdown_native_streams
    stale       \* history: node -> rekeyed, or its collection failed, since it last connected

nodeVars == <<present, expiry>>
sessionVars == <<epoch, active, sessions, online>>
gcVars == <<timers, task, gcClosed, stale>>
stopVars == <<closing, shutdown>>
vars == <<nodeVars, sessionVars, lock, conn, gcVars, stopVars>>

IdleConn == [pc |-> "none", node |-> None, epoch |-> None, cancelled |-> FALSE]
IdleTask == [pc |-> "none", node |-> None, epoch |-> None]

-----------------------------------------------------------------------------

\* Streams with a guard that has not been dropped: their cancel flags are
\* in stream_cancel_flags.
Streaming(c) == conn[c].pc \in {"acquired", "open"}

\* Nobody holds inner.read across steps, so the writer can run.
WriterFree == \A c \in Conns : conn[c].pc # "arming"

EpochsInUse ==
    {epoch[n] : n \in Nodes} \cup {conn[c].epoch : c \in Conns}
        \cup {task[g].epoch : g \in Gens}

\* entry(node_id).or_insert_with(|| Arc::new(())): the node's epoch, or one
\* that nobody compares equal to.
EpochFor(n) == IF epoch[n] # None THEN {epoch[n]} ELSE Epochs \ EpochsInUse

\* Mutant: any epoch of the node will do.
EpochMatchesNode(c) == epoch[conn[c].node] # None

\* What a guard may still change: stream_epoch_matches.
EpochMatches(c) == conn[c].epoch # None /\ epoch[conn[c].node] = conn[c].epoch

ConnDone(c) == [conn EXCEPT ![c] = IdleConn]

\* EphemeralNodeGc::cancel, also used by retire and abort_all: the timer is
\* forgotten and its task aborted.  A task that is already running past its
\* last await is not stopped by that, but then fails to claim the timer.
TaskAborted(g) == IF g = None THEN task ELSE [task EXCEPT ![g] = IdleTask]

CancelTimer(n) ==
    /\ timers' = [timers EXCEPT ![n] = None]
    /\ task' = TaskAborted(timers[n])

\* Mutant: nobody waits for the machine's registration lock.
RegistrationUnlocked(n) == TRUE

\* lock_registration is granted.
RegistrationFree(n) == lock[n] = None

\* Requests are handled and background tasks run; they go on after a
\* shutdown has begun.
Serving == shutdown # "booting"

-----------------------------------------------------------------------------
\* Connecting: map_inner holds the registration lock from the look-up until
\* the guard exists and the GC timer is cancelled.

\* begin_native_work and lock_registration; a missing node is answered with
\* an error and leaves no trace.
StartConnect(c, n) ==
    /\ conn[c].pc = "none"
    /\ Serving
    /\ ~closing
    /\ RegistrationFree(n)
    /\ present[n]
    /\ lock' = [lock EXCEPT ![n] = c]
    /\ conn' = [conn EXCEPT ![c] = [IdleConn EXCEPT !.pc = "locked", !.node = n]]
    /\ UNCHANGED <<nodeVars, sessionVars, gcVars, stopVars>>

\* The owned mutation ends early: the record's update could not be saved.
ConnectFails(c) ==
    /\ conn[c].pc = "locked"
    /\ lock' = [lock EXCEPT ![conn[c].node] = None]
    /\ conn' = ConnDone(c)
    /\ UNCHANGED <<nodeVars, sessionVars, gcVars, stopVars>>

\* Mutant: a closing server is noticed only by begin_native_work.
AdmissiblePresent(n) == present[n]

\* What the acquisition closure asks before it takes a session.
Admissible(n) == present[n] /\ ~closing

\* The acquisition closure, run by the NodeStore writer.
Acquire(c) ==
    LET n == conn[c].node
    IN  /\ conn[c].pc = "locked"
        /\ WriterFree
        /\ Admissible(n)
        /\ \E e \in EpochFor(n) :
              /\ epoch' = [epoch EXCEPT ![n] = e]
              /\ conn' = [conn EXCEPT ![c].pc = "acquired", ![c].epoch = e]
        /\ active' = [active EXCEPT ![n] = @ + 1]
        /\ sessions' = [sessions EXCEPT ![n] = @ + 1]
        /\ online' = [online EXCEPT ![n] = expiry[n] = "valid"]
        /\ stale' = [stale EXCEPT ![n] = FALSE]
        /\ UNCHANGED <<nodeVars, lock, timers, task, gcClosed, stopVars>>

\* The closure refuses: the request gets no guard.
AcquireRefused(c) ==
    LET n == conn[c].node
    IN  /\ conn[c].pc = "locked"
        /\ WriterFree
        /\ ~Admissible(n)
        /\ lock' = [lock EXCEPT ![n] = None]
        /\ conn' = ConnDone(c)
        /\ UNCHANGED <<nodeVars, sessionVars, gcVars, stopVars>>

\* finish_stream_connection: the GC timer goes after the stream is counted.
FinishConnect(c) ==
    LET n == conn[c].node
    IN  /\ conn[c].pc = "acquired"
        /\ IF n \in Ephemeral /\ present[n] THEN CancelTimer(n) ELSE UNCHANGED <<timers, task>>
        /\ conn' = [conn EXCEPT ![c].pc = "open"]
        /\ lock' = [lock EXCEPT ![n] = None]
        /\ UNCHANGED <<nodeVars, sessionVars, gcClosed, stale, stopVars>>

-----------------------------------------------------------------------------
\* Disconnecting.

\* Mutant: the guard gives its connection back to whoever has the node id.
DropGuardUnowned(c) ==
    /\ conn[c].pc = "open"
    /\ active' = [active EXCEPT ![conn[c].node] = @ - 1]
    /\ conn' = [conn EXCEPT ![c].pc = "releasing"]
    /\ UNCHANGED <<nodeVars, epoch, sessions, online, lock, gcVars, stopVars>>

\* The guard is dropped, because the client left or the stream saw its
\* cancel flag: release_stream_connection, then the release of the state
\* session is scheduled (after up to the reconnect grace).  The code
\* saturates at 0; CountsMatch shows that it never has to.
DropGuard(c) ==
    LET n == conn[c].node
    IN  /\ conn[c].pc = "open"
        /\ IF EpochMatches(c)
           THEN /\ active' = [active EXCEPT ![n] = @ - 1]
                /\ conn' = [conn EXCEPT ![c].pc = "releasing"]
           ELSE /\ active' = active
                /\ conn' = ConnDone(c)
        /\ UNCHANGED <<nodeVars, epoch, sessions, online, lock, gcVars, stopVars>>

\* Mutant: only a node that is online goes offline.
LastSessionOnline(n) == sessions[n] = 1 /\ online[n]

\* The session being released is the node's last one, whether or not expiry
\* has put the node offline already.
LastSession(n) == sessions[n] = 1

\* release_state_session_in_epoch: the grace is over, or was skipped.
Release(c) ==
    LET n == conn[c].node
        last == LastSession(n)
    IN  /\ conn[c].pc = "releasing"
        /\ WriterFree
        /\ IF EpochMatches(c) /\ present[n]
           THEN /\ sessions' = [sessions EXCEPT ![n] = @ - 1]
                /\ online' = IF last THEN [online EXCEPT ![n] = FALSE] ELSE online
                /\ conn' = IF last THEN [conn EXCEPT ![c].pc = "offline"] ELSE ConnDone(c)
           ELSE /\ UNCHANGED <<sessions, online>>
                /\ conn' = ConnDone(c)
        /\ UNCHANGED <<nodeVars, epoch, active, lock, gcVars, stopVars>>

\* dispatch_state_disconnect after LastSeen was saved, up to the point in
\* schedule_owned where the timer map is locked.  The read guard is kept.
DispatchDisconnect(c) ==
    LET n == conn[c].node
        mine == EpochMatches(c) /\ present[n]
    IN  /\ conn[c].pc = "offline"
        /\ IF mine /\ ~gcClosed /\ n \in Ephemeral /\ sessions[n] = 0
           THEN /\ conn' = [conn EXCEPT ![c].pc = "arming"]
                /\ UNCHANGED <<timers, task>>
           ELSE /\ conn' = ConnDone(c)
                /\ IF mine /\ ~gcClosed THEN CancelTimer(n) ELSE UNCHANGED <<timers, task>>
        /\ UNCHANGED <<nodeVars, sessionVars, lock, gcClosed, stale, stopVars>>

\* The second look at closed, under the timers lock.
TimerAllowed == ~gcClosed

\* The rest of schedule_owned: replace the timer under the timers lock.
InstallTimer(c) ==
    LET n == conn[c].node
    IN  /\ conn[c].pc = "arming"
        /\ IF TimerAllowed
           THEN \E g \in Gens :
                   /\ task[g].pc = "none"
                   /\ timers' = [timers EXCEPT ![n] = g]
                   /\ task' = [TaskAborted(timers[n]) EXCEPT
                                 ![g] = [pc |-> "sleeping", node |-> n,
                                         epoch |-> conn[c].epoch]]
           ELSE UNCHANGED <<timers, task>>
        /\ conn' = ConnDone(c)
        /\ UNCHANGED <<nodeVars, sessionVars, lock, gcClosed, stale, stopVars>>

\* schedule_existing, for one node, called once after the persisted nodes
\* were loaded and before anything is served.
ScheduleExisting(n) ==
    /\ shutdown = "booting"
    /\ n \in Ephemeral
    /\ present[n]
    /\ epoch[n] = None
    /\ \E e \in EpochFor(n), g \in Gens :
          /\ task[g].pc = "none"
          /\ epoch' = [epoch EXCEPT ![n] = e]
          /\ timers' = [timers EXCEPT ![n] = g]
          /\ task' = [task EXCEPT ![g] = [pc |-> "sleeping", node |-> n, epoch |-> e]]
    /\ UNCHANGED <<nodeVars, active, sessions, online, lock, conn, gcClosed,
                   stale, stopVars>>

\* The listeners and the expiry waker start.
Serve ==
    /\ shutdown = "booting"
    /\ \A n \in Ephemeral : present[n] => epoch[n] # None
    /\ shutdown' = "running"
    /\ UNCHANGED <<nodeVars, sessionVars, lock, conn, gcVars, closing>>

-----------------------------------------------------------------------------
\* EphemeralNodeGc::fire.

\* The timeout is over; the task queues for the machine's lock, its timer
\* still cancellable.
Fire(g) ==
    /\ task[g].pc = "sleeping"
    /\ task' = IF gcClosed \/ timers[task[g].node] # g
               THEN [task EXCEPT ![g] = IdleTask]
               ELSE [task EXCEPT ![g].pc = "waiting"]
    /\ UNCHANGED <<nodeVars, sessionVars, lock, conn, timers, gcClosed, stale, stopVars>>

\* With the lock: claim the timer and look at everything again.
Claim(g) ==
    LET n == task[g].node
        go == /\ timers[n] = g
              /\ ~gcClosed
              /\ epoch[n] = task[g].epoch
              /\ present[n]
              /\ active[n] = 0
              /\ n \in Ephemeral
    IN  /\ task[g].pc = "waiting"
        /\ RegistrationFree(n)
        /\ timers' = IF timers[n] = g THEN [timers EXCEPT ![n] = None] ELSE timers
        /\ task' = IF go THEN [task EXCEPT ![g].pc = "claimed"] ELSE [task EXCEPT ![g] = IdleTask]
        /\ lock' = IF go THEN [lock EXCEPT ![n] = g] ELSE lock
        /\ UNCHANGED <<nodeVars, sessionVars, conn, gcClosed, stale, stopVars>>

\* store.destroy of complete_guarded_native_node_deletion succeeds ...
GcDestroyRow(g) ==
    /\ task[g].pc = "claimed"
    /\ task' = [task EXCEPT ![g].pc = "destroyed"]
    /\ UNCHANGED <<nodeVars, sessionVars, lock, conn, timers, gcClosed, stale, stopVars>>

\* ... or fails: the deletion is given up, its timer already spent.
GcDestroyFails(g) ==
    LET n == task[g].node
    IN  /\ task[g].pc = "claimed"
        /\ task' = [task EXCEPT ![g] = IdleTask]
        /\ lock' = [lock EXCEPT ![n] = None]
        /\ stale' = [stale EXCEPT ![n] = TRUE]
        /\ UNCHANGED <<nodeVars, sessionVars, conn, timers, gcClosed, stopVars>>

-----------------------------------------------------------------------------
\* A node leaves the NodeStore: in the same writer step
\* retire_absent_stream_state forgets everything its epoch owned, aborts
\* its timer and sets the cancel flags of its streams.

RetiredConns(n) ==
    [c \in Conns |->
        IF Streaming(c) /\ conn[c].node = n THEN [conn[c] EXCEPT !.cancelled = TRUE]
        ELSE conn[c]]

\* Mutant: retirement leaves the timers alone.
RetainedTimers(n) == timers

\* retire_absent_timers.
RetiredTimers(n) == [timers EXCEPT ![n] = None]

RemoveNode(n) ==
    /\ WriterFree
    /\ present' = [present EXCEPT ![n] = FALSE]
    /\ epoch' = [epoch EXCEPT ![n] = None]
    /\ active' = [active EXCEPT ![n] = 0]
    /\ sessions' = [sessions EXCEPT ![n] = 0]
    /\ online' = [online EXCEPT ![n] = FALSE]
    /\ timers' = RetiredTimers(n)
    /\ conn' = RetiredConns(n)
    /\ UNCHANGED <<gcClosed, stopVars>>

\* Mutant: the row is gone but the node stays in the NodeStore.
GcRemoveRowOnly(g) ==
    /\ task[g].pc = "destroyed"
    /\ task' = [task EXCEPT ![g] = IdleTask]
    /\ lock' = [lock EXCEPT ![task[g].node] = None]
    /\ UNCHANGED <<nodeVars, sessionVars, conn, timers, gcClosed, stale, stopVars>>

\* remove_node_quiet after the row is gone; try_delete_gc_owned then finds
\* the epoch retired and changes nothing.
GcRemove(g) ==
    LET n == task[g].node
    IN  /\ task[g].pc = "destroyed"
        /\ RemoveNode(n)
        /\ task' = [TaskAborted(timers[n]) EXCEPT ![g] = IdleTask]
        /\ lock' = [lock EXCEPT ![n] = None]
        /\ UNCHANGED <<expiry, stale>>

\* Deletion by an administrator, a logout or another registration: under the
\* same machine lock, row first.
DeleteNode(n) ==
    /\ Serving
    /\ RegistrationFree(n)
    /\ present[n]
    /\ RemoveNode(n)
    /\ task' = TaskAborted(timers[n])
    /\ UNCHANGED <<expiry, lock, stale>>

\* A registration, under the machine lock: a new node, without an epoch.
Register(n) ==
    /\ Serving
    /\ RegistrationFree(n)
    /\ WriterFree
    /\ ~present[n]
    /\ present' = [present EXCEPT ![n] = TRUE]
    /\ expiry' = [expiry EXCEPT ![n] = "valid"]
    /\ stale' = [stale EXCEPT ![n] = FALSE]
    /\ UNCHANGED <<sessionVars, lock, conn, timers, task, gcClosed, stopVars>>

\* A registration of the same machine rotates the node key, by which timers
\* are known; the node and its streams stay, and so does online_states, even
\* when the registration gave an expired node a new expiry.
Rekey(n) ==
    /\ Serving
    /\ RegistrationFree(n)
    /\ WriterFree
    /\ present[n]
    /\ CancelTimer(n)
    /\ expiry' = [expiry EXCEPT ![n] = "valid"]
    /\ stale' = [stale EXCEPT ![n] = TRUE]
    /\ UNCHANGED <<present, sessionVars, lock, conn, gcClosed, stopVars>>

\* update_online_after_expiry.
OnlineAfterExpiry(n, x) == sessions[n] > 0 /\ x = "valid"

\* An administrator extends the key or expires it now.
SetExpiry(n, x) ==
    /\ Serving
    /\ present[n]
    /\ WriterFree
    /\ expiry' = [expiry EXCEPT ![n] = x]
    /\ online' = [online EXCEPT ![n] = OnlineAfterExpiry(n, x)]
    /\ UNCHANGED <<present, epoch, active, sessions, lock, conn, gcVars, stopVars>>

\* Time reaches the key's expiry.
KeyLapses(n) ==
    /\ present[n]
    /\ expiry[n] = "valid"
    /\ expiry' = [expiry EXCEPT ![n] = "lapsed"]
    /\ UNCHANGED <<present, sessionVars, lock, conn, gcVars, stopVars>>

\* wake_expired_nodes_between: the closure looks at the record again, so an
\* expiry edited after the candidates were chosen is left alone.
WakeExpired(n) ==
    /\ Serving
    /\ present[n]
    /\ WriterFree
    /\ expiry[n] = "lapsed"
    /\ expiry' = [expiry EXCEPT ![n] = "swept"]
    /\ online' = [online EXCEPT ![n] = FALSE]
    /\ UNCHANGED <<present, epoch, active, sessions, lock, conn, gcVars, stopVars>>

-----------------------------------------------------------------------------
\* shutdown_native_streams: close the GC (flag first, then the timers), mark
\* closing and cancel the streams in one writer section, wait for the work.

CloseGc ==
    /\ shutdown = "running"
    /\ shutdown' = "closingGc"
    /\ gcClosed' = TRUE
    /\ UNCHANGED <<nodeVars, sessionVars, lock, conn, timers, task, stale, closing>>

AbortTimers ==
    /\ shutdown = "closingGc"
    /\ shutdown' = "gcClosed"
    /\ timers' = [n \in Nodes |-> None]
    /\ task' = [g \in Gens |->
                   IF \E n \in Nodes : timers[n] = g THEN IdleTask ELSE task[g]]
    /\ UNCHANGED <<nodeVars, sessionVars, lock, conn, gcClosed, stale, closing>>

\* Mutant: the sweep over stream_cancel_flags is missing.
UncancelledConns == conn

\* The sweep over stream_cancel_flags.
CancelledConns ==
    [c \in Conns |-> IF Streaming(c) THEN [conn[c] EXCEPT !.cancelled = TRUE] ELSE conn[c]]

MarkClosing ==
    /\ shutdown = "gcClosed"
    /\ WriterFree
    /\ shutdown' = "draining"
    /\ closing' = TRUE
    /\ conn' = CancelledConns
    /\ UNCHANGED <<nodeVars, sessionVars, lock, gcVars>>

\* drained(): every NativeWork token is dropped.  A request holds one from
\* begin_native_work until its disconnect has been dispatched.
Drained ==
    /\ shutdown = "draining"
    /\ \A c \in Conns : conn[c].pc = "none"
    /\ shutdown' = "done"
    /\ UNCHANGED <<nodeVars, sessionVars, lock, conn, gcVars, closing>>

-----------------------------------------------------------------------------

\* Persisted nodes are loaded before the server starts.
Init ==
    /\ present \in [Nodes -> BOOLEAN]
    /\ expiry = [n \in Nodes |-> "valid"]
    /\ epoch = [n \in Nodes |-> None]
    /\ active = [n \in Nodes |-> 0]
    /\ sessions = [n \in Nodes |-> 0]
    /\ online = [n \in Nodes |-> FALSE]
    /\ lock = [n \in Nodes |-> None]
    /\ conn = [c \in Conns |-> IdleConn]
    /\ timers = [n \in Nodes |-> None]
    /\ task = [g \in Gens |-> IdleTask]
    /\ gcClosed = FALSE
    /\ closing = FALSE
    /\ shutdown = "booting"
    /\ stale = [n \in Nodes |-> FALSE]

ConnStep(c) ==
    \/ ConnectFails(c)
    \/ Acquire(c)
    \/ AcquireRefused(c)
    \/ FinishConnect(c)
    \/ Release(c)
    \/ DispatchDisconnect(c)
    \/ InstallTimer(c)

GcStep(g) ==
    \/ Fire(g)
    \/ Claim(g)
    \/ GcDestroyRow(g)
    \/ GcRemove(g)

Stop == CloseGc \/ AbortTimers \/ MarkClosing \/ Drained

Next ==
    \/ \E c \in Conns :
          \/ \E n \in Nodes : StartConnect(c, n)
          \/ ConnStep(c)
          \/ DropGuard(c)
    \/ \E g \in Gens : GcStep(g) \/ GcDestroyFails(g)
    \/ \E n \in Nodes :
          \/ ScheduleExisting(n)
          \/ DeleteNode(n)
          \/ Register(n)
          \/ Rekey(n)
          \/ KeyLapses(n)
          \/ WakeExpired(n)
          \/ \E x \in {"valid", "lapsed"} : SetExpiry(n, x)
    \/ Serve
    \/ Stop

Spec == Init /\ [][Next]_vars

\* Spawned tasks run to the end, a stream polls its cancel flag, timers
\* expire and the writer lock is handed out; nobody has to stop the server,
\* delete a node or leave, but a shutdown that has begun goes on.  A timer
\* waiting for the registration lock gets it in the end, however many
\* requests take it in between: tokio's mutex is first come, first served.
Fairness ==
    /\ \A c \in Conns :
          /\ WF_vars(ConnStep(c))
          /\ WF_vars(conn[c].cancelled /\ DropGuard(c))
    /\ \A g \in Gens : WF_vars(GcStep(g) \/ GcDestroyFails(g)) /\ SF_vars(Claim(g))
    /\ WF_vars(AbortTimers \/ MarkClosing \/ Drained)

FairSpec == Spec /\ Fairness

-----------------------------------------------------------------------------

ConnType ==
    [pc : {"none", "locked", "acquired", "open", "releasing", "offline", "arming"},
     node : Nodes \cup {None}, epoch : Epochs \cup {None}, cancelled : BOOLEAN]

TaskType ==
    [pc : {"none", "sleeping", "waiting", "claimed", "destroyed"},
     node : Nodes \cup {None}, epoch : Epochs \cup {None}]

\* The shape of the state; the two counters never go below 0.
TypeOK ==
    /\ present \in [Nodes -> BOOLEAN]
    /\ expiry \in [Nodes -> {"valid", "lapsed", "swept"}]
    /\ epoch \in [Nodes -> Epochs \cup {None}]
    /\ active \in [Nodes -> Nat]
    /\ sessions \in [Nodes -> Nat]
    /\ online \in [Nodes -> BOOLEAN]
    /\ lock \in [Nodes -> Conns \cup Gens \cup {None}]
    /\ conn \in [Conns -> ConnType]
    /\ timers \in [Nodes -> Gens \cup {None}]
    /\ task \in [Gens -> TaskType]
    /\ gcClosed \in BOOLEAN
    /\ closing \in BOOLEAN
    /\ shutdown \in {"booting", "running", "closingGc", "gcClosed", "draining", "done"}
    /\ stale \in [Nodes -> BOOLEAN]

\* The streams whose pc is in P and that belong to the node's present epoch.
Held(n, P) ==
    {c \in Conns :
        /\ conn[c].pc \in P
        /\ conn[c].node = n
        /\ conn[c].epoch # None
        /\ conn[c].epoch = epoch[n]}

\* active_connections and state_sessions count exactly the guards, and the
\* guards with the releases still owed, of the node's present incarnation:
\* none is counted twice, lost, or taken from a successor of the node.
CountsMatch ==
    \A n \in Nodes :
        /\ active[n] = Cardinality(Held(n, {"acquired", "open"}))
        /\ sessions[n] = Cardinality(Held(n, {"acquired", "open", "releasing"}))

\* online_states says what sessions and the key's expiry say, except that a
\* key that lapsed is noticed by the waker only later, and a node that
\* registered again may have to connect again to be online.
OnlineMatchesSessions ==
    \A n \in Nodes :
        /\ expiry[n] = "valid" /\ sessions[n] > 0 /\ ~stale[n] => online[n]
        /\ expiry[n] = "swept" => ~online[n]
        /\ online[n] => present[n] /\ sessions[n] > 0

\* What the registry says of a node's presence, its two counters and its
\* online state, is what its streams say.
PresenceMatches == CountsMatch /\ OnlineMatchesSessions

\* A stream of an earlier incarnation of its node has been told to stop, and
\* once the server is closing so has every stream, also one that was being
\* admitted while the others were told.
StreamsToldToStop ==
    \A c \in Conns :
        Streaming(c) /\ (closing \/ conn[c].epoch # epoch[conn[c].node]) => conn[c].cancelled

\* A timer belongs to a node in the NodeStore, and while the collector is open
\* to a live task that works for the node's present incarnation.  abort_all is
\* final: no timer is installed behind its back.
TimersOwned ==
    \A n \in Nodes :
        timers[n] # None =>
            /\ present[n]
            /\ shutdown \notin {"gcClosed", "draining", "done"}
            /\ ~gcClosed => /\ task[timers[n]].pc \in {"sleeping", "waiting"}
                            /\ task[timers[n]].node = n
                            /\ task[timers[n]].epoch = epoch[n]

\* No node with a stream is being deleted by the collector, from the moment
\* the timer is claimed until the node is gone.
GcSparesConnected ==
    \A g \in Gens :
        task[g].pc \in {"claimed", "destroyed"} =>
            Held(task[g].node, {"acquired", "open"}) = {}

\* An ephemeral node that had a stream and has none left is not forgotten by
\* the collector: it has a timer, or a task on the way to install one or to
\* delete the node.
IdleEphemeralTracked ==
    \A n \in Ephemeral :
        /\ present[n]
        /\ epoch[n] # None
        /\ sessions[n] = 0
        /\ ~gcClosed
        /\ ~stale[n]
        => \/ timers[n] # None
           \/ Held(n, {"offline", "arming"}) # {}
           \/ \E g \in Gens :
                 task[g].node = n /\ task[g].pc \in {"claimed", "destroyed"}

\* A shutdown that has begun comes to an end: nothing holds a work token for
\* ever.
ShutdownCompletes == shutdown = "closingGc" ~> shutdown = "done"

\* A node with a timer is deleted, unless it is used again or the collector
\* gives up on it.
IdleEphemeralCollected ==
    \A n \in Nodes :
        timers[n] # None ~> \/ ~present[n]
                           \/ sessions[n] > 0
                           \/ gcClosed
                           \/ stale[n]
=============================================================================
