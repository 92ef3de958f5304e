----------------------------- MODULE RouteProbe ----------------------------
(***************************************************************************)
(* The periodic route-health probe of tailscale_wire/mod.rs and the        *)
(* PingTracker it uses.                                                    *)
(*                                                                         *)
(* A cycle pings every candidate at once, waits for all of them, and       *)
(* applies the verdicts in one batch; streams come and go meanwhile.       *)
(* Every node serves the same route here: which marks do to the primaries  *)
(* is in PrimaryRoutes.  Connection generations are only ever compared     *)
(* with the node's present one, so the model keeps the outcome of that     *)
(* comparison instead of the number.                                       *)
(***************************************************************************)
EXTENDS Integers, Sequences, Functions

CONSTANTS
    Nodes,      \* the routers of one route
    Unstable,   \* bound: the routers that reconnect, leave or are deleted
    PingIds     \* ids of pings known to the server or to a client

ASSUME PingIdsAssumption == 0 \notin PingIds

VARIABLES
    stream,     \* node -> "on", "grace" (dropped, still online), "off", "deleted"
    clearing,   \* nodes whose writer step is done and whose mark is cleared next
    unhealthy,  \* PrimaryRouteState.unhealthy
    stable,     \* route_health_stable_sessions: "this" generation, an "other", "none"
    cycle,      \* run_route_health_probe_once: "idle" or "probing"
    probe,      \* node -> [pc, same (the generation is still the one pinged), stable, ping]
    pending,    \* PingTracker.pending
    outbound,   \* PingTracker.outbound
    client,     \* node -> ids of the pings its client has received
    fresh       \* history: node -> its session was not yet there in an earlier cycle

streamVars == <<stream, clearing>>
pingVars == <<pending, outbound, client>>
probeVars == <<stable, cycle, probe, fresh>>
vars == <<streamVars, unhealthy, probeVars, pingVars>>

NoProbe == [pc |-> "none", same |-> FALSE, stable |-> FALSE, ping |-> 0]

-----------------------------------------------------------------------------
\* Streams, as the NodeStore writer and the stream guards change them.

Online(n) == stream[n] \in {"on", "grace"}

\* stream_connection_acquisition: the generation changes in the writer, the
\* mark is cleared after it.
Connect(n) ==
    /\ n \in Unstable \/ stream[n] = "off"
    /\ stream[n] # "deleted"
    /\ n \notin clearing
    /\ stream' = [stream EXCEPT ![n] = "on"]
    /\ stable' = [stable EXCEPT ![n] = IF @ = "none" THEN "none" ELSE "other"]
    /\ probe' = [probe EXCEPT ![n].same = FALSE]
    /\ fresh' = [fresh EXCEPT ![n] = TRUE]
    /\ clearing' = clearing \cup {n}
    /\ UNCHANGED <<unhealthy, cycle, pingVars>>

\* apply_nodestore_bool_update, after the writer's answer: clear_unhealthy,
\* without an election.
ClearUnhealthy(n) ==
    /\ n \in clearing
    /\ clearing' = clearing \ {n}
    /\ unhealthy' = unhealthy \ {n}
    /\ UNCHANGED <<stream, probeVars, pingVars>>

\* The last guard is dropped: the node stays online during the grace.
Disconnect(n) ==
    /\ n \in Unstable
    /\ stream[n] = "on"
    /\ stream' = [stream EXCEPT ![n] = "grace"]
    /\ UNCHANGED <<clearing, unhealthy, probeVars, pingVars>>

\* The last state session is released.
GoOffline(n) ==
    /\ stream[n] = "grace"
    /\ n \notin clearing
    /\ stream' = [stream EXCEPT ![n] = "off"]
    /\ clearing' = clearing \cup {n}
    /\ UNCHANGED <<unhealthy, probeVars, pingVars>>

\* retire_absent_stream_state; the database does not give out ids again.
Delete(n) ==
    /\ n \in Unstable
    /\ stream[n] # "deleted"
    /\ stream' = [stream EXCEPT ![n] = "deleted"]
    /\ stable' = [stable EXCEPT ![n] = "none"]
    /\ probe' = [probe EXCEPT ![n].same = FALSE]
    /\ UNCHANGED <<clearing, unhealthy, cycle, fresh, pingVars>>

\* cleanup_offline_connections, after a long absence.
CleanupOffline(n) ==
    /\ stream[n] \in {"grace", "off"}
    /\ stable' = [stable EXCEPT ![n] = "none"]
    /\ UNCHANGED <<streamVars, unhealthy, cycle, probe, fresh, pingVars>>

-----------------------------------------------------------------------------
\* PingTracker.

\* The queue q without the requests of ping id.
Without(q, id) ==
    LET kept[i \in 0 .. Len(q)] ==
            IF i = 0 THEN <<>>
            ELSE IF q[i] = id THEN kept[i - 1] ELSE Append(kept[i - 1], q[i])
    IN  kept[Len(q)]

\* The id goes from the queues wherever it is.
Unqueued(id) == [n \in Nodes |-> Without(outbound[n], id)]

\* pop_next_for_node: a response to the node, on its stream or to a request
\* without one, takes the ping along.
PopPing(n) ==
    /\ stream[n] # "deleted"
    /\ outbound[n] # <<>>
    /\ client' = [client EXCEPT ![n] = @ \cup {Head(outbound[n])}]
    /\ outbound' = [outbound EXCEPT ![n] = Tail(@)]
    /\ UNCHANGED <<streamVars, unhealthy, probeVars, pending>>

\* complete: a client calls back, perhaps after its ping was cancelled.
Complete(n, id) ==
    /\ id \in client[n]
    /\ client' = [client EXCEPT ![n] = @ \ {id}]
    /\ pending' = pending \ {id}
    /\ outbound' = IF id \in pending THEN Unqueued(id) ELSE outbound
    /\ UNCHANGED <<streamVars, unhealthy, probeVars>>

\* The ping or its answer is lost.
LosePing(n, id) ==
    /\ id \in client[n]
    /\ client' = [client EXCEPT ![n] = @ \ {id}]
    /\ UNCHANGED <<streamVars, unhealthy, probeVars, pending, outbound>>

-----------------------------------------------------------------------------
\* The probe.

\* route_health_probe_candidates: online routers, if there is another one.
Candidates == {n \in Nodes : Online(n) /\ \E m \in Nodes \ {n} : Online(m)}

\* The candidates are chosen, and the sessions of others forgotten.
StartCycle ==
    /\ cycle = "idle"
    /\ cycle' = "probing"
    /\ probe' = [n \in Nodes |->
                    IF n \in Candidates THEN [NoProbe EXCEPT !.pc = "start"] ELSE NoProbe]
    /\ stable' = [n \in Nodes |-> IF n \in Candidates THEN stable[n] ELSE "none"]
    /\ UNCHANGED <<streamVars, unhealthy, fresh, pingVars>>

\* Mutant: any earlier probe of the node makes its session a stable one.
SeenNode(n) == stable[n] # "none"

\* mark_route_health_session_stable: this very session was probed before.
SeenSession(n) == stable[n] = "this"

\* probe_route_candidate up to the await.
StartProbe(n) ==
    /\ probe[n].pc = "start"
    /\ IF stream[n] = "on"
       THEN \E id \in PingIds :
               /\ id \notin pending
               /\ \A m \in Nodes : id \notin Range(outbound[m]) /\ id \notin client[m]
               /\ probe' = [probe EXCEPT ![n] = [pc |-> "pinging", same |-> TRUE,
                                                 stable |-> SeenSession(n), ping |-> id]]
               /\ stable' = [stable EXCEPT ![n] = "this"]
               /\ pending' = pending \cup {id}
               /\ outbound' = [outbound EXCEPT ![n] = Append(@, id)]
               /\ UNCHANGED client
       ELSE /\ probe' = [probe EXCEPT ![n].pc = "skipped"]
            /\ stable' = [stable EXCEPT ![n] = "none"]
            /\ UNCHANGED pingVars
    /\ UNCHANGED <<streamVars, unhealthy, cycle, fresh>>

\* The answer was there in time.
ProbeAnswered(n) ==
    /\ probe[n].pc = "pinging"
    /\ probe[n].ping \notin pending
    /\ probe' = [probe EXCEPT ![n].pc = "healthy", ![n].stable = FALSE, ![n].ping = 0]
    /\ UNCHANGED <<streamVars, unhealthy, stable, cycle, fresh, pingVars>>

\* Mutant: a ping that no stream has fetched is left in the queue.
CancelledQueueKept(id) == outbound

CancelledQueue(id) == Unqueued(id)

\* join_all polls every probe before the first time-out is looked at.
AllStarted == \A n \in Nodes : probe[n].pc # "start"

\* Mutant: the time-out starts when the ping is fetched.
TimeoutOnceSent(n) ==
    /\ AllStarted
    /\ probe[n].pc = "pinging"
    /\ probe[n].ping \in pending
    /\ probe[n].ping \notin Range(outbound[n])
    /\ probe' = [probe EXCEPT ![n].pc = "judging", ![n].ping = 0]
    /\ pending' = pending \ {probe[n].ping}
    /\ outbound' = CancelledQueue(probe[n].ping)
    /\ UNCHANGED <<streamVars, unhealthy, stable, cycle, fresh, client>>

\* The time is over without an answer: the ping is cancelled.  An answer that
\* comes between the two is one that comes after both: nobody listens.
ProbeTimeout(n) ==
    /\ AllStarted
    /\ probe[n].pc = "pinging"
    /\ probe[n].ping \in pending
    /\ probe' = [probe EXCEPT ![n].pc = "judging", ![n].ping = 0]
    /\ pending' = pending \ {probe[n].ping}
    /\ outbound' = CancelledQueue(probe[n].ping)
    /\ UNCHANGED <<streamVars, unhealthy, stable, cycle, fresh, client>>

\* Mutant: a node that left has an outcome of its own, which no caller knows.
VerdictGone(n) ==
    IF stream[n] # "on" THEN "gone"
    ELSE IF ~probe[n].same \/ ~probe[n].stable THEN "deferred"
    ELSE "unhealthy"

\* The rest of probe_route_candidate: what the silence means.
Verdict(n) ==
    IF stream[n] # "on" THEN "skipped"
    ELSE IF ~probe[n].same \/ ~probe[n].stable THEN "deferred"
    ELSE "unhealthy"

Judge(n) ==
    /\ probe[n].pc = "judging"
    /\ probe' = [probe EXCEPT ![n].pc = Verdict(n), ![n].stable = FALSE]
    /\ stable' = IF stream[n] = "on" THEN stable ELSE [stable EXCEPT ![n] = "none"]
    /\ UNCHANGED <<streamVars, unhealthy, cycle, fresh, pingVars>>

Answered(v) == {n \in Nodes : probe[n].pc = v}

\* All probes have ended: the batch of set_route_candidate_health_batch is
\* applied, unless one of them was deferred.  Marks of nodes that are not
\* online go in the synchronisation, and none are made.
FinishCycle ==
    /\ cycle = "probing"
    /\ \A n \in Nodes : probe[n].pc \in {"none", "healthy", "unhealthy", "deferred", "skipped"}
    /\ cycle' = "idle"
    /\ probe' = [n \in Nodes |-> NoProbe]
    /\ fresh' = [n \in Nodes |-> fresh[n] /\ ~probe[n].same]
    /\ unhealthy' =
          IF Answered("deferred") = {}
          THEN {n \in (unhealthy \ Answered("healthy")) \cup Answered("unhealthy") : Online(n)}
          ELSE unhealthy
    /\ UNCHANGED <<streamVars, stable, pingVars>>

\* A reader of the primaries synchronises the selector.
ReadRoutes ==
    /\ unhealthy' = {n \in unhealthy : Online(n)}
    /\ UNCHANGED <<streamVars, probeVars, pingVars>>

-----------------------------------------------------------------------------

Init ==
    /\ stream = [n \in Nodes |-> "off"]
    /\ clearing = {}
    /\ unhealthy = {}
    /\ stable = [n \in Nodes |-> "none"]
    /\ cycle = "idle"
    /\ probe = [n \in Nodes |-> NoProbe]
    /\ pending = {}
    /\ outbound = [n \in Nodes |-> <<>>]
    /\ client = [n \in Nodes |-> {}]
    /\ fresh = [n \in Nodes |-> TRUE]

ProbeStep ==
    \/ FinishCycle
    \/ \E n \in Nodes : StartProbe(n) \/ ProbeAnswered(n) \/ ProbeTimeout(n) \/ Judge(n)

Next ==
    \/ ReadRoutes
    \/ StartCycle
    \/ ProbeStep
    \/ \E n \in Nodes :
          \/ Connect(n)
          \/ ClearUnhealthy(n)
          \/ Disconnect(n)
          \/ GoOffline(n)
          \/ Delete(n)
          \/ CleanupOffline(n)
          \/ PopPing(n)
          \/ \E id \in PingIds : Complete(n, id) \/ LosePing(n, id)

Spec == Init /\ [][Next]_vars

\* The probe task is never starved; clients owe it nothing, except that they
\* do not keep an id for ever.
FairSpec ==
    /\ Spec
    /\ WF_vars(ProbeStep)
    /\ WF_vars(\E n \in Nodes, id \in PingIds : LosePing(n, id))

-----------------------------------------------------------------------------

\* The shape of the state.
TypeOK ==
    /\ stream \in [Nodes -> {"on", "grace", "off", "deleted"}]
    /\ clearing \subseteq Nodes
    /\ unhealthy \subseteq Nodes
    /\ stable \in [Nodes -> {"this", "other", "none"}]
    /\ cycle \in {"idle", "probing"}
    /\ probe \in [Nodes -> [pc : {"none", "start", "pinging", "judging", "healthy",
                                  "unhealthy", "deferred", "skipped"},
                            same : BOOLEAN, stable : BOOLEAN, ping : PingIds \cup {0}]]
    /\ pending \subseteq PingIds
    /\ outbound \in [Nodes -> Seq(PingIds)]
    /\ client \in [Nodes -> SUBSET PingIds]
    /\ fresh \in [Nodes -> BOOLEAN]

\* A session that a probe meets for the first time is not judged unhealthy:
\* the verdict needs the same session, pinged in an earlier cycle as well.
NewSessionNotJudged ==
    \A n \in Nodes : probe[n].pc = "unhealthy" /\ probe[n].same => ~fresh[n]

\* The tracker has no time-outs of its own; still, no ping outlives the
\* cycle that registered it, in the table or in a queue.
NoPingLeft ==
    cycle = "idle" => pending = {} /\ \A n \in Nodes : outbound[n] = <<>>

\* A cycle ends, even when the pings are never fetched.
CycleEnds == cycle = "probing" ~> cycle = "idle"

\* The comment on clear_unhealthy: "Reconnect paths use this to give a fresh
\* session a clean slate"; a mark made after the clearing is then about that
\* session.
FreshSessionClean ==
    [][\A n \in Nodes \ clearing :
          n \in unhealthy' \ unhealthy => probe[n].same]_vars
=============================================================================
