-------------------------- MODULE RouteProbeProofs --------------------------
(***************************************************************************)
(* Proofs about RouteProbe, for every set of routers and of ping ids: the  *)
(* types, that no ping outlives its cycle, and that no session is judged   *)
(* in the cycle that meets it first.                                       *)
(*                                                                         *)
(* The proof rests on two observations.  A queue holds at most the ping    *)
(* its node's probe is waiting for, so that taking one id out of all the   *)
(* queues leaves only queues of that shape.  And a node is recorded as     *)
(* seen in its present session only if an earlier cycle saw it there or    *)
(* the running probe itself did, which is what the verdict asks about.     *)
(***************************************************************************)
EXTENDS RouteProbe, TLAPS

\* Between cycles no probe runs; before its ping a probe knows no session.
ProbesRest ==
    /\ cycle = "idle" => \A n \in Nodes : probe[n].pc = "none"
    /\ \A n \in Nodes : probe[n].pc \in {"none", "start"} => ~probe[n].same

\* A queue holds at most the ping that the node's probe waits for.
QueuesHoldProbes ==
    \A n \in Nodes :
       \/ outbound[n] = <<>>
       \/ /\ outbound[n] = <<probe[n].ping>>
          /\ probe[n].pc = "pinging"
          /\ probe[n].ping \in pending

\* A pending ping is one that some probe waits for.
PendingAwaited ==
    \A id \in pending : \E n \in Nodes : probe[n].pc = "pinging" /\ probe[n].ping = id

\* The record "this session was probed" is the running probe's or tells of an
\* earlier cycle; what a probe read of it tells of an earlier cycle.
SeenEarlier ==
    \A n \in Nodes :
       /\ stable[n] = "this" /\ ~probe[n].same => ~fresh[n]
       /\ probe[n].stable /\ probe[n].same => ~fresh[n]

Inv ==
    /\ TypeOK
    /\ ProbesRest
    /\ QueuesHoldProbes
    /\ PendingAwaited
    /\ SeenEarlier
    /\ NewSessionNotJudged

-----------------------------------------------------------------------------
\* What taking an id out of a queue leaves.  The queues are as short as
\* QueuesHoldProbes says, so no induction over their length is needed.

\* An empty queue stays empty.
LEMMA WithoutEmpty == ASSUME NEW id PROVE Without(<<>>, id) = <<>>
<1> DEFINE q == <<>>
           R(f) == f = [i \in 0 .. Len(q) |->
                          IF i = 0 THEN <<>>
                          ELSE IF q[i] = id THEN f[i - 1] ELSE Append(f[i - 1], q[i])]
           k == CHOOSE f : R(f)
           g == [i \in 0 .. Len(q) |-> <<>>]
<1>1. R(g)
  OBVIOUS
<1>2. R(k)
  <2> HIDE DEF R, g
  <2> QED BY <1>1, Zenon
<1>3. k[0] = <<>>
  <2> HIDE DEF k
  <2> QED BY <1>2
<1>4. Without(q, id) = k[Len(q)]
  BY DEF Without
<1> HIDE DEF k
<1> QED BY <1>3, <1>4

\* A queue of one request loses it exactly if it is the id's.
LEMMA WithoutOne ==
  ASSUME NEW a, NEW id
  PROVE  Without(<<a>>, id) = IF a = id THEN <<>> ELSE <<a>>
<1> DEFINE q == <<a>>
           R(f) == f = [i \in 0 .. Len(q) |->
                          IF i = 0 THEN <<>>
                          ELSE IF q[i] = id THEN f[i - 1] ELSE Append(f[i - 1], q[i])]
           k == CHOOSE f : R(f)
           g == [i \in 0 .. Len(q) |-> IF i = 0 \/ a = id THEN <<>> ELSE <<a>>]
<1>0. /\ 0 .. Len(q) = {0, 1}
      /\ Len(q) = 1
      /\ q[1] = a
      /\ Append(<<>>, a) = <<a>>
  OBVIOUS
<1>1. R(g)
  <2> HIDE DEF q
  <2>1. g[0] = <<>>
    BY <1>0
  <2>2. g[1] = IF a = id THEN <<>> ELSE <<a>>
    BY <1>0
  <2>3. ASSUME NEW i \in 0 .. Len(q)
        PROVE  g[i] = IF i = 0 THEN <<>>
                      ELSE IF q[i] = id THEN g[i - 1] ELSE Append(g[i - 1], q[i])
    <3> HIDE DEF g
    <3>1. CASE i = 0
      BY <2>1, <3>1
    <3>2. CASE i = 1
      <4>1. i - 1 = 0 /\ q[i] = a /\ i # 0
        BY <3>2, <1>0
      <4> QED BY <2>1, <2>2, <3>2, <4>1, <1>0
    <3> QED BY <3>1, <3>2, <1>0
  <2>4. g = [i \in 0 .. Len(q) |-> g[i]]
    OBVIOUS
  <2> HIDE DEF g
  <2> QED BY <2>3, <2>4
<1>2. R(k)
  <2> HIDE DEF R, g
  <2> QED BY <1>1, Zenon
<1>3. k[1] = IF a = id THEN <<>> ELSE <<a>>
  <2> HIDE DEF k, q
  <2>2. k[0] = <<>>
    BY <1>2, <1>0
  <2>3. k[1] = IF q[1] = id THEN k[0] ELSE Append(k[0], q[1])
    BY <1>2, <1>0
  <2> QED BY <1>0, <2>2, <2>3
<1>4. Without(q, id) = k[Len(q)]
  BY DEF Without
<1> HIDE DEF k
<1> QED BY <1>0, <1>3, <1>4

\* Taking an id out of all the queues, and out of the pending pings, leaves
\* well-typed queues that hold at most what they held.
LEMMA UnqueuedShape ==
  ASSUME TypeOK, QueuesHoldProbes, NEW id
  PROVE  /\ Unqueued(id) \in [Nodes -> Seq(PingIds)]
         /\ \A n \in Nodes :
               \/ Unqueued(id)[n] = <<>>
               \/ /\ Unqueued(id)[n] = outbound[n]
                  /\ Unqueued(id)[n] = <<probe[n].ping>>
                  /\ probe[n].ping # id
<1>1. ASSUME NEW n \in Nodes
      PROVE  /\ Without(outbound[n], id) \in Seq(PingIds)
             /\ \/ Without(outbound[n], id) = <<>>
                \/ /\ Without(outbound[n], id) = outbound[n]
                   /\ Without(outbound[n], id) = <<probe[n].ping>>
                   /\ probe[n].ping # id
  <2>0. <<>> \in Seq(PingIds)
    OBVIOUS
  <2>1. CASE outbound[n] = <<>>
    <3>1. Without(outbound[n], id) = <<>>
      BY <2>1, WithoutEmpty, Zenon
    <3> QED BY <2>0, <3>1, Zenon
  <2>2. CASE outbound[n] = <<probe[n].ping>>
    <3>1. outbound[n] \in Seq(PingIds)
      BY DEF TypeOK
    <3>2. Without(outbound[n], id) = IF probe[n].ping = id THEN <<>> ELSE <<probe[n].ping>>
      BY <2>2, WithoutOne
    <3>3. CASE probe[n].ping = id
      <4>1. Without(outbound[n], id) = <<>>
        BY <3>2, <3>3, Zenon
      <4> QED BY <2>0, <4>1, Zenon
    <3>4. CASE probe[n].ping # id
      <4>1. Without(outbound[n], id) = <<probe[n].ping>>
        BY <3>2, <3>4, Zenon
      <4> QED BY <2>2, <3>1, <3>4, <4>1, Zenon
    <3> QED BY <3>3, <3>4
  <2> QED BY <2>1, <2>2 DEF QueuesHoldProbes
<1> QED BY <1>1 DEF Unqueued

-----------------------------------------------------------------------------
\* The invariant.

LEMMA InitInv == Init => Inv
<1> SUFFICES ASSUME Init PROVE Inv
  OBVIOUS
<1>1. TypeOK
  BY DEF Init, TypeOK, NoProbe
<1>2. ProbesRest /\ QueuesHoldProbes /\ PendingAwaited /\ SeenEarlier /\ NewSessionNotJudged
  BY DEF Init, NoProbe, ProbesRest, QueuesHoldProbes, PendingAwaited, SeenEarlier,
         NewSessionNotJudged
<1> QED BY <1>1, <1>2 DEF Inv

\* The fields of a probe, one at a time.
LEMMA ProbeTypes ==
  ASSUME TypeOK, NEW n \in Nodes
  PROVE  /\ probe[n].pc \in {"none", "start", "pinging", "judging", "healthy",
                             "unhealthy", "deferred", "skipped"}
         /\ probe[n].same \in BOOLEAN
         /\ probe[n].stable \in BOOLEAN
         /\ probe[n].ping \in PingIds \cup {0}
BY DEF TypeOK

\* A reader drops marks only.
LEMMA ReadRoutesInv ==
  ASSUME Inv, ReadRoutes
  PROVE  Inv'
<1> USE DEF Inv
<1>1. TypeOK'
  BY DEF ReadRoutes, streamVars, pingVars, probeVars, TypeOK
<1>2. ProbesRest'
  BY DEF ReadRoutes, streamVars, pingVars, probeVars, ProbesRest, TypeOK
<1>3. QueuesHoldProbes'
  BY DEF ReadRoutes, streamVars, pingVars, probeVars, QueuesHoldProbes, TypeOK
<1>4. PendingAwaited'
  BY DEF ReadRoutes, streamVars, pingVars, probeVars, PendingAwaited, TypeOK
<1>5. SeenEarlier'
  BY DEF ReadRoutes, streamVars, pingVars, probeVars, SeenEarlier, TypeOK
<1>6. NewSessionNotJudged'
  BY DEF ReadRoutes, streamVars, pingVars, probeVars, NewSessionNotJudged, TypeOK
<1> QED BY <1>1, <1>2, <1>3, <1>4, <1>5, <1>6

\* A cycle begins from rest.
LEMMA StartCycleInv ==
  ASSUME Inv, StartCycle
  PROVE  Inv'
<1> USE DEF Inv
<1>1. TypeOK'
  BY DEF StartCycle, NoProbe, Candidates, streamVars, pingVars, probeVars, TypeOK
<1>2. ProbesRest'
  BY DEF StartCycle, NoProbe, Candidates, streamVars, pingVars, probeVars, ProbesRest, TypeOK
<1>3. QueuesHoldProbes'
  BY DEF StartCycle, NoProbe, Candidates, streamVars, pingVars, probeVars, QueuesHoldProbes,
         ProbesRest, TypeOK
<1>4. PendingAwaited'
  BY DEF StartCycle, NoProbe, Candidates, streamVars, pingVars, probeVars, PendingAwaited,
         ProbesRest, TypeOK
<1>5. SeenEarlier'
  BY DEF StartCycle, NoProbe, Candidates, streamVars, pingVars, probeVars, SeenEarlier,
         ProbesRest, TypeOK
<1>6. NewSessionNotJudged'
  BY DEF StartCycle, NoProbe, Candidates, streamVars, pingVars, probeVars,
         NewSessionNotJudged, TypeOK
<1> QED BY <1>1, <1>2, <1>3, <1>4, <1>5, <1>6

\* A cycle ends when no probe waits.
LEMMA FinishCycleInv ==
  ASSUME Inv, FinishCycle
  PROVE  Inv'
<1> USE DEF Inv
<1>1. TypeOK'
  BY DEF FinishCycle, NoProbe, Answered, streamVars, pingVars, probeVars, TypeOK
<1>2. ProbesRest'
  BY DEF FinishCycle, NoProbe, Answered, streamVars, pingVars, probeVars, ProbesRest, TypeOK
<1>3. QueuesHoldProbes'
  BY DEF FinishCycle, NoProbe, Answered, streamVars, pingVars, probeVars, QueuesHoldProbes,
         TypeOK
<1>4. PendingAwaited'
  BY DEF FinishCycle, NoProbe, Answered, streamVars, pingVars, probeVars, PendingAwaited, TypeOK
<1>5. SeenEarlier'
  BY DEF FinishCycle, NoProbe, Answered, streamVars, pingVars, probeVars, SeenEarlier, TypeOK
<1>6. NewSessionNotJudged'
  BY DEF FinishCycle, NoProbe, Answered, streamVars, pingVars, probeVars, NewSessionNotJudged,
         TypeOK
<1> QED BY <1>1, <1>2, <1>3, <1>4, <1>5, <1>6

\* The ping is new and its queue was empty.
LEMMA StartProbeInv ==
  ASSUME Inv, NEW n \in Nodes, StartProbe(n)
  PROVE  Inv'
<1> USE DEF Inv
<1>1. CASE stream[n] = "on"
  <2>1. PICK id \in PingIds :
           /\ probe' = [probe EXCEPT ![n] = [pc |-> "pinging", same |-> TRUE,
                                             stable |-> SeenSession(n), ping |-> id]]
           /\ stable' = [stable EXCEPT ![n] = "this"]
           /\ pending' = pending \cup {id}
           /\ outbound' = [outbound EXCEPT ![n] = Append(@, id)]
           /\ UNCHANGED client
    BY <1>1 DEF StartProbe
  <2>2. /\ probe[n].pc = "start"
        /\ UNCHANGED <<stream, clearing, unhealthy, cycle, fresh>>
    BY DEF StartProbe, streamVars
  <2>3. outbound[n] = <<>> /\ ~probe[n].same
    BY <2>2 DEF QueuesHoldProbes, ProbesRest
  <2>4. outbound'[n] = <<id>>
    BY <2>1, <2>3 DEF TypeOK
  <2>5. /\ probe'[n].pc = "pinging" /\ probe'[n].same = TRUE /\ probe'[n].ping = id
        /\ probe'[n].stable = SeenSession(n)
        /\ \A m \in Nodes \ {n} : probe'[m] = probe[m]
    BY <2>1 DEF TypeOK
  <2>6. /\ stable'[n] = "this"
        /\ \A m \in Nodes \ {n} : stable'[m] = stable[m] /\ outbound'[m] = outbound[m]
    BY <2>1 DEF TypeOK
  <2>7. TypeOK'
    <3>1. SeenSession(n) \in BOOLEAN
      BY DEF SeenSession
    <3>2. [pc |-> "pinging", same |-> TRUE, stable |-> SeenSession(n), ping |-> id]
             \in [pc : {"none", "start", "pinging", "judging", "healthy",
                        "unhealthy", "deferred", "skipped"},
                  same : BOOLEAN, stable : BOOLEAN, ping : PingIds \cup {0}]
      BY <3>1
    <3>3. probe' \in [Nodes -> [pc : {"none", "start", "pinging", "judging", "healthy",
                                      "unhealthy", "deferred", "skipped"},
                                same : BOOLEAN, stable : BOOLEAN, ping : PingIds \cup {0}]]
      BY <2>1, <3>2 DEF TypeOK
    <3>4. Append(outbound[n], id) \in Seq(PingIds)
      BY DEF TypeOK
    <3>5. outbound' \in [Nodes -> Seq(PingIds)]
      BY <2>1, <3>4 DEF TypeOK
    <3> QED BY <2>1, <2>2, <3>3, <3>5 DEF TypeOK
  <2>8. ProbesRest'
    BY <2>2, <2>5 DEF ProbesRest
  <2>9. QueuesHoldProbes'
    BY <2>1, <2>4, <2>5, <2>6 DEF QueuesHoldProbes
  <2>10. PendingAwaited'
    <3> SUFFICES ASSUME NEW i \in pending'
                 PROVE  \E m \in Nodes : probe'[m].pc = "pinging" /\ probe'[m].ping = i
      BY DEF PendingAwaited
    <3>1. CASE i = id
      BY <2>5, <3>1
    <3>2. CASE i \in pending
      <4>1. PICK m \in Nodes : probe[m].pc = "pinging" /\ probe[m].ping = i
        BY <3>2 DEF PendingAwaited
      <4> QED BY <4>1, <2>2, <2>5
    <3> QED BY <2>1, <3>1, <3>2
  <2>11. SeenEarlier'
    <3> SUFFICES ASSUME NEW m \in Nodes
                 PROVE  /\ stable'[m] = "this" /\ ~probe'[m].same => ~fresh'[m]
                        /\ probe'[m].stable /\ probe'[m].same => ~fresh'[m]
      BY DEF SeenEarlier
    <3>1. CASE m = n
      BY <2>2, <2>3, <2>5, <3>1 DEF SeenEarlier, SeenSession
    <3>2. CASE m # n
      BY <2>2, <2>5, <2>6, <3>2 DEF SeenEarlier
    <3> QED BY <3>1, <3>2
  <2>12. NewSessionNotJudged'
    BY <2>2, <2>5 DEF NewSessionNotJudged
  <2> QED BY <2>7, <2>8, <2>9, <2>10, <2>11, <2>12
<1>2. CASE stream[n] # "on"
  <2>1. /\ probe[n].pc = "start"
        /\ probe' = [probe EXCEPT ![n].pc = "skipped"]
        /\ stable' = [stable EXCEPT ![n] = "none"]
        /\ UNCHANGED <<stream, clearing, unhealthy, cycle, fresh, pending, outbound, client>>
    BY <1>2 DEF StartProbe, streamVars, pingVars
  <2>2. TypeOK'
    BY <2>1 DEF TypeOK
  <2>3. ProbesRest'
    BY <2>1 DEF ProbesRest, TypeOK
  <2>4. QueuesHoldProbes'
    BY <2>1 DEF QueuesHoldProbes, TypeOK
  <2>5. PendingAwaited'
    BY <2>1 DEF PendingAwaited, TypeOK
  <2>6. SeenEarlier'
    BY <2>1 DEF SeenEarlier, TypeOK
  <2>7. NewSessionNotJudged'
    BY <2>1 DEF NewSessionNotJudged, TypeOK
  <2> QED BY <2>2, <2>3, <2>4, <2>5, <2>6, <2>7
<1> QED BY <1>1, <1>2

\* An answered ping is neither pending nor queued.
LEMMA ProbeAnsweredInv ==
  ASSUME Inv, NEW n \in Nodes, ProbeAnswered(n)
  PROVE  Inv'
<1> USE DEF Inv
<1>1. TypeOK'
  <2>1. [probe[n] EXCEPT !.pc = "healthy", !.stable = FALSE, !.ping = 0]
           \in [pc : {"none", "start", "pinging", "judging", "healthy",
                      "unhealthy", "deferred", "skipped"},
                same : BOOLEAN, stable : BOOLEAN, ping : PingIds \cup {0}]
    BY DEF TypeOK
  <2>2. probe' = [probe EXCEPT ![n] = [probe[n] EXCEPT !.pc = "healthy", !.stable = FALSE,
                                                       !.ping = 0]]
    BY DEF ProbeAnswered, TypeOK
  <2> QED BY <2>1, <2>2 DEF ProbeAnswered, streamVars, pingVars, probeVars, TypeOK
<1>2. ProbesRest'
  BY DEF ProbeAnswered, streamVars, pingVars, probeVars, ProbesRest, TypeOK
<1>3. QueuesHoldProbes'
  BY DEF ProbeAnswered, streamVars, pingVars, probeVars, QueuesHoldProbes, TypeOK
<1>4. PendingAwaited'
  <2> SUFFICES ASSUME NEW i \in pending
               PROVE  \E m \in Nodes : probe'[m].pc = "pinging" /\ probe'[m].ping = i
    BY DEF PendingAwaited, ProbeAnswered, pingVars
  <2>1. PICK m \in Nodes : probe[m].pc = "pinging" /\ probe[m].ping = i
    BY DEF PendingAwaited
  <2>2. m # n
    BY <2>1 DEF ProbeAnswered
  <2>3. probe'[m] = probe[m]
    BY <2>2 DEF ProbeAnswered, TypeOK
  <2> QED BY <2>1, <2>3
<1>5. SeenEarlier'
  BY DEF ProbeAnswered, streamVars, pingVars, probeVars, SeenEarlier, TypeOK
<1>6. NewSessionNotJudged'
  BY DEF ProbeAnswered, streamVars, pingVars, probeVars, NewSessionNotJudged, TypeOK
<1> QED BY <1>1, <1>2, <1>3, <1>4, <1>5, <1>6

\* A cancelled ping leaves table and queues.
LEMMA ProbeTimeoutInv ==
  ASSUME Inv, NEW n \in Nodes, ProbeTimeout(n)
  PROVE  Inv'
<1> USE DEF Inv
<1>1. TypeOK'
  <2>1. [probe[n] EXCEPT !.pc = "judging", !.ping = 0]
           \in [pc : {"none", "start", "pinging", "judging", "healthy",
                      "unhealthy", "deferred", "skipped"},
                same : BOOLEAN, stable : BOOLEAN, ping : PingIds \cup {0}]
    BY DEF TypeOK
  <2>2. probe' = [probe EXCEPT ![n] = [probe[n] EXCEPT !.pc = "judging", !.ping = 0]]
    BY DEF ProbeTimeout, TypeOK
  <2>3. outbound' \in [Nodes -> Seq(PingIds)]
    BY UnqueuedShape DEF ProbeTimeout, CancelledQueue
  <2> QED BY <2>1, <2>2, <2>3 DEF ProbeTimeout, streamVars, TypeOK
<1>2. ProbesRest'
  BY UnqueuedShape DEF ProbeTimeout, CancelledQueue, streamVars, pingVars, probeVars,
                       ProbesRest, TypeOK
<1>3. QueuesHoldProbes'
  BY UnqueuedShape DEF ProbeTimeout, CancelledQueue, streamVars, pingVars, probeVars,
                       QueuesHoldProbes, TypeOK
<1>4. PendingAwaited'
  BY UnqueuedShape DEF ProbeTimeout, CancelledQueue, streamVars, pingVars, probeVars,
                       PendingAwaited, TypeOK
<1>5. SeenEarlier'
  BY UnqueuedShape DEF ProbeTimeout, CancelledQueue, streamVars, pingVars, probeVars,
                       SeenEarlier, TypeOK
<1>6. NewSessionNotJudged'
  BY UnqueuedShape DEF ProbeTimeout, CancelledQueue, streamVars, pingVars, probeVars,
                       NewSessionNotJudged, TypeOK
<1> QED BY <1>1, <1>2, <1>3, <1>4, <1>5, <1>6

\* A verdict is about a session pinged before.
LEMMA JudgeInv ==
  ASSUME Inv, NEW n \in Nodes, Judge(n)
  PROVE  Inv'
<1> USE DEF Inv
<1>1. TypeOK'
  <2>1. Verdict(n) \in {"skipped", "deferred", "unhealthy"}
    BY DEF Verdict
  <2>2. [probe[n] EXCEPT !.pc = Verdict(n), !.stable = FALSE]
           \in [pc : {"none", "start", "pinging", "judging", "healthy",
                      "unhealthy", "deferred", "skipped"},
                same : BOOLEAN, stable : BOOLEAN, ping : PingIds \cup {0}]
    BY <2>1 DEF TypeOK
  <2>3. probe' = [probe EXCEPT ![n] = [probe[n] EXCEPT !.pc = Verdict(n), !.stable = FALSE]]
    BY DEF Judge, TypeOK
  <2> QED BY <2>2, <2>3 DEF Judge, streamVars, pingVars, TypeOK
<1>2. ProbesRest'
  BY DEF Judge, Verdict, streamVars, pingVars, probeVars, ProbesRest, TypeOK
<1>3. QueuesHoldProbes'
  BY DEF Judge, Verdict, streamVars, pingVars, probeVars, QueuesHoldProbes, TypeOK
<1>4. PendingAwaited'
  BY DEF Judge, Verdict, streamVars, pingVars, probeVars, PendingAwaited, TypeOK
<1>5. SeenEarlier'
  BY DEF Judge, Verdict, streamVars, pingVars, probeVars, SeenEarlier, TypeOK
<1>6. NewSessionNotJudged'
  <2> SUFFICES ASSUME NEW m \in Nodes, probe'[m].pc = "unhealthy", probe'[m].same
               PROVE  ~fresh'[m]
    BY DEF NewSessionNotJudged
  <2>1. fresh' = fresh
    BY DEF Judge
  <2>2. CASE m = n
    <3>1. probe'[n].pc = Verdict(n) /\ probe'[n].same = probe[n].same
      BY DEF Judge, TypeOK
    <3>2. probe[n].same /\ probe[n].stable
      BY <2>2, <3>1 DEF Verdict
    <3> QED BY <2>1, <2>2, <3>2 DEF SeenEarlier
  <2>3. CASE m # n
    <3>1. probe'[m] = probe[m]
      BY <2>3 DEF Judge, TypeOK
    <3> QED BY <2>1, <3>1 DEF NewSessionNotJudged
  <2> QED BY <2>2, <2>3
<1> QED BY <1>1, <1>2, <1>3, <1>4, <1>5, <1>6

\* A new session is in no record.
LEMMA ConnectInv ==
  ASSUME Inv, NEW n \in Nodes, Connect(n)
  PROVE  Inv'
<1> USE DEF Inv
<1>1. TypeOK'
  BY DEF Connect, streamVars, pingVars, probeVars, TypeOK
<1>2. ProbesRest'
  BY DEF Connect, streamVars, pingVars, probeVars, ProbesRest, TypeOK
<1>3. QueuesHoldProbes'
  BY DEF Connect, streamVars, pingVars, probeVars, QueuesHoldProbes, TypeOK
<1>4. PendingAwaited'
  BY DEF Connect, streamVars, pingVars, probeVars, PendingAwaited, TypeOK
<1>5. SeenEarlier'
  BY DEF Connect, streamVars, pingVars, probeVars, SeenEarlier, TypeOK
<1>6. NewSessionNotJudged'
  BY DEF Connect, streamVars, pingVars, probeVars, NewSessionNotJudged, TypeOK
<1> QED BY <1>1, <1>2, <1>3, <1>4, <1>5, <1>6

\* Only the mark changes.
LEMMA ClearUnhealthyInv ==
  ASSUME Inv, NEW n \in Nodes, ClearUnhealthy(n)
  PROVE  Inv'
<1> USE DEF Inv
<1>1. TypeOK'
  BY DEF ClearUnhealthy, streamVars, pingVars, probeVars, TypeOK
<1>2. ProbesRest'
  BY DEF ClearUnhealthy, streamVars, pingVars, probeVars, ProbesRest, TypeOK
<1>3. QueuesHoldProbes'
  BY DEF ClearUnhealthy, streamVars, pingVars, probeVars, QueuesHoldProbes, TypeOK
<1>4. PendingAwaited'
  BY DEF ClearUnhealthy, streamVars, pingVars, probeVars, PendingAwaited, TypeOK
<1>5. SeenEarlier'
  BY DEF ClearUnhealthy, streamVars, pingVars, probeVars, SeenEarlier, TypeOK
<1>6. NewSessionNotJudged'
  BY DEF ClearUnhealthy, streamVars, pingVars, probeVars, NewSessionNotJudged, TypeOK
<1> QED BY <1>1, <1>2, <1>3, <1>4, <1>5, <1>6

\* Only the stream changes.
LEMMA DisconnectInv ==
  ASSUME Inv, NEW n \in Nodes, Disconnect(n)
  PROVE  Inv'
<1> USE DEF Inv
<1>1. TypeOK'
  BY DEF Disconnect, streamVars, pingVars, probeVars, TypeOK
<1>2. ProbesRest'
  BY DEF Disconnect, streamVars, pingVars, probeVars, ProbesRest, TypeOK
<1>3. QueuesHoldProbes'
  BY DEF Disconnect, streamVars, pingVars, probeVars, QueuesHoldProbes, TypeOK
<1>4. PendingAwaited'
  BY DEF Disconnect, streamVars, pingVars, probeVars, PendingAwaited, TypeOK
<1>5. SeenEarlier'
  BY DEF Disconnect, streamVars, pingVars, probeVars, SeenEarlier, TypeOK
<1>6. NewSessionNotJudged'
  BY DEF Disconnect, streamVars, pingVars, probeVars, NewSessionNotJudged, TypeOK
<1> QED BY <1>1, <1>2, <1>3, <1>4, <1>5, <1>6

\* Only the stream changes.
LEMMA GoOfflineInv ==
  ASSUME Inv, NEW n \in Nodes, GoOffline(n)
  PROVE  Inv'
<1> USE DEF Inv
<1>1. TypeOK'
  BY DEF GoOffline, streamVars, pingVars, probeVars, TypeOK
<1>2. ProbesRest'
  BY DEF GoOffline, streamVars, pingVars, probeVars, ProbesRest, TypeOK
<1>3. QueuesHoldProbes'
  BY DEF GoOffline, streamVars, pingVars, probeVars, QueuesHoldProbes, TypeOK
<1>4. PendingAwaited'
  BY DEF GoOffline, streamVars, pingVars, probeVars, PendingAwaited, TypeOK
<1>5. SeenEarlier'
  BY DEF GoOffline, streamVars, pingVars, probeVars, SeenEarlier, TypeOK
<1>6. NewSessionNotJudged'
  BY DEF GoOffline, streamVars, pingVars, probeVars, NewSessionNotJudged, TypeOK
<1> QED BY <1>1, <1>2, <1>3, <1>4, <1>5, <1>6

\* The record goes with the node.
LEMMA DeleteInv ==
  ASSUME Inv, NEW n \in Nodes, Delete(n)
  PROVE  Inv'
<1> USE DEF Inv
<1>1. TypeOK'
  BY DEF Delete, streamVars, pingVars, probeVars, TypeOK
<1>2. ProbesRest'
  BY DEF Delete, streamVars, pingVars, probeVars, ProbesRest, TypeOK
<1>3. QueuesHoldProbes'
  BY DEF Delete, streamVars, pingVars, probeVars, QueuesHoldProbes, TypeOK
<1>4. PendingAwaited'
  BY DEF Delete, streamVars, pingVars, probeVars, PendingAwaited, TypeOK
<1>5. SeenEarlier'
  BY DEF Delete, streamVars, pingVars, probeVars, SeenEarlier, TypeOK
<1>6. NewSessionNotJudged'
  BY DEF Delete, streamVars, pingVars, probeVars, NewSessionNotJudged, TypeOK
<1> QED BY <1>1, <1>2, <1>3, <1>4, <1>5, <1>6

\* The record goes with the connection.
LEMMA CleanupOfflineInv ==
  ASSUME Inv, NEW n \in Nodes, CleanupOffline(n)
  PROVE  Inv'
<1> USE DEF Inv
<1>1. TypeOK'
  BY DEF CleanupOffline, streamVars, pingVars, probeVars, TypeOK
<1>2. ProbesRest'
  BY DEF CleanupOffline, streamVars, pingVars, probeVars, ProbesRest, TypeOK
<1>3. QueuesHoldProbes'
  BY DEF CleanupOffline, streamVars, pingVars, probeVars, QueuesHoldProbes, TypeOK
<1>4. PendingAwaited'
  BY DEF CleanupOffline, streamVars, pingVars, probeVars, PendingAwaited, TypeOK
<1>5. SeenEarlier'
  BY DEF CleanupOffline, streamVars, pingVars, probeVars, SeenEarlier, TypeOK
<1>6. NewSessionNotJudged'
  BY DEF CleanupOffline, streamVars, pingVars, probeVars, NewSessionNotJudged, TypeOK
<1> QED BY <1>1, <1>2, <1>3, <1>4, <1>5, <1>6

\* The queue's only ping goes to the client.
LEMMA PopPingInv ==
  ASSUME Inv, NEW n \in Nodes, PopPing(n)
  PROVE  Inv'
<1> USE DEF Inv
<1>1. TypeOK'
  BY DEF PopPing, streamVars, pingVars, probeVars, TypeOK
<1>2. ProbesRest'
  BY DEF PopPing, streamVars, pingVars, probeVars, ProbesRest, TypeOK
<1>3. QueuesHoldProbes'
  BY DEF PopPing, streamVars, pingVars, probeVars, QueuesHoldProbes, TypeOK
<1>4. PendingAwaited'
  BY DEF PopPing, streamVars, pingVars, probeVars, PendingAwaited, TypeOK
<1>5. SeenEarlier'
  BY DEF PopPing, streamVars, pingVars, probeVars, SeenEarlier, TypeOK
<1>6. NewSessionNotJudged'
  BY DEF PopPing, streamVars, pingVars, probeVars, NewSessionNotJudged, TypeOK
<1> QED BY <1>1, <1>2, <1>3, <1>4, <1>5, <1>6

\* An answered ping leaves table and queues.
LEMMA CompleteInv ==
  ASSUME Inv, NEW n \in Nodes, NEW id \in PingIds, Complete(n, id)
  PROVE  Inv'
<1> USE DEF Inv
<1>1. TypeOK'
  BY UnqueuedShape DEF Complete, streamVars, pingVars, probeVars, TypeOK
<1>2. ProbesRest'
  BY UnqueuedShape DEF Complete, streamVars, pingVars, probeVars, ProbesRest, TypeOK
<1>3. QueuesHoldProbes'
  BY UnqueuedShape DEF Complete, streamVars, pingVars, probeVars, QueuesHoldProbes, TypeOK
<1>4. PendingAwaited'
  BY UnqueuedShape DEF Complete, streamVars, pingVars, probeVars, PendingAwaited, TypeOK
<1>5. SeenEarlier'
  BY UnqueuedShape DEF Complete, streamVars, pingVars, probeVars, SeenEarlier, TypeOK
<1>6. NewSessionNotJudged'
  BY UnqueuedShape DEF Complete, streamVars, pingVars, probeVars, NewSessionNotJudged, TypeOK
<1> QED BY <1>1, <1>2, <1>3, <1>4, <1>5, <1>6

\* Only the client forgets.
LEMMA LosePingInv ==
  ASSUME Inv, NEW n \in Nodes, NEW id \in PingIds, LosePing(n, id)
  PROVE  Inv'
<1> USE DEF Inv
<1>1. TypeOK'
  BY DEF LosePing, streamVars, pingVars, probeVars, TypeOK
<1>2. ProbesRest'
  BY DEF LosePing, streamVars, pingVars, probeVars, ProbesRest, TypeOK
<1>3. QueuesHoldProbes'
  BY DEF LosePing, streamVars, pingVars, probeVars, QueuesHoldProbes, TypeOK
<1>4. PendingAwaited'
  BY DEF LosePing, streamVars, pingVars, probeVars, PendingAwaited, TypeOK
<1>5. SeenEarlier'
  BY DEF LosePing, streamVars, pingVars, probeVars, SeenEarlier, TypeOK
<1>6. NewSessionNotJudged'
  BY DEF LosePing, streamVars, pingVars, probeVars, NewSessionNotJudged, TypeOK
<1> QED BY <1>1, <1>2, <1>3, <1>4, <1>5, <1>6

LEMMA StepInv == Inv /\ [Next]_vars => Inv'
<1> SUFFICES ASSUME Inv, [Next]_vars PROVE Inv'
  OBVIOUS
<1>1. CASE UNCHANGED vars
  BY <1>1 DEF Inv, TypeOK, ProbesRest, QueuesHoldProbes, PendingAwaited, SeenEarlier,
              NewSessionNotJudged, vars, streamVars, pingVars, probeVars
<1>2. CASE Next
  BY <1>2, ReadRoutesInv, StartCycleInv, FinishCycleInv, StartProbeInv,
     ProbeAnsweredInv, ProbeTimeoutInv, JudgeInv, ConnectInv, ClearUnhealthyInv,
     DisconnectInv, GoOfflineInv, DeleteInv, CleanupOfflineInv, PopPingInv, CompleteInv,
     LosePingInv
     DEF Next, ProbeStep
<1> QED BY <1>1, <1>2

\* Inv holds in every reachable state.
THEOREM Invariance == Spec => []Inv
<1>1. Init => Inv
  BY InitInv
<1>2. Inv /\ [Next]_vars => Inv'
  BY StepInv
<1> QED BY <1>1, <1>2, PTL DEF Spec

-----------------------------------------------------------------------------
\* The results.

\* The types of the probe's and the tracker's state.
THEOREM TypeCorrect == Spec => []TypeOK
<1>1. Inv => TypeOK
  BY DEF Inv
<1> QED BY <1>1, Invariance, PTL

\* run_route_health_probe_once leaves nothing in the PingTracker, which has
\* no time-outs of its own: when no cycle runs, no ping is pending and no
\* queue holds one, whether clients fetched, answered or lost their pings.
THEOREM TrackerLeftEmpty == Spec => []NoPingLeft
<1>1. Inv => NoPingLeft
  BY DEF Inv, NoPingLeft, ProbesRest, QueuesHoldProbes, PendingAwaited
<1> QED BY <1>1, Invariance, PTL

\* probe_route_candidate does not give "unhealthy" to a session that no
\* earlier cycle has met, however often the node reconnects while its ping is
\* out.
THEOREM NewSessionsSpared == Spec => []NewSessionNotJudged
<1>1. Inv => NewSessionNotJudged
  BY DEF Inv
<1> QED BY <1>1, Invariance, PTL
=============================================================================
