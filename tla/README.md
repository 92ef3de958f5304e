# Verification of the headscale-rs control plane

TLA+ models of the parts of headscale-rs in which several tasks, threads and
clients meet: the cache of pending registrations, registration with preauth
keys, the SSH check, the map-stream sessions with the collector of ephemeral
nodes, the delivery of changes to the streams, the election of primary routes
with the probe that judges their health, and the write path of the NodeStore.
TLC checks them on small instances; TLAPS proves every safety property, and the
refinement of the write path, for every instance.  `PROJECT.json` says which lines each definition
models, which run checks which property, and which hazard of the code each
property is for.

Run a model with `tlc -workers 2 -config X.cfg M`, check the proofs of a module
with `tlapm XProofs.tla`; each of the eight takes a few minutes at most.

## The system

headscale-rs is a reimplementation of the headscale control server.  Clients
register, open a long-polled map stream, and are told of every change of the
tailnet.  Nearly all shared state is in `headscale-api/src/tailscale_wire`,
most of it in `MachineRegistry` (`mod.rs`).

| Component | State | Operations | What is hard | What makes it correct |
|---|---|---|---|---|
| Pending registration cache (`RegistrationCache`, `RegistrationEntry`) | map from auth id to an `Arc` of an entry; verdict, `Notify` and deadline of an entry | insert, look up, approve, reject, admit, complete, remove, prune, wait for a registration or for an SSH check | entries outlive the map; verdicts race with deadlines, evictions and waits; notification before wait | no entry is left without verdict and owner, no lost wake-up, one verdict, one consumer of an SSH approval, fair eviction, every wait ends |
| Map-stream sessions | `active_connections`, `state_sessions`, `stream_session_epochs`, `online_states`, cancel flags | acquire, release after a grace, expire, rekey, delete, native shutdown | a guard is dropped after its node was deleted and registered again; admission against shutdown | counters count the streams of the present incarnation; every retired or closing stream is told; shutdown ends |
| Ephemeral node collector (`EphemeralNodeGc`) | a timer and a task for a node, `closed` | schedule, schedule existing, cancel, fire, claim, delete, abort all | a timer fires while the node reconnects, is deleted or the server stops | a connected node is spared, an idle one is not forgotten, closing is final |
| Primary route election (`PrimaryRouteState`) | routes of a node, primary of a route, unhealthy nodes | synchronise with a snapshot, report health, clear a mark | snapshots are taken before the lock; marks are cleared without election | primaries serve their route, are healthy if possible and sticky |
| Route health probe (`run_route_health_probe_once`, `PingTracker`) | pending and outbound pings, stable sessions | cycle of pings, answer, time-out, batch of verdicts | nodes reconnect or vanish in the middle of a probe, late answers | only the session that was pinged is judged, no ping is left, the cycle ends |
| NodeStore write batcher (`NodeStoreWriteBatcherHandle`) | copy-on-write map of records, queue, open batch, stop flag | queue a write, collect, apply, publish, reply, stop | writes share a batch with the deletion of their node; the drop of the handle joins a worker that needs its callers | writes are atomic, outcomes are those of the published map, stopping ends, callers are answered |
| Map change queue and batcher | changes queued for a node, connection entries, broadcast channel | enqueue, drain, send, drop entries of offline nodes | entries are read before the queue is locked; a batch is sent after the lock is released; a full channel drops | whatever a stream has not been shown is on its way to it |
| Map response building and streaming | what a stream has been shown | subscribe, first map, full, delta and patch frames, DNS and ping wake-ups, keepalive | changes between subscription, snapshot and wait; lag; a wake-up that came too early | an open stream converges to the registry, a queued ping is taken |
| Registration handlers, auth keys | registry, rows, preauth keys, locks of machines and node keys | register with a key, new or again, with another node key; delete; save a disconnect; expire or destroy a key | single use of a key, failure between registry and row, two machines with one node key | a one-shot key admits once, registry and rows agree, a node key has one owner, a confirmed registration is saved |
| SSH check and policy stamp | holds and their verdicts, remembered authentications, policy and its stamp | ask, hold, follow up, approve, remember, replace the policy | the policy is replaced while a request waits, or between approval and memory | what is accepted has a rule under the policy in force, and an approved hold of its own or a follow-up accepted under that policy |
| OIDC, Noise, DERP, DNS, ACME/TLS, policy compiler, database, admin API, command line, inference gateway, mesh data plane, payments | | | mostly I/O, cryptography, parsing | not modelled, see the end |

How they interact.  A registration handler waits on a cache entry which an
administrator or the OIDC callback decides; the accepted record goes into the
NodeStore.  A map request takes the machine's registration lock, acquires a
session inside a NodeStore write, cancels the collector's timer and clears the
node's unhealthy mark.  When its last stream is gone a node goes offline in
another NodeStore write and, if ephemeral, gets a timer.  Deleting a node
retires in the same write everything that its session epoch owned.  The probe
pings routers through their map streams and marks them in the route selector.
All NodeStore writes go through the batcher when one is configured.  A
registration with a preauth key edits the NodeStore and the database under the
machine's registration lock.  Every change, of nodes, routes or the policy, is
queued for the connected nodes after it is made, and the streams compute what
to send when they receive it.  The SSH check takes its verdicts from the cache
of pending registrations.

## Modules

| Module | Models | Composition |
|---|---|---|
| `RegistrationCache` | the cache, its entries, and the tasks that insert, decide, complete and wait | |
| `RegistrationCacheProofs` | theorems | extends it |
| `StreamSessions` | sessions, collector, deletion, rekeying, expiry and shutdown together | composes the two components because they share epochs and locks |
| `StreamSessionsProofs` | theorems | extends it |
| `PrimaryRoutes` | the selector behind its lock, its callers and the node changes they read | |
| `PrimaryRoutesProofs` | theorems | extends it |
| `RouteProbe` | probe cycles, ping tracker, streams and marks | |
| `RouteProbeProofs` | theorems | extends it |
| `NodeStoreWrites` | what each write does to the map, and a list of writes in order | |
| `NodeStore` | abstract: writes happen atomically, each once, in some order | extends `NodeStoreWrites` |
| `NodeStoreWriter` | queue, worker, batches, direct writes, stop | extends `NodeStoreWrites`, instantiates `NodeStore` |
| `NodeStoreWriterProofs` | theorems | extends it |
| `MapFrames` | map changes and the frames built from them, pure operators | |
| `MapBatcher` | writers, change queue, batcher, channel and streams | extends `MapFrames` |
| `MapBatcherProofs` | theorems | extends it |
| `SshCheck` | SSH requests, holds, memory, policy reloads | |
| `SshCheckProofs` | theorems | extends it |
| `AuthKeyRegistration` | registrations and deletions over registry, rows and preauth keys | |
| `AuthKeyRegistrationProofs` | theorems | extends it |
| `MC*` | constants, symmetry and, where said, narrowed next-state relations for TLC | extend the module they are named after |

Definitions named in a comment `Mutant: ...` are deliberately wrong variants of
the definition that follows; no specification uses them.  Each shows that the
property it is paired with in `PROJECT.json` can fail.

### RegistrationCache

`inner` is the map, `made` counts entries in the order of creation; entries are
numbers because tasks keep an `Arc` after the map forgot it.  All entries live
equally long, so `expiredUpTo` records which deadlines are over.  An action is
one critical section: the map's write guard, or one entry's mutex.  Entries
thrown out under the guard are in `dropping` until their `expire()` is called.
A caller (`pc`, `held`) is a task: it inserts (`InsertEntry`, with quota and
eviction by least recent use), looks up, then decides, completes or waits.  The
wait is the loop of `wait_for_registration`: arm the notification, read the
outcome, park, wake or time out.  The data of a record is left out.

### StreamSessions

A node has an epoch (an `Arc` compared by identity) from its first stream or
timer until it leaves the NodeStore; `conn` is a map request from the
registration lock to the last step of its release; `task` is a collector task;
`timers` is the timer map.  Epochs and timer generations are taken from finite
sets and used again once nobody holds them, as addresses are.  A NodeStore
write is one step; tasks that hold the read lock across steps keep the writer
out (`WriterFree`).  `lock` is the machine's registration lock.  `stale` is a
history variable: it excuses nodes whose key was rotated or whose row could not
be deleted, for which the code promises nothing until they connect again.

### PrimaryRoutes

`table`, `primary` and `unhealthy` are the selector's fields.  A caller first
takes a `snapshot` of what nodes serve and who is online, and later, under the
lock, synchronises with it and elects (`update_primary_locked` is `ElectOne`).
Writers change routes and connectivity at any time; those that clear a mark do
so after their write is published (`clearing`).  Prefixes are opaque.

### RouteProbe

A cycle pings all candidates at once, each with a generation and a stable flag
remembered, waits for all and applies the verdicts in one batch.  Clients fetch
and answer pings, or never; nodes reconnect, leave and are deleted at any
point.  The model keeps for each probe whether the generation is still the
pinged one, which is all the code asks.  A deleted node does not come back
under the same id: ids are rows of the database.

### NodeStore, NodeStoreWriter

A write is a kind, the keys it looks at, and for a registration the key and
node it writes.  `Course` gives map and sessions after every write of a list;
`Outcome`, `Notice` and `Revalidated` what its caller and the map streams are
told, after the check of final presence.  `NodeStore` says what is promised:
a set of waiting writes commits in some order, and a caller returns afterwards.
Only updates may be refused or abandoned.  `NodeStoreWriter` has the callers
(threads that block, and tasks that drop their sender before they wait), the
worker and the drop of the handle in its four steps.  The refinement maps the
caller's write to `call`, and to `answer` what the caller has or the worker owes
it.  `Panic` is a panic in an update before the publication; it is the only way
in which the fall-backs for a lost reply or a closed queue are reached, because
the worker otherwise lives as long as a sender.  Registrations of one node
exclude each other through `lock_registration`.  Tasks run by
`complete_state_mutation` are not abandoned; the two updates of a map request
that wait in the request itself are (`Cancel`), `touch_last_seen` and the one
of its hostinfo and endpoints (`map.rs:1702`).

`ToldIsTrue` says what a batch tells.  Updates, connects and rekeyings are
looked at again after the batch and tell only of nodes that are left.  A put, a
delete and a patch are not: `map_runtime_update` leaves `final_presence_node_id`
empty (`mod.rs:5207`), so its caller is told that it applied, and a change it
is given to announce goes out, although a later write of the batch removed the
node.  Its callers pass no reason at present, so the announcement is the
model's allowance for the parameter; the answer is real.  For these the
property says only that the write itself or a later one took the node out.
Its last part is about the map: a record is overwritten by later writes alone.
An update whose node is deleted and registered again in its batch is told that
it applied, as the code tells it.

### MapFrames, MapBatcher

A change says which peers are affected and how much of the map to recompute; it
carries no data.  So a record is a version number, and `view` is what version
of each peer, of the policy and of the DNS configuration a stream was shown.
A reason of `MapChangeReason` is represented by one of its class (whole peer,
patch, removal, full, policy, ping).  A writer edits (`UpdateNode`, `AddNode`,
`ApproveRoutes`, `DeleteNode`, `MoveRoutes`, `SetPolicy`), then queues each change in two steps:
`ReadIds` reads the connection entries, `EnqueueMapChange` appends under the
lock.  A registration is announced by one change, the new peer or a policy
change; the approval of its routes is a second edit with a policy change of its
own.  The ids of removed nodes are not given out again (`retired`).
`DrainPending` and `SendBatch` are the batcher; a stream that falls
behind `BatchBuffer` is `lagged`.  A stream connects, subscribes, builds its
first map and then loops: `Poll` looks for full changes and pings, the
`Receive*`, `DnsWake`, `PingWake` and `Keepalive` steps are the branches of its
biased `select!`, with their order as guards.  `SaveFails` is a map request
whose row cannot be saved after its live edit; nobody is told (`unsaved`), and
the same goes for routes whose approval cannot be saved.

A policy without ACL rules is a case of its own.  A full map hides every peer
under it, but a delta that carries no policy change keeps the peers a stream is
shown and adds those that were not there when its first map was built
(`incremental_allowed_peer_ids_for_snapshot`, here `Surfaced` and `DeltaWorld`
with `initial`; the test `stream_true_empty_acl_registry_delta_matches_headscale_go`,
`map.rs:8175`, asserts it).  So whether a stream shows such a late peer depends
on which frames it got, and may change with the next full map.  `Shows` accepts
both, for late peers under such a policy alone: there `NoChangeLost` and
`Converges` say that the stream shows the peer as a full map does or as the
registry has it, never an older version.

### SshCheck

A policy document is a table of check periods; `epoch` is the identity in
`SshPolicyStamp`, `updatedAt` its timestamp.  A request decides under the
policy's read lock, so a decision is one step (`Ask`, `Grant`); between a
follow-up's `FollowUp` and its `Grant` it waits for a person and the policy may
change.  `SetPolicy` installs a policy; the gRPC handler forgets the approvals
in a later step (`InvalidateSshAuth`, `ClearSshAuth`), a reload from a file
never does, and the stamp alone has to hold.  What is remembered has the time
and the policy of the moment the follow-up is accepted (`ssh.rs:247`), and
`grants` is a history of accepted follow-ups.  An approval that a person gave
before a reload and that is followed up after it, where the new policy has a
rule for the pair, therefore earns grace under the new policy;
`MemoryJustified` is about the follow-up and does not exclude that.

### AuthKeyRegistration

`live` is the registry by node key, `rows` and `keyRow` are the two tables.  A
request takes its machine's lock, then the node key's (`mlock`, `nlock`), reads
the preauth key and judges by what it read (`Decide`).  A node the registry
knows is changed there (`Begin`), then saved together with the claim of a
one-shot key (`CommitCached`, one transaction, which may fail and leads to
`Rollback`); a new node is inserted first (`CommitNew`) and then put into the
registry (`PutNew`).  `Publish` may fail, and the registration stays.  A
deletion holds the machine's lock, destroys the row and removes the node.
`PersistLastSeen` is the save of a disconnect, which does not take that lock.
All nodes have one user, so a machine has one live node.  `admitted` counts
registrations that needed a valid key; `foreign` are the nodes that the two
races under Findings have touched.

## Runs

No run takes more than three minutes with two workers.  Deadlock is checked
except in `map_delivery` and `ssh_check`: there everything may be at rest, once
all edits and replacements the bounds allow are made.

| Run | Instance | Shows |
|---|---|---|
| `registration_verdicts` | one id, two tasks, two entries, capacity one | types; `NoOrphan`, `NoLostWakeup`, `OneVerdictPerEntry`, `SshVerdictConsumedOnce`, `CompletionNotRedirected`, and under fairness `WaiterAnswered` |
| `registration_eviction` | four ids, two sources, capacity three, quota one, nobody waits | `LimitsHold`, `LoneEntrySurvives` |
| `stream_safety` | an ephemeral node and another, two streams, three timers and epochs | types; `PresenceMatches`, `StreamsToldToStop`; `TimersOwned`, `GcSparesConnected`, `IdleEphemeralTracked` |
| `stream_liveness` | one ephemeral node, two streams | `ShutdownCompletes`, `IdleEphemeralCollected` |
| `route_election` | two routers, two callers whose older snapshot may be applied last | types; `PrimaryServes`, `ElectionsPreferHealthy`, `StickyPrimary` |
| `probe_cycles` | a router that stays, one that does not, three ping ids | types; `NewSessionNotJudged`, `NoPingLeft`, and under fairness `CycleEnds` |
| `probe_fresh` | two routers | violation: a verdict meets a fresh session |
| `writer_batches` | a node with two keys, a thread and a task, batches of two | types; `WritesAtomic` (the write path implements `NodeStore`), `ToldIsTrue`, `SessionsOfIncarnation`, `TickNotNeeded`, `CallsAnswered` |
| `writer_approvals` | two threads | violation: ids of removed nodes are returned |
| `map_delivery` | a stream of one node that watches another, one writer, two edits, three policies, a ping, a channel of one batch | `NoChangeLost`, and under fairness `Converges`, `PingTaken` |
| `ssh_check` | two pairs, two users, two documents, two requests, two holds, one replacement, one tick | `MemoryJustified`, `FollowUpJustified` |
| `auth_keys` | two machines, two node keys, a one-shot key and a reusable tagged one, two requests, two rows | `OneShotOnce`, `RowsMatchLive`, `NodeKeyOwned`, `RegisteredIsSaved` |

The types of `MapBatcher`, `SshCheck` and `AuthKeyRegistration` (`TypeOK`) are
proved and not run; their runs spend their time on what could be wrong.

Why the bounds are enough.  Two entries under one id show a replaced entry and
its successor; two tasks any race of two verdicts, or of a verdict and a wait.
Capacity three with quota one lets one source, another and an internal caller
fill the cache and a fourth insert choose a victim.  Two streams of one node
are one of the present and one of an earlier incarnation, or two that leave
together; three timers are a claimed one, an installed one and its
replacement.  Two routers let a primary give way to the lower or to the higher
id, and the theorems hold for any number; routes are elected independently, so
one is enough.  A batch of two holds a write and the deletion of its node, or a
deletion and the registration that follows it; the registration of a node
under the key of another one is left to the theorems, which allow it.  Two edits let a second change
be made while the first is queued, drained, or dropped by a channel of one
batch; streams do not see each other, so one is enough.  The three policies
have no ACL rule and hide the watched node, show it, and hide it by their
rules; the node may be there when the first map is built, or join later.  In `ssh_check` two documents and one replacement are a
rule that goes or stays under a new identity, and the second tick of the clock
is the end of the shorter period.  Two requests of two machines over two node
keys can exchange their keys, meet on one, and read one key twice; two rows are
a node of each machine, or a node that is deleted and registered again.

`MaxCreated`, `MaxEdits`, `MaxPings`, `MaxEpoch`, `MaxTime`, `MaxId` and the
sets of ids limit the length of a behaviour; the other state spaces are
explored whole.

Two runs of the cache narrow the next-state relation: in `registration_eviction`
(`EvictionSpec`) nobody waits, since waits do not take part in evictions; in
`registration_verdicts` (`VerdictSpec`) only the second task inserts, which of
two interchangeable tasks one may assume, and only the fairness that the waits
of the first one need is stated.

### Fairness

Weak fairness on a step says that a task or thread which can run does.

- `RegistrationCache`: time passes, thrown-out entries get their `expire()`,
  waits and completions run.  Nobody has to decide anything.
- `StreamSessions`: tasks run, a cancelled stream sees its flag, timers expire,
  a shutdown that has begun goes on.  Strong fairness on `Claim`: tokio's mutex
  is first come, first served, so a queued timer gets the registration lock.
- `RouteProbe`: the probe task, whose time-outs come; clients owe nothing.
- `NodeStoreWriter`: threads run; a task is resumed only while the joining drop
  does not occupy the runtime's thread, as on a current-thread runtime.  The
  ticker is assumed only in `CallsAnswered`: its period may be a year.

- `MapBatcher`: a writer that has edited queues its changes, the batcher ticks,
  a stream that is polled goes on and a cancelled one ends.  Nobody has to
  edit, ping or hang up, and the end of a stream is not assumed.

## Theorems

Every theorem is about `Spec`, without fairness, and holds for every value of
the constants that the named assumptions of its module allow.  Sets need not be
finite and bounds such as `MaxEdits` may be any number unless said otherwise.
Assumptions that keep `None` apart from real values are not listed.  Each
module has one inductive invariant `Inv` with `Invariance == Spec => []Inv`;
before its proof TLC checked it on the run's instance.  A proof that a step
keeps `Inv` has a lemma for each conjunct, or for each action where actions are
large, with one step for each action or conjunct.

### RegistrationCacheProofs

From `CapacityAssumption` and `SourceAssumption`: `TypeCorrect`,
`NoEntryOrphaned`, `NoWakeupLost`, `VerdictsAgree`, `SshVerdictOnce`,
`CompletionKept`, `LimitsKept`, `LoneEntriesSurvive`.

`Inv` adds to types and `NoOrphan` that the map names created entries under
their own id (`MapNamesItsEntries`), that a task in the middle of an operation
holds a created entry (`TasksHoldEntries`), that a waiter which read no verdict
and misses one has its notification (`WakeupComes`), that waiters were told the
entry's verdict (`ToldTheVerdict`) and that a consumed verdict is marked
(`ConsumptionMarked`).  `NoLostWakeup` is not inductive alone: it speaks of
parked waiters only, and the notification may come between reading and parking;
`WakeupComes` covers that gap.

The properties of evictions rest on a second invariant, `OrderInvariance`:
`last_used` orders the cached entries (`UseOrdered`) and there are at most
`max_entries` of them (`WithinCapacity`).  A victim exists because a finite
order has a least member (`OldestExists`), and the quota is met because
members of an order have different numbers of predecessors (`FewAreRecent`).
`LoneEntriesSurvive` needs the capacity too: an insert that already dropped an
entry for the quota has no need of a further victim.

### PrimaryRoutesProofs

From `MaxNodeAssumption`: `TypeCorrect`, `PrimaryAlwaysServes`, from
`Inv == TypeOK /\ PrimaryServes`; the action properties `HealthyPreferred` and
`PrimarySticky`, from the same invariant and the lemmas about `ElectOne` and
`Elect`.  `LowestIsLeast` gives the choice its meaning by well-founded choice
on naturals.

### StreamSessionsProofs

From `EphemeralAssumption` and `ConnsAssumption` (finitely many streams at a
time, which the counters need to mean something): `TypeCorrect`,
`PresenceCorrect`, `StreamsStop`, `TimersStayOwned`, `ConnectedSpared`,
`IdleTracked`.  The five properties are inductive together, once it is added
what a request and a task know at each point (`ConnShape`, `TaskShape`), who
owns a machine's lock (`LockOwned`), that an epoch is of a node in the
NodeStore and that one who holds the lock or the read guard has the current one
(`EpochsCurrent`), and which phases of the shutdown have the collector closed
(`Phases`).  Counters are cardinalities; the proofs compare sets of requests.

### RouteProbeProofs

From `PingIdsAssumption`: `TypeCorrect`, `TrackerLeftEmpty`,
`NewSessionsSpared`.  `Inv` says that a queue holds at most the ping its node's
probe waits for (`QueuesHoldProbes`), that a pending ping is awaited
(`PendingAwaited`), and when "this session was probed before" is true of the
running probe (`SeenEarlier`).

### NodeStoreWriterProofs

From `WritesAssumption` (a node key belongs to one machine),
`BatchSizeAssumption`, `AsyncAssumption` and `WakeAssumption`: `TypeCorrect`,
the action properties `BatchToldTrue` and `SessionsStayTrue`, and `Refinement
== Spec => WritesAtomic`, that queue, worker, batches, direct writes, panics
and stop implement `NodeStore`.  `Inv` says who waits (`Calls`), that whoever is
queued, in the batch or owed a reply does (`Enlisted`) and is so once (`Once`),
what the worker holds in each phase (`Phases`), and that sessions are of
published nodes (`SessionsHere`).  In the refinement a batch is the order in
which its writes commit, and the replies the worker still owes are the answers
of `NodeStore`.

A batch may have any length, so this needs induction over data.  The library's
induction rules take a predicate as a parameter, which the provers here cannot
instantiate; `Induction` states the principle with a set of naturals instead,
and follows from the well-foundedness of `<`.  `CourseExists` uses it for the
existence of the recursive function `Course`, `SessionsTraced` for the fate of
a session through a batch, `LastWriter` and `TakenOut` for that of a record and
of a node.

### MapBatcherProofs

From `MapBatcherAssumption` and `MapFramesAssumption`: `TypeCorrect`,
`DeliveryLossless`.  `NoChangeLost` is not inductive: it lets any change for a
stream's own node stand for an edit of that node.  `NothingLost` is what is
kept: whatever a stream has not been shown is covered by a change on its way
that names it or has all peers recomputed.  A policy without ACL rules needs
more: a peer that is shown or hidden against the policy, where no rule for late
peers excuses it, has a policy or full change on its way (`Astray`), because a
delta under such a policy would leave it so; and a removed node stays removed
(`IdsFresh`), else a late peer could be taken for one of the first map.

### SshCheckProofs

From `SshCheckAssumption`: `TypeCorrect`, and the action properties
`GraceJustified` and `FollowUpsJustified`.  `Inv` is the chain from a hold to
what is remembered: a waiting request names a hold of its own pair
(`RequestsBound`), one let through took an approval alone (`TakenAlone`), what
was granted was approved (`GrantsApproved`), what is remembered was granted
(`MemoryFromGrants`).

### AuthKeyRegistrationProofs

From `AuthKeyAssumption`: `TypeCorrect`, `OneShotKeys`, `Registered`,
`RecordsAgree`, `NodeKeysOwned`.  One-shot keys need only that a key once
needed is marked used in its row and that a request which needs it read it
unused: the transaction compares the two.  The agreement of registry and rows
needs most of `Inv`: which node a request works on and that nobody else does
(`OwnNode`, `OwnIds`, `NodeInPlace`), what the row says halfway through
(`RowsBefore`, `RowFirst`, `RowGone`), and that whoever meets another machine on
a node key has it recorded in `foreign` (`TakersForeign`, `DisputesKnown`,
`OldKeyFree`, `OldKeysDiffer`).

### What the proofs changed

- `AuthKeyRegistration`: a commit took its node out of `foreign` even when
  another machine, on its way back from a failed rotation, might still claim
  the node key.  The run with two node keys is too small to show it; a
  contested registration (`contested`) now stays excused.
- `MapBatcher`: a node could be registered again before its removal was
  announced, and the removal would then hide the new one.  In the code ids are
  rows of the database and never used twice; `retired` says so.  The run has
  one writer and could not show it.
- `NodeStoreWriter` had not said that the wake-up message of a stop is none of
  the callers.

### Only model-checked

The liveness properties (`WaiterAnswered`, `ShutdownCompletes`,
`IdleEphemeralCollected`, `CycleEnds`, `TickNotNeeded`, `CallsAnswered`,
`Converges`, `PingTaken`), because the prover has no rules for fairness and
`ENABLED`; and the two findings, which are counterexamples.

## Findings

- `probe_fresh`: the probe compares the generation when a ping times out, not
  when the batch is applied after all pings ended.  A router that reconnects in
  between is marked unhealthy on its new session, which `clear_unhealthy`
  promises a clean slate.
- `writer_approvals`: when every node of a policy's route approval is removed
  later in its batch, `apply_policy_route_approvals` returns all their ids,
  although it documents that absent ids are skipped.

Met while modelling `AuthKeyRegistration`, and kept out of its properties by
`foreign` and by the way `OneShotOnce` counts:

- A disconnect saves its node as the registry has it
  (`persist_live_runtime_node_by_id`, `admin/machines.rs:1180`) and takes no
  machine lock.  Between the live edit of a registration and its transaction it
  writes the new node key and tags to the row; if the transaction then fails,
  the registry is rolled back and the row is not, although
  `auth_key_registration.rs:5` says "Failed writes roll back both the node and
  the single-use key."
- A rotation frees the old node key in the registry before its transaction, and
  only the new one is locked.  A machine that presents the old key in that
  window makes the rollback refuse ("node changed before registration
  rollback"), or has its own row committed before the registry refuses it.
- A key that is destroyed after a new registration has read it is inserted
  again with the node, unused if it was so (`new_associations.rs:245`).
- A node that wakes with its current node key and an unused one-shot key does
  spend the key (`claim_captured_sqlite` with `fresh` false), while
  `register.rs:517` says that it "does not spend a new PAK".

The comment on `PrimaryRouteState` ("A new primary is selected only when the
current primary disappears ...", `routes.rs:91`) is older than the failover of
unhealthy primaries, which code and tests have and `StickyPrimary` allows.

## Plan

Modelled so far in this order: registration cache, sessions and collector,
election, probe, write path, change delivery, SSH check, preauth keys.  Left:

1. An abstract specification of the registration cache (a verdict for each
   request, once), the refinement and its proof.
2. The probe composed with the election: their models meet only in the mark of
   an unhealthy node, which each treats as the other's input.

## Not modelled

- OIDC, Noise and control-protocol transport, DERP and STUN, DNS, knock, ACME,
  TLS: I/O, cryptography and byte formats without shared protocol state.
- Policy compiler and ACL parser: sequential transformation of documents,
  tested against fixtures of the Go implementation.
- Database: schema, migrations and most queries.  The transactions of a
  registration, the administration of preauth keys and the saves and deletions
  of a node are steps of `AuthKeyRegistration` and `StreamSessions`.
- Admin and gRPC API, command line, configuration: decoding of requests and
  options over the operations modelled here.
- Inference gateway, mesh data plane, identity, resources, payments: separate
  crates that do not touch the control plane's state.
- Within the modelled parts: the mode of the map streams without a batcher;
  changes of the DERP map and of a node's own entry; the record of peers
  delivered to a node; registrations that change a node's owner or run without
  an SQL store; metrics and logging; contents of records; a panic
  of the write worker after it published; replacing one write batcher by
  another; the address release of a deletion; the bulk writes of the embedder's
  periodic sweep and of the IP backfill.
