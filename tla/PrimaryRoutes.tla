--------------------------- MODULE PrimaryRoutes ---------------------------
(***************************************************************************)
(* Primary-route election: PrimaryRouteState of tailscale_wire/routes.rs   *)
(* and the MachineRegistry operations that feed it.                        *)
(*                                                                         *)
(* The selector is brought up to date lazily: whoever asks for a primary,  *)
(* or reports the health of routers, takes a snapshot of the NodeStore,    *)
(* and later, under the selector's lock, synchronises the selector with    *)
(* it.  Meanwhile nodes connect, leave, and change their routes, marks are *)
(* cleared without an election, and other callers come in between.         *)
(***************************************************************************)
EXTENDS Integers

CONSTANTS
    MaxNode,    \* node ids are 1..MaxNode; 0 stands for no node
    Routes,     \* subnet prefixes; exit routes are never in the selector
    Callers     \* threads that use the selector

ASSUME MaxNodeAssumption == MaxNode \in Nat

VARIABLES
    serves,     \* node -> its advertised and approved routes
    online,     \* the nodes that are online and not expired
    snapshot,   \* caller -> the routes it has read, None before
    table,      \* PrimaryRouteState.routes
    primary,    \* PrimaryRouteState.primaries; 0 when absent
    unhealthy,  \* PrimaryRouteState.unhealthy
    clearing    \* nodes whose write is published and whose mark its writer
                \* has yet to clear

nodeVars == <<serves, online, clearing>>
selectorVars == <<table, primary, unhealthy>>
vars == <<nodeVars, snapshot, selectorVars>>

Nodes == 1 .. MaxNode

\* The caller has no snapshot.
None == <<>>

-----------------------------------------------------------------------------
\* PrimaryRouteState.

Servers(t, r) == {n \in Nodes : r \in t[n]}

Lowest(S) == CHOOSE n \in S : \A m \in S : n <= m

\* Mutant: the current primary is kept whatever its health.
KeepsPrimaryServing(S, u, n) == n \in S

\* Mutant: whether the current primary still serves the route is not asked.
KeepsPrimaryGone(S, u, n) == n # 0 /\ (n \notin u \/ S \subseteq u)

\* The current primary stays: it still serves the route and is healthy, or
\* nobody is.
KeepsPrimary(S, u, n) == n \in S /\ (n \notin u \/ S \subseteq u)

\* Mutant: no stickiness.
ElectLowest(S, u, n) == IF S \ u # {} THEN Lowest(S \ u) ELSE 0

\* update_primary_locked, for one route served by S.
ElectOne(S, u, n) ==
    IF KeepsPrimary(S, u, n) THEN n
    ELSE IF S \ u # {} THEN Lowest(S \ u)
    ELSE IF n \in S THEN n
    ELSE 0

Elect(t, u, p) == [r \in Routes |-> ElectOne(Servers(t, r), u, p[r])]

\* sync_primary_routes_for_snapshot: the caller's snapshot of the routes, of
\* the nodes that are online now.
LiveTable(c) == [n \in Nodes |-> IF n \in online THEN snapshot[c][n] ELSE {}]

\* sync_routes: marks of nodes without routes are forgotten.
LiveMarks(c) == {n \in unhealthy : LiveTable(c)[n] # {}}

\* The primaries after sync_routes.
Synced(c) == Elect(LiveTable(c), LiveMarks(c), primary)

-----------------------------------------------------------------------------

\* A caller reads the NodeStore.
TakeSnapshot(c) ==
    /\ snapshot[c] = None
    /\ snapshot' = [snapshot EXCEPT ![c] = serves]
    /\ UNCHANGED <<nodeVars, selectorVars>>

\* A reader (a map response, a debug page, gRPC) gets the primaries.
ReadRoutes(c) ==
    /\ snapshot[c] # None
    /\ snapshot' = [snapshot EXCEPT ![c] = None]
    /\ table' = LiveTable(c)
    /\ unhealthy' = LiveMarks(c)
    /\ primary' = Synced(c)
    /\ UNCHANGED nodeVars

\* Mutant: a mark goes to the node next to the silent one.
MarksShifted(c, H, U) ==
    (LiveMarks(c) \ H) \cup {n + 1 : n \in {m \in U : LiveTable(c)[m] # {}}}

\* The marks after the healthy nodes H and the silent nodes U were reported:
\* only a node with routes can be marked.
Marks(c, H, U) == (LiveMarks(c) \ H) \cup {n \in U : LiveTable(c)[n] # {}}

\* set_route_candidate_health, and _batch: a second election follows the one
\* of the synchronisation, if a mark changed.
ReportHealth(c, H, U) ==
    /\ H \cap U = {}
    /\ snapshot[c] # None
    /\ snapshot' = [snapshot EXCEPT ![c] = None]
    /\ table' = LiveTable(c)
    /\ unhealthy' = Marks(c, H, U)
    /\ primary' = IF Marks(c, H, U) = LiveMarks(c) THEN Synced(c)
                  ELSE Elect(LiveTable(c), Marks(c, H, U), Synced(c))
    /\ UNCHANGED nodeVars

\* try_set_approved_routes and the other writes of a node's approvals.  When
\* no route is left, the writer clears the node's mark after publication.
SetApprovedRoutes(n, R) ==
    /\ serves' = [serves EXCEPT ![n] = R]
    /\ clearing' = IF R = {} THEN clearing \cup {n} ELSE clearing
    /\ UNCHANGED <<online, snapshot, selectorVars>>

\* try_set_available_routes: no mark is cleared.
SetAvailableRoutes(n, R) ==
    /\ serves[n] # R
    /\ serves' = [serves EXCEPT ![n] = R]
    /\ UNCHANGED <<online, clearing, snapshot, selectorVars>>

\* A stream of the node is acquired; a node whose key has expired is not
\* online for it.
Connect(n) ==
    /\ online' \in {online \cup {n}, online \ {n}}
    /\ clearing' = clearing \cup {n}
    /\ UNCHANGED <<serves, snapshot, selectorVars>>

\* The last stream of the node is released.
Leave(n) ==
    /\ online' = online \ {n}
    /\ clearing' = clearing \cup {n}
    /\ UNCHANGED <<serves, snapshot, selectorVars>>

\* The key of the node expires, or its expiry is moved: no mark is cleared.
ExpiryChanges(n) ==
    /\ online' = IF n \in online THEN online \ {n} ELSE online \cup {n}
    /\ UNCHANGED <<serves, clearing, snapshot, selectorVars>>

\* clear_unhealthy, the writer's last step: no election.
ClearUnhealthy(n) ==
    /\ n \in clearing
    /\ clearing' = clearing \ {n}
    /\ unhealthy' = unhealthy \ {n}
    /\ UNCHANGED <<serves, online, snapshot, table, primary>>

-----------------------------------------------------------------------------

Init ==
    /\ serves = [n \in Nodes |-> {}]
    /\ online = {}
    /\ snapshot = [c \in Callers |-> None]
    /\ table = [n \in Nodes |-> {}]
    /\ primary = [r \in Routes |-> 0]
    /\ unhealthy = {}
    /\ clearing = {}

UsesSelector(c) ==
    \/ ReadRoutes(c)
    \/ \E H, U \in SUBSET Nodes : ReportHealth(c, H, U)

Next ==
    \/ \E c \in Callers : TakeSnapshot(c) \/ UsesSelector(c)
    \/ \E n \in Nodes :
          \/ ClearUnhealthy(n)
          \/ Leave(n)
          \/ Connect(n)
          \/ ExpiryChanges(n)
          \/ \E R \in SUBSET Routes : SetApprovedRoutes(n, R) \/ SetAvailableRoutes(n, R)

Spec == Init /\ [][Next]_vars

-----------------------------------------------------------------------------

\* The shape of the state.
TypeOK ==
    /\ serves \in [Nodes -> SUBSET Routes]
    /\ online \subseteq Nodes
    /\ snapshot \in [Callers -> [Nodes -> SUBSET Routes] \cup {None}]
    /\ table \in [Nodes -> SUBSET Routes]
    /\ primary \in [Routes -> 0 .. MaxNode]
    /\ unhealthy \subseteq Nodes
    /\ clearing \subseteq Nodes

\* A primary is a node the selector knows to serve the route
\* (assert_primary_state_invariants of the tests, for every history).
PrimaryServes == \A r \in Routes : primary[r] # 0 => r \in table[primary[r]]

\* A route with an unmarked server has an unmarked primary.
HealthyPrimary ==
    \A r \in Routes :
        Servers(table, r) \ unhealthy # {} => primary[r] \in Servers(table, r) \ unhealthy

\* Every reader gets, and every report leaves, a healthy primary where there
\* is a healthy router, whatever came and went since the last election.
ElectionsPreferHealthy ==
    [][\A c \in Callers : snapshot[c] # None /\ snapshot'[c] = None => HealthyPrimary']_vars

\* A primary that still serves the route and is not marked keeps it: neither
\* a lower node id nor a recovered node takes it away.
StickyPrimary ==
    [][\A r \in Routes :
          primary[r] # 0 /\ primary'[r] # primary[r] =>
              r \notin table'[primary[r]] \/ primary[r] \in unhealthy \cup unhealthy']_vars
=============================================================================
