------------------------ MODULE PrimaryRoutesProofs ------------------------
(***************************************************************************)
(* Proofs about PrimaryRoutes, for every number of nodes, every set of     *)
(* routes and every set of callers.                                        *)
(***************************************************************************)
EXTENDS PrimaryRoutes, WellFoundedInduction, TLAPS

-----------------------------------------------------------------------------
\* The election of one route.

\* Lowest finds the lowest node id: node ids are well-ordered.
LEMMA LowestIsLeast ==
    ASSUME NEW S, S \subseteq Nodes, S # {}
    PROVE  Lowest(S) \in S
<1>1. S \subseteq Nat
    BY MaxNodeAssumption DEF Nodes
<1>2. PICK x \in S : \A y \in S : ~(<<y, x>> \in OpToRel(<, Nat))
    BY <1>1, NatLessThanWellFounded, WFMin, Zenon
<1>3. \A y \in S : ~(y < x)
    BY <1>1, <1>2, Zenon DEF OpToRel
<1>4. \A y \in S : x <= y
    BY <1>1, <1>3
<1> QED
    BY <1>4 DEF Lowest

\* update_primary_locked chooses a server of the route, or nobody.
LEMMA ElectOneServes ==
    ASSUME NEW S, S \subseteq Nodes, NEW u, NEW n, ElectOne(S, u, n) # 0
    PROVE  ElectOne(S, u, n) \in S
<1>1. S \ u # {} => Lowest(S \ u) \in S \ u
    BY LowestIsLeast
<1> QED
    BY <1>1 DEF ElectOne, KeepsPrimary

\* It chooses a healthy server if there is one.
LEMMA ElectOneHealthy ==
    ASSUME NEW S, S \subseteq Nodes, NEW u, NEW n, S \ u # {}
    PROVE  ElectOne(S, u, n) \in S \ u
<1>1. Lowest(S \ u) \in S \ u
    BY LowestIsLeast
<1> QED
    BY <1>1 DEF ElectOne, KeepsPrimary

\* It leaves a healthy primary alone.
LEMMA ElectOneSticky ==
    ASSUME NEW S, NEW u, NEW n \in S, n \notin u
    PROVE  ElectOne(S, u, n) = n
BY DEF ElectOne, KeepsPrimary

-----------------------------------------------------------------------------
\* Elections of all routes, for any table and marks.

\* A type-correct table has the servers of a route among the nodes, and an
\* election gives every route one of its servers, a healthy one if possible.
LEMMA ElectResult ==
    ASSUME NEW t \in [Nodes -> SUBSET Routes], NEW u, NEW p
    PROVE  /\ Elect(t, u, p) \in [Routes -> 0 .. MaxNode]
           /\ \A r \in Routes :
                 Elect(t, u, p)[r] # 0 => r \in t[Elect(t, u, p)[r]]
           /\ \A r \in Routes :
                 Servers(t, r) \ u # {} => Elect(t, u, p)[r] \in Servers(t, r) \ u
<1>1. ASSUME NEW r \in Routes
      PROVE  /\ Elect(t, u, p)[r] = ElectOne(Servers(t, r), u, p[r])
             /\ Servers(t, r) \subseteq Nodes
    BY DEF Elect, Servers
<1>2. ASSUME NEW r \in Routes, Elect(t, u, p)[r] # 0
      PROVE  Elect(t, u, p)[r] \in Servers(t, r)
    BY <1>1, <1>2, ElectOneServes
<1>3. ASSUME NEW r \in Routes
      PROVE  ElectOne(Servers(t, r), u, p[r]) \in 0 .. MaxNode
    BY <1>1, <1>2, MaxNodeAssumption DEF Nodes
<1>4. Elect(t, u, p) \in [Routes -> 0 .. MaxNode]
    BY <1>3 DEF Elect
<1>5. ASSUME NEW r \in Routes, Servers(t, r) \ u # {}
      PROVE  Elect(t, u, p)[r] \in Servers(t, r) \ u
    BY <1>1, <1>5, ElectOneHealthy
<1> QED
    BY <1>2, <1>4, <1>5 DEF Servers

\* A route whose primary serves it and is unmarked keeps it.
LEMMA ElectSticky ==
    ASSUME NEW t \in [Nodes -> SUBSET Routes], NEW u, NEW p,
           NEW r \in Routes, p[r] \in Nodes, r \in t[p[r]], p[r] \notin u
    PROVE  Elect(t, u, p)[r] = p[r]
BY ElectOneSticky DEF Elect, Servers

-----------------------------------------------------------------------------
\* What one step does.

\* What a caller's use of the selector leaves: the primaries of one or two
\* elections over its table.
LEMMA SelectorStep ==
    ASSUME TypeOK, NEW c \in Callers, UsesSelector(c)
    PROVE  /\ table' \in [Nodes -> SUBSET Routes]
           /\ unhealthy' \subseteq Nodes
           /\ primary' \in [Routes -> 0 .. MaxNode]
           /\ PrimaryServes'
           /\ HealthyPrimary'
           /\ \A r \in Routes :
                 primary[r] \in Nodes /\ r \in table'[primary[r]]
                 /\ primary[r] \notin unhealthy \cup unhealthy'
                 => primary'[r] = primary[r]
<1>1. snapshot[c] # None /\ snapshot[c] \in [Nodes -> SUBSET Routes]
    BY DEF TypeOK, UsesSelector, ReadRoutes, ReportHealth
<1>2. LiveTable(c) \in [Nodes -> SUBSET Routes]
    BY <1>1 DEF LiveTable
<1>3. LiveMarks(c) \subseteq unhealthy /\ LiveMarks(c) \subseteq Nodes
    BY DEF TypeOK, LiveMarks
<1>4. CASE primary' = Synced(c) /\ table' = LiveTable(c) /\ unhealthy' = LiveMarks(c)
  <2>1. primary' = Elect(table', unhealthy', primary)
      BY <1>4 DEF Synced
  <2>2. table' \in [Nodes -> SUBSET Routes]
      BY <1>2, <1>4
  <2>3. /\ primary' \in [Routes -> 0 .. MaxNode]
        /\ \A r \in Routes : primary'[r] # 0 => r \in table'[primary'[r]]
        /\ \A r \in Routes : Servers(table', r) \ unhealthy' # {} =>
                                primary'[r] \in Servers(table', r) \ unhealthy'
      BY <2>1, <2>2, ElectResult
  <2>4. \A r \in Routes :
            primary[r] \in Nodes /\ r \in table'[primary[r]]
            /\ primary[r] \notin unhealthy \cup unhealthy'
            => primary'[r] = primary[r]
      BY <2>1, <2>2, ElectSticky
  <2> QED
      BY <1>3, <1>4, <2>2, <2>3, <2>4 DEF PrimaryServes, HealthyPrimary, Servers
<1>5. ASSUME NEW H \in SUBSET Nodes, NEW U \in SUBSET Nodes,
             table' = LiveTable(c), unhealthy' = Marks(c, H, U),
             primary' = Elect(LiveTable(c), Marks(c, H, U), Synced(c))
      PROVE  /\ table' \in [Nodes -> SUBSET Routes]
             /\ unhealthy' \subseteq Nodes
             /\ primary' \in [Routes -> 0 .. MaxNode]
             /\ PrimaryServes'
             /\ HealthyPrimary'
             /\ \A r \in Routes :
                   primary[r] \in Nodes /\ r \in table'[primary[r]]
                   /\ primary[r] \notin unhealthy \cup unhealthy'
                   => primary'[r] = primary[r]
  <2>1. primary' = Elect(table', unhealthy', Synced(c))
      BY <1>5
  <2>2. table' \in [Nodes -> SUBSET Routes]
      BY <1>2, <1>5
  <2>3. unhealthy' \subseteq Nodes
      BY <1>3, <1>5 DEF Marks
  <2>4. /\ primary' \in [Routes -> 0 .. MaxNode]
        /\ \A r \in Routes : primary'[r] # 0 => r \in table'[primary'[r]]
        /\ \A r \in Routes : Servers(table', r) \ unhealthy' # {} =>
                                primary'[r] \in Servers(table', r) \ unhealthy'
      BY <2>1, <2>2, ElectResult
  <2>5. ASSUME NEW r \in Routes, primary[r] \in Nodes, r \in table'[primary[r]],
               primary[r] \notin unhealthy \cup unhealthy'
        PROVE  primary'[r] = primary[r]
    <3>1. Synced(c)[r] = primary[r]
        BY <1>2, <1>3, <1>5, <2>5, ElectSticky DEF Synced
    <3> QED
        BY <2>1, <2>2, <2>5, <3>1, ElectSticky
  <2> QED
      BY <2>2, <2>3, <2>4, <2>5 DEF PrimaryServes, HealthyPrimary, Servers
<1>6. CASE ReadRoutes(c)
    BY <1>4, <1>6 DEF ReadRoutes
<1>7. ASSUME NEW H \in SUBSET Nodes, NEW U \in SUBSET Nodes, ReportHealth(c, H, U)
      PROVE  \/ primary' = Synced(c) /\ table' = LiveTable(c) /\ unhealthy' = LiveMarks(c)
             \/ /\ table' = LiveTable(c)
                /\ unhealthy' = Marks(c, H, U)
                /\ primary' = Elect(LiveTable(c), Marks(c, H, U), Synced(c))
    BY <1>7 DEF ReportHealth
<1>8. CASE \E H, U \in SUBSET Nodes : ReportHealth(c, H, U)
    BY <1>4, <1>5, <1>7, <1>8
<1> QED
    BY <1>6, <1>8 DEF UsesSelector

\* The steps that are not a use of the selector leave table and primaries.
LEMMA OtherStep ==
    ASSUME TypeOK, Next, ~(\E c \in Callers : UsesSelector(c))
    PROVE  /\ UNCHANGED <<table, primary>>
           /\ unhealthy' \subseteq unhealthy
           /\ \A c \in Callers : ~(snapshot[c] # None /\ snapshot'[c] = None)
<1>1. ASSUME NEW c \in Callers, TakeSnapshot(c)
      PROVE  /\ UNCHANGED <<table, primary>>
             /\ unhealthy' \subseteq unhealthy
             /\ \A k \in Callers : ~(snapshot[k] # None /\ snapshot'[k] = None)
    BY <1>1 DEF TakeSnapshot, selectorVars, TypeOK
<1>2. ASSUME NEW n \in Nodes, ClearUnhealthy(n) \/ Connect(n) \/ Leave(n) \/ ExpiryChanges(n)
      PROVE  /\ UNCHANGED <<table, primary, snapshot>>
             /\ unhealthy' \subseteq unhealthy
    BY <1>2 DEF ClearUnhealthy, Connect, Leave, ExpiryChanges, selectorVars
<1>3. ASSUME NEW n \in Nodes, NEW R \in SUBSET Routes,
             SetApprovedRoutes(n, R) \/ SetAvailableRoutes(n, R)
      PROVE  UNCHANGED <<table, primary, unhealthy, snapshot>>
    BY <1>3 DEF SetApprovedRoutes, SetAvailableRoutes, selectorVars
<1> QED
    BY <1>1, <1>2, <1>3 DEF Next

-----------------------------------------------------------------------------

\* The invariant: the shape of the state, and the primaries' routes.
Inv == TypeOK /\ PrimaryServes

\* Before the first caller the selector is empty.
LEMMA InitInv == ASSUME Init PROVE Inv
BY MaxNodeAssumption DEF Init, Inv, TypeOK, PrimaryServes

\* The nodes and the snapshots keep their shape.
LEMMA NodesStep ==
    ASSUME TypeOK, Next
    PROVE  /\ serves' \in [Nodes -> SUBSET Routes]
           /\ online' \subseteq Nodes
           /\ clearing' \subseteq Nodes
           /\ snapshot' \in [Callers -> [Nodes -> SUBSET Routes] \cup {None}]
<1>1. ASSUME NEW c \in Callers, TakeSnapshot(c)
      PROVE  /\ UNCHANGED nodeVars
             /\ snapshot' \in [Callers -> [Nodes -> SUBSET Routes] \cup {None}]
    BY <1>1 DEF TypeOK, TakeSnapshot, nodeVars
<1>2. ASSUME NEW c \in Callers, UsesSelector(c)
      PROVE  /\ UNCHANGED nodeVars
             /\ snapshot' \in [Callers -> [Nodes -> SUBSET Routes] \cup {None}]
    BY <1>2 DEF TypeOK, UsesSelector, ReadRoutes, ReportHealth, nodeVars
<1>3. ASSUME NEW n \in Nodes, ClearUnhealthy(n) \/ Connect(n) \/ Leave(n) \/ ExpiryChanges(n)
      PROVE  /\ UNCHANGED <<serves, snapshot>>
             /\ online' \subseteq Nodes /\ clearing' \subseteq Nodes
    BY <1>3 DEF ClearUnhealthy, Connect, Leave, ExpiryChanges, TypeOK
<1>4. ASSUME NEW n \in Nodes, NEW R \in SUBSET Routes, SetApprovedRoutes(n, R)
      PROVE  /\ UNCHANGED <<online, snapshot>>
             /\ serves' \in [Nodes -> SUBSET Routes] /\ clearing' \subseteq Nodes
    BY <1>4 DEF SetApprovedRoutes, TypeOK
<1>5. ASSUME NEW n \in Nodes, NEW R \in SUBSET Routes, SetAvailableRoutes(n, R)
      PROVE  UNCHANGED <<online, clearing, snapshot>> /\ serves' \in [Nodes -> SUBSET Routes]
    BY <1>5 DEF SetAvailableRoutes, TypeOK
<1> QED
    BY <1>1, <1>2, <1>3, <1>4, <1>5 DEF Next, TypeOK, nodeVars

\* Every step preserves the invariant.
LEMMA NextInv == ASSUME Inv, [Next]_vars PROVE Inv'
<1>1. CASE UNCHANGED vars
    BY <1>1 DEF Inv, TypeOK, PrimaryServes, vars, nodeVars, selectorVars
<1>2. ASSUME Next, NEW c \in Callers, UsesSelector(c)
      PROVE  Inv'
    BY <1>2, SelectorStep, NodesStep DEF Inv, TypeOK
<1>3. CASE Next /\ ~(\E c \in Callers : UsesSelector(c))
    BY <1>3, OtherStep, NodesStep DEF Inv, TypeOK, PrimaryServes
<1> QED
    BY <1>1, <1>2, <1>3

\* The shape of the state and the primaries' routes, in every history.
THEOREM Invariance == Spec => []Inv
BY InitInv, NextInv, PTL DEF Spec

\* update_primary_locked and its callers keep the state's shape.
THEOREM TypeCorrect == Spec => []TypeOK
<1>1. Inv => TypeOK
    BY DEF Inv
<1> QED
    BY <1>1, Invariance, PTL

\* A primary always serves its route, in the selector's table.
THEOREM PrimaryAlwaysServes == Spec => []PrimaryServes
<1>1. Inv => PrimaryServes
    BY DEF Inv
<1> QED
    BY <1>1, Invariance, PTL

\* After every use of the selector a route with a healthy server has one as
\* its primary.
THEOREM HealthyPreferred == Spec => ElectionsPreferHealthy
<1>1. ASSUME Inv, [Next]_vars
      PROVE  [\A c \in Callers : snapshot[c] # None /\ snapshot'[c] = None => HealthyPrimary']_vars
  <2>1. ASSUME Next, NEW c \in Callers, UsesSelector(c)
        PROVE  HealthyPrimary'
      BY <1>1, <2>1, SelectorStep DEF Inv
  <2>2. CASE Next /\ ~(\E c \in Callers : UsesSelector(c))
      BY <1>1, <2>2, OtherStep DEF Inv
  <2> QED
      BY <1>1, <2>1, <2>2
<1> QED
    BY <1>1, Invariance, PTL DEF Spec, ElectionsPreferHealthy

\* A primary that serves its route and is not marked keeps it.
THEOREM PrimarySticky == Spec => StickyPrimary
<1>1. ASSUME Inv, [Next]_vars
      PROVE  [\A r \in Routes :
                 primary[r] # 0 /\ primary'[r] # primary[r] =>
                     r \notin table'[primary[r]] \/ primary[r] \in unhealthy \cup unhealthy']_vars
  <2>1. \A r \in Routes : primary[r] # 0 => primary[r] \in Nodes
      BY <1>1, MaxNodeAssumption DEF Inv, TypeOK, Nodes
  <2>2. ASSUME Next, NEW c \in Callers, UsesSelector(c), NEW r \in Routes,
               primary[r] # 0, primary'[r] # primary[r]
        PROVE  r \notin table'[primary[r]] \/ primary[r] \in unhealthy \cup unhealthy'
      BY <1>1, <2>1, <2>2, SelectorStep DEF Inv
  <2>3. CASE Next /\ ~(\E c \in Callers : UsesSelector(c))
      BY <1>1, <2>3, OtherStep DEF Inv
  <2> QED
      BY <1>1, <2>2, <2>3
<1> QED
    BY <1>1, Invariance, PTL DEF Spec, StickyPrimary
=============================================================================
