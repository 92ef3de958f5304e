---------------------- MODULE AuthKeyRegistrationProofs ----------------------
(***************************************************************************)
(* Proofs about AuthKeyRegistration, for any number of machines, node      *)
(* keys, preauth keys and requests: a one-shot key admits once, who is     *)
(* told of a registration has one, the registry and the table agree        *)
(* wherever nobody is at work, and no two machines own a node key.         *)
(***************************************************************************)
EXTENDS AuthKeyRegistration, TLAPS

-----------------------------------------------------------------------------
(* The inductive invariant.                                                *)

\* Where a request knows the id of a node, has changed the registry and not
\* the table, and where it has the verdict on its node key behind it.
HasId   == {"begin", "save", "rollback", "put", "publish", "destroy", "remove"}
Halfway == {"save", "rollback"}
Decided == {"begin", "save", "rollback", "insert", "put", "publish"}

\* What a request has found out so far is there.
TaskShape ==
    \A r \in Requests : pc[r] # "idle" =>
        /\ task[r] \in Task
        /\ pc[r] \in HasId => task[r].id \in Ids
        /\ pc[r] \notin {"destroy", "remove"} => task[r].key \in Keys
        /\ pc[r] \in {"begin", "save", "insert"} => task[r].captured \in KeyRow
        /\ pc[r] \in Halfway => task[r].before \in Before

\* A key that was needed is used up, and a request that needs the key has
\* read it unused.
NeededIsUsed ==
    \A k \in OneShot :
        /\ admitted[k] <= 1
        /\ admitted[k] = 1 => keyRow[k] # None /\ keyRow[k].used

FreshReadUnused ==
    \A r \in Requests :
        pc[r] \in {"begin", "save", "insert"} /\ task[r].fresh /\ task[r].key \in OneShot
            => ~task[r].captured.used

\* A node is in the registry once, and a machine has one node.
LiveUnique ==
    \A n1, n2 \in NodeKeys :
        /\ live[n1] # None /\ live[n2] # None
        /\ live[n1].id = live[n2].id \/ live[n1].machine = live[n2].machine
        => n1 = n2

\* A request works on a node of its own machine, and nobody else does.
OwnNode ==
    \A r \in Requests, n \in NodeKeys :
        pc[r] \in HasId /\ live[n] # None /\ live[n].id = task[r].id
            => live[n].machine = task[r].machine

OwnIds ==
    \A r, q \in Requests :
        r # q /\ pc[r] \in HasId /\ pc[q] \in HasId => task[r].id # task[q].id

\* The ids given out are below the next one.
IdsBelow ==
    /\ \A n \in NodeKeys : live[n] # None => live[n].id < nextId
    /\ \A r \in Requests : pc[r] \in HasId => task[r].id < nextId

\* The registry has the node of a request under the node key of the request.
NodeInPlace ==
    \A r \in Requests :
        pc[r] \in {"save", "rollback", "publish", "destroy", "remove"} =>
            live[task[r].nkey] # None /\ live[task[r].nkey].id = task[r].id

\* A machine that registers anew has no node.
NoNodeYet ==
    \A r \in Requests, n \in NodeKeys :
        pc[r] \in {"insert", "put"} /\ live[n] # None => live[n].machine # task[r].machine

\* What the registry had and what it has now differ by this registration.
BeforeKnown ==
    \A r \in Requests : pc[r] \in Halfway =>
        LET t == task[r] IN
        /\ t.before.node.id = t.id /\ t.before.node.machine = t.machine
        /\ live[t.nkey].key = t.key
        /\ live[t.nkey].tagged = (t.before.node.tagged \/ Retags(t, t.before.node))

\* Rows: a node of the registry has one until its deletion, a new one has it
\* before the registry knows the node.
RowKept ==
    \A n \in NodeKeys :
        live[n] # None /\ (\A r \in Requests : pc[r] = "remove" => task[r].id # live[n].id)
            => rows[live[n].id] # None

RowFirst ==
    \A r \in Requests : pc[r] = "put" =>
        LET t == task[r] IN
        /\ rows[t.id] # None
        /\ rows[t.id].machine = t.machine /\ rows[t.id].nkey = t.nkey
        /\ rows[t.id].key \in {t.key, None} /\ rows[t.id].tagged = (t.key \in Tagged)

RowGone == \A r \in Requests : pc[r] = "remove" => rows[task[r].id] = None

\* The node key of a request r is wanted by another machine: the node of that
\* is there, or a registration of it may still put it back.
Taken(r)     == live[task[r].nkey] # None /\ live[task[r].nkey].machine # task[r].machine
Rival(r, q)  == q # r /\ pc[q] \in Halfway /\ task[q].before.nkey = task[r].nkey
Disputed(r)  == Taken(r) \/ \E q \in Requests : Rival(r, q)

TakersForeign ==
    \A r \in Requests : pc[r] \in Decided =>
        /\ Taken(r) => live[task[r].nkey].id \in foreign
        /\ \A q \in Requests : Rival(r, q) => task[q].id \in foreign

DisputesKnown ==
    \A r \in Requests :
        /\ pc[r] \in {"begin", "save", "insert"} /\ Disputed(r) => task[r].contested
        /\ pc[r] = "put" /\ Disputed(r) => task[r].id \in foreign

\* Whoever has the node key that a request may want back is in a dispute with
\* it; so are two requests that may want back the same.
OldKeyFree ==
    \A q \in Requests :
        LET n == task[q].before.nkey IN
        pc[q] \in Halfway /\ live[n] # None /\ live[n].id # task[q].id =>
            /\ task[q].id \in foreign
            /\ \/ live[n].id \in foreign
               \/ \E p \in Requests : /\ pc[p] \in Halfway /\ task[p].id = live[n].id
                                      /\ task[p].contested

OldKeysDiffer ==
    \A p, q \in Requests :
        /\ p # q /\ pc[p] \in Halfway /\ pc[q] \in Halfway
        /\ task[p].before.nkey = task[q].before.nkey
        => task[p].id \in foreign

\* The row says of the node what the registry says, or said before.
Describes(row, n, node) ==
    /\ row # None
    /\ row.machine = node.machine /\ row.nkey = n /\ row.tagged = node.tagged
    /\ row.key \in {node.key, None}

RowsCurrent ==
    \A n \in NodeKeys :
        /\ live[n] # None /\ live[n].id \notin foreign
        /\ \A r \in Requests : pc[r] \in Halfway \cup {"remove"} => task[r].id # live[n].id
        => Describes(rows[live[n].id], n, live[n])

RowsBefore ==
    \A r \in Requests :
        pc[r] \in Halfway /\ task[r].id \notin foreign
            => Describes(rows[task[r].id], task[r].before.nkey, task[r].before.node)

RowsHaveNodes ==
    \A id \in Ids :
        rows[id] # None /\ id \notin foreign
            => \/ LiveKeys(id) # {}
               \/ \E r \in Requests : pc[r] = "put" /\ task[r].id = id

Inv ==
    /\ TypeOK /\ TaskShape
    /\ NeededIsUsed /\ FreshReadUnused
    /\ LiveUnique /\ OwnNode /\ OwnIds /\ IdsBelow /\ NodeInPlace /\ NoNodeYet /\ BeforeKnown
    /\ RowKept /\ RowFirst /\ RowGone /\ RegisteredIsSaved
    /\ TakersForeign /\ DisputesKnown /\ OldKeyFree /\ OldKeysDiffer
    /\ RowsCurrent /\ RowsBefore /\ RowsHaveNodes

-----------------------------------------------------------------------------
(* Types and locks.                                                        *)

StoreShape ==
    /\ live \in [NodeKeys -> Live \cup {None}] /\ lapsed \subseteq Ids
    /\ rows \in [Ids -> Row \cup {None}] /\ nextId \in 1..MaxId + 1
    /\ keyRow \in [Keys -> KeyRow \cup {None}]
    /\ admitted \in [Keys -> 0..2] /\ foreign \subseteq Ids

ControlShape ==
    /\ mlock \in [Machines -> Requests \cup {None}]
    /\ nlock \in [NodeKeys -> Requests \cup {None}]
    /\ persist \in Requests \cup {None}
    /\ pc \in [Requests -> {"idle"} \cup HasMachine]
    /\ task \in [Requests -> Task \cup {None}]

LocksHeld ==
    \A r \in Requests :
        /\ pc[r] \in HasMachine => mlock[task[r].machine] = r
        /\ pc[r] \in HasNodeKey => nlock[task[r].nkey] = r
        /\ pc[r] \in HasPersist <=> persist = r

LEMMA TypeParts == TypeOK <=> StoreShape /\ ControlShape /\ LocksHeld
BY DEF TypeOK, StoreShape, ControlShape, LocksHeld

\* The other requests stay where they are.
Alone(r) == \A q \in Requests : q # r => pc'[q] = pc[q] /\ task'[q] = task[q]

\* Two requests at work are of two machines, with two node keys.
LEMMA Apart ==
    ASSUME TypeOK, NEW r \in Requests, NEW q \in Requests, r # q
    PROVE  /\ pc[r] \in HasMachine /\ pc[q] \in HasMachine
                => task[r].machine # task[q].machine
           /\ pc[r] \in HasNodeKey /\ pc[q] \in HasNodeKey
                => task[r].nkey # task[q].nkey
BY TypeParts DEF LocksHeld

\* The fields of a task.
LEMMA TaskFields ==
    ASSUME TypeOK, TaskShape, NEW r \in Requests, pc[r] # "idle"
    PROVE  /\ task[r] \in Task /\ task[r].machine \in Machines /\ task[r].nkey \in NodeKeys
           /\ task[r].fresh \in BOOLEAN /\ task[r].contested \in BOOLEAN
           /\ pc[r] \in HasId => task[r].id \in Ids
           /\ pc[r] \notin {"destroy", "remove"} => task[r].key \in Keys
           /\ pc[r] \in {"begin", "save", "insert"} =>
                 /\ task[r].captured \in KeyRow
                 /\ task[r].captured.used \in BOOLEAN /\ task[r].captured.expired \in BOOLEAN
           /\ pc[r] \in Halfway => /\ task[r].before \in Before
                                   /\ task[r].before.nkey \in NodeKeys
                                   /\ task[r].before.node \in Live
                                   /\ task[r].before.lapsed \in BOOLEAN
<1>1. task[r] \in Task
  BY DEF TaskShape
<1>2. /\ task[r].machine \in Machines /\ task[r].nkey \in NodeKeys
      /\ task[r].fresh \in BOOLEAN /\ task[r].contested \in BOOLEAN
  BY <1>1 DEF Task
<1>3. pc[r] \in {"begin", "save", "insert"} =>
         /\ task[r].captured \in KeyRow
         /\ task[r].captured.used \in BOOLEAN /\ task[r].captured.expired \in BOOLEAN
  BY DEF TaskShape, KeyRow
<1>4. pc[r] \in Halfway => /\ task[r].before \in Before
                           /\ task[r].before.nkey \in NodeKeys
                           /\ task[r].before.node \in Live
                           /\ task[r].before.lapsed \in BOOLEAN
  BY DEF TaskShape, Before
<1>5. /\ pc[r] \in HasId => task[r].id \in Ids
      /\ pc[r] \notin {"destroy", "remove"} => task[r].key \in Keys
  BY DEF TaskShape
<1> QED BY <1>1, <1>2, <1>3, <1>4, <1>5

\* The fields of a node, a row and a key row.
LEMMA StoreFields ==
    ASSUME TypeOK
    PROVE  /\ \A n \in NodeKeys : live[n] # None =>
                 /\ live[n] \in Live /\ live[n].id \in Ids /\ live[n].machine \in Machines
                 /\ live[n].key \in Keys \cup {None} /\ live[n].tagged \in BOOLEAN
           /\ \A id \in Ids : rows[id] # None =>
                 /\ rows[id] \in Row /\ rows[id].machine \in Machines /\ rows[id].nkey \in NodeKeys
                 /\ rows[id].key \in Keys \cup {None} /\ rows[id].tagged \in BOOLEAN
           /\ \A k \in Keys : keyRow[k] # None =>
                 /\ keyRow[k] \in KeyRow
                 /\ keyRow[k].used \in BOOLEAN /\ keyRow[k].expired \in BOOLEAN
<1>1. /\ live \in [NodeKeys -> Live \cup {None}] /\ rows \in [Ids -> Row \cup {None}]
      /\ keyRow \in [Keys -> KeyRow \cup {None}]
  BY DEF TypeOK
<1>2. \A n \in NodeKeys : live[n] # None => live[n] \in Live
  BY <1>1
<1>3. \A n \in NodeKeys : live[n] # None =>
         /\ live[n].id \in Ids /\ live[n].machine \in Machines
         /\ live[n].key \in Keys \cup {None} /\ live[n].tagged \in BOOLEAN
  BY <1>2 DEF Live
<1>4. \A id \in Ids : rows[id] # None => rows[id] \in Row
  BY <1>1
<1>5. \A id \in Ids : rows[id] # None =>
         /\ rows[id].machine \in Machines /\ rows[id].nkey \in NodeKeys
         /\ rows[id].key \in Keys \cup {None} /\ rows[id].tagged \in BOOLEAN
  BY <1>4 DEF Row
<1>6. \A k \in Keys : keyRow[k] # None => keyRow[k] \in KeyRow
  BY <1>1
<1>7. \A k \in Keys : keyRow[k] # None =>
         keyRow[k].used \in BOOLEAN /\ keyRow[k].expired \in BOOLEAN
  BY <1>6 DEF KeyRow
<1> QED BY <1>2, <1>3, <1>4, <1>5, <1>6, <1>7

\* A request that fails leaves its locks, and nobody else's.
LEMMA FailTyped ==
    ASSUME TypeOK, TaskShape, NEW r \in Requests, Fail(r)
    PROVE  /\ ControlShape' /\ LocksHeld' /\ TaskShape'
           /\ pc'[r] = "idle" /\ Alone(r)
<1> USE AuthKeyAssumption
<1>1. ControlShape /\ LocksHeld
  BY TypeParts
<1>2. /\ mlock' = [m \in Machines |-> IF mlock[m] = r THEN None ELSE mlock[m]]
      /\ nlock' = [n \in NodeKeys |-> IF nlock[n] = r THEN None ELSE nlock[n]]
      /\ persist' = IF persist = r THEN None ELSE persist
      /\ pc' = [pc EXCEPT ![r] = "idle"]
      /\ task' = [task EXCEPT ![r] = None]
  BY DEF Fail, Release, Goto
<1>3. pc'[r] = "idle" /\ Alone(r)
  BY <1>1, <1>2 DEF Alone, ControlShape
<1>4. ControlShape'
  <2>1. mlock' \in [Machines -> Requests \cup {None}]
    BY <1>1, <1>2 DEF ControlShape
  <2>2. nlock' \in [NodeKeys -> Requests \cup {None}]
    BY <1>1, <1>2 DEF ControlShape
  <2>3. pc' \in [Requests -> {"idle"} \cup HasMachine] /\ task' \in [Requests -> Task \cup {None}]
    BY <1>1, <1>2 DEF ControlShape
  <2> QED BY <1>1, <1>2, <2>1, <2>2, <2>3 DEF ControlShape
<1>5. LocksHeld'
  <2> SUFFICES ASSUME NEW q \in Requests
               PROVE  /\ pc'[q] \in HasMachine => mlock'[task'[q].machine] = q
                      /\ pc'[q] \in HasNodeKey => nlock'[task'[q].nkey] = q
                      /\ pc'[q] \in HasPersist <=> persist' = q
    BY DEF LocksHeld
  <2>1. CASE q = r
    <3>1. "idle" \notin HasMachine \cup HasNodeKey \cup HasPersist
      BY DEF HasMachine, HasNodeKey, HasPersist
    <3> QED BY <1>2, <1>3, <2>1, <3>1
  <2>2. CASE q # r
    <3>1. pc'[q] = pc[q] /\ task'[q] = task[q]
      BY <1>3, <2>2 DEF Alone
    <3>2. pc[q] \in HasMachine \cup HasNodeKey =>
              pc[q] # "idle" /\ task[q].machine \in Machines /\ task[q].nkey \in NodeKeys
      BY TaskFields DEF HasMachine, HasNodeKey
    <3>3. pc[q] \in HasPersist <=> persist' = q
      BY <1>1, <1>2, <2>2 DEF LocksHeld
    <3> QED BY <1>1, <1>2, <2>2, <3>1, <3>2, <3>3 DEF LocksHeld
  <2> QED BY <2>1, <2>2
<1>6. TaskShape'
  BY <1>3 DEF TaskShape, Alone
<1> QED BY <1>3, <1>4, <1>5, <1>6

\* A request that has its locks goes on.
LEMMA MoveTyped ==
    ASSUME TypeOK, TaskShape, NEW r \in Requests, pc[r] \in HasMachine,
           NEW l \in HasMachine, l \in HasNodeKey => pc[r] \in HasNodeKey,
           NEW u \in Task, u.machine = task[r].machine, u.nkey = task[r].nkey,
           pc' = [pc EXCEPT ![r] = l], task' = [task EXCEPT ![r] = u],
           UNCHANGED <<mlock, nlock>>,
           \/ persist' = persist /\ pc[r] \notin HasPersist /\ l \notin HasPersist
           \/ persist = None /\ persist' = r /\ l \in HasPersist
    PROVE  ControlShape' /\ LocksHeld' /\ Alone(r) /\ pc'[r] = l /\ task'[r] = u
<1> USE AuthKeyAssumption
<1>1. ControlShape /\ LocksHeld
  BY TypeParts
<1>2. pc'[r] = l /\ task'[r] = u /\ Alone(r)
  BY <1>1 DEF ControlShape, Alone
<1>3. ControlShape'
  BY <1>1 DEF ControlShape
<1>4. LocksHeld'
  <2> SUFFICES ASSUME NEW q \in Requests
               PROVE  /\ pc'[q] \in HasMachine => mlock'[task'[q].machine] = q
                      /\ pc'[q] \in HasNodeKey => nlock'[task'[q].nkey] = q
                      /\ pc'[q] \in HasPersist <=> persist' = q
    BY DEF LocksHeld
  <2>1. CASE q = r
    <3>1. mlock[task[r].machine] = r /\ (pc[r] \in HasNodeKey => nlock[task[r].nkey] = r)
      BY <1>1 DEF LocksHeld
    <3>2. pc[r] \in HasPersist <=> persist = r
      BY <1>1 DEF LocksHeld
    <3> QED BY <1>2, <2>1, <3>1, <3>2
  <2>2. CASE q # r
    <3>1. pc'[q] = pc[q] /\ task'[q] = task[q]
      BY <1>2, <2>2 DEF Alone
    <3>2. /\ pc[q] \in HasMachine => mlock[task[q].machine] = q
          /\ pc[q] \in HasNodeKey => nlock[task[q].nkey] = q
          /\ pc[q] \in HasPersist <=> persist = q
      BY <1>1 DEF LocksHeld
    <3> QED BY <2>2, <3>1, <3>2
  <2> QED BY <2>1, <2>2
<1> QED BY <1>2, <1>3, <1>4

\* The request of an unfinished step stays as it is.
LEMMA SameTask ==
    ASSUME TypeOK, NEW r \in Requests, UNCHANGED task
    PROVE  task' = [task EXCEPT ![r] = task[r]]
BY DEF TypeOK

\* One task of its shape, and the others as they were.
LEMMA ShapeKept ==
    ASSUME TaskShape, NEW r \in Requests, Alone(r),
           pc'[r] # "idle" =>
              /\ task'[r] \in Task
              /\ pc'[r] \in HasId => task'[r].id \in Ids
              /\ pc'[r] \notin {"destroy", "remove"} => task'[r].key \in Keys
              /\ pc'[r] \in {"begin", "save", "insert"} => task'[r].captured \in KeyRow
              /\ pc'[r] \in Halfway => task'[r].before \in Before
    PROVE  TaskShape'
BY DEF TaskShape, Alone

LEMMA StartRegisterTyped ==
    ASSUME TypeOK, TaskShape, NEW r \in Requests, NEW m \in Machines, NEW n \in NodeKeys,
           NEW k \in Keys, StartRegister(r, m, n, k)
    PROVE  /\ ControlShape' /\ LocksHeld' /\ TaskShape'
           /\ Alone(r) /\ pc[r] = "idle" /\ pc'[r] = "lockNodeKey"
<1> USE AuthKeyAssumption
<1> DEFINE u == [machine |-> m, nkey |-> n, key |-> k, id |-> None, captured |-> None,
                 fresh |-> TRUE, before |-> None, contested |-> FALSE]
<1>1. u \in Task /\ u.machine = m /\ u.key = k
  BY DEF Task
<1>2. /\ pc[r] = "idle" /\ mlock[m] = None
      /\ mlock' = [mlock EXCEPT ![m] = r]
      /\ task' = [task EXCEPT ![r] = u]
      /\ pc' = [pc EXCEPT ![r] = "lockNodeKey"]
      /\ nlock' = nlock /\ persist' = persist
  BY DEF StartRegister, Goto
<1> HIDE DEF u
<1>3. ControlShape /\ LocksHeld
  BY TypeParts
<1>4. pc'[r] = "lockNodeKey" /\ task'[r] = u /\ Alone(r)
  BY <1>2, <1>3 DEF ControlShape, Alone
<1>5. ControlShape'
  BY <1>1, <1>2, <1>3 DEF ControlShape, HasMachine
<1>6. LocksHeld'
  <2> SUFFICES ASSUME NEW q \in Requests
               PROVE  /\ pc'[q] \in HasMachine => mlock'[task'[q].machine] = q
                      /\ pc'[q] \in HasNodeKey => nlock'[task'[q].nkey] = q
                      /\ pc'[q] \in HasPersist <=> persist' = q
    BY DEF LocksHeld
  <2>0. m \in DOMAIN mlock
    BY <1>3 DEF ControlShape
  <2>1. CASE q = r
    <3>1. persist # r
      BY <1>2, <1>3 DEF LocksHeld, HasPersist
    <3> QED BY <1>1, <1>2, <1>4, <2>0, <2>1, <3>1 DEF HasNodeKey, HasPersist
  <2>2. CASE q # r
    <3>1. pc'[q] = pc[q] /\ task'[q] = task[q]
      BY <1>4, <2>2 DEF Alone
    <3>2. /\ pc[q] \in HasMachine => mlock[task[q].machine] = q
          /\ pc[q] \in HasNodeKey => nlock[task[q].nkey] = q
          /\ pc[q] \in HasPersist <=> persist = q
      BY <1>3 DEF LocksHeld
    <3>3. pc[q] \in HasMachine => mlock'[task[q].machine] = q
      BY <1>2, <2>0, <2>2, <3>2
    <3> QED BY <1>2, <3>1, <3>2, <3>3
  <2> QED BY <2>1, <2>2
<1>7. TaskShape'
  BY <1>1, <1>4, ShapeKept DEF HasId, Halfway
<1> QED BY <1>2, <1>4, <1>5, <1>6, <1>7

LEMMA LockNodeKeyTyped ==
    ASSUME TypeOK, TaskShape, NEW r \in Requests, LockNodeKey(r)
    PROVE  /\ ControlShape' /\ LocksHeld' /\ TaskShape'
           /\ Alone(r) /\ pc[r] = "lockNodeKey" /\ pc'[r] = "decide"
<1> USE AuthKeyAssumption
<1>1. /\ pc[r] = "lockNodeKey" /\ nlock[task[r].nkey] = None
      /\ nlock' = [nlock EXCEPT ![task[r].nkey] = r]
      /\ pc' = [pc EXCEPT ![r] = "decide"]
      /\ mlock' = mlock /\ persist' = persist /\ task' = task
  BY DEF LockNodeKey, Goto
<1>2. ControlShape /\ LocksHeld
  BY TypeParts
<1>3. pc'[r] = "decide" /\ Alone(r)
  BY <1>1, <1>2 DEF ControlShape, Alone
<1>4. ControlShape'
  BY <1>1, <1>2 DEF ControlShape, HasMachine
<1>5. task[r].nkey \in NodeKeys /\ task[r] \in Task /\ task[r].key \in Keys
  BY <1>1, TaskFields
<1>6. LocksHeld'
  <2> SUFFICES ASSUME NEW q \in Requests
               PROVE  /\ pc'[q] \in HasMachine => mlock'[task'[q].machine] = q
                      /\ pc'[q] \in HasNodeKey => nlock'[task'[q].nkey] = q
                      /\ pc'[q] \in HasPersist <=> persist' = q
    BY DEF LocksHeld
  <2>0. task[r].nkey \in DOMAIN nlock
    BY <1>2, <1>5 DEF ControlShape
  <2>1. CASE q = r
    <3>1. persist # r /\ mlock[task[r].machine] = r
      BY <1>1, <1>2 DEF LocksHeld, HasPersist, HasMachine
    <3> QED BY <1>1, <1>3, <2>0, <2>1, <3>1 DEF HasPersist
  <2>2. CASE q # r
    <3>1. pc'[q] = pc[q] /\ task'[q] = task[q]
      BY <1>3, <2>2 DEF Alone
    <3>2. /\ pc[q] \in HasMachine => mlock[task[q].machine] = q
          /\ pc[q] \in HasNodeKey => nlock[task[q].nkey] = q
          /\ pc[q] \in HasPersist <=> persist = q
      BY <1>2 DEF LocksHeld
    <3>3. pc[q] \in HasNodeKey => nlock'[task[q].nkey] = q
      BY <1>1, <2>0, <2>2, <3>2
    <3> QED BY <1>1, <3>1, <3>2, <3>3
  <2> QED BY <2>1, <2>2
<1>7. TaskShape'
  BY <1>1, <1>3, <1>5, ShapeKept DEF HasId, Halfway
<1> QED BY <1>1, <1>3, <1>4, <1>6, <1>7

LEMMA StartDeleteTyped ==
    ASSUME TypeOK, TaskShape, NEW r \in Requests, NEW n \in NodeKeys, StartDelete(r, n)
    PROVE  /\ ControlShape' /\ LocksHeld' /\ TaskShape'
           /\ Alone(r) /\ pc[r] = "idle" /\ pc'[r] = "destroy"
           /\ live[n] # None /\ mlock[live[n].machine] = None
           /\ task'[r].machine = live[n].machine /\ task'[r].nkey = n
           /\ task'[r].id = live[n].id
           /\ UNCHANGED <<storeVars, admitted, foreign>>
<1> USE AuthKeyAssumption
<1> DEFINE u == [machine |-> live[n].machine, nkey |-> n, key |-> None, id |-> live[n].id,
                 captured |-> None, fresh |-> FALSE, before |-> None, contested |-> FALSE]
<1>0. /\ pc[r] = "idle" /\ live[n] # None /\ mlock[live[n].machine] = None
      /\ mlock' = [mlock EXCEPT ![live[n].machine] = r]
      /\ task' = [task EXCEPT ![r] = u]
      /\ pc' = [pc EXCEPT ![r] = "destroy"]
      /\ nlock' = nlock /\ persist' = persist
      /\ UNCHANGED <<storeVars, admitted, foreign>>
  BY DEF StartDelete, Goto
<1>00. live[n].machine \in Machines /\ live[n].id \in Ids
  BY <1>0, StoreFields
<1>1. /\ u \in Task /\ u.machine = live[n].machine /\ u.id = live[n].id /\ u.nkey = n
      /\ u.id \in Ids
  BY <1>00 DEF Task
<1> HIDE DEF u
<1>3. ControlShape /\ LocksHeld
  BY TypeParts
<1>4. pc'[r] = "destroy" /\ task'[r] = u /\ Alone(r)
  BY <1>0, <1>3 DEF ControlShape, Alone
<1>5. ControlShape'
  <2>1. mlock' \in [Machines -> Requests \cup {None}]
    BY <1>0, <1>00, <1>3 DEF ControlShape
  <2> QED BY <1>0, <1>1, <1>3, <2>1 DEF ControlShape, HasMachine
<1>6. LocksHeld'
  <2> SUFFICES ASSUME NEW q \in Requests
               PROVE  /\ pc'[q] \in HasMachine => mlock'[task'[q].machine] = q
                      /\ pc'[q] \in HasNodeKey => nlock'[task'[q].nkey] = q
                      /\ pc'[q] \in HasPersist <=> persist' = q
    BY DEF LocksHeld
  <2>0. live[n].machine \in DOMAIN mlock
    BY <1>00, <1>3 DEF ControlShape
  <2>1. CASE q = r
    <3>1. persist # r
      BY <1>0, <1>3 DEF LocksHeld, HasPersist
    <3> QED BY <1>1, <1>0, <1>4, <2>0, <2>1, <3>1 DEF HasNodeKey, HasPersist
  <2>2. CASE q # r
    <3>1. pc'[q] = pc[q] /\ task'[q] = task[q]
      BY <1>4, <2>2 DEF Alone
    <3>2. /\ pc[q] \in HasMachine => mlock[task[q].machine] = q
          /\ pc[q] \in HasNodeKey => nlock[task[q].nkey] = q
          /\ pc[q] \in HasPersist <=> persist = q
      BY <1>3 DEF LocksHeld
    <3>3. pc[q] \in HasMachine => mlock'[task[q].machine] = q
      BY <1>0, <2>0, <2>2, <3>2
    <3> QED BY <1>0, <3>1, <3>2, <3>3
  <2> QED BY <2>1, <2>2
<1>7. TaskShape'
  BY <1>1, <1>4, ShapeKept DEF HasId, Halfway
<1> QED BY <1>0, <1>1, <1>4, <1>5, <1>6, <1>7

-----------------------------------------------------------------------------
(* What the steps of a request do, record by record.                       *)

LEMMA DecideEffect ==
    ASSUME TypeOK, TaskShape, NEW r \in Requests, Decide(r), Accepted(task[r])
    PROVE  /\ StoreShape' /\ ControlShape' /\ LocksHeld' /\ TaskShape'
           /\ Alone(r) /\ pc[r] = "decide"
           /\ task'[r].machine = task[r].machine /\ task'[r].nkey = task[r].nkey
           /\ task'[r].key = task[r].key /\ task'[r].captured = keyRow[task[r].key]
           /\ task'[r].fresh = ~CanRefresh(task[r])
           /\ task'[r].contested = (OldOwners(task[r]) # {})
           /\ foreign' = foreign \cup OldOwners(task[r])
           /\ \/ NodesOf(task[r].machine) = {} /\ pc'[r] = "insert"
              \/ /\ pc'[r] = "begin"
                 /\ \E n \in NodeKeys : /\ live[n] # None /\ live[n].machine = task[r].machine
                                        /\ task'[r].id = live[n].id
           /\ UNCHANGED <<storeVars, admitted>>
<1> DEFINE t == task[r]
           existing == NodesOf(t.machine)
           n == CHOOSE x \in existing : TRUE
           i == IF existing = {} THEN None ELSE live[n].id
           l == IF existing = {} THEN "insert" ELSE "begin"
           u == [t EXCEPT !.captured = keyRow[t.key], !.fresh = ~CanRefresh(t),
                          !.id = i, !.contested = OldOwners(t) # {}]
<1>1. /\ pc[r] = "decide"
      /\ task' = [task EXCEPT ![r] = u]
      /\ foreign' = foreign \cup OldOwners(t)
      /\ pc' = [pc EXCEPT ![r] = l]
      /\ UNCHANGED lockVars /\ UNCHANGED <<storeVars, admitted>>
  BY DEF Decide, Goto
<1>2. t \in Task /\ t.machine \in Machines /\ t.key \in Keys
  BY <1>1, TaskFields
<1>3. keyRow[t.key] \in KeyRow
  BY <1>2, StoreFields DEF Accepted
<1>4. ASSUME existing # {}
      PROVE  n \in NodeKeys /\ live[n] # None /\ live[n].machine = t.machine /\ live[n].id \in Ids
  <2>1. n \in existing
    BY <1>4
  <2>2. n \in NodeKeys /\ live[n] # None /\ live[n].machine = t.machine
    BY <2>1 DEF NodesOf
  <2> QED BY <2>2, StoreFields
<1>5. i \in Ids \cup {None} /\ (existing # {} => i \in Ids)
  BY <1>4
<1>6. CanRefresh(t) \in BOOLEAN
  BY DEF CanRefresh
<1>7. /\ u \in Task /\ u.machine = t.machine /\ u.nkey = t.nkey /\ u.key = t.key
      /\ u.captured = keyRow[t.key] /\ u.fresh = ~CanRefresh(t) /\ u.id = i
      /\ u.contested = (OldOwners(t) # {})
  <2> HIDE DEF i, existing
  <2> QED BY <1>2, <1>3, <1>5, <1>6 DEF Task
<1>8. OldOwners(t) \subseteq Ids
  <2> SUFFICES ASSUME NEW q \in Requests, pc[q] \in {"save", "rollback"}
               PROVE  task[q].id \in Ids
    BY DEF OldOwners
  <2> QED BY TaskFields DEF HasId
<1>9. ControlShape' /\ LocksHeld' /\ Alone(r) /\ pc'[r] = l /\ task'[r] = u
  <2>1. /\ l \in HasMachine /\ (l \in HasNodeKey => pc[r] \in HasNodeKey)
        /\ pc[r] \in HasMachine /\ pc[r] \notin HasPersist /\ l \notin HasPersist
    BY <1>1 DEF HasMachine, HasNodeKey, HasPersist
  <2>2. UNCHANGED <<mlock, nlock>> /\ persist' = persist
    BY <1>1 DEF lockVars
  <2> HIDE DEF u, l
  <2> QED BY <1>1, <1>7, <2>1, <2>2, MoveTyped
<1>10. TaskShape'
  <2>1. l \notin {"destroy", "remove"} \cup Halfway /\ (l \in HasId => existing # {})
    BY DEF Halfway, HasId
  <2> HIDE DEF u, l, i, existing
  <2> QED BY <1>2, <1>3, <1>5, <1>7, <1>9, <2>1, ShapeKept
<1>11. StoreShape'
  BY <1>1, <1>8, TypeParts DEF StoreShape, storeVars
<1>12. \/ existing = {} /\ l = "insert"
       \/ l = "begin" /\ existing # {} /\ i = live[n].id
  OBVIOUS
<1> HIDE DEF u, l, i
<1> QED BY <1>1, <1>4, <1>7, <1>9, <1>10, <1>11, <1>12

\* A request whose row is written.
LEMMA SavedTask ==
    ASSUME NEW t \in Task, NEW id \in Ids
    PROVE  /\ Saved(t, id) \in Task
           /\ Saved(t, id).machine = t.machine /\ Saved(t, id).nkey = t.nkey
           /\ Saved(t, id).key = t.key /\ Saved(t, id).id = id
BY DEF Saved, Task

LEMMA BeginEffect ==
    ASSUME TypeOK, TaskShape, NEW r \in Requests, Begin(r),
           LiveKeys(task[r].id) # {},
           live[task[r].nkey] # None => live[task[r].nkey].id = task[r].id
    PROVE  /\ StoreShape' /\ ControlShape' /\ LocksHeld' /\ TaskShape'
           /\ Alone(r) /\ pc[r] = "begin" /\ pc'[r] = "save"
           /\ task'[r].machine = task[r].machine /\ task'[r].nkey = task[r].nkey
           /\ task'[r].key = task[r].key /\ task'[r].id = task[r].id
           /\ task'[r].captured = task[r].captured /\ task'[r].fresh = task[r].fresh
           /\ task'[r].contested = task[r].contested
           /\ \E old \in NodeKeys :
                 /\ live[old] # None /\ live[old].id = task[r].id
                 /\ task'[r].before.nkey = old /\ task'[r].before.node = live[old]
                 /\ live'[task[r].nkey] # None
                 /\ live'[task[r].nkey].id = task[r].id
                 /\ live'[task[r].nkey].machine = live[old].machine
                 /\ live'[task[r].nkey].key = task[r].key
                 /\ live'[task[r].nkey].tagged = (live[old].tagged \/ Retags(task[r], live[old]))
                 /\ old # task[r].nkey => live'[old] = None
                 /\ \A n \in NodeKeys : n # old /\ n # task[r].nkey => live'[n] = live[n]
           /\ UNCHANGED <<rows, nextId, keyRow, admitted, foreign>>
<1> DEFINE t == task[r]
           old == CHOOSE n \in LiveKeys(t.id) : TRUE
           node == live[old]
           x == [node EXCEPT !.key = t.key, !.tagged = @ \/ Retags(t, node)]
           b == [nkey |-> old, node |-> node, lapsed |-> t.id \in lapsed]
           u == [t EXCEPT !.before = b]
<1>1. /\ pc[r] = "begin"
      /\ live' = [live EXCEPT ![old] = None, ![t.nkey] = x]
      /\ lapsed' = lapsed \ {t.id}
      /\ task' = [task EXCEPT ![r].before = b]
      /\ pc' = [pc EXCEPT ![r] = "save"]
      /\ UNCHANGED lockVars
      /\ UNCHANGED <<rows, nextId, keyRow, admitted, foreign>>
  BY DEF Begin, Goto
<1>2. /\ t \in Task /\ t.machine \in Machines /\ t.key \in Keys /\ t.nkey \in NodeKeys
      /\ t.id \in Ids /\ t.captured \in KeyRow
  BY <1>1, TaskFields DEF HasId
<1>3. old \in NodeKeys /\ live[old] # None /\ live[old].id = t.id
  <2>1. old \in LiveKeys(t.id)
    OBVIOUS
  <2> QED BY <2>1 DEF LiveKeys
<1>4. node \in Live /\ node.id = t.id
  BY <1>3, StoreFields
<1>5. /\ x \in Live /\ x.id = t.id /\ x.machine = node.machine /\ x.key = t.key
      /\ x.tagged = (node.tagged \/ Retags(t, node))
  <2>1. Retags(t, node) \in BOOLEAN
    BY DEF Retags
  <2> HIDE DEF node
  <2> QED BY <1>2, <1>4, <2>1 DEF Live
<1>6. x # None
  BY <1>5, NoneAssumption
<1>7. b \in Before /\ b.nkey = old /\ b.node = node
  <2> HIDE DEF old, node
  <2> QED BY <1>3, <1>4 DEF Before
<1>8. /\ u \in Task /\ u.machine = t.machine /\ u.nkey = t.nkey /\ u.key = t.key
      /\ u.id = t.id /\ u.captured = t.captured /\ u.fresh = t.fresh
      /\ u.contested = t.contested /\ u.before = b
  <2> HIDE DEF b
  <2> QED BY <1>2, <1>7 DEF Task
<1>9. task' = [task EXCEPT ![r] = u]
  BY <1>1 DEF TypeOK
<1>10. ControlShape' /\ LocksHeld' /\ Alone(r) /\ pc'[r] = "save" /\ task'[r] = u
  <2>1. /\ "save" \in HasMachine /\ ("save" \in HasNodeKey => pc[r] \in HasNodeKey)
        /\ pc[r] \in HasMachine /\ pc[r] \notin HasPersist /\ "save" \notin HasPersist
    BY <1>1 DEF HasMachine, HasNodeKey, HasPersist
  <2>2. UNCHANGED <<mlock, nlock>> /\ persist' = persist
    BY <1>1 DEF lockVars
  <2>3. pc' = [pc EXCEPT ![r] = "save"]
    BY <1>1
  <2> HIDE DEF u, b
  <2> QED BY <1>8, <1>9, <2>1, <2>2, <2>3, MoveTyped
<1>11. TaskShape'
  <2> HIDE DEF u, b
  <2> QED BY <1>2, <1>7, <1>8, <1>10, ShapeKept
<1>12. live \in [NodeKeys -> Live \cup {None}]
  BY DEF TypeOK
<1> HIDE DEF x, old, b, u
<1>13. /\ live'[t.nkey] = x /\ (old # t.nkey => live'[old] = None)
       /\ \A n \in NodeKeys : n # old /\ n # t.nkey => live'[n] = live[n]
  BY <1>1, <1>2, <1>3, <1>12
<1>14. StoreShape'
  <2>1. live' \in [NodeKeys -> Live \cup {None}]
    BY <1>1, <1>2, <1>3, <1>5, <1>12
  <2> QED BY <1>1, <2>1, TypeParts DEF StoreShape
<1>15. /\ task'[r].before.nkey = old /\ task'[r].before.node = live[old]
       /\ live'[t.nkey] # None
       /\ live'[t.nkey].id = t.id
       /\ live'[t.nkey].machine = live[old].machine
       /\ live'[t.nkey].key = t.key
       /\ live'[t.nkey].tagged = (live[old].tagged \/ Retags(t, live[old]))
  BY <1>5, <1>6, <1>7, <1>8, <1>10, <1>13
<1>16. /\ task'[r].machine = task[r].machine /\ task'[r].nkey = task[r].nkey
       /\ task'[r].key = task[r].key /\ task'[r].id = task[r].id
       /\ task'[r].captured = task[r].captured /\ task'[r].fresh = task[r].fresh
       /\ task'[r].contested = task[r].contested
  BY <1>8, <1>10
<1>17. pc[r] = "begin" /\ UNCHANGED <<rows, nextId, keyRow, admitted, foreign>>
  BY <1>1
<1> HIDE DEF t, node
<1> QED BY <1>3, <1>10, <1>11, <1>13, <1>14, <1>15, <1>16, <1>17 DEF t

\* The use of a key: what admitted says afterwards.
LEMMA AdmitEffect ==
    ASSUME TypeOK, NEW t, t.key \in Keys, Admit(t)
    PROVE  /\ admitted' \in [Keys -> 0..2]
           /\ \A k \in Keys : k # t.key => admitted'[k] = admitted[k]
           /\ t.fresh /\ admitted[t.key] < 2 => admitted'[t.key] = admitted[t.key] + 1
           /\ ~(t.fresh /\ admitted[t.key] < 2) => admitted'[t.key] = admitted[t.key]
<1>1. admitted \in [Keys -> 0..2]
  BY DEF TypeOK
<1>2. admitted' = [admitted EXCEPT ![t.key] = IF t.fresh /\ admitted[t.key] < 2
                                              THEN admitted[t.key] + 1 ELSE admitted[t.key]]
  BY DEF Admit
<1>3. (IF t.fresh /\ admitted[t.key] < 2 THEN admitted[t.key] + 1 ELSE admitted[t.key]) \in 0..2
  BY <1>1
<1> QED BY <1>1, <1>2, <1>3

\* The two ways out of the save of a node that the registry knows.
CachedSaved(r) ==
    LET t == task[r] IN
    /\ pc'[r] = "publish" /\ task'[r].machine = t.machine /\ task'[r].nkey = t.nkey
    /\ task'[r].key = t.key /\ task'[r].id = t.id
    /\ MustClaim(t, FALSE) => /\ keyRow[t.key] # None /\ ~keyRow[t.key].used
                              /\ keyRow'[t.key] # None /\ keyRow'[t.key].used
    /\ ~MustClaim(t, FALSE) => keyRow'[t.key] = keyRow[t.key]
    /\ rows[t.id] # None => /\ rows'[t.id] # None /\ rows'[t.id].machine = t.machine
                            /\ rows'[t.id].nkey = t.nkey /\ rows'[t.id].key = t.key
                            /\ rows'[t.id].tagged =
                                  (t.before.node.tagged \/ Retags(t, t.before.node))
    /\ rows[t.id] = None => rows'[t.id] = None
    /\ \A id \in Ids : id # t.id => rows'[id] = rows[id]
    /\ \A k \in Keys : k # t.key => keyRow'[k] = keyRow[k] /\ admitted'[k] = admitted[k]
    /\ t.fresh /\ admitted[t.key] < 2 => admitted'[t.key] = admitted[t.key] + 1
    /\ ~(t.fresh /\ admitted[t.key] < 2) => admitted'[t.key] = admitted[t.key]
    /\ foreign' = IF t.contested THEN foreign \cup {t.id} ELSE foreign \ {t.id}
    /\ UNCHANGED <<live, lapsed, nextId>>

CachedRefused(r) ==
    /\ pc'[r] = "rollback" /\ task'[r] = task[r]
    /\ UNCHANGED <<storeVars, admitted, foreign>>

LEMMA CommitCachedEffect ==
    ASSUME TypeOK, TaskShape, NEW r \in Requests, CommitCached(r)
    PROVE  /\ StoreShape' /\ ControlShape' /\ LocksHeld' /\ TaskShape'
           /\ Alone(r) /\ pc[r] = "save" /\ (CachedSaved(r) \/ CachedRefused(r))
<1> DEFINE t == task[r]
           row == [machine |-> t.machine, nkey |-> t.nkey, key |-> t.key,
                   tagged |-> t.before.node.tagged \/ Retags(t, t.before.node)]
<1>1. pc[r] = "save" /\ persist = None
  BY DEF CommitCached
<1>2. /\ t \in Task /\ t.machine \in Machines /\ t.key \in Keys /\ t.nkey \in NodeKeys
      /\ t.id \in Ids /\ t.captured \in KeyRow /\ t.before \in Before
      /\ t.before.node \in Live
  BY <1>1, TaskFields DEF HasId, Halfway
<1>3. CASE /\ rows[t.id] # None => keyRow[t.key] # None
           /\ MustClaim(t, FALSE) => keyRow[t.key] # None /\ Claimable(keyRow[t.key])
           /\ rows' = IF rows[t.id] = None THEN rows ELSE [rows EXCEPT ![t.id] = row]
           /\ keyRow' = IF MustClaim(t, FALSE) THEN [keyRow EXCEPT ![t.key].used = TRUE] ELSE keyRow
           /\ Admit(t)
           /\ foreign' = IF t.contested THEN foreign \cup {t.id} ELSE foreign \ {t.id}
           /\ task' = [task EXCEPT ![r] = Saved(t, t.id)]
           /\ Goto(r, "publish")
           /\ UNCHANGED <<live, lapsed, nextId, lockVars>>
  <2> DEFINE u == Saved(t, t.id)
  <2>1. /\ u \in Task /\ u.machine = t.machine /\ u.nkey = t.nkey /\ u.key = t.key
        /\ u.id = t.id
    BY <1>2, SavedTask
  <2>2. ControlShape' /\ LocksHeld' /\ Alone(r) /\ pc'[r] = "publish" /\ task'[r] = u
    <3>1. /\ "publish" \in HasMachine /\ ("publish" \in HasNodeKey => pc[r] \in HasNodeKey)
          /\ pc[r] \in HasMachine /\ pc[r] \notin HasPersist /\ "publish" \notin HasPersist
      BY <1>1 DEF HasMachine, HasNodeKey, HasPersist
    <3>2. UNCHANGED <<mlock, nlock>> /\ persist' = persist
      BY <1>3 DEF lockVars
    <3>3. pc' = [pc EXCEPT ![r] = "publish"] /\ task' = [task EXCEPT ![r] = u]
      BY <1>3 DEF Goto
    <3> HIDE DEF u
    <3> QED BY <2>1, <3>1, <3>2, <3>3, MoveTyped
  <2>3. TaskShape'
    <3> HIDE DEF u
    <3> QED BY <1>2, <2>1, <2>2, ShapeKept DEF Halfway
  <2>4. /\ row \in Row /\ row.machine = t.machine /\ row.nkey = t.nkey /\ row.key = t.key
        /\ row.tagged = (t.before.node.tagged \/ Retags(t, t.before.node))
    <3>1. t.before.node.tagged \in BOOLEAN
      BY <1>2 DEF Live
    <3>2. Retags(t, t.before.node) \in BOOLEAN
      BY DEF Retags
    <3> QED BY <1>2, <3>1, <3>2 DEF Row
  <2>5. row # None
    BY <2>4, NoneAssumption
  <2> HIDE DEF row
  <2>6. rows \in [Ids -> Row \cup {None}] /\ keyRow \in [Keys -> KeyRow \cup {None}]
    BY DEF TypeOK
  <2>7. /\ rows' \in [Ids -> Row \cup {None}]
        /\ rows[t.id] # None => rows'[t.id] = row
        /\ rows[t.id] = None => rows'[t.id] = None
        /\ \A id \in Ids : id # t.id => rows'[id] = rows[id]
    BY <1>2, <1>3, <2>4, <2>6
  <2>8. /\ keyRow' \in [Keys -> KeyRow \cup {None}]
        /\ MustClaim(t, FALSE) => /\ keyRow[t.key] # None /\ ~keyRow[t.key].used
                                  /\ keyRow'[t.key] # None /\ keyRow'[t.key].used
        /\ ~MustClaim(t, FALSE) => keyRow'[t.key] = keyRow[t.key]
        /\ \A k \in Keys : k # t.key => keyRow'[k] = keyRow[k]
    <3>1. CASE MustClaim(t, FALSE)
      <4> DEFINE kr == [keyRow[t.key] EXCEPT !.used = TRUE]
      <4>1. /\ keyRow[t.key] # None /\ ~keyRow[t.key].used
            /\ keyRow' = [keyRow EXCEPT ![t.key].used = TRUE]
        BY <1>3, <3>1 DEF Claimable
      <4>2. keyRow' = [keyRow EXCEPT ![t.key] = kr]
        BY <4>1
      <4>3. keyRow[t.key] \in KeyRow
        BY <1>2, <2>6, <4>1
      <4>4. kr \in KeyRow /\ kr.used = TRUE
        BY <4>3 DEF KeyRow
      <4>5. kr # None
        BY <4>4, NoneAssumption
      <4> HIDE DEF kr
      <4>6. /\ keyRow'[t.key] = kr /\ keyRow' \in [Keys -> KeyRow \cup {None}]
            /\ \A k \in Keys : k # t.key => keyRow'[k] = keyRow[k]
        BY <1>2, <2>6, <4>2, <4>4
      <4> QED BY <3>1, <4>1, <4>4, <4>5, <4>6
    <3>2. CASE ~MustClaim(t, FALSE)
      BY <1>3, <2>6, <3>2
    <3> QED BY <3>1, <3>2
  <2>9. /\ admitted' \in [Keys -> 0..2]
        /\ \A k \in Keys : k # t.key => admitted'[k] = admitted[k]
        /\ t.fresh /\ admitted[t.key] < 2 => admitted'[t.key] = admitted[t.key] + 1
        /\ ~(t.fresh /\ admitted[t.key] < 2) => admitted'[t.key] = admitted[t.key]
    BY <1>2, <1>3, AdmitEffect
  <2>10. StoreShape'
    <3>1. foreign' \subseteq Ids
      BY <1>2, <1>3 DEF TypeOK
    <3> QED BY <1>3, <2>7, <2>8, <2>9, <3>1, TypeParts DEF StoreShape
  <2>11. CachedSaved(r)
    <3>1. UNCHANGED <<live, lapsed, nextId>>
      BY <1>3
    <3>2. foreign' = IF t.contested THEN foreign \cup {t.id} ELSE foreign \ {t.id}
      BY <1>3
    <3>3. rows[t.id] # None => /\ rows'[t.id] # None /\ rows'[t.id].machine = t.machine
                               /\ rows'[t.id].nkey = t.nkey /\ rows'[t.id].key = t.key
                               /\ rows'[t.id].tagged =
                                     (t.before.node.tagged \/ Retags(t, t.before.node))
      BY <2>4, <2>5, <2>7
    <3> HIDE DEF u
    <3> QED BY <2>1, <2>2, <2>7, <2>8, <2>9, <3>1, <3>2, <3>3 DEF CachedSaved
  <2> QED BY <1>1, <2>2, <2>3, <2>10, <2>11
<1>4. CASE /\ persist' = r
           /\ Goto(r, "rollback")
           /\ UNCHANGED <<storeVars, mlock, nlock, task, admitted, foreign>>
  <2>1. ControlShape' /\ LocksHeld' /\ Alone(r) /\ pc'[r] = "rollback" /\ task'[r] = t
    <3>1. /\ "rollback" \in HasMachine /\ ("rollback" \in HasNodeKey => pc[r] \in HasNodeKey)
          /\ pc[r] \in HasMachine /\ "rollback" \in HasPersist
      BY <1>1 DEF HasMachine, HasNodeKey, HasPersist
    <3>2. task' = [task EXCEPT ![r] = t]
      BY <1>4, SameTask
    <3>3. pc' = [pc EXCEPT ![r] = "rollback"] /\ UNCHANGED <<mlock, nlock>> /\ persist' = r
      BY <1>4 DEF Goto
    <3> HIDE DEF t
    <3>4. t.machine = task[r].machine /\ t.nkey = task[r].nkey
      BY DEF t
    <3> QED BY <1>1, <1>2, <3>1, <3>2, <3>3, <3>4, MoveTyped
  <2>2. TaskShape'
    BY <1>2, <2>1, ShapeKept
  <2>3. StoreShape'
    BY <1>4, TypeParts DEF StoreShape, storeVars
  <2> QED BY <1>1, <1>4, <2>1, <2>2, <2>3 DEF CachedRefused
<1> QED BY <1>3, <1>4 DEF CommitCached

LEMMA RollbackEffect ==
    ASSUME TypeOK, TaskShape, NEW r \in Requests, Rollback(r)
    PROVE  /\ StoreShape' /\ ControlShape' /\ LocksHeld' /\ TaskShape'
           /\ Alone(r) /\ pc[r] = "rollback" /\ pc'[r] = "idle"
           /\ LET t == task[r] IN
              \/ /\ live[t.nkey] # None /\ live[t.nkey].id = t.id
                 /\ live[t.before.nkey] # None => live[t.before.nkey].id = t.id
                 /\ live'[t.before.nkey] = t.before.node /\ t.before.node # None
                 /\ t.before.nkey # t.nkey => live'[t.nkey] = None
                 /\ \A n \in NodeKeys : n # t.nkey /\ n # t.before.nkey => live'[n] = live[n]
              \/ /\ \/ ~(live[t.nkey] # None /\ live[t.nkey].id = t.id)
                    \/ live[t.before.nkey] # None /\ live[t.before.nkey].id # t.id
                 /\ live' = live
           /\ UNCHANGED <<rows, nextId, keyRow, admitted, foreign>>
<1> DEFINE t == task[r]
           back == /\ live[t.nkey] # None /\ live[t.nkey].id = t.id
                   /\ live[t.before.nkey] # None => live[t.before.nkey].id = t.id
<1>1. /\ pc[r] = "rollback" /\ Fail(r)
      /\ back => /\ live' = [live EXCEPT ![t.nkey] = None, ![t.before.nkey] = t.before.node]
                 /\ lapsed' = IF t.before.lapsed THEN lapsed \cup {t.id} ELSE lapsed \ {t.id}
      /\ ~back => live' = live /\ lapsed' = lapsed
      /\ UNCHANGED <<rows, nextId, keyRow, admitted, foreign>>
  BY DEF Rollback
<1>2. /\ t.nkey \in NodeKeys /\ t.id \in Ids
      /\ t.before.nkey \in NodeKeys /\ t.before.node \in Live
  BY <1>1, TaskFields DEF HasId, Halfway
<1>3. t.before.node # None
  BY <1>2, NoneAssumption
<1>4. ControlShape' /\ LocksHeld' /\ TaskShape' /\ Alone(r) /\ pc'[r] = "idle"
  BY <1>1, FailTyped
<1>5. live \in [NodeKeys -> Live \cup {None}] /\ lapsed \subseteq Ids
  BY DEF TypeOK
<1>6. CASE back
  <2>1. live' = [live EXCEPT ![t.nkey] = None, ![t.before.nkey] = t.before.node]
    BY <1>1, <1>6
  <2>2. /\ live'[t.before.nkey] = t.before.node
        /\ t.before.nkey # t.nkey => live'[t.nkey] = None
        /\ \A n \in NodeKeys : n # t.nkey /\ n # t.before.nkey => live'[n] = live[n]
    BY <1>2, <1>5, <2>1
  <2>3. live' \in [NodeKeys -> Live \cup {None}]
    BY <1>2, <1>5, <2>1
  <2>4. lapsed' \subseteq Ids
    BY <1>1, <1>2, <1>5, <1>6
  <2>5. StoreShape'
    BY <1>1, <2>3, <2>4, TypeParts DEF StoreShape
  <2> QED BY <1>1, <1>3, <1>4, <1>6, <2>2, <2>5
<1>7. CASE ~back
  <2>1. StoreShape'
    BY <1>1, <1>7, TypeParts DEF StoreShape
  <2> QED BY <1>1, <1>4, <1>7, <2>1
<1> QED BY <1>6, <1>7

LEMMA CommitNewEffect ==
    ASSUME TypeOK, TaskShape, NEW r \in Requests, CommitNew(r)
    PROVE  /\ StoreShape' /\ ControlShape' /\ LocksHeld' /\ TaskShape'
           /\ Alone(r) /\ pc[r] = "insert" /\ pc'[r] = "put"
           /\ nextId \in Ids /\ nextId' = nextId + 1
           /\ LET t == task[r] IN
              /\ task'[r].machine = t.machine /\ task'[r].nkey = t.nkey
              /\ task'[r].key = t.key /\ task'[r].id = nextId
              /\ rows'[nextId] # None /\ rows'[nextId].machine = t.machine
              /\ rows'[nextId].nkey = t.nkey /\ rows'[nextId].key = t.key
              /\ rows'[nextId].tagged = (t.key \in Tagged)
              /\ \A id \in Ids : id # nextId => rows'[id] = rows[id]
              /\ t.key \in OneShot =>
                    /\ keyRow[t.key] # None => ~keyRow[t.key].used
                    /\ keyRow'[t.key] # None /\ keyRow'[t.key].used
              /\ \A k \in Keys : k # t.key => keyRow'[k] = keyRow[k] /\ admitted'[k] = admitted[k]
              /\ t.fresh /\ admitted[t.key] < 2 => admitted'[t.key] = admitted[t.key] + 1
              /\ ~(t.fresh /\ admitted[t.key] < 2) => admitted'[t.key] = admitted[t.key]
              /\ foreign' = IF t.contested THEN foreign \cup {nextId} ELSE foreign
           /\ UNCHANGED <<live, lapsed>>
<1> DEFINE t == task[r]
           kr == IF keyRow[t.key] = None THEN t.captured ELSE keyRow[t.key]
           kr2 == [kr EXCEPT !.used = @ \/ MustClaim(t, TRUE)]
           row == [machine |-> t.machine, nkey |-> t.nkey, key |-> t.key,
                   tagged |-> t.key \in Tagged]
           u == Saved(t, nextId)
<1>1. /\ pc[r] = "insert" /\ nextId <= MaxId
      /\ MustClaim(t, TRUE) => Claimable(kr)
      /\ keyRow' = [keyRow EXCEPT ![t.key] = kr2]
      /\ rows' = [rows EXCEPT ![nextId] = row]
      /\ nextId' = nextId + 1
      /\ task' = [task EXCEPT ![r] = u]
      /\ Admit(t)
      /\ foreign' = IF t.contested THEN foreign \cup {nextId} ELSE foreign
      /\ pc' = [pc EXCEPT ![r] = "put"]
      /\ UNCHANGED <<live, lapsed, lockVars>>
  BY DEF CommitNew, Goto
<1>2. /\ t \in Task /\ t.machine \in Machines /\ t.key \in Keys /\ t.nkey \in NodeKeys
      /\ t.captured \in KeyRow
  BY <1>1, TaskFields
<1>3. nextId \in Ids /\ nextId' \in 1..MaxId + 1
  BY <1>1, AuthKeyAssumption DEF TypeOK, Ids
<1>4. /\ u \in Task /\ u.machine = t.machine /\ u.nkey = t.nkey /\ u.key = t.key
      /\ u.id = nextId
  BY <1>2, <1>3, SavedTask
<1>5. kr \in KeyRow
  BY <1>2, StoreFields
<1>6. /\ MustClaim(t, TRUE) \in BOOLEAN
      /\ t.key \in OneShot => MustClaim(t, TRUE)
  BY DEF MustClaim
<1>7. kr2 \in KeyRow /\ kr2.used = (kr.used \/ MustClaim(t, TRUE))
  <2> HIDE DEF kr
  <2> QED BY <1>5, <1>6 DEF KeyRow
<1>8. kr2 # None
  BY <1>7, NoneAssumption
<1>9. /\ row \in Row /\ row.machine = t.machine /\ row.nkey = t.nkey /\ row.key = t.key
      /\ row.tagged = (t.key \in Tagged)
  BY <1>2 DEF Row
<1>10. row # None
  BY <1>9, NoneAssumption
<1>11. t.key \in OneShot => /\ keyRow[t.key] # None => ~keyRow[t.key].used
                            /\ kr2.used
  BY <1>1, <1>6, <1>7 DEF Claimable
<1> HIDE DEF kr, kr2, row, u
<1>12. rows \in [Ids -> Row \cup {None}] /\ keyRow \in [Keys -> KeyRow \cup {None}]
  BY DEF TypeOK
<1>13. /\ rows' \in [Ids -> Row \cup {None}] /\ rows'[nextId] = row
       /\ \A id \in Ids : id # nextId => rows'[id] = rows[id]
  BY <1>1, <1>3, <1>9, <1>12
<1>14. /\ keyRow' \in [Keys -> KeyRow \cup {None}] /\ keyRow'[t.key] = kr2
       /\ \A k \in Keys : k # t.key => keyRow'[k] = keyRow[k]
  BY <1>1, <1>2, <1>7, <1>12
<1>15. /\ admitted' \in [Keys -> 0..2]
       /\ \A k \in Keys : k # t.key => admitted'[k] = admitted[k]
       /\ t.fresh /\ admitted[t.key] < 2 => admitted'[t.key] = admitted[t.key] + 1
       /\ ~(t.fresh /\ admitted[t.key] < 2) => admitted'[t.key] = admitted[t.key]
  BY <1>1, <1>2, AdmitEffect
<1>16. ControlShape' /\ LocksHeld' /\ Alone(r) /\ pc'[r] = "put" /\ task'[r] = u
  <2>1. /\ "put" \in HasMachine /\ ("put" \in HasNodeKey => pc[r] \in HasNodeKey)
        /\ pc[r] \in HasMachine /\ pc[r] \notin HasPersist /\ "put" \notin HasPersist
    BY <1>1 DEF HasMachine, HasNodeKey, HasPersist
  <2>2. UNCHANGED <<mlock, nlock>> /\ persist' = persist
    BY <1>1 DEF lockVars
  <2>3. pc' = [pc EXCEPT ![r] = "put"] /\ task' = [task EXCEPT ![r] = u]
    BY <1>1
  <2> QED BY <1>4, <2>1, <2>2, <2>3, MoveTyped
<1>17. TaskShape'
  BY <1>2, <1>3, <1>4, <1>16, ShapeKept DEF Halfway
<1>18. foreign' = (IF t.contested THEN foreign \cup {nextId} ELSE foreign) /\ UNCHANGED <<live, lapsed>>
  BY <1>1
<1>19. StoreShape'
  <2>1. foreign' \subseteq Ids
    BY <1>3, <1>18 DEF TypeOK
  <2> QED BY <1>3, <1>13, <1>14, <1>15, <1>18, <2>1, TypeParts DEF StoreShape
<1>20. /\ rows'[nextId] # None /\ rows'[nextId].machine = t.machine
       /\ rows'[nextId].nkey = t.nkey /\ rows'[nextId].key = t.key
       /\ rows'[nextId].tagged = (t.key \in Tagged)
  BY <1>9, <1>10, <1>13
<1>21. t.key \in OneShot => /\ keyRow[t.key] # None => ~keyRow[t.key].used
                            /\ keyRow'[t.key] # None /\ keyRow'[t.key].used
  BY <1>8, <1>11, <1>14
<1>22. pc[r] = "insert" /\ nextId' = nextId + 1
  BY <1>1
<1>23. /\ task'[r].machine = t.machine /\ task'[r].nkey = t.nkey
       /\ task'[r].key = t.key /\ task'[r].id = nextId
  BY <1>4, <1>16
<1> QED BY <1>3, <1>13, <1>14, <1>15, <1>16, <1>17, <1>18, <1>19, <1>20, <1>21, <1>22, <1>23

LEMMA PutNewEffect ==
    ASSUME TypeOK, TaskShape, NEW r \in Requests, PutNew(r)
    PROVE  /\ StoreShape' /\ ControlShape' /\ LocksHeld' /\ TaskShape'
           /\ Alone(r) /\ pc[r] = "put"
           /\ LET t == task[r] IN
              \/ /\ pc'[r] = "idle" /\ live' = live
                 /\ live[t.nkey] # None /\ live[t.nkey].id # t.id
              \/ /\ pc'[r] = "publish" /\ task'[r] = t
                 /\ live[t.nkey] # None => live[t.nkey].id = t.id
                 /\ live'[t.nkey] # None
                 /\ live'[t.nkey].id = t.id /\ live'[t.nkey].machine = t.machine
                 /\ live'[t.nkey].key = t.key /\ live'[t.nkey].tagged = (t.key \in Tagged)
                 /\ \A n \in NodeKeys : n # t.nkey => live'[n] = live[n]
           /\ UNCHANGED <<lapsed, rows, nextId, keyRow, admitted, foreign>>
<1> DEFINE t == task[r]
           x == [id |-> t.id, machine |-> t.machine, key |-> t.key, tagged |-> t.key \in Tagged]
<1>1. pc[r] = "put" /\ UNCHANGED <<lapsed, rows, nextId, keyRow, admitted, foreign>>
  BY DEF PutNew
<1>2. /\ t \in Task /\ t.machine \in Machines /\ t.key \in Keys /\ t.nkey \in NodeKeys
      /\ t.id \in Ids
  BY <1>1, TaskFields DEF HasId
<1>3. CASE live[t.nkey] # None /\ live[t.nkey].id # t.id
  <2>1. Fail(r) /\ live' = live
    BY <1>3 DEF PutNew
  <2>2. StoreShape'
    BY <1>1, <2>1, TypeParts DEF StoreShape
  <2> QED BY <1>1, <1>3, <2>1, <2>2, FailTyped
<1>4. CASE ~(live[t.nkey] # None /\ live[t.nkey].id # t.id)
  <2>1. /\ live' = [live EXCEPT ![t.nkey] = x]
        /\ pc' = [pc EXCEPT ![r] = "publish"]
        /\ UNCHANGED <<lockVars, task>>
    BY <1>4 DEF PutNew, Goto
  <2>2. /\ x \in Live /\ x.id = t.id /\ x.machine = t.machine /\ x.key = t.key
        /\ x.tagged = (t.key \in Tagged)
    BY <1>2 DEF Live
  <2>3. x # None
    BY <2>2, NoneAssumption
  <2> HIDE DEF x
  <2>4. live \in [NodeKeys -> Live \cup {None}]
    BY DEF TypeOK
  <2>5. /\ live' \in [NodeKeys -> Live \cup {None}] /\ live'[t.nkey] = x
        /\ \A n \in NodeKeys : n # t.nkey => live'[n] = live[n]
    BY <1>2, <2>1, <2>2, <2>4
  <2>6. ControlShape' /\ LocksHeld' /\ Alone(r) /\ pc'[r] = "publish" /\ task'[r] = t
    <3>1. /\ "publish" \in HasMachine /\ ("publish" \in HasNodeKey => pc[r] \in HasNodeKey)
          /\ pc[r] \in HasMachine /\ pc[r] \notin HasPersist /\ "publish" \notin HasPersist
      BY <1>1 DEF HasMachine, HasNodeKey, HasPersist
    <3>2. UNCHANGED <<mlock, nlock>> /\ persist' = persist
      BY <2>1 DEF lockVars
    <3>3. task' = [task EXCEPT ![r] = t] /\ pc' = [pc EXCEPT ![r] = "publish"]
      BY <2>1, SameTask
    <3> HIDE DEF t
    <3>4. t.machine = task[r].machine /\ t.nkey = task[r].nkey
      BY DEF t
    <3> QED BY <1>1, <1>2, <3>1, <3>2, <3>3, <3>4, MoveTyped
  <2>7. TaskShape'
    BY <1>2, <2>6, ShapeKept DEF Halfway
  <2>8. StoreShape'
    BY <1>1, <2>5, TypeParts DEF StoreShape
  <2> QED BY <1>1, <1>4, <2>2, <2>3, <2>5, <2>6, <2>7, <2>8
<1> QED BY <1>3, <1>4

LEMMA DestroyRowEffect ==
    ASSUME TypeOK, TaskShape, NEW r \in Requests, DestroyRow(r)
    PROVE  /\ StoreShape' /\ ControlShape' /\ LocksHeld' /\ TaskShape'
           /\ Alone(r) /\ pc[r] = "destroy"
           /\ \/ pc'[r] = "idle" /\ rows' = rows
              \/ /\ pc'[r] = "remove" /\ task'[r] = task[r]
                 /\ rows'[task[r].id] = None
                 /\ \A id \in Ids : id # task[r].id => rows'[id] = rows[id]
           /\ UNCHANGED <<live, lapsed, nextId, keyRow, admitted, foreign>>
<1> DEFINE t == task[r]
<1>1. pc[r] = "destroy" /\ UNCHANGED <<live, lapsed, nextId, keyRow, admitted, foreign>>
  BY DEF DestroyRow
<1>2. t \in Task /\ t.id \in Ids /\ t.machine \in Machines /\ t.nkey \in NodeKeys
  BY <1>1, TaskFields DEF HasId
<1>3. CASE Fail(r) /\ UNCHANGED <<rows>>
  <2>1. StoreShape'
    BY <1>1, <1>3, TypeParts DEF StoreShape
  <2> QED BY <1>1, <1>3, <2>1, FailTyped
<1>4. CASE /\ persist = None
           /\ rows' = [rows EXCEPT ![t.id] = None]
           /\ persist' = r
           /\ Goto(r, "remove")
           /\ UNCHANGED <<mlock, nlock, task>>
  <2>1. rows \in [Ids -> Row \cup {None}]
    BY DEF TypeOK
  <2>2. /\ rows' \in [Ids -> Row \cup {None}] /\ rows'[t.id] = None
        /\ \A id \in Ids : id # t.id => rows'[id] = rows[id]
    BY <1>2, <1>4, <2>1
  <2>3. ControlShape' /\ LocksHeld' /\ Alone(r) /\ pc'[r] = "remove" /\ task'[r] = t
    <3>1. /\ "remove" \in HasMachine /\ ("remove" \in HasNodeKey => pc[r] \in HasNodeKey)
          /\ pc[r] \in HasMachine /\ "remove" \in HasPersist
      BY <1>1 DEF HasMachine, HasNodeKey, HasPersist
    <3>2. task' = [task EXCEPT ![r] = t] /\ pc' = [pc EXCEPT ![r] = "remove"]
      BY <1>4, SameTask DEF Goto
    <3>3. UNCHANGED <<mlock, nlock>> /\ persist = None /\ persist' = r
      BY <1>4
    <3> HIDE DEF t
    <3>4. t.machine = task[r].machine /\ t.nkey = task[r].nkey
      BY DEF t
    <3> QED BY <1>2, <3>1, <3>2, <3>3, <3>4, MoveTyped
  <2>4. TaskShape'
    BY <1>2, <2>3, ShapeKept DEF Halfway
  <2>5. StoreShape'
    BY <1>1, <2>2, TypeParts DEF StoreShape
  <2> QED BY <1>1, <2>2, <2>3, <2>4, <2>5
<1> QED BY <1>3, <1>4 DEF DestroyRow

LEMMA RemoveLiveEffect ==
    ASSUME TypeOK, TaskShape, NEW r \in Requests, RemoveLive(r)
    PROVE  /\ StoreShape' /\ ControlShape' /\ LocksHeld' /\ TaskShape'
           /\ Alone(r) /\ pc[r] = "remove" /\ pc'[r] = "idle"
           /\ live'[task[r].nkey] = None
           /\ \A n \in NodeKeys : n # task[r].nkey => live'[n] = live[n]
           /\ UNCHANGED <<rows, nextId, keyRow, admitted, foreign>>
<1>1. /\ pc[r] = "remove" /\ live' = [live EXCEPT ![task[r].nkey] = None]
      /\ lapsed' = lapsed \ {task[r].id} /\ Fail(r)
      /\ UNCHANGED <<rows, nextId, keyRow, admitted, foreign>>
  BY DEF RemoveLive
<1>2. task[r].nkey \in NodeKeys
  BY <1>1, TaskFields
<1>3. live \in [NodeKeys -> Live \cup {None}] /\ lapsed \subseteq Ids
  BY DEF TypeOK
<1>4. /\ live' \in [NodeKeys -> Live \cup {None}] /\ live'[task[r].nkey] = None
      /\ \A n \in NodeKeys : n # task[r].nkey => live'[n] = live[n]
  BY <1>1, <1>2, <1>3
<1>5. StoreShape'
  BY <1>1, <1>3, <1>4, TypeParts DEF StoreShape
<1> QED BY <1>1, <1>4, <1>5, FailTyped

LEMMA PersistLastSeenEffect ==
    ASSUME TypeOK, NEW id \in Ids, PersistLastSeen(id)
    PROVE  /\ StoreShape' /\ persist = None /\ rows[id] # None
           /\ \E n \in NodeKeys :
                 /\ live[n] # None /\ live[n].id = id
                 /\ rows'[id] # None /\ rows'[id].machine = rows[id].machine
                 /\ rows'[id].key = rows[id].key
                 /\ rows'[id].nkey = n /\ rows'[id].tagged = live[n].tagged
           /\ \A i \in Ids : i # id => rows'[i] = rows[i]
           /\ foreign' = IF Unsaved(id) THEN foreign \cup {id} ELSE foreign
           /\ UNCHANGED <<live, lapsed, nextId, keyRow, lockVars, pc, task, admitted>>
<1> DEFINE n == CHOOSE x \in LiveKeys(id) : TRUE
           row == [rows[id] EXCEPT !.nkey = n, !.tagged = live[n].tagged]
<1>1. /\ persist = None /\ LiveKeys(id) # {} /\ rows[id] # None
      /\ rows' = [rows EXCEPT ![id].nkey = n, ![id].tagged = live[n].tagged]
      /\ foreign' = IF Unsaved(id) THEN foreign \cup {id} ELSE foreign
      /\ UNCHANGED <<live, lapsed, nextId, keyRow, lockVars, pc, task, admitted>>
  BY DEF PersistLastSeen
<1>2. n \in NodeKeys /\ live[n] # None /\ live[n].id = id
  <2>1. n \in LiveKeys(id)
    BY <1>1
  <2> QED BY <2>1 DEF LiveKeys
<1>3. rows[id] \in Row /\ live[n].tagged \in BOOLEAN
  BY <1>1, <1>2, StoreFields
<1>4. rows \in [Ids -> Row \cup {None}]
  BY DEF TypeOK
<1> HIDE DEF n
<1>5. rows' = [rows EXCEPT ![id] = row]
  BY <1>1, <1>4
<1>6. /\ row \in Row /\ row.machine = rows[id].machine /\ row.key = rows[id].key
      /\ row.nkey = n /\ row.tagged = live[n].tagged
  BY <1>2, <1>3 DEF Row
<1>7. row # None
  BY <1>6, NoneAssumption
<1> HIDE DEF row
<1>8. /\ rows' \in [Ids -> Row \cup {None}] /\ rows'[id] = row
      /\ \A i \in Ids : i # id => rows'[i] = rows[i]
  BY <1>4, <1>5, <1>6
<1>9. foreign' \subseteq Ids
  BY <1>1 DEF TypeOK
<1>10. StoreShape'
  BY <1>1, <1>8, <1>9, TypeParts DEF StoreShape
<1>11. /\ rows'[id] # None /\ rows'[id].machine = rows[id].machine
       /\ rows'[id].key = rows[id].key
       /\ rows'[id].nkey = n /\ rows'[id].tagged = live[n].tagged
  BY <1>6, <1>7, <1>8
<1>12. /\ persist = None /\ rows[id] # None
       /\ foreign' = IF Unsaved(id) THEN foreign \cup {id} ELSE foreign
       /\ UNCHANGED <<live, lapsed, nextId, keyRow, lockVars, pc, task, admitted>>
  BY <1>1
<1> QED BY <1>2, <1>8, <1>10, <1>11, <1>12

LEMMA ExpireKeyEffect ==
    ASSUME TypeOK, NEW k \in Keys, ExpireKey(k)
    PROVE  /\ StoreShape' /\ keyRow[k] # None /\ keyRow'[k] # None
           /\ keyRow'[k].used = keyRow[k].used
           /\ \A j \in Keys : j # k => keyRow'[j] = keyRow[j]
           /\ UNCHANGED <<live, lapsed, rows, nextId, lockVars, pc, task, admitted, foreign>>
<1> DEFINE kr == [keyRow[k] EXCEPT !.expired = TRUE]
<1>1. /\ keyRow[k] # None /\ keyRow' = [keyRow EXCEPT ![k].expired = TRUE]
      /\ UNCHANGED <<live, lapsed, rows, nextId, lockVars, pc, task, admitted, foreign>>
  BY DEF ExpireKey
<1>2. keyRow \in [Keys -> KeyRow \cup {None}] /\ keyRow[k] \in KeyRow
  BY <1>1 DEF TypeOK
<1>3. kr \in KeyRow /\ kr.used = keyRow[k].used
  BY <1>2 DEF KeyRow
<1>4. kr # None
  BY <1>3, NoneAssumption
<1>5. keyRow' = [keyRow EXCEPT ![k] = kr]
  BY <1>1
<1> HIDE DEF kr
<1>6. /\ keyRow' \in [Keys -> KeyRow \cup {None}] /\ keyRow'[k] = kr
      /\ \A j \in Keys : j # k => keyRow'[j] = keyRow[j]
  BY <1>2, <1>3, <1>5
<1>7. UNCHANGED <<live, lapsed, rows, nextId, lockVars, pc, task, admitted, foreign>>
  BY <1>1
<1>8. StoreShape'
  BY <1>6, <1>7, TypeParts DEF StoreShape
<1> QED BY <1>1, <1>3, <1>4, <1>6, <1>7, <1>8

LEMMA DestroyKeyEffect ==
    ASSUME TypeOK, NEW k \in Keys, DestroyKey(k)
    PROVE  /\ StoreShape' /\ keyRow'[k] = None /\ admitted'[k] = 0
           /\ \A j \in Keys : j # k => keyRow'[j] = keyRow[j] /\ admitted'[j] = admitted[j]
           /\ \A id \in Ids :
                 /\ rows'[id] = None <=> rows[id] = None
                 /\ rows[id] # None => /\ rows'[id].machine = rows[id].machine
                                       /\ rows'[id].nkey = rows[id].nkey
                                       /\ rows'[id].tagged = rows[id].tagged
                                       /\ rows'[id].key \in {rows[id].key, None}
           /\ UNCHANGED <<live, lapsed, nextId, lockVars, pc, task, foreign>>
<1> DEFINE Cut(id) == [rows[id] EXCEPT !.key = None]
<1>1. /\ keyRow' = [keyRow EXCEPT ![k] = None]
      /\ rows' = [id \in Ids |-> IF rows[id] # None /\ rows[id].key = k
                                 THEN Cut(id) ELSE rows[id]]
      /\ admitted' = [admitted EXCEPT ![k] = 0]
      /\ UNCHANGED <<live, lapsed, nextId, lockVars, pc, task, foreign>>
  BY DEF DestroyKey
<1>2. /\ keyRow \in [Keys -> KeyRow \cup {None}] /\ rows \in [Ids -> Row \cup {None}]
      /\ admitted \in [Keys -> 0..2]
  BY DEF TypeOK
<1>3. ASSUME NEW id \in Ids, rows[id] # None
      PROVE  /\ Cut(id) \in Row /\ Cut(id) # None /\ Cut(id).machine = rows[id].machine
             /\ Cut(id).nkey = rows[id].nkey /\ Cut(id).tagged = rows[id].tagged
             /\ Cut(id).key = None
  <2>1. rows[id] \in Row
    BY <1>2, <1>3
  <2>2. /\ Cut(id) \in Row /\ Cut(id).machine = rows[id].machine
        /\ Cut(id).nkey = rows[id].nkey /\ Cut(id).tagged = rows[id].tagged
        /\ Cut(id).key = None
    BY <2>1 DEF Row
  <2> QED BY <2>2, NoneAssumption
<1> HIDE DEF Cut
<1>4. rows' \in [Ids -> Row \cup {None}]
  BY <1>1, <1>2, <1>3
<1>5. \A id \in Ids :
         /\ rows'[id] = None <=> rows[id] = None
         /\ rows[id] # None => /\ rows'[id].machine = rows[id].machine
                               /\ rows'[id].nkey = rows[id].nkey
                               /\ rows'[id].tagged = rows[id].tagged
                               /\ rows'[id].key \in {rows[id].key, None}
  BY <1>1, <1>3
<1>6. /\ keyRow' \in [Keys -> KeyRow \cup {None}] /\ keyRow'[k] = None
      /\ \A j \in Keys : j # k => keyRow'[j] = keyRow[j]
  BY <1>1, <1>2
<1>7. /\ admitted' \in [Keys -> 0..2] /\ admitted'[k] = 0
      /\ \A j \in Keys : j # k => admitted'[j] = admitted[j]
  BY <1>1, <1>2
<1>8. UNCHANGED <<live, lapsed, nextId, lockVars, pc, task, foreign>>
  BY <1>1
<1>9. StoreShape'
  BY <1>4, <1>6, <1>7, <1>8, TypeParts DEF StoreShape
<1> QED BY <1>5, <1>6, <1>7, <1>8, <1>9

-----------------------------------------------------------------------------
(* The steps keep the invariant.                                           *)

KeysInv     == NeededIsUsed /\ FreshReadUnused
NodesInv    == LiveUnique /\ OwnNode /\ OwnIds /\ IdsBelow
PlacesInv   == NodeInPlace /\ NoNodeYet /\ BeforeKnown
RowsInv     == RowKept /\ RowFirst /\ RowGone /\ RegisteredIsSaved
DisputesInv == TakersForeign /\ DisputesKnown /\ OldKeyFree /\ OldKeysDiffer
AgreeInv    == RowsCurrent /\ RowsBefore /\ RowsHaveNodes
Meaning     == KeysInv /\ NodesInv /\ PlacesInv /\ RowsInv /\ DisputesInv /\ AgreeInv

LEMMA InvParts ==
    /\ Inv <=> TypeOK /\ TaskShape /\ Meaning
    /\ Inv <=> StoreShape /\ ControlShape /\ LocksHeld /\ TaskShape /\ Meaning
BY TypeParts DEF Inv, Meaning, KeysInv, NodesInv, PlacesInv, RowsInv, DisputesInv, AgreeInv

LEMMA InvNext ==
    ASSUME StoreShape', ControlShape', LocksHeld', TaskShape', Meaning'
    PROVE  Inv'
<1>1. TypeOK'
  BY DEF TypeOK, StoreShape, ControlShape, LocksHeld
<1> QED
  BY <1>1 DEF Inv, Meaning, KeysInv, NodesInv, PlacesInv, RowsInv, DisputesInv, AgreeInv

\* The start and the quiet end of a request: nothing hangs on it.
LEMMA Quiet ==
    ASSUME Inv, NEW r \in Requests, Alone(r),
           pc[r] \notin Halfway \cup {"put", "remove"},
           pc'[r] \in {"idle", "lockNodeKey", "decide"},
           UNCHANGED <<storeVars, admitted, foreign>>
    PROVE  Meaning'
<1>1. /\ live' = live /\ rows' = rows /\ nextId' = nextId /\ keyRow' = keyRow
      /\ admitted' = admitted /\ foreign' = foreign
  BY DEF storeVars
<1>2. \A q \in Requests : pc'[q] \in HasId \cup Decided =>
         q # r /\ pc'[q] = pc[q] /\ task'[q] = task[q]
  BY DEF Alone, HasId, Decided
<1>3. \A q \in Requests : pc[q] \in Halfway \cup {"put", "remove"} =>
         q # r /\ pc'[q] = pc[q] /\ task'[q] = task[q]
  BY DEF Alone
<1>4. Halfway \cup {"put", "remove", "insert"} \subseteq HasId \cup Decided
  BY DEF Halfway, HasId, Decided
<1>5. KeysInv'
  <2>1. NeededIsUsed'
    BY <1>1 DEF Inv, NeededIsUsed
  <2>2. FreshReadUnused'
    BY <1>2 DEF Inv, FreshReadUnused, HasId, Decided
  <2> QED BY <2>1, <2>2 DEF KeysInv
<1>6. NodesInv'
  <2>1. LiveUnique'
    BY <1>1 DEF Inv, LiveUnique
  <2>2. OwnNode'
    BY <1>1, <1>2 DEF Inv, OwnNode
  <2>3. OwnIds'
    BY <1>2 DEF Inv, OwnIds
  <2>4. IdsBelow'
    BY <1>1, <1>2 DEF Inv, IdsBelow
  <2> QED BY <2>1, <2>2, <2>3, <2>4 DEF NodesInv
<1>7. PlacesInv'
  <2>1. NodeInPlace'
    BY <1>1, <1>2 DEF Inv, NodeInPlace, HasId, Decided
  <2>2. NoNodeYet'
    BY <1>1, <1>2 DEF Inv, NoNodeYet, HasId, Decided
  <2>3. BeforeKnown'
    BY <1>1, <1>2, <1>4 DEF Inv, BeforeKnown, Retags
  <2> QED BY <2>1, <2>2, <2>3 DEF PlacesInv
<1>8. RowsInv'
  <2>1. RowKept'
    BY <1>1, <1>3 DEF Inv, RowKept
  <2>2. RowFirst'
    BY <1>1, <1>2 DEF Inv, RowFirst, HasId
  <2>3. RowGone'
    BY <1>1, <1>2 DEF Inv, RowGone, HasId
  <2>4. RegisteredIsSaved'
    BY <1>1, <1>2 DEF Inv, RegisteredIsSaved, HasId
  <2> QED BY <2>1, <2>2, <2>3, <2>4 DEF RowsInv
<1>9. DisputesInv'
  <2>1. \A q \in Requests : pc'[q] \in Decided => (Taken(q)' <=> Taken(q))
    BY <1>1, <1>2 DEF Taken
  <2>2. \A q, p \in Requests : pc'[q] \in Decided /\ Rival(q, p)' =>
           Rival(q, p) /\ task'[p] = task[p]
    BY <1>2, <1>4 DEF Rival
  <2>3. TakersForeign'
    BY <1>1, <1>2, <2>1, <2>2 DEF Inv, TakersForeign
  <2>4. DisputesKnown'
    BY <1>1, <1>2, <2>1, <2>2 DEF Inv, DisputesKnown, Disputed, Decided
  <2>5. OldKeyFree'
    BY <1>1, <1>2, <1>3, <1>4 DEF Inv, OldKeyFree
  <2>6. OldKeysDiffer'
    BY <1>1, <1>2, <1>4 DEF Inv, OldKeysDiffer
  <2> QED BY <2>3, <2>4, <2>5, <2>6 DEF DisputesInv
<1>10. AgreeInv'
  <2>1. RowsCurrent'
    BY <1>1, <1>3 DEF Inv, RowsCurrent, Describes
  <2>2. RowsBefore'
    BY <1>1, <1>2, <1>4 DEF Inv, RowsBefore, Describes
  <2>3. RowsHaveNodes'
    BY <1>1, <1>3 DEF Inv, RowsHaveNodes, LiveKeys
  <2> QED BY <2>1, <2>2, <2>3 DEF AgreeInv
<1> QED BY <1>5, <1>6, <1>7, <1>8, <1>9, <1>10 DEF Meaning

\* Steps of the keys and of the clock: the rows may lose their keys.
LEMMA StillKept ==
    ASSUME Inv, NeededIsUsed', UNCHANGED <<live, nextId, pc, task, foreign>>,
           \A id \in Ids :
              /\ rows'[id] = None <=> rows[id] = None
              /\ rows[id] # None => /\ rows'[id].machine = rows[id].machine
                                    /\ rows'[id].nkey = rows[id].nkey
                                    /\ rows'[id].tagged = rows[id].tagged
                                    /\ rows'[id].key \in {rows[id].key, None}
    PROVE  Meaning'
<1>0. TypeOK /\ TaskShape
  BY InvParts
<1>1. KeysInv'
  BY DEF Inv, KeysInv, FreshReadUnused
<1>2. NodesInv'
  BY DEF Inv, NodesInv, LiveUnique, OwnNode, OwnIds, IdsBelow
<1>3. PlacesInv'
  BY DEF Inv, PlacesInv, NodeInPlace, NoNodeYet, BeforeKnown, Retags
<1>4. \A n \in NodeKeys : live[n] # None => live[n].id \in Ids
  BY <1>0, StoreFields
<1>5. \A r \in Requests : pc[r] \in HasId => task[r].id \in Ids
  BY <1>0, TaskFields DEF HasId
<1>6. RowsInv'
  <2>1. RowKept'
    BY <1>4 DEF Inv, RowKept
  <2>2. RowFirst'
    BY <1>5 DEF Inv, RowFirst, HasId
  <2>3. RowGone'
    BY <1>5 DEF Inv, RowGone, HasId
  <2>4. RegisteredIsSaved'
    BY <1>5 DEF Inv, RegisteredIsSaved, HasId
  <2> QED BY <2>1, <2>2, <2>3, <2>4 DEF RowsInv
<1>7. DisputesInv'
  <2>1. TakersForeign'
    BY DEF Inv, TakersForeign, Taken, Rival
  <2>2. DisputesKnown'
    BY DEF Inv, DisputesKnown, Disputed, Taken, Rival
  <2>3. OldKeyFree' /\ OldKeysDiffer'
    BY DEF Inv, OldKeyFree, OldKeysDiffer
  <2> QED BY <2>1, <2>2, <2>3 DEF DisputesInv
<1>8. AgreeInv'
  <2>1. RowsCurrent'
    BY <1>4 DEF Inv, RowsCurrent, Describes
  <2>2. RowsBefore'
    BY <1>5 DEF Inv, RowsBefore, Describes, HasId, Halfway
  <2>3. RowsHaveNodes'
    BY DEF Inv, RowsHaveNodes, LiveKeys
  <2> QED BY <2>1, <2>2, <2>3 DEF AgreeInv
<1> QED BY <1>1, <1>2, <1>3, <1>6, <1>7, <1>8 DEF Meaning

LEMMA KeyStepsKept ==
    ASSUME Inv, NEW k \in Keys, ExpireKey(k) \/ DestroyKey(k)
    PROVE  StoreShape' /\ Meaning' /\ UNCHANGED <<lockVars, pc, task>>
<1>0. TypeOK
  BY InvParts
<1>1. CASE ExpireKey(k)
  <2>1. NeededIsUsed'
    BY <1>0, <1>1, ExpireKeyEffect DEF Inv, NeededIsUsed, OneShot
  <2>2. rows' = rows /\ UNCHANGED <<live, nextId, pc, task, foreign, lockVars>>
    BY <1>1 DEF ExpireKey
  <2>3. Meaning'
    BY <2>1, <2>2, StillKept
  <2> QED BY <1>0, <1>1, <2>2, <2>3, ExpireKeyEffect
<1>2. CASE DestroyKey(k)
  <2>1. NeededIsUsed'
    BY <1>0, <1>2, DestroyKeyEffect DEF Inv, NeededIsUsed, OneShot
  <2>2. UNCHANGED <<live, nextId, pc, task, foreign, lockVars>>
    BY <1>2 DEF DestroyKey
  <2>3. Meaning'
    BY <1>0, <1>2, <2>1, <2>2, DestroyKeyEffect, StillKept
  <2> QED BY <1>0, <1>2, <2>2, <2>3, DestroyKeyEffect
<1> QED BY <1>1, <1>2

LEMMA NodeLapsesKept ==
    ASSUME Inv, NEW id \in Ids, NodeLapses(id)
    PROVE  StoreShape' /\ Meaning' /\ UNCHANGED <<lockVars, pc, task>>
<1>0. StoreShape
  BY InvParts
<1>1. /\ lapsed' = lapsed \cup {id} /\ rows' = rows
      /\ UNCHANGED <<live, nextId, keyRow, lockVars, pc, task, admitted, foreign>>
  BY DEF NodeLapses
<1>2. NeededIsUsed'
  BY <1>1 DEF Inv, NeededIsUsed
<1>3. StoreShape'
  BY <1>0, <1>1 DEF StoreShape
<1> QED BY <1>1, <1>2, <1>3, StillKept

\* A disconnect saves the node as the registry has it; that matters while a
\* registration of the node is not saved.
LEMMA PersistLastSeenKept ==
    ASSUME Inv, NEW id \in Ids, PersistLastSeen(id)
    PROVE  StoreShape' /\ Meaning' /\ UNCHANGED <<lockVars, pc, task>>
<1>0. TypeOK /\ TaskShape /\ LocksHeld
  BY InvParts
<1>1. /\ StoreShape' /\ persist = None /\ rows[id] # None
      /\ \A i \in Ids : i # id => rows'[i] = rows[i]
      /\ foreign' = IF Unsaved(id) THEN foreign \cup {id} ELSE foreign
      /\ UNCHANGED <<live, lapsed, nextId, keyRow, lockVars, pc, task, admitted>>
  BY <1>0, PersistLastSeenEffect
<1>2. PICK n \in NodeKeys :
         /\ live[n] # None /\ live[n].id = id
         /\ rows'[id] # None /\ rows'[id].machine = rows[id].machine
         /\ rows'[id].key = rows[id].key
         /\ rows'[id].nkey = n /\ rows'[id].tagged = live[n].tagged
  BY <1>0, PersistLastSeenEffect
<1>3. foreign \subseteq foreign'
  BY <1>1
<1>4. KeysInv'
  BY <1>1 DEF Inv, KeysInv, NeededIsUsed, FreshReadUnused
<1>5. NodesInv'
  BY <1>1 DEF Inv, NodesInv, LiveUnique, OwnNode, OwnIds, IdsBelow
<1>6. PlacesInv'
  BY <1>1 DEF Inv, PlacesInv, NodeInPlace, NoNodeYet, BeforeKnown, Retags
<1>7. \A m \in NodeKeys : live[m] # None => live[m].id \in Ids /\ (live[m].id = id => m = n)
  BY <1>0, <1>2, StoreFields DEF Inv, LiveUnique
<1>8. \A r \in Requests : pc[r] \in HasId => task[r].id \in Ids
  BY <1>0, TaskFields DEF HasId
<1>9. RowsInv'
  <2>1. RowKept'
    BY <1>1, <1>2, <1>7 DEF Inv, RowKept
  <2>2. RowFirst'
    <3>1. \A r \in Requests : pc[r] = "put" => task[r].id # id
      BY <1>2 DEF Inv, OwnNode, NoNodeYet, HasId
    <3> QED BY <1>1, <1>8, <3>1 DEF Inv, RowFirst, HasId
  <2>3. RowGone'
    BY <1>1, <1>8 DEF Inv, RowGone, HasId
  <2>4. RegisteredIsSaved'
    <3> SUFFICES ASSUME NEW r \in Requests, pc[r] = "publish"
                 PROVE  /\ live[task[r].nkey] # None /\ live[task[r].nkey].id = task[r].id
                        /\ rows'[task[r].id] # None /\ rows'[task[r].id].nkey = task[r].nkey
                        /\ rows'[task[r].id].key \in {task[r].key, None}
      BY <1>1 DEF RegisteredIsSaved
    <3>1. /\ live[task[r].nkey] # None /\ live[task[r].nkey].id = task[r].id
          /\ rows[task[r].id] # None /\ rows[task[r].id].nkey = task[r].nkey
          /\ rows[task[r].id].key \in {task[r].key, None}
      BY DEF Inv, RegisteredIsSaved
    <3>2. task[r].nkey \in NodeKeys /\ task[r].id \in Ids
      BY <1>0, TaskFields DEF HasId
    <3> QED BY <1>1, <1>2, <1>7, <3>1, <3>2
  <2> QED BY <2>1, <2>2, <2>3, <2>4 DEF RowsInv
<1>10. DisputesInv'
  <2>1. TakersForeign'
    BY <1>1, <1>3 DEF Inv, TakersForeign, Taken, Rival
  <2>2. DisputesKnown'
    BY <1>1, <1>3 DEF Inv, DisputesKnown, Disputed, Taken, Rival
  <2>3. OldKeyFree' /\ OldKeysDiffer'
    BY <1>1, <1>3 DEF Inv, OldKeyFree, OldKeysDiffer
  <2> QED BY <2>1, <2>2, <2>3 DEF DisputesInv
<1>11. AgreeInv'
  <2>1. RowsCurrent'
    BY <1>1, <1>2, <1>3, <1>7 DEF Inv, RowsCurrent, Describes
  <2>2. RowsBefore'
    <3> SUFFICES ASSUME NEW r \in Requests, pc[r] \in Halfway, task[r].id \notin foreign'
                 PROVE  rows'[task[r].id] = rows[task[r].id]
      BY <1>1, <1>3 DEF Inv, RowsBefore, Describes
    <3>1. task[r].id # id
      BY <1>0, <1>1, AuthKeyAssumption DEF Unsaved, Halfway, LocksHeld, HasPersist
    <3> QED BY <1>1, <1>8, <3>1 DEF Halfway, HasId
  <2>3. RowsHaveNodes'
    <3>1. n \in LiveKeys(id)
      BY <1>2 DEF LiveKeys
    <3> QED BY <1>1, <1>3, <3>1 DEF Inv, RowsHaveNodes, LiveKeys
  <2> QED BY <2>1, <2>2, <2>3 DEF AgreeInv
<1> QED BY <1>1, <1>4, <1>5, <1>6, <1>9, <1>10, <1>11 DEF Meaning

LEMMA StartDeleteKept ==
    ASSUME Inv, NEW r \in Requests, NEW n \in NodeKeys, StartDelete(r, n)
    PROVE  Meaning'
<1>0. TypeOK /\ TaskShape /\ LocksHeld
  BY InvParts
<1>1. /\ Alone(r) /\ pc[r] = "idle" /\ pc'[r] = "destroy"
      /\ live[n] # None /\ mlock[live[n].machine] = None
      /\ task'[r].machine = live[n].machine /\ task'[r].nkey = n
      /\ task'[r].id = live[n].id
      /\ live' = live /\ rows' = rows /\ nextId' = nextId /\ keyRow' = keyRow
      /\ admitted' = admitted /\ foreign' = foreign
  BY <1>0, StartDeleteTyped DEF storeVars
<1>2. \A q \in Requests : q = r \/ (pc'[q] = pc[q] /\ task'[q] = task[q])
  BY <1>1 DEF Alone
<1>3. \A q \in Requests : pc'[q] \in Decided \cup Halfway \cup {"put", "remove"} =>
         q # r /\ pc'[q] = pc[q] /\ task'[q] = task[q]
  BY <1>1, <1>2 DEF Decided, Halfway
<1>4. \A q \in Requests : pc[q] \in Halfway \cup {"put", "remove"} =>
         q # r /\ pc'[q] = pc[q] /\ task'[q] = task[q]
  BY <1>1, <1>2 DEF Halfway
<1>5. KeysInv'
  <2>1. NeededIsUsed'
    BY <1>1 DEF Inv, NeededIsUsed
  <2>2. FreshReadUnused'
    BY <1>3 DEF Inv, FreshReadUnused, Decided
  <2> QED BY <2>1, <2>2 DEF KeysInv
\* Nobody else works on the node: its machine was not locked.
<1>6. \A q \in Requests : q # r /\ pc[q] \in HasId => task[q].id # live[n].id
  BY <1>0, <1>1, AuthKeyAssumption DEF Inv, OwnNode, LocksHeld, HasId, HasMachine
<1>7. NodesInv'
  <2>1. LiveUnique'
    BY <1>1 DEF Inv, LiveUnique
  <2>2. OwnNode'
    BY <1>1, <1>2 DEF Inv, OwnNode, LiveUnique
  <2>3. OwnIds'
    BY <1>1, <1>2, <1>6 DEF Inv, OwnIds
  <2>4. IdsBelow'
    BY <1>1, <1>2 DEF Inv, IdsBelow
  <2> QED BY <2>1, <2>2, <2>3, <2>4 DEF NodesInv
<1>8. PlacesInv'
  <2>1. NodeInPlace'
    BY <1>1, <1>2 DEF Inv, NodeInPlace
  <2>2. NoNodeYet'
    BY <1>1, <1>3 DEF Inv, NoNodeYet, Decided
  <2>3. BeforeKnown'
    BY <1>1, <1>3 DEF Inv, BeforeKnown, Retags
  <2> QED BY <2>1, <2>2, <2>3 DEF PlacesInv
<1>9. RowsInv'
  <2>1. RowKept'
    BY <1>1, <1>4 DEF Inv, RowKept
  <2>2. RowFirst'
    BY <1>1, <1>3 DEF Inv, RowFirst
  <2>3. RowGone'
    BY <1>1, <1>3 DEF Inv, RowGone
  <2>4. RegisteredIsSaved'
    BY <1>1, <1>3 DEF Inv, RegisteredIsSaved, Decided
  <2> QED BY <2>1, <2>2, <2>3, <2>4 DEF RowsInv
<1>10. DisputesInv'
  <2>1. \A q \in Requests : pc'[q] \in Decided => (Taken(q)' <=> Taken(q))
    BY <1>1, <1>3 DEF Taken
  <2>2. \A q, p \in Requests : pc'[q] \in Decided /\ Rival(q, p)' =>
           Rival(q, p) /\ task'[p] = task[p]
    BY <1>3 DEF Rival
  <2>3. TakersForeign'
    BY <1>1, <1>3, <2>1, <2>2 DEF Inv, TakersForeign
  <2>4. DisputesKnown'
    BY <1>1, <1>3, <2>1, <2>2 DEF Inv, DisputesKnown, Disputed, Decided
  <2>5. OldKeyFree'
    BY <1>1, <1>3, <1>4 DEF Inv, OldKeyFree
  <2>6. OldKeysDiffer'
    BY <1>1, <1>3 DEF Inv, OldKeysDiffer
  <2> QED BY <2>3, <2>4, <2>5, <2>6 DEF DisputesInv
<1>11. AgreeInv'
  <2>1. RowsCurrent'
    BY <1>1, <1>4 DEF Inv, RowsCurrent, Describes
  <2>2. RowsBefore'
    BY <1>1, <1>3 DEF Inv, RowsBefore, Describes
  <2>3. RowsHaveNodes'
    BY <1>1, <1>4 DEF Inv, RowsHaveNodes, LiveKeys
  <2> QED BY <2>1, <2>2, <2>3 DEF AgreeInv
<1> QED BY <1>5, <1>7, <1>8, <1>9, <1>10, <1>11 DEF Meaning

\* The verdict: the node key is free, and whoever may still want it back is
\* known.
LEMMA DecideKept ==
    ASSUME Inv, NEW r \in Requests, Decide(r), Accepted(task[r])
    PROVE  Meaning'
<1>0. TypeOK /\ TaskShape /\ LocksHeld
  BY InvParts
<1> DEFINE t == task[r]
<1>1. /\ Alone(r) /\ pc[r] = "decide"
      /\ task'[r].machine = t.machine /\ task'[r].nkey = t.nkey
      /\ task'[r].key = t.key /\ task'[r].captured = keyRow[t.key]
      /\ task'[r].fresh = ~CanRefresh(t)
      /\ task'[r].contested = (OldOwners(t) # {})
      /\ foreign' = foreign \cup OldOwners(t)
      /\ \/ NodesOf(t.machine) = {} /\ pc'[r] = "insert"
         \/ /\ pc'[r] = "begin"
            /\ \E n \in NodeKeys : /\ live[n] # None /\ live[n].machine = t.machine
                                   /\ task'[r].id = live[n].id
      /\ live' = live /\ rows' = rows /\ nextId' = nextId /\ keyRow' = keyRow
      /\ admitted' = admitted
  BY <1>0, DecideEffect DEF storeVars
<1>2. \A q \in Requests : q = r \/ (pc'[q] = pc[q] /\ task'[q] = task[q])
  BY <1>1 DEF Alone
<1>3. \A q \in Requests :
         pc'[q] \in Halfway \cup {"put", "remove", "publish", "rollback", "destroy"} =>
            q # r /\ pc'[q] = pc[q] /\ task'[q] = task[q]
  BY <1>1, <1>2 DEF Halfway
<1>4. \A q \in Requests : pc[q] \in Halfway \cup {"put", "remove"} =>
         q # r /\ pc'[q] = pc[q] /\ task'[q] = task[q]
  BY <1>1, <1>2 DEF Halfway
<1>5. foreign \subseteq foreign'
  BY <1>1
<1>6. t.nkey \in NodeKeys /\ t.machine \in Machines
  BY <1>0, <1>1, TaskFields
<1>7. KeysInv'
  <2>1. NeededIsUsed'
    BY <1>1 DEF Inv, NeededIsUsed
  <2>2. t.key \in OneShot /\ ~CanRefresh(t) => ~keyRow[t.key].used
    BY DEF Accepted, Valid
  <2>3. FreshReadUnused'
    BY <1>1, <1>2, <2>2 DEF Inv, FreshReadUnused
  <2> QED BY <2>1, <2>3 DEF KeysInv
<1>8. \A q \in Requests : q # r /\ pc[q] \in HasMachine => task[q].machine # t.machine
  BY <1>0, <1>1, Apart DEF HasMachine
<1>9. NodesInv'
  <2>1. LiveUnique'
    BY <1>1 DEF Inv, LiveUnique
  <2>2. CASE pc'[r] = "insert"
    <3>1. \A q \in Requests : pc'[q] \in HasId => pc'[q] = pc[q] /\ task'[q] = task[q]
      BY <1>2, <2>2 DEF HasId
    <3>2. OwnNode' /\ OwnIds' /\ IdsBelow'
      BY <1>1, <3>1 DEF Inv, OwnNode, OwnIds, IdsBelow
    <3> QED BY <2>1, <3>2 DEF NodesInv
  <2>3. CASE pc'[r] = "begin"
    <3>1. PICK n \in NodeKeys : /\ live[n] # None /\ live[n].machine = t.machine
                                /\ task'[r].id = live[n].id
      BY <1>1, <2>3
    <3>2. \A q \in Requests : q # r /\ pc[q] \in HasId => task[q].id # live[n].id
      BY <1>8, <3>1 DEF Inv, OwnNode, HasId, HasMachine
    <3>3. OwnNode'
      BY <1>1, <1>2, <3>1 DEF Inv, OwnNode, LiveUnique
    <3>4. OwnIds'
      BY <1>2, <3>1, <3>2 DEF Inv, OwnIds
    <3>5. IdsBelow'
      BY <1>1, <1>2, <3>1 DEF Inv, IdsBelow
    <3> QED BY <2>1, <3>3, <3>4, <3>5 DEF NodesInv
  <2> QED BY <1>1, <2>2, <2>3
<1>10. PlacesInv'
  <2>1. NodeInPlace'
    BY <1>1, <1>3 DEF Inv, NodeInPlace, Halfway
  <2>2. NoNodeYet'
    BY <1>1, <1>2 DEF Inv, NoNodeYet, NodesOf
  <2>3. BeforeKnown'
    BY <1>1, <1>3 DEF Inv, BeforeKnown, Retags
  <2> QED BY <2>1, <2>2, <2>3 DEF PlacesInv
<1>11. RowsInv'
  <2>1. RowKept'
    BY <1>1, <1>4 DEF Inv, RowKept
  <2>2. RowFirst'
    BY <1>1, <1>3 DEF Inv, RowFirst
  <2>3. RowGone'
    BY <1>1, <1>3 DEF Inv, RowGone
  <2>4. RegisteredIsSaved'
    BY <1>1, <1>3 DEF Inv, RegisteredIsSaved
  <2> QED BY <2>1, <2>2, <2>3, <2>4 DEF RowsInv
<1>12. DisputesInv'
  <2>1. ~Taken(r)'
    BY <1>1 DEF Accepted, NodeKeyFree, Taken
  <2>2. \A q \in Requests : Rival(r, q)' => task'[q].id \in OldOwners(t)
    <3> SUFFICES ASSUME NEW q \in Requests, Rival(r, q)'
                 PROVE  task'[q].id \in OldOwners(t)
      OBVIOUS
    <3>1. /\ q # r /\ pc[q] \in {"save", "rollback"} /\ task'[q] = task[q]
          /\ task[q].before.nkey = t.nkey
      BY <1>1, <1>3 DEF Rival, Halfway
    <3>2. task[q].machine # t.machine
      BY <1>8, <3>1 DEF HasMachine
    <3> QED BY <3>1, <3>2 DEF OldOwners
  <2>3. \A q \in Requests : q # r => (Taken(q)' <=> Taken(q))
    BY <1>1, <1>2 DEF Taken
  <2>4. \A q, p \in Requests : q # r /\ Rival(q, p)' => Rival(q, p) /\ task'[p] = task[p]
    BY <1>2, <1>3 DEF Rival
  <2>5. TakersForeign'
    BY <1>1, <1>2, <1>5, <2>1, <2>2, <2>3, <2>4 DEF Inv, TakersForeign
  <2>6. DisputesKnown'
    <3>1. Disputed(r)' => task'[r].contested
      BY <1>1, <2>1, <2>2 DEF Disputed
    <3>2. \A q \in Requests : q # r /\ Disputed(q)' => Disputed(q)
      BY <2>3, <2>4 DEF Disputed
    <3>3. pc'[r] # "put"
      BY <1>1
    <3> QED BY <1>2, <1>5, <3>1, <3>2, <3>3 DEF Inv, DisputesKnown
  <2>7. OldKeyFree'
    BY <1>1, <1>3, <1>4, <1>5 DEF Inv, OldKeyFree
  <2>8. OldKeysDiffer'
    BY <1>3, <1>5 DEF Inv, OldKeysDiffer
  <2> QED BY <2>5, <2>6, <2>7, <2>8 DEF DisputesInv
<1>13. AgreeInv'
  <2>1. RowsCurrent'
    BY <1>1, <1>4, <1>5 DEF Inv, RowsCurrent, Describes
  <2>2. RowsBefore'
    BY <1>1, <1>3, <1>5 DEF Inv, RowsBefore, Describes
  <2>3. RowsHaveNodes'
    BY <1>1, <1>4, <1>5 DEF Inv, RowsHaveNodes, LiveKeys
  <2> QED BY <2>1, <2>2, <2>3 DEF AgreeInv
<1> QED BY <1>7, <1>9, <1>10, <1>11, <1>12, <1>13 DEF Meaning

\* What the steps of a request r that change the registry have in common:
\* they move the node of r, put it in or take it out, and no other.
LiveStep(r) ==
    LET t == task[r] IN
    /\ Alone(r) /\ pc[r] \in {"begin", "rollback", "put", "remove"}
    /\ UNCHANGED <<rows, nextId, keyRow, admitted, foreign>>
    /\ \A n \in NodeKeys : live[n] # None /\ live[n].id # t.id => live'[n] = live[n]
    /\ \A n \in NodeKeys : live[n] # None /\ live[n].machine = t.machine => live[n].id = t.id
    /\ \A n \in NodeKeys : live'[n] # None /\ live'[n] # live[n] =>
          /\ live'[n].id = t.id /\ live'[n].machine = t.machine
          /\ \/ n = t.nkey /\ pc[r] \in {"begin", "put"}
             \/ n = t.before.nkey /\ pc[r] = "rollback"
    /\ \A n1, n2 \in NodeKeys :
          /\ live'[n1] # None /\ live'[n2] # None
          /\ live'[n1].id = t.id /\ live'[n2].id = t.id
          => n1 = n2
    /\ pc'[r] \in {"idle", "save", "publish"}
    /\ pc'[r] # "idle" =>
          /\ task'[r].machine = t.machine /\ task'[r].nkey = t.nkey
          /\ task'[r].id = t.id /\ task'[r].key = t.key
          /\ live'[t.nkey] # None /\ live'[t.nkey].id = t.id /\ live'[t.nkey].machine = t.machine

\* What becomes of the request itself.
StepInto(r) ==
    LET t == task[r]
        u == task'[r] IN
    /\ pc'[r] = "save" =>
          /\ pc[r] = "begin" /\ u.captured = t.captured /\ u.fresh = t.fresh
          /\ u.contested = t.contested
          /\ u.before.nkey \in NodeKeys
          /\ live[u.before.nkey] # None /\ live[u.before.nkey].id = t.id
          /\ u.before.node = live[u.before.nkey]
          /\ live'[u.before.nkey] # None => live'[u.before.nkey].id = t.id
          /\ live'[t.nkey].key = t.key
          /\ live'[t.nkey].tagged = (u.before.node.tagged \/ Retags(t, u.before.node))
    /\ pc'[r] = "publish" => pc[r] = "put"
    /\ pc[r] = "begin" => pc'[r] = "save"

LEMMA LiveStepNodes ==
    ASSUME Inv, NEW r \in Requests, LiveStep(r), StepInto(r)
    PROVE  KeysInv' /\ NodesInv' /\ PlacesInv'
<1> DEFINE t == task[r]
<1>0. TypeOK /\ TaskShape /\ LocksHeld
  BY InvParts
<1>1. /\ \A q \in Requests : q # r => pc'[q] = pc[q] /\ task'[q] = task[q]
      /\ pc[r] \in {"begin", "rollback", "put", "remove"}
      /\ pc'[r] \in {"idle", "save", "publish"}
      /\ UNCHANGED <<rows, nextId, keyRow, admitted, foreign>>
  BY DEF LiveStep, Alone
<1>2. pc[r] \in HasId /\ pc[r] \in HasMachine /\ t.id \in Ids /\ t.nkey \in NodeKeys
  BY <1>0, <1>1, TaskFields DEF HasId, HasMachine
<1>3. /\ \A n \in NodeKeys : live[n] # None /\ live[n].id # t.id => live'[n] = live[n]
      /\ \A n \in NodeKeys : live[n] # None /\ live[n].machine = t.machine => live[n].id = t.id
      /\ \A n \in NodeKeys : live'[n] # None /\ live'[n] # live[n] =>
            live'[n].id = t.id /\ live'[n].machine = t.machine
      /\ \A n1, n2 \in NodeKeys :
            /\ live'[n1] # None /\ live'[n2] # None
            /\ live'[n1].id = t.id /\ live'[n2].id = t.id
            => n1 = n2
  BY DEF LiveStep
<1>4. pc'[r] # "idle" =>
         /\ task'[r].machine = t.machine /\ task'[r].nkey = t.nkey
         /\ task'[r].id = t.id /\ task'[r].key = t.key
         /\ live'[t.nkey] # None /\ live'[t.nkey].id = t.id
  BY DEF LiveStep
<1>5. \A q \in Requests : q # r /\ pc[q] \in HasId => task[q].id # t.id
  BY <1>2 DEF Inv, OwnIds
<1>6. \A q \in Requests : q # r /\ pc[q] \in HasMachine => task[q].machine # t.machine
  BY <1>0, <1>2, Apart
<1>7. KeysInv'
  <2>1. NeededIsUsed'
    BY <1>1 DEF Inv, NeededIsUsed
  <2>2. FreshReadUnused'
    BY <1>1, <1>4 DEF Inv, FreshReadUnused, StepInto
  <2> QED BY <2>1, <2>2 DEF KeysInv
\* What is in the registry now: the node of r, or something that was there.
<1>8. \A n \in NodeKeys : live'[n] # None =>
         \/ live'[n].id = t.id /\ live'[n].machine = t.machine
         \/ live'[n] = live[n] /\ live[n].id # t.id /\ live[n].machine # t.machine
  <2> SUFFICES ASSUME NEW n \in NodeKeys, live'[n] # None, live'[n] = live[n]
               PROVE  \/ live[n].id = t.id /\ live[n].machine = t.machine
                      \/ live[n].id # t.id /\ live[n].machine # t.machine
    BY <1>3
  <2> QED BY <1>2, <1>3 DEF Inv, OwnNode
<1>9. NodesInv'
  <2>1. LiveUnique'
    <3> SUFFICES ASSUME NEW n1 \in NodeKeys, NEW n2 \in NodeKeys,
                        live'[n1] # None, live'[n2] # None,
                        live'[n1].id = live'[n2].id \/ live'[n1].machine = live'[n2].machine
                 PROVE  n1 = n2
      BY DEF LiveUnique
    <3>1. CASE live'[n1].id = t.id /\ live'[n1].machine = t.machine
      BY <1>3, <1>8, <3>1
    <3>2. CASE ~(live'[n1].id = t.id /\ live'[n1].machine = t.machine)
      BY <1>3, <1>8, <3>2 DEF Inv, LiveUnique
    <3> QED BY <3>1, <3>2
  <2>2. OwnNode'
    <3> SUFFICES ASSUME NEW q \in Requests, NEW n \in NodeKeys,
                        pc'[q] \in HasId, live'[n] # None, live'[n].id = task'[q].id
                 PROVE  live'[n].machine = task'[q].machine
      BY DEF OwnNode
    <3>1. CASE q = r
      BY <1>4, <1>8, <3>1 DEF HasId
    <3>2. CASE q # r
      <4>1. live'[n].id # t.id
        BY <1>1, <1>5, <3>2
      <4> QED BY <1>1, <1>8, <3>2, <4>1 DEF Inv, OwnNode
    <3> QED BY <3>1, <3>2
  <2>3. OwnIds'
    BY <1>1, <1>4, <1>5, <1>2 DEF Inv, OwnIds, HasId
  <2>4. IdsBelow'
    BY <1>1, <1>2, <1>4, <1>8 DEF Inv, IdsBelow, HasId
  <2> QED BY <2>1, <2>2, <2>3, <2>4 DEF NodesInv
<1>10. PlacesInv'
  <2>1. NodeInPlace'
    <3> SUFFICES ASSUME NEW q \in Requests,
                        pc'[q] \in {"save", "rollback", "publish", "destroy", "remove"}
                 PROVE  live'[task'[q].nkey] # None /\ live'[task'[q].nkey].id = task'[q].id
      BY DEF NodeInPlace
    <3>1. CASE q = r
      BY <1>1, <1>4, <3>1
    <3>2. CASE q # r
      <4>1. pc[q] = pc'[q] /\ task'[q] = task[q] /\ task[q].nkey \in NodeKeys /\ pc[q] \in HasId
        BY <1>0, <1>1, <3>2, TaskFields DEF HasId
      <4>2. live[task[q].nkey] # None /\ live[task[q].nkey].id = task[q].id
        BY <4>1 DEF Inv, NodeInPlace
      <4> QED BY <1>3, <1>5, <3>2, <4>1, <4>2
    <3> QED BY <3>1, <3>2
  <2>2. NoNodeYet'
    <3> SUFFICES ASSUME NEW q \in Requests, NEW n \in NodeKeys,
                        pc'[q] \in {"insert", "put"}, live'[n] # None
                 PROVE  live'[n].machine # task'[q].machine
      BY DEF NoNodeYet
    <3>1. q # r /\ pc[q] = pc'[q] /\ task'[q] = task[q] /\ task[q].machine # t.machine
      BY <1>1, <1>6 DEF HasMachine
    <3> QED BY <1>8, <3>1 DEF Inv, NoNodeYet
  <2>3. BeforeKnown'
    <3> SUFFICES ASSUME NEW q \in Requests, pc'[q] \in Halfway
                 PROVE  LET u == task'[q] IN
                        /\ u.before.node.id = u.id /\ u.before.node.machine = u.machine
                        /\ live'[u.nkey].key = u.key
                        /\ live'[u.nkey].tagged = (u.before.node.tagged \/ Retags(u, u.before.node))
      BY DEF BeforeKnown, Retags
    <3>1. CASE q = r
      <4>1. pc'[r] = "save"
        BY <1>1, <3>1 DEF Halfway
      <4>2. task'[r].before.node.id = t.id /\ task'[r].before.node.machine = t.machine
        BY <1>2, <4>1 DEF StepInto, Inv, OwnNode
      <4> QED BY <1>4, <3>1, <4>1, <4>2 DEF StepInto, Retags
    <3>2. CASE q # r
      <4>1. /\ pc[q] = pc'[q] /\ task'[q] = task[q] /\ task[q].nkey \in NodeKeys /\ pc[q] \in HasId
            /\ pc[q] \in Halfway
        BY <1>0, <1>1, <3>2, TaskFields DEF HasId, Halfway
      <4>2. live[task[q].nkey] # None /\ live[task[q].nkey].id = task[q].id
        BY <4>1 DEF Inv, NodeInPlace, Halfway
      <4>3. live'[task[q].nkey] = live[task[q].nkey]
        BY <1>3, <1>5, <3>2, <4>1, <4>2
      <4> QED BY <4>1, <4>3 DEF Inv, BeforeKnown, Retags
    <3> QED BY <3>1, <3>2
  <2> QED BY <2>1, <2>2, <2>3 DEF PlacesInv
<1> QED BY <1>7, <1>9, <1>10

LEMMA LiveStepRows ==
    ASSUME Inv, NEW r \in Requests, LiveStep(r), StepInto(r),
           pc[r] = "remove" => \A n \in NodeKeys : live'[n] # None => live'[n].id # task[r].id,
           pc[r] # "remove" => rows[task[r].id] # None
    PROVE  RowsInv'
<1> DEFINE t == task[r]
<1>0. TypeOK /\ TaskShape
  BY InvParts
<1>1. /\ \A q \in Requests : q # r => pc'[q] = pc[q] /\ task'[q] = task[q]
      /\ pc[r] \in {"begin", "rollback", "put", "remove"}
      /\ pc'[r] \in {"idle", "save", "publish"}
      /\ rows' = rows
  BY DEF LiveStep, Alone
<1>2. pc[r] \in HasId
  BY <1>1 DEF HasId
<1>3. \A q \in Requests : q # r /\ pc[q] \in HasId => task[q].id # t.id
  BY <1>2 DEF Inv, OwnIds
<1>4. /\ \A n \in NodeKeys : live[n] # None /\ live[n].id # t.id => live'[n] = live[n]
      /\ \A n \in NodeKeys : live'[n] # None /\ live'[n] # live[n] => live'[n].id = t.id
  BY DEF LiveStep
<1>5. RowKept'
  <2> SUFFICES ASSUME NEW n \in NodeKeys, live'[n] # None,
                      \A q \in Requests : pc'[q] = "remove" => task'[q].id # live'[n].id
               PROVE  rows[live'[n].id] # None
    BY <1>1 DEF RowKept
  <2>1. CASE live'[n].id = t.id
    BY <2>1
  <2>2. CASE live'[n].id # t.id
    <3>1. live'[n] = live[n]
      BY <1>4, <2>2
    <3>2. \A q \in Requests : pc[q] = "remove" => task[q].id # live[n].id
      BY <1>1, <2>2, <3>1
    <3> QED BY <3>1, <3>2 DEF Inv, RowKept
  <2> QED BY <2>1, <2>2
<1>6. RowFirst'
  BY <1>1 DEF Inv, RowFirst
<1>7. RowGone'
  BY <1>1 DEF Inv, RowGone
<1>8. RegisteredIsSaved'
  <2> SUFFICES ASSUME NEW q \in Requests, pc'[q] = "publish"
               PROVE  LET u == task'[q] IN
                      /\ live'[u.nkey] # None /\ live'[u.nkey].id = u.id
                      /\ rows[u.id] # None /\ rows[u.id].nkey = u.nkey
                      /\ rows[u.id].key \in {u.key, None}
    BY <1>1 DEF RegisteredIsSaved
  <2>1. CASE q = r
    <3>1. /\ live'[t.nkey] # None /\ live'[t.nkey].id = t.id /\ pc[r] = "put"
          /\ task'[r].nkey = t.nkey /\ task'[r].id = t.id /\ task'[r].key = t.key
      BY <2>1 DEF LiveStep, StepInto
    <3> QED BY <2>1, <3>1 DEF Inv, RowFirst
  <2>2. CASE q # r
    <3>1. /\ pc[q] = "publish" /\ task'[q] = task[q] /\ task[q].nkey \in NodeKeys
          /\ task[q].id # t.id
      BY <1>0, <1>1, <1>3, <2>2, TaskFields DEF HasId
    <3>2. /\ live[task[q].nkey] # None /\ live[task[q].nkey].id = task[q].id
          /\ rows[task[q].id] # None /\ rows[task[q].id].nkey = task[q].nkey
          /\ rows[task[q].id].key \in {task[q].key, None}
      BY <3>1 DEF Inv, RegisteredIsSaved
    <3>3. live'[task[q].nkey] = live[task[q].nkey]
      BY <1>4, <3>1, <3>2
    <3> QED BY <3>1, <3>2, <3>3
  <2> QED BY <2>1, <2>2
<1> QED BY <1>5, <1>6, <1>7, <1>8 DEF RowsInv

\* A node comes to a place only under the lock of its node key, or back to
\* where it was: whoever disputes the place is known already.
LEMMA LiveStepDisputes ==
    ASSUME Inv, NEW r \in Requests, LiveStep(r), StepInto(r),
           pc[r] = "rollback" =>
              \/ task[r].id \in foreign
              \/ \A n \in NodeKeys : live'[n] # None /\ live'[n].id = task[r].id
                                         => n = task[r].before.nkey
    PROVE  DisputesInv'
<1> DEFINE t == task[r]
<1>0. TypeOK /\ TaskShape
  BY InvParts
<1>1. /\ \A q \in Requests : q # r => pc'[q] = pc[q] /\ task'[q] = task[q]
      /\ pc[r] \in {"begin", "rollback", "put", "remove"}
      /\ pc'[r] \in {"idle", "save", "publish"}
      /\ foreign' = foreign
  BY DEF LiveStep, Alone
<1>2. pc[r] \in HasId /\ pc[r] \in HasMachine /\ t.id \in Ids /\ t.nkey \in NodeKeys
  BY <1>0, <1>1, TaskFields DEF HasId, HasMachine
<1>3. \A q \in Requests : q # r /\ pc[q] \in HasId => task[q].id # t.id
  BY <1>2 DEF Inv, OwnIds
<1>4. \A q \in Requests :
         /\ q # r /\ pc[q] \in HasMachine => task[q].machine # t.machine
         /\ q # r /\ pc[q] \in HasNodeKey /\ pc[r] \in HasNodeKey => task[q].nkey # t.nkey
  BY <1>0, <1>2, Apart
<1>5. /\ \A n \in NodeKeys : live[n] # None /\ live[n].id # t.id => live'[n] = live[n]
      /\ \A n \in NodeKeys : live'[n] # None /\ live'[n] # live[n] =>
            /\ live'[n].id = t.id /\ live'[n].machine = t.machine
            /\ \/ n = t.nkey /\ pc[r] \in {"begin", "put"}
               \/ n = t.before.nkey /\ pc[r] = "rollback"
  BY DEF LiveStep
<1>6. pc'[r] # "idle" =>
         /\ task'[r].machine = t.machine /\ task'[r].nkey = t.nkey
         /\ task'[r].id = t.id
         /\ live'[t.nkey] # None /\ live'[t.nkey].id = t.id /\ live'[t.nkey].machine = t.machine
  BY DEF LiveStep
<1>7. pc'[r] = "save" =>
         /\ pc[r] = "begin" /\ task'[r].contested = t.contested
         /\ task'[r].before.nkey \in NodeKeys
         /\ live[task'[r].before.nkey] # None /\ live[task'[r].before.nkey].id = t.id
         /\ live[task'[r].before.nkey].machine = t.machine
         /\ live'[task'[r].before.nkey] # None => live'[task'[r].before.nkey].id = t.id
  BY <1>2 DEF StepInto, Inv, OwnNode
\* Disputes between others are as old as they were.
<1>8. ASSUME NEW q \in Requests, q # r, pc[q] \in Decided
      PROVE  /\ Taken(q)' => \/ Taken(q) /\ live'[task[q].nkey] = live[task[q].nkey]
                             \/ Rival(q, r) /\ live'[task[q].nkey].id = t.id
             /\ \A p \in Requests : Rival(q, p)' =>
                   \/ Rival(q, p) /\ task'[p] = task[p]
                   \/ Taken(q) /\ live[task[q].nkey].id = t.id /\ task'[p].id = t.id
  <2>1. /\ pc'[q] = pc[q] /\ task'[q] = task[q] /\ task[q].nkey \in NodeKeys
        /\ pc[q] \in HasMachine /\ pc[q] \in HasNodeKey
    BY <1>0, <1>1, <1>8, TaskFields DEF Decided, HasMachine, HasNodeKey
  <2>2. task[q].machine # t.machine /\ (pc[r] \in {"begin", "put"} => task[q].nkey # t.nkey)
    BY <1>4, <1>8, <2>1 DEF HasNodeKey
  <2>3. Taken(q)' => \/ Taken(q) /\ live'[task[q].nkey] = live[task[q].nkey]
                     \/ Rival(q, r) /\ live'[task[q].nkey].id = t.id
    BY <1>5, <1>8, <2>1, <2>2 DEF Taken, Rival, Halfway
  <2>4. ASSUME NEW p \in Requests, Rival(q, p)'
        PROVE  \/ Rival(q, p) /\ task'[p] = task[p]
               \/ Taken(q) /\ live[task[q].nkey].id = t.id /\ task'[p].id = t.id
    <3>1. CASE p # r
      BY <1>1, <2>1, <2>4, <3>1 DEF Rival
    <3>2. CASE p = r
      <4>1. pc'[r] = "save" /\ task'[r].before.nkey = task[q].nkey
        BY <1>1, <2>1, <2>4, <3>2 DEF Rival, Halfway
      <4> QED BY <1>6, <1>7, <2>2, <3>2, <4>1 DEF Taken
    <3> QED BY <3>1, <3>2
  <2> QED BY <2>3, <2>4
<1>9. ASSUME pc'[r] \in {"save", "publish"}
      PROVE  /\ pc[r] \in {"begin", "put"} /\ ~Taken(r)'
             /\ \A p \in Requests : Rival(r, p)' => Rival(r, p) /\ task'[p] = task[p]
  <2>1. pc[r] \in {"begin", "put"}
    BY <1>7, <1>9 DEF StepInto
  <2>2. ~Taken(r)'
    BY <1>6, <1>9 DEF Taken
  <2>3. \A p \in Requests : Rival(r, p)' => Rival(r, p) /\ task'[p] = task[p]
    BY <1>1, <1>6, <1>9 DEF Rival
  <2> QED BY <2>1, <2>2, <2>3
<1>10. TakersForeign'
  <2> SUFFICES ASSUME NEW q \in Requests, pc'[q] \in Decided
               PROVE  /\ Taken(q)' => live'[task'[q].nkey].id \in foreign
                      /\ \A p \in Requests : Rival(q, p)' => task'[p].id \in foreign
    BY <1>1 DEF TakersForeign
  <2>1. CASE q = r
    BY <1>1, <1>9, <2>1 DEF Inv, TakersForeign, Decided
  <2>2. CASE q # r
    <3>1. pc[q] \in Decided /\ task'[q] = task[q]
      BY <1>1, <2>2
    <3>2. /\ Taken(q) => live[task[q].nkey].id \in foreign
          /\ \A p \in Requests : Rival(q, p) => task[p].id \in foreign
      BY <3>1 DEF Inv, TakersForeign
    <3> QED BY <1>8, <2>2, <3>1, <3>2
  <2> QED BY <2>1, <2>2
<1>11. DisputesKnown'
  <2> SUFFICES ASSUME NEW q \in Requests, Disputed(q)'
               PROVE  /\ pc'[q] \in {"begin", "save", "insert"} => task'[q].contested
                      /\ pc'[q] = "put" => task'[q].id \in foreign
    BY <1>1 DEF DisputesKnown
  <2>1. CASE q = r
    <3>1. CASE pc'[r] = "save"
      <4>1. \E p \in Requests : Rival(r, p)
        BY <1>9, <2>1, <3>1 DEF Disputed
      <4> QED BY <1>7, <2>1, <3>1, <4>1 DEF Inv, DisputesKnown, Disputed
    <3>2. CASE pc'[r] # "save"
      BY <1>1, <2>1, <3>2
    <3> QED BY <3>1, <3>2
  <2>2. CASE q # r
    <3>1. pc'[q] = pc[q] /\ task'[q] = task[q]
      BY <1>1, <2>2
    <3>2. pc[q] \in Decided => Disputed(q)
      BY <1>8, <2>2 DEF Disputed
    <3> QED BY <3>1, <3>2 DEF Inv, DisputesKnown, Decided
  <2> QED BY <2>1, <2>2
<1>12. OldKeyFree'
  <2> DEFINE Free(q, n) == /\ task'[q].id \in foreign
                           /\ \/ live'[n].id \in foreign
                              \/ \E p \in Requests : /\ pc'[p] \in Halfway
                                                     /\ task'[p].id = live'[n].id
                                                     /\ task'[p].contested
  <2> SUFFICES ASSUME NEW q \in Requests, pc'[q] \in Halfway,
                      live'[task'[q].before.nkey] # None,
                      live'[task'[q].before.nkey].id # task'[q].id
               PROVE  Free(q, task'[q].before.nkey)
    BY <1>1 DEF OldKeyFree
  <2>1. CASE q = r
    BY <1>1, <1>6, <1>7, <2>1 DEF Halfway
  <2>2. CASE q # r
    <3>1. pc'[q] = pc[q] /\ task'[q] = task[q]
      BY <1>1, <2>2
    <3>2. PICK n \in NodeKeys : n = task[q].before.nkey
      BY <1>0, <3>1, TaskFields DEF Halfway
    <3>3. live'[n] # None /\ live'[n].id # task[q].id /\ task'[q].before.nkey = n
      BY <3>1, <3>2
    <3>4. CASE live'[n] = live[n]
      <4>1. /\ task[q].id \in foreign
            /\ \/ live[n].id \in foreign
               \/ \E p \in Requests : /\ pc[p] \in Halfway /\ task[p].id = live[n].id
                                      /\ task[p].contested
        BY <3>1, <3>2, <3>3, <3>4 DEF Inv, OldKeyFree
      <4>2. CASE live[n].id \in foreign
        BY <3>1, <3>3, <3>4, <4>1, <4>2
      <4>3. ASSUME NEW p \in Requests, pc[p] \in Halfway, task[p].id = live[n].id,
                   task[p].contested
            PROVE  Free(q, n)
        <5>1. CASE p # r
          BY <1>1, <3>1, <3>4, <4>1, <4>3, <5>1
        <5>2. CASE p = r
          <6>1. pc[r] = "rollback" /\ live'[n].id = t.id
            BY <1>1, <3>4, <4>3, <5>2 DEF Halfway
          <6>2. t.id \in foreign \/ n = t.before.nkey
            BY <3>3, <6>1
          <6>3. n = t.before.nkey => t.id \in foreign
            BY <2>2, <3>1, <3>2, <6>1 DEF Inv, OldKeysDiffer, Halfway
          <6> QED BY <3>1, <4>1, <6>1, <6>2, <6>3
        <5> QED BY <5>1, <5>2
      <4> QED BY <3>3, <4>1, <4>2, <4>3
    <3>5. CASE live'[n] # live[n]
      <4>1. live'[n].id = t.id
        BY <1>5, <3>3, <3>5
      <4>2. CASE n = t.nkey /\ pc[r] \in {"begin", "put"}
        <5>1. Rival(r, q) /\ pc[r] \in Decided
          BY <2>2, <3>1, <3>2, <4>2 DEF Rival, Decided
        <5>2. task[q].id \in foreign
          BY <5>1 DEF Inv, TakersForeign
        <5>3. pc[r] = "put" => t.id \in foreign
          BY <5>1 DEF Inv, DisputesKnown, Disputed
        <5>4. pc[r] = "begin" => t.contested
          BY <5>1 DEF Inv, DisputesKnown, Disputed
        <5>5. pc[r] = "begin" => pc'[r] = "save"
          BY DEF StepInto
        <5> QED BY <1>6, <1>7, <3>1, <3>3, <4>1, <4>2, <5>2, <5>3, <5>4, <5>5 DEF Halfway
      <4>3. CASE n = t.before.nkey /\ pc[r] = "rollback"
        <5>1. task[q].id \in foreign /\ t.id \in foreign
          BY <2>2, <3>1, <3>2, <4>3 DEF Inv, OldKeysDiffer, Halfway
        <5> QED BY <3>1, <3>3, <4>1, <5>1
      <4> QED BY <1>5, <3>3, <3>5, <4>2, <4>3
    <3> QED BY <3>4, <3>5
  <2> QED BY <2>1, <2>2
<1>13. OldKeysDiffer'
  <2> SUFFICES ASSUME NEW p \in Requests, NEW q \in Requests, p # q,
                      pc'[p] \in Halfway, pc'[q] \in Halfway,
                      task'[p].before.nkey = task'[q].before.nkey
               PROVE  task'[p].id \in foreign /\ task'[q].id \in foreign
    BY <1>1 DEF OldKeysDiffer
  <2>1. CASE p # r /\ q # r
    BY <1>1, <2>1 DEF Inv, OldKeysDiffer
  <2>2. ASSUME NEW o \in Requests, o # r, pc[o] \in Halfway, pc'[r] \in Halfway,
               task[o].before.nkey = task'[r].before.nkey
        PROVE  task[o].id \in foreign /\ t.id \in foreign
    <3>1. pc'[r] = "save" /\ pc[r] = "begin"
      BY <1>1, <1>7, <2>2 DEF Halfway
    <3>2. PICK n \in NodeKeys : n = task[o].before.nkey
      BY <1>7, <2>2, <3>1
    <3>3. live[n] # None /\ live[n].id = t.id /\ live[n].id # task[o].id
      BY <1>3, <1>7, <2>2, <3>1, <3>2 DEF HasId, Halfway
    <3>4. /\ task[o].id \in foreign
          /\ \/ live[n].id \in foreign
             \/ \E x \in Requests : /\ pc[x] \in Halfway /\ task[x].id = live[n].id
                                    /\ task[x].contested
      BY <2>2, <3>2, <3>3 DEF Inv, OldKeyFree
    <3>5. \A x \in Requests : pc[x] \in Halfway => task[x].id # t.id
      BY <1>3, <3>1 DEF HasId, Halfway
    <3> QED BY <3>3, <3>4, <3>5
  <2>3. CASE p = r
    BY <1>1, <1>6, <2>2, <2>3 DEF Halfway
  <2>4. CASE q = r
    BY <1>1, <1>6, <2>2, <2>4 DEF Halfway
  <2> QED BY <2>1, <2>3, <2>4
<1> QED BY <1>10, <1>11, <1>12, <1>13 DEF DisputesInv

LEMMA LiveStepAgree ==
    ASSUME Inv, NEW r \in Requests, LiveStep(r), StepInto(r),
           pc'[r] # "save" /\ task[r].id \notin foreign =>
              \A n \in NodeKeys : live'[n] # None /\ live'[n].id = task[r].id =>
                                     Describes(rows[task[r].id], n, live'[n]),
           pc'[r] = "save" /\ task[r].id \notin foreign =>
              Describes(rows[task[r].id], task'[r].before.nkey, task'[r].before.node),
           rows[task[r].id] # None /\ task[r].id \notin foreign =>
              \E n \in NodeKeys : live'[n] # None /\ live'[n].id = task[r].id
    PROVE  AgreeInv'
<1> DEFINE t == task[r]
<1>1. /\ \A q \in Requests : q # r => pc'[q] = pc[q] /\ task'[q] = task[q]
      /\ pc'[r] \in {"idle", "save", "publish"}
      /\ pc'[r] # "idle" => task'[r].id = t.id
      /\ rows' = rows /\ foreign' = foreign
  BY DEF LiveStep, Alone
<1>2. /\ \A n \in NodeKeys : live[n] # None /\ live[n].id # t.id => live'[n] = live[n]
      /\ \A n \in NodeKeys : live'[n] # None /\ live'[n] # live[n] => live'[n].id = t.id
  BY DEF LiveStep
<1>3. RowsCurrent'
  <2> SUFFICES ASSUME NEW n \in NodeKeys, live'[n] # None, live'[n].id \notin foreign,
                      \A q \in Requests : pc'[q] \in Halfway \cup {"remove"} =>
                                             task'[q].id # live'[n].id
               PROVE  Describes(rows[live'[n].id], n, live'[n])
    BY <1>1 DEF RowsCurrent, Describes
  <2>1. CASE live'[n].id = t.id
    <3>1. pc'[r] # "save"
      BY <1>1, <2>1 DEF Halfway
    <3> QED BY <2>1, <3>1
  <2>2. CASE live'[n].id # t.id
    <3>1. live'[n] = live[n]
      BY <1>2, <2>2
    <3>2. \A q \in Requests : pc[q] \in Halfway \cup {"remove"} => task[q].id # live[n].id
      BY <1>1, <2>2, <3>1
    <3> QED BY <3>1, <3>2 DEF Inv, RowsCurrent
  <2> QED BY <2>1, <2>2
<1>4. RowsBefore'
  <2> SUFFICES ASSUME NEW q \in Requests, pc'[q] \in Halfway, task'[q].id \notin foreign
               PROVE  Describes(rows[task'[q].id], task'[q].before.nkey, task'[q].before.node)
    BY <1>1 DEF RowsBefore, Describes
  <2>1. CASE q = r
    BY <1>1, <2>1 DEF Halfway
  <2>2. CASE q # r
    BY <1>1, <2>2 DEF Inv, RowsBefore
  <2> QED BY <2>1, <2>2
<1>5. RowsHaveNodes'
  <2> SUFFICES ASSUME NEW id \in Ids, rows[id] # None, id \notin foreign
               PROVE  \/ \E n \in NodeKeys : live'[n] # None /\ live'[n].id = id
                      \/ \E q \in Requests : pc'[q] = "put" /\ task'[q].id = id
    BY <1>1 DEF RowsHaveNodes, LiveKeys
  <2>1. CASE id = t.id
    BY <2>1
  <2>2. CASE id # t.id
    <3>1. \/ \E n \in NodeKeys : live[n] # None /\ live[n].id = id
          \/ \E q \in Requests : pc[q] = "put" /\ task[q].id = id
      BY DEF Inv, RowsHaveNodes, LiveKeys
    <3> QED BY <1>1, <1>2, <2>2, <3>1
  <2> QED BY <2>1, <2>2
<1> QED BY <1>3, <1>4, <1>5 DEF AgreeInv

\* A request that works on a node of the registry has a row to write.
LEMMA RowThere ==
    ASSUME Inv, NEW r \in Requests, pc[r] \in HasId, pc[r] # "remove",
           NEW n \in NodeKeys, live[n] # None, live[n].id = task[r].id
    PROVE  rows[task[r].id] # None
<1>1. \A q \in Requests : pc[q] = "remove" => task[q].id # live[n].id
  BY DEF Inv, OwnIds, HasId
<1> QED BY <1>1 DEF Inv, RowKept

LEMMA BeginKept ==
    ASSUME Inv, NEW r \in Requests, Begin(r),
           LiveKeys(task[r].id) # {},
           live[task[r].nkey] # None => live[task[r].nkey].id = task[r].id
    PROVE  Meaning'
<1> DEFINE t == task[r]
<1>0. TypeOK /\ TaskShape
  BY InvParts
<1>1. /\ Alone(r) /\ pc[r] = "begin" /\ pc'[r] = "save"
      /\ task'[r].machine = t.machine /\ task'[r].nkey = t.nkey
      /\ task'[r].key = t.key /\ task'[r].id = t.id
      /\ task'[r].captured = t.captured /\ task'[r].fresh = t.fresh
      /\ task'[r].contested = t.contested
      /\ UNCHANGED <<rows, nextId, keyRow, admitted, foreign>>
  BY <1>0, BeginEffect
<1>2. PICK old \in NodeKeys :
         /\ live[old] # None /\ live[old].id = t.id
         /\ task'[r].before.nkey = old /\ task'[r].before.node = live[old]
         /\ live'[t.nkey] # None
         /\ live'[t.nkey].id = t.id
         /\ live'[t.nkey].machine = live[old].machine
         /\ live'[t.nkey].key = t.key
         /\ live'[t.nkey].tagged = (live[old].tagged \/ Retags(t, live[old]))
         /\ old # t.nkey => live'[old] = None
         /\ \A n \in NodeKeys : n # old /\ n # t.nkey => live'[n] = live[n]
  BY <1>0, BeginEffect
<1>3. t.nkey \in NodeKeys
  BY <1>0, <1>1, TaskFields
<1>4. /\ live[old].machine = t.machine
      /\ \A n \in NodeKeys :
            live[n] # None /\ (live[n].id = t.id \/ live[n].machine = t.machine) => n = old
  BY <1>1, <1>2 DEF Inv, OwnNode, LiveUnique, HasId
<1>5. LiveStep(r)
  <2>1. \A n \in NodeKeys : live[n] # None /\ live[n].id # t.id => live'[n] = live[n]
    BY <1>2, <1>3
  <2>2. \A n \in NodeKeys : live'[n] # None /\ live'[n] # live[n] => n = t.nkey
    BY <1>2
  <2>3. \A n \in NodeKeys : live'[n] # None /\ live'[n].id = t.id => n = t.nkey
    BY <1>2, <1>4
  <2> QED BY <1>1, <1>2, <1>4, <2>1, <2>2, <2>3 DEF LiveStep
<1>6. StepInto(r)
  BY <1>1, <1>2 DEF StepInto
<1>7. rows[t.id] # None
  BY <1>1, <1>2, RowThere DEF HasId
<1>8. RowsInv'
  BY <1>1, <1>5, <1>6, <1>7, LiveStepRows
<1>9. DisputesInv'
  BY <1>1, <1>5, <1>6, LiveStepDisputes
<1>10. AgreeInv'
  <2>1. t.id \notin foreign => Describes(rows[t.id], old, live[old])
    <3>1. \A q \in Requests : pc[q] \in Halfway \cup {"remove"} => task[q].id # live[old].id
      BY <1>1, <1>2 DEF Inv, OwnIds, HasId, Halfway
    <3> QED BY <1>2, <3>1 DEF Inv, RowsCurrent
  <2> QED BY <1>1, <1>2, <1>3, <1>5, <1>6, <2>1, LiveStepAgree
<1> QED BY <1>5, <1>6, <1>8, <1>9, <1>10, LiveStepNodes DEF Meaning

LEMMA RollbackKept ==
    ASSUME Inv, NEW r \in Requests, Rollback(r)
    PROVE  Meaning'
<1> DEFINE t == task[r]
<1>0. TypeOK /\ TaskShape
  BY InvParts
<1>1. /\ Alone(r) /\ pc[r] = "rollback" /\ pc'[r] = "idle"
      /\ \/ /\ live[t.before.nkey] # None => live[t.before.nkey].id = t.id
            /\ live'[t.before.nkey] = t.before.node /\ t.before.node # None
            /\ t.before.nkey # t.nkey => live'[t.nkey] = None
            /\ \A n \in NodeKeys : n # t.nkey /\ n # t.before.nkey => live'[n] = live[n]
         \/ /\ \/ ~(live[t.nkey] # None /\ live[t.nkey].id = t.id)
               \/ live[t.before.nkey] # None /\ live[t.before.nkey].id # t.id
            /\ live' = live
      /\ UNCHANGED <<rows, nextId, keyRow, admitted, foreign>>
  BY <1>0, RollbackEffect
<1>2. t.nkey \in NodeKeys /\ t.before.nkey \in NodeKeys
  BY <1>0, <1>1, TaskFields DEF Halfway
<1>3. /\ live[t.nkey] # None /\ live[t.nkey].id = t.id /\ live[t.nkey].machine = t.machine
      /\ t.before.node.id = t.id /\ t.before.node.machine = t.machine
  BY <1>1, <1>2 DEF Inv, NodeInPlace, BeforeKnown, OwnNode, HasId, Halfway
<1>4. \A n \in NodeKeys :
         live[n] # None /\ (live[n].id = t.id \/ live[n].machine = t.machine) => n = t.nkey
  BY <1>2, <1>3 DEF Inv, LiveUnique
<1>5. StepInto(r)
  BY <1>1 DEF StepInto
<1>6. rows[t.id] # None
  BY <1>1, <1>2, <1>3, RowThere DEF HasId
<1>7. CASE /\ live[t.before.nkey] # None => live[t.before.nkey].id = t.id
           /\ live'[t.before.nkey] = t.before.node /\ t.before.node # None
           /\ t.before.nkey # t.nkey => live'[t.nkey] = None
           /\ \A n \in NodeKeys : n # t.nkey /\ n # t.before.nkey => live'[n] = live[n]
  <2>1. \A n \in NodeKeys : live[n] # None /\ live[n].id # t.id => live'[n] = live[n]
    BY <1>2, <1>3, <1>7
  <2>2. \A n \in NodeKeys : live'[n] # None /\ live'[n] # live[n] => n = t.before.nkey
    BY <1>2, <1>7
  <2>3. \A n \in NodeKeys : live'[n] # None /\ live'[n].id = t.id => n = t.before.nkey
    BY <1>2, <1>4, <1>7
  <2>4. LiveStep(r)
    <3>1. \A n \in NodeKeys : live'[n] # None /\ live'[n] # live[n] =>
             live'[n].id = t.id /\ live'[n].machine = t.machine
      BY <1>3, <1>7, <2>2
    <3>2. \A n \in NodeKeys : live[n] # None /\ live[n].machine = t.machine => live[n].id = t.id
      BY <1>3, <1>4
    <3> QED BY <1>1, <2>1, <2>2, <2>3, <3>1, <3>2 DEF LiveStep
  <2>5. RowsInv'
    BY <1>1, <1>5, <1>6, <2>4, LiveStepRows
  <2>6. DisputesInv'
    BY <1>5, <2>3, <2>4, LiveStepDisputes
  <2>7. AgreeInv'
    <3>1. t.id \notin foreign => Describes(rows[t.id], t.before.nkey, t.before.node)
      BY <1>1 DEF Inv, RowsBefore, Halfway
    <3>2. live'[t.before.nkey] # None /\ live'[t.before.nkey].id = t.id
      BY <1>3, <1>7
    <3> QED BY <1>1, <1>2, <1>5, <1>7, <2>3, <2>4, <3>1, <3>2, LiveStepAgree
  <2> QED BY <1>5, <2>4, <2>5, <2>6, <2>7, LiveStepNodes DEF Meaning
\* The old node key is taken: the node stays, and it is in a dispute.
<1>8. CASE /\ live[t.before.nkey] # None /\ live[t.before.nkey].id # t.id
           /\ live' = live
  <2>1. t.id \in foreign
    BY <1>1, <1>8 DEF Inv, OldKeyFree, Halfway
  <2>2. LiveStep(r)
    <3>1. \A n1, n2 \in NodeKeys :
             /\ live'[n1] # None /\ live'[n2] # None
             /\ live'[n1].id = t.id /\ live'[n2].id = t.id
             => n1 = n2
      BY <1>4, <1>8
    <3>2. \A n \in NodeKeys : live[n] # None /\ live[n].machine = t.machine => live[n].id = t.id
      BY <1>3, <1>4
    <3> QED BY <1>1, <1>8, <3>1, <3>2 DEF LiveStep
  <2>3. RowsInv'
    BY <1>1, <1>5, <1>6, <2>2, LiveStepRows
  <2>4. DisputesInv'
    BY <1>5, <2>1, <2>2, LiveStepDisputes
  <2>5. AgreeInv'
    BY <1>1, <1>5, <2>1, <2>2, LiveStepAgree
  <2> QED BY <1>5, <2>2, <2>3, <2>4, <2>5, LiveStepNodes DEF Meaning
<1> QED BY <1>1, <1>3, <1>7, <1>8

LEMMA PutNewKept ==
    ASSUME Inv, NEW r \in Requests, PutNew(r)
    PROVE  Meaning'
<1> DEFINE t == task[r]
<1>0. TypeOK /\ TaskShape
  BY InvParts
<1>1. /\ Alone(r) /\ pc[r] = "put"
      /\ \/ /\ pc'[r] = "idle" /\ live' = live
            /\ live[t.nkey] # None /\ live[t.nkey].id # t.id
         \/ /\ pc'[r] = "publish" /\ task'[r] = t
            /\ live'[t.nkey] # None
            /\ live'[t.nkey].id = t.id /\ live'[t.nkey].machine = t.machine
            /\ live'[t.nkey].key = t.key /\ live'[t.nkey].tagged = (t.key \in Tagged)
            /\ \A n \in NodeKeys : n # t.nkey => live'[n] = live[n]
            /\ live[t.nkey] # None => live[t.nkey].id = t.id
      /\ UNCHANGED <<lapsed, rows, nextId, keyRow, admitted, foreign>>
  BY <1>0, PutNewEffect
<1>2. t.nkey \in NodeKeys
  BY <1>0, <1>1, TaskFields
<1>3. \A n \in NodeKeys : live[n] # None => live[n].machine # t.machine /\ live[n].id # t.id
  BY <1>1 DEF Inv, NoNodeYet, OwnNode, HasId
<1>4. /\ rows[t.id] # None
      /\ rows[t.id].machine = t.machine /\ rows[t.id].nkey = t.nkey
      /\ rows[t.id].key \in {t.key, None} /\ rows[t.id].tagged = (t.key \in Tagged)
  BY <1>1 DEF Inv, RowFirst
<1>5. StepInto(r)
  BY <1>1 DEF StepInto
<1>6. LiveStep(r)
  BY <1>1, <1>2, <1>3 DEF LiveStep
<1>7. RowsInv'
  BY <1>1, <1>4, <1>5, <1>6, LiveStepRows
<1>8. DisputesInv'
  BY <1>1, <1>5, <1>6, LiveStepDisputes
<1>9. AgreeInv'
  <2>1. CASE pc'[r] = "idle"
    <3>1. Taken(r)
      BY <1>1, <1>2, <1>3, <2>1 DEF Taken
    <3>2. t.id \in foreign
      BY <1>1, <3>1 DEF Inv, DisputesKnown, Disputed
    <3> QED BY <1>5, <1>6, <2>1, <3>2, LiveStepAgree
  <2>2. CASE pc'[r] = "publish"
    <3>1. \A n \in NodeKeys : live'[n] # None /\ live'[n].id = t.id => n = t.nkey
      BY <1>1, <1>3, <2>2
    <3>2. Describes(rows[t.id], t.nkey, live'[t.nkey])
      BY <1>1, <1>4, <2>2 DEF Describes
    <3> QED BY <1>1, <1>2, <1>5, <1>6, <2>2, <3>1, <3>2, LiveStepAgree
  <2> QED BY <1>1, <2>1, <2>2
<1> QED BY <1>5, <1>6, <1>7, <1>8, <1>9, LiveStepNodes DEF Meaning

LEMMA RemoveLiveKept ==
    ASSUME Inv, NEW r \in Requests, RemoveLive(r)
    PROVE  Meaning'
<1> DEFINE t == task[r]
<1>0. TypeOK /\ TaskShape
  BY InvParts
<1>1. /\ Alone(r) /\ pc[r] = "remove" /\ pc'[r] = "idle"
      /\ live'[t.nkey] = None
      /\ \A n \in NodeKeys : n # t.nkey => live'[n] = live[n]
      /\ UNCHANGED <<rows, nextId, keyRow, admitted, foreign>>
  BY <1>0, RemoveLiveEffect
<1>2. t.nkey \in NodeKeys
  BY <1>0, <1>1, TaskFields
<1>3. live[t.nkey] # None /\ live[t.nkey].id = t.id /\ live[t.nkey].machine = t.machine
  BY <1>1, <1>2 DEF Inv, NodeInPlace, OwnNode, HasId
<1>4. \A n \in NodeKeys :
         live[n] # None /\ (live[n].id = t.id \/ live[n].machine = t.machine) => n = t.nkey
  BY <1>2, <1>3 DEF Inv, LiveUnique
<1>5. rows[t.id] = None
  BY <1>1 DEF Inv, RowGone
<1>6. StepInto(r)
  BY <1>1 DEF StepInto
<1>7. \A n \in NodeKeys : live'[n] # None => live'[n] = live[n] /\ live'[n].id # t.id
  BY <1>1, <1>4
<1>8. LiveStep(r)
  <2>1. \A n \in NodeKeys : live[n] # None /\ live[n].id # t.id => live'[n] = live[n]
    BY <1>1, <1>3
  <2>2. \A n \in NodeKeys : live[n] # None /\ live[n].machine = t.machine => live[n].id = t.id
    BY <1>3, <1>4
  <2> QED BY <1>1, <1>7, <2>1, <2>2 DEF LiveStep
<1>9. RowsInv'
  BY <1>1, <1>6, <1>7, <1>8, LiveStepRows
<1>10. DisputesInv'
  BY <1>1, <1>6, <1>8, LiveStepDisputes
<1>11. AgreeInv'
  BY <1>1, <1>5, <1>6, <1>7, <1>8, LiveStepAgree
<1> QED BY <1>6, <1>8, <1>9, <1>10, <1>11, LiveStepNodes DEF Meaning

LEMMA CachedRefusedKept ==
    ASSUME Inv, NEW r \in Requests, Alone(r), pc[r] = "save", CachedRefused(r)
    PROVE  Meaning'
<1>1. /\ live' = live /\ rows' = rows /\ nextId' = nextId /\ keyRow' = keyRow
      /\ admitted' = admitted /\ foreign' = foreign
      /\ \A q \in Requests : task'[q] = task[q]
      /\ \A q \in Requests : pc'[q] = pc[q] \/ (pc[q] = "save" /\ pc'[q] = "rollback")
  BY DEF CachedRefused, storeVars, Alone
<1>2. \A q \in Requests :
         /\ pc'[q] \in HasId <=> pc[q] \in HasId
         /\ pc'[q] \in Halfway <=> pc[q] \in Halfway
         /\ pc'[q] \in Decided <=> pc[q] \in Decided
         /\ pc'[q] \in {"save", "rollback", "publish", "destroy", "remove"} <=>
               pc[q] \in {"save", "rollback", "publish", "destroy", "remove"}
         /\ \A l \in {"put", "remove", "publish", "insert", "begin"} : pc'[q] = l <=> pc[q] = l
         /\ pc'[q] = "save" => pc[q] = "save"
  BY <1>1 DEF HasId, Halfway, Decided
<1>3. KeysInv'
  BY <1>1 DEF Inv, KeysInv, NeededIsUsed, FreshReadUnused
<1>4. NodesInv'
  BY <1>1, <1>2 DEF Inv, NodesInv, LiveUnique, OwnNode, OwnIds, IdsBelow
<1>5. PlacesInv'
  <2>1. NodeInPlace' /\ NoNodeYet'
    BY <1>1, <1>2 DEF Inv, NodeInPlace, NoNodeYet
  <2>2. BeforeKnown'
    BY <1>1, <1>2 DEF Inv, BeforeKnown, Retags
  <2> QED BY <2>1, <2>2 DEF PlacesInv
<1>6. RowsInv'
  BY <1>1, <1>2 DEF Inv, RowsInv, RowKept, RowFirst, RowGone, RegisteredIsSaved
<1>7. DisputesInv'
  <2>1. \A q, p \in Requests : (Taken(q)' <=> Taken(q)) /\ (Rival(q, p)' <=> Rival(q, p))
    BY <1>1, <1>2 DEF Taken, Rival
  <2>2. TakersForeign'
    BY <1>1, <1>2, <2>1 DEF Inv, TakersForeign
  <2>3. DisputesKnown'
    BY <1>1, <1>2, <2>1 DEF Inv, DisputesKnown, Disputed
  <2>4. OldKeyFree'
    BY <1>1, <1>2 DEF Inv, OldKeyFree
  <2>5. OldKeysDiffer'
    BY <1>1, <1>2 DEF Inv, OldKeysDiffer
  <2> QED BY <2>2, <2>3, <2>4, <2>5 DEF DisputesInv
<1>8. AgreeInv'
  <2>1. RowsCurrent'
    BY <1>1, <1>2 DEF Inv, RowsCurrent, Describes
  <2>2. RowsBefore'
    BY <1>1, <1>2 DEF Inv, RowsBefore, Describes
  <2>3. RowsHaveNodes'
    BY <1>1, <1>2 DEF Inv, RowsHaveNodes, LiveKeys
  <2> QED BY <2>1, <2>2, <2>3 DEF AgreeInv
<1> QED BY <1>3, <1>4, <1>5, <1>6, <1>7, <1>8 DEF Meaning

\* The row gets what the registry has; a dispute about the node key goes on.
LEMMA CachedSavedKept ==
    ASSUME Inv, NEW r \in Requests, Alone(r), pc[r] = "save", CachedSaved(r)
    PROVE  Meaning'
<1> DEFINE t == task[r]
<1>0. TypeOK /\ TaskShape
  BY InvParts
<1>1. /\ pc'[r] = "publish" /\ task'[r].machine = t.machine /\ task'[r].nkey = t.nkey
      /\ task'[r].key = t.key /\ task'[r].id = t.id
      /\ \A id \in Ids : id # t.id => rows'[id] = rows[id]
      /\ live' = live /\ nextId' = nextId
      /\ foreign' = IF t.contested THEN foreign \cup {t.id} ELSE foreign \ {t.id}
  BY DEF CachedSaved
<1>2. \A q \in Requests : q # r => pc'[q] = pc[q] /\ task'[q] = task[q]
  BY DEF Alone
<1>3. /\ t.id \in Ids /\ t.nkey \in NodeKeys /\ t.key \in Keys
      /\ t.contested \in BOOLEAN /\ t.fresh \in BOOLEAN /\ t.before.node \in Live
  BY <1>0, TaskFields DEF HasId, Halfway
<1>4. live[t.nkey] # None /\ live[t.nkey].id = t.id /\ live[t.nkey].machine = t.machine
  BY <1>3 DEF Inv, NodeInPlace, OwnNode, HasId
<1>5. rows[t.id] # None
  BY <1>3, <1>4, RowThere DEF HasId
<1>6. /\ rows'[t.id] # None /\ rows'[t.id].machine = t.machine
      /\ rows'[t.id].nkey = t.nkey /\ rows'[t.id].key = t.key
      /\ rows'[t.id].tagged = live[t.nkey].tagged /\ live[t.nkey].key = t.key
  BY <1>5 DEF CachedSaved, Inv, BeforeKnown, Halfway
<1>7. \A q \in Requests : q # r /\ pc[q] \in HasId => task[q].id # t.id /\ task[q].id \in Ids
  BY <1>0, TaskFields DEF Inv, OwnIds, HasId
<1>8. \A n \in NodeKeys : live[n] # None => live[n].id \in Ids /\ (live[n].id = t.id => n = t.nkey)
  BY <1>0, <1>3, <1>4, StoreFields DEF Inv, LiveUnique
<1>9. \A i \in Ids : i # t.id => (i \in foreign' <=> i \in foreign)
  BY <1>1
<1>10. KeysInv'
  <2>1. NeededIsUsed'
    <3> SUFFICES ASSUME NEW k \in OneShot
                 PROVE  admitted'[k] <= 1 /\ (admitted'[k] = 1 => keyRow'[k] # None /\ keyRow'[k].used)
      BY DEF NeededIsUsed
    <3>0. k \in Keys /\ admitted[k] <= 1 /\ (admitted[k] = 1 => keyRow[k] # None /\ keyRow[k].used)
      BY DEF Inv, NeededIsUsed, OneShot
    <3>00. admitted[k] \in 0..2
      BY <1>0, <3>0 DEF TypeOK
    <3>1. CASE k # t.key
      BY <3>0, <3>1 DEF CachedSaved
    <3>2. CASE k = t.key /\ t.fresh
      <4>1. ~t.captured.used
        BY <3>2 DEF Inv, FreshReadUnused
      <4>2. MustClaim(t, FALSE)
        BY <3>2, <4>1 DEF MustClaim
      <4>3. ~keyRow[k].used /\ keyRow'[k] # None /\ keyRow'[k].used
        BY <3>2, <4>2 DEF CachedSaved
      <4>4. admitted[k] = 0
        BY <3>0, <3>00, <4>3
      <4>5. admitted'[k] = 1
        BY <3>2, <4>4 DEF CachedSaved
      <4> QED BY <4>3, <4>5
    <3>3. CASE k = t.key /\ ~t.fresh
      <4>1. admitted'[k] = admitted[k]
        BY <3>3 DEF CachedSaved
      <4>2. keyRow'[k] = keyRow[k] \/ (keyRow'[k] # None /\ keyRow'[k].used)
        BY <3>3 DEF CachedSaved
      <4> QED BY <3>0, <4>1, <4>2
    <3> QED BY <3>1, <3>2, <3>3
  <2>2. FreshReadUnused'
    BY <1>1, <1>2 DEF Inv, FreshReadUnused
  <2> QED BY <2>1, <2>2 DEF KeysInv
<1>11. NodesInv'
  <2>1. LiveUnique'
    BY <1>1 DEF Inv, LiveUnique
  <2>2. OwnNode'
    BY <1>1, <1>2 DEF Inv, OwnNode, HasId
  <2>3. OwnIds'
    BY <1>1, <1>2 DEF Inv, OwnIds, HasId
  <2>4. IdsBelow'
    BY <1>1, <1>2 DEF Inv, IdsBelow, HasId
  <2> QED BY <2>1, <2>2, <2>3, <2>4 DEF NodesInv
<1>12. PlacesInv'
  <2>1. NodeInPlace'
    BY <1>1, <1>2, <1>4 DEF Inv, NodeInPlace
  <2>2. NoNodeYet'
    BY <1>1, <1>2 DEF Inv, NoNodeYet
  <2>3. BeforeKnown'
    BY <1>1, <1>2 DEF Inv, BeforeKnown, Retags, Halfway
  <2> QED BY <2>1, <2>2, <2>3 DEF PlacesInv
<1>13. RowsInv'
  <2>1. RowKept'
    <3> SUFFICES ASSUME NEW n \in NodeKeys, live[n] # None,
                        \A q \in Requests : pc'[q] = "remove" => task'[q].id # live[n].id
                 PROVE  rows'[live[n].id] # None
      BY <1>1 DEF RowKept
    <3>1. \A q \in Requests : pc[q] = "remove" => task[q].id # live[n].id
      BY <1>1, <1>2
    <3>2. rows[live[n].id] # None
      BY <3>1 DEF Inv, RowKept
    <3> QED BY <1>1, <1>6, <1>8, <3>2
  <2>2. RowFirst'
    BY <1>1, <1>2, <1>7 DEF Inv, RowFirst, HasId
  <2>3. RowGone'
    BY <1>1, <1>2, <1>7 DEF Inv, RowGone, HasId
  <2>4. RegisteredIsSaved'
    <3> SUFFICES ASSUME NEW q \in Requests, pc'[q] = "publish"
                 PROVE  LET u == task'[q] IN
                        /\ live[u.nkey] # None /\ live[u.nkey].id = u.id
                        /\ rows'[u.id] # None /\ rows'[u.id].nkey = u.nkey
                        /\ rows'[u.id].key \in {u.key, None}
      BY <1>1 DEF RegisteredIsSaved
    <3>1. CASE q = r
      BY <1>1, <1>4, <1>6, <3>1
    <3>2. CASE q # r
      <4>1. pc[q] = "publish" /\ task'[q] = task[q] /\ rows'[task[q].id] = rows[task[q].id]
        BY <1>1, <1>2, <1>7, <3>2 DEF HasId
      <4> QED BY <4>1 DEF Inv, RegisteredIsSaved
    <3> QED BY <3>1, <3>2
  <2> QED BY <2>1, <2>2, <2>3, <2>4 DEF RowsInv
<1>14. DisputesInv'
  <2>0. \A q \in Requests : q # r /\ pc[q] \in Decided =>
           task[q].nkey # t.nkey /\ task[q].nkey \in NodeKeys
    BY <1>0, Apart, TaskFields DEF Decided, HasNodeKey
  <2>1. \A q \in Requests : q # r => (Taken(q)' <=> Taken(q))
    BY <1>1, <1>2 DEF Taken
  <2>2. ~Taken(r)'
    BY <1>1, <1>4 DEF Taken
  <2>3. \A q, p \in Requests : Rival(q, p)' =>
           Rival(q, p) /\ p # r /\ task'[p] = task[p] /\ task[p].id # t.id /\ task[p].id \in Ids
    <3> SUFFICES ASSUME NEW q \in Requests, NEW p \in Requests, Rival(q, p)'
                 PROVE  Rival(q, p) /\ p # r /\ task'[p] = task[p] /\ task[p].id # t.id /\ task[p].id \in Ids
      OBVIOUS
    <3>1. p # q /\ pc'[p] \in Halfway /\ task'[p].before.nkey = task'[q].nkey
      BY DEF Rival
    <3>2. p # r /\ pc'[p] = pc[p] /\ task'[p] = task[p]
      BY <1>1, <1>2, <3>1 DEF Halfway
    <3>3. task'[q].nkey = task[q].nkey
      BY <1>1, <1>2
    <3>4. task[p].id # t.id /\ task[p].id \in Ids
      BY <1>7, <3>1, <3>2 DEF HasId, Halfway
    <3> QED BY <3>1, <3>2, <3>3, <3>4 DEF Rival
  <2>4. TakersForeign'
    <3> SUFFICES ASSUME NEW q \in Requests, pc'[q] \in Decided
                 PROVE  /\ Taken(q)' => live[task'[q].nkey].id \in foreign'
                        /\ \A p \in Requests : Rival(q, p)' => task'[p].id \in foreign'
      BY <1>1 DEF TakersForeign
    <3>1. CASE q = r
      BY <1>9, <2>2, <2>3, <3>1 DEF Inv, TakersForeign, Decided
    <3>2. CASE q # r
      <4>1. pc[q] \in Decided /\ task'[q] = task[q]
        BY <1>2, <3>2
      <4>2. /\ Taken(q) => live[task[q].nkey].id \in foreign
            /\ \A p \in Requests : Rival(q, p) => task[p].id \in foreign
        BY <4>1 DEF Inv, TakersForeign
      <4>3. Taken(q)' => live[task[q].nkey].id \in foreign'
        BY <1>8, <1>9, <2>0, <2>1, <3>2, <4>1, <4>2 DEF Taken
      <4> QED BY <1>9, <2>3, <4>1, <4>2, <4>3
    <3> QED BY <3>1, <3>2
  <2>5. DisputesKnown'
    <3> SUFFICES ASSUME NEW q \in Requests, Disputed(q)'
                 PROVE  /\ pc'[q] \in {"begin", "save", "insert"} => task'[q].contested
                        /\ pc'[q] = "put" => task'[q].id \in foreign'
      BY DEF DisputesKnown
    <3>1. CASE q = r
      BY <1>1, <3>1
    <3>2. CASE q # r
      <4>1. pc'[q] = pc[q] /\ task'[q] = task[q]
        BY <1>2, <3>2
      <4>2. Disputed(q)
        BY <2>1, <2>3, <3>2 DEF Disputed
      <4> QED BY <1>7, <1>9, <3>2, <4>1, <4>2 DEF Inv, DisputesKnown, HasId
    <3> QED BY <3>1, <3>2
  <2>6. OldKeyFree'
    <3> SUFFICES ASSUME NEW q \in Requests, pc'[q] \in Halfway,
                        live[task'[q].before.nkey] # None,
                        live[task'[q].before.nkey].id # task'[q].id
                 PROVE  /\ task'[q].id \in foreign'
                        /\ \/ live[task'[q].before.nkey].id \in foreign'
                           \/ \E p \in Requests : /\ pc'[p] \in Halfway
                                                  /\ task'[p].id = live[task'[q].before.nkey].id
                                                  /\ task'[p].contested
      BY <1>1 DEF OldKeyFree
    <3>1. q # r /\ pc[q] = pc'[q] /\ task'[q] = task[q] /\ pc[q] \in HasId /\ pc[q] \in Halfway
      BY <1>1, <1>2 DEF Halfway, HasId
    <3>2. PICK n \in NodeKeys : n = task[q].before.nkey
      BY <1>0, <3>1, TaskFields DEF Halfway
    <3>3. /\ task[q].id \in foreign
          /\ \/ live[n].id \in foreign
             \/ \E p \in Requests : /\ pc[p] \in Halfway /\ task[p].id = live[n].id
                                    /\ task[p].contested
      BY <3>1, <3>2 DEF Inv, OldKeyFree
    <3>4. task[q].id \in foreign'
      BY <1>7, <1>9, <3>1, <3>3
    <3>5. CASE live[n].id = t.id
      <4>1. n = t.nkey
        BY <1>8, <3>1, <3>2, <3>5
      <4>2. Rival(r, q)
        BY <3>1, <3>2, <4>1 DEF Rival
      <4>3. t.contested
        BY <4>2 DEF Inv, DisputesKnown, Disputed
      <4> QED BY <1>1, <3>1, <3>2, <3>4, <3>5, <4>3
    <3>6. CASE live[n].id # t.id
      <4>1. live[n].id \in foreign => live[n].id \in foreign'
        BY <1>8, <1>9, <3>1, <3>2, <3>6
      <4>2. \A p \in Requests : pc[p] \in Halfway /\ task[p].id = live[n].id =>
               p # r /\ pc'[p] = pc[p] /\ task'[p] = task[p]
        BY <1>2, <3>6
      <4> QED BY <3>1, <3>2, <3>3, <3>4, <4>1, <4>2
    <3> QED BY <3>5, <3>6
  <2>7. OldKeysDiffer'
    <3> SUFFICES ASSUME NEW p \in Requests, NEW q \in Requests, p # q,
                        pc'[p] \in Halfway, pc'[q] \in Halfway,
                        task'[p].before.nkey = task'[q].before.nkey
                 PROVE  task'[p].id \in foreign'
      BY DEF OldKeysDiffer
    <3>1. /\ p # r /\ pc[p] = pc'[p] /\ task'[p] = task[p]
          /\ q # r /\ pc[q] = pc'[q] /\ task'[q] = task[q]
      BY <1>1, <1>2 DEF Halfway
    <3>2. task[p].id \in foreign /\ pc[p] \in HasId
      BY <3>1 DEF Inv, OldKeysDiffer, HasId, Halfway
    <3> QED BY <1>7, <1>9, <3>1, <3>2
  <2> QED BY <2>4, <2>5, <2>6, <2>7 DEF DisputesInv
<1>15. AgreeInv'
  <2>1. RowsCurrent'
    <3> SUFFICES ASSUME NEW n \in NodeKeys, live[n] # None, live[n].id \notin foreign',
                        \A q \in Requests : pc'[q] \in Halfway \cup {"remove"} =>
                                               task'[q].id # live[n].id
                 PROVE  Describes(rows'[live[n].id], n, live[n])
      BY <1>1 DEF RowsCurrent, Describes
    <3>1. CASE live[n].id = t.id
      BY <1>4, <1>6, <1>8, <3>1 DEF Describes
    <3>2. CASE live[n].id # t.id
      <4>1. \A q \in Requests : pc[q] \in Halfway \cup {"remove"} => task[q].id # live[n].id
        BY <1>2, <3>2
      <4>2. live[n].id \notin foreign /\ rows'[live[n].id] = rows[live[n].id]
        BY <1>1, <1>8, <1>9, <3>2
      <4> QED BY <4>1, <4>2 DEF Inv, RowsCurrent
    <3> QED BY <3>1, <3>2
  <2>2. RowsBefore'
    <3> SUFFICES ASSUME NEW q \in Requests, pc'[q] \in Halfway, task'[q].id \notin foreign'
                 PROVE  Describes(rows'[task'[q].id], task'[q].before.nkey, task'[q].before.node)
      BY DEF RowsBefore, Describes
    <3>1. q # r /\ pc[q] = pc'[q] /\ task'[q] = task[q] /\ pc[q] \in HasId
      BY <1>1, <1>2 DEF Halfway, HasId
    <3>2. rows'[task[q].id] = rows[task[q].id] /\ task[q].id \notin foreign
      BY <1>1, <1>7, <1>9, <3>1
    <3> QED BY <3>1, <3>2 DEF Inv, RowsBefore
  <2>3. RowsHaveNodes'
    <3> SUFFICES ASSUME NEW id \in Ids, rows'[id] # None, id \notin foreign'
                 PROVE  \/ \E n \in NodeKeys : live[n] # None /\ live[n].id = id
                        \/ \E q \in Requests : pc'[q] = "put" /\ task'[q].id = id
      BY <1>1 DEF RowsHaveNodes, LiveKeys
    <3>1. CASE id = t.id
      BY <1>3, <1>4, <3>1
    <3>2. CASE id # t.id
      <4>1. rows[id] # None /\ id \notin foreign
        BY <1>1, <1>9, <3>2
      <4>2. \/ \E n \in NodeKeys : live[n] # None /\ live[n].id = id
            \/ \E q \in Requests : pc[q] = "put" /\ task[q].id = id
        BY <4>1 DEF Inv, RowsHaveNodes, LiveKeys
      <4> QED BY <1>2, <4>2
    <3> QED BY <3>1, <3>2
  <2> QED BY <2>1, <2>2, <2>3 DEF AgreeInv
<1> QED BY <1>10, <1>11, <1>12, <1>13, <1>14, <1>15 DEF Meaning

LEMMA CommitNewKept ==
    ASSUME Inv, NEW r \in Requests, CommitNew(r)
    PROVE  Meaning'
<1> DEFINE t == task[r]
<1>0. TypeOK /\ TaskShape
  BY InvParts
<1>1. /\ Alone(r) /\ pc[r] = "insert" /\ pc'[r] = "put"
      /\ nextId \in Ids /\ nextId' = nextId + 1
      /\ task'[r].machine = t.machine /\ task'[r].nkey = t.nkey
      /\ task'[r].key = t.key /\ task'[r].id = nextId
      /\ rows'[nextId] # None /\ rows'[nextId].machine = t.machine
      /\ rows'[nextId].nkey = t.nkey /\ rows'[nextId].key = t.key
      /\ rows'[nextId].tagged = (t.key \in Tagged)
      /\ \A id \in Ids : id # nextId => rows'[id] = rows[id]
      /\ foreign' = IF t.contested THEN foreign \cup {nextId} ELSE foreign
      /\ live' = live
  BY <1>0, CommitNewEffect
<1>2. /\ t.key \in OneShot => /\ keyRow[t.key] # None => ~keyRow[t.key].used
                              /\ keyRow'[t.key] # None /\ keyRow'[t.key].used
      /\ \A k \in Keys : k # t.key => keyRow'[k] = keyRow[k] /\ admitted'[k] = admitted[k]
      /\ t.fresh /\ admitted[t.key] < 2 => admitted'[t.key] = admitted[t.key] + 1
      /\ ~(t.fresh /\ admitted[t.key] < 2) => admitted'[t.key] = admitted[t.key]
  BY <1>0, CommitNewEffect
<1>3. \A q \in Requests : q # r => pc'[q] = pc[q] /\ task'[q] = task[q]
  BY <1>1 DEF Alone
<1>4. nextId \in Nat
  BY <1>1, AuthKeyAssumption DEF Ids
\* The id is new.
<1>5. \A n \in NodeKeys : live[n] # None => live[n].id \in Ids /\ live[n].id < nextId
  BY <1>0, StoreFields DEF Inv, IdsBelow
<1>6. \A q \in Requests : pc[q] \in HasId => task[q].id \in Ids /\ task[q].id < nextId
  BY <1>0, TaskFields DEF Inv, IdsBelow, HasId
<1>7. Ids \subseteq Nat /\ (\A i \in Ids : i < nextId => i < nextId + 1 /\ i # nextId)
  <2>1. Ids \subseteq Nat
    BY DEF Ids
  <2> QED BY <1>4, <2>1
<1>70. nextId < nextId'
  BY <1>1, <1>4
<1>8. foreign \subseteq foreign'
  BY <1>1
<1>80. \A i \in Ids : i # nextId => (i \in foreign' <=> i \in foreign)
  BY <1>1
<1>9. KeysInv'
  <2>1. NeededIsUsed'
    <3> SUFFICES ASSUME NEW k \in OneShot
                 PROVE  admitted'[k] <= 1 /\ (admitted'[k] = 1 => keyRow'[k] # None /\ keyRow'[k].used)
      BY DEF NeededIsUsed
    <3>0. k \in Keys /\ admitted[k] <= 1 /\ (admitted[k] = 1 => keyRow[k] # None /\ keyRow[k].used)
      BY DEF Inv, NeededIsUsed, OneShot
    <3>1. CASE k # t.key
      BY <1>2, <3>0, <3>1
    <3>2. CASE k = t.key
      <4>1. admitted[k] \in 0..2 /\ admitted[k] # 1
        BY <1>0, <1>2, <3>0, <3>2 DEF TypeOK
      <4>2. admitted[k] = 0
        BY <3>0, <4>1
      <4>3. admitted'[k] \in {0, 1}
        BY <1>2, <3>2, <4>2
      <4> QED BY <1>2, <3>2, <4>3
    <3> QED BY <3>1, <3>2
  <2>2. FreshReadUnused'
    BY <1>1, <1>3 DEF Inv, FreshReadUnused
  <2> QED BY <2>1, <2>2 DEF KeysInv
<1>10. NodesInv'
  <2>1. LiveUnique'
    BY <1>1 DEF Inv, LiveUnique
  <2>2. OwnNode'
    <3> SUFFICES ASSUME NEW q \in Requests, NEW n \in NodeKeys, pc'[q] \in HasId,
                        live[n] # None, live[n].id = task'[q].id
                 PROVE  live[n].machine = task'[q].machine
      BY <1>1 DEF OwnNode
    <3>1. q # r
      BY <1>1, <1>4, <1>5, <1>7
    <3> QED BY <1>3, <3>1 DEF Inv, OwnNode
  <2>3. OwnIds'
    <3>1. \A q \in Requests : q # r /\ pc'[q] \in HasId => task'[q].id # nextId
      BY <1>3, <1>4, <1>6, <1>7
    <3> QED BY <1>1, <1>3, <3>1 DEF Inv, OwnIds
  <2>4. IdsBelow'
    <3>1. \A n \in NodeKeys : live'[n] # None => live'[n].id < nextId'
      <4> SUFFICES ASSUME NEW n \in NodeKeys, live[n] # None PROVE live[n].id < nextId + 1
        BY <1>1
      <4>1. live[n].id \in Ids /\ live[n].id < nextId
        BY <1>5
      <4> QED BY <1>7, <4>1
    <3>2. ASSUME NEW q \in Requests, pc'[q] \in HasId PROVE task'[q].id < nextId'
      <4>1. CASE q = r
        BY <1>1, <1>70, <4>1
      <4>2. CASE q # r
        <5>1. task'[q] = task[q] /\ task[q].id \in Ids /\ task[q].id < nextId
          BY <1>3, <1>6, <3>2, <4>2
        <5>2. task[q].id < nextId + 1
          BY <1>7, <5>1
        <5> QED BY <1>1, <5>1, <5>2
      <4> QED BY <4>1, <4>2
    <3> QED BY <3>1, <3>2 DEF IdsBelow
  <2> QED BY <2>1, <2>2, <2>3, <2>4 DEF NodesInv
<1>11. PlacesInv'
  <2>1. NodeInPlace'
    BY <1>1, <1>3 DEF Inv, NodeInPlace
  <2>2. NoNodeYet'
    BY <1>1, <1>3 DEF Inv, NoNodeYet
  <2>3. BeforeKnown'
    BY <1>1, <1>3 DEF Inv, BeforeKnown, Retags, Halfway
  <2> QED BY <2>1, <2>2, <2>3 DEF PlacesInv
<1>12. /\ \A n \in NodeKeys : live[n] # None => rows'[live[n].id] = rows[live[n].id]
       /\ \A q \in Requests : q # r /\ pc[q] \in HasId => rows'[task[q].id] = rows[task[q].id]
  <2>1. ASSUME NEW i \in Ids, i < nextId PROVE rows'[i] = rows[i]
    <3>1. i # nextId
      BY <1>7, <2>1
    <3> QED BY <1>1, <3>1
  <2> QED BY <1>5, <1>6, <2>1
<1>13. RowsInv'
  <2>1. RowKept'
    BY <1>1, <1>3, <1>12 DEF Inv, RowKept
  <2>2. RowFirst'
    BY <1>1, <1>3, <1>12 DEF Inv, RowFirst, HasId
  <2>3. RowGone'
    BY <1>1, <1>3, <1>12 DEF Inv, RowGone, HasId
  <2>4. RegisteredIsSaved'
    BY <1>1, <1>3, <1>12 DEF Inv, RegisteredIsSaved, HasId
  <2> QED BY <2>1, <2>2, <2>3, <2>4 DEF RowsInv
<1>14. DisputesInv'
  <2>1. \A q \in Requests : Taken(q)' <=> Taken(q)
    BY <1>1, <1>3 DEF Taken
  <2>2. \A q, p \in Requests : Rival(q, p)' => Rival(q, p) /\ task'[p] = task[p]
    <3> SUFFICES ASSUME NEW q \in Requests, NEW p \in Requests, Rival(q, p)'
                 PROVE  Rival(q, p) /\ task'[p] = task[p]
      OBVIOUS
    <3>1. p # r
      BY <1>1 DEF Rival, Halfway
    <3>2. task'[q].nkey = task[q].nkey
      BY <1>1, <1>3
    <3> QED BY <1>3, <3>1, <3>2 DEF Rival
  <2>3. TakersForeign'
    <3> SUFFICES ASSUME NEW q \in Requests, pc'[q] \in Decided
                 PROVE  /\ Taken(q)' => live[task'[q].nkey].id \in foreign'
                        /\ \A p \in Requests : Rival(q, p)' => task'[p].id \in foreign'
      BY <1>1 DEF TakersForeign
    <3>1. pc[q] \in Decided /\ task'[q].nkey = task[q].nkey
      BY <1>1, <1>3 DEF Decided
    <3> QED BY <1>8, <2>1, <2>2, <3>1 DEF Inv, TakersForeign
  <2>4. DisputesKnown'
    <3> SUFFICES ASSUME NEW q \in Requests, Disputed(q)'
                 PROVE  /\ pc'[q] \in {"begin", "save", "insert"} => task'[q].contested
                        /\ pc'[q] = "put" => task'[q].id \in foreign'
      BY DEF DisputesKnown
    <3>1. Disputed(q)
      BY <2>1, <2>2 DEF Disputed
    <3>2. CASE q = r
      BY <1>1, <3>1, <3>2 DEF Inv, DisputesKnown
    <3>3. CASE q # r
      BY <1>3, <1>8, <3>1, <3>3 DEF Inv, DisputesKnown
    <3> QED BY <3>2, <3>3
  <2>5. \A q \in Requests : pc'[q] \in Halfway => q # r /\ pc[q] = pc'[q] /\ task'[q] = task[q]
    BY <1>1, <1>3 DEF Halfway
  <2>6. \A q \in Requests : pc[q] \in Halfway => q # r /\ pc[q] = pc'[q] /\ task'[q] = task[q]
    BY <1>1, <1>3 DEF Halfway
  <2>7. OldKeyFree'
    BY <1>1, <1>8, <2>5, <2>6 DEF Inv, OldKeyFree
  <2>8. OldKeysDiffer'
    BY <1>8, <2>5 DEF Inv, OldKeysDiffer
  <2> QED BY <2>3, <2>4, <2>7, <2>8 DEF DisputesInv
<1>15. AgreeInv'
  <2>1. RowsCurrent'
    <3> SUFFICES ASSUME NEW n \in NodeKeys, live[n] # None, live[n].id \notin foreign',
                        \A q \in Requests : pc'[q] \in Halfway \cup {"remove"} =>
                                               task'[q].id # live[n].id
                 PROVE  Describes(rows'[live[n].id], n, live[n])
      BY <1>1 DEF RowsCurrent, Describes
    <3>1. \A q \in Requests : pc[q] \in Halfway \cup {"remove"} => task[q].id # live[n].id
      BY <1>1, <1>3 DEF Halfway
    <3> QED BY <1>8, <1>12, <3>1 DEF Inv, RowsCurrent
  <2>2. RowsBefore'
    <3> SUFFICES ASSUME NEW q \in Requests, pc'[q] \in Halfway, task'[q].id \notin foreign'
                 PROVE  Describes(rows'[task'[q].id], task'[q].before.nkey, task'[q].before.node)
      BY DEF RowsBefore, Describes
    <3>1. q # r /\ pc[q] = pc'[q] /\ task'[q] = task[q] /\ pc[q] \in HasId
      BY <1>1, <1>3 DEF Halfway, HasId
    <3> QED BY <1>8, <1>12, <3>1 DEF Inv, RowsBefore
  <2>3. RowsHaveNodes'
    <3> SUFFICES ASSUME NEW id \in Ids, rows'[id] # None, id \notin foreign'
                 PROVE  \/ \E n \in NodeKeys : live[n] # None /\ live[n].id = id
                        \/ \E q \in Requests : pc'[q] = "put" /\ task'[q].id = id
      BY <1>1 DEF RowsHaveNodes, LiveKeys
    <3>1. CASE id = nextId
      BY <1>1, <3>1
    <3>2. CASE id # nextId
      <4>1. rows[id] # None /\ id \notin foreign
        BY <1>1, <1>80, <3>2
      <4>2. \/ \E n \in NodeKeys : live[n] # None /\ live[n].id = id
            \/ \E q \in Requests : pc[q] = "put" /\ task[q].id = id
        BY <4>1 DEF Inv, RowsHaveNodes, LiveKeys
      <4> QED BY <1>1, <1>3, <4>2
    <3> QED BY <3>1, <3>2
  <2> QED BY <2>1, <2>2, <2>3 DEF AgreeInv
<1> QED BY <1>9, <1>10, <1>11, <1>13, <1>14, <1>15 DEF Meaning

LEMMA RowDestroyedKept ==
    ASSUME Inv, NEW r \in Requests, Alone(r), pc[r] = "destroy", pc'[r] = "remove",
           task'[r] = task[r], rows'[task[r].id] = None,
           \A id \in Ids : id # task[r].id => rows'[id] = rows[id],
           UNCHANGED <<live, lapsed, nextId, keyRow, admitted, foreign>>
    PROVE  Meaning'
<1> DEFINE t == task[r]
<1>0. TypeOK /\ TaskShape
  BY InvParts
<1>1. /\ \A q \in Requests : task'[q] = task[q] /\ (q # r => pc'[q] = pc[q])
      /\ live' = live /\ nextId' = nextId /\ foreign' = foreign
      /\ keyRow' = keyRow /\ admitted' = admitted
  BY DEF Alone
<1>2. \A q \in Requests :
         /\ pc'[q] \in HasId <=> pc[q] \in HasId
         /\ pc'[q] \in Halfway <=> pc[q] \in Halfway
         /\ pc'[q] \in Decided <=> pc[q] \in Decided
         /\ pc'[q] \in {"save", "rollback", "publish", "destroy", "remove"} <=>
               pc[q] \in {"save", "rollback", "publish", "destroy", "remove"}
         /\ \A l \in {"put", "publish", "insert", "begin", "save"} : pc'[q] = l <=> pc[q] = l
  BY <1>1 DEF HasId, Halfway, Decided
<1>3. \A q \in Requests : q # r /\ pc[q] \in HasId =>
         task[q].id # t.id /\ rows'[task[q].id] = rows[task[q].id]
  BY <1>0, TaskFields DEF Inv, OwnIds, HasId
<1>4. \A n \in NodeKeys : live[n] # None => live[n].id \in Ids
  BY <1>0, StoreFields
<1>5. KeysInv'
  BY <1>1, <1>2 DEF Inv, KeysInv, NeededIsUsed, FreshReadUnused
<1>6. NodesInv'
  BY <1>1, <1>2 DEF Inv, NodesInv, LiveUnique, OwnNode, OwnIds, IdsBelow
<1>7. PlacesInv'
  <2>1. NodeInPlace' /\ NoNodeYet'
    BY <1>1, <1>2 DEF Inv, NodeInPlace, NoNodeYet
  <2>2. BeforeKnown'
    BY <1>1, <1>2 DEF Inv, BeforeKnown, Retags
  <2> QED BY <2>1, <2>2 DEF PlacesInv
<1>8. RowsInv'
  <2>1. RowKept'
    <3> SUFFICES ASSUME NEW n \in NodeKeys, live[n] # None,
                        \A q \in Requests : pc'[q] = "remove" => task[q].id # live[n].id
                 PROVE  rows'[live[n].id] # None
      BY <1>1 DEF RowKept
    <3>1. live[n].id # t.id /\ \A q \in Requests : pc[q] = "remove" => task[q].id # live[n].id
      BY <1>1
    <3> QED BY <1>4, <3>1 DEF Inv, RowKept
  <2>2. RowFirst'
    BY <1>1, <1>2, <1>3 DEF Inv, RowFirst, HasId
  <2>3. RowGone'
    BY <1>1, <1>3 DEF Inv, RowGone, HasId
  <2>4. RegisteredIsSaved'
    BY <1>1, <1>2, <1>3 DEF Inv, RegisteredIsSaved, HasId
  <2> QED BY <2>1, <2>2, <2>3, <2>4 DEF RowsInv
<1>9. DisputesInv'
  <2>1. \A q, p \in Requests : (Taken(q)' <=> Taken(q)) /\ (Rival(q, p)' <=> Rival(q, p))
    BY <1>1, <1>2 DEF Taken, Rival
  <2>2. TakersForeign'
    BY <1>1, <1>2, <2>1 DEF Inv, TakersForeign
  <2>3. DisputesKnown'
    BY <1>1, <1>2, <2>1 DEF Inv, DisputesKnown, Disputed
  <2>4. OldKeyFree'
    BY <1>1, <1>2 DEF Inv, OldKeyFree
  <2>5. OldKeysDiffer'
    BY <1>1, <1>2 DEF Inv, OldKeysDiffer
  <2> QED BY <2>2, <2>3, <2>4, <2>5 DEF DisputesInv
<1>10. AgreeInv'
  <2>1. RowsCurrent'
    <3> SUFFICES ASSUME NEW n \in NodeKeys, live[n] # None, live[n].id \notin foreign,
                        \A q \in Requests : pc'[q] \in Halfway \cup {"remove"} =>
                                               task[q].id # live[n].id
                 PROVE  Describes(rows'[live[n].id], n, live[n])
      BY <1>1 DEF RowsCurrent, Describes
    <3>1. live[n].id # t.id
      OBVIOUS
    <3>2. \A q \in Requests : pc[q] \in Halfway \cup {"remove"} => task[q].id # live[n].id
      BY <1>1 DEF Halfway
    <3> QED BY <1>4, <3>1, <3>2 DEF Inv, RowsCurrent
  <2>2. RowsBefore'
    <3> SUFFICES ASSUME NEW q \in Requests, pc[q] \in Halfway, task[q].id \notin foreign
                 PROVE  Describes(rows'[task[q].id], task[q].before.nkey, task[q].before.node)
      BY <1>1, <1>2 DEF RowsBefore, Describes
    <3>1. q # r /\ pc[q] \in HasId
      BY DEF Halfway, HasId
    <3> QED BY <1>3, <3>1 DEF Inv, RowsBefore
  <2>3. RowsHaveNodes'
    BY <1>1, <1>2 DEF Inv, RowsHaveNodes, LiveKeys
  <2> QED BY <2>1, <2>2, <2>3 DEF AgreeInv
<1> QED BY <1>5, <1>6, <1>7, <1>8, <1>9, <1>10 DEF Meaning

-----------------------------------------------------------------------------
(* The theorems.                                                           *)

LEMMA InitInv == Init => Inv
<1> SUFFICES ASSUME Init PROVE Inv
  OBVIOUS
<1> USE AuthKeyAssumption
<1>1. /\ live = [n \in NodeKeys |-> None] /\ lapsed = {}
      /\ rows = [id \in Ids |-> None] /\ nextId = 1
      /\ keyRow = [k \in Keys |-> [used |-> FALSE, expired |-> FALSE]]
      /\ mlock = [m \in Machines |-> None]
      /\ nlock = [n \in NodeKeys |-> None]
      /\ persist = None
      /\ pc = [r \in Requests |-> "idle"]
      /\ task = [r \in Requests |-> None]
      /\ admitted = [k \in Keys |-> 0] /\ foreign = {}
  BY DEF Init
<1>2. /\ \A r \in Requests : pc[r] = "idle"
      /\ \A n \in NodeKeys : live[n] = None
      /\ \A id \in Ids : rows[id] = None
      /\ \A k \in Keys : admitted[k] = 0
  BY <1>1
<1>3. "idle" \notin HasMachine \cup HasNodeKey \cup HasPersist \cup HasId \cup Halfway \cup Decided
  BY DEF HasMachine, HasNodeKey, HasPersist, HasId, Halfway, Decided
<1>4. StoreShape
  <2>1. keyRow \in [Keys -> KeyRow \cup {None}]
    <3>1. [used |-> FALSE, expired |-> FALSE] \in KeyRow
      BY DEF KeyRow
    <3> QED BY <1>1, <3>1
  <2>2. nextId \in 1..MaxId + 1
    BY <1>1
  <2>3. live \in [NodeKeys -> Live \cup {None}] /\ rows \in [Ids -> Row \cup {None}]
    BY <1>1
  <2>4. admitted \in [Keys -> 0..2]
    BY <1>1
  <2> QED BY <1>1, <2>1, <2>2, <2>3, <2>4 DEF StoreShape
<1>5. ControlShape
  BY <1>1 DEF ControlShape
<1>6. LocksHeld
  <2>1. \A r \in Requests : persist # r
    BY <1>1
  <2> QED BY <1>2, <1>3, <2>1 DEF LocksHeld
<1>7. TaskShape
  BY <1>2 DEF TaskShape
<1>8. KeysInv
  <2>1. OneShot \subseteq Keys
    BY DEF OneShot
  <2> QED BY <1>2, <2>1 DEF KeysInv, NeededIsUsed, FreshReadUnused
<1>9. NodesInv
  BY <1>2, <1>3 DEF NodesInv, LiveUnique, OwnNode, OwnIds, IdsBelow
<1>10. PlacesInv
  BY <1>2, <1>3 DEF PlacesInv, NodeInPlace, NoNodeYet, BeforeKnown
<1>11. RowsInv
  BY <1>2 DEF RowsInv, RowKept, RowFirst, RowGone, RegisteredIsSaved
<1>12. DisputesInv
  BY <1>2, <1>3 DEF DisputesInv, TakersForeign, DisputesKnown, OldKeyFree, OldKeysDiffer
<1>13. AgreeInv
  BY <1>2, <1>3 DEF AgreeInv, RowsCurrent, RowsBefore, RowsHaveNodes
<1> QED BY <1>4, <1>5, <1>6, <1>7, <1>8, <1>9, <1>10, <1>11, <1>12, <1>13, InvParts DEF Meaning

\* A request that ends without having changed anything.
LEMMA QuietFail ==
    ASSUME Inv, NEW r \in Requests, Fail(r), pc[r] \notin Halfway \cup {"put", "remove"},
           UNCHANGED <<storeVars, admitted, foreign>>
    PROVE  Inv'
<1>1. TypeOK /\ TaskShape /\ StoreShape
  BY InvParts
<1>2. ControlShape' /\ LocksHeld' /\ TaskShape' /\ pc'[r] = "idle" /\ Alone(r)
  BY <1>1, FailTyped
<1>3. StoreShape'
  BY <1>1 DEF StoreShape, storeVars
<1>4. Meaning'
  BY <1>2, Quiet
<1> QED BY <1>2, <1>3, <1>4, InvNext

LEMMA NextInv == Inv /\ [Next]_vars => Inv'
<1> SUFFICES ASSUME Inv, [Next]_vars PROVE Inv'
  OBVIOUS
<1>0. TypeOK /\ TaskShape /\ StoreShape /\ ControlShape /\ LocksHeld /\ Meaning
  BY InvParts
\* Steps of nobody's request.
<1>1. ASSUME StoreShape', Meaning', UNCHANGED <<lockVars, pc, task>>
      PROVE  Inv'
  <2>1. ControlShape' /\ LocksHeld' /\ TaskShape'
    BY <1>0, <1>1 DEF ControlShape, LocksHeld, TaskShape, lockVars
  <2> QED BY <1>1, <2>1, InvNext
<1>2. ASSUME NEW k \in Keys, ExpireKey(k) \/ DestroyKey(k)
      PROVE  Inv'
  BY <1>1, <1>2, KeyStepsKept
<1>3. ASSUME NEW id \in Ids, NodeLapses(id)
      PROVE  Inv'
  BY <1>1, <1>3, NodeLapsesKept
<1>4. ASSUME NEW id \in Ids, PersistLastSeen(id)
      PROVE  Inv'
  BY <1>1, <1>4, PersistLastSeenKept
\* Steps of a request.
<1>5. ASSUME NEW r \in Requests, NEW m \in Machines, NEW n \in NodeKeys, NEW k \in Keys,
             StartRegister(r, m, n, k)
      PROVE  Inv'
  <2>1. UNCHANGED <<storeVars, admitted, foreign>>
    BY <1>5 DEF StartRegister
  <2>2. /\ ControlShape' /\ LocksHeld' /\ TaskShape'
        /\ Alone(r) /\ pc[r] = "idle" /\ pc'[r] = "lockNodeKey"
    BY <1>0, <1>5, StartRegisterTyped
  <2>3. StoreShape'
    BY <1>0, <2>1 DEF StoreShape, storeVars
  <2>4. Meaning'
    BY <2>1, <2>2, Quiet DEF Halfway
  <2> QED BY <2>2, <2>3, <2>4, InvNext
<1>6. ASSUME NEW r \in Requests, NEW n \in NodeKeys, StartDelete(r, n)
      PROVE  Inv'
  <2>1. ControlShape' /\ LocksHeld' /\ TaskShape' /\ UNCHANGED <<storeVars, admitted, foreign>>
    BY <1>0, <1>6, StartDeleteTyped
  <2>2. StoreShape'
    BY <1>0, <2>1 DEF StoreShape, storeVars
  <2> QED BY <1>6, <2>1, <2>2, StartDeleteKept, InvNext
<1>7. ASSUME NEW r \in Requests, LockNodeKey(r)
      PROVE  Inv'
  <2>1. UNCHANGED <<storeVars, admitted, foreign>>
    BY <1>7 DEF LockNodeKey
  <2>2. /\ ControlShape' /\ LocksHeld' /\ TaskShape'
        /\ Alone(r) /\ pc[r] = "lockNodeKey" /\ pc'[r] = "decide"
    BY <1>0, <1>7, LockNodeKeyTyped
  <2>3. StoreShape'
    BY <1>0, <2>1 DEF StoreShape, storeVars
  <2>4. Meaning'
    BY <2>1, <2>2, Quiet DEF Halfway
  <2> QED BY <2>2, <2>3, <2>4, InvNext
<1>8. ASSUME NEW r \in Requests, Decide(r)
      PROVE  Inv'
  <2>1. CASE Accepted(task[r])
    BY <1>0, <1>8, <2>1, DecideEffect, DecideKept, InvNext
  <2>2. CASE ~Accepted(task[r])
    <3>1. pc[r] = "decide" /\ Fail(r) /\ UNCHANGED <<storeVars, admitted, foreign>>
      BY <1>8, <2>2 DEF Decide
    <3> QED BY <3>1, QuietFail DEF Halfway
  <2> QED BY <2>1, <2>2
<1>9. ASSUME NEW r \in Requests, Refuse(r) \/ Publish(r)
      PROVE  Inv'
  BY <1>9, QuietFail DEF Refuse, Publish, Halfway
<1>10. ASSUME NEW r \in Requests, Begin(r)
       PROVE  Inv'
  <2>1. CASE LiveKeys(task[r].id) = {} \/ (live[task[r].nkey] # None /\ live[task[r].nkey].id # task[r].id)
    <3>1. pc[r] = "begin" /\ Fail(r) /\ UNCHANGED <<storeVars, admitted, foreign>>
      BY <1>10, <2>1 DEF Begin, storeVars
    <3> QED BY <3>1, QuietFail DEF Halfway
  <2>2. CASE /\ LiveKeys(task[r].id) # {}
             /\ live[task[r].nkey] # None => live[task[r].nkey].id = task[r].id
    <3>1. StoreShape' /\ ControlShape' /\ LocksHeld' /\ TaskShape'
      BY <1>0, <1>10, <2>2, BeginEffect
    <3>2. Meaning'
      BY <1>10, <2>2, BeginKept
    <3> QED BY <3>1, <3>2, InvNext
  <2> QED BY <2>1, <2>2
<1>11. ASSUME NEW r \in Requests, CommitCached(r)
       PROVE  Inv'
  <2>1. /\ StoreShape' /\ ControlShape' /\ LocksHeld' /\ TaskShape'
        /\ Alone(r) /\ pc[r] = "save" /\ (CachedSaved(r) \/ CachedRefused(r))
    BY <1>0, <1>11, CommitCachedEffect
  <2>2. Meaning'
    BY <2>1, CachedSavedKept, CachedRefusedKept
  <2> QED BY <2>1, <2>2, InvNext
<1>12. ASSUME NEW r \in Requests, Rollback(r)
       PROVE  Inv'
  BY <1>0, <1>12, RollbackEffect, RollbackKept, InvNext
<1>13. ASSUME NEW r \in Requests, CommitNew(r)
       PROVE  Inv'
  <2>1. StoreShape' /\ ControlShape' /\ LocksHeld' /\ TaskShape'
    BY <1>0, <1>13, CommitNewEffect
  <2> QED BY <1>13, <2>1, CommitNewKept, InvNext
<1>14. ASSUME NEW r \in Requests, PutNew(r)
       PROVE  Inv'
  <2>1. StoreShape' /\ ControlShape' /\ LocksHeld' /\ TaskShape'
    BY <1>0, <1>14, PutNewEffect
  <2> QED BY <1>14, <2>1, PutNewKept, InvNext
<1>15. ASSUME NEW r \in Requests, DestroyRow(r)
       PROVE  Inv'
  <2>1. /\ StoreShape' /\ ControlShape' /\ LocksHeld' /\ TaskShape'
        /\ Alone(r) /\ pc[r] = "destroy"
        /\ \/ pc'[r] = "idle" /\ rows' = rows
           \/ /\ pc'[r] = "remove" /\ task'[r] = task[r]
              /\ rows'[task[r].id] = None
              /\ \A id \in Ids : id # task[r].id => rows'[id] = rows[id]
        /\ UNCHANGED <<live, lapsed, nextId, keyRow, admitted, foreign>>
    BY <1>0, <1>15, DestroyRowEffect
  <2>2. CASE pc'[r] = "idle" /\ rows' = rows
    <3>1. UNCHANGED <<storeVars, admitted, foreign>>
      BY <2>1, <2>2 DEF storeVars
    <3>2. Meaning'
      BY <2>1, <2>2, <3>1, Quiet DEF Halfway
    <3> QED BY <2>1, <3>2, InvNext
  <2>3. CASE /\ pc'[r] = "remove" /\ task'[r] = task[r]
             /\ rows'[task[r].id] = None
             /\ \A id \in Ids : id # task[r].id => rows'[id] = rows[id]
    <3>1. Meaning'
      BY <2>1, <2>3, RowDestroyedKept
    <3> QED BY <2>1, <3>1, InvNext
  <2> QED BY <2>1, <2>2, <2>3
<1>16. ASSUME NEW r \in Requests, RemoveLive(r)
       PROVE  Inv'
  BY <1>0, <1>16, RemoveLiveEffect, RemoveLiveKept, InvNext
<1>17. CASE UNCHANGED vars
  <2>1. UNCHANGED <<lockVars, pc, task>> /\ UNCHANGED <<storeVars, admitted, foreign>>
    BY <1>17 DEF vars
  <2>2. StoreShape'
    BY <1>0, <2>1 DEF StoreShape, storeVars
  <2>3. NeededIsUsed'
    BY <2>1 DEF Inv, NeededIsUsed, storeVars
  <2>4. UNCHANGED <<live, nextId, pc, task, foreign>> /\ rows' = rows
    BY <2>1 DEF storeVars
  <2>5. Meaning'
    BY <2>3, <2>4, StillKept
  <2> QED BY <1>1, <2>1, <2>2, <2>5
<1> QED BY <1>2, <1>3, <1>4, <1>5, <1>6, <1>7, <1>8, <1>9, <1>10, <1>11, <1>12, <1>13, <1>14,
           <1>15, <1>16, <1>17 DEF Next

\* The invariant holds in every behaviour of requests, keys and deletions
\* (register.rs, machines.rs and auth_key_registration.rs).
THEOREM Invariance == Spec => []Inv
<1>1. Init => Inv
  BY InitInv
<1>2. Inv /\ [Next]_vars => Inv'
  BY NextInv
<1> QED BY <1>1, <1>2, PTL DEF Spec

\* The state has its shape, and who is past a lock owns it.
THEOREM TypeCorrect == Spec => []TypeOK
<1>1. Inv => TypeOK
  BY DEF Inv
<1> QED BY <1>1, Invariance, PTL

\* A one-shot key is good for one registration that needs it, with any number
\* of requests and retries (auth_key_registration.rs claim_captured_sqlite).
THEOREM OneShotKeys == Spec => []OneShotOnce
<1>1. Inv => OneShotOnce
  BY DEF Inv, NeededIsUsed, OneShotOnce
<1> QED BY <1>1, Invariance, PTL

\* Who is told of a registration has it, in the registry and in the table
\* (register.rs register_auth_key).
THEOREM Registered == Spec => []RegisteredIsSaved
<1>1. Inv => RegisteredIsSaved
  BY DEF Inv
<1> QED BY <1>1, Invariance, PTL

\* The registry and the table agree on every machine nobody works on, after
\* any failures (machines.rs complete_atomic_auth_key_registration).
THEOREM RecordsAgree == Spec => []RowsMatchLive
<1>1. Inv => RowsMatchLive
  <2> SUFFICES ASSUME Inv PROVE RowsMatchLive
    OBVIOUS
  <2> USE AuthKeyAssumption
  <2>0. TypeOK /\ TaskShape /\ LocksHeld
    BY InvParts
  <2>1. ASSUME NEW n \in NodeKeys, live[n] # None, Settled(live[n].id, live[n].machine)
        PROVE  Describes(rows[live[n].id], n, live[n])
    <3>1. live[n].id \notin foreign /\ mlock[live[n].machine] = None
      BY <2>1 DEF Settled
    <3>2. ASSUME NEW r \in Requests, pc[r] \in Halfway \cup {"remove"}, task[r].id = live[n].id
          PROVE  FALSE
      <4>1. live[n].machine = task[r].machine
        BY <2>1, <3>2 DEF Inv, OwnNode, HasId, Halfway
      <4>2. mlock[task[r].machine] = r
        BY <2>0, <3>2 DEF LocksHeld, HasMachine, Halfway
      <4> QED BY <3>1, <4>1, <4>2
    <3> QED BY <2>1, <3>1, <3>2 DEF Inv, RowsCurrent
  <2>2. ASSUME NEW id \in Ids, rows[id] # None, Settled(id, rows[id].machine)
        PROVE  LiveKeys(id) # {}
    <3>1. ASSUME NEW r \in Requests, pc[r] = "put", task[r].id = id
          PROVE  FALSE
      <4>1. rows[id].machine = task[r].machine
        BY <3>1 DEF Inv, RowFirst
      <4>2. mlock[task[r].machine] = r
        BY <2>0, <3>1 DEF LocksHeld, HasMachine
      <4> QED BY <2>2, <4>1, <4>2 DEF Settled
    <3> QED BY <2>2, <3>1 DEF Inv, RowsHaveNodes, Settled
  <2> QED BY <2>1, <2>2 DEF RowsMatchLive, Describes
<1> QED BY <1>1, Invariance, PTL

\* No two machines have one node key in the table (register.rs,
\* lock_node_key_registration, validate_registration_node_key).
THEOREM NodeKeysOwned == Spec => []NodeKeyOwned
<1>1. Inv => NodeKeyOwned
  <2> SUFFICES ASSUME Inv, NEW i \in Ids, NEW j \in Ids, rows[i] # None, rows[j] # None,
                      i # j, i \notin foreign, j \notin foreign,
                      rows[i].nkey = rows[j].nkey
               PROVE  FALSE
    BY DEF NodeKeyOwned
  <2>0. TypeOK /\ TaskShape
    BY InvParts
  \* Where the node key of a row is: under its node in the registry, in a
  \* registration that may go back to it, or in one that is about to put it.
  <2> DEFINE Kept(k, n)  == live[n] # None /\ live[n].id = k
             Wanted(k, n) == \E r \in Requests : /\ pc[r] \in Halfway /\ task[r].id = k
                                                 /\ task[r].before.nkey = n
             Coming(k, n) == \E r \in Requests : /\ pc[r] = "put" /\ task[r].id = k
                                                 /\ task[r].nkey = n
  <2>1. ASSUME NEW k \in Ids, rows[k] # None, k \notin foreign
        PROVE  /\ rows[k].nkey \in NodeKeys
               /\ Kept(k, rows[k].nkey) \/ Wanted(k, rows[k].nkey) \/ Coming(k, rows[k].nkey)
    <3>0. rows[k].nkey \in NodeKeys
      BY <2>0, <2>1, StoreFields
    <3>1. CASE \E r \in Requests : pc[r] = "put" /\ task[r].id = k
      BY <3>0, <3>1 DEF Inv, RowFirst
    <3>2. CASE \E n \in NodeKeys : live[n] # None /\ live[n].id = k
      <4>1. PICK n \in NodeKeys : live[n] # None /\ live[n].id = k
        BY <3>2
      <4>2. CASE \E r \in Requests : pc[r] \in Halfway /\ task[r].id = k
        BY <2>1, <3>0, <4>2 DEF Inv, RowsBefore, Describes
      <4>3. CASE \A r \in Requests : pc[r] \in Halfway => task[r].id # k
        <5>1. \A r \in Requests : pc[r] = "remove" => task[r].id # k
          BY <2>1 DEF Inv, RowGone
        <5>2. Describes(rows[k], n, live[n])
          BY <2>1, <4>1, <4>3, <5>1 DEF Inv, RowsCurrent
        <5> QED BY <3>0, <4>1, <5>2 DEF Describes
      <4> QED BY <4>2, <4>3
    <3> QED BY <2>1, <3>1, <3>2 DEF Inv, RowsHaveNodes, LiveKeys
  <2>2. PICK n \in NodeKeys : n = rows[i].nkey
    BY <2>1
  <2>3. /\ Kept(i, n) \/ Wanted(i, n) \/ Coming(i, n)
        /\ Kept(j, n) \/ Wanted(j, n) \/ Coming(j, n)
    BY <2>1, <2>2
  <2>4. ASSUME NEW k \in Ids, NEW l \in Ids, k # l, k \notin foreign, l \notin foreign,
               Kept(k, n) \/ Wanted(k, n), Wanted(l, n)
        PROVE  FALSE
    <3>1. PICK r \in Requests : /\ pc[r] \in Halfway /\ task[r].id = l
                                /\ task[r].before.nkey = n
      BY <2>4
    <3>2. CASE Kept(k, n)
      BY <2>4, <3>1, <3>2 DEF Inv, OldKeyFree
    <3>3. CASE Wanted(k, n)
      BY <2>4, <3>1, <3>3 DEF Inv, OldKeysDiffer
    <3> QED BY <2>4, <3>2, <3>3
  <2>5. ASSUME NEW k \in Ids, NEW l \in Ids, k # l, k \notin foreign, l \notin foreign,
               Kept(k, n) \/ Wanted(k, n) \/ Coming(k, n), Coming(l, n)
        PROVE  FALSE
    <3>1. PICK r \in Requests : pc[r] = "put" /\ task[r].id = l /\ task[r].nkey = n
      BY <2>5
    <3>2. ~Disputed(r)
      BY <2>5, <3>1 DEF Inv, DisputesKnown
    <3>3. CASE Kept(k, n)
      <4>1. Taken(r)
        BY <3>1, <3>3 DEF Inv, NoNodeYet, Taken
      <4> QED BY <3>2, <4>1 DEF Disputed
    <3>4. CASE Wanted(k, n)
      <4>1. PICK q \in Requests : /\ pc[q] \in Halfway /\ task[q].id = k
                                  /\ task[q].before.nkey = n
        BY <3>4
      <4>2. Rival(r, q)
        BY <2>5, <3>1, <4>1 DEF Rival
      <4> QED BY <3>2, <4>2 DEF Disputed
    <3>5. CASE Coming(k, n)
      <4>1. PICK q \in Requests : pc[q] = "put" /\ task[q].id = k /\ task[q].nkey = n
        BY <3>5
      <4> QED BY <2>0, <2>5, <3>1, <4>1, Apart DEF HasNodeKey
    <3> QED BY <2>5, <3>3, <3>4, <3>5
  <2>6. ~(Kept(i, n) /\ Kept(j, n))
    OBVIOUS
  <2> HIDE DEF Kept, Wanted, Coming
  <2> QED BY <2>3, <2>4, <2>5, <2>6
<1> QED BY <1>1, Invariance, PTL
=============================================================================
