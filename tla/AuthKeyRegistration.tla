------------------------ MODULE AuthKeyRegistration -------------------------
(***************************************************************************)
(* Registration of nodes with preauth keys (register_auth_key in           *)
(* tailscale_wire/register.rs) over the SQL store (admin/machines.rs and   *)
(* headscale-db), beside deletions of nodes, disconnects and key admin.    *)
(*                                                                         *)
(* A node lives twice: in the registry, indexed by its node key, and in a  *)
(* row.  A registration holds the lock of its machine and of the node key  *)
(* it presents, reads the preauth key once, and judges by what it read.    *)
(* A node the registry knows is changed there first and saved afterwards,  *)
(* with a rollback if the save fails; a new node gets its row first.  The  *)
(* row and the use of the key are one transaction.                         *)
(*                                                                         *)
(* One user owns all nodes, so a machine has at most one live node.        *)
(***************************************************************************)
EXTENDS Naturals, FiniteSets

CONSTANTS
    Machines,   \* machine keys
    NodeKeys,   \* node keys; any machine may present any of them
    Keys,       \* preauth keys
    Reusable,   \* those that may be used more than once
    Tagged,     \* those that give their tags to a node
    Requests,   \* requests that run at a time
    None,
    MaxId       \* bound: rows ever created

ASSUME AuthKeyAssumption ==
    /\ Reusable \subseteq Keys /\ Tagged \subseteq Keys
    /\ MaxId \in Nat
    /\ None \notin Keys \cup NodeKeys \cup Requests

VARIABLES
    live,      \* the registry: the node under each node key
    lapsed,    \* ids of nodes whose expiry has passed
    rows,      \* the table of nodes
    nextId,    \* the id the next row gets
    keyRow,    \* the table of preauth keys
    mlock,     \* lock_registration: the owner of each machine's lock
    nlock,     \* lock_node_key_registration: the same of each node key
    persist,   \* lock_native_persistence
    pc, task,  \* the requests
    admitted,  \* history: registrations each key row was needed for
    foreign    \* history: nodes whose row somebody else wrote, see below

storeVars == <<live, lapsed, rows, nextId, keyRow>>
lockVars  == <<mlock, nlock, persist>>
vars == <<storeVars, lockVars, pc, task, admitted, foreign>>

Ids     == 1..MaxId
Live    == [id : Ids, machine : Machines, key : Keys \cup {None}, tagged : BOOLEAN]
Row     == [machine : Machines, nkey : NodeKeys, key : Keys \cup {None}, tagged : BOOLEAN]
KeyRow  == [used : BOOLEAN, expired : BOOLEAN]
Before  == [nkey : NodeKeys, node : Live, lapsed : BOOLEAN]
Task    == [machine : Machines, nkey : NodeKeys, key : Keys \cup {None},
            id : Ids \cup {None}, captured : KeyRow \cup {None}, fresh : BOOLEAN,
            before : Before \cup {None}, contested : BOOLEAN]

ASSUME NoneAssumption == None \notin Live \cup Row \cup KeyRow \cup Before \cup Task

OneShot == Keys \ Reusable

\* Where a request owns its locks.
HasMachine == {"lockNodeKey", "decide", "begin", "save", "rollback", "insert", "put", "publish",
               "destroy", "remove"}
HasNodeKey == {"decide", "begin", "save", "rollback", "insert", "put", "publish"}
HasPersist == {"rollback", "remove"}

\* The pieces of state have their types, and a request that is past a lock
\* owns it.
TypeOK ==
    /\ live \in [NodeKeys -> Live \cup {None}] /\ lapsed \subseteq Ids
    /\ rows \in [Ids -> Row \cup {None}] /\ nextId \in 1..MaxId + 1
    /\ keyRow \in [Keys -> KeyRow \cup {None}]
    /\ mlock \in [Machines -> Requests \cup {None}]
    /\ nlock \in [NodeKeys -> Requests \cup {None}]
    /\ persist \in Requests \cup {None}
    /\ pc \in [Requests -> {"idle"} \cup HasMachine]
    /\ task \in [Requests -> Task \cup {None}]
    /\ admitted \in [Keys -> 0..2] /\ foreign \subseteq Ids
    /\ \A r \in Requests :
          /\ pc[r] \in HasMachine => mlock[task[r].machine] = r
          /\ pc[r] \in HasNodeKey => nlock[task[r].nkey] = r
          /\ pc[r] \in HasPersist <=> persist = r

Init ==
    /\ live = [n \in NodeKeys |-> None] /\ lapsed = {}
    /\ rows = [id \in Ids |-> None] /\ nextId = 1
    /\ keyRow = [k \in Keys |-> [used |-> FALSE, expired |-> FALSE]]
    /\ mlock = [m \in Machines |-> None]
    /\ nlock = [n \in NodeKeys |-> None]
    /\ persist = None
    /\ pc = [r \in Requests |-> "idle"]
    /\ task = [r \in Requests |-> None]
    /\ admitted = [k \in Keys |-> 0] /\ foreign = {}

LiveKeys(id) == {n \in NodeKeys : live[n] # None /\ live[n].id = id}
NodesOf(m)   == {n \in NodeKeys : live[n] # None /\ live[n].machine = m}

Goto(r, label) == pc' = [pc EXCEPT ![r] = label]

\* What a request does not use any more once its row is written is forgotten.
Saved(t, id) == [t EXCEPT !.id = id, !.captured = None, !.fresh = FALSE,
                          !.before = None, !.contested = FALSE]

\* The guards of a request are dropped when its task ends.
Release(r) ==
    /\ mlock' = [m \in Machines |-> IF mlock[m] = r THEN None ELSE mlock[m]]
    /\ nlock' = [n \in NodeKeys |-> IF nlock[n] = r THEN None ELSE nlock[n]]
    /\ persist' = IF persist = r THEN None ELSE persist

\* The request is answered with an error.
Fail(r) ==
    /\ Release(r)
    /\ Goto(r, "idle")
    /\ task' = [task EXCEPT ![r] = None]

-----------------------------------------------------------------------------
(* The keys and the clock.                                                 *)

ExpireKey(k) ==
    /\ keyRow[k] # None /\ ~keyRow[k].expired
    /\ keyRow' = [keyRow EXCEPT ![k].expired = TRUE]
    /\ UNCHANGED <<live, lapsed, rows, nextId, lockVars, pc, task, admitted, foreign>>

\* The rows of nodes lose the key; the nodes in the registry keep it.
DestroyKey(k) ==
    /\ keyRow[k] # None
    /\ keyRow' = [keyRow EXCEPT ![k] = None]
    /\ rows' = [id \in Ids |-> IF rows[id] # None /\ rows[id].key = k
                               THEN [rows[id] EXCEPT !.key = None] ELSE rows[id]]
    /\ admitted' = [admitted EXCEPT ![k] = 0]
    /\ UNCHANGED <<live, lapsed, nextId, lockVars, pc, task, foreign>>

\* The expiry of a tagged node means nothing.
NodeLapses(id) ==
    /\ \E n \in LiveKeys(id) : ~live[n].tagged
    /\ id \notin lapsed
    /\ lapsed' = lapsed \cup {id}
    /\ UNCHANGED <<live, rows, nextId, keyRow, lockVars, pc, task, admitted, foreign>>

-----------------------------------------------------------------------------
(* A registration, up to the decision.                                     *)

\* A request that waits for the lock of its machine has done nothing yet.
StartRegister(r, m, n, k) ==
    /\ pc[r] = "idle" /\ mlock[m] = None
    /\ mlock' = [mlock EXCEPT ![m] = r]
    /\ task' = [task EXCEPT ![r] =
          [machine |-> m, nkey |-> n, key |-> k, id |-> None, captured |-> None,
           fresh |-> TRUE, before |-> None, contested |-> FALSE]]
    /\ Goto(r, "lockNodeKey")
    /\ UNCHANGED <<storeVars, nlock, persist, admitted, foreign>>

LockNodeKey(r) ==
    /\ pc[r] = "lockNodeKey" /\ nlock[task[r].nkey] = None
    /\ nlock' = [nlock EXCEPT ![task[r].nkey] = r]
    /\ Goto(r, "decide")
    /\ UNCHANGED <<storeVars, mlock, persist, task, admitted, foreign>>

\* A node that wakes under the node key it has, while it is authorized and
\* with a key that would not change its tags, needs no valid key.
CanRefresh(t) ==
    /\ live[t.nkey] # None
    /\ LET node == live[t.nkey] IN
       /\ node.machine = t.machine
       /\ node.tagged \/ node.id \notin lapsed
       /\ t.key \in Tagged => node.tagged /\ node.key = t.key

Valid(k) == ~keyRow[k].expired /\ (k \in OneShot => ~keyRow[k].used)

\* Mutant: the node key is not asked for its owner.
NodeKeyFreeAlways(t) == TRUE

\* No other machine has the node key in the registry.
NodeKeyFree(t) == live[t.nkey] # None => live[t.nkey].machine = t.machine

\* Nodes that are giving up the presented node key: it has left the registry,
\* and the registration they are in may still fail and want it back.
OldOwners(t) == {task[q].id : q \in {q \in Requests : /\ pc[q] \in {"save", "rollback"}
                                                      /\ task[q].machine # t.machine
                                                      /\ task[q].before.nkey = t.nkey}}

Accepted(t) ==
    /\ keyRow[t.key] # None
    /\ CanRefresh(t) \/ Valid(t.key)
    /\ NodeKeyFree(t)

\* The key is read; the request is judged by what is read here, whatever
\* becomes of the key before the row is written.
Decide(r) ==
    LET t == task[r]
        existing == NodesOf(t.machine) IN
    /\ pc[r] = "decide"
    /\ IF ~Accepted(t)
       THEN Fail(r) /\ UNCHANGED foreign
       ELSE /\ task' = [task EXCEPT ![r] =
                  [t EXCEPT !.captured = keyRow[t.key], !.fresh = ~CanRefresh(t),
                            !.id = IF existing = {} THEN None
                                   ELSE live[CHOOSE n \in existing : TRUE].id,
                            !.contested = OldOwners(t) # {}]]
            /\ foreign' = foreign \cup OldOwners(t)
            /\ Goto(r, IF existing = {} THEN "insert" ELSE "begin")
            /\ UNCHANGED lockVars
    /\ UNCHANGED <<storeVars, admitted>>

\* An address pool that is exhausted, or a request whose contents are refused.
Refuse(r) ==
    /\ pc[r] \in {"begin", "insert"}
    /\ Fail(r)
    /\ UNCHANGED <<storeVars, admitted, foreign>>

-----------------------------------------------------------------------------
(* The transaction.                                                        *)

\* Mutant: UPDATE ... SET used = true WHERE id = ?
ClaimableAlways(row) == TRUE

\* UPDATE pre_auth_keys SET used = true WHERE id = ? AND used = false
Claimable(row) == ~row.used

\* A key that was already used when it was read is not claimed for a node the
\* registry knows; a new node always claims.
MustClaim(t, new) == t.key \in OneShot /\ (new \/ ~t.captured.used)

Admit(t) ==
    admitted' = [admitted EXCEPT ![t.key] = IF t.fresh /\ @ < 2 THEN @ + 1 ELSE @]

-----------------------------------------------------------------------------
(* A node the registry knows.                                              *)

Retags(t, node) == t.key \in Tagged /\ (~node.tagged \/ node.key # t.key)

\* The registry is changed first, by the writer of the NodeStore.
Begin(r) ==
    LET t == task[r] IN
    /\ pc[r] = "begin"
    /\ IF LiveKeys(t.id) = {} \/ (live[t.nkey] # None /\ live[t.nkey].id # t.id)
       THEN /\ Fail(r)
            /\ UNCHANGED <<live, lapsed>>
       ELSE LET old  == CHOOSE n \in LiveKeys(t.id) : TRUE
                node == live[old] IN
            /\ live' = [live EXCEPT ![old] = None,
                           ![t.nkey] = [node EXCEPT !.key = t.key,
                                                    !.tagged = @ \/ Retags(t, node)]]
            /\ lapsed' = lapsed \ {t.id}
            /\ task' = [task EXCEPT ![r].before =
                           [nkey |-> old, node |-> node, lapsed |-> t.id \in lapsed]]
            /\ Goto(r, "save")
            /\ UNCHANGED lockVars
    /\ UNCHANGED <<rows, nextId, keyRow, admitted, foreign>>

\* Mutant: a refused claim is taken for a success, with nothing written.
CommitCachedLenient(r) ==
    LET t == task[r] IN
    /\ pc[r] = "save" /\ persist = None
    /\ Admit(t) /\ Goto(r, "publish")
    /\ task' = [task EXCEPT ![r] = Saved(t, t.id)]
    /\ UNCHANGED <<storeVars, lockVars, foreign>>

\* The row is saved as the registry had the node when it was changed, and the
\* key is claimed.  A row that is gone is not created again, the key of a row
\* must exist.  On an error neither is written, and the lock is kept for the
\* rollback.
CommitCached(r) ==
    LET t == task[r] IN
    /\ pc[r] = "save" /\ persist = None
    /\ \/ /\ rows[t.id] # None => keyRow[t.key] # None
          /\ MustClaim(t, FALSE) => keyRow[t.key] # None /\ Claimable(keyRow[t.key])
          /\ rows' = IF rows[t.id] = None THEN rows
                     ELSE [rows EXCEPT ![t.id] =
                             [machine |-> t.machine, nkey |-> t.nkey, key |-> t.key,
                              tagged |-> t.before.node.tagged \/ Retags(t, t.before.node)]]
          /\ keyRow' = IF MustClaim(t, FALSE) THEN [keyRow EXCEPT ![t.key].used = TRUE] ELSE keyRow
          /\ Admit(t)
          /\ foreign' = IF t.contested THEN foreign \cup {t.id} ELSE foreign \ {t.id}
          /\ task' = [task EXCEPT ![r] = Saved(t, t.id)]
          /\ Goto(r, "publish")
          /\ UNCHANGED <<live, lapsed, nextId, lockVars>>
       \/ /\ persist' = r
          /\ Goto(r, "rollback")
          /\ UNCHANGED <<storeVars, mlock, nlock, task, admitted, foreign>>

\* Mutant: the rollback looks for the node under the node key it had.
RollbackByOldKey(r) ==
    LET t == task[r] IN
    /\ pc[r] = "rollback"
    /\ IF live[t.before.nkey] # None /\ live[t.before.nkey].id = t.id
       THEN live' = [live EXCEPT ![t.nkey] = None, ![t.before.nkey] = t.before.node]
       ELSE UNCHANGED live
    /\ Fail(r)
    /\ UNCHANGED <<lapsed, rows, nextId, keyRow, admitted, foreign>>

\* The registry gets back the node it had, unless the node is gone or its old
\* node key is taken.
Rollback(r) ==
    LET t == task[r] IN
    /\ pc[r] = "rollback"
    /\ IF /\ live[t.nkey] # None /\ live[t.nkey].id = t.id
          /\ live[t.before.nkey] # None => live[t.before.nkey].id = t.id
       THEN /\ live' = [live EXCEPT ![t.nkey] = None, ![t.before.nkey] = t.before.node]
            /\ lapsed' = IF t.before.lapsed THEN lapsed \cup {t.id} ELSE lapsed \ {t.id}
       ELSE UNCHANGED <<live, lapsed>>
    /\ Fail(r)
    /\ UNCHANGED <<rows, nextId, keyRow, admitted, foreign>>

-----------------------------------------------------------------------------
(* A new node.                                                             *)

\* The key that was read is saved with the node, which creates it again if
\* it has been destroyed meanwhile.
CommitNew(r) ==
    LET t   == task[r]
        row == IF keyRow[t.key] = None THEN t.captured ELSE keyRow[t.key] IN
    /\ pc[r] = "insert" /\ nextId <= MaxId
    /\ MustClaim(t, TRUE) => Claimable(row)
    /\ keyRow' = [keyRow EXCEPT ![t.key] = [row EXCEPT !.used = @ \/ MustClaim(t, TRUE)]]
    /\ rows' = [rows EXCEPT ![nextId] = [machine |-> t.machine, nkey |-> t.nkey, key |-> t.key,
                                         tagged |-> t.key \in Tagged]]
    /\ nextId' = nextId + 1
    /\ task' = [task EXCEPT ![r] = Saved(t, nextId)]
    /\ Admit(t)
    /\ foreign' = IF t.contested THEN foreign \cup {nextId} ELSE foreign
    /\ Goto(r, "put")
    /\ UNCHANGED <<live, lapsed, lockVars>>

PutNew(r) ==
    LET t == task[r] IN
    /\ pc[r] = "put"
    /\ IF live[t.nkey] # None /\ live[t.nkey].id # t.id
       THEN Fail(r) /\ UNCHANGED live
       ELSE /\ live' = [live EXCEPT ![t.nkey] = [id |-> t.id, machine |-> t.machine, key |-> t.key,
                                                 tagged |-> t.key \in Tagged]]
            /\ Goto(r, "publish")
            /\ UNCHANGED <<lockVars, task>>
    /\ UNCHANGED <<lapsed, rows, nextId, keyRow, admitted, foreign>>

-----------------------------------------------------------------------------
(* The end of a registration.                                              *)

\* The policy may fail to take the node, or to approve its routes: the client
\* is then told of an error, and the registration stays.
Publish(r) ==
    /\ pc[r] = "publish"
    /\ Fail(r)
    /\ UNCHANGED <<storeVars, admitted, foreign>>

-----------------------------------------------------------------------------
(* Deletions and disconnects.                                              *)

\* An administrator, the collector of ephemeral nodes or a logout; the node is
\* looked up again once the lock is there.
StartDelete(r, n) ==
    /\ pc[r] = "idle" /\ live[n] # None /\ mlock[live[n].machine] = None
    /\ mlock' = [mlock EXCEPT ![live[n].machine] = r]
    /\ task' = [task EXCEPT ![r] =
          [machine |-> live[n].machine, nkey |-> n, key |-> None, id |-> live[n].id,
           captured |-> None, fresh |-> FALSE, before |-> None, contested |-> FALSE]]
    /\ Goto(r, "destroy")
    /\ UNCHANGED <<storeVars, nlock, persist, admitted, foreign>>

\* The row goes first; a failure ends the deletion.
DestroyRow(r) ==
    /\ pc[r] = "destroy"
    /\ \/ /\ Fail(r)
          /\ UNCHANGED <<rows>>
       \/ /\ persist = None
          /\ rows' = [rows EXCEPT ![task[r].id] = None]
          /\ persist' = r
          /\ Goto(r, "remove")
          /\ UNCHANGED <<mlock, nlock, task>>
    /\ UNCHANGED <<live, lapsed, nextId, keyRow, admitted, foreign>>

RemoveLive(r) ==
    /\ pc[r] = "remove"
    /\ live' = [live EXCEPT ![task[r].nkey] = None]
    /\ lapsed' = lapsed \ {task[r].id}
    /\ Fail(r)
    /\ UNCHANGED <<rows, nextId, keyRow, admitted, foreign>>

\* A registration has changed the node in the registry and not yet saved it.
Unsaved(id) == \E r \in Requests : pc[r] = "save" /\ task[r].id = id

\* The last stream of a node ends: the node is saved as the registry has it
\* now, all but its key.  The lock of the machine is not asked for.
PersistLastSeen(id) ==
    /\ persist = None /\ LiveKeys(id) # {} /\ rows[id] # None
    /\ LET n == CHOOSE x \in LiveKeys(id) : TRUE IN
       rows' = [rows EXCEPT ![id].nkey = n, ![id].tagged = live[n].tagged]
    /\ rows' # rows
    /\ foreign' = IF Unsaved(id) THEN foreign \cup {id} ELSE foreign
    /\ UNCHANGED <<live, lapsed, nextId, keyRow, lockVars, pc, task, admitted>>

-----------------------------------------------------------------------------
Next ==
    \/ \E k \in Keys : ExpireKey(k) \/ DestroyKey(k)
    \/ \E id \in Ids : NodeLapses(id) \/ PersistLastSeen(id)
    \/ \E r \in Requests :
          \/ \E m \in Machines, n \in NodeKeys, k \in Keys : StartRegister(r, m, n, k)
          \/ \E n \in NodeKeys : StartDelete(r, n)
          \/ LockNodeKey(r)
          \/ Decide(r) \/ Refuse(r)
          \/ Begin(r) \/ CommitCached(r) \/ Rollback(r)
          \/ CommitNew(r) \/ PutNew(r)
          \/ Publish(r)
          \/ DestroyRow(r) \/ RemoveLive(r)

Spec == Init /\ [][Next]_vars

-----------------------------------------------------------------------------
(* Properties.                                                             *)

\* A one-shot key lets at most one registration through that needs a valid
\* key, however many requests read it unused, with failed saves and retries
\* in between.  A destroyed key that a request still under way creates again
\* counts as a new one (auth_key_registration.rs claim_captured_sqlite).
OneShotOnce == \A k \in OneShot : admitted[k] <= 1

\* Nodes whose two records somebody else has touched while their registration
\* was under way are excepted from the next two properties (foreign): one
\* whose row a disconnect wrote, before the save, with the node key of a
\* registration that then failed, and nodes of two machines of which one
\* presented the node key that the other, in an unsaved registration, was
\* giving up.
Settled(id, m) == id \notin foreign /\ mlock[m] = None

\* While nobody holds the lock of a machine, the registry and the table agree
\* on its nodes: every failure on the way, of a save, of a claim, of the
\* publication, leaves either both records or none (machines.rs
\* complete_atomic_auth_key_registration and its rollback).
RowsMatchLive ==
    /\ \A n \in NodeKeys :
          live[n] # None /\ Settled(live[n].id, live[n].machine) =>
             LET row == rows[live[n].id] IN
             /\ row # None
             /\ row.machine = live[n].machine /\ row.nkey = n /\ row.tagged = live[n].tagged
             /\ row.key \in {live[n].key, None}
    /\ \A id \in Ids :
          rows[id] # None /\ Settled(id, rows[id].machine) => LiveKeys(id) # {}

\* Two machines never own one node key in the table, although the table has
\* no index that says so (register.rs, lock_node_key_registration,
\* validate_registration_node_key).
NodeKeyOwned ==
    \A i, j \in Ids :
        rows[i] # None /\ rows[j] # None /\ i # j /\ i \notin foreign /\ j \notin foreign
            => rows[i].nkey # rows[j].nkey

\* A client is told that it is registered only when it is: its row has the
\* node key and the preauth key it presented (unless that is destroyed), and
\* the registry finds its machine under that node key, whatever the other
\* requests do until the answer (register.rs register_auth_key).
RegisteredIsSaved ==
    \A r \in Requests :
        pc[r] = "publish" =>
            LET t == task[r]
                row == rows[t.id] IN
            /\ live[t.nkey] # None /\ live[t.nkey].id = t.id
            /\ row # None /\ row.nkey = t.nkey /\ row.key \in {t.key, None}
=============================================================================
