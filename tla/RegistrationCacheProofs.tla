---------------------- MODULE RegistrationCacheProofs ----------------------
(***************************************************************************)
(* Proofs about RegistrationCache, for any number of auth ids, sources and *)
(* tasks, any capacity and any quota.                                      *)
(***************************************************************************)
EXTENDS RegistrationCache, FiniteSetTheorems, TLAPS

\* The map names created entries, under the id they were inserted with.
MapNamesItsEntries ==
    /\ \A i \in AuthIds :
          inner[i] # None => inner[i] \in 1 .. made /\ authId[inner[i]] = i
    /\ \A e \in 1 .. made : authId[e] \in AuthIds

\* A task between its look-up and its last step holds a created entry.
Holding == Waiting \cup {"approve", "reject", "admitted", "refused", "settle", "complete"}
TasksHoldEntries == \A c \in Callers : pc[c] \in Holding => held[c] \in 1 .. made

\* A waiter that read no verdict and misses one since has a notification.
WakeupComes ==
    \A c \in Callers :
        pc[c] \in {"undecided", "parked"} /\ outcome[held[c]] # "none" => notified[c]

\* Waiters are only ever told the entry's verdict.
ToldTheVerdict == \A e \in Entry : \A v \in told[e] : v = outcome[e] /\ v # "none"

\* A consuming waiter that got the verdict left its mark.
ConsumptionMarked ==
    \A e \in Entry : consumers[e] <= 1 /\ (consumers[e] = 1 => consumed[e])

Inv ==
    /\ TypeOK
    /\ MapNamesItsEntries
    /\ TasksHoldEntries
    /\ NoOrphan
    /\ WakeupComes
    /\ ToldTheVerdict
    /\ ConsumptionMarked

-----------------------------------------------------------------------------
\* No eviction rule picks the entry being inserted, or one not in the map:
\* the comment "the entry being inserted is never an eviction victim" of
\* insert_entry.
LEMMA EvictionsSpareKeep ==
    ASSUME NEW S, NEW src, NEW s, NEW keep
    PROVE  Evictions(S, src, s, keep) \subseteq S \ {keep}
<1>1. OverSourceQuota(S, src, s, keep) \subseteq S \ {keep}
  BY DEF OverSourceQuota
<1>2. ASSUME NEW left, left \subseteq S
      PROVE  EvictionVictim(left, src, keep) \subseteq S \ {keep}
  BY <1>2 DEF EvictionVictim, Oldest
<1>3. QED
  BY <1>1, <1>2 DEF Evictions

\* The map only ever names entries.
LEMMA CachedEntries ==
    ASSUME NEW m \in [AuthIds -> Entry \cup {None}]
    PROVE  Cached(m) \subseteq Entry
  BY DEF Cached

\* Dropping entries leaves a map of the same shape.
LEMMA WithoutType ==
    ASSUME NEW m \in [AuthIds -> Entry \cup {None}], NEW gone
    PROVE  Without(m, gone) \in [AuthIds -> Entry \cup {None}]
  BY DEF Without

\* Touching an entry orders entries only.
LEMMA TouchType ==
    ASSUME TypeOK, NEW e \in Entry
    PROVE  Touch(e) \subseteq Entry \X Entry
<1>1. Cached(inner) \subseteq Entry
  BY CachedEntries DEF TypeOK
<1>2. usedBefore \subseteq Entry \X Entry
  BY DEF TypeOK
<1>3. QED
  BY <1>1, <1>2 DEF Touch

\* A look-up keeps the types of what it touches.
LEMMA GetEntryType ==
    ASSUME TypeOK, NEW c \in Callers, NEW id \in AuthIds,
           NEW label \in Holding, GetEntry(c, id, label)
    PROVE  /\ usedBefore' \subseteq Entry \X Entry
           /\ held' \in [Callers -> Entry \cup {None}]
           /\ pc' \in [Callers -> Holding \cup {"idle", "pruned"}]
<1>1. CASE inner[id] = None
  BY <1>1 DEF GetEntry, TypeOK, Holding
<1>2. CASE inner[id] # None
  <2>1. inner[id] \in Entry
    BY <1>2 DEF TypeOK
  <2>2. usedBefore' \subseteq Entry \X Entry
    BY <1>2, <2>1, TouchType DEF GetEntry
  <2>3. QED
    BY <1>2, <2>1, <2>2 DEF GetEntry, TypeOK, Holding
<1>3. QED
  BY <1>1, <1>2

\* Expiring the entry a task holds keeps the types.
LEMMA ExpireIfCurrentType ==
    ASSUME TypeOK, NEW e \in Entry, ExpireIfCurrent(e)
    PROVE  /\ inner' \in [AuthIds -> Entry \cup {None}]
           /\ dropping' \subseteq Entry
  BY WithoutType DEF ExpireIfCurrent, TypeOK

-----------------------------------------------------------------------------
\* The initial state has the right types.
LEMMA TypeInit == Init => TypeOK
  BY CapacityAssumption DEF Init, TypeOK, Entry, None, Kinds, Verdicts

\* Every step keeps the types.
LEMMA TypeStep == TypeOK /\ TasksHoldEntries /\ [Next]_vars => TypeOK'
<1> SUFFICES ASSUME TypeOK, TasksHoldEntries, [Next]_vars
             PROVE  TypeOK'
  OBVIOUS
<1>1. CASE UNCHANGED vars
  BY <1>1, CapacityAssumption DEF vars, TypeOK, entryVars, verdictVars, taskVars,
     None, Entry, Waiting, Kinds, Verdicts
<1>2. CASE DeadlinePasses
  BY <1>2, CapacityAssumption DEF DeadlinePasses, TypeOK, entryVars, verdictVars,
     taskVars, None, Entry, Waiting, Kinds, Verdicts
<1>3. ASSUME NEW e \in Entry, ExpireDropped(e) PROVE TypeOK'
  BY <1>3, CapacityAssumption DEF ExpireDropped, SetVerdict, Decided, Notify,
     TypeOK, entryVars, verdictVars, taskVars, None, Entry, Waiting, Kinds, Verdicts
<1>4. ASSUME NEW c \in Callers, PruneExpired(c) PROVE TypeOK'
  <2>1. Cached(inner) \subseteq Entry
    BY CachedEntries DEF TypeOK
  <2>2. /\ inner' \in [AuthIds -> Entry \cup {None}]
        /\ dropping' \subseteq Entry
    BY <1>4, <2>1, WithoutType DEF PruneExpired, TypeOK
  <2>3. QED
    BY <1>4, <2>2 DEF PruneExpired, TypeOK, entryVars, verdictVars
<1>5. ASSUME NEW c \in Callers, NEW id \in AuthIds, NEW k \in Kinds, NEW s \in
            Sources \cup {NoSource}, InsertEntry(c, id, k, s) PROVE TypeOK'
  <2> DEFINE new == made + 1
             src == [source EXCEPT ![new] = s]
             with == [inner EXCEPT ![id] = new]
             gone == Evictions(Cached(with), src, s, new)
             stay == Cached(with) \ gone
  <2>1. new \in Entry
    BY <1>5, CapacityAssumption DEF InsertEntry, TypeOK, Entry
  <2>2. with \in [AuthIds -> Entry \cup {None}]
    BY <2>1 DEF TypeOK
  <2>3. Cached(with) \subseteq Entry
    BY <2>2, CachedEntries
  <2>4. gone \subseteq Cached(with) \ {new}
    BY EvictionsSpareKeep
  <2>5. inner' \in [AuthIds -> Entry \cup {None}]
    BY <1>5, <2>2, WithoutType DEF InsertEntry
  <2>6. dropping' \subseteq Entry
    BY <1>5, <2>3, <2>4 DEF InsertEntry, TypeOK
  <2>7. usedBefore' \subseteq Entry \X Entry
    <3>1. usedBefore' = {p \in usedBefore : p[1] \in stay /\ p[2] \in stay}
                            \cup {<<x, new>> : x \in stay \ {new}}
      BY <1>5 DEF InsertEntry
    <3>2. stay \subseteq Entry
      BY <2>3
    <3> HIDE DEF stay, new
    <3>3. QED
      BY <3>1, <3>2, <2>1 DEF TypeOK
  <2>8. made' \in 0 .. MaxCreated /\ expiredUpTo' \in 0 .. made'
    BY <1>5, CapacityAssumption DEF InsertEntry, TypeOK
  <2>9. kind' \in [Entry -> Kinds]
    BY <1>5, <2>1 DEF InsertEntry, TypeOK
  <2>10. source' \in [Entry -> Sources \cup {NoSource}]
    BY <1>5, <2>1 DEF InsertEntry, TypeOK
  <2>11. authId' \in [Entry -> AuthIds \cup {None}]
    BY <1>5, <2>1 DEF InsertEntry, TypeOK
  <2>12. pc' \in [Callers -> Holding \cup {"idle", "pruned"}]
    BY <1>5 DEF InsertEntry, TypeOK, Holding
  <2>13. UNCHANGED <<outcome, consumed, told, consumers, held, consuming, notified>>
    BY <1>5 DEF InsertEntry, verdictVars
  <2>14. QED
    BY <2>5, <2>6, <2>7, <2>8, <2>9, <2>10, <2>11, <2>12, <2>13 DEF TypeOK, Holding
<1>6. ASSUME NEW c \in Callers, NEW id \in AuthIds, StartApprove(c, id) PROVE
            TypeOK'
  <2>1. GetEntry(c, id, "approve")
    BY <1>6 DEF StartApprove
  <2>2. QED
    BY <1>6, <2>1, GetEntryType DEF StartApprove, GetEntry, TypeOK, Holding, entryVars, verdictVars
<1>7. ASSUME NEW c \in Callers, NEW id \in AuthIds, StartReject(c, id) PROVE TypeOK'
  <2>1. GetEntry(c, id, "reject")
    BY <1>7 DEF StartReject
  <2>2. QED
    BY <1>7, <2>1, GetEntryType DEF StartReject, GetEntry, TypeOK, Holding, entryVars, verdictVars
<1>8. ASSUME NEW c \in Callers, NEW id \in AuthIds, Admit(c, id) PROVE TypeOK'
  <2> DEFINE label == IF inner[id] # None /\ kind[inner[id]] = "registration"
                           /\ outcome[inner[id]] = "none"
                      THEN "admitted" ELSE "refused"
  <2>1. GetEntry(c, id, label) /\ label \in Holding
    BY <1>8 DEF Admit, Holding
  <2> HIDE DEF label
  <2>2. QED
    BY <1>8, <2>1, GetEntryType DEF Admit, GetEntry, TypeOK, Holding, entryVars, verdictVars
<1>9. ASSUME NEW c \in Callers, NEW id \in AuthIds, Remove(c, id) PROVE TypeOK'
  BY <1>9, CapacityAssumption DEF Remove, TypeOK, entryVars, verdictVars, taskVars,
     None, Entry, Waiting, Kinds, Verdicts
<1>10. ASSUME NEW c \in Callers, NEW id \in AuthIds, CompleteRemove(c, id) PROVE
            TypeOK'
  BY <1>10, CapacityAssumption DEF CompleteRemove, TypeOK, entryVars, verdictVars,
     taskVars, None, Entry, Waiting, Kinds, Verdicts
<1>11. ASSUME NEW c \in Callers, NEW id \in AuthIds, NEW consume \in BOOLEAN,
            StartWait(c, id, consume) PROVE TypeOK'
  <2>1. GetEntry(c, id, "arm")
    BY <1>11 DEF StartWait
  <2>2. (consume /\ inner[id] # None) \in BOOLEAN
    OBVIOUS
  <2>3. consuming' \in [Callers -> BOOLEAN]
    BY <1>11, <2>2 DEF StartWait, TypeOK
  <2>4. QED
    BY <2>1, <2>3, GetEntryType DEF GetEntry, TypeOK, Holding, Waiting, entryVars, verdictVars
<1>12. ASSUME NEW c \in Callers, Decide(c) PROVE TypeOK'
  BY <1>12, CapacityAssumption DEF Decide, SetVerdict, Decided, Notify, TypeOK,
     entryVars, verdictVars, taskVars, None, Entry, Waiting, Kinds, Verdicts
<1>13. ASSUME NEW c \in Callers, FinishRegistration(c) PROVE TypeOK'
  BY <1>13, CapacityAssumption DEF FinishRegistration, SetVerdict, Decided, Notify,
     TypeOK, entryVars, verdictVars, taskVars, None, Entry, Waiting, Kinds, Verdicts
<1>14. ASSUME NEW c \in Callers, SettleRegistration(c) PROVE TypeOK'
  <2>1. held[c] \in Entry
    BY <1>14, CapacityAssumption DEF SettleRegistration, TasksHoldEntries, Holding, Waiting, TypeOK, Entry
  <2>2. /\ inner' \in [AuthIds -> Entry \cup {None}]
        /\ dropping' \subseteq Entry
    BY <1>14, <2>1, ExpireIfCurrentType DEF SettleRegistration
  <2>3. QED
    BY <1>14, <2>2 DEF SettleRegistration, TypeOK, entryVars, verdictVars, Waiting
<1>15. ASSUME NEW c \in Callers, Abandon(c) PROVE TypeOK'
  BY <1>15, CapacityAssumption DEF Abandon, TypeOK, entryVars, verdictVars,
     taskVars, None, Entry, Waiting, Kinds, Verdicts
<1>16. ASSUME NEW c \in Callers, Complete(c) PROVE TypeOK'
  BY <1>16, CapacityAssumption DEF Complete, SetVerdict, Decided, Notify, TypeOK,
     entryVars, verdictVars, taskVars, None, Entry, Waiting, Kinds, Verdicts
<1>17. ASSUME NEW c \in Callers, Arm(c) PROVE TypeOK'
  BY <1>17, CapacityAssumption DEF Arm, TypeOK, entryVars, verdictVars, taskVars,
     None, Entry, Waiting, Kinds, Verdicts
<1>18. ASSUME NEW c \in Callers, Answer(c) PROVE TypeOK'
  <2>1. held[c] \in Entry
    BY <1>18, CapacityAssumption DEF Answer, TasksHoldEntries, Holding, Waiting, TypeOK, Entry
  <2>2. outcome[held[c]] \in Verdicts
    BY <1>18, <2>1 DEF Answer, TypeOK
  <2>3. told' \in [Entry -> SUBSET Verdicts] /\ consumers' \in [Entry -> Nat]
    BY <1>18, <2>1, <2>2 DEF Answer, TypeOK
  <2>4. consumed' \in [Entry -> BOOLEAN]
    BY <1>18, <2>1 DEF Answer, TypeOK
  <2>5. QED
    BY <1>18, <2>3, <2>4 DEF Answer, TypeOK, entryVars
<1>19. ASSUME NEW c \in Callers, ReadUndecided(c) PROVE TypeOK'
  BY <1>19, CapacityAssumption DEF ReadUndecided, TypeOK, entryVars, verdictVars,
     taskVars, None, Entry, Waiting, Kinds, Verdicts
<1>20. ASSUME NEW c \in Callers, FindExpired(c) PROVE TypeOK'
  <2>1. held[c] \in Entry
    BY <1>20, CapacityAssumption DEF FindExpired, TasksHoldEntries, Holding, Waiting, TypeOK, Entry
  <2>2. /\ inner' \in [AuthIds -> Entry \cup {None}]
        /\ dropping' \subseteq Entry
    BY <1>20, <2>1, ExpireIfCurrentType DEF FindExpired
  <2>3. QED
    BY <1>20, <2>2 DEF FindExpired, TypeOK, entryVars, verdictVars, Waiting
<1>21. ASSUME NEW c \in Callers, Park(c) PROVE TypeOK'
  BY <1>21, CapacityAssumption DEF Park, TypeOK, entryVars, verdictVars, taskVars,
     None, Entry, Waiting, Kinds, Verdicts
<1>22. ASSUME NEW c \in Callers, Wake(c) PROVE TypeOK'
  BY <1>22, CapacityAssumption DEF Wake, TypeOK, entryVars, verdictVars, taskVars,
     None, Entry, Waiting, Kinds, Verdicts
<1>23. ASSUME NEW c \in Callers, WaitTimeout(c) PROVE TypeOK'
  <2>1. held[c] \in Entry
    BY <1>23, CapacityAssumption DEF WaitTimeout, TasksHoldEntries, Holding, Waiting, TypeOK, Entry
  <2>2. /\ inner' \in [AuthIds -> Entry \cup {None}]
        /\ dropping' \subseteq Entry
    BY <1>23, <2>1, ExpireIfCurrentType DEF WaitTimeout
  <2>3. QED
    BY <1>23, <2>2 DEF WaitTimeout, TypeOK, entryVars, verdictVars, Waiting
<1>24. ASSUME NEW c \in Callers, CancelWait(c) PROVE TypeOK'
  BY <1>24, CapacityAssumption DEF CancelWait, TypeOK, entryVars, verdictVars,
     taskVars, None, Entry, Waiting, Kinds, Verdicts
<1>25. QED
  BY <1>1, <1>2, <1>3, <1>4, <1>5, <1>6, <1>7, <1>8, <1>9, <1>10, <1>11, <1>12,
     <1>13, <1>14, <1>15, <1>16, <1>17, <1>18, <1>19, <1>20, <1>21, <1>22, <1>23,
     <1>24 DEF Next, Call, WaitStep

\* Every step keeps the map naming created entries under their own id.
LEMMA MapStep == TypeOK /\ MapNamesItsEntries /\ [Next]_vars => MapNamesItsEntries'
<1> SUFFICES ASSUME TypeOK, MapNamesItsEntries, [Next]_vars
             PROVE  MapNamesItsEntries'
  OBVIOUS
<1>1. CASE UNCHANGED vars
  BY <1>1, CapacityAssumption DEF vars, MapNamesItsEntries, TypeOK, Entry, None,
     entryVars, verdictVars, taskVars
<1>2. CASE DeadlinePasses
  BY <1>2, CapacityAssumption DEF DeadlinePasses, MapNamesItsEntries, TypeOK, Entry,
     None, entryVars, verdictVars, taskVars
<1>3. ASSUME NEW e \in Entry, ExpireDropped(e) PROVE MapNamesItsEntries'
  BY <1>3, CapacityAssumption DEF ExpireDropped, SetVerdict, Decided, Notify,
     MapNamesItsEntries, TypeOK, Entry, None, entryVars, verdictVars, taskVars
<1>4. ASSUME NEW c \in Callers, PruneExpired(c) PROVE MapNamesItsEntries'
  BY <1>4, CapacityAssumption DEF PruneExpired, Cached, Without, Expired,
     MapNamesItsEntries, TypeOK, Entry, None, entryVars, verdictVars, taskVars
<1>5. ASSUME NEW c \in Callers, NEW id \in AuthIds, NEW k \in Kinds, NEW s \in
            Sources \cup {NoSource}, InsertEntry(c, id, k, s) PROVE
            MapNamesItsEntries'
  <2> DEFINE new == made + 1
             with == [inner EXCEPT ![id] = new]
             gone == Evictions(Cached(with), [source EXCEPT ![new] = s], s, new)
  <2>1. /\ made' = new
        /\ authId' = [authId EXCEPT ![new] = id]
        /\ inner' = Without(with, gone)
        /\ new \in Entry
    BY <1>5, CapacityAssumption DEF InsertEntry, TypeOK, Entry
  <2> HIDE DEF gone
  <2>2. ASSUME NEW i \in AuthIds, inner'[i] # None
        PROVE  inner'[i] \in 1 .. made' /\ authId'[inner'[i]] = i
    <3>1. inner'[i] = with[i]
      BY <2>1, <2>2 DEF Without
    <3>2. CASE i = id
      BY <2>1, <3>1, <3>2 DEF TypeOK, Entry
    <3>3. CASE i # id
      <4>1. inner'[i] = inner[i]
        BY <3>1, <3>3 DEF TypeOK
      <4>2. inner[i] \in 1 .. made /\ authId[inner[i]] = i
        BY <2>2, <4>1 DEF MapNamesItsEntries
      <4>3. QED
        BY <2>1, <4>1, <4>2, CapacityAssumption DEF TypeOK, Entry
    <3>4. QED
      BY <3>2, <3>3
  <2>3. \A e \in 1 .. made' : authId'[e] \in AuthIds
    BY <2>1, CapacityAssumption DEF MapNamesItsEntries, TypeOK, Entry
  <2>4. QED
    BY <2>2, <2>3 DEF MapNamesItsEntries
<1>6. ASSUME NEW c \in Callers, NEW id \in AuthIds, StartApprove(c, id) PROVE
            MapNamesItsEntries'
  BY <1>6, CapacityAssumption DEF StartApprove, GetEntry, Touch, Cached,
     MapNamesItsEntries, TypeOK, Entry, None, entryVars, verdictVars, taskVars
<1>7. ASSUME NEW c \in Callers, NEW id \in AuthIds, StartReject(c, id) PROVE
            MapNamesItsEntries'
  BY <1>7, CapacityAssumption DEF StartReject, GetEntry, Touch, Cached,
     MapNamesItsEntries, TypeOK, Entry, None, entryVars, verdictVars, taskVars
<1>8. ASSUME NEW c \in Callers, NEW id \in AuthIds, Admit(c, id) PROVE
            MapNamesItsEntries'
  BY <1>8, CapacityAssumption DEF Admit, GetEntry, Touch, Cached,
     MapNamesItsEntries, TypeOK, Entry, None, entryVars, verdictVars, taskVars
<1>9. ASSUME NEW c \in Callers, NEW id \in AuthIds, Remove(c, id) PROVE
            MapNamesItsEntries'
  BY <1>9, CapacityAssumption DEF Remove, MapNamesItsEntries, TypeOK, Entry, None,
     entryVars, verdictVars, taskVars
<1>10. ASSUME NEW c \in Callers, NEW id \in AuthIds, CompleteRemove(c, id) PROVE
            MapNamesItsEntries'
  BY <1>10, CapacityAssumption DEF CompleteRemove, MapNamesItsEntries, TypeOK,
     Entry, None, entryVars, verdictVars, taskVars
<1>11. ASSUME NEW c \in Callers, NEW id \in AuthIds, NEW consume \in BOOLEAN,
            StartWait(c, id, consume) PROVE MapNamesItsEntries'
  BY <1>11, CapacityAssumption DEF StartWait, GetEntry, Touch, Cached,
     MapNamesItsEntries, TypeOK, Entry, None, entryVars, verdictVars, taskVars
<1>12. ASSUME NEW c \in Callers, Decide(c) PROVE MapNamesItsEntries'
  BY <1>12, CapacityAssumption DEF Decide, SetVerdict, Decided, Notify,
     MapNamesItsEntries, TypeOK, Entry, None, entryVars, verdictVars, taskVars
<1>13. ASSUME NEW c \in Callers, FinishRegistration(c) PROVE MapNamesItsEntries'
  BY <1>13, CapacityAssumption DEF FinishRegistration, SetVerdict, Decided, Notify,
     MapNamesItsEntries, TypeOK, Entry, None, entryVars, verdictVars, taskVars
<1>14. ASSUME NEW c \in Callers, SettleRegistration(c) PROVE MapNamesItsEntries'
  BY <1>14, CapacityAssumption DEF SettleRegistration, ExpireIfCurrent, Without,
     MapNamesItsEntries, TypeOK, Entry, None, entryVars, verdictVars, taskVars
<1>15. ASSUME NEW c \in Callers, Abandon(c) PROVE MapNamesItsEntries'
  BY <1>15, CapacityAssumption DEF Abandon, MapNamesItsEntries, TypeOK, Entry, None,
     entryVars, verdictVars, taskVars
<1>16. ASSUME NEW c \in Callers, Complete(c) PROVE MapNamesItsEntries'
  BY <1>16, CapacityAssumption DEF Complete, SetVerdict, Decided, Notify,
     MapNamesItsEntries, TypeOK, Entry, None, entryVars, verdictVars, taskVars
<1>17. ASSUME NEW c \in Callers, Arm(c) PROVE MapNamesItsEntries'
  BY <1>17, CapacityAssumption DEF Arm, MapNamesItsEntries, TypeOK, Entry, None,
     entryVars, verdictVars, taskVars
<1>18. ASSUME NEW c \in Callers, Answer(c) PROVE MapNamesItsEntries'
  BY <1>18, CapacityAssumption DEF Answer, Grants, MapNamesItsEntries, TypeOK,
     Entry, None, entryVars, verdictVars, taskVars
<1>19. ASSUME NEW c \in Callers, ReadUndecided(c) PROVE MapNamesItsEntries'
  BY <1>19, CapacityAssumption DEF ReadUndecided, MapNamesItsEntries, TypeOK, Entry,
     None, entryVars, verdictVars, taskVars
<1>20. ASSUME NEW c \in Callers, FindExpired(c) PROVE MapNamesItsEntries'
  BY <1>20, CapacityAssumption DEF FindExpired, ExpireIfCurrent, Without,
     MapNamesItsEntries, TypeOK, Entry, None, entryVars, verdictVars, taskVars
<1>21. ASSUME NEW c \in Callers, Park(c) PROVE MapNamesItsEntries'
  BY <1>21, CapacityAssumption DEF Park, MapNamesItsEntries, TypeOK, Entry, None,
     entryVars, verdictVars, taskVars
<1>22. ASSUME NEW c \in Callers, Wake(c) PROVE MapNamesItsEntries'
  BY <1>22, CapacityAssumption DEF Wake, MapNamesItsEntries, TypeOK, Entry, None,
     entryVars, verdictVars, taskVars
<1>23. ASSUME NEW c \in Callers, WaitTimeout(c) PROVE MapNamesItsEntries'
  BY <1>23, CapacityAssumption DEF WaitTimeout, ExpireIfCurrent, Without,
     MapNamesItsEntries, TypeOK, Entry, None, entryVars, verdictVars, taskVars
<1>24. ASSUME NEW c \in Callers, CancelWait(c) PROVE MapNamesItsEntries'
  BY <1>24, CapacityAssumption DEF CancelWait, MapNamesItsEntries, TypeOK, Entry,
     None, entryVars, verdictVars, taskVars
<1>25. QED
  BY <1>1, <1>2, <1>3, <1>4, <1>5, <1>6, <1>7, <1>8, <1>9, <1>10, <1>11, <1>12,
     <1>13, <1>14, <1>15, <1>16, <1>17, <1>18, <1>19, <1>20, <1>21, <1>22, <1>23,
     <1>24 DEF Next, Call, WaitStep

\* Every step keeps tasks holding created entries.
LEMMA HoldStep == TypeOK /\ MapNamesItsEntries /\ TasksHoldEntries /\ [Next]_vars =>
    TasksHoldEntries'
<1> SUFFICES ASSUME TypeOK, MapNamesItsEntries, TasksHoldEntries, [Next]_vars
             PROVE  TasksHoldEntries'
  OBVIOUS
<1>1. CASE UNCHANGED vars
  BY <1>1, CapacityAssumption DEF vars, TasksHoldEntries, MapNamesItsEntries,
     Holding, Waiting, TypeOK, Entry, None, entryVars, verdictVars, taskVars
<1>2. CASE DeadlinePasses
  BY <1>2, CapacityAssumption DEF DeadlinePasses, TasksHoldEntries,
     MapNamesItsEntries, Holding, Waiting, TypeOK, Entry, None, entryVars,
     verdictVars, taskVars
<1>3. ASSUME NEW e \in Entry, ExpireDropped(e) PROVE TasksHoldEntries'
  BY <1>3, CapacityAssumption DEF ExpireDropped, SetVerdict, Decided, Notify,
     TasksHoldEntries, MapNamesItsEntries, Holding, Waiting, TypeOK, Entry, None,
     entryVars, verdictVars, taskVars
<1>4. ASSUME NEW c \in Callers, PruneExpired(c) PROVE TasksHoldEntries'
  BY <1>4, CapacityAssumption DEF PruneExpired, Cached, Without, Expired,
     TasksHoldEntries, MapNamesItsEntries, Holding, Waiting, TypeOK, Entry, None,
     entryVars, verdictVars, taskVars
<1>5. ASSUME NEW c \in Callers, NEW id \in AuthIds, NEW k \in Kinds, NEW s \in
            Sources \cup {NoSource}, InsertEntry(c, id, k, s) PROVE
            TasksHoldEntries'
  BY <1>5, CapacityAssumption DEF InsertEntry, Without, TasksHoldEntries,
     MapNamesItsEntries, Holding, Waiting, TypeOK, Entry, None, entryVars,
     verdictVars, taskVars
<1>6. ASSUME NEW c \in Callers, NEW id \in AuthIds, StartApprove(c, id) PROVE
            TasksHoldEntries'
  BY <1>6, CapacityAssumption DEF StartApprove, GetEntry, Touch, Cached,
     TasksHoldEntries, MapNamesItsEntries, Holding, Waiting, TypeOK, Entry, None,
     entryVars, verdictVars, taskVars
<1>7. ASSUME NEW c \in Callers, NEW id \in AuthIds, StartReject(c, id) PROVE
            TasksHoldEntries'
  BY <1>7, CapacityAssumption DEF StartReject, GetEntry, Touch, Cached,
     TasksHoldEntries, MapNamesItsEntries, Holding, Waiting, TypeOK, Entry, None,
     entryVars, verdictVars, taskVars
<1>8. ASSUME NEW c \in Callers, NEW id \in AuthIds, Admit(c, id) PROVE
            TasksHoldEntries'
  BY <1>8, CapacityAssumption DEF Admit, GetEntry, Touch, Cached, TasksHoldEntries,
     MapNamesItsEntries, Holding, Waiting, TypeOK, Entry, None, entryVars,
     verdictVars, taskVars
<1>9. ASSUME NEW c \in Callers, NEW id \in AuthIds, Remove(c, id) PROVE
            TasksHoldEntries'
  BY <1>9, CapacityAssumption DEF Remove, TasksHoldEntries, MapNamesItsEntries,
     Holding, Waiting, TypeOK, Entry, None, entryVars, verdictVars, taskVars
<1>10. ASSUME NEW c \in Callers, NEW id \in AuthIds, CompleteRemove(c, id) PROVE
            TasksHoldEntries'
  BY <1>10, CapacityAssumption DEF CompleteRemove, TasksHoldEntries,
     MapNamesItsEntries, Holding, Waiting, TypeOK, Entry, None, entryVars,
     verdictVars, taskVars
<1>11. ASSUME NEW c \in Callers, NEW id \in AuthIds, NEW consume \in BOOLEAN,
            StartWait(c, id, consume) PROVE TasksHoldEntries'
  BY <1>11, CapacityAssumption DEF StartWait, GetEntry, Touch, Cached,
     TasksHoldEntries, MapNamesItsEntries, Holding, Waiting, TypeOK, Entry, None,
     entryVars, verdictVars, taskVars
<1>12. ASSUME NEW c \in Callers, Decide(c) PROVE TasksHoldEntries'
  BY <1>12, CapacityAssumption DEF Decide, SetVerdict, Decided, Notify,
     TasksHoldEntries, MapNamesItsEntries, Holding, Waiting, TypeOK, Entry, None,
     entryVars, verdictVars, taskVars
<1>13. ASSUME NEW c \in Callers, FinishRegistration(c) PROVE TasksHoldEntries'
  BY <1>13, CapacityAssumption DEF FinishRegistration, SetVerdict, Decided, Notify,
     TasksHoldEntries, MapNamesItsEntries, Holding, Waiting, TypeOK, Entry, None,
     entryVars, verdictVars, taskVars
<1>14. ASSUME NEW c \in Callers, SettleRegistration(c) PROVE TasksHoldEntries'
  BY <1>14, CapacityAssumption DEF SettleRegistration, ExpireIfCurrent, Without,
     TasksHoldEntries, MapNamesItsEntries, Holding, Waiting, TypeOK, Entry, None,
     entryVars, verdictVars, taskVars
<1>15. ASSUME NEW c \in Callers, Abandon(c) PROVE TasksHoldEntries'
  BY <1>15, CapacityAssumption DEF Abandon, TasksHoldEntries, MapNamesItsEntries,
     Holding, Waiting, TypeOK, Entry, None, entryVars, verdictVars, taskVars
<1>16. ASSUME NEW c \in Callers, Complete(c) PROVE TasksHoldEntries'
  BY <1>16, CapacityAssumption DEF Complete, SetVerdict, Decided, Notify,
     TasksHoldEntries, MapNamesItsEntries, Holding, Waiting, TypeOK, Entry, None,
     entryVars, verdictVars, taskVars
<1>17. ASSUME NEW c \in Callers, Arm(c) PROVE TasksHoldEntries'
  BY <1>17, CapacityAssumption DEF Arm, TasksHoldEntries, MapNamesItsEntries,
     Holding, Waiting, TypeOK, Entry, None, entryVars, verdictVars, taskVars
<1>18. ASSUME NEW c \in Callers, Answer(c) PROVE TasksHoldEntries'
  BY <1>18, CapacityAssumption DEF Answer, Grants, TasksHoldEntries,
     MapNamesItsEntries, Holding, Waiting, TypeOK, Entry, None, entryVars,
     verdictVars, taskVars
<1>19. ASSUME NEW c \in Callers, ReadUndecided(c) PROVE TasksHoldEntries'
  BY <1>19, CapacityAssumption DEF ReadUndecided, TasksHoldEntries,
     MapNamesItsEntries, Holding, Waiting, TypeOK, Entry, None, entryVars,
     verdictVars, taskVars
<1>20. ASSUME NEW c \in Callers, FindExpired(c) PROVE TasksHoldEntries'
  BY <1>20, CapacityAssumption DEF FindExpired, ExpireIfCurrent, Without,
     TasksHoldEntries, MapNamesItsEntries, Holding, Waiting, TypeOK, Entry, None,
     entryVars, verdictVars, taskVars
<1>21. ASSUME NEW c \in Callers, Park(c) PROVE TasksHoldEntries'
  BY <1>21, CapacityAssumption DEF Park, TasksHoldEntries, MapNamesItsEntries,
     Holding, Waiting, TypeOK, Entry, None, entryVars, verdictVars, taskVars
<1>22. ASSUME NEW c \in Callers, Wake(c) PROVE TasksHoldEntries'
  BY <1>22, CapacityAssumption DEF Wake, TasksHoldEntries, MapNamesItsEntries,
     Holding, Waiting, TypeOK, Entry, None, entryVars, verdictVars, taskVars
<1>23. ASSUME NEW c \in Callers, WaitTimeout(c) PROVE TasksHoldEntries'
  BY <1>23, CapacityAssumption DEF WaitTimeout, ExpireIfCurrent, Without,
     TasksHoldEntries, MapNamesItsEntries, Holding, Waiting, TypeOK, Entry, None,
     entryVars, verdictVars, taskVars
<1>24. ASSUME NEW c \in Callers, CancelWait(c) PROVE TasksHoldEntries'
  BY <1>24, CapacityAssumption DEF CancelWait, TasksHoldEntries, MapNamesItsEntries,
     Holding, Waiting, TypeOK, Entry, None, entryVars, verdictVars, taskVars
<1>25. QED
  BY <1>1, <1>2, <1>3, <1>4, <1>5, <1>6, <1>7, <1>8, <1>9, <1>10, <1>11, <1>12,
     <1>13, <1>14, <1>15, <1>16, <1>17, <1>18, <1>19, <1>20, <1>21, <1>22, <1>23,
     <1>24 DEF Next, Call, WaitStep

\* Every step that takes an entry out of the map leaves somebody owing it a verdict.
LEMMA OrphanStep == TypeOK /\ MapNamesItsEntries /\ TasksHoldEntries /\ NoOrphan /\
    [Next]_vars => NoOrphan'
<1> SUFFICES ASSUME TypeOK, MapNamesItsEntries, TasksHoldEntries, NoOrphan, [Next]_vars
             PROVE  NoOrphan'
  OBVIOUS
<1>1. CASE UNCHANGED vars
  BY <1>1, CapacityAssumption DEF vars, NoOrphan, TypeOK, Entry, None, entryVars,
     verdictVars, taskVars
<1>2. CASE DeadlinePasses
  BY <1>2, CapacityAssumption DEF DeadlinePasses, NoOrphan, TypeOK, Entry, None,
     entryVars, verdictVars, taskVars
<1>3. ASSUME NEW e \in Entry, ExpireDropped(e) PROVE NoOrphan'
  BY <1>3, CapacityAssumption DEF ExpireDropped, SetVerdict, Decided, Notify,
     NoOrphan, TypeOK, Entry, None, entryVars, verdictVars, taskVars
<1>4. ASSUME NEW c \in Callers, PruneExpired(c) PROVE NoOrphan'
  <2>1. ASSUME NEW e \in 1 .. made, inner[authId[e]] = e
        PROVE  inner'[authId[e]] = e \/ e \in dropping'
    <3>1. authId[e] \in AuthIds /\ e # None
      BY DEF MapNamesItsEntries, None
    <3>2. QED
      BY <1>4, <2>1, <3>1 DEF PruneExpired, Without, Cached
  <2>2. QED
    BY <1>4, <2>1 DEF PruneExpired, NoOrphan, TypeOK, entryVars, verdictVars
<1>5. ASSUME NEW c \in Callers, NEW id \in AuthIds, NEW k \in Kinds, NEW s \in
            Sources \cup {NoSource}, InsertEntry(c, id, k, s) PROVE NoOrphan'
  <2> DEFINE new == made + 1
             with == [inner EXCEPT ![id] = new]
             gone == Evictions(Cached(with), [source EXCEPT ![new] = s], s, new)
  <2>1. /\ made' = new /\ new \in Entry
        /\ authId' = [authId EXCEPT ![new] = id]
        /\ inner' = Without(with, gone)
        /\ dropping' = dropping \cup gone \cup ({inner[id]} \ {None})
        /\ outcome' = outcome /\ held' = held
        /\ pc' = [pc EXCEPT ![c] = "idle"] /\ pc[c] = "pruned"
    BY <1>5, CapacityAssumption DEF InsertEntry, TypeOK, Entry, verdictVars
  <2>2. new \notin gone
    BY EvictionsSpareKeep
  <2> HIDE DEF gone
  <2> SUFFICES ASSUME NEW e \in 1 .. made', outcome'[e] = "none"
               PROVE  \/ inner'[authId'[e]] = e
                      \/ e \in dropping'
                      \/ \E d \in Callers : pc'[d] = "complete" /\ held'[d] = e
    BY DEF NoOrphan
  <2>3. CASE e = new
    BY <2>1, <2>2, <2>3 DEF Without, TypeOK
  <2>4. CASE e # new
    <3>1. e \in 1 .. made /\ e \in Entry /\ authId'[e] = authId[e]
      BY <2>1, <2>4, CapacityAssumption DEF TypeOK, Entry
    <3>2. CASE inner[authId[e]] = e
      <4>1. authId[e] \in AuthIds
        BY <3>1 DEF MapNamesItsEntries
      <4>2. CASE authId[e] = id
        BY <2>1, <3>1, <3>2, <4>2 DEF None
      <4>3. CASE authId[e] # id
        BY <2>1, <3>1, <3>2, <4>1, <4>3 DEF Without, TypeOK
      <4>4. QED
        BY <4>2, <4>3
    <3>3. CASE e \in dropping
      BY <2>1, <3>3
    <3>4. CASE \E d \in Callers : pc[d] = "complete" /\ held[d] = e
      BY <2>1, <3>4 DEF TypeOK
    <3>5. QED
      BY <2>1, <3>1, <3>2, <3>3, <3>4 DEF NoOrphan
  <2>5. QED
    BY <2>3, <2>4
<1>6. ASSUME NEW c \in Callers, NEW id \in AuthIds, StartApprove(c, id) PROVE
            NoOrphan'
  BY <1>6, CapacityAssumption DEF StartApprove, GetEntry, Touch, Cached, NoOrphan,
     TypeOK, Entry, None, entryVars, verdictVars, taskVars
<1>7. ASSUME NEW c \in Callers, NEW id \in AuthIds, StartReject(c, id) PROVE
            NoOrphan'
  BY <1>7, CapacityAssumption DEF StartReject, GetEntry, Touch, Cached, NoOrphan,
     TypeOK, Entry, None, entryVars, verdictVars, taskVars
<1>8. ASSUME NEW c \in Callers, NEW id \in AuthIds, Admit(c, id) PROVE NoOrphan'
  BY <1>8, CapacityAssumption DEF Admit, GetEntry, Touch, Cached, NoOrphan, TypeOK,
     Entry, None, entryVars, verdictVars, taskVars
<1>9. ASSUME NEW c \in Callers, NEW id \in AuthIds, Remove(c, id) PROVE NoOrphan'
  BY <1>9, CapacityAssumption DEF Remove, NoOrphan, TypeOK, Entry, None, entryVars,
     verdictVars, taskVars
<1>10. ASSUME NEW c \in Callers, NEW id \in AuthIds, CompleteRemove(c, id) PROVE
            NoOrphan'
  BY <1>10, CapacityAssumption DEF CompleteRemove, NoOrphan, TypeOK, Entry, None,
     entryVars, verdictVars, taskVars
<1>11. ASSUME NEW c \in Callers, NEW id \in AuthIds, NEW consume \in BOOLEAN,
            StartWait(c, id, consume) PROVE NoOrphan'
  BY <1>11, CapacityAssumption DEF StartWait, GetEntry, Touch, Cached, NoOrphan,
     TypeOK, Entry, None, entryVars, verdictVars, taskVars
<1>12. ASSUME NEW c \in Callers, Decide(c) PROVE NoOrphan'
  BY <1>12, CapacityAssumption DEF Decide, SetVerdict, Decided, Notify, NoOrphan,
     TypeOK, Entry, None, entryVars, verdictVars, taskVars
<1>13. ASSUME NEW c \in Callers, FinishRegistration(c) PROVE NoOrphan'
  BY <1>13, CapacityAssumption DEF FinishRegistration, SetVerdict, Decided, Notify,
     NoOrphan, TypeOK, Entry, None, entryVars, verdictVars, taskVars
<1>14. ASSUME NEW c \in Callers, SettleRegistration(c) PROVE NoOrphan'
  <2>1. held[c] \in 1 .. made /\ authId[held[c]] \in AuthIds
    BY <1>14 DEF SettleRegistration, TasksHoldEntries, Holding, Waiting, MapNamesItsEntries
  <2>2. ASSUME NEW e \in 1 .. made, outcome[e] = "none", inner[authId[e]] = e
        PROVE  inner'[authId[e]] = e \/ e \in dropping'
    <3>1. authId[e] \in AuthIds
      BY DEF MapNamesItsEntries
    <3>2. QED
      BY <1>14, <2>1, <2>2, <3>1 DEF SettleRegistration, ExpireIfCurrent, Without
  <2>3. QED
    BY <1>14, <2>1, <2>2 DEF SettleRegistration, ExpireIfCurrent, NoOrphan, TypeOK, entryVars, verdictVars
<1>15. ASSUME NEW c \in Callers, Abandon(c) PROVE NoOrphan'
  BY <1>15, CapacityAssumption DEF Abandon, NoOrphan, TypeOK, Entry, None,
     entryVars, verdictVars, taskVars
<1>16. ASSUME NEW c \in Callers, Complete(c) PROVE NoOrphan'
  BY <1>16, CapacityAssumption DEF Complete, SetVerdict, Decided, Notify, NoOrphan,
     TypeOK, Entry, None, entryVars, verdictVars, taskVars
<1>17. ASSUME NEW c \in Callers, Arm(c) PROVE NoOrphan'
  BY <1>17, CapacityAssumption DEF Arm, NoOrphan, TypeOK, Entry, None, entryVars,
     verdictVars, taskVars
<1>18. ASSUME NEW c \in Callers, Answer(c) PROVE NoOrphan'
  BY <1>18, CapacityAssumption DEF Answer, Grants, NoOrphan, TypeOK, Entry, None,
     entryVars, verdictVars, taskVars
<1>19. ASSUME NEW c \in Callers, ReadUndecided(c) PROVE NoOrphan'
  BY <1>19, CapacityAssumption DEF ReadUndecided, NoOrphan, TypeOK, Entry, None,
     entryVars, verdictVars, taskVars
<1>20. ASSUME NEW c \in Callers, FindExpired(c) PROVE NoOrphan'
  <2>1. held[c] \in 1 .. made /\ authId[held[c]] \in AuthIds
    BY <1>20 DEF FindExpired, TasksHoldEntries, Holding, Waiting, MapNamesItsEntries
  <2>2. ASSUME NEW e \in 1 .. made, outcome[e] = "none", inner[authId[e]] = e
        PROVE  inner'[authId[e]] = e \/ e \in dropping'
    <3>1. authId[e] \in AuthIds
      BY DEF MapNamesItsEntries
    <3>2. QED
      BY <1>20, <2>1, <2>2, <3>1 DEF FindExpired, ExpireIfCurrent, Without
  <2>3. QED
    BY <1>20, <2>1, <2>2 DEF FindExpired, ExpireIfCurrent, NoOrphan, TypeOK, entryVars, verdictVars
<1>21. ASSUME NEW c \in Callers, Park(c) PROVE NoOrphan'
  BY <1>21, CapacityAssumption DEF Park, NoOrphan, TypeOK, Entry, None, entryVars,
     verdictVars, taskVars
<1>22. ASSUME NEW c \in Callers, Wake(c) PROVE NoOrphan'
  BY <1>22, CapacityAssumption DEF Wake, NoOrphan, TypeOK, Entry, None, entryVars,
     verdictVars, taskVars
<1>23. ASSUME NEW c \in Callers, WaitTimeout(c) PROVE NoOrphan'
  <2>1. held[c] \in 1 .. made /\ authId[held[c]] \in AuthIds
    BY <1>23 DEF WaitTimeout, TasksHoldEntries, Holding, Waiting, MapNamesItsEntries
  <2>2. ASSUME NEW e \in 1 .. made, outcome[e] = "none", inner[authId[e]] = e
        PROVE  inner'[authId[e]] = e \/ e \in dropping'
    <3>1. authId[e] \in AuthIds
      BY DEF MapNamesItsEntries
    <3>2. QED
      BY <1>23, <2>1, <2>2, <3>1 DEF WaitTimeout, ExpireIfCurrent, Without
  <2>3. QED
    BY <1>23, <2>1, <2>2 DEF WaitTimeout, ExpireIfCurrent, NoOrphan, TypeOK, entryVars, verdictVars
<1>24. ASSUME NEW c \in Callers, CancelWait(c) PROVE NoOrphan'
  BY <1>24, CapacityAssumption DEF CancelWait, NoOrphan, TypeOK, Entry, None,
     entryVars, verdictVars, taskVars
<1>25. QED
  BY <1>1, <1>2, <1>3, <1>4, <1>5, <1>6, <1>7, <1>8, <1>9, <1>10, <1>11, <1>12,
     <1>13, <1>14, <1>15, <1>16, <1>17, <1>18, <1>19, <1>20, <1>21, <1>22, <1>23,
     <1>24 DEF Next, Call, WaitStep

\* Every step that decides an entry notifies the tasks that found it undecided.
LEMMA WakeupStep == TypeOK /\ MapNamesItsEntries /\ TasksHoldEntries /\ WakeupComes
    /\ [Next]_vars => WakeupComes'
<1> SUFFICES ASSUME TypeOK, MapNamesItsEntries, TasksHoldEntries, WakeupComes, [Next]_vars
             PROVE  WakeupComes'
  OBVIOUS
<1>1. CASE UNCHANGED vars
  BY <1>1, CapacityAssumption DEF vars, WakeupComes, TasksHoldEntries, Holding,
     Waiting, TypeOK, Entry, None, entryVars, verdictVars, taskVars
<1>2. CASE DeadlinePasses
  BY <1>2, CapacityAssumption DEF DeadlinePasses, WakeupComes, TasksHoldEntries,
     Holding, Waiting, TypeOK, Entry, None, entryVars, verdictVars, taskVars
<1>3. ASSUME NEW e \in Entry, ExpireDropped(e) PROVE WakeupComes'
  BY <1>3, CapacityAssumption DEF ExpireDropped, SetVerdict, Decided, Notify,
     WakeupComes, TasksHoldEntries, Holding, Waiting, TypeOK, Entry, None,
     entryVars, verdictVars, taskVars
<1>4. ASSUME NEW c \in Callers, PruneExpired(c) PROVE WakeupComes'
  BY <1>4, CapacityAssumption DEF PruneExpired, Cached, Without, Expired,
     WakeupComes, TasksHoldEntries, Holding, Waiting, TypeOK, Entry, None,
     entryVars, verdictVars, taskVars
<1>5. ASSUME NEW c \in Callers, NEW id \in AuthIds, NEW k \in Kinds, NEW s \in
            Sources \cup {NoSource}, InsertEntry(c, id, k, s) PROVE WakeupComes'
  BY <1>5, CapacityAssumption DEF InsertEntry, Without, WakeupComes,
     TasksHoldEntries, Holding, Waiting, TypeOK, Entry, None, entryVars,
     verdictVars, taskVars
<1>6. ASSUME NEW c \in Callers, NEW id \in AuthIds, StartApprove(c, id) PROVE
            WakeupComes'
  BY <1>6, CapacityAssumption DEF StartApprove, GetEntry, Touch, Cached,
     WakeupComes, TasksHoldEntries, Holding, Waiting, TypeOK, Entry, None,
     entryVars, verdictVars, taskVars
<1>7. ASSUME NEW c \in Callers, NEW id \in AuthIds, StartReject(c, id) PROVE
            WakeupComes'
  BY <1>7, CapacityAssumption DEF StartReject, GetEntry, Touch, Cached, WakeupComes,
     TasksHoldEntries, Holding, Waiting, TypeOK, Entry, None, entryVars,
     verdictVars, taskVars
<1>8. ASSUME NEW c \in Callers, NEW id \in AuthIds, Admit(c, id) PROVE WakeupComes'
  BY <1>8, CapacityAssumption DEF Admit, GetEntry, Touch, Cached, WakeupComes,
     TasksHoldEntries, Holding, Waiting, TypeOK, Entry, None, entryVars,
     verdictVars, taskVars
<1>9. ASSUME NEW c \in Callers, NEW id \in AuthIds, Remove(c, id) PROVE WakeupComes'
  BY <1>9, CapacityAssumption DEF Remove, WakeupComes, TasksHoldEntries, Holding,
     Waiting, TypeOK, Entry, None, entryVars, verdictVars, taskVars
<1>10. ASSUME NEW c \in Callers, NEW id \in AuthIds, CompleteRemove(c, id) PROVE
            WakeupComes'
  BY <1>10, CapacityAssumption DEF CompleteRemove, WakeupComes, TasksHoldEntries,
     Holding, Waiting, TypeOK, Entry, None, entryVars, verdictVars, taskVars
<1>11. ASSUME NEW c \in Callers, NEW id \in AuthIds, NEW consume \in BOOLEAN,
            StartWait(c, id, consume) PROVE WakeupComes'
  BY <1>11, CapacityAssumption DEF StartWait, GetEntry, Touch, Cached, WakeupComes,
     TasksHoldEntries, Holding, Waiting, TypeOK, Entry, None, entryVars,
     verdictVars, taskVars
<1>12. ASSUME NEW c \in Callers, Decide(c) PROVE WakeupComes'
  BY <1>12, CapacityAssumption DEF Decide, SetVerdict, Decided, Notify, WakeupComes,
     TasksHoldEntries, Holding, Waiting, TypeOK, Entry, None, entryVars,
     verdictVars, taskVars
<1>13. ASSUME NEW c \in Callers, FinishRegistration(c) PROVE WakeupComes'
  BY <1>13, CapacityAssumption DEF FinishRegistration, SetVerdict, Decided, Notify,
     WakeupComes, TasksHoldEntries, Holding, Waiting, TypeOK, Entry, None,
     entryVars, verdictVars, taskVars
<1>14. ASSUME NEW c \in Callers, SettleRegistration(c) PROVE WakeupComes'
  BY <1>14, CapacityAssumption DEF SettleRegistration, ExpireIfCurrent, Without,
     WakeupComes, TasksHoldEntries, Holding, Waiting, TypeOK, Entry, None,
     entryVars, verdictVars, taskVars
<1>15. ASSUME NEW c \in Callers, Abandon(c) PROVE WakeupComes'
  BY <1>15, CapacityAssumption DEF Abandon, WakeupComes, TasksHoldEntries, Holding,
     Waiting, TypeOK, Entry, None, entryVars, verdictVars, taskVars
<1>16. ASSUME NEW c \in Callers, Complete(c) PROVE WakeupComes'
  BY <1>16, CapacityAssumption DEF Complete, SetVerdict, Decided, Notify,
     WakeupComes, TasksHoldEntries, Holding, Waiting, TypeOK, Entry, None,
     entryVars, verdictVars, taskVars
<1>17. ASSUME NEW c \in Callers, Arm(c) PROVE WakeupComes'
  BY <1>17, CapacityAssumption DEF Arm, WakeupComes, TasksHoldEntries, Holding,
     Waiting, TypeOK, Entry, None, entryVars, verdictVars, taskVars
<1>18. ASSUME NEW c \in Callers, Answer(c) PROVE WakeupComes'
  BY <1>18, CapacityAssumption DEF Answer, Grants, WakeupComes, TasksHoldEntries,
     Holding, Waiting, TypeOK, Entry, None, entryVars, verdictVars, taskVars
<1>19. ASSUME NEW c \in Callers, ReadUndecided(c) PROVE WakeupComes'
  BY <1>19, CapacityAssumption DEF ReadUndecided, WakeupComes, TasksHoldEntries,
     Holding, Waiting, TypeOK, Entry, None, entryVars, verdictVars, taskVars
<1>20. ASSUME NEW c \in Callers, FindExpired(c) PROVE WakeupComes'
  BY <1>20, CapacityAssumption DEF FindExpired, ExpireIfCurrent, Without,
     WakeupComes, TasksHoldEntries, Holding, Waiting, TypeOK, Entry, None,
     entryVars, verdictVars, taskVars
<1>21. ASSUME NEW c \in Callers, Park(c) PROVE WakeupComes'
  BY <1>21, CapacityAssumption DEF Park, WakeupComes, TasksHoldEntries, Holding,
     Waiting, TypeOK, Entry, None, entryVars, verdictVars, taskVars
<1>22. ASSUME NEW c \in Callers, Wake(c) PROVE WakeupComes'
  BY <1>22, CapacityAssumption DEF Wake, WakeupComes, TasksHoldEntries, Holding,
     Waiting, TypeOK, Entry, None, entryVars, verdictVars, taskVars
<1>23. ASSUME NEW c \in Callers, WaitTimeout(c) PROVE WakeupComes'
  BY <1>23, CapacityAssumption DEF WaitTimeout, ExpireIfCurrent, Without,
     WakeupComes, TasksHoldEntries, Holding, Waiting, TypeOK, Entry, None,
     entryVars, verdictVars, taskVars
<1>24. ASSUME NEW c \in Callers, CancelWait(c) PROVE WakeupComes'
  BY <1>24, CapacityAssumption DEF CancelWait, WakeupComes, TasksHoldEntries,
     Holding, Waiting, TypeOK, Entry, None, entryVars, verdictVars, taskVars
<1>25. QED
  BY <1>1, <1>2, <1>3, <1>4, <1>5, <1>6, <1>7, <1>8, <1>9, <1>10, <1>11, <1>12,
     <1>13, <1>14, <1>15, <1>16, <1>17, <1>18, <1>19, <1>20, <1>21, <1>22, <1>23,
     <1>24 DEF Next, Call, WaitStep

\* Every step tells waiters the first verdict only, which no step changes.
LEMMA ToldStep == TypeOK /\ TasksHoldEntries /\ ToldTheVerdict /\ [Next]_vars =>
    ToldTheVerdict'
<1> SUFFICES ASSUME TypeOK, TasksHoldEntries, ToldTheVerdict, [Next]_vars
             PROVE  ToldTheVerdict'
  OBVIOUS
<1>1. CASE UNCHANGED vars
  BY <1>1, CapacityAssumption DEF vars, ToldTheVerdict, TasksHoldEntries, Holding,
     Waiting, TypeOK, Entry, None, entryVars, verdictVars, taskVars
<1>2. CASE DeadlinePasses
  BY <1>2, CapacityAssumption DEF DeadlinePasses, ToldTheVerdict, TasksHoldEntries,
     Holding, Waiting, TypeOK, Entry, None, entryVars, verdictVars, taskVars
<1>3. ASSUME NEW e \in Entry, ExpireDropped(e) PROVE ToldTheVerdict'
  BY <1>3, CapacityAssumption DEF ExpireDropped, SetVerdict, Decided, Notify,
     ToldTheVerdict, TasksHoldEntries, Holding, Waiting, TypeOK, Entry, None,
     entryVars, verdictVars, taskVars
<1>4. ASSUME NEW c \in Callers, PruneExpired(c) PROVE ToldTheVerdict'
  BY <1>4, CapacityAssumption DEF PruneExpired, Cached, Without, Expired,
     ToldTheVerdict, TasksHoldEntries, Holding, Waiting, TypeOK, Entry, None,
     entryVars, verdictVars, taskVars
<1>5. ASSUME NEW c \in Callers, NEW id \in AuthIds, NEW k \in Kinds, NEW s \in
            Sources \cup {NoSource}, InsertEntry(c, id, k, s) PROVE ToldTheVerdict'
  BY <1>5, CapacityAssumption DEF InsertEntry, Without, ToldTheVerdict,
     TasksHoldEntries, Holding, Waiting, TypeOK, Entry, None, entryVars,
     verdictVars, taskVars
<1>6. ASSUME NEW c \in Callers, NEW id \in AuthIds, StartApprove(c, id) PROVE
            ToldTheVerdict'
  BY <1>6, CapacityAssumption DEF StartApprove, GetEntry, Touch, Cached,
     ToldTheVerdict, TasksHoldEntries, Holding, Waiting, TypeOK, Entry, None,
     entryVars, verdictVars, taskVars
<1>7. ASSUME NEW c \in Callers, NEW id \in AuthIds, StartReject(c, id) PROVE
            ToldTheVerdict'
  BY <1>7, CapacityAssumption DEF StartReject, GetEntry, Touch, Cached,
     ToldTheVerdict, TasksHoldEntries, Holding, Waiting, TypeOK, Entry, None,
     entryVars, verdictVars, taskVars
<1>8. ASSUME NEW c \in Callers, NEW id \in AuthIds, Admit(c, id) PROVE
            ToldTheVerdict'
  BY <1>8, CapacityAssumption DEF Admit, GetEntry, Touch, Cached, ToldTheVerdict,
     TasksHoldEntries, Holding, Waiting, TypeOK, Entry, None, entryVars,
     verdictVars, taskVars
<1>9. ASSUME NEW c \in Callers, NEW id \in AuthIds, Remove(c, id) PROVE
            ToldTheVerdict'
  BY <1>9, CapacityAssumption DEF Remove, ToldTheVerdict, TasksHoldEntries, Holding,
     Waiting, TypeOK, Entry, None, entryVars, verdictVars, taskVars
<1>10. ASSUME NEW c \in Callers, NEW id \in AuthIds, CompleteRemove(c, id) PROVE
            ToldTheVerdict'
  BY <1>10, CapacityAssumption DEF CompleteRemove, ToldTheVerdict, TasksHoldEntries,
     Holding, Waiting, TypeOK, Entry, None, entryVars, verdictVars, taskVars
<1>11. ASSUME NEW c \in Callers, NEW id \in AuthIds, NEW consume \in BOOLEAN,
            StartWait(c, id, consume) PROVE ToldTheVerdict'
  BY <1>11, CapacityAssumption DEF StartWait, GetEntry, Touch, Cached,
     ToldTheVerdict, TasksHoldEntries, Holding, Waiting, TypeOK, Entry, None,
     entryVars, verdictVars, taskVars
<1>12. ASSUME NEW c \in Callers, Decide(c) PROVE ToldTheVerdict'
  BY <1>12, CapacityAssumption DEF Decide, SetVerdict, Decided, Notify,
     ToldTheVerdict, TasksHoldEntries, Holding, Waiting, TypeOK, Entry, None,
     entryVars, verdictVars, taskVars
<1>13. ASSUME NEW c \in Callers, FinishRegistration(c) PROVE ToldTheVerdict'
  BY <1>13, CapacityAssumption DEF FinishRegistration, SetVerdict, Decided, Notify,
     ToldTheVerdict, TasksHoldEntries, Holding, Waiting, TypeOK, Entry, None,
     entryVars, verdictVars, taskVars
<1>14. ASSUME NEW c \in Callers, SettleRegistration(c) PROVE ToldTheVerdict'
  BY <1>14, CapacityAssumption DEF SettleRegistration, ExpireIfCurrent, Without,
     ToldTheVerdict, TasksHoldEntries, Holding, Waiting, TypeOK, Entry, None,
     entryVars, verdictVars, taskVars
<1>15. ASSUME NEW c \in Callers, Abandon(c) PROVE ToldTheVerdict'
  BY <1>15, CapacityAssumption DEF Abandon, ToldTheVerdict, TasksHoldEntries,
     Holding, Waiting, TypeOK, Entry, None, entryVars, verdictVars, taskVars
<1>16. ASSUME NEW c \in Callers, Complete(c) PROVE ToldTheVerdict'
  BY <1>16, CapacityAssumption DEF Complete, SetVerdict, Decided, Notify,
     ToldTheVerdict, TasksHoldEntries, Holding, Waiting, TypeOK, Entry, None,
     entryVars, verdictVars, taskVars
<1>17. ASSUME NEW c \in Callers, Arm(c) PROVE ToldTheVerdict'
  BY <1>17, CapacityAssumption DEF Arm, ToldTheVerdict, TasksHoldEntries, Holding,
     Waiting, TypeOK, Entry, None, entryVars, verdictVars, taskVars
<1>18. ASSUME NEW c \in Callers, Answer(c) PROVE ToldTheVerdict'
  BY <1>18, CapacityAssumption DEF Answer, Grants, ToldTheVerdict, TasksHoldEntries,
     Holding, Waiting, TypeOK, Entry, None, entryVars, verdictVars, taskVars
<1>19. ASSUME NEW c \in Callers, ReadUndecided(c) PROVE ToldTheVerdict'
  BY <1>19, CapacityAssumption DEF ReadUndecided, ToldTheVerdict, TasksHoldEntries,
     Holding, Waiting, TypeOK, Entry, None, entryVars, verdictVars, taskVars
<1>20. ASSUME NEW c \in Callers, FindExpired(c) PROVE ToldTheVerdict'
  BY <1>20, CapacityAssumption DEF FindExpired, ExpireIfCurrent, Without,
     ToldTheVerdict, TasksHoldEntries, Holding, Waiting, TypeOK, Entry, None,
     entryVars, verdictVars, taskVars
<1>21. ASSUME NEW c \in Callers, Park(c) PROVE ToldTheVerdict'
  BY <1>21, CapacityAssumption DEF Park, ToldTheVerdict, TasksHoldEntries, Holding,
     Waiting, TypeOK, Entry, None, entryVars, verdictVars, taskVars
<1>22. ASSUME NEW c \in Callers, Wake(c) PROVE ToldTheVerdict'
  BY <1>22, CapacityAssumption DEF Wake, ToldTheVerdict, TasksHoldEntries, Holding,
     Waiting, TypeOK, Entry, None, entryVars, verdictVars, taskVars
<1>23. ASSUME NEW c \in Callers, WaitTimeout(c) PROVE ToldTheVerdict'
  BY <1>23, CapacityAssumption DEF WaitTimeout, ExpireIfCurrent, Without,
     ToldTheVerdict, TasksHoldEntries, Holding, Waiting, TypeOK, Entry, None,
     entryVars, verdictVars, taskVars
<1>24. ASSUME NEW c \in Callers, CancelWait(c) PROVE ToldTheVerdict'
  BY <1>24, CapacityAssumption DEF CancelWait, ToldTheVerdict, TasksHoldEntries,
     Holding, Waiting, TypeOK, Entry, None, entryVars, verdictVars, taskVars
<1>25. QED
  BY <1>1, <1>2, <1>3, <1>4, <1>5, <1>6, <1>7, <1>8, <1>9, <1>10, <1>11, <1>12,
     <1>13, <1>14, <1>15, <1>16, <1>17, <1>18, <1>19, <1>20, <1>21, <1>22, <1>23,
     <1>24 DEF Next, Call, WaitStep

\* Every step gives a consuming waiter the verdict only while it is unmarked.
LEMMA ConsumptionStep == TypeOK /\ TasksHoldEntries /\ ConsumptionMarked /\
    [Next]_vars => ConsumptionMarked'
<1> SUFFICES ASSUME TypeOK, TasksHoldEntries, ConsumptionMarked, [Next]_vars
             PROVE  ConsumptionMarked'
  OBVIOUS
<1>1. CASE UNCHANGED vars
  BY <1>1, CapacityAssumption DEF vars, ConsumptionMarked, TasksHoldEntries,
     Holding, Waiting, TypeOK, Entry, None, entryVars, verdictVars, taskVars
<1>2. CASE DeadlinePasses
  BY <1>2, CapacityAssumption DEF DeadlinePasses, ConsumptionMarked,
     TasksHoldEntries, Holding, Waiting, TypeOK, Entry, None, entryVars,
     verdictVars, taskVars
<1>3. ASSUME NEW e \in Entry, ExpireDropped(e) PROVE ConsumptionMarked'
  BY <1>3, CapacityAssumption DEF ExpireDropped, SetVerdict, Decided, Notify,
     ConsumptionMarked, TasksHoldEntries, Holding, Waiting, TypeOK, Entry, None,
     entryVars, verdictVars, taskVars
<1>4. ASSUME NEW c \in Callers, PruneExpired(c) PROVE ConsumptionMarked'
  BY <1>4, CapacityAssumption DEF PruneExpired, Cached, Without, Expired,
     ConsumptionMarked, TasksHoldEntries, Holding, Waiting, TypeOK, Entry, None,
     entryVars, verdictVars, taskVars
<1>5. ASSUME NEW c \in Callers, NEW id \in AuthIds, NEW k \in Kinds, NEW s \in
            Sources \cup {NoSource}, InsertEntry(c, id, k, s) PROVE
            ConsumptionMarked'
  BY <1>5, CapacityAssumption DEF InsertEntry, Without, ConsumptionMarked,
     TasksHoldEntries, Holding, Waiting, TypeOK, Entry, None, entryVars,
     verdictVars, taskVars
<1>6. ASSUME NEW c \in Callers, NEW id \in AuthIds, StartApprove(c, id) PROVE
            ConsumptionMarked'
  BY <1>6, CapacityAssumption DEF StartApprove, GetEntry, Touch, Cached,
     ConsumptionMarked, TasksHoldEntries, Holding, Waiting, TypeOK, Entry, None,
     entryVars, verdictVars, taskVars
<1>7. ASSUME NEW c \in Callers, NEW id \in AuthIds, StartReject(c, id) PROVE
            ConsumptionMarked'
  BY <1>7, CapacityAssumption DEF StartReject, GetEntry, Touch, Cached,
     ConsumptionMarked, TasksHoldEntries, Holding, Waiting, TypeOK, Entry, None,
     entryVars, verdictVars, taskVars
<1>8. ASSUME NEW c \in Callers, NEW id \in AuthIds, Admit(c, id) PROVE
            ConsumptionMarked'
  BY <1>8, CapacityAssumption DEF Admit, GetEntry, Touch, Cached, ConsumptionMarked,
     TasksHoldEntries, Holding, Waiting, TypeOK, Entry, None, entryVars,
     verdictVars, taskVars
<1>9. ASSUME NEW c \in Callers, NEW id \in AuthIds, Remove(c, id) PROVE
            ConsumptionMarked'
  BY <1>9, CapacityAssumption DEF Remove, ConsumptionMarked, TasksHoldEntries,
     Holding, Waiting, TypeOK, Entry, None, entryVars, verdictVars, taskVars
<1>10. ASSUME NEW c \in Callers, NEW id \in AuthIds, CompleteRemove(c, id) PROVE
            ConsumptionMarked'
  BY <1>10, CapacityAssumption DEF CompleteRemove, ConsumptionMarked,
     TasksHoldEntries, Holding, Waiting, TypeOK, Entry, None, entryVars,
     verdictVars, taskVars
<1>11. ASSUME NEW c \in Callers, NEW id \in AuthIds, NEW consume \in BOOLEAN,
            StartWait(c, id, consume) PROVE ConsumptionMarked'
  BY <1>11, CapacityAssumption DEF StartWait, GetEntry, Touch, Cached,
     ConsumptionMarked, TasksHoldEntries, Holding, Waiting, TypeOK, Entry, None,
     entryVars, verdictVars, taskVars
<1>12. ASSUME NEW c \in Callers, Decide(c) PROVE ConsumptionMarked'
  BY <1>12, CapacityAssumption DEF Decide, SetVerdict, Decided, Notify,
     ConsumptionMarked, TasksHoldEntries, Holding, Waiting, TypeOK, Entry, None,
     entryVars, verdictVars, taskVars
<1>13. ASSUME NEW c \in Callers, FinishRegistration(c) PROVE ConsumptionMarked'
  BY <1>13, CapacityAssumption DEF FinishRegistration, SetVerdict, Decided, Notify,
     ConsumptionMarked, TasksHoldEntries, Holding, Waiting, TypeOK, Entry, None,
     entryVars, verdictVars, taskVars
<1>14. ASSUME NEW c \in Callers, SettleRegistration(c) PROVE ConsumptionMarked'
  BY <1>14, CapacityAssumption DEF SettleRegistration, ExpireIfCurrent, Without,
     ConsumptionMarked, TasksHoldEntries, Holding, Waiting, TypeOK, Entry, None,
     entryVars, verdictVars, taskVars
<1>15. ASSUME NEW c \in Callers, Abandon(c) PROVE ConsumptionMarked'
  BY <1>15, CapacityAssumption DEF Abandon, ConsumptionMarked, TasksHoldEntries,
     Holding, Waiting, TypeOK, Entry, None, entryVars, verdictVars, taskVars
<1>16. ASSUME NEW c \in Callers, Complete(c) PROVE ConsumptionMarked'
  BY <1>16, CapacityAssumption DEF Complete, SetVerdict, Decided, Notify,
     ConsumptionMarked, TasksHoldEntries, Holding, Waiting, TypeOK, Entry, None,
     entryVars, verdictVars, taskVars
<1>17. ASSUME NEW c \in Callers, Arm(c) PROVE ConsumptionMarked'
  BY <1>17, CapacityAssumption DEF Arm, ConsumptionMarked, TasksHoldEntries,
     Holding, Waiting, TypeOK, Entry, None, entryVars, verdictVars, taskVars
<1>18. ASSUME NEW c \in Callers, Answer(c) PROVE ConsumptionMarked'
  BY <1>18, CapacityAssumption DEF Answer, Grants, ConsumptionMarked,
     TasksHoldEntries, Holding, Waiting, TypeOK, Entry, None, entryVars,
     verdictVars, taskVars
<1>19. ASSUME NEW c \in Callers, ReadUndecided(c) PROVE ConsumptionMarked'
  BY <1>19, CapacityAssumption DEF ReadUndecided, ConsumptionMarked,
     TasksHoldEntries, Holding, Waiting, TypeOK, Entry, None, entryVars,
     verdictVars, taskVars
<1>20. ASSUME NEW c \in Callers, FindExpired(c) PROVE ConsumptionMarked'
  BY <1>20, CapacityAssumption DEF FindExpired, ExpireIfCurrent, Without,
     ConsumptionMarked, TasksHoldEntries, Holding, Waiting, TypeOK, Entry, None,
     entryVars, verdictVars, taskVars
<1>21. ASSUME NEW c \in Callers, Park(c) PROVE ConsumptionMarked'
  BY <1>21, CapacityAssumption DEF Park, ConsumptionMarked, TasksHoldEntries,
     Holding, Waiting, TypeOK, Entry, None, entryVars, verdictVars, taskVars
<1>22. ASSUME NEW c \in Callers, Wake(c) PROVE ConsumptionMarked'
  BY <1>22, CapacityAssumption DEF Wake, ConsumptionMarked, TasksHoldEntries,
     Holding, Waiting, TypeOK, Entry, None, entryVars, verdictVars, taskVars
<1>23. ASSUME NEW c \in Callers, WaitTimeout(c) PROVE ConsumptionMarked'
  BY <1>23, CapacityAssumption DEF WaitTimeout, ExpireIfCurrent, Without,
     ConsumptionMarked, TasksHoldEntries, Holding, Waiting, TypeOK, Entry, None,
     entryVars, verdictVars, taskVars
<1>24. ASSUME NEW c \in Callers, CancelWait(c) PROVE ConsumptionMarked'
  BY <1>24, CapacityAssumption DEF CancelWait, ConsumptionMarked, TasksHoldEntries,
     Holding, Waiting, TypeOK, Entry, None, entryVars, verdictVars, taskVars
<1>25. QED
  BY <1>1, <1>2, <1>3, <1>4, <1>5, <1>6, <1>7, <1>8, <1>9, <1>10, <1>11, <1>12,
     <1>13, <1>14, <1>15, <1>16, <1>17, <1>18, <1>19, <1>20, <1>21, <1>22, <1>23,
     <1>24 DEF Next, Call, WaitStep

-----------------------------------------------------------------------------
\* The initial state satisfies the inductive invariant.
LEMMA InvInit == Init => Inv
<1> SUFFICES ASSUME Init PROVE Inv
  OBVIOUS
<1>1. TypeOK
  BY TypeInit
<1>2. MapNamesItsEntries /\ TasksHoldEntries /\ NoOrphan
  BY DEF Init, MapNamesItsEntries, TasksHoldEntries, NoOrphan, Holding, Waiting, None
<1>3. WakeupComes /\ ToldTheVerdict /\ ConsumptionMarked
  BY DEF Init, WakeupComes, ToldTheVerdict, ConsumptionMarked
<1>4. QED
  BY <1>1, <1>2, <1>3 DEF Inv

\* Inv is an invariant: every reachable state of the cache satisfies it.
THEOREM Invariance == Spec => []Inv
<1>1. Inv /\ [Next]_vars => Inv'
  BY TypeStep, MapStep, HoldStep, OrphanStep, WakeupStep, ToldStep, ConsumptionStep DEF Inv
<1>2. QED
  BY InvInit, <1>1, PTL DEF Spec

\* Types: every variable of the cache keeps its type.
THEOREM TypeCorrect == Spec => []TypeOK
<1>1. Inv => TypeOK
  BY DEF Inv
<1>2. QED
  BY Invariance, <1>1, PTL

\* No entry is orphaned: whichever of the six removal paths takes an
\* undecided entry out of the map, the task that did it still owes it
\* expire() or complete(), so no waiter is left on an undecidable entry.
THEOREM NoEntryOrphaned == Spec => []NoOrphan
<1>1. Inv => NoOrphan
  BY DEF Inv
<1>2. QED
  BY Invariance, <1>1, PTL

\* No wake-up is lost: a task parked in wait_for_registration or
\* wait_for_auth_inner on a decided entry has its notification.
THEOREM NoWakeupLost == Spec => []NoLostWakeup
<1>1. Inv => NoLostWakeup
  BY DEF Inv, WakeupComes, NoLostWakeup
<1>2. QED
  BY Invariance, <1>1, PTL

\* All waiters of an entry are told one and the same verdict.
THEOREM VerdictsAgree == Spec => []OneVerdictPerEntry
<1>1. Inv => OneVerdictPerEntry
  <2> SUFFICES ASSUME Inv, NEW e \in Entry PROVE Cardinality(told[e]) <= 1
    BY DEF OneVerdictPerEntry
  <2>1. told[e] \subseteq {outcome[e]}
    BY DEF Inv, ToldTheVerdict
  <2>2. IsFiniteSet({outcome[e]}) /\ Cardinality({outcome[e]}) = 1
    BY FS_Singleton
  <2>3. QED
    BY <2>1, <2>2, FS_Subset
<1>2. QED
  BY Invariance, <1>1, PTL

\* At most one SSH follow-up request is given an entry's verdict.
THEOREM SshVerdictOnce == Spec => []SshVerdictConsumedOnce
<1>1. Inv => SshVerdictConsumedOnce
  BY DEF Inv, ConsumptionMarked, SshVerdictConsumedOnce
<1>2. QED
  BY Invariance, <1>1, PTL

-----------------------------------------------------------------------------
\* Evictions.  The quota and the capacity are kept by throwing out the least
\* recently used entries, so they rest on last_used being an order of the
\* entries in the map, and on the map never being more than one too large.

\* R orders the members of S, each before or after every other.
Ordered(R, S) ==
    \A x, y \in S :
       /\ <<x, y>> \in R => <<y, x>> \notin R
       /\ x # y => <<x, y>> \in R \/ <<y, x>> \in R
       /\ \A z \in S : <<x, y>> \in R /\ <<y, z>> \in R => <<x, z>> \in R

\* last_used orders the entries of the map: access stamps are unique.
UseOrdered ==
    /\ usedBefore \subseteq (1 .. made) \X (1 .. made)
    /\ Ordered(usedBefore, Cached(inner))

\* The map never holds more than max_entries between two inserts.
WithinCapacity == Cardinality(Cached(inner)) <= MaxEntries

-----------------------------------------------------------------------------
\* A measure has a least value.
LEMMA LeastMeasure ==
    ASSUME NEW T, T # {}, NEW f \in [T -> Nat]
    PROVE  \E x \in T : \A y \in T : f[x] <= f[y]
<1> DEFINE V == {f[x] : x \in T}
<1>1. V # {} /\ V \subseteq Nat
  OBVIOUS
<1>2. PICK v \in V : \A w \in V : ~(<<w, v>> \in OpToRel(<, Nat))
  BY <1>1, NatLessThanWellFounded, WFMin, Zenon
<1>3. \A w \in V : ~(w < v)
  BY <1>1, <1>2, Zenon DEF OpToRel
<1>4. PICK x \in T : f[x] = v
  OBVIOUS
<1>5. \A y \in T : f[y] \in V /\ f[y] \in Nat
  OBVIOUS
<1>6. \A y \in T : f[x] <= f[y]
  BY <1>3, <1>4, <1>5
<1> QED
  BY <1>6

\* A later member of a finite ordered set has more before it.
LEMMA RankGrows ==
    ASSUME NEW R, NEW S, IsFiniteSet(S), Ordered(R, S),
           NEW x \in S, NEW y \in S, <<x, y>> \in R
    PROVE  Cardinality({z \in S : <<z, x>> \in R}) < Cardinality({z \in S : <<z, y>> \in R})
<1> DEFINE A == {z \in S : <<z, x>> \in R}
           B == {z \in S : <<z, y>> \in R}
<1>1. A \subseteq B
  BY DEF Ordered
<1>2. x \in B /\ x \notin A
  BY DEF Ordered
<1>3. IsFiniteSet(B) /\ Cardinality(B) \in Nat
  BY FS_Subset, FS_CardinalityType
<1>4. Cardinality(A) <= Cardinality(B) /\ (Cardinality(B) = Cardinality(A) => B = A)
      /\ IsFiniteSet(A)
  BY <1>1, <1>3, FS_Subset, Zenon
<1>5. Cardinality(A) \in Nat
  BY <1>4, FS_CardinalityType
<1> QED
  BY <1>2, <1>3, <1>4, <1>5

\* min_by_key(last_used) finds an entry among any.
LEMMA OldestExists ==
    ASSUME NEW S, IsFiniteSet(S), S # {}, Ordered(usedBefore, S)
    PROVE  Oldest(S) # {}
<1> DEFINE rank == [x \in S |-> Cardinality({z \in S : <<z, x>> \in usedBefore})]
<1>1. ASSUME NEW x \in S PROVE Cardinality({z \in S : <<z, x>> \in usedBefore}) \in Nat
  BY FS_Subset, FS_CardinalityType
<1>2. rank \in [S -> Nat]
  BY <1>1
<1> HIDE DEF rank
<1>3. PICK x \in S : \A y \in S : rank[x] <= rank[y]
  BY <1>2, LeastMeasure, Zenon
<1>4. ASSUME NEW y \in S, <<y, x>> \in usedBefore PROVE FALSE
  <2>1. rank[y] < rank[x]
    BY <1>4, RankGrows DEF rank
  <2>2. QED
    BY <1>2, <1>3, <2>1
<1> QED
  BY <1>4 DEF Oldest

\* Of n entries in order of use, at most n - k have k or more before them.
LEMMA FewAreRecent ==
    ASSUME NEW R, NEW S, IsFiniteSet(S), Ordered(R, S), NEW k \in Nat
    PROVE  LET recent == {x \in S : ~(Cardinality({z \in S : <<z, x>> \in R}) < k)}
           IN  /\ IsFiniteSet(recent)
               /\ Cardinality(recent) <= IF k > Cardinality(S) THEN 0 ELSE Cardinality(S) - k
<1> DEFINE Rank(x) == Cardinality({z \in S : <<z, x>> \in R})
           recent == {x \in S : ~(Rank(x) < k)}
           n == Cardinality(S)
           rank == [x \in recent |-> Rank(x)]
<1>1. n \in Nat /\ IsFiniteSet(recent)
  BY FS_CardinalityType, FS_Subset
<1>2. ASSUME NEW x \in S PROVE Rank(x) \in Nat /\ Rank(x) < n
  <2>1. {z \in S : <<z, x>> \in R} # S
    BY DEF Ordered
  <2>2. {z \in S : <<z, x>> \in R} \in SUBSET S
    OBVIOUS
  <2>3. Rank(x) <= n /\ Rank(x) # n /\ Rank(x) \in Nat
    BY <2>1, <2>2, FS_Subset, FS_CardinalityType
  <2>4. QED
    BY <2>3, <1>1
<1>3. ASSUME NEW x \in S, NEW y \in S, Rank(x) = Rank(y) PROVE x = y
  <2>1. CASE <<x, y>> \in R
    <3>1. Rank(x) < Rank(y)
      BY <2>1, RankGrows
    <3>2. QED
      BY <1>2, <1>3, <3>1
  <2>2. CASE <<y, x>> \in R
    <3>1. Rank(y) < Rank(x)
      BY <2>2, RankGrows
    <3>2. QED
      BY <1>2, <1>3, <3>1
  <2>3. QED
    BY <2>1, <2>2 DEF Ordered
<1> HIDE DEF Rank, n
<1>4. rank \in Injection(recent, k .. n - 1)
  <2>1. rank \in [recent -> k .. n - 1]
    BY <1>1, <1>2
  <2>2. QED
    BY <2>1, <1>3 DEF Injection, IsInjective
<1> HIDE DEF rank
<1>5. IsFiniteSet(k .. n - 1) /\ Cardinality(k .. n - 1) = IF k > n - 1 THEN 0 ELSE n - 1 - k + 1
  BY <1>1, FS_Interval
<1>6. Cardinality(recent) <= Cardinality(k .. n - 1)
  BY <1>4, <1>5, FS_Injection
<1>7. Cardinality(recent) \in Nat
  BY <1>1, FS_CardinalityType
<1> HIDE DEF recent
<1>8. Cardinality(recent) <= IF k > n THEN 0 ELSE n - k
  BY <1>1, <1>5, <1>6, <1>7
<1> QED
  BY <1>1, <1>8 DEF recent, Rank, n

\* What is ordered stays so in every part.
LEMMA OrderedPart ==
    ASSUME NEW R, NEW S, Ordered(R, S), NEW T, T \subseteq S
    PROVE  Ordered(R, T)
  BY DEF Ordered

\* eviction_victim finds an entry while there is one besides keep.
LEMMA VictimExists ==
    ASSUME NEW S, IsFiniteSet(S), NEW src, NEW keep, S \ {keep} # {},
           Ordered(usedBefore, S \ {keep})
    PROVE  EvictionVictim(S, src, keep) # {}
<1> DEFINE candidates == S \ {keep}
           settled == {x \in candidates : ~Pending(x)}
           Held(x) == Cardinality({y \in S : src[y] = src[x]})
           crowded == {x \in candidates : src[x] # NoSource /\ Held(x) > 1}
           heaviest == {x \in crowded : \A y \in crowded : Held(y) <= Held(x)}
           pool == IF settled # {} THEN settled
                   ELSE IF crowded # {} THEN heaviest
                   ELSE candidates
<1>1. ASSUME crowded # {} PROVE heaviest # {}
  <2> DEFINE n == Cardinality(S)
             room == [x \in crowded |-> n - Held(x)]
  <2>1. n \in Nat
    BY FS_CardinalityType
  <2>2. ASSUME NEW x \in crowded PROVE Held(x) \in Nat /\ Held(x) <= n
    BY FS_Subset, FS_CardinalityType
  <2> HIDE DEF n, Held, crowded
  <2>3. room \in [crowded -> Nat]
    BY <2>1, <2>2
  <2>4. PICK x \in crowded : \A y \in crowded : room[x] <= room[y]
    BY <1>1, <2>3, LeastMeasure, Zenon
  <2>5. ASSUME NEW y \in crowded PROVE Held(y) <= Held(x)
    <3>1. n - Held(x) <= n - Held(y)
      BY <2>4
    <3>2. QED
      BY <2>1, <2>2, <3>1
  <2>6. QED
    BY <2>5
<1>2. pool # {}
  BY <1>1
<1>3. pool \in SUBSET candidates
  OBVIOUS
<1>4. IsFiniteSet(pool) /\ Ordered(usedBefore, pool)
  <2>1. IsFiniteSet(candidates)
    BY FS_Subset
  <2>2. IsFiniteSet(pool)
    BY <1>3, <2>1, FS_Subset, Zenon
  <2> HIDE DEF pool
  <2>3. pool \subseteq candidates
    BY <1>3
  <2>4. Ordered(usedBefore, pool)
    BY <2>3, OrderedPart, Zenon
  <2>5. QED
    BY <2>2, <2>4
<1>5. Oldest(pool) # {}
  BY <1>2, <1>4, OldestExists, Zenon
<1>6. EvictionVictim(S, src, keep) = Oldest(pool)
  BY DEF EvictionVictim
<1> QED
  BY <1>5, <1>6

\* Whatever the insert finds, at most max_entries entries stay.
LEMMA EvictionsMakeRoom ==
    ASSUME NEW S, IsFiniteSet(S), Cardinality(S) <= MaxEntries + 1,
           NEW src, NEW s, NEW keep, Ordered(usedBefore, S \ {keep})
    PROVE  Cardinality(S \ Evictions(S, src, s, keep)) <= MaxEntries
<1> DEFINE gone == Evictions(S, src, s, keep)
<1>0. MaxEntries \in Nat \ {0}
  BY CapacityAssumption
<1>1. gone \subseteq S /\ IsFiniteSet(gone) /\ IsFiniteSet(S \ gone)
  BY EvictionsSpareKeep, FS_Subset, Zenon
<1>2. Cardinality(S) \in Nat /\ Cardinality(S \ gone) \in Nat
  BY <1>1, FS_CardinalityType
<1>3. CASE gone = {}
  <2> DEFINE over == IF s # NoSource /\ OtherPartyPending(S, src, s)
                     THEN OverSourceQuota(S, src, s, keep) ELSE {}
  <2>1. gone = IF OverCapacity(S \ over)
               THEN over \cup EvictionVictim(S \ over, src, keep) ELSE over
    BY DEF Evictions
  <2> HIDE DEF over
  <2>2. over = {} /\ S \ over = S
    BY <1>3, <2>1
  <2>3. CASE OverCapacity(S)
    <3>1. EvictionVictim(S, src, keep) = {}
      BY <1>3, <2>1, <2>2, <2>3
    <3>2. S \ {keep} = {}
      BY <3>1, VictimExists
    <3>3. S \in SUBSET {keep}
      BY <3>2
    <3>4. Cardinality(S) <= 1
      <4>1. IsFiniteSet({keep}) /\ Cardinality({keep}) = 1
        BY FS_Singleton
      <4>2. Cardinality(S) <= Cardinality({keep})
        BY <3>3, <4>1, FS_Subset, Zenon
      <4>3. QED
        BY <4>1, <4>2
    <3>5. QED
      BY <1>0, <1>2, <2>3, <3>4 DEF OverCapacity
  <2>4. CASE ~OverCapacity(S)
    BY <1>0, <1>2, <1>3, <2>4 DEF OverCapacity
  <2>5. QED
    BY <2>3, <2>4
<1>4. CASE gone # {}
  <2>1. PICK x \in gone : TRUE
    BY <1>4
  <2> HIDE DEF gone
  <2>2. S \ gone \in SUBSET (S \ {x})
    BY <2>1
  <2>3. IsFiniteSet(S \ {x}) /\ Cardinality(S \ {x}) = Cardinality(S) - 1
    BY <1>1, <2>1, FS_RemoveElement
  <2>4. Cardinality(S \ gone) <= Cardinality(S) - 1
    BY <2>2, <2>3, FS_Subset
  <2>5. QED
    BY <1>0, <1>2, <2>4 DEF gone
<1> QED
  BY <1>3, <1>4

\* evict_over_source_quota leaves the source with its quota.
LEMMA QuotaMet ==
    ASSUME NEW S, IsFiniteSet(S), NEW src, NEW s, NEW keep,
           Ordered(usedBefore, S \ {keep})
    PROVE  Cardinality({x \in S : src[x] = s /\ Pending(x)}
                           \ OverSourceQuota(S, src, s, keep)) <= Quota
<1> DEFINE mine == {x \in S : src[x] = s /\ Pending(x)}
           rivals == mine \ {keep}
           Older(x) == {y \in rivals : <<y, x>> \in usedBefore}
           over == OverSourceQuota(S, src, s, keep)
           k == Cardinality(mine) - Quota
           left == mine \ over
<1>0. Quota \in Nat \ {0}
  BY CapacityAssumption
<1>1. /\ IsFiniteSet(mine) /\ Cardinality(mine) \in Nat
      /\ IsFiniteSet(rivals) /\ Cardinality(rivals) \in Nat
      /\ IsFiniteSet(left) /\ Cardinality(left) \in Nat
  BY FS_Subset, FS_CardinalityType
<1>2. over = {x \in rivals : Cardinality(Older(x)) < k}
  BY DEF OverSourceQuota
<1>3. Ordered(usedBefore, rivals)
  <2>1. rivals \subseteq S \ {keep}
    OBVIOUS
  <2>2. QED
    BY <2>1, OrderedPart, Zenon
<1>4. Cardinality(left) <= Cardinality(mine)
  BY <1>1, FS_Subset
<1>5. CASE k \in Nat
  <2> DEFINE recent == {x \in rivals : ~(Cardinality(Older(x)) < k)}
  <2>1. /\ IsFiniteSet(recent)
        /\ Cardinality(recent) <= IF k > Cardinality(rivals) THEN 0 ELSE Cardinality(rivals) - k
    BY <1>1, <1>3, <1>5, FewAreRecent
  <2>2. Cardinality(recent) \in Nat
    BY <2>1, FS_CardinalityType
  <2>3. CASE keep \in mine
    <3>1. Cardinality(rivals) = Cardinality(mine) - 1
      BY <1>1, <2>3, FS_RemoveElement
    <3>2. left \in SUBSET (recent \cup {keep})
      BY <1>2
    <3>3. /\ IsFiniteSet(recent \cup {keep})
          /\ Cardinality(recent \cup {keep}) <= Cardinality(recent) + 1
      <4>1. keep \notin recent
        OBVIOUS
      <4> HIDE DEF recent
      <4>2. /\ IsFiniteSet(recent \cup {keep})
            /\ Cardinality(recent \cup {keep}) = Cardinality(recent) + 1
        BY <2>1, <4>1, FS_AddElement
      <4>3. QED
        BY <2>2, <4>2
    <3>4. /\ Cardinality(left) <= Cardinality(recent \cup {keep})
          /\ Cardinality(recent \cup {keep}) \in Nat
      BY <3>2, <3>3, FS_Subset, FS_CardinalityType
    <3>5. QED
      <4> HIDE DEF left, recent, rivals, mine
      <4>1. Cardinality(left) <= Quota
        BY <1>0, <1>1, <1>5, <2>1, <2>2, <3>1, <3>3, <3>4
      <4>2. QED
        BY <4>1 DEF left, mine, over
  <2>4. CASE keep \notin mine
    <3>1. rivals = mine
      BY <2>4
    <3>2. left \in SUBSET recent
      BY <1>2, <2>4
    <3>3. Cardinality(left) <= Cardinality(recent)
      BY <2>1, <3>2, FS_Subset
    <3>4. QED
      <4>1. Cardinality(recent) <= IF k > Cardinality(mine) THEN 0 ELSE Cardinality(mine) - k
        BY <2>1, <3>1
      <4> HIDE DEF left, recent, rivals, mine
      <4>2. Cardinality(left) <= Quota
        BY <1>0, <1>1, <1>5, <2>2, <3>3, <4>1
      <4>3. QED
        BY <4>2 DEF left, mine, over
  <2>5. QED
    BY <2>3, <2>4
<1>6. CASE k \notin Nat
  BY <1>0, <1>1, <1>4, <1>6
<1> QED
  BY <1>5, <1>6

\* Entries named by the map without some of them.
LEMMA CachedWithout ==
    ASSUME NEW m \in [AuthIds -> Entry \cup {None}], NEW gone, None \notin gone
    PROVE  Cached(Without(m, gone)) = Cached(m) \ gone
  BY DEF Cached, Without

\* expire_if_current only takes from the map.
LEMMA ExpireIfCurrentTakes ==
    ASSUME TypeOK, NEW e, ExpireIfCurrent(e)
    PROVE  Cached(inner') \subseteq Cached(inner)
  BY DEF ExpireIfCurrent, Cached, Without, TypeOK

\* A look-up touches a cached entry, or finds none.
LEMMA GetEntryTouches ==
    ASSUME NEW c \in Callers, NEW id \in AuthIds, NEW label, GetEntry(c, id, label)
    PROVE  /\ made' = made /\ inner' = inner
           /\ usedBefore' = usedBefore \/ \E e \in Cached(inner) : usedBefore' = Touch(e)
<1>1. CASE inner[id] = None
  BY <1>1 DEF GetEntry, entryVars
<1>2. CASE inner[id] # None
  <2>1. inner[id] \in Cached(inner)
    BY <1>2 DEF Cached
  <2>2. QED
    BY <1>2, <2>1 DEF GetEntry, entryVars
<1> QED
  BY <1>1, <1>2

\* The three things a step may do to the map and to the order of use.
Inserts == \E c \in Callers, id \in AuthIds, k \in Kinds, s \in Sources \cup {NoSource} :
              InsertEntry(c, id, k, s)
Takes == made' = made /\ usedBefore' = usedBefore /\ Cached(inner') \subseteq Cached(inner)
Touches == made' = made /\ inner' = inner /\ \E e \in Cached(inner) : usedBefore' = Touch(e)

\* What a step does to the map and the order of use: it inserts, it takes
\* entries away, or it touches one.
LEMMA UseOfStep ==
    ASSUME TypeOK, [Next]_vars
    PROVE  Inserts \/ Takes \/ Touches
<1>1. CASE UNCHANGED vars
  BY <1>1 DEF vars, entryVars, Takes
<1>2. CASE DeadlinePasses
  BY <1>2 DEF DeadlinePasses, entryVars, Takes
<1>3. ASSUME NEW e \in Entry, ExpireDropped(e) PROVE Takes
  BY <1>3 DEF ExpireDropped, entryVars, Takes
<1>4. ASSUME NEW c \in Callers, PruneExpired(c) PROVE Takes
  BY <1>4 DEF PruneExpired, entryVars, Takes, Without, Cached, TypeOK
<1>5. ASSUME NEW c \in Callers, NEW id \in AuthIds,
             \/ StartApprove(c, id) \/ StartReject(c, id) \/ Admit(c, id)
             \/ \E consume \in BOOLEAN : StartWait(c, id, consume)
      PROVE  Takes \/ Touches
  <2>1. PICK label : GetEntry(c, id, label)
    BY <1>5 DEF StartApprove, StartReject, Admit, StartWait
  <2>2. QED
    BY <2>1, GetEntryTouches DEF Takes, Touches
<1>6. ASSUME NEW c \in Callers, NEW id \in AuthIds, Remove(c, id) \/ CompleteRemove(c, id)
      PROVE  Takes
  BY <1>6 DEF Remove, CompleteRemove, entryVars, Takes, Cached, TypeOK
<1>7. ASSUME NEW c \in Callers,
             \/ Decide(c) \/ FinishRegistration(c) \/ Abandon(c) \/ Complete(c)
             \/ CancelWait(c) \/ Arm(c) \/ Answer(c) \/ ReadUndecided(c) \/ Park(c) \/ Wake(c)
      PROVE  Takes
  BY <1>7 DEF Decide, FinishRegistration, Abandon, Complete, CancelWait, Arm, Answer,
     ReadUndecided, Park, Wake, entryVars, Takes
<1>8. ASSUME NEW c \in Callers,
             SettleRegistration(c) \/ FindExpired(c) \/ WaitTimeout(c)
      PROVE  Takes
  <2>1. ExpireIfCurrent(held[c]) /\ made' = made /\ usedBefore' = usedBefore
    BY <1>8 DEF SettleRegistration, FindExpired, WaitTimeout, entryVars
  <2>2. QED
    BY <2>1, ExpireIfCurrentTakes DEF Takes
<1> QED
  BY <1>1, <1>2, <1>3, <1>4, <1>5, <1>6, <1>7, <1>8 DEF Next, Call, WaitStep, Inserts

\* The map after an insert: the new entry replaces what its id named, and
\* the evicted entries are gone.
LEMMA InsertLeaves ==
    ASSUME Inv, UseOrdered, WithinCapacity,
           NEW c \in Callers, NEW id \in AuthIds, NEW k \in Kinds,
           NEW s \in Sources \cup {NoSource}, InsertEntry(c, id, k, s)
    PROVE  LET e == made + 1
               before == Cached(inner) \ {inner[id]}
               S == before \cup {e}
               src == [source EXCEPT ![e] = s]
               gone == Evictions(S, src, s, e)
           IN  /\ e \in Entry /\ made' = e /\ source' = src /\ authId' = [authId EXCEPT ![e] = id]
               /\ outcome' = outcome /\ expiredUpTo' = expiredUpTo
               /\ IsFiniteSet(S) /\ Cardinality(S) <= MaxEntries + 1
               /\ e \notin Cached(inner)
               /\ Cached(inner') = S \ gone
               /\ Ordered(usedBefore, S \ {e})
               /\ usedBefore' = {p \in usedBefore : p[1] \in S \ gone /\ p[2] \in S \ gone}
                                   \cup {<<x, e>> : x \in (S \ gone) \ {e}}
<1> DEFINE e == made + 1
           before == Cached(inner) \ {inner[id]}
           S == before \cup {e}
           src == [source EXCEPT ![e] = s]
           gone == Evictions(S, src, s, e)
           with == [inner EXCEPT ![id] = e]
<1>1. TypeOK /\ MapNamesItsEntries
  BY DEF Inv
<1>2. /\ e \in Entry /\ made' = e /\ source' = src /\ authId' = [authId EXCEPT ![e] = id]
      /\ outcome' = outcome /\ expiredUpTo' = expiredUpTo
  BY <1>1, CapacityAssumption DEF InsertEntry, TypeOK, Entry, verdictVars
<1>3. with \in [AuthIds -> Entry \cup {None}] /\ e # None
  BY <1>1, <1>2 DEF TypeOK, Entry, None
<1>4. Cached(with) = S
  BY <1>1, <1>3 DEF Cached, MapNamesItsEntries, TypeOK
<1>5. \A x \in Cached(inner) : x \in 1 .. made
  BY <1>1 DEF Cached, MapNamesItsEntries
<1>6. e \notin Cached(inner)
  BY <1>1, <1>5 DEF TypeOK
<1>7. gone \subseteq S /\ None \notin gone
  <2>1. gone \subseteq S \ {e}
    BY EvictionsSpareKeep
  <2>2. None \notin S
    BY <1>3 DEF Cached
  <2> HIDE DEF gone
  <2>3. QED
    BY <2>1, <2>2
<1>8. inner' = Without(with, gone)
  BY <1>4 DEF InsertEntry
<1>9. Cached(inner') = S \ gone
  BY <1>3, <1>4, <1>7, <1>8, CachedWithout, Zenon
<1>10. IsFiniteSet(Cached(inner)) /\ Cardinality(Cached(inner)) \in Nat
  <2>1. Cached(inner) \in SUBSET Entry
    BY <1>1, CachedEntries DEF TypeOK
  <2>2. IsFiniteSet(Entry)
    BY CapacityAssumption, FS_Interval DEF Entry
  <2>3. QED
    BY <2>1, <2>2, FS_Subset, FS_CardinalityType
<1>11. IsFiniteSet(S) /\ Cardinality(S) <= MaxEntries + 1
  <2>1. IsFiniteSet(before) /\ Cardinality(before) <= Cardinality(Cached(inner))
    BY <1>10, FS_Subset
  <2>2. Cardinality(before) \in Nat
    BY <2>1, FS_CardinalityType
  <2>3. e \notin before
    BY <1>6
  <2> HIDE DEF before
  <2>4. IsFiniteSet(S) /\ Cardinality(S) = Cardinality(before) + 1
    BY <2>1, <2>3, FS_AddElement
  <2>5. QED
    BY <1>10, <2>1, <2>2, <2>4, CapacityAssumption DEF WithinCapacity
<1>12. Ordered(usedBefore, S \ {e})
  <2>1. S \ {e} \subseteq Cached(inner)
    OBVIOUS
  <2>2. QED
    BY <2>1, OrderedPart, Zenon DEF UseOrdered
<1>13. usedBefore' = {p \in usedBefore : p[1] \in S \ gone /\ p[2] \in S \ gone}
                                   \cup {<<x, e>> : x \in (S \ gone) \ {e}}
  BY <1>4 DEF InsertEntry
<1> QED
  BY <1>2, <1>6, <1>9, <1>11, <1>12, <1>13

\* Touching an entry makes it the last of the order.
LEMMA TouchOrders ==
    ASSUME TypeOK, MapNamesItsEntries, UseOrdered, NEW e \in Cached(inner)
    PROVE  /\ Touch(e) \subseteq (1 .. made) \X (1 .. made)
           /\ Ordered(Touch(e), Cached(inner))
<1>1. Cached(inner) \subseteq 1 .. made
  BY DEF Cached, MapNamesItsEntries
<1>2. Touch(e) \subseteq (1 .. made) \X (1 .. made)
  BY <1>1 DEF Touch, UseOrdered
<1>3. \A x, y : <<x, y>> \in Touch(e) <=>
                   \/ <<x, y>> \in usedBefore /\ x # e
                   \/ y = e /\ x \in Cached(inner) \ {e}
  BY DEF Touch
<1>4. Ordered(Touch(e), Cached(inner))
  <2> SUFFICES ASSUME NEW x \in Cached(inner), NEW y \in Cached(inner)
               PROVE  /\ <<x, y>> \in Touch(e) => <<y, x>> \notin Touch(e)
                      /\ x # y => <<x, y>> \in Touch(e) \/ <<y, x>> \in Touch(e)
                      /\ \A z \in Cached(inner) :
                            <<x, y>> \in Touch(e) /\ <<y, z>> \in Touch(e) => <<x, z>> \in Touch(e)
    BY DEF Ordered
  <2>1. <<x, y>> \in usedBefore => <<y, x>> \notin usedBefore
    BY DEF Ordered, UseOrdered
  <2>2. x # y => <<x, y>> \in usedBefore \/ <<y, x>> \in usedBefore
    BY DEF Ordered, UseOrdered
  <2>3. \A z \in Cached(inner) :
           <<x, y>> \in usedBefore /\ <<y, z>> \in usedBefore => <<x, z>> \in usedBefore
    BY DEF Ordered, UseOrdered
  <2>4. QED
    BY <1>3, <2>1, <2>2, <2>3
<1> QED
  BY <1>2, <1>4

\* Every step keeps the order of use and the capacity.
LEMMA UseStep ==
    ASSUME Inv, UseOrdered, WithinCapacity, [Next]_vars
    PROVE  UseOrdered' /\ WithinCapacity'
<1>1. TypeOK /\ MapNamesItsEntries
  BY DEF Inv
<1>2. CASE Takes
  <2>1. Ordered(usedBefore, Cached(inner'))
    BY <1>2, OrderedPart, Zenon DEF Takes, UseOrdered
  <2>2. UseOrdered'
    BY <1>2, <2>1 DEF Takes, UseOrdered
  <2>3. IsFiniteSet(Cached(inner))
    <3>1. Cached(inner) \in SUBSET Entry
      BY <1>1, CachedEntries DEF TypeOK
    <3>2. IsFiniteSet(Entry)
      BY CapacityAssumption, FS_Interval DEF Entry
    <3>3. QED
      BY <3>1, <3>2, FS_Subset
  <2>4. Cached(inner') \in SUBSET Cached(inner)
    BY <1>2 DEF Takes
  <2>5. /\ IsFiniteSet(Cached(inner'))
        /\ Cardinality(Cached(inner')) <= Cardinality(Cached(inner))
    BY <2>3, <2>4, FS_Subset, Zenon
  <2>6. Cardinality(Cached(inner)) \in Nat /\ Cardinality(Cached(inner')) \in Nat
    BY <2>3, <2>5, FS_CardinalityType
  <2>7. WithinCapacity'
    BY <2>5, <2>6, CapacityAssumption DEF WithinCapacity
  <2>8. QED
    BY <2>2, <2>7
<1>3. CASE Touches
  <2>1. PICK e \in Cached(inner) : usedBefore' = Touch(e)
    BY <1>3 DEF Touches
  <2>2. QED
    BY <1>1, <1>3, <2>1, TouchOrders DEF Touches, UseOrdered, WithinCapacity
<1>4. CASE Inserts
  <2>1. PICK c \in Callers, id \in AuthIds, k \in Kinds, s \in Sources \cup {NoSource} :
             InsertEntry(c, id, k, s)
    BY <1>4 DEF Inserts
  <2> DEFINE e == made + 1
             S == (Cached(inner) \ {inner[id]}) \cup {e}
             src == [source EXCEPT ![e] = s]
             gone == Evictions(S, src, s, e)
  <2>2. /\ made' = e
        /\ IsFiniteSet(S) /\ Cardinality(S) <= MaxEntries + 1
        /\ e \notin Cached(inner)
        /\ Cached(inner') = S \ gone
        /\ Ordered(usedBefore, S \ {e})
        /\ usedBefore' = {p \in usedBefore : p[1] \in S \ gone /\ p[2] \in S \ gone}
                            \cup {<<x, e>> : x \in (S \ gone) \ {e}}
    BY <2>1, InsertLeaves
  <2>3. WithinCapacity'
    BY <2>2, EvictionsMakeRoom DEF WithinCapacity
  <2>4. S \subseteq 1 .. e /\ made \in Nat
    BY <1>1 DEF Cached, MapNamesItsEntries, TypeOK
  <2> HIDE DEF S, gone
  <2>5. \A x, y : <<x, y>> \in usedBefore => x \in 1 .. made /\ y \in 1 .. made
    BY DEF UseOrdered
  <2>6. usedBefore' \subseteq (1 .. made') \X (1 .. made')
    <3>1. {p \in usedBefore : p[1] \in S \ gone /\ p[2] \in S \ gone} \subseteq (1 .. e) \X (1 .. e)
      BY <2>4 DEF UseOrdered
    <3>2. {<<x, e>> : x \in (S \ gone) \ {e}} \subseteq (1 .. e) \X (1 .. e)
      <4>1. e \in 1 .. e
        BY <2>4
      <4> HIDE DEF e
      <4>2. \A x \in (S \ gone) \ {e} : <<x, e>> \in (1 .. e) \X (1 .. e)
        BY <2>4, <4>1
      <4>3. QED
        BY <4>2, Zenon
    <3>3. QED
      BY <2>2, <3>1, <3>2
  <2>7. \A x, y : <<x, y>> \in usedBefore' <=>
                     \/ <<x, y>> \in usedBefore /\ x \in S \ gone /\ y \in S \ gone
                     \/ y = e /\ x \in (S \ gone) \ {e}
    BY <2>2
  <2>8. \A x, y : <<x, y>> \in usedBefore => x # e /\ y # e
    BY <2>4, <2>5
  <2> HIDE DEF e
  <2>9. Ordered(usedBefore', S \ gone)
    BY <2>2, <2>7, <2>8 DEF Ordered
  <2>10. QED
    BY <2>2, <2>3, <2>6, <2>9 DEF UseOrdered
<1> QED
  BY <1>1, <1>2, <1>3, <1>4, UseOfStep

\* In every reachable state last_used orders the cached entries, and there
\* are at most max_entries of them: insert_entry's eviction always finds a
\* victim when it needs one.
THEOREM OrderInvariance == Spec => [](Inv /\ UseOrdered /\ WithinCapacity)
<1>1. Init => UseOrdered /\ WithinCapacity
  <2> SUFFICES ASSUME Init PROVE UseOrdered /\ WithinCapacity
    OBVIOUS
  <2>1. Cached(inner) = {}
    BY DEF Init, Cached
  <2>2. QED
    BY <2>1, FS_EmptySet, CapacityAssumption DEF Init, UseOrdered, Ordered, WithinCapacity
<1>2. Inv /\ UseOrdered /\ WithinCapacity /\ [Next]_vars => UseOrdered' /\ WithinCapacity'
  BY UseStep
<1>3. QED
  BY Invariance, <1>1, <1>2, PTL DEF Spec

\* An entry is created by an insert only.
LEMMA OnlyInsertsMake ==
    ASSUME TypeOK, [Next]_vars, made' = made + 1
    PROVE  Inserts
  BY UseOfStep DEF Takes, Touches, TypeOK

\* After insert_entry the cache holds at most max_entries entries, and the
\* source at most max_pending_per_source pending ones while somebody else has
\* one: evict_over_source_quota and eviction_victim drop as many as needed.
THEOREM LimitsKept == Spec => LimitsHold
<1>1. ASSUME Inv, UseOrdered, WithinCapacity, [Next]_vars, made' = made + 1
      PROVE  LET s == source'[made']
                 mine == {x \in Cached(inner') : source'[x] = s /\ Pending(x)'}
                 others == {x \in Cached(inner') : source'[x] # s /\ Pending(x)'}
             IN  /\ Cardinality(Cached(inner')) <= MaxEntries
                 /\ s # NoSource /\ others # {} => Cardinality(mine) <= Quota
  <2>1. PICK c \in Callers, id \in AuthIds, k \in Kinds, s \in Sources \cup {NoSource} :
             InsertEntry(c, id, k, s)
    BY <1>1, OnlyInsertsMake DEF Inserts, Inv
  <2> DEFINE e == made + 1
             S == (Cached(inner) \ {inner[id]}) \cup {e}
             src == [source EXCEPT ![e] = s]
             gone == Evictions(S, src, s, e)
             over == OverSourceQuota(S, src, s, e)
             mine == {x \in Cached(inner') : source'[x] = s /\ Pending(x)'}
             others == {x \in Cached(inner') : source'[x] # s /\ Pending(x)'}
  <2>2. /\ e \in Entry /\ made' = e /\ source' = src
        /\ outcome' = outcome /\ expiredUpTo' = expiredUpTo
        /\ IsFiniteSet(S) /\ Cached(inner') = S \ gone
        /\ Ordered(usedBefore, S \ {e})
    BY <1>1, <2>1, InsertLeaves
  <2>3. source'[made'] = s
    BY <1>1, <2>2 DEF Inv, TypeOK
  <2>4. Cardinality(Cached(inner')) <= MaxEntries
    BY <1>1, UseStep DEF WithinCapacity
  <2>5. \A x : Pending(x)' <=> Pending(x)
    BY <2>2 DEF Pending, Expired
  <2>6. ASSUME s # NoSource, others # {} PROVE Cardinality(mine) <= Quota
    <3>1. OtherPartyPending(S, src, s)
      BY <2>2, <2>5, <2>6 DEF OtherPartyPending
    <3>2. over \subseteq gone
      BY <2>6, <3>1 DEF Evictions
    <3> DEFINE kept == {x \in S : src[x] = s /\ Pending(x)} \ over
    <3>3. mine \in SUBSET kept
      BY <2>2, <2>5, <3>2
    <3>4. IsFiniteSet(kept) /\ Cardinality(kept) <= Quota
      BY <2>2, QuotaMet, FS_Subset
    <3> HIDE DEF kept, mine
    <3>5. IsFiniteSet(mine) /\ Cardinality(mine) <= Cardinality(kept)
      BY <3>3, <3>4, FS_Subset
    <3>6. Cardinality(kept) \in Nat /\ Cardinality(mine) \in Nat
      BY <3>4, <3>5, FS_CardinalityType
    <3>7. QED
      BY <3>4, <3>5, <3>6, CapacityAssumption
  <2>7. QED
    BY <2>3, <2>4, <2>6
<1>2. QED
  BY OrderInvariance, <1>1, PTL DEF Spec, LimitsHold

\* Two members make a set of more than one.
LEMMA TwoMembers ==
    ASSUME NEW T, IsFiniteSet(T), NEW x \in T, NEW y \in T, x # y
    PROVE  Cardinality(T) > 1
<1>1. IsFiniteSet(T \ {x}) /\ Cardinality(T \ {x}) = Cardinality(T) - 1
  BY FS_RemoveElement
<1>2. Cardinality(T \ {x}) # 0
  BY <1>1, FS_EmptySet
<1>3. Cardinality(T) \in Nat /\ Cardinality(T \ {x}) \in Nat
  BY <1>1, FS_CardinalityType
<1> QED
  BY <1>1, <1>2, <1>3

\* A set of more than one has a member besides any given one.
LEMMA AnotherMember ==
    ASSUME NEW T, IsFiniteSet(T), Cardinality(T) > 1, NEW e
    PROVE  \E y \in T : y # e
<1> SUFFICES ASSUME T \in SUBSET {e} PROVE FALSE
  OBVIOUS
<1>1. IsFiniteSet({e}) /\ Cardinality({e}) = 1
  BY FS_Singleton
<1>2. Cardinality(T) <= Cardinality({e})
  BY <1>1, FS_Subset, Zenon
<1>3. Cardinality(T) \in Nat
  BY FS_CardinalityType
<1> QED
  BY <1>1, <1>2, <1>3

\* While a source is crowded, eviction_victim picks no pending entry that is
\* alone or has no source.
LEMMA VictimIsCrowded ==
    ASSUME NEW S, IsFiniteSet(S), NEW src, NEW keep,
           NEW x, Pending(x),
           src[x] = NoSource \/ ~(Cardinality({y \in S : src[y] = src[x]}) > 1),
           NEW t, t # NoSource, Cardinality({y \in S : src[y] = t}) > 1
    PROVE  x \notin EvictionVictim(S, src, keep)
<1> DEFINE candidates == S \ {keep}
           settled == {z \in candidates : ~Pending(z)}
           Held(z) == Cardinality({y \in S : src[y] = src[z]})
           crowded == {z \in candidates : src[z] # NoSource /\ Held(z) > 1}
           heaviest == {z \in crowded : \A y \in crowded : Held(y) <= Held(z)}
<1>1. PICK y \in {y \in S : src[y] = t} : y # keep
  BY AnotherMember, FS_Subset
<1>2. crowded # {}
  BY <1>1
<1>3. x \notin settled /\ x \notin crowded
  OBVIOUS
<1>4. heaviest \subseteq crowded
  OBVIOUS
<1>5. EvictionVictim(S, src, keep) =
         Oldest(IF settled # {} THEN settled ELSE IF crowded # {} THEN heaviest ELSE candidates)
  BY DEF EvictionVictim
<1> HIDE DEF settled, crowded, heaviest
<1> QED
  BY <1>2, <1>3, <1>4, <1>5 DEF Oldest

\* A flood pays for itself: while some source has two entries or more,
\* insert_entry under another id takes no party's only pending entry, and no
\* pending entry of an internal caller.
THEOREM LoneEntriesSurvive == Spec => LoneEntrySurvives
<1>1. ASSUME Inv, UseOrdered, WithinCapacity, [Next]_vars, made' = made + 1
      PROVE  LET id == authId'[made']
                 before == Cached(inner) \ {inner[id]}
                 Crowded(s) == Cardinality({x \in before \cup {made'} : source'[x] = s}) > 1
             IN  \A e \in before :
                    /\ Pending(e)
                    /\ source[e] = NoSource \/ ~Crowded(source[e])
                    /\ \E s \in Sources : Crowded(s)
                    => e \in Cached(inner')
  <2>1. PICK c \in Callers, id \in AuthIds, k \in Kinds, s \in Sources \cup {NoSource} :
             InsertEntry(c, id, k, s)
    BY <1>1, OnlyInsertsMake DEF Inserts, Inv
  <2> DEFINE new == made + 1
             before == Cached(inner) \ {inner[id]}
             S == before \cup {new}
             src == [source EXCEPT ![new] = s]
             gone == Evictions(S, src, s, new)
             Party(t) == {x \in S : src[x] = t}
  <2>2. /\ new \in Entry /\ made' = new /\ source' = src
        /\ authId' = [authId EXCEPT ![new] = id]
        /\ IsFiniteSet(S) /\ Cardinality(S) <= MaxEntries + 1
        /\ new \notin Cached(inner) /\ Cached(inner') = S \ gone
    BY <1>1, <2>1, InsertLeaves
  <2>3. authId'[made'] = id
    BY <1>1, <2>2 DEF Inv, TypeOK
  <2>4. ASSUME NEW e \in before, Pending(e),
               source[e] = NoSource \/ ~(Cardinality(Party(source[e])) > 1),
               NEW t \in Sources, Cardinality(Party(t)) > 1
        PROVE  e \in Cached(inner')
    <3> DEFINE over == IF s # NoSource /\ OtherPartyPending(S, src, s)
                       THEN OverSourceQuota(S, src, s, new) ELSE {}
    <3>1. gone = IF OverCapacity(S \ over)
                 THEN over \cup EvictionVictim(S \ over, src, new) ELSE over
      BY DEF Evictions
    <3>2. e \in S /\ e # new /\ new \in S
      BY <2>2
    <3>3. src[e] = source[e] /\ src[new] = s
      BY <1>1, <2>2, <3>2, CachedEntries DEF Inv, TypeOK
    <3>4. e \notin over
      <4> SUFFICES ASSUME e \in over PROVE FALSE
        OBVIOUS
      <4>1. src[e] = s /\ s # NoSource
        BY DEF OverSourceQuota
      <4>2. IsFiniteSet(Party(s)) /\ e \in Party(s) /\ new \in Party(s)
        BY <2>2, <3>2, <3>3, <4>1, FS_Subset
      <4>3. Cardinality(Party(s)) > 1
        BY <3>2, <4>2, TwoMembers
      <4> HIDE DEF Party
      <4>4. QED
        BY <2>4, <3>3, <4>1, <4>3
    <3>5. CASE over = {}
      <4>1. S \ over = S
        BY <3>5
      <4>2. t # NoSource
        BY SourceAssumption
      <4>3. e \notin EvictionVictim(S, src, new)
        BY <2>2, <2>4, <3>3, <4>2, VictimIsCrowded
      <4> HIDE DEF over, S, gone
      <4>4. QED
        BY <2>2, <3>1, <3>2, <3>4, <4>1, <4>3
    <3>6. CASE over # {}
      <4>1. PICK x \in over : x \in S
        BY <3>6 DEF OverSourceQuota
      <4> HIDE DEF over, S, gone
      <4>2. S \ over \in SUBSET (S \ {x})
        BY <4>1
      <4>3. IsFiniteSet(S \ {x}) /\ Cardinality(S \ {x}) = Cardinality(S) - 1
        BY <2>2, <4>1, FS_RemoveElement
      <4>4. IsFiniteSet(S \ over) /\ Cardinality(S \ over) <= Cardinality(S \ {x})
        BY <4>2, <4>3, FS_Subset, Zenon
      <4>5. Cardinality(S) \in Nat /\ Cardinality(S \ over) \in Nat
        BY <2>2, <4>4, FS_CardinalityType
      <4>6. ~OverCapacity(S \ over)
        BY <2>2, <4>3, <4>4, <4>5, CapacityAssumption DEF OverCapacity
      <4>7. QED
        BY <2>2, <3>1, <3>2, <3>4, <4>6
    <3>7. QED
      BY <3>5, <3>6
  <2>5. ASSUME NEW e \in before, Pending(e),
               source[e] = NoSource \/ ~(Cardinality({x \in S : source'[x] = source[e]}) > 1),
               \E t \in Sources : Cardinality({x \in S : source'[x] = t}) > 1
        PROVE  e \in Cached(inner')
    <3>1. \A t : {x \in S : source'[x] = t} = Party(t)
      BY <2>2
    <3> HIDE DEF Party, S
    <3>2. QED
      BY <2>4, <2>5, <3>1
  <2>6. before \cup {made'} = S
    BY <2>2
  <2> HIDE DEF S
  <2>7. QED
    BY <2>3, <2>5, <2>6
<1>2. QED
  BY OrderInvariance, <1>1, PTL DEF Spec, LoneEntrySurvives

-----------------------------------------------------------------------------
\* A task that leaves the middle of a completion does so by its own step.
LEMMA CompletionSteps ==
    ASSUME TypeOK, TasksHoldEntries, [Next]_vars, NEW c \in Callers,
           pc[c] \in {"admitted", "settle"}, pc'[c] # pc[c]
    PROVE  FinishRegistration(c) \/ SettleRegistration(c) \/ Abandon(c)
<1>0. pc \in [Callers -> Waiting \cup {"idle", "pruned", "approve", "reject",
                                        "admitted", "refused", "settle", "complete"}]
  BY DEF TypeOK
<1>1. CASE UNCHANGED vars
  BY <1>1 DEF vars, taskVars
<1>2. CASE DeadlinePasses
  BY <1>2 DEF DeadlinePasses, taskVars
<1>3. ASSUME NEW e \in Entry, ExpireDropped(e) PROVE FALSE
  BY <1>3 DEF ExpireDropped
<1>4. ASSUME NEW d \in Callers, Call(d) PROVE FALSE
  <2>1. ASSUME NEW id \in AuthIds, NEW label, GetEntry(d, id, label) PROVE FALSE
    BY <1>0, <2>1 DEF GetEntry
  <2>2. ASSUME NEW id \in AuthIds, NEW k \in Kinds, NEW s \in Sources \cup {NoSource},
               InsertEntry(d, id, k, s)
        PROVE  FALSE
    BY <1>0, <2>2 DEF InsertEntry
  <2>3. ASSUME NEW id \in AuthIds, Remove(d, id) \/ CompleteRemove(d, id) PROVE FALSE
    BY <1>0, <2>3 DEF Remove, CompleteRemove, taskVars
  <2>4. ~PruneExpired(d)
    BY <1>0 DEF PruneExpired
  <2>5. QED
    BY <1>4, <2>1, <2>2, <2>3, <2>4 DEF Call, StartApprove, StartReject, Admit, StartWait
<1>5. ASSUME NEW d \in Callers,
             Decide(d) \/ Complete(d) \/ WaitStep(d) \/ CancelWait(d)
      PROVE  FALSE
  BY <1>0, <1>5 DEF Decide, Complete, CancelWait, WaitStep, Arm, Answer, ReadUndecided,
     FindExpired, Park, Wake, WaitTimeout
<1>6. ASSUME NEW d \in Callers,
             FinishRegistration(d) \/ SettleRegistration(d) \/ Abandon(d)
      PROVE  c = d
  BY <1>0, <1>6 DEF FinishRegistration, SettleRegistration, Abandon
<1> QED
  BY <1>1, <1>2, <1>3, <1>4, <1>5, <1>6 DEF Next

\* finish_registration, which works on the Arc it was admitted with, decides
\* and removes that entry only, and none installed under its id since.
THEOREM CompletionKept == Spec => CompletionNotRedirected
<1>1. ASSUME Inv, [Next]_vars, NEW c \in Callers,
             pc[c] \in {"admitted", "settle"}, pc'[c] # pc[c]
      PROVE  /\ \A e \in Entry \ {held[c]} : outcome'[e] = outcome[e]
             /\ \A i \in AuthIds : inner[i] # held[c] => inner'[i] = inner[i]
  <2>1. CASE FinishRegistration(c)
    BY <1>1, <2>1 DEF FinishRegistration, SetVerdict, Decided, Inv, TypeOK
  <2>2. CASE SettleRegistration(c)
    BY <1>1, <2>2 DEF SettleRegistration, ExpireIfCurrent, Without, verdictVars, Inv, TypeOK
  <2>3. CASE Abandon(c)
    BY <2>3 DEF Abandon, verdictVars
  <2>4. QED
    BY <1>1, <2>1, <2>2, <2>3, CompletionSteps DEF Inv
<1>2. Inv /\ [Next]_vars =>
         [\A c \in Callers :
            pc[c] \in {"admitted", "settle"} /\ pc'[c] # pc[c] =>
               /\ \A e \in Entry \ {held[c]} : outcome'[e] = outcome[e]
               /\ \A i \in AuthIds : inner[i] # held[c] => inner'[i] = inner[i]]_vars
  BY <1>1
<1>3. QED
  BY Invariance, <1>2, PTL DEF Spec, CompletionNotRedirected
=============================================================================
