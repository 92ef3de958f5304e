------------------------- MODULE RegistrationCache -------------------------
(***************************************************************************)
(* The cache of pending auth requests of tailscale_wire/mod.rs: web and    *)
(* OIDC registrations, and SSH checks, waiting for somebody's verdict.     *)
(*                                                                         *)
(* An entry is an Arc<RegistrationEntry>.  Tasks keep the Arc after the    *)
(* map forgot it, so the map and the entries are separate state: entries   *)
(* are numbered in the order they are created, and "inner" says which of   *)
(* them, if any, each auth id names.  Since all entries live equally long  *)
(* their deadlines pass in that same order, so one number records which    *)
(* deadlines are over.                                                     *)
(*                                                                         *)
(* A step is one critical section: the write guard of the map, or the      *)
(* mutex of one entry.  Entries that a guard section threw out are told    *)
(* to expire only after the guard is released; until then they are in      *)
(* "dropping" and every other task may still reach them.                   *)
(***************************************************************************)
EXTENDS Integers, FiniteSets

CONSTANTS
    AuthIds,      \* registration ids / auth ids
    Sources,      \* parties that unauthenticated Register requests come from
    NoSource,     \* the source of internal callers, exempt from the quota
    Callers,      \* concurrent tasks calling into the cache
    MaxEntries,   \* max_entries
    Quota,        \* max_pending_per_source
    MaxCreated    \* bound: entries ever created

ASSUME CapacityAssumption ==
    /\ MaxEntries \in Nat \ {0}
    /\ Quota \in Nat \ {0}
    /\ MaxCreated \in Nat
ASSUME SourceAssumption == NoSource \notin Sources

None == 0
Entry == 1 .. MaxCreated
Kinds == {"registration", "ssh"}
Verdicts == {"registered", "approved", "rejected", "expired"}
Waiting == {"arm", "read", "undecided", "parked"}

VARIABLES
    inner,       \* inner: auth id -> the entry it names, or None
    made,        \* entries created so far
    kind,        \* entry -> has it a record, or an SSH binding
    source,      \* entry -> who created it
    authId,      \* entry -> the id it was inserted under
    outcome,     \* entry -> first verdict, or "none"
    consumed,    \* entry -> ssh_verdict_consumed
    expiredUpTo, \* entries 1 .. expiredUpTo are past expires_at
    usedBefore,  \* <<x, y>>: last_used of x is smaller than that of y
    dropping,    \* entries thrown out of the map, expire() not yet called
    pc,          \* caller -> where its task is
    held,        \* caller -> the Arc it holds, or None
    consuming,   \* caller -> its wait is wait_for_ssh_auth
    notified,    \* caller -> its Notified future has been completed
    told,        \* history: entry -> verdicts its waiters returned with
    consumers    \* history: entry -> consuming waiters given a verdict

entryVars == <<made, kind, source, authId>>
verdictVars == <<outcome, consumed, told, consumers>>
taskVars == <<pc, held, consuming, notified>>
vars == <<inner, entryVars, verdictVars, expiredUpTo, usedBefore, dropping, taskVars>>

-----------------------------------------------------------------------------
\* What the entries and the map are at this instant.

Cached(m) == {m[i] : i \in AuthIds} \ {None}

Expired(e) == e <= expiredUpTo

\* RegistrationEntry::is_pending: the entries that count against a quota.
Pending(e) == ~Expired(e) /\ outcome[e] = "none"

\* The map without the entries in gone.
Without(m, gone) == [i \in AuthIds |-> IF m[i] \in gone THEN None ELSE m[i]]

\* RegistrationEntry::touch with the next access stamp.
Touch(e) == {p \in usedBefore : p[1] # e} \cup {<<x, e>> : x \in Cached(inner) \ {e}}

\* The least recently used members of S (at most one: stamps are unique).
Oldest(S) == {x \in S : \A y \in S : <<y, x>> \notin usedBefore}

-----------------------------------------------------------------------------
\* First verdict wins: complete, approve_without_node, reject and expire
\* set the outcome only if there is none, and then wake the waiters.

\* Mutant: the last verdict wins.
DecidedLast(o, e, v) == [o EXCEPT ![e] = v]

Decided(o, e, v) == IF o[e] = "none" THEN [o EXCEPT ![e] = v] ELSE o

\* Mutant: only waiters already parked are woken.
NotifyParkedOnly(e) ==
    [c \in Callers |->
        notified[c] \/ (held[c] = e /\ pc[c] = "parked" /\ outcome[e] = "none")]

\* notify_waiters reaches every Notified future that exists: those of the
\* waiters that armed one, whether or not they have parked on it yet.
Notify(e) ==
    [c \in Callers |->
        \/ notified[c]
        \/ held[c] = e /\ pc[c] \in Waiting \ {"arm"} /\ outcome[e] = "none"]

SetVerdict(e, v) ==
    /\ outcome' = Decided(outcome, e, v)
    /\ notified' = Notify(e)

-----------------------------------------------------------------------------
\* prune_expired, which get_entry and the inserts call first: the expired
\* entries leave the map under the guard, and expire() comes afterwards.

PruneExpired(c) ==
    LET gone == {e \in Cached(inner) : Expired(e)}
    IN  /\ pc[c] = "idle"
        /\ inner' = Without(inner, gone)
        /\ dropping' = dropping \cup gone
        /\ pc' = [pc EXCEPT ![c] = "pruned"]
        /\ UNCHANGED <<entryVars, verdictVars, expiredUpTo, usedBefore, held,
                       consuming, notified>>

\* The expire() call owed to an entry that left the map.
ExpireDropped(e) ==
    /\ e \in dropping
    /\ SetVerdict(e, "expired")
    /\ dropping' = dropping \ {e}
    /\ UNCHANGED <<inner, entryVars, consumed, told, consumers, expiredUpTo,
                   usedBefore, pc, held, consuming>>

-----------------------------------------------------------------------------
\* insert_entry, reached from insert_from_source and insert_ssh_check.

\* Does a pending entry of S belong to a party other than s?
OtherPartyPending(S, src, s) == \E x \in S : src[x] # s /\ Pending(x)

\* Mutant: the entry being inserted is not counted.
OverSourceQuotaUncounted(S, src, s, keep) ==
    LET mine == {x \in S \ {keep} : src[x] = s /\ Pending(x)}
        Older(x) == {y \in mine : <<y, x>> \in usedBefore}
    IN  {x \in mine : Cardinality(Older(x)) < Cardinality(mine) - Quota}

\* The entries evict_over_source_quota drops: the least recently used
\* pending entries of s other than keep, as many as s holds above the quota.
OverSourceQuota(S, src, s, keep) ==
    LET mine == {x \in S : src[x] = s /\ Pending(x)}
        Older(x) == {y \in mine \ {keep} : <<y, x>> \in usedBefore}
    IN  {x \in mine \ {keep} : Cardinality(Older(x)) < Cardinality(mine) - Quota}

\* Mutant: Go's plain LRU.
EvictionVictimPlainLru(S, src, keep) == Oldest(S \ {keep})

\* eviction_victim: a settled entry, else one of the heaviest source, else
\* the least recently used; never keep.
EvictionVictim(S, src, keep) ==
    LET candidates == S \ {keep}
        settled == {x \in candidates : ~Pending(x)}
        Held(x) == Cardinality({y \in S : src[y] = src[x]})
        crowded == {x \in candidates : src[x] # NoSource /\ Held(x) > 1}
        heaviest == {x \in crowded : \A y \in crowded : Held(y) <= Held(x)}
    IN  Oldest(IF settled # {} THEN settled
               ELSE IF crowded # {} THEN heaviest
               ELSE candidates)

OverCapacity(S) == Cardinality(S) > MaxEntries

\* What inserting keep throws out of the map that now holds S.  The loop
\* over eviction_victim runs at most once: S has at most one entry too many.
Evictions(S, src, s, keep) ==
    LET over == IF s # NoSource /\ OtherPartyPending(S, src, s)
                THEN OverSourceQuota(S, src, s, keep)
                ELSE {}
        left == S \ over
    IN  IF OverCapacity(left)
        THEN over \cup EvictionVictim(left, src, keep)
        ELSE over

\* A replaced entry, the quota's and the capacity's victims all leave under
\* the guard that inserts the new entry.  SSH checks carry no source.
InsertEntry(c, id, k, s) ==
    LET e == made + 1
        src == [source EXCEPT ![e] = s]
        with == [inner EXCEPT ![id] = e]
        gone == Evictions(Cached(with), src, s, e)
        stay == Cached(with) \ gone
    IN  /\ pc[c] = "pruned"
        /\ made < MaxCreated
        /\ k = "ssh" => s = NoSource
        /\ made' = e
        /\ kind' = [kind EXCEPT ![e] = k]
        /\ source' = src
        /\ authId' = [authId EXCEPT ![e] = id]
        /\ inner' = Without(with, gone)
        /\ dropping' = dropping \cup gone \cup ({inner[id]} \ {None})
        /\ usedBefore' = {p \in usedBefore : p[1] \in stay /\ p[2] \in stay}
                             \cup {<<x, e>> : x \in stay \ {e}}
        /\ pc' = [pc EXCEPT ![c] = "idle"]
        /\ UNCHANGED <<verdictVars, expiredUpTo, held, consuming, notified>>

-----------------------------------------------------------------------------
\* get_entry after its prune: the caller goes on at label with the Arc.

GetEntry(c, id, label) ==
    /\ pc[c] = "pruned"
    /\ IF inner[id] = None
       THEN /\ pc' = [pc EXCEPT ![c] = "idle"]
            /\ UNCHANGED <<held, usedBefore>>
       ELSE /\ pc' = [pc EXCEPT ![c] = label]
            /\ held' = [held EXCEPT ![c] = inner[id]]
            /\ usedBefore' = Touch(inner[id])
    /\ UNCHANGED <<inner, entryVars, verdictVars, expiredUpTo, dropping, notified>>

\* approve_without_node and reject: look the entry up, then decide it.
StartApprove(c, id) == GetEntry(c, id, "approve") /\ UNCHANGED consuming
StartReject(c, id) == GetEntry(c, id, "reject") /\ UNCHANGED consuming

Decide(c) ==
    /\ pc[c] \in {"approve", "reject"}
    /\ SetVerdict(held[c], IF pc[c] = "approve" THEN "approved" ELSE "rejected")
    /\ pc' = [pc EXCEPT ![c] = "idle"]
    /\ held' = [held EXCEPT ![c] = None]
    /\ UNCHANGED <<inner, entryVars, consumed, told, consumers, expiredUpTo,
                   usedBefore, dropping, consuming>>

\* pending_registration_completion: an undecided registration is admitted
\* and its Arc kept across the registration lock and the database work.
Admit(c, id) ==
    LET e == inner[id]
        ok == e # None /\ kind[e] = "registration" /\ outcome[e] = "none"
    IN  GetEntry(c, id, IF ok THEN "admitted" ELSE "refused") /\ UNCHANGED consuming

\* finish_registration: the verdict goes to the admitted entry ...
FinishRegistration(c) ==
    /\ pc[c] = "admitted"
    /\ SetVerdict(held[c], "registered")
    /\ pc' = [pc EXCEPT ![c] = "settle"]
    /\ UNCHANGED <<inner, entryVars, consumed, told, consumers, expiredUpTo,
                   usedBefore, dropping, held, consuming>>

\* Mutant: by id, without Arc::ptr_eq.
ExpireCurrentById(e) ==
    /\ inner' = [inner EXCEPT ![authId[e]] = None]
    /\ dropping' = dropping \cup ({inner[authId[e]]} \ {None})

\* Mutant: the entry is removed and expire() forgotten.
ExpireIfCurrentSilently(e) ==
    /\ inner' = IF inner[authId[e]] = e THEN Without(inner, {e}) ELSE inner
    /\ dropping' = dropping

\* expire_if_current: only the entry the caller holds leaves the map.
ExpireIfCurrent(e) ==
    LET current == inner[authId[e]] = e
    IN  /\ inner' = IF current THEN Without(inner, {e}) ELSE inner
        /\ dropping' = IF current THEN dropping \cup {e} ELSE dropping

\* ... and then that entry, unless it was replaced, leaves the map.
SettleRegistration(c) ==
    /\ pc[c] = "settle"
    /\ ExpireIfCurrent(held[c])
    /\ pc' = [pc EXCEPT ![c] = "idle"]
    /\ held' = [held EXCEPT ![c] = None]
    /\ UNCHANGED <<entryVars, verdictVars, expiredUpTo, usedBefore, consuming,
                   notified>>

\* A refused caller, or one whose database work failed, lets its Arc go.
Abandon(c) ==
    /\ pc[c] \in {"admitted", "refused"}
    /\ pc' = [pc EXCEPT ![c] = "idle"]
    /\ held' = [held EXCEPT ![c] = None]
    /\ UNCHANGED <<inner, entryVars, verdictVars, expiredUpTo, usedBefore,
                   dropping, consuming, notified>>

\* remove: a registration is taken out by id and expired.
Remove(c, id) ==
    /\ pc[c] = "idle"
    /\ inner[id] # None
    /\ kind[inner[id]] = "registration"
    /\ inner' = [inner EXCEPT ![id] = None]
    /\ dropping' = dropping \cup {inner[id]}
    /\ UNCHANGED <<entryVars, verdictVars, expiredUpTo, usedBefore, taskVars>>

\* complete: taken out by id, and registered after the guard is released.
CompleteRemove(c, id) ==
    /\ pc[c] = "idle"
    /\ inner[id] # None
    /\ kind[inner[id]] = "registration"
    /\ inner' = [inner EXCEPT ![id] = None]
    /\ pc' = [pc EXCEPT ![c] = "complete"]
    /\ held' = [held EXCEPT ![c] = inner[id]]
    /\ UNCHANGED <<entryVars, verdictVars, expiredUpTo, usedBefore, dropping,
                   consuming, notified>>

Complete(c) ==
    /\ pc[c] = "complete"
    /\ SetVerdict(held[c], "registered")
    /\ pc' = [pc EXCEPT ![c] = "idle"]
    /\ held' = [held EXCEPT ![c] = None]
    /\ UNCHANGED <<inner, entryVars, consumed, told, consumers, expiredUpTo,
                   usedBefore, dropping, consuming>>

-----------------------------------------------------------------------------
\* wait_for_registration, wait_for_auth (consume FALSE) and
\* wait_for_ssh_auth (consume TRUE).

StartWait(c, id, consume) ==
    /\ GetEntry(c, id, "arm")
    /\ consuming' = [consuming EXCEPT ![c] = consume /\ inner[id] # None]

\* The Notified future is made before the outcome is read.
Arm(c) ==
    /\ pc[c] = "arm"
    /\ notified' = [notified EXCEPT ![c] = FALSE]
    /\ pc' = [pc EXCEPT ![c] = "read"]
    /\ UNCHANGED <<inner, entryVars, verdictVars, expiredUpTo, usedBefore,
                   dropping, held, consuming>>

\* Mutant: the swap's result is ignored.
GrantsAlways(c) == TRUE

\* A consuming waiter gets the verdict if it is the first to swap the flag.
Grants(c) == ~consuming[c] \/ ~consumed[held[c]]

\* A verdict is returned; to consuming waiters only the first time.
Answer(c) ==
    LET e == held[c]
        grant == Grants(c)
    IN  /\ pc[c] = "read"
        /\ outcome[e] # "none"
        /\ consumed' = IF consuming[c] THEN [consumed EXCEPT ![e] = TRUE] ELSE consumed
        /\ told' = IF grant THEN [told EXCEPT ![e] = @ \cup {outcome[e]}] ELSE told
        /\ consumers' = IF grant /\ consuming[c]
                        THEN [consumers EXCEPT ![e] = @ + 1]
                        ELSE consumers
        /\ pc' = [pc EXCEPT ![c] = "idle"]
        /\ held' = [held EXCEPT ![c] = None]
        /\ consuming' = [consuming EXCEPT ![c] = FALSE]
        /\ notified' = [notified EXCEPT ![c] = FALSE]
        /\ UNCHANGED <<inner, entryVars, outcome, expiredUpTo, usedBefore, dropping>>

\* The outcome is read and there is none yet.
ReadUndecided(c) ==
    /\ pc[c] = "read"
    /\ outcome[held[c]] = "none"
    /\ pc' = [pc EXCEPT ![c] = "undecided"]
    /\ UNCHANGED <<inner, entryVars, verdictVars, expiredUpTo, usedBefore,
                   dropping, held, consuming, notified>>

\* Deadline over: expire the entry if it is current, look again.
FindExpired(c) ==
    /\ pc[c] = "undecided"
    /\ Expired(held[c])
    /\ ExpireIfCurrent(held[c])
    /\ pc' = [pc EXCEPT ![c] = "arm"]
    /\ UNCHANGED <<entryVars, verdictVars, expiredUpTo, usedBefore, held,
                   consuming, notified>>

Park(c) ==
    /\ pc[c] = "undecided"
    /\ ~Expired(held[c])
    /\ pc' = [pc EXCEPT ![c] = "parked"]
    /\ UNCHANGED <<inner, entryVars, verdictVars, expiredUpTo, usedBefore,
                   dropping, held, consuming, notified>>

\* tokio::select!: the notification, or the deadline.
Wake(c) ==
    /\ pc[c] = "parked"
    /\ notified[c]
    /\ pc' = [pc EXCEPT ![c] = "arm"]
    /\ UNCHANGED <<inner, entryVars, verdictVars, expiredUpTo, usedBefore,
                   dropping, held, consuming, notified>>

\* Mutant: a wait for an SSH verdict has no deadline of its own.
WaitTimeoutRegistration(c) ==
    /\ ~consuming[c]
    /\ pc[c] = "parked"
    /\ Expired(held[c])
    /\ ExpireIfCurrent(held[c])
    /\ pc' = [pc EXCEPT ![c] = "arm"]
    /\ UNCHANGED <<entryVars, verdictVars, expiredUpTo, usedBefore, held,
                   consuming, notified>>

WaitTimeout(c) ==
    /\ pc[c] = "parked"
    /\ Expired(held[c])
    /\ ExpireIfCurrent(held[c])
    /\ pc' = [pc EXCEPT ![c] = "arm"]
    /\ UNCHANGED <<entryVars, verdictVars, expiredUpTo, usedBefore, held,
                   consuming, notified>>

\* The client hangs up and its parked future is dropped.
CancelWait(c) ==
    /\ pc[c] = "parked"
    /\ pc' = [pc EXCEPT ![c] = "idle"]
    /\ held' = [held EXCEPT ![c] = None]
    /\ consuming' = [consuming EXCEPT ![c] = FALSE]
    /\ notified' = [notified EXCEPT ![c] = FALSE]
    /\ UNCHANGED <<inner, entryVars, verdictVars, expiredUpTo, usedBefore, dropping>>

\* Mutant: deadlines of entries that do not exist yet pass as well.
DeadlinePassesEarly ==
    /\ expiredUpTo < MaxCreated
    /\ expiredUpTo' = expiredUpTo + 1
    /\ UNCHANGED <<inner, entryVars, verdictVars, usedBefore, dropping, taskVars>>

\* The next deadline passes.
DeadlinePasses ==
    /\ expiredUpTo < made
    /\ expiredUpTo' = expiredUpTo + 1
    /\ UNCHANGED <<inner, entryVars, verdictVars, usedBefore, dropping, taskVars>>

-----------------------------------------------------------------------------

Init ==
    /\ inner = [i \in AuthIds |-> None]
    /\ made = 0
    /\ kind = [e \in Entry |-> "registration"]
    /\ source = [e \in Entry |-> NoSource]
    /\ authId = [e \in Entry |-> None]
    /\ outcome = [e \in Entry |-> "none"]
    /\ consumed = [e \in Entry |-> FALSE]
    /\ expiredUpTo = 0
    /\ usedBefore = {}
    /\ dropping = {}
    /\ pc = [c \in Callers |-> "idle"]
    /\ held = [c \in Callers |-> None]
    /\ consuming = [c \in Callers |-> FALSE]
    /\ notified = [c \in Callers |-> FALSE]
    /\ told = [e \in Entry |-> {}]
    /\ consumers = [e \in Entry |-> 0]

\* What a call may begin with.
Call(c) ==
    \/ PruneExpired(c)
    \/ \E id \in AuthIds :
          \/ \E k \in Kinds, s \in Sources \cup {NoSource} : InsertEntry(c, id, k, s)
          \/ StartApprove(c, id)
          \/ StartReject(c, id)
          \/ Admit(c, id)
          \/ Remove(c, id)
          \/ CompleteRemove(c, id)
          \/ \E consume \in BOOLEAN : StartWait(c, id, consume)

\* What a wait does by itself once it holds its entry.
WaitStep(c) ==
    \/ Arm(c)
    \/ Answer(c)
    \/ ReadUndecided(c)
    \/ FindExpired(c)
    \/ Park(c)
    \/ Wake(c)
    \/ WaitTimeout(c)

Next ==
    \/ DeadlinePasses
    \/ \E e \in Entry : ExpireDropped(e)
    \/ \E c \in Callers :
          \/ Call(c)
          \/ Decide(c)
          \/ FinishRegistration(c)
          \/ SettleRegistration(c)
          \/ Abandon(c)
          \/ Complete(c)
          \/ WaitStep(c)
          \/ CancelWait(c)

\* Time passes, and a task that is past its last await keeps running.
Fairness ==
    /\ WF_vars(DeadlinePasses)
    /\ \A e \in Entry : WF_vars(ExpireDropped(e))
    /\ \A c \in Callers : WF_vars(WaitStep(c)) /\ WF_vars(Complete(c))

Spec == Init /\ [][Next]_vars
FairSpec == Spec /\ Fairness
-----------------------------------------------------------------------------
\* Every piece of state has its type, and only the deadlines of created
\* entries pass.
TypeOK ==
    /\ inner \in [AuthIds -> Entry \cup {None}]
    /\ made \in 0 .. MaxCreated
    /\ kind \in [Entry -> Kinds]
    /\ source \in [Entry -> Sources \cup {NoSource}]
    /\ authId \in [Entry -> AuthIds \cup {None}]
    /\ outcome \in [Entry -> Verdicts \cup {"none"}]
    /\ consumed \in [Entry -> BOOLEAN]
    /\ expiredUpTo \in 0 .. made
    /\ usedBefore \subseteq Entry \X Entry
    /\ dropping \subseteq Entry
    /\ pc \in [Callers -> Waiting \cup {"idle", "pruned", "approve", "reject",
                                        "admitted", "refused", "settle", "complete"}]
    /\ held \in [Callers -> Entry \cup {None}]
    /\ consuming \in [Callers -> BOOLEAN]
    /\ notified \in [Callers -> BOOLEAN]
    /\ told \in [Entry -> SUBSET Verdicts]
    /\ consumers \in [Entry -> Nat]

\* An entry that left the map without a verdict is always about to get one:
\* whoever removed it (prune, replacement, eviction, remove, complete, a
\* waiter's own timeout) still owes it expire() or complete().  Were one
\* removal path to forget that call, tasks holding the Arc would wait on an
\* entry nobody can decide any more.
NoOrphan ==
    \A e \in 1 .. made :
        outcome[e] = "none" =>
            \/ inner[authId[e]] = e
            \/ e \in dropping
            \/ \E c \in Callers : pc[c] = "complete" /\ held[c] = e

\* A waiter never sleeps through a verdict: when the entry it is parked on
\* has one, its notification is already there.  This is what creating the
\* Notified future before reading the outcome is for.
NoLostWakeup ==
    \A c \in Callers :
        pc[c] = "parked" /\ outcome[held[c]] # "none" => notified[c]

\* All waiters of one entry are told the same verdict, whatever approvals,
\* rejections, completions, evictions and timeouts raced for it.
OneVerdictPerEntry == \A e \in Entry : Cardinality(told[e]) <= 1

\* At most one wait_for_ssh_auth call per entry gets the verdict.
SshVerdictConsumedOnce == \A e \in Entry : consumers[e] <= 1

\* An admitted completion decides and removes its own entry only, never a
\* newer one that was installed under the same auth id meanwhile.
CompletionNotRedirected ==
    [][\A c \in Callers :
         pc[c] \in {"admitted", "settle"} /\ pc'[c] # pc[c] =>
            /\ \A e \in Entry \ {held[c]} : outcome'[e] = outcome[e]
            /\ \A i \in AuthIds : inner[i] # held[c] => inner'[i] = inner[i]]_vars

\* After an insert the cache holds at most max_entries entries, and the source
\* at most the quota of pending ones while somebody else has one, whatever
\* other inserts were under way.
LimitsHold ==
    [][made' = made + 1 =>
        LET s == source'[made']
            mine == {x \in Cached(inner') : source'[x] = s /\ Pending(x)'}
            others == {x \in Cached(inner') : source'[x] # s /\ Pending(x)'}
        IN  /\ Cardinality(Cached(inner')) <= MaxEntries
            /\ s # NoSource /\ others # {} => Cardinality(mine) <= Quota]_vars

\* A flood pays for itself: while some source has two entries or more,
\* nobody's insert under another id costs a party its only pending entry,
\* nor an internal caller any pending entry.
LoneEntrySurvives ==
    [][made' = made + 1 =>
        LET id == authId'[made']
            before == Cached(inner) \ {inner[id]}
            Crowded(s) == Cardinality({x \in before \cup {made'} : source'[x] = s}) > 1
        IN  \A e \in before :
               /\ Pending(e)
               /\ source[e] = NoSource \/ ~Crowded(source[e])
               /\ \E s \in Sources : Crowded(s)
               => e \in Cached(inner')]_vars
=============================================================================
