----------------------------- MODULE NodeStore -----------------------------
(***************************************************************************)
(* What the NodeStore promises its callers: writes take effect in some     *)
(* order, each at most once, and a caller returns only after the map that  *)
(* contains its write was published.  Writes that are published together   *)
(* answer for the map they leave together.                                 *)
(*                                                                         *)
(* Only an update may be refused, and only an update may be abandoned by   *)
(* its caller; a registration, a rekeying and a deletion always happen.    *)
(***************************************************************************)
EXTENDS NodeStoreWrites, SequencesExt

VARIABLES
    store,      \* the published map
    call,       \* caller -> its write, None between calls
    answer      \* caller -> what it is told, None before

vars == <<store, call, answer>>

Update == {"update", "connect", "patch", "many", "approve"}

Waiting == {c \in Callers : call[c] # None /\ answer[c] = None}

Call(c, w) ==
    /\ call[c] = None
    /\ call' = [call EXCEPT ![c] = w]
    /\ UNCHANGED <<store, answer>>

\* The callers q have their writes published.
Commit(q) ==
    /\ store' = MapAfter(call, q, store)
    /\ answer' = [c \in Callers |->
                     IF c \in ToSet(q)
                     THEN AnswerOf(call, q, store, CHOOSE i \in DOMAIN q : q[i] = c)
                     ELSE answer[c]]
    /\ UNCHANGED call

Refuse(c) ==
    /\ c \in Waiting
    /\ call[c].kind \in Update
    /\ answer' = [answer EXCEPT ![c] = {}]
    /\ UNCHANGED <<store, call>>

Return(c) ==
    /\ call[c] # None
    /\ answer[c] # None \/ call[c].kind \in Update
    /\ call' = [call EXCEPT ![c] = None]
    /\ answer' = [answer EXCEPT ![c] = None]
    /\ UNCHANGED store

Init ==
    /\ store = [k \in Keys |-> None]
    /\ call = [c \in Callers |-> None]
    /\ answer = [c \in Callers |-> None]

Next ==
    \/ \E c \in Callers :
          \/ \E w \in Writes : Call(c, w)
          \/ Refuse(c)
          \/ Return(c)
    \/ \E q \in SetToAllKPermutations(Waiting) : q # <<>> /\ Commit(q)

Spec == Init /\ [][Next]_vars
=============================================================================
