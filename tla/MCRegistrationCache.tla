----------------------- MODULE MCRegistrationCache -----------------------
(***************************************************************************)
(* Instances of RegistrationCache for TLC.                                 *)
(***************************************************************************)
EXTENDS RegistrationCache, TLC

CONSTANTS a1, a2, a3, a4, s1, s2, c1, c2

IdSymmetry == {p @@ q : p \in Permutations(AuthIds), q \in Permutations(Sources)}

\* Inserts, look-ups and verdicts, with nobody waiting.  The owed expire()
\* comes at once: who is evicted does not depend on when it comes.
EvictionTask(c) ==
    \/ PruneExpired(c)
    \/ \E id \in AuthIds :
          \/ \E s \in Sources \cup {NoSource} : InsertEntry(c, id, "registration", s)
          \/ StartApprove(c, id)
    \/ Decide(c)

EvictionSpec ==
    Init /\ [][IF dropping # {} THEN \E e \in Entry : ExpireDropped(e)
               ELSE DeadlinePasses \/ \E c \in Callers : EvictionTask(c)]_vars

\* Verdicts and waits.  Callers are interchangeable and an insert leaves its
\* caller idle, so of two entries the second may be taken to be inserted by c2,
\* whatever c1 is doing then, and the first too, since nobody holds an entry
\* yet.  Of the fairness, the part that the waits of c1 need.
VerdictSpec ==
    /\ Init
    /\ [][Next /\ (made' # made => pc'[c1] = pc[c1])]_vars
    /\ WF_vars(DeadlinePasses)
    /\ WF_vars(\E e \in Entry : ExpireDropped(e))
    /\ WF_vars(WaitStep(c1))
    /\ WF_vars(Complete(c2))

\* Every wait that is not cancelled returns: a verdict, an eviction or the
\* deadline ends it (wait_for_registration).  The callers are interchangeable,
\* so the waits of one of them stand for all.
WaiterAnswered == pc[c1] \in Waiting ~> pc[c1] = "idle"
=============================================================================
