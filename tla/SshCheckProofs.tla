--------------------------- MODULE SshCheckProofs ---------------------------
(***************************************************************************)
(* Proofs about SshCheck, for every policy, every set of requests and      *)
(* holds, and every bound on the clock and on the reloads.                 *)
(*                                                                         *)
(* An accepted connection is justified by what happened several steps and  *)
(* several actors earlier: the hold that was made for the pair, the        *)
(* verdict a person gave, the request that took it and the approval it     *)
(* left behind.  The invariant keeps that chain together while holds       *)
(* expire, policies are replaced and other requests wait on the same hold. *)
(***************************************************************************)
EXTENDS SshCheck, TLAPS

\* A request that waits, or has been let through but not yet answered, names
\* a hold that was made for its own pair.
RequestsBound ==
    \A c \in Clients :
        pc[c] \in {"waiting", "granted"} =>
            /\ req[c] \in Request
            /\ req[c].id # None
            /\ binding[req[c].id] = req[c].pair

\* A request that was let through took an approval nobody else has, and
\* nobody else had before.
TakenAlone ==
    \A c \in Clients :
        pc[c] = "granted" =>
            /\ outcome[req[c].id] = "approved"
            /\ req[c].id \in consumed
            /\ \A g \in grants : g.id # req[c].id
            /\ \A d \in Clients \ {c} : pc[d] = "granted" => req[d].id # req[c].id

\* An accepted follow-up was approved by a person, for its own pair, and its
\* hold is spent.
GrantsApproved ==
    \A g \in grants :
        /\ binding[g.id] = g.pair
        /\ outcome[g.id] = "approved"
        /\ g.id \in consumed

\* What is remembered of a pair is an accepted follow-up of that pair.
MemoryFromGrants ==
    \A p \in Pairs :
        memory[p] # None =>
            \E g \in grants : g.pair = p /\ g.at = memory[p].at /\ g.epoch = memory[p].epoch

Inv == TypeOK /\ RequestsBound /\ TakenAlone /\ GrantsApproved /\ MemoryFromGrants

-----------------------------------------------------------------------------
\* Lemmas about the pieces of a step.

\* A new hold is a hold nobody has: the others keep their pairs.
LEMMA NewHoldStep ==
    ASSUME TypeOK, NEW p \in Pairs, NewHold(p)
    PROVE  /\ binding' \in [AuthIds -> Pairs \cup {None}]
           /\ cached' \subseteq AuthIds
           /\ outcome' = outcome
           /\ \A id \in AuthIds : binding[id] # None => binding'[id] = binding[id]
           /\ \A id \in AuthIds : id \in cached' => binding'[id] # None
BY SshCheckAssumption DEF TypeOK, NewHold

\* The types of what a request is told, and of the tables of the requests.
LEMMA TellStep ==
    ASSUME TypeOK, NEW c \in Clients, NEW r \in Request,
           NEW told \in {"none", "accept", "reject", "hold", "error"}, Tell(c, r, told)
    PROVE  /\ pc' \in [Clients -> {"idle", "waiting", "granted", "answered"}]
           /\ req' \in [Clients -> Request \cup {None}]
           /\ answer' \in [Clients -> {"none", "accept", "reject", "hold", "error"}]
           /\ pc'[c] = "answered" /\ req'[c] = r /\ answer'[c] = told
           /\ \A d \in Clients \ {c} :
                 pc'[d] = pc[d] /\ req'[d] = req[d] /\ answer'[d] = answer[d]
BY DEF TypeOK, Tell

\* A hold keeps its pair, a verdict is final, a spent hold stays spent.
HoldsStable ==
    /\ \A id \in AuthIds : binding[id] # None => binding'[id] = binding[id]
    /\ \A id \in AuthIds : outcome[id] # "none" => outcome'[id] = outcome[id]
    /\ consumed \subseteq consumed'

\* A request that asks, or follows a hold, moves alone; no approval is taken.
LEMMA AskStep ==
    ASSUME Inv, NEW c \in Clients, NEW r \in Request, Ask(c, r) \/ FollowUp(c, r)
    PROVE  /\ TypeOK' /\ HoldsStable
           /\ pc'[c] \in {"waiting", "answered"}
           /\ pc'[c] = "waiting" => req'[c] = r /\ r.id # None /\ binding'[r.id] = r.pair
           /\ \A d \in Clients \ {c} :
                 pc'[d] = pc[d] /\ req'[d] = req[d] /\ answer'[d] = answer[d]
           /\ UNCHANGED <<policyVars, now, memory, consumed, grants, outcome>>
<1>1. r.pair \in Pairs /\ r.id \in AuthIds \cup {None}
    BY DEF Request
<1>2. ASSUME NewHold(r.pair), Tell(c, r, "hold"),
             UNCHANGED <<policyVars, now, memory, consumed, grants>>
      PROVE  /\ TypeOK' /\ HoldsStable /\ UNCHANGED outcome
             /\ pc'[c] = "answered"
             /\ \A d \in Clients \ {c} :
                   pc'[d] = pc[d] /\ req'[d] = req[d] /\ answer'[d] = answer[d]
  <2>1. TypeOK
      BY DEF Inv
  <2>2. /\ binding' \in [AuthIds -> Pairs \cup {None}]
        /\ cached' \subseteq AuthIds /\ outcome' = outcome
        /\ \A id \in AuthIds : binding[id] # None => binding'[id] = binding[id]
        /\ \A id \in AuthIds : id \in cached' => binding'[id] # None
      BY <1>1, <1>2, <2>1, NewHoldStep
  <2>3. /\ pc' \in [Clients -> {"idle", "waiting", "granted", "answered"}]
        /\ req' \in [Clients -> Request \cup {None}]
        /\ answer' \in [Clients -> {"none", "accept", "reject", "hold", "error"}]
        /\ pc'[c] = "answered"
        /\ \A d \in Clients \ {c} :
              pc'[d] = pc[d] /\ req'[d] = req[d] /\ answer'[d] = answer[d]
      BY <1>2, <2>1, TellStep
  <2> QED
      BY <1>2, <2>1, <2>2, <2>3 DEF TypeOK, HoldsStable, policyVars
<1>3. ASSUME NEW told \in {"accept", "reject", "error"}, Tell(c, r, told),
             UNCHANGED <<cached, binding, outcome>>,
             UNCHANGED <<policyVars, now, memory, consumed, grants>>
      PROVE  /\ TypeOK' /\ HoldsStable
             /\ pc'[c] = "answered"
             /\ \A d \in Clients \ {c} :
                   pc'[d] = pc[d] /\ req'[d] = req[d] /\ answer'[d] = answer[d]
    BY <1>3, TellStep DEF Inv, TypeOK, HoldsStable, policyVars
<1>4. ASSUME pc' = [pc EXCEPT ![c] = "waiting"], req' = [req EXCEPT ![c] = r],
             UNCHANGED <<answer, cached, binding, outcome>>,
             UNCHANGED <<policyVars, now, memory, consumed, grants>>
      PROVE  /\ TypeOK' /\ HoldsStable
             /\ pc'[c] = "waiting" /\ req'[c] = r
             /\ \A d \in Clients \ {c} :
                   pc'[d] = pc[d] /\ req'[d] = req[d] /\ answer'[d] = answer[d]
    BY <1>4 DEF Inv, TypeOK, HoldsStable, policyVars
<1>5. CASE Ask(c, r)
    BY <1>2, <1>3, <1>5 DEF Ask, TellHold
<1>6. CASE FollowUp(c, r)
    BY <1>2, <1>3, <1>4, <1>6 DEF FollowUp, TellHold
<1> QED
    BY <1>5, <1>6

\* The end of a wait: one request takes the verdict, the others hold again.
LEMMA WaitEndsStep ==
    ASSUME Inv, NEW c \in Clients, WaitEnds(c)
    PROVE  /\ TypeOK' /\ HoldsStable
           /\ pc'[c] \in {"granted", "answered"}
           /\ pc'[c] = "granted" =>
                 /\ req'[c] = req[c] /\ req[c].id \notin consumed
                 /\ outcome[req[c].id] = "approved" /\ req[c].id \in consumed'
           /\ \A d \in Clients \ {c} :
                 pc'[d] = pc[d] /\ req'[d] = req[d] /\ answer'[d] = answer[d]
           /\ answer'[c] # "accept" \/ answer'[c] = answer[c]
           /\ UNCHANGED <<policyVars, now, memory, grants, outcome>>
<1> DEFINE id == req[c].id
<1>1. /\ req[c] \in Request /\ req[c].pair \in Pairs
      /\ id \in AuthIds /\ binding[id] # None
    BY SshCheckAssumption DEF Inv, RequestsBound, WaitEnds, Request
<1>2. consumed' = consumed \cup {id} /\ outcome[id] # "none"
    BY DEF WaitEnds
<1>3. CASE id \in consumed
  <2>1. TypeOK /\ NewHold(req[c].pair) /\ Tell(c, req[c], "hold")
      BY <1>3 DEF WaitEnds, TellHold, Inv
  <2>2. /\ binding' \in [AuthIds -> Pairs \cup {None}]
        /\ cached' \subseteq AuthIds /\ outcome' = outcome
        /\ \A i \in AuthIds : binding[i] # None => binding'[i] = binding[i]
        /\ \A i \in AuthIds : i \in cached' => binding'[i] # None
      BY <1>1, <2>1, NewHoldStep
  <2>3. /\ pc' \in [Clients -> {"idle", "waiting", "granted", "answered"}]
        /\ req' \in [Clients -> Request \cup {None}]
        /\ answer' \in [Clients -> {"none", "accept", "reject", "hold", "error"}]
        /\ pc'[c] = "answered" /\ answer'[c] = "hold"
        /\ \A d \in Clients \ {c} :
              pc'[d] = pc[d] /\ req'[d] = req[d] /\ answer'[d] = answer[d]
      BY <1>1, <2>1, TellStep
  <2>4. UNCHANGED <<policyVars, now, memory, grants>>
      BY DEF WaitEnds
  <2> QED
      BY <1>1, <1>2, <1>3, <2>1, <2>2, <2>3, <2>4 DEF TypeOK, HoldsStable, policyVars
<1>4. CASE id \notin consumed /\ outcome[id] = "approved"
    BY <1>1, <1>4 DEF WaitEnds, Inv, TypeOK, HoldsStable, policyVars
<1>5. CASE id \notin consumed /\ outcome[id] # "approved"
  <2>1. Tell(c, req[c], "reject") /\ UNCHANGED <<cached, binding, outcome>>
      BY <1>5 DEF WaitEnds
  <2> QED
      BY <1>1, <1>2, <1>5, <2>1, TellStep DEF WaitEnds, Inv, TypeOK, HoldsStable, policyVars
<1> QED
    BY <1>3, <1>4, <1>5

\* The steps that end a request without accepting it.
LEMMA EndStep ==
    ASSUME Inv, NEW c \in Clients, CancelWait(c) \/ Return(c)
    PROVE  /\ TypeOK' /\ HoldsStable
           /\ pc'[c] \in {"answered", "idle"}
           /\ answer'[c] # "accept"
           /\ \A d \in Clients \ {c} :
                 pc'[d] = pc[d] /\ req'[d] = req[d] /\ answer'[d] = answer[d]
           /\ UNCHANGED <<policyVars, now, memory, grants, holdVars>>
<1>1. CASE CancelWait(c)
    BY <1>1, TellStep DEF CancelWait, Inv, RequestsBound, TypeOK, HoldsStable, policyVars, holdVars
<1>2. CASE Return(c)
    BY <1>2 DEF Return, Inv, TypeOK, HoldsStable, policyVars, holdVars
<1> QED
    BY <1>1, <1>2

\* The second look at the policy: the approval is remembered, or dropped.
LEMMA GrantStep ==
    ASSUME Inv, NEW c \in Clients, Grant(c)
    PROVE  /\ TypeOK' /\ HoldsStable
           /\ pc'[c] = "answered" /\ req'[c] = req[c]
           /\ answer'[c] = "accept" => PeriodOf(req[c]) # NoRule
           /\ \/ UNCHANGED <<memory, grants>>
              \/ Remember(c)
           /\ \A d \in Clients \ {c} :
                 pc'[d] = pc[d] /\ req'[d] = req[d] /\ answer'[d] = answer[d]
           /\ UNCHANGED <<policyVars, now, holdVars>>
<1>1. /\ req[c] \in Request /\ req[c].pair \in Pairs /\ req[c].id \in AuthIds
    BY DEF Inv, RequestsBound, Grant, Request
<1>2. UNCHANGED <<policyVars, now, holdVars>>
    BY DEF Grant
<1>3. CASE PeriodOf(req[c]) = NoRule
    BY <1>1, <1>2, <1>3, TellStep DEF Grant, Inv, TypeOK, HoldsStable, policyVars, holdVars
<1>4. CASE PeriodOf(req[c]) # NoRule
  <2>1. Tell(c, req[c], "accept") /\ Remember(c)
      BY <1>4 DEF Grant
  <2>2. memory' \in [Pairs -> Record \cup {None}] /\ grants' \subseteq Granted
      BY <1>1, <2>1 DEF Remember, Inv, TypeOK, Record, Granted
  <2> QED
      BY <1>1, <1>2, <1>4, <2>1, <2>2, TellStep DEF Inv, TypeOK, HoldsStable, policyVars, holdVars
<1> QED
    BY <1>3, <1>4

\* Verdicts and expiry change a hold that is undecided.
LEMMA VerdictStep ==
    ASSUME Inv, NEW id \in AuthIds,
           (\E v \in {"approved", "rejected"} : GiveVerdict(id, v)) \/ ExpireHold(id)
    PROVE  TypeOK' /\ HoldsStable /\ UNCHANGED <<policyVars, now, memory, grants, taskVars>>
<1>1. CASE \E v \in {"approved", "rejected"} : GiveVerdict(id, v)
    BY <1>1 DEF GiveVerdict, Inv, TypeOK, Outcomes, HoldsStable, policyVars, taskVars
<1>2. CASE ExpireHold(id)
    BY <1>2 DEF ExpireHold, Inv, TypeOK, Outcomes, HoldsStable, policyVars, taskVars
<1> QED
    BY <1>1, <1>2

\* Reloads and the clock leave holds and requests alone; approvals are kept
\* or forgotten.
LEMMA PolicyStep ==
    ASSUME Inv,
           \/ \E d \in Docs, forget \in BOOLEAN : SetPolicy(d, forget)
           \/ InvalidateSshAuth \/ ClearSshAuth \/ Tick
    PROVE  /\ TypeOK' /\ HoldsStable
           /\ \A p \in Pairs : memory'[p] # None => memory'[p] = memory[p]
           /\ UNCHANGED <<grants, holdVars, taskVars>>
<1>1. CASE \E d \in Docs, forget \in BOOLEAN : SetPolicy(d, forget)
    BY <1>1, SshCheckAssumption DEF SetPolicy, Inv, TypeOK, HoldsStable, holdVars, taskVars
<1>2. CASE InvalidateSshAuth
    BY <1>2, SshCheckAssumption DEF InvalidateSshAuth, Inv, TypeOK, HoldsStable, holdVars, taskVars
<1>3. CASE ClearSshAuth
    BY <1>3 DEF ClearSshAuth, Inv, TypeOK, HoldsStable, holdVars, taskVars
<1>4. CASE Tick
    BY <1>4, SshCheckAssumption DEF Tick, Inv, TypeOK, HoldsStable, holdVars, taskVars, policyVars
<1> QED
    BY <1>1, <1>2, <1>3, <1>4

-----------------------------------------------------------------------------
\* The invariant.

\* No hold is made yet, and nobody waits.
LEMMA InitInv == ASSUME Init PROVE Inv
<1>1. TypeOK
  <2>1. MaxEpoch \in Nat /\ MaxTime \in Nat
      BY SshCheckAssumption
  <2>2. /\ doc \in Docs /\ epoch \in 0..MaxEpoch /\ updatedAt \in 0..MaxTime
        /\ now \in 0..MaxTime
      BY <2>1 DEF Init
  <2>3. /\ clearing \in BOOLEAN
        /\ memory \in [Pairs -> Record \cup {None}]
        /\ req \in [Clients -> Request \cup {None}]
        /\ binding \in [AuthIds -> Pairs \cup {None}]
        /\ outcome \in [AuthIds -> Outcomes]
      BY DEF Init, Outcomes
  <2> QED
      BY <2>2, <2>3 DEF Init, TypeOK
<1>2. RequestsBound /\ TakenAlone
    BY DEF Init, RequestsBound, TakenAlone
<1>3. GrantsApproved /\ MemoryFromGrants
    BY DEF Init, GrantsApproved, MemoryFromGrants
<1> QED
    BY <1>1, <1>2, <1>3 DEF Inv

\* Accepted follow-ups stay justified while holds are stable.
LEMMA GrantsKept ==
    ASSUME Inv, HoldsStable, NEW g \in grants
    PROVE  /\ g.id \in AuthIds
           /\ binding'[g.id] = g.pair /\ outcome'[g.id] = "approved" /\ g.id \in consumed'
BY DEF Inv, GrantsApproved, HoldsStable, TypeOK, Granted

\* A request that keeps waiting, or keeps its approval, keeps its hold.
LEMMA RequestKept ==
    ASSUME Inv, HoldsStable, NEW c \in Clients, pc[c] \in {"waiting", "granted"}
    PROVE  /\ req[c] \in Request /\ req[c].id \in AuthIds
           /\ binding'[req[c].id] = req[c].pair
           /\ pc[c] = "granted" => outcome'[req[c].id] = "approved" /\ req[c].id \in consumed'
<1>1. /\ req[c] \in Request /\ req[c].id \in AuthIds /\ req[c].pair \in Pairs
      /\ binding[req[c].id] = req[c].pair
    BY DEF Inv, RequestsBound, Request
<1> QED
    BY <1>1, SshCheckAssumption DEF Inv, TakenAlone, HoldsStable

\* Steps of the other actors: nobody begins to wait or takes an approval.
LEMMA OthersKeep ==
    ASSUME Inv, HoldsStable, UNCHANGED grants,
           \A c \in Clients : pc'[c] \in {"waiting", "granted"} =>
               pc[c] = pc'[c] /\ req[c] = req'[c]
    PROVE  RequestsBound' /\ TakenAlone' /\ GrantsApproved'
<1>1. RequestsBound'
    BY RequestKept, SshCheckAssumption DEF RequestsBound
<1>2. TakenAlone'
    BY RequestKept DEF TakenAlone, Inv
<1>3. GrantsApproved'
    BY GrantsKept DEF GrantsApproved
<1> QED
    BY <1>1, <1>2, <1>3

\* Every step preserves the invariant.
LEMMA NextInv == ASSUME Inv, [Next]_vars PROVE Inv'
<1>1. ASSUME NEW c \in Clients, NEW r \in Request, Ask(c, r) \/ FollowUp(c, r)
      PROVE  Inv'
  <2>1. /\ TypeOK' /\ HoldsStable
        /\ pc'[c] \in {"waiting", "answered"}
        /\ pc'[c] = "waiting" => req'[c] = r /\ r.id # None /\ binding'[r.id] = r.pair
        /\ \A d \in Clients \ {c} : pc'[d] = pc[d] /\ req'[d] = req[d]
        /\ UNCHANGED <<memory, grants>>
      BY <1>1, AskStep
  <2>2. RequestsBound'
      BY <2>1, RequestKept, SshCheckAssumption DEF RequestsBound
  <2>3. TakenAlone'
      BY <2>1, RequestKept DEF TakenAlone, Inv
  <2>4. GrantsApproved'
      BY <2>1, GrantsKept DEF GrantsApproved
  <2> QED
      BY <2>1, <2>2, <2>3, <2>4 DEF Inv, MemoryFromGrants
<1>2. ASSUME NEW c \in Clients, WaitEnds(c)
      PROVE  Inv'
  <2>1. /\ TypeOK' /\ HoldsStable
        /\ pc[c] = "waiting"
        /\ pc'[c] \in {"granted", "answered"}
        /\ pc'[c] = "granted" =>
              /\ req'[c] = req[c] /\ req[c].id \notin consumed
              /\ outcome[req[c].id] = "approved" /\ req[c].id \in consumed'
        /\ \A d \in Clients \ {c} : pc'[d] = pc[d] /\ req'[d] = req[d]
        /\ UNCHANGED <<memory, grants, outcome>>
      BY <1>2, WaitEndsStep DEF WaitEnds
  <2>2. RequestsBound'
      BY <2>1, RequestKept, SshCheckAssumption DEF RequestsBound
  <2>3. TakenAlone'
    <3>1. \A d \in Clients \ {c} : pc[d] = "granted" => req[d].id \in consumed
        BY DEF Inv, TakenAlone
    <3>2. \A g \in grants : g.id \in consumed
        BY DEF Inv, GrantsApproved
    <3> QED
        BY <2>1, <3>1, <3>2, RequestKept DEF TakenAlone, Inv
  <2>4. GrantsApproved'
      BY <2>1, GrantsKept DEF GrantsApproved
  <2> QED
      BY <2>1, <2>2, <2>3, <2>4 DEF Inv, MemoryFromGrants
<1>3. ASSUME NEW c \in Clients, Grant(c)
      PROVE  Inv'
  <2>1. /\ TypeOK' /\ HoldsStable /\ pc[c] = "granted"
        /\ pc'[c] = "answered" /\ req'[c] = req[c]
        /\ UNCHANGED <<memory, grants>> \/ Remember(c)
        /\ \A d \in Clients \ {c} : pc'[d] = pc[d] /\ req'[d] = req[d]
        /\ UNCHANGED <<binding, outcome, consumed>>
      BY <1>3, GrantStep DEF Grant, holdVars
  <2>2. CASE UNCHANGED <<memory, grants>>
    <3>1. RequestsBound' /\ TakenAlone' /\ GrantsApproved'
        BY <2>1, <2>2, OthersKeep
    <3> QED
        BY <2>1, <2>2, <3>1 DEF Inv, MemoryFromGrants
  <2>3. CASE Remember(c)
    <3> DEFINE g == [pair |-> req[c].pair, id |-> req[c].id, at |-> now, epoch |-> epoch]
    <3>1. /\ grants' = grants \cup {g}
          /\ memory' = [memory EXCEPT ![req[c].pair] =
                           [at |-> now, epoch |-> epoch, updatedAt |-> updatedAt]]
        BY <2>3 DEF Remember
    <3>2. RequestsBound'
        BY <2>1, RequestKept, SshCheckAssumption DEF RequestsBound
    <3>3. TakenAlone'
        BY <2>1, <3>1, RequestKept DEF TakenAlone, Inv
    <3>4. GrantsApproved'
        BY <2>1, <3>1, GrantsKept, RequestKept DEF GrantsApproved
    <3>5. MemoryFromGrants'
      <4>1. ASSUME NEW p \in Pairs, p # req[c].pair
            PROVE  memory'[p] = memory[p]
          BY <3>1, <4>1 DEF Inv, TypeOK
      <4>2. ASSUME NEW p \in Pairs, p = req[c].pair
            PROVE  g.pair = p /\ g.at = memory'[p].at /\ g.epoch = memory'[p].epoch
          BY <3>1, <4>2 DEF Inv, TypeOK
      <4> QED
        <5> SUFFICES ASSUME NEW p \in Pairs, memory'[p] # None
                     PROVE  \E h \in grants' : /\ h.pair = p /\ h.at = memory'[p].at
                                                /\ h.epoch = memory'[p].epoch
            BY DEF MemoryFromGrants
        <5>1. CASE p = req[c].pair
            BY <3>1, <4>2, <5>1
        <5>2. CASE p # req[c].pair
            BY <3>1, <4>1, <5>2 DEF MemoryFromGrants, Inv
        <5> QED
            BY <5>1, <5>2
    <3> QED
        BY <2>1, <3>2, <3>3, <3>4, <3>5 DEF Inv
  <2> QED
      BY <2>1, <2>2, <2>3
<1>4. ASSUME NEW c \in Clients, CancelWait(c) \/ Return(c)
      PROVE  Inv'
    BY <1>4, EndStep, OthersKeep DEF Inv, MemoryFromGrants
<1>5. ASSUME NEW id \in AuthIds,
             (\E v \in {"approved", "rejected"} : GiveVerdict(id, v)) \/ ExpireHold(id)
      PROVE  Inv'
    BY <1>5, VerdictStep, OthersKeep DEF Inv, MemoryFromGrants, taskVars
<1>6. ASSUME \/ \E d \in Docs, forget \in BOOLEAN : SetPolicy(d, forget)
             \/ InvalidateSshAuth \/ ClearSshAuth \/ Tick
      PROVE  Inv'
    BY <1>6, PolicyStep, OthersKeep DEF Inv, MemoryFromGrants, taskVars
<1>7. CASE UNCHANGED vars
    BY <1>7 DEF vars, policyVars, holdVars, taskVars, Inv, TypeOK, RequestsBound,
       TakenAlone, GrantsApproved, MemoryFromGrants
<1> QED
    BY <1>1, <1>2, <1>3, <1>4, <1>5, <1>6, <1>7 DEF Next

-----------------------------------------------------------------------------

\* In every history the chain from hold to verdict to request to remembered
\* approval is unbroken.
THEOREM Invariance == Spec => []Inv
BY InitInv, NextInv, PTL DEF Spec

\* The handlers of ssh.rs keep the state's shape; only holds that were made
\* are decided, and only decided ones are consumed.
THEOREM TypeCorrect == Spec => []TypeOK
<1>1. Inv => TypeOK
    BY DEF Inv
<1> QED
    BY <1>1, Invariance, PTL

\* Only a request without an id that finds the memory fresh, and an approved
\* follow-up, are ever accepted.
LEMMA AcceptingStep ==
    ASSUME Inv, Next, NEW c \in Clients, Accepts(c)
    PROVE  \/ \E r \in Request : /\ Ask(c, r) /\ req'[c] = r /\ r.id = None
                                 /\ PeriodOf(r) # NoRule /\ Remembered(r)
           \/ /\ Grant(c) /\ req'[c] = req[c] /\ req[c].id # None
              /\ PeriodOf(req[c]) # NoRule
<1>1. ASSUME NEW d \in Clients, NEW r \in Request, Ask(d, r)
      PROVE  d = c /\ req'[c] = r /\ r.id = None /\ PeriodOf(r) # NoRule /\ Remembered(r)
  <2>1. d = c
      BY <1>1, AskStep DEF Accepts
  <2>2. answer'[c] = "accept" /\ answer[c] # "accept"
      BY DEF Accepts
  <2>3. \A told : Tell(c, r, told) => answer'[c] = told /\ req'[c] = r
      BY DEF Tell, Inv, TypeOK
  <2> QED
      BY <1>1, <2>1, <2>2, <2>3 DEF Ask, TellHold
<1>2. ASSUME NEW d \in Clients, NEW r \in Request, FollowUp(d, r)
      PROVE  FALSE
  <2>1. d = c
      BY <1>2, AskStep DEF Accepts
  <2>2. answer'[c] = "accept" /\ answer[c] # "accept"
      BY DEF Accepts
  <2>3. \A told : Tell(c, r, told) => answer'[c] = told
      BY DEF Tell, Inv, TypeOK
  <2> QED
      BY <1>2, <2>1, <2>2, <2>3 DEF FollowUp, TellHold
<1>3. ASSUME NEW d \in Clients, Grant(d)
      PROVE  /\ Grant(c) /\ req'[c] = req[c] /\ req[c].id # None
             /\ PeriodOf(req[c]) # NoRule
  <2>1. d = c
      BY <1>3, GrantStep DEF Accepts
  <2> QED
      BY <1>3, <2>1, GrantStep DEF Accepts, Grant, Inv, RequestsBound
<1>4. ASSUME NEW d \in Clients, WaitEnds(d) \/ CancelWait(d) \/ Return(d)
      PROVE  FALSE
    BY <1>4, WaitEndsStep, EndStep DEF Accepts
<1>5. ~ UNCHANGED answer
    BY DEF Accepts
<1>6. ASSUME NEW id \in AuthIds,
             (\E v \in {"approved", "rejected"} : GiveVerdict(id, v)) \/ ExpireHold(id)
      PROVE  FALSE
    BY <1>5, <1>6, VerdictStep DEF taskVars
<1>7. ASSUME \/ \E d \in Docs, forget \in BOOLEAN : SetPolicy(d, forget)
             \/ InvalidateSshAuth \/ ClearSshAuth \/ Tick
      PROVE  FALSE
    BY <1>5, <1>7, PolicyStep DEF taskVars
<1> QED
    BY <1>1, <1>2, <1>3, <1>4, <1>6, <1>7 DEF Next

\* What lets a connection through without a check is a follow-up of its pair
\* that was accepted under this very policy, not too long ago, on a hold that
\* a person had approved (handle_ssh_action, SshPolicyStamp).
THEOREM GraceJustified == Spec => MemoryJustified
<1>1. ASSUME Inv, [Next]_vars
      PROVE  [\A c \in Clients :
                Accepts(c) /\ req'[c].id = None =>
                   /\ PeriodOf(req'[c]) # NoRule
                   /\ \E g \in grants :
                         /\ g.pair = req'[c].pair /\ g.epoch = epoch
                         /\ now - g.at < PeriodOf(req'[c])
                         /\ binding[g.id] = g.pair /\ outcome[g.id] = "approved"]_vars
  <2>1. ASSUME Next, NEW c \in Clients, Accepts(c), req'[c].id = None
        PROVE  /\ PeriodOf(req'[c]) # NoRule
               /\ \E g \in grants :
                     /\ g.pair = req'[c].pair /\ g.epoch = epoch
                     /\ now - g.at < PeriodOf(req'[c])
                     /\ binding[g.id] = g.pair /\ outcome[g.id] = "approved"
    <3>1. PICK r \in Request : req'[c] = r /\ PeriodOf(r) # NoRule /\ Remembered(r)
        BY <1>1, <2>1, AcceptingStep
    <3>2. /\ r.pair \in Pairs /\ memory[r.pair] # None /\ memory[r.pair].epoch = epoch
          /\ now - memory[r.pair].at < PeriodOf(r)
        BY <3>1 DEF Remembered, SamePolicy, Request
    <3>3. PICK g \in grants : /\ g.pair = r.pair /\ g.at = memory[r.pair].at
                              /\ g.epoch = memory[r.pair].epoch
        BY <1>1, <3>2 DEF Inv, MemoryFromGrants
    <3> QED
        BY <1>1, <3>1, <3>2, <3>3 DEF Inv, GrantsApproved
  <2> QED
      BY <1>1, <2>1
<1> QED
    BY <1>1, Invariance, PTL DEF Spec, MemoryJustified

\* An accepted follow-up has a rule in the policy now in force and an approved
\* hold of its own pair, which no connection used before
\* (ssh_action_followup).
THEOREM FollowUpsJustified == Spec => FollowUpJustified
<1>1. ASSUME Inv, [Next]_vars
      PROVE  [\A c \in Clients :
                Accepts(c) /\ req'[c].id # None =>
                   LET id == req'[c].id IN
                   /\ PeriodOf(req'[c]) # NoRule
                   /\ binding[id] = req'[c].pair /\ outcome[id] = "approved"
                   /\ \A g \in grants : g.id # id]_vars
  <2>1. ASSUME Next, NEW c \in Clients, Accepts(c), req'[c].id # None
        PROVE  /\ PeriodOf(req'[c]) # NoRule
               /\ binding[req'[c].id] = req'[c].pair /\ outcome[req'[c].id] = "approved"
               /\ \A g \in grants : g.id # req'[c].id
    <3>1. Grant(c) /\ req'[c] = req[c] /\ PeriodOf(req[c]) # NoRule
        BY <1>1, <2>1, AcceptingStep
    <3>2. pc[c] = "granted"
        BY <3>1 DEF Grant
    <3> QED
        BY <1>1, <3>1, <3>2 DEF Inv, RequestsBound, TakenAlone
  <2> QED
      BY <1>1, <2>1
<1> QED
    BY <1>1, Invariance, PTL DEF Spec, FollowUpJustified
=============================================================================
