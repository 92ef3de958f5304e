------------------------------ MODULE SshCheck -------------------------------
(***************************************************************************)
(* The SSH check of a connection (tailscale_wire/ssh.rs), the policy it is *)
(* judged by (policy/mod.rs) and the memory of earlier approvals           *)
(* (RegistrationCache::last_ssh_auth in tailscale_wire/mod.rs).            *)
(*                                                                         *)
(* The destination of an SSH connection asks what to do with it.  Where    *)
(* the policy has a check rule, the answer is a hold: a person has to      *)
(* approve first, and the destination asks again under the id of the hold. *)
(* An approval is remembered for the pair of nodes when it is taken, with  *)
(* the time and the policy of that moment, and spares them the check for   *)
(* the period of the rule, until the policy is replaced.                   *)
(*                                                                         *)
(* Requests, people, reloads of the policy and the clock are concurrent.   *)
(* Each decision is taken under the read lock of the policy, but a request *)
(* that waits for a person takes two of them, and a reload forgets the     *)
(* approvals in a step of its own, or not at all.                          *)
(***************************************************************************)
EXTENDS Naturals, FiniteSets

CONSTANTS
    Pairs,     \* source and destination of a connection
    Users,     \* local users of the destination
    Clients,   \* requests that run at a time
    AuthIds,   \* ids of holds: random, never used twice
    Docs,      \* policy documents
    Period,    \* the check period a document has for a pair and a user
    NoRule,    \* there is no check rule
    None,      \* no id, no request, no approval
    MaxEpoch,  \* bound: replacements of the policy
    MaxTime    \* bound: ticks of the clock

ASSUME SshCheckAssumption ==
    /\ MaxEpoch \in Nat /\ MaxTime \in Nat
    /\ NoRule \notin Nat
    /\ None \notin AuthIds \cup Pairs
    /\ Period \in [Docs -> [Pairs -> [Users -> Nat \cup {NoRule}]]]

VARIABLES
    doc,        \* the policy in force
    epoch,      \* its identity: a new one whenever the policy is set or reloaded
    updatedAt,  \* its timestamp
    clearing,   \* a reload that has still to forget the approvals
    now,        \* the clock
    memory,     \* last_ssh_auth: the last approval of each pair
    cached,     \* ids the cache still finds
    binding,    \* the pair each hold was made for
    outcome,    \* its verdict
    consumed,   \* holds whose verdict a request has taken
    pc,         \* what each request is doing
    req,        \* what it asks for
    answer,     \* what it was told
    grants      \* history: the accepted follow-ups

policyVars == <<doc, epoch, updatedAt, clearing>>
holdVars   == <<cached, binding, outcome, consumed>>
taskVars   == <<pc, req, answer>>
vars == <<policyVars, now, memory, holdVars, taskVars, grants>>

Outcomes == {"none", "approved", "rejected", "expired"}
Record   == [at : 0..MaxTime, epoch : 0..MaxEpoch, updatedAt : 0..MaxTime]
Request  == [pair : Pairs, user : Users, id : AuthIds \cup {None}]
Granted  == [pair : Pairs, id : AuthIds, at : 0..MaxTime, epoch : 0..MaxEpoch]

\* The pieces of state have their types, and only holds that were made are
\* decided or consumed.
TypeOK ==
    /\ doc \in Docs /\ epoch \in 0..MaxEpoch /\ updatedAt \in 0..MaxTime
    /\ clearing \in BOOLEAN /\ now \in 0..MaxTime
    /\ memory \in [Pairs -> Record \cup {None}]
    /\ cached \subseteq AuthIds /\ consumed \subseteq AuthIds
    /\ binding \in [AuthIds -> Pairs \cup {None}]
    /\ outcome \in [AuthIds -> Outcomes]
    /\ \A id \in AuthIds : id \in cached \cup consumed \/ outcome[id] # "none" => binding[id] # None
    /\ \A id \in consumed : outcome[id] # "none"
    /\ pc \in [Clients -> {"idle", "waiting", "granted", "answered"}]
    /\ req \in [Clients -> Request \cup {None}]
    /\ answer \in [Clients -> {"none", "accept", "reject", "hold", "error"}]
    /\ grants \subseteq Granted

Init ==
    /\ doc \in Docs /\ epoch = 0 /\ updatedAt = 0 /\ clearing = FALSE /\ now = 0
    /\ memory = [p \in Pairs |-> None]
    /\ cached = {} /\ consumed = {}
    /\ binding = [id \in AuthIds |-> None]
    /\ outcome = [id \in AuthIds |-> "none"]
    /\ pc = [c \in Clients |-> "idle"]
    /\ req = [c \in Clients |-> None]
    /\ answer = [c \in Clients |-> "none"]
    /\ grants = {}

-----------------------------------------------------------------------------
(* The policy.                                                             *)

\* A policy is installed, perhaps the same one again, or the one in force is
\* reloaded without a replacement: its identity is new in any case.  The
\* gRPC service then forgets the approvals, still under the lock of policy
\* mutations; the JSON admin does not.  A policy that is refused changes
\* nothing.
SetPolicy(d, forget) ==
    /\ ~clearing /\ epoch < MaxEpoch
    /\ doc' = d
    /\ epoch' = epoch + 1
    /\ updatedAt' = now
    /\ clearing' = forget
    /\ UNCHANGED <<now, memory, holdVars, taskVars, grants>>

InvalidateSshAuth ==
    /\ ~clearing /\ epoch < MaxEpoch
    /\ epoch' = epoch + 1
    /\ clearing' = TRUE
    /\ UNCHANGED <<doc, updatedAt, now, memory, holdVars, taskVars, grants>>

ClearSshAuth ==
    /\ clearing
    /\ clearing' = FALSE
    /\ memory' = [p \in Pairs |-> None]
    /\ UNCHANGED <<doc, epoch, updatedAt, now, holdVars, taskVars, grants>>

Tick ==
    /\ now < MaxTime
    /\ now' = now + 1
    /\ UNCHANGED <<policyVars, memory, holdVars, taskVars, grants>>

-----------------------------------------------------------------------------
(* The holds, as the cache of pending authentications keeps them.          *)

NewHold(p) ==
    \E id \in AuthIds :
        /\ binding[id] = None
        /\ binding' = [binding EXCEPT ![id] = p]
        /\ cached' = cached \cup {id}
        /\ UNCHANGED outcome

\* The verdict of a person: auth_approve, auth_reject or an OIDC login.
GiveVerdict(id, verdict) ==
    /\ id \in cached /\ outcome[id] = "none"
    /\ outcome' = [outcome EXCEPT ![id] = verdict]
    /\ UNCHANGED <<policyVars, now, memory, cached, binding, consumed, taskVars, grants>>

\* The hold leaves the cache: its time is over, or it is evicted.
ExpireHold(id) ==
    /\ id \in cached
    /\ cached' = cached \ {id}
    /\ outcome' = [outcome EXCEPT ![id] = IF @ = "none" THEN "expired" ELSE @]
    /\ UNCHANGED <<policyVars, now, memory, binding, consumed, taskVars, grants>>

-----------------------------------------------------------------------------
(* The requests.                                                           *)

PeriodOf(r) == Period[doc][r.pair][r.user]

\* Mutant: a record belongs to the policy with the same timestamp.
SamePolicyByTime(record) == record.updatedAt = updatedAt

\* A record belongs to the very policy under which its follow-up was accepted;
\* the person may have approved under an earlier one.
SamePolicy(record) == record.epoch = epoch

Remembered(r) ==
    LET record == memory[r.pair]
    IN  /\ record # None
        /\ SamePolicy(record)
        /\ now - record.at < PeriodOf(r)

Tell(c, r, told) ==
    /\ pc' = [pc EXCEPT ![c] = "answered"]
    /\ req' = [req EXCEPT ![c] = r]
    /\ answer' = [answer EXCEPT ![c] = told]

TellHold(c, r) == NewHold(r.pair) /\ Tell(c, r, "hold")

\* A request without an id: the rule and the memory decide.
Ask(c, r) ==
    /\ pc[c] = "idle" /\ r.id = None
    /\ \/ /\ PeriodOf(r) = NoRule
          /\ Tell(c, r, "reject")
          /\ UNCHANGED <<cached, binding, outcome>>
       \/ /\ PeriodOf(r) # NoRule /\ Remembered(r)
          /\ Tell(c, r, "accept")
          /\ UNCHANGED <<cached, binding, outcome>>
       \/ /\ PeriodOf(r) # NoRule /\ ~Remembered(r)
          /\ TellHold(c, r)
    /\ UNCHANGED <<policyVars, now, memory, consumed, grants>>

\* A request that follows a hold: the rule is looked at, then the hold.
FollowUp(c, r) ==
    /\ pc[c] = "idle" /\ r.id # None
    /\ \/ /\ PeriodOf(r) = NoRule
          /\ Tell(c, r, "reject")
          /\ UNCHANGED <<cached, binding, outcome>>
       \/ /\ PeriodOf(r) # NoRule /\ r.id \notin cached
          /\ TellHold(c, r)
       \/ /\ PeriodOf(r) # NoRule /\ r.id \in cached /\ binding[r.id] # r.pair
          /\ Tell(c, r, "error")
          /\ UNCHANGED <<cached, binding, outcome>>
       \/ /\ PeriodOf(r) # NoRule /\ r.id \in cached /\ binding[r.id] = r.pair
          /\ pc' = [pc EXCEPT ![c] = "waiting"]
          /\ req' = [req EXCEPT ![c] = r]
          /\ UNCHANGED <<answer, cached, binding, outcome>>
    /\ UNCHANGED <<policyVars, now, memory, consumed, grants>>

\* The wait ends with the verdict, which one request takes; the others are
\* told to hold again.
WaitEnds(c) ==
    LET id == req[c].id IN
    /\ pc[c] = "waiting" /\ outcome[id] # "none"
    /\ consumed' = consumed \cup {id}
    /\ \/ /\ id \in consumed
          /\ TellHold(c, req[c])
       \/ /\ id \notin consumed /\ outcome[id] = "approved"
          /\ pc' = [pc EXCEPT ![c] = "granted"]
          /\ UNCHANGED <<req, answer, cached, binding, outcome>>
       \/ /\ id \notin consumed /\ outcome[id] # "approved"
          /\ Tell(c, req[c], "reject")
          /\ UNCHANGED <<cached, binding, outcome>>
    /\ UNCHANGED <<policyVars, now, memory, grants>>

Remember(c) ==
    /\ memory' = [memory EXCEPT ![req[c].pair] =
                     [at |-> now, epoch |-> epoch, updatedAt |-> updatedAt]]
    /\ grants' = grants \cup
          {[pair |-> req[c].pair, id |-> req[c].id, at |-> now, epoch |-> epoch]}

\* Mutant: the rule that let the request wait is taken to be there still.
GrantUnchecked(c) ==
    /\ pc[c] = "granted"
    /\ Remember(c)
    /\ Tell(c, req[c], "accept")
    /\ UNCHANGED <<policyVars, now, holdVars>>

\* The approved request looks at the rule again, under the policy that is now
\* in force, and has the approval remembered under it.
Grant(c) ==
    /\ pc[c] = "granted"
    /\ IF PeriodOf(req[c]) = NoRule
       THEN Tell(c, req[c], "reject") /\ UNCHANGED <<memory, grants>>
       ELSE Remember(c) /\ Tell(c, req[c], "accept")
    /\ UNCHANGED <<policyVars, now, holdVars>>

\* The client goes away while it waits.
CancelWait(c) ==
    /\ pc[c] = "waiting"
    /\ Tell(c, req[c], "error")
    /\ UNCHANGED <<policyVars, now, memory, holdVars, grants>>

Return(c) ==
    /\ pc[c] = "answered"
    /\ pc' = [pc EXCEPT ![c] = "idle"]
    /\ req' = [req EXCEPT ![c] = None]
    /\ answer' = [answer EXCEPT ![c] = "none"]
    /\ UNCHANGED <<policyVars, now, memory, holdVars, grants>>

-----------------------------------------------------------------------------
Next ==
    \/ \E d \in Docs, forget \in BOOLEAN : SetPolicy(d, forget)
    \/ InvalidateSshAuth
    \/ ClearSshAuth
    \/ Tick
    \/ \E id \in AuthIds :
          \/ \E v \in {"approved", "rejected"} : GiveVerdict(id, v)
          \/ ExpireHold(id)
    \/ \E c \in Clients :
          \/ \E r \in Request : Ask(c, r) \/ FollowUp(c, r)
          \/ WaitEnds(c)
          \/ Grant(c)
          \/ CancelWait(c)
          \/ Return(c)

Spec == Init /\ [][Next]_vars

-----------------------------------------------------------------------------
(* Properties.                                                             *)

Accepts(c) == answer[c] # "accept" /\ answer'[c] = "accept"

\* A connection is let through without a check only where the policy now in
\* force has a check rule for it, and under this very policy, less than the
\* rule's period ago, a follow-up was accepted for this pair of nodes, on a
\* hold that was made for them and that a person approved.  A reload after
\* that follow-up, even to the same text within the same second, ends the
\* grace (ssh.rs handle_ssh_action, SshPolicyStamp).  Policy and time are those
\* of the follow-up and not of the approval: one that was given before a
\* reload and taken after it counts under the new policy, from then on.
MemoryJustified ==
    [][\A c \in Clients :
         Accepts(c) /\ req'[c].id = None =>
            /\ PeriodOf(req'[c]) # NoRule
            /\ \E g \in grants :
                  /\ g.pair = req'[c].pair /\ g.epoch = epoch
                  /\ now - g.at < PeriodOf(req'[c])
                  /\ binding[g.id] = g.pair /\ outcome[g.id] = "approved"]_vars

\* A follow-up is accepted only where the policy now in force, not the one it
\* began to wait under, has a check rule for it, a person approved the hold
\* it names and that hold is of its own pair; one hold admits one connection
\* (ssh.rs ssh_action_followup).
FollowUpJustified ==
    [][\A c \in Clients :
         Accepts(c) /\ req'[c].id # None =>
            LET id == req'[c].id IN
            /\ PeriodOf(req'[c]) # NoRule
            /\ binding[id] = req'[c].pair /\ outcome[id] = "approved"
            /\ \A g \in grants : g.id # id]_vars
=============================================================================
