----------------------------- MODULE OutboxSpec -----------------------------
(***************************************************************************)
(* What the outbox promises, without threads, locks or retries: for every  *)
(* target and priority a queue that is served from its head only.  A       *)
(* message that was accepted leaves its queue once, delivered or           *)
(* discarded, and never before an older one of the same target and         *)
(* priority.                                                               *)
(***************************************************************************)
EXTENDS Naturals, Sequences

CONSTANTS
    Msg,         \* the messages handed to the outbox
    Target,      \* the peers they are for
    Priority,    \* the priority levels
    To,          \* the target of every message
    PriorityOf   \* the priority of every message

VARIABLES
    pending,     \* the messages accepted and not settled, by target and priority
    outcome      \* what became of every message

vars == <<pending, outcome>>

Outcome == {"none", "pending", "delivered", "discarded"}

Init ==
    /\ pending = [t \in Target |-> [p \in Priority |-> <<>>]]
    /\ outcome = [m \in Msg |-> "none"]

Accept(m) ==
    /\ outcome[m] = "none"
    /\ pending' = [pending EXCEPT ![To[m]][PriorityOf[m]] = Append(@, m)]
    /\ outcome' = [outcome EXCEPT ![m] = "pending"]

Refuse(m) ==
    /\ outcome[m] = "none"
    /\ outcome' = [outcome EXCEPT ![m] = "discarded"]
    /\ UNCHANGED pending

\* Only the head of a queue is settled.
Settle(m) ==
    /\ pending[To[m]][PriorityOf[m]] # <<>>
    /\ m = Head(pending[To[m]][PriorityOf[m]])
    /\ pending' = [pending EXCEPT ![To[m]][PriorityOf[m]] = Tail(@)]
    /\ \E o \in {"delivered", "discarded"} : outcome' = [outcome EXCEPT ![m] = o]

Next == \E m \in Msg : Accept(m) \/ Refuse(m) \/ Settle(m)

Spec == Init /\ [][Next]_vars
=============================================================================
