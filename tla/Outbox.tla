------------------------------- MODULE Outbox -------------------------------
(***************************************************************************)
(* The outbox of one node (outbox.py): enqueue_message, called by any      *)
(* thread of the node, and the one thread of send_from_queue.              *)
(*                                                                         *)
(* enqueue_message looks at the blacklist and the sending rate first and   *)
(* takes the lock again to append, so both may change in between.  The     *)
(* worker pops a message under the lock, sends it outside and settles it   *)
(* under the lock; messages are appended meanwhile.                        *)
(*                                                                         *)
(* The blacklist, the rate limits and the random drops of the simulated    *)
(* network are choices: each may say no at any time.                       *)
(***************************************************************************)
EXTENDS Naturals, Sequences, FiniteSets, Functions

CONSTANTS
    Msg,         \* the calls of enqueue_message, one message each
    Target,      \* the peers messages are for
    To,          \* the target of every message
    TypeOf,      \* the type of every message
    QueueLimit,  \* QUEUE_LIMIT
    MaxRetries,  \* MAX_RETRIES
    PeersJoin,   \* may a HELLO change reachable_by while get_relay_peer iterates over it?
    NoMsg        \* no message

ASSUME MessagesAssumption ==
    To \in [Msg -> Target] /\ TypeOf \in [Msg -> STRING] /\ NoMsg \notin Msg
ASSUME LimitsAssumption == QueueLimit \in Nat \ {0} /\ MaxRetries \in Nat \ {0}
ASSUME PeersAssumption == PeersJoin \in BOOLEAN

VARIABLES
    queues,      \* the messages that wait, by target and priority
    known,       \* the keys of queues, in the order they were created
    retries,     \* failed sends in a row, by target
    fate,        \* where every message is
    workerPc,    \* where the worker is
    round,       \* the targets left in the worker's round
    inFlight,    \* the message the worker has popped
    attempts,    \* history: the failed sends of every message, up to MaxRetries
    bypassed     \* history: sends to u since t, which has messages, was last served

enqueued == <<queues, known>>
worker == <<workerPc, round, inFlight>>
vars == <<queues, known, retries, fate, worker, attempts, bypassed>>

-----------------------------------------------------------------------------
(* Priorities. *)

Priority == 0..3

priority_order == [
    PING |-> 0, PONG |-> 0,
    BLOCK |-> 1, HELLO |-> 1, BLOCK_HEADERS |-> 1, INV |-> 1,
    TX |-> 2, GET_BLOCK_HEADERS |-> 2, GET_BLOCK |-> 2, RELAY |-> 2]

classify_priority(type) == IF type \in DOMAIN priority_order THEN priority_order[type] ELSE 3

\* The payload of a RELAY is a string: reading its type raises, and the bare except makes
\* the message one of unknown type.
ClassifiedType(m) == IF TypeOf[m] = "RELAY" THEN "UNKNOWN" ELSE TypeOf[m]

PriorityOf == [m \in Msg |-> classify_priority(ClassifiedType(m))]

Total(t) ==
    Len(queues[t][0]) + Len(queues[t][1]) + Len(queues[t][2]) + Len(queues[t][3])

-----------------------------------------------------------------------------
Fate == {"new", "checked", "refused", "overflow", "queued", "sending",
         "delivered", "unsent", "dropped"}

TypeOK ==
    /\ queues \in [Target -> [Priority -> Seq(Msg)]]
    /\ known \in Seq(Target)
    /\ retries \in [Target -> 0..(MaxRetries - 1)]
    /\ fate \in [Msg -> Fate]
    /\ workerPc \in {"scan", "pick", "send", "dead"}
    /\ round \in Seq(Target)
    /\ inFlight \in Msg \cup {NoMsg}
    /\ attempts \in [Msg -> 0..MaxRetries]
    /\ bypassed \in [Target -> [Target -> Nat]]

Init ==
    /\ queues = [t \in Target |-> [p \in Priority |-> <<>>]]
    /\ known = <<>>
    /\ retries = [t \in Target |-> 0]
    /\ fate = [m \in Msg |-> "new"]
    /\ workerPc = "scan"
    /\ round = <<>>
    /\ inFlight = NoMsg
    /\ attempts = [m \in Msg |-> 0]
    /\ bypassed = [t \in Target |-> [u \in Target |-> 0]]

-----------------------------------------------------------------------------
(* enqueue_message. *)

\* The target is not on the blacklist and is_rate_limited says no, or the call returns.
CheckPeer(m) ==
    /\ fate[m] = "new"
    /\ \E f \in {"checked", "refused"} : fate' = [fate EXCEPT ![m] = f]
    /\ UNCHANGED <<enqueued, retries, worker, attempts, bypassed>>

\* Mutant: the key is not created.
NoKey(t) == known' = known

\* Reading queues[target_id] creates the key, also when the message does not fit.
TouchQueue(t) == known' = IF t \in Range(known) THEN known ELSE Append(known, t)

\* Mutant: the limit is tested with <=.
RoomForOneMore(t) == Total(t) <= QueueLimit

HasRoom(t) == Total(t) < QueueLimit

\* The append, in a lock section of its own.
AppendMessage(m) ==
    /\ fate[m] = "checked"
    /\ TouchQueue(To[m])
    /\ \/ /\ HasRoom(To[m])
          /\ queues' = [queues EXCEPT ![To[m]][PriorityOf[m]] = Append(@, m)]
          /\ fate' = [fate EXCEPT ![m] = "queued"]
       \/ /\ ~HasRoom(To[m])
          /\ fate' = [fate EXCEPT ![m] = "overflow"]
          /\ UNCHANGED queues
    /\ UNCHANGED <<retries, worker, attempts, bypassed>>

-----------------------------------------------------------------------------
(* send_from_queue. *)

\* A round goes over the targets that have a queue when it starts.
StartRound ==
    /\ workerPc = "scan" /\ known # <<>>
    /\ round' = known
    /\ workerPc' = "pick"
    /\ UNCHANGED <<enqueued, retries, fate, inFlight, attempts, bypassed>>

EndRound ==
    /\ workerPc = "pick" /\ round = <<>>
    /\ workerPc' = "scan"
    /\ UNCHANGED <<enqueued, retries, fate, round, inFlight, attempts, bypassed>>

\* Nothing waits for the target.
SkipTarget ==
    /\ workerPc = "pick" /\ round # <<>>
    /\ Total(Head(round)) = 0
    /\ round' = Tail(round)
    /\ UNCHANGED <<enqueued, retries, fate, workerPc, inFlight, attempts, bypassed>>

\* Mutant: the worker stays with its target.
SameRound == round

NextRound == Tail(round)

\* Every target but t that has messages is passed over once more by t.
Bypass(t) ==
    [u \in Target |-> [v \in Target |->
        IF u = t THEN 0
        ELSE IF v = t /\ Total(u) > 0 THEN bypassed[u][v] + 1
        ELSE bypassed[u][v]]]

\* Mutant: the message is read and left in the queue.
Peek(queue) == queue

PopLeft(queue) == Tail(queue)

\* popleft from the queue of the highest priority that holds a message.
PopMessage ==
    /\ workerPc = "pick" /\ round # <<>>
    /\ \E t \in {Head(round)}, p \in Priority :
           /\ queues[t][p] # <<>>
           /\ \A q \in 0..(p - 1) : queues[t][q] = <<>>
           /\ inFlight' = Head(queues[t][p])
           /\ queues' = [queues EXCEPT ![t][p] = PopLeft(@)]
           /\ bypassed' = Bypass(t)
    /\ fate' = [fate EXCEPT ![inFlight'] = "sending"]
    /\ round' = NextRound
    /\ workerPc' = "send"
    /\ UNCHANGED <<known, retries, attempts>>

\* The worker is done with its message; what became of it is f.
SettleAs(f) ==
    /\ fate' = [fate EXCEPT ![inFlight] = f]
    /\ inFlight' = NoMsg
    /\ workerPc' = "pick"

\* send_message has put the message on the wire.
SendDelivers ==
    /\ workerPc = "send"
    /\ SettleAs("delivered")
    /\ retries' = [retries EXCEPT ![To[inFlight]] = 0]
    /\ UNCHANGED <<enqueued, round, attempts, bypassed>>

\* The socket failed: the inner send_message returns False, which the wrapper of
\* apply_network_conditions ignores: it returns True.
SendFailsSilently ==
    /\ workerPc = "send"
    /\ SettleAs("unsent")
    /\ retries' = [retries EXCEPT ![To[inFlight]] = 0]
    /\ UNCHANGED <<enqueued, round, attempts, bypassed>>

RetriesAfterFailure(t) == retries[t] + 1

\* Mutant: the limit is tested with <=.
MayRetryOnceMore(n) == n <= MaxRetries

MayRetry(n) == n < MaxRetries

\* Mutant: the message is put back at the end.
PutAtEnd(queue, m) == Append(queue, m)

PutBack(queue, m) == <<m>> \o queue

\* The rate limiter, the simulated loss or a missing relay made the send fail; the
\* message goes back to the head of its queue, unless its target has failed too often in
\* a row or its queue has filled up.
SendFails ==
    LET m == inFlight
        t == To[inFlight]
        n == RetriesAfterFailure(t)
    IN  /\ workerPc = "send"
        /\ attempts' = [attempts EXCEPT ![m] = IF @ < MaxRetries THEN @ + 1 ELSE @]
        /\ \/ /\ MayRetry(n) /\ HasRoom(t)
              /\ queues' = [queues EXCEPT ![t][PriorityOf[m]] = PutBack(@, m)]
              /\ SettleAs("queued")
              /\ retries' = [retries EXCEPT ![t] = n]
           \/ /\ MayRetry(n) /\ ~HasRoom(t)
              /\ SettleAs("overflow")
              /\ retries' = [retries EXCEPT ![t] = 0]
              /\ UNCHANGED queues
           \/ /\ ~MayRetry(n)
              /\ SettleAs("dropped")
              /\ retries' = [retries EXCEPT ![t] = 0]
              /\ UNCHANGED queues
        /\ UNCHANGED <<known, round, bypassed>>

\* get_relay_peer iterates over a set that handle_hello_message has just changed: the
\* RuntimeError ends the worker, and its message with it.
WorkerDies ==
    /\ PeersJoin
    /\ workerPc = "send"
    /\ fate' = [fate EXCEPT ![inFlight] = "unsent"]
    /\ inFlight' = NoMsg
    /\ workerPc' = "dead"
    /\ UNCHANGED <<enqueued, retries, round, attempts, bypassed>>

-----------------------------------------------------------------------------
Next ==
    \/ \E m \in Msg : CheckPeer(m)
    \/ \E m \in Msg : AppendMessage(m)
    \/ StartRound
    \/ EndRound
    \/ SkipTarget
    \/ PopMessage
    \/ SendDelivers
    \/ SendFailsSilently
    \/ SendFails
    \/ WorkerDies

\* The worker is a loop that nothing blocks for good: the lock is held for short sections
\* and the socket has a timeout.  Nothing is assumed of the network: a send may always fail.
Fairness ==
    /\ WF_vars(StartRound)
    /\ WF_vars(EndRound \/ SkipTarget \/ PopMessage)
    /\ WF_vars(SendDelivers \/ SendFailsSilently \/ SendFails \/ WorkerDies)

SafeSpec == Init /\ [][Next]_vars
Spec == SafeSpec /\ Fairness

-----------------------------------------------------------------------------
(* Safety. *)

\* A target never has more than QUEUE_LIMIT messages waiting, the ones put back after a
\* failed send included, although the worker puts them back into a queue that has been
\* filled in the meantime.
QueueBounded == \A t \in Target : Total(t) <= QueueLimit

\* A queued message stands in the queue of its target and its priority ...
QueuedInPlace ==
    \A t \in Target, p \in Priority : \A m \in Range(queues[t][p]) :
        To[m] = t /\ PriorityOf[m] = p /\ fate[m] = "queued"

\* ... only once ...
QueuedOnce == \A t \in Target, p \in Priority : IsInjective(queues[t][p])

\* ... and none is missing; the one in flight is in no queue.
NoneMissing ==
    /\ \A m \in Msg : fate[m] = "queued" => m \in Range(queues[To[m]][PriorityOf[m]])
    /\ \A m \in Msg : fate[m] = "sending" <=> inFlight = m
    /\ workerPc = "send" <=> inFlight # NoMsg

\* A message is where it is said to be and nowhere else, although it is out of its queue
\* and the lock is free while it is being sent.
Conservation == QueuedInPlace /\ QueuedOnce /\ NoneMissing

\* While a target has messages, another one is served at most twice before it: once in
\* the round that has passed it already or does not know it yet, once in the next.
BoundedBypass == \A t, u \in Target : bypassed[t][u] <= 2

-----------------------------------------------------------------------------
(* Refinement. *)

\* The message in flight still stands before those that wait.
PromisedPending ==
    [t \in Target |-> [p \in Priority |->
        IF inFlight # NoMsg /\ To[inFlight] = t /\ PriorityOf[inFlight] = p
        THEN <<inFlight>> \o queues[t][p]
        ELSE queues[t][p]]]

PromisedOutcome ==
    [m \in Msg |-> CASE fate[m] \in {"new", "checked"} -> "none"
                     [] fate[m] \in {"queued", "sending"} -> "pending"
                     [] fate[m] = "delivered" -> "delivered"
                     [] OTHER -> "discarded"]

Promise == INSTANCE OutboxSpec WITH pending <- PromisedPending, outcome <- PromisedOutcome

\* The outbox serves every target and priority in the order of acceptance, and a message
\* that failed and was put back has not lost its place.
ImplementsPromise == Promise!Spec

-----------------------------------------------------------------------------
(* Liveness. *)

\* No message waits for ever, whatever fails and whatever is queued before it, unless the
\* worker has died.
EveryMessageSettled ==
    \A m \in Msg : fate[m] = "queued"
        ~> fate[m] \in {"delivered", "unsent", "dropped", "overflow"} \/ workerPc = "dead"

-----------------------------------------------------------------------------
(* What the documents say and the code does not do. *)

\* README:360: a message sent unsuccessfully is retried, and dropped when its own retries
\* exceed the limit.
RetriedBeforeDropped ==
    \A m \in Msg : fate[m] = "dropped" => attempts[m] >= MaxRetries

\* A message the worker is done with, and has neither retried to the limit nor lost to a
\* full queue, was sent.
DoneMeansDelivered == \A m \in Msg : fate[m] # "unsent"
=============================================================================
