-------------------------------- MODULE Link --------------------------------
(***************************************************************************)
(* What slows the messages to a peer down or loses them on purpose, in     *)
(* outbox.py: is_rate_limited at the entrance of the queue, the token      *)
(* bucket rate_limiter and the random losses of apply_network_conditions   *)
(* at its exit, and drop_cnt, which makes the worker wait.                 *)
(*                                                                         *)
(* Four kinds of threads meet here: those that call enqueue_message, the   *)
(* worker of send_from_queue, the loop that changes the capacity of the    *)
(* bucket without the bucket's lock, and the loop that lowers drop_cnt     *)
(* under a lock the worker does not take when it raises it.  Order and     *)
(* retries in the queue are the matter of Outbox: here it only counts.     *)
(*                                                                         *)
(* The clock does not go back.  A second has Unit ticks, and tokens are    *)
(* counted in parts of which Unit make one token, so that a tick brings    *)
(* refill_rate of them.                                                    *)
(***************************************************************************)
EXTENDS Integers, Sequences, FiniteSets, Lists

CONSTANTS
    Call,            \* the calls of enqueue_message for one target
    RATE_LIMIT, TIME_WINDOW,
    Capacities,      \* the capacities the adjustment chooses from
    SEND_RATE_LIMIT, \* the first capacity
    MaxCapacity,     \* the largest of them all
    Unit,            \* ticks in a second
    drop_threshold,
    MaxTime,         \* bound: the tick at which the clock stops
    Never            \* the time of a call that has not read the clock

ASSUME LimitsAssumption ==
    /\ RATE_LIMIT \in Nat /\ TIME_WINDOW \in Nat /\ drop_threshold \in Nat \ {0}
    /\ Unit \in Nat \ {0} /\ MaxTime \in Nat /\ Never \notin Nat
ASSUME CapacitiesAssumption ==
    /\ MaxCapacity \in Nat
    /\ Capacities \subseteq 0..MaxCapacity /\ SEND_RATE_LIMIT \in 0..MaxCapacity

VARIABLES
    now,                  \* the clock
    pc,                   \* where every call is
    at,                   \* the time every call has read
    peer_send_timestamps, \* the times of the messages to the target
    queued,               \* how many messages wait in the queue
    worker,               \* where the worker is
    tokens, last_check,   \* the bucket
    capacity, refill_rate,
    adjusting,            \* the capacity whose rate is not set yet, or none
    drop_cnt,             \* how many drops make the worker wait
    read,                 \* the drop_cnt the worker has read and will raise
    lowering,             \* where the loop that lowers drop_cnt is
    lowered,              \* the drop_cnt it has read and will lower
    since                 \* history: how many sends were allowed from a tick on, by last_check

limit == <<pc, at, peer_send_timestamps>>
bucket == <<tokens, last_check, since>>
settings == <<capacity, refill_rate, adjusting>>
drops == <<drop_cnt, read, lowering, lowered>>
vars == <<now, limit, queued, worker, bucket, settings, drops>>

Time == 0..MaxTime
Count == 0..drop_threshold

\* The worker raises drop_cnt without the lock and the loop lowers it: what they lose of each
\* other, it never leaves its range, so the worker's wait has a bound and is not negative.
DropsInRange == drop_cnt \in Count /\ read \in Count /\ lowered \in Count

TypeOK ==
    /\ now \in Time
    /\ pc \in [Call -> {"start", "check", "queued", "limited"}]
    /\ at \in [Call -> Time \cup {Never}]
    /\ peer_send_timestamps \in Seq(Time) /\ Len(peer_send_timestamps) <= RATE_LIMIT
    /\ queued \in Nat
    /\ worker \in {"idle", "refilled", "allowed", "drop", "raise"}
    /\ tokens \in Nat /\ last_check \in Time
    /\ capacity \in 0..MaxCapacity /\ refill_rate \in 0..MaxCapacity
    /\ adjusting \in Capacities \cup {Never}
    /\ DropsInRange
    /\ lowering \in {"idle", "read", "write"}
    /\ since \in [Time -> Nat]

Init ==
    /\ now = 0
    /\ pc = [c \in Call |-> "start"]
    /\ at = [c \in Call |-> Never]
    /\ peer_send_timestamps = <<>>
    /\ queued = 0
    /\ worker = "idle"
    /\ tokens = SEND_RATE_LIMIT * Unit /\ last_check = 0
    /\ capacity = SEND_RATE_LIMIT /\ refill_rate = SEND_RATE_LIMIT
    /\ adjusting = Never
    /\ drop_cnt = 0 /\ read = 0
    /\ lowering = "idle" /\ lowered = 0
    /\ since = [t \in Time |-> 0]

Tick ==
    /\ now < MaxTime
    /\ now' = now + 1
    /\ UNCHANGED <<limit, queued, worker, bucket, settings, drops>>

-----------------------------------------------------------------------------
(* is_rate_limited. *)

\* The clock is read before the lock is taken.
ReadClock(c) ==
    /\ pc[c] = "start"
    /\ pc' = [pc EXCEPT ![c] = "check"]
    /\ at' = [at EXCEPT ![c] = now]
    /\ UNCHANGED <<now, peer_send_timestamps, queued, worker, bucket, settings, drops>>

\* Mutant: old times stay.
AllTimes(c) == peer_send_timestamps

RecentTimes(c) ==
    Kept(peer_send_timestamps, {ts \in Time : ts > at[c] - TIME_WINDOW})

Enqueue(c) ==
    /\ pc[c] = "check"
    /\ Len(RecentTimes(c)) < RATE_LIMIT
    /\ pc' = [pc EXCEPT ![c] = "queued"]
    /\ peer_send_timestamps' = Append(RecentTimes(c), at[c])
    /\ queued' = queued + 1
    /\ UNCHANGED <<now, at, worker, bucket, settings, drops>>

Limit(c) ==
    /\ pc[c] = "check"
    /\ Len(RecentTimes(c)) >= RATE_LIMIT
    /\ pc' = [pc EXCEPT ![c] = "limited"]
    /\ peer_send_timestamps' = RecentTimes(c)
    /\ UNCHANGED <<now, at, queued, worker, bucket, settings, drops>>

-----------------------------------------------------------------------------
(* RateLimiter, and the loop that changes its capacity. *)

\* allow: the tokens of the time that has passed, at the rate that holds now.
Refill ==
    /\ worker = "idle" /\ queued > 0
    /\ worker' = "refilled"
    /\ tokens' = tokens + (now - last_check) * refill_rate
    /\ last_check' = now
    /\ UNCHANGED <<now, limit, queued, since, settings, drops>>

\* Mutant: the tokens are not cut.
Uncut == tokens

\* The tokens, cut to the capacity that holds now.
CutTokens == IF tokens < capacity * Unit THEN tokens ELSE capacity * Unit

Allow ==
    /\ worker = "refilled" /\ CutTokens >= Unit
    /\ worker' = "allowed"
    /\ tokens' = CutTokens - Unit
    /\ since' = [t \in Time |-> IF t <= last_check THEN since[t] + 1 ELSE since[t]]
    /\ UNCHANGED <<now, limit, queued, last_check, settings, drops>>

Deny ==
    /\ worker = "refilled" /\ CutTokens < Unit
    /\ worker' = "drop"
    /\ tokens' = CutTokens
    /\ UNCHANGED <<now, limit, queued, last_check, since, settings, drops>>

SetCapacity(k) ==
    /\ adjusting = Never
    /\ capacity' = k /\ adjusting' = k
    /\ UNCHANGED <<now, limit, queued, worker, bucket, refill_rate, drops>>

SetRate ==
    /\ adjusting # Never
    /\ refill_rate' = adjusting /\ adjusting' = Never
    /\ UNCHANGED <<now, limit, queued, worker, bucket, capacity, drops>>

-----------------------------------------------------------------------------
(* apply_network_conditions, and the loop that lowers drop_cnt. *)

\* The random delay is over and send_func is called; the wrapper reports success, or failure
\* if send_func raised.  A message that failed is put back, or has failed too often.
Sent ==
    /\ worker = "allowed"
    /\ worker' = "idle"
    /\ queued' \in {queued - 1, queued}
    /\ UNCHANGED <<now, limit, bucket, settings, drops>>

RandomDrop ==
    /\ worker = "allowed"
    /\ worker' = "drop"
    /\ UNCHANGED <<now, limit, queued, bucket, settings, drops>>

ReadDropCnt ==
    /\ worker = "drop"
    /\ worker' = "raise"
    /\ read' = drop_cnt
    /\ UNCHANGED <<now, limit, queued, bucket, settings, drop_cnt, lowering, lowered>>

\* Mutant: no maximum.
RaisedFurther == read + 1

Raised == IF read < drop_threshold THEN read + 1 ELSE drop_threshold

\* The failed message is put back, or has failed too often.
RaiseDropCnt ==
    /\ worker = "raise"
    /\ worker' = "idle"
    /\ drop_cnt' = Raised /\ read' = 0
    /\ queued' \in {queued - 1, queued}
    /\ UNCHANGED <<now, limit, bucket, settings, lowering, lowered>>

\* dec_drop_cnt: the test, the read and the write of drop_cnt.
TestDropCnt ==
    /\ lowering = "idle" /\ drop_cnt > 0
    /\ lowering' = "read"
    /\ UNCHANGED <<now, limit, queued, worker, bucket, settings, drop_cnt, read, lowered>>

ReadToLower ==
    /\ lowering = "read"
    /\ lowering' = "write"
    /\ lowered' = drop_cnt
    /\ UNCHANGED <<now, limit, queued, worker, bucket, settings, drop_cnt, read>>

LowerDropCnt ==
    /\ lowering = "write"
    /\ lowering' = "idle"
    /\ drop_cnt' = lowered - 1 /\ lowered' = 0
    /\ UNCHANGED <<now, limit, queued, worker, bucket, settings, read>>

-----------------------------------------------------------------------------
Next ==
    \/ Tick
    \/ \E c \in Call : ReadClock(c) \/ Enqueue(c) \/ Limit(c)
    \/ Refill
    \/ Allow
    \/ Deny
    \/ \E k \in Capacities : SetCapacity(k)
    \/ SetRate
    \/ Sent
    \/ RandomDrop
    \/ ReadDropCnt
    \/ RaiseDropCnt
    \/ TestDropCnt
    \/ ReadToLower
    \/ LowerDropCnt

Spec == Init /\ [][Next]_vars

-----------------------------------------------------------------------------
(* Safety. *)

\* However the capacity and the rate change under the bucket, and also between the two: from
\* any tick on, no more sends are allowed than a full bucket of the largest capacity holds and
\* the largest rate brings in the time since.  The times are those allow has read: a worker
\* that is held up after it has read the clock may send one message more.
BurstBounded ==
    \A t \in Time :
        t <= last_check => since[t] * Unit <= MaxCapacity * Unit + (last_check - t) * MaxCapacity

\* The messages that count in the window of a call.
InWindow(c) == {d \in Call : pc[d] = "queued" /\ at[d] > at[c] - TIME_WINDOW}

\* A message is refused at the queue only if the limit of the window is used up by others: also
\* when the calls come to the lock in another order than they read the clock.
RefusalJustified ==
    \A c \in Call : pc[c] = "limited" => Cardinality(InWindow(c)) >= RATE_LIMIT
=============================================================================
