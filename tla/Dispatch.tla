------------------------------ MODULE Dispatch ------------------------------
(***************************************************************************)
(* What a message passes before it is handled: dispatch_message and        *)
(* is_inbound_limited of message_handler.py.  socket_server.py gives every *)
(* message that arrives a thread of its own, which runs one call; the      *)
(* payload of a RELAY is one more call, made by the same thread.           *)
(*                                                                         *)
(* The ids that were seen are kept under seen_lock.  The inbound limit     *)
(* keeps a list of times per sender and has no lock: a call copies the     *)
(* list that is stored, stores its copy, appends to the copy that is then  *)
(* stored, which may be that of another call, and looks at its own.        *)
(*                                                                         *)
(* A message that does not arrive whole is one that never starts.          *)
(***************************************************************************)
EXTENDS Integers, Sequences, FiniteSets, Lists

CONSTANTS
    Call,    \* the calls of dispatch_message, one for each message that arrives
    Sender,  \* the sender of the message of a call
    Id,      \* the message_id of the message of a call
    SEEN_EXPIRY_SECONDS, INBOUND_RATE_LIMIT, INBOUND_TIME_WINDOW,
    MaxTime, \* bound: the time at which the clock stops
    Never    \* the time of what has not happened, and the call that does not exist

ASSUME ConstantsAssumption ==
    /\ SEEN_EXPIRY_SECONDS \in Nat /\ INBOUND_RATE_LIMIT \in Nat
    /\ INBOUND_TIME_WINDOW \in Nat \ {0}
    /\ MaxTime \in Nat /\ Never \notin Nat /\ Never \notin Call

VARIABLES
    now,                \* the clock
    pc,                 \* where every call is
    seen_message_ids,   \* when an id was last accepted
    message_redundancy, \* how many messages were found to be copies
    peer_inbound_timestamps, \* the call whose list is stored for a sender
    timestamps,         \* the list of every call
    at,                 \* a call's own time
    source,             \* the call whose list a call is about to copy
    accepted,           \* history: when the id of a call was accepted
    recorded            \* history: when a call recorded its time

vars == <<now, pc, seen_message_ids, message_redundancy, peer_inbound_timestamps, timestamps,
          at, source, accepted, recorded>>

Time == 0..MaxTime
Senders == {Sender[c] : c \in Call}
Ids == {Id[c] : c \in Call}

TypeOK ==
    /\ now \in Time
    /\ pc \in [Call -> {"start", "limit", "filter", "store", "append", "check",
                        "refused", "duplicate", "limited", "handled"}]
    /\ seen_message_ids \in [Ids -> Time \cup {Never}]
    /\ message_redundancy = Cardinality({c \in Call : pc[c] = "duplicate"})
    /\ peer_inbound_timestamps \in [Senders -> Call \cup {Never}]
    /\ timestamps \in [Call -> Seq(Time)]
    /\ at \in [Call -> Time \cup {Never}]
    /\ source \in [Call -> Call \cup {Never}]
    /\ accepted \in [Call -> Time \cup {Never}]
    /\ recorded \in [Call -> Time \cup {Never}]

Init ==
    /\ now = 0
    /\ pc = [c \in Call |-> "start"]
    /\ seen_message_ids = [i \in Ids |-> Never]
    /\ message_redundancy = 0
    /\ peer_inbound_timestamps = [s \in Senders |-> Never]
    /\ timestamps = [c \in Call |-> <<>>]
    /\ at = [c \in Call |-> Never]
    /\ source = [c \in Call |-> Never]
    /\ accepted = [c \in Call |-> Never]
    /\ recorded = [c \in Call |-> Never]

Tick ==
    /\ now < MaxTime
    /\ now' = now + 1
    /\ UNCHANGED <<pc, seen_message_ids, message_redundancy, peer_inbound_timestamps,
                   timestamps, at, source, accepted, recorded>>

Goto(c, from, to) == pc[c] = from /\ pc' = [pc EXCEPT ![c] = to]

-----------------------------------------------------------------------------
(* The checks before the limit. *)

\* The sender is not a known peer, or is on the blacklist; either may change at any time.
Refuse(c) ==
    /\ Goto(c, "start", "refused")
    /\ UNCHANGED <<now, seen_message_ids, message_redundancy, peer_inbound_timestamps,
                   timestamps, at, source, accepted, recorded>>

Seen(i) ==
    /\ seen_message_ids[i] # Never
    /\ now - seen_message_ids[i] < SEEN_EXPIRY_SECONDS

\* Mutant: a copy renews the record of the id.
Renewed(i) == [seen_message_ids EXCEPT ![i] = now]

\* A copy leaves the record of the id alone.
AfterCopy(i) == seen_message_ids

\* Mutant: the first record of the id is kept.
FirstKept(i) ==
    IF seen_message_ids[i] = Never THEN [seen_message_ids EXCEPT ![i] = now] ELSE seen_message_ids

AfterNew(i) == [seen_message_ids EXCEPT ![i] = now]

DropCopy(c) ==
    /\ Goto(c, "start", "duplicate")
    /\ Seen(Id[c])
    /\ message_redundancy' = message_redundancy + 1
    /\ seen_message_ids' = AfterCopy(Id[c])
    /\ UNCHANGED <<now, peer_inbound_timestamps, timestamps, at, source, accepted, recorded>>

\* The id is recorded before the limit is applied.
Accept(c) ==
    /\ Goto(c, "start", "limit")
    /\ ~Seen(Id[c])
    /\ seen_message_ids' = AfterNew(Id[c])
    /\ accepted' = [accepted EXCEPT ![c] = now]
    /\ UNCHANGED <<now, message_redundancy, peer_inbound_timestamps, timestamps, at, source,
                   recorded>>

-----------------------------------------------------------------------------
(* is_inbound_limited. *)

\* The time is taken, and the list that is stored is found.
Begin(c) ==
    /\ Goto(c, "limit", "filter")
    /\ at' = [at EXCEPT ![c] = now]
    /\ source' = [source EXCEPT ![c] = peer_inbound_timestamps[Sender[c]]]
    /\ UNCHANGED <<now, seen_message_ids, message_redundancy, peer_inbound_timestamps,
                   timestamps, accepted, recorded>>

\* Mutant: old times stay.
AllTimes(c) == timestamps[source[c]]

RecentTimes(c) ==
    Kept(timestamps[source[c]], {ts \in Time : ts > at[c] - INBOUND_TIME_WINDOW})

\* A list another call appends to meanwhile is copied with what was appended.
Filter(c) ==
    /\ Goto(c, "filter", "store")
    /\ timestamps' = [timestamps EXCEPT ![c] = IF source[c] = Never THEN <<>> ELSE RecentTimes(c)]
    /\ source' = [source EXCEPT ![c] = Never]
    /\ UNCHANGED <<now, seen_message_ids, message_redundancy, peer_inbound_timestamps,
                   at, accepted, recorded>>

Store(c) ==
    /\ Goto(c, "store", "append")
    /\ peer_inbound_timestamps' = [peer_inbound_timestamps EXCEPT ![Sender[c]] = c]
    /\ UNCHANGED <<now, seen_message_ids, message_redundancy, timestamps, at, source, accepted, recorded>>

\* Mutant: the start of the window is recorded.
WindowStart(c) == at[c] - INBOUND_TIME_WINDOW

Stamp(c) == at[c]

\* The time goes to the list that is stored by now.
Record(c) ==
    /\ Goto(c, "append", "check")
    /\ timestamps' = [timestamps EXCEPT ![peer_inbound_timestamps[Sender[c]]] =
                         Append(@, Stamp(c))]
    /\ recorded' = [recorded EXCEPT ![c] = now]
    /\ UNCHANGED <<now, seen_message_ids, message_redundancy, peer_inbound_timestamps,
                   at, source, accepted>>

Limited(c) == Len(timestamps[c]) > INBOUND_RATE_LIMIT

Check(c) ==
    /\ Goto(c, "check", IF Limited(c) THEN "limited" ELSE "handled")
    /\ UNCHANGED <<now, seen_message_ids, message_redundancy, peer_inbound_timestamps,
                   timestamps, at, source, accepted, recorded>>

-----------------------------------------------------------------------------
Next ==
    \/ Tick
    \/ \E c \in Call :
          \/ Refuse(c)
          \/ DropCopy(c)
          \/ Accept(c)
          \/ Begin(c)
          \/ Filter(c)
          \/ Store(c)
          \/ Record(c)
          \/ Check(c)

Spec == Init /\ [][Next]_vars

-----------------------------------------------------------------------------
(* Safety. *)

\* Two messages with one id are accepted only if the record of the first has expired: also
\* when they arrive together and also when there were others before.
HandledOnce ==
    \A c, d \in Call :
        (c # d /\ Id[c] = Id[d] /\ accepted[c] # Never /\ accepted[d] # Never) =>
            \/ accepted[c] - accepted[d] >= SEEN_EXPIRY_SECONDS
            \/ accepted[d] - accepted[c] >= SEEN_EXPIRY_SECONDS

\* A message is dropped as a copy only of one that was accepted, and not long ago: the copies
\* of a message, however many, do not push each other out for ever.
CopyOfAccepted ==
    [][\A c \in Call :
          (pc[c] # "duplicate" /\ pc'[c] = "duplicate") =>
              \E d \in Call :
                  /\ Id[d] = Id[c] /\ accepted[d] # Never
                  /\ now - accepted[d] < SEEN_EXPIRY_SECONDS]_vars

\* The messages of the sender of c, that of c included, that were counted in the window of c.
InWindow(c) ==
    {d \in Call :
        /\ Sender[d] = Sender[c] /\ recorded[d] # Never
        /\ recorded[d] > at[c] - INBOUND_TIME_WINDOW}

\* A message is dropped by the limit only if more than the limit were counted of its sender in
\* the window: the calls that share the lists without a lock may lose times, and a slow call
\* may add an old time to a new list, but no message counts twice, and none that was counted
\* before the window.
LimitJustified ==
    \A c \in Call : pc[c] = "limited" => Cardinality(InWindow(c)) > INBOUND_RATE_LIMIT
=============================================================================
