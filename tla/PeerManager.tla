----------------------------- MODULE PeerManager -----------------------------
(***************************************************************************)
(* What one node knows of its peers (peer_manager.py): the handler threads *)
(* of PING, PONG and invalid BLOCK or TX messages, which dispatch_message  *)
(* starts, the monitor, and the loop that is to clear old latencies.       *)
(*                                                                         *)
(* The module's lock protects some of the state some of the time: heart-   *)
(* beats and offence counts are changed without it, so a handler has a     *)
(* step for each of its reads and writes.                                  *)
(***************************************************************************)
EXTENDS Naturals, FiniteSets

CONSTANTS
    Peer,         \* the other nodes
    Handler,      \* the threads that handle messages
    MaxOffenses,  \* MAX_OFFENSES
    MaxSamples,   \* latencies kept of a peer: five
    Timeout,      \* TIMEOUT, after which a peer is unreachable
    MaxTime,      \* bound: the clock stops here
    MaxMessages,  \* bound: messages received
    Absent        \* no entry

ASSUME LimitsAssumption ==
    /\ MaxOffenses \in Nat \ {0} /\ MaxSamples \in Nat \ {0} /\ Timeout \in Nat
    /\ MaxTime \in Nat /\ MaxMessages \in Nat
ASSUME AbsentAssumption == Absent \notin Nat \cup {"ALIVE", "UNREACHABLE"}

VARIABLES
    now,                  \* the clock
    last_ping_time,       \* when a peer was last heard of
    peer_status,          \* what the monitor and the heartbeats say of it
    rtt_tracker,          \* how many latencies are kept of it, zero for no entry too
    peer_offense_counts,  \* its offences as counted, zero for no entry
    blacklist,            \* the peers whose messages are dropped
    pc,                   \* where every handler is
    handled,              \* the message it handles: <<type, sender>>
    count,                \* the count it has read
    current_time,         \* when the monitor's round started
    unchecked,            \* the entries left in the round
    cleared,              \* has clear_loop run?
    received,             \* history: messages received
    offended,             \* history: calls of record_offense for every peer
    overlapped            \* history: peers of which two offences were counted at once

entries == <<last_ping_time, peer_status, rtt_tracker>>
offenses == <<peer_offense_counts, blacklist, offended, overlapped>>
monitor == <<current_time, unchecked>>
vars == <<now, entries, offenses, pc, handled, count, monitor, cleared, received>>

-----------------------------------------------------------------------------
Status == {"ALIVE", "UNREACHABLE"}

\* BAD is a BLOCK or a TX whose id is not its hash.
Type == {"PING", "PONG", "BAD"}
NoMessage == <<"none", Absent>>

\* Where a handler is while it is in record_offense.
InRecord == {"read", "write", "recheck", "punish"}

TypeOK ==
    /\ now \in 0..MaxTime
    /\ last_ping_time \in [Peer -> 0..MaxTime \cup {Absent}]
    /\ peer_status \in [Peer -> Status \cup {Absent}]
    /\ rtt_tracker \in [Peer -> 0..MaxSamples]
    /\ peer_offense_counts \in [Peer -> Nat]
    /\ blacklist \subseteq Peer
    /\ pc \in [Handler -> {"idle", "time", "status", "print", "rtt"} \cup InRecord]
    /\ handled \in [Handler -> Type \X Peer \cup {NoMessage}]
    /\ count \in [Handler -> Nat]
    /\ current_time \in 0..MaxTime
    /\ unchecked \subseteq Peer \X (0..MaxTime)
    /\ cleared \in BOOLEAN
    /\ received \in 0..MaxMessages
    /\ offended \in [Peer -> Nat]
    /\ overlapped \subseteq Peer

Init ==
    /\ now = 0
    /\ last_ping_time = [p \in Peer |-> Absent]
    /\ peer_status = [p \in Peer |-> Absent]
    /\ rtt_tracker = [p \in Peer |-> 0]
    /\ peer_offense_counts = [p \in Peer |-> 0]
    /\ blacklist = {}
    /\ pc = [h \in Handler |-> "idle"]
    /\ handled = [h \in Handler |-> NoMessage]
    /\ count = [h \in Handler |-> 0]
    /\ current_time = 0
    /\ unchecked = {}
    /\ cleared = FALSE
    /\ received = 0
    /\ offended = [p \in Peer |-> 0]
    /\ overlapped = {}

Tick ==
    /\ now < MaxTime
    /\ now' = now + 1
    /\ UNCHANGED <<entries, offenses, pc, handled, count, monitor, cleared, received>>

TypeOfMessage(h) == handled[h][1]
Sender(h) == handled[h][2]

\* Handler h, whose next step was `from`, goes on to `to`.
Step(h, from, to) ==
    /\ pc[h] = from
    /\ pc' = [pc EXCEPT ![h] = to]
    /\ handled' = IF to = "idle" THEN [handled EXCEPT ![h] = NoMessage] ELSE handled

-----------------------------------------------------------------------------
(* dispatch_message up to the call of the handler. *)

\* The blacklist is looked at once; the sender may get onto it while its message is handled.
Dispatch(h, type, p) ==
    /\ pc[h] = "idle" /\ received < MaxMessages
    /\ p \notin blacklist
    /\ pc' = [pc EXCEPT ![h] = IF type = "BAD" THEN "read" ELSE "time"]
    /\ handled' = [handled EXCEPT ![h] = <<type, p>>]
    /\ received' = received + 1
    /\ UNCHANGED <<now, entries, offenses, count, monitor, cleared>>

-----------------------------------------------------------------------------
(* update_peer_heartbeat, without the lock, and handle_pong, with it. *)

SetTime(h) ==
    /\ Step(h, "time", "status")
    /\ last_ping_time' = [last_ping_time EXCEPT ![Sender(h)] = now]
    /\ UNCHANGED <<now, peer_status, rtt_tracker, offenses, count, monitor, cleared, received>>

SetAlive(h) ==
    /\ Step(h, "status", "print")
    /\ peer_status' = [peer_status EXCEPT ![Sender(h)] = "ALIVE"]
    /\ UNCHANGED <<now, last_ping_time, rtt_tracker, offenses, count, monitor, cleared, received>>

\* The message that is printed reads the entry again.  If it is gone the KeyError ends the
\* handler, and the PING is not answered; else a PING is answered and a PONG goes on.
PrintTime(h) ==
    /\ pc[h] = "print"
    /\ \/ /\ last_ping_time[Sender(h)] = Absent \/ TypeOfMessage(h) = "PING"
          /\ Step(h, "print", "idle")
       \/ /\ last_ping_time[Sender(h)] # Absent /\ TypeOfMessage(h) = "PONG"
          /\ Step(h, "print", "rtt")
    /\ UNCHANGED <<now, entries, offenses, count, monitor, cleared, received>>

\* Mutant: nothing is taken off.
Untrimmed(n) == n

\* The oldest latency goes when there are more than MaxSamples.
Trimmed(n) == IF n > MaxSamples THEN n - 1 ELSE n

HandlePong(h) ==
    /\ Step(h, "rtt", "idle")
    /\ rtt_tracker' = [rtt_tracker EXCEPT ![Sender(h)] = Trimmed(@ + 1)]
    /\ UNCHANGED <<now, last_ping_time, peer_status, offenses, count, monitor, cleared, received>>

-----------------------------------------------------------------------------
(* record_offense: counts without the lock, blacklists with it. *)

\* Mutant: a peer without an entry starts from one.
ReadFromOne(p) == IF peer_offense_counts[p] = 0 THEN 1 ELSE peer_offense_counts[p]

ReadCount(p) == peer_offense_counts[p]

ReadOffenses(h) ==
    LET p == Sender(h)
    IN  /\ Step(h, "read", "write")
        /\ count' = [count EXCEPT ![h] = ReadCount(p)]
        /\ offended' = [offended EXCEPT ![p] = @ + 1]
        /\ overlapped' = IF \E g \in Handler : pc[g] = "write" /\ Sender(g) = p
                         THEN overlapped \cup {p} ELSE overlapped
        /\ UNCHANGED <<now, entries, peer_offense_counts, blacklist, monitor, cleared, received>>

WriteOffenses(h) ==
    /\ Step(h, "write", "recheck")
    /\ peer_offense_counts' = [peer_offense_counts EXCEPT ![Sender(h)] = count[h] + 1]
    /\ count' = [count EXCEPT ![h] = 0]
    /\ UNCHANGED <<now, entries, blacklist, offended, overlapped, monitor, cleared, received>>

\* Mutants: the limit is reached one too early, and one too late.
Early(n) == n >= MaxOffenses - 1
Late(n) == n > MaxOffenses

TooMany(n) == n >= MaxOffenses

\* The count is read again; another handler may have written it meanwhile.
Recheck(h) ==
    /\ pc[h] = "recheck"
    /\ \/ TooMany(peer_offense_counts[Sender(h)]) /\ Step(h, "recheck", "punish")
       \/ ~TooMany(peer_offense_counts[Sender(h)]) /\ Step(h, "recheck", "idle")
    /\ UNCHANGED <<now, entries, offenses, count, monitor, cleared, received>>

Punish(h) ==
    LET p == Sender(h)
    IN  /\ Step(h, "punish", "idle")
        /\ blacklist' = blacklist \cup {p}
        /\ peer_status' = [peer_status EXCEPT ![p] = Absent]
        /\ last_ping_time' = [last_ping_time EXCEPT ![p] = Absent]
        /\ rtt_tracker' = [rtt_tracker EXCEPT ![p] = 0]
        /\ UNCHANGED <<now, peer_offense_counts, offended, overlapped, count, monitor, cleared,
                       received>>

-----------------------------------------------------------------------------
(* The monitor and clear_loop. *)

\* Mutant: the time is taken once, before the loop.
FirstTime == current_time

RoundTime == now

\* A round works on a copy of the entries and on the time it started.
StartRound ==
    /\ unchecked = {}
    /\ current_time' = RoundTime
    /\ unchecked' = {<<p, last_ping_time[p]>> : p \in {q \in Peer : last_ping_time[q] # Absent}}
    /\ UNCHANGED <<now, entries, offenses, pc, handled, count, cleared, received>>

\* Mutant: the blacklist is not looked at.
NeverSkipped(p) == FALSE

Skipped(p) == p \in blacklist

\* One entry, in a lock section of its own.
CheckEntry ==
    /\ \E entry \in unchecked :
           /\ unchecked' = unchecked \ {entry}
           /\ LET p == entry[1]
                  last_ts == entry[2]
              IN  peer_status' =
                      IF Skipped(p) THEN peer_status
                      ELSE [peer_status EXCEPT ![p] =
                                IF current_time > last_ts + Timeout THEN "UNREACHABLE"
                                ELSE "ALIVE"]
    /\ UNCHANGED <<now, last_ping_time, rtt_tracker, offenses, pc, handled, count, current_time,
                   cleared, received>>

\* clear_loop has no loop: one latency of every peer is dropped, once.
ClearOnce ==
    /\ ~cleared
    /\ cleared' = TRUE
    /\ rtt_tracker' = [p \in Peer |-> IF last_ping_time[p] # Absent /\ rtt_tracker[p] > 0
                                     THEN rtt_tracker[p] - 1 ELSE rtt_tracker[p]]
    /\ UNCHANGED <<now, last_ping_time, peer_status, offenses, pc, handled, count, monitor,
                   received>>

-----------------------------------------------------------------------------
Next ==
    \/ Tick
    \/ \E h \in Handler, type \in Type, p \in Peer : Dispatch(h, type, p)
    \/ \E h \in Handler : SetTime(h)
    \/ \E h \in Handler : SetAlive(h)
    \/ \E h \in Handler : PrintTime(h)
    \/ \E h \in Handler : HandlePong(h)
    \/ \E h \in Handler : ReadOffenses(h)
    \/ \E h \in Handler : WriteOffenses(h)
    \/ \E h \in Handler : Recheck(h)
    \/ \E h \in Handler : Punish(h)
    \/ StartRound
    \/ CheckEntry
    \/ ClearOnce

\* The monitor is a loop with a pause of 30 seconds and short lock sections.  Nothing is
\* assumed of messages, handlers and the clock.
Fairness == WF_vars(StartRound) /\ WF_vars(CheckEntry)

SafeSpec == Init /\ [][Next]_vars
Spec == SafeSpec /\ Fairness

-----------------------------------------------------------------------------
(* Safety. *)

\* No handler is handling a message of p, or is in record_offense with it.
Quiet(p) == \A h \in Handler : Sender(h) # p
NotRecording(p) == \A h \in Handler : Sender(h) = p => pc[h] \notin InRecord

\* A lost update may forget offences but never invents one: who is blacklisted has
\* offended MAX_OFFENSES times.
BlacklistJustified == \A p \in blacklist : offended[p] >= MaxOffenses

\* The check reads a count that another handler may have changed, also to less; but a count
\* that has reached the limit and stays there blacklists the peer.
LimitEnforced ==
    \A p \in Peer : NotRecording(p) /\ peer_offense_counts[p] >= MaxOffenses => p \in blacklist

\* The count is right if no two offences of the peer were handled at once.
CountedAlone ==
    \A p \in Peer : NotRecording(p) /\ p \notin overlapped => peer_offense_counts[p] = offended[p]

\* Once a peer is blacklisted and its last messages are handled, no entry for it comes back,
\* although the monitor works on a copy that may still have it.
NothingRevived ==
    [][\A p \in blacklist : Quiet(p) =>
           /\ last_ping_time[p] = Absent => last_ping_time'[p] = Absent
           /\ peer_status[p] = Absent => peer_status'[p] = Absent
           /\ rtt_tracker[p] = 0 => rtt_tracker'[p] = 0]_vars

-----------------------------------------------------------------------------
(* Liveness. *)

StatusRight(p) ==
    /\ last_ping_time[p] # Absent
    /\ peer_status[p] = IF now > last_ping_time[p] + Timeout THEN "UNREACHABLE" ELSE "ALIVE"

\* What peer_status says of a peer is right again and again, although a round of the monitor
\* writes what it read at its start over what a heartbeat has written since.
StatusCatchesUp ==
    \A p \in Peer : last_ping_time[p] # Absent ~> p \in blacklist \/ StatusRight(p)

-----------------------------------------------------------------------------
(* What the documents say and the code does not do. *)

\* README:255: a peer whose offence times exceed 3 is on the blacklist.
ExceedingIsBlacklisted ==
    \A p \in Peer : NotRecording(p) /\ offended[p] > MaxOffenses => p \in blacklist
=============================================================================
