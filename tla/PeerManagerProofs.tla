-------------------------- MODULE PeerManagerProofs --------------------------
(***************************************************************************)
(* What PeerManager guarantees of the blacklist, although offences are     *)
(* counted without a lock, for any number of peers, handlers and messages. *)
(***************************************************************************)
EXTENDS PeerManager, TLAPS

-----------------------------------------------------------------------------
(* The inductive invariant. *)

\* A handler that is at work has a message.
AtWork == \A h \in Handler : pc[h] # "idle" => handled[h] \in Type \X Peer

\* What is counted, what is about to be written and what is about to be punished has happened.
CountsHappened ==
    /\ \A p \in Peer : peer_offense_counts[p] <= offended[p]
    /\ \A h \in Handler :
           /\ pc[h] = "write" => count[h] < offended[Sender(h)]
           /\ pc[h] = "punish" => MaxOffenses <= offended[Sender(h)]

\* As long as the count of a peer is at the limit somebody will look at it.
SomebodyChecks ==
    \A p \in Peer :
        peer_offense_counts[p] >= MaxOffenses =>
            \/ p \in blacklist
            \/ \E h \in Handler : pc[h] \in {"recheck", "punish"} /\ Sender(h) = p

Writers(p) == {h \in Handler : pc[h] = "write" /\ Sender(h) = p}

\* While no two offences of a peer are counted at once, the count is right, or will be.
CountWillBeRight ==
    \A p \in Peer :
        p \notin overlapped =>
            /\ Writers(p) = {} => peer_offense_counts[p] = offended[p]
            /\ \A h \in Writers(p) :
                   /\ Writers(p) = {h}
                   /\ count[h] = peer_offense_counts[p]
                   /\ offended[p] = peer_offense_counts[p] + 1

PeerInv ==
    /\ TypeOK /\ AtWork /\ CountsHappened /\ BlacklistJustified
    /\ SomebodyChecks /\ CountWillBeRight

-----------------------------------------------------------------------------
LEMMA PeerInvInit == Init => PeerInv
<1> SUFFICES ASSUME Init PROVE PeerInv OBVIOUS
<1>1. TypeOK
  <2>1. 0 \in 0..MaxTime /\ 0 \in 0..MaxSamples /\ 0 \in 0..MaxMessages /\ 0 \in Nat
    BY LimitsAssumption
  <2> QED BY <2>1 DEF Init, TypeOK
<1>2. AtWork /\ CountsHappened /\ BlacklistJustified
  BY LimitsAssumption DEF Init, AtWork, CountsHappened, BlacklistJustified
<1>3. SomebodyChecks
  BY LimitsAssumption DEF Init, SomebodyChecks
<1>4. CountWillBeRight
  BY DEF Init, CountWillBeRight, Writers
<1> QED BY <1>1, <1>2, <1>3, <1>4 DEF PeerInv

\* A handler goes on.
LEMMA StepFacts ==
    ASSUME TypeOK, AtWork, NEW h \in Handler, NEW from, NEW to, from # "idle",
           Step(h, from, to)
    PROVE  /\ pc[h] = from /\ Sender(h) \in Peer
           /\ pc' \in [Handler -> {"idle", "time", "status", "print", "rtt", to} \cup InRecord]
           /\ handled' \in [Handler -> Type \X Peer \cup {NoMessage}]
           /\ pc'[h] = to /\ (\A g \in Handler \ {h} : pc'[g] = pc[g] /\ handled'[g] = handled[g])
           /\ to # "idle" => handled' = handled
           /\ \A g \in Handler : pc'[g] # "idle" => handled'[g] = handled[g] /\ pc[g] # "idle"
           /\ AtWork'
<1>1. pc[h] = from /\ handled[h] \in Type \X Peer
  BY DEF Step, AtWork
<1>2. Sender(h) \in Peer
  BY <1>1 DEF Sender
<1>3. /\ pc \in [Handler -> {"idle", "time", "status", "print", "rtt"} \cup InRecord]
      /\ handled \in [Handler -> Type \X Peer \cup {NoMessage}]
  BY DEF TypeOK
<1>4. /\ pc' = [pc EXCEPT ![h] = to]
      /\ handled' = IF to = "idle" THEN [handled EXCEPT ![h] = NoMessage] ELSE handled
  BY DEF Step
<1>5. /\ pc' \in [Handler -> {"idle", "time", "status", "print", "rtt", to} \cup InRecord]
      /\ handled' \in [Handler -> Type \X Peer \cup {NoMessage}]
      /\ pc'[h] = to /\ (\A g \in Handler \ {h} : pc'[g] = pc[g] /\ handled'[g] = handled[g])
  BY <1>3, <1>4
<1>6. \A g \in Handler : pc'[g] # "idle" => handled'[g] = handled[g] /\ pc[g] # "idle"
  BY <1>1, <1>4, <1>5
<1>7. AtWork'
  BY <1>6 DEF AtWork
<1> QED BY <1>1, <1>2, <1>4, <1>5, <1>6, <1>7

\* A step that is not one of record_offense leaves what is said of offences as it is.
LEMMA OtherHandlersStep ==
    ASSUME PeerInv, UNCHANGED offenses, UNCHANGED count,
           \A h \in Handler : pc'[h] \in InRecord \ {"read"} =>
               pc'[h] = pc[h] /\ handled'[h] = handled[h],
           \A h \in Handler : pc[h] \in {"write", "recheck", "punish"} =>
               pc'[h] = pc[h] /\ handled'[h] = handled[h]
    PROVE  (CountsHappened /\ BlacklistJustified /\ SomebodyChecks /\ CountWillBeRight)'
<1>1. CountsHappened'
  BY DEF PeerInv, CountsHappened, offenses, Sender, InRecord
<1>2. BlacklistJustified'
  BY DEF PeerInv, BlacklistJustified, offenses
<1>3. SomebodyChecks'
  BY DEF PeerInv, SomebodyChecks, offenses, Sender
<1>4. \A p \in Peer : Writers(p)' = Writers(p)
  BY DEF Writers, InRecord, Sender
<1>5. CountWillBeRight'
  BY <1>4 DEF PeerInv, CountWillBeRight, offenses
<1> QED BY <1>1, <1>2, <1>3, <1>5


LEMMA OffensesSteps ==
    ASSUME PeerInv, NEW h \in Handler, ReadOffenses(h) \/ WriteOffenses(h)
    PROVE  PeerInv'
<1>1. TypeOK /\ AtWork /\ CountsHappened /\ SomebodyChecks /\ CountWillBeRight
  BY DEF PeerInv
<1>2. \A p \in Peer : peer_offense_counts[p] \in Nat /\ offended[p] \in Nat
  BY <1>1 DEF TypeOK
<1>3. CASE ReadOffenses(h)
  <2>1. PICK p : p = Sender(h)
    OBVIOUS
  <2>2. /\ pc[h] = "read" /\ p \in Peer /\ pc'[h] = "write" /\ handled' = handled /\ AtWork'
        /\ \A g \in Handler \ {h} : pc'[g] = pc[g]
        /\ pc' \in [Handler -> {"idle", "time", "status", "print", "rtt", "write"} \cup InRecord]
    BY <1>1, <1>3, <2>1, StepFacts DEF ReadOffenses
  <2>3. /\ count' = [count EXCEPT ![h] = peer_offense_counts[p]]
        /\ offended' = [offended EXCEPT ![p] = @ + 1]
        /\ overlapped' = IF \E g \in Handler : pc[g] = "write" /\ Sender(g) = p
                         THEN overlapped \cup {p} ELSE overlapped
        /\ UNCHANGED <<now, entries, peer_offense_counts, blacklist, monitor, cleared, received>>
    BY <1>3, <2>1 DEF ReadOffenses, ReadCount
  <2>4. TypeOK'
    <3>1. count' \in [Handler -> Nat] /\ offended' \in [Peer -> Nat]
      BY <1>1, <1>2, <2>2, <2>3 DEF TypeOK
    <3>2. overlapped' \subseteq Peer
      BY <1>1, <2>2, <2>3 DEF TypeOK
    <3>3. pc' \in [Handler -> {"idle", "time", "status", "print", "rtt"} \cup InRecord]
      BY <2>2 DEF InRecord
    <3> QED BY <1>1, <2>2, <2>3, <3>1, <3>2, <3>3 DEF TypeOK, entries, monitor
  <2>5. /\ offended'[p] = offended[p] + 1
        /\ \A q \in Peer \ {p} : offended'[q] = offended[q]
        /\ count'[h] = peer_offense_counts[p]
        /\ \A g \in Handler \ {h} : count'[g] = count[g]
    BY <1>1, <2>2, <2>3 DEF TypeOK
  <2>6. \A g \in Handler : Sender(g)' = Sender(g) /\ (pc[g] # "idle" => Sender(g) \in Peer)
    BY <1>1, <2>2 DEF Sender, AtWork
  <2>7. \A q \in Peer : offended'[q] \in Nat /\ offended'[q] >= offended[q]
    BY <1>2, <2>5
  <2>8. CountsHappened'
    <3>1. \A q \in Peer : peer_offense_counts[q] <= offended'[q]
      BY <1>1, <1>2, <2>7 DEF CountsHappened
    <3>2. ASSUME NEW g \in Handler, pc'[g] = "write" PROVE count'[g] < offended'[Sender(g)]
      <4>1. CASE g = h
        BY <1>1, <1>2, <2>1, <2>2, <2>5, <4>1 DEF CountsHappened
      <4>2. CASE g # h
        <5>1. count[g] < offended[Sender(g)] /\ Sender(g) \in Peer /\ count[g] \in Nat
          BY <1>1, <2>2, <2>6, <3>2, <4>2 DEF CountsHappened, TypeOK
        <5> QED BY <1>2, <2>5, <2>7, <4>2, <5>1
      <4> QED BY <4>1, <4>2
    <3>3. ASSUME NEW g \in Handler, pc'[g] = "punish"
          PROVE  MaxOffenses <= offended'[Sender(g)]
      <4>1. g # h /\ MaxOffenses <= offended[Sender(g)] /\ Sender(g) \in Peer
        BY <1>1, <2>2, <2>6, <3>3 DEF CountsHappened
      <4> QED BY <1>2, <2>7, <4>1, LimitsAssumption
    <3> QED BY <2>3, <2>6, <3>1, <3>2, <3>3 DEF CountsHappened
  <2>9. BlacklistJustified'
    <3>1. \A q \in blacklist : q \in Peer /\ offended[q] >= MaxOffenses
      BY <1>1 DEF TypeOK, PeerInv, BlacklistJustified
    <3> QED BY <1>2, <2>3, <2>7, <3>1, LimitsAssumption DEF BlacklistJustified
  <2>10. SomebodyChecks'
    BY <1>1, <2>2, <2>3, <2>6 DEF SomebodyChecks
  <2>11. CountWillBeRight'
    <3>1. ASSUME NEW q \in Peer, q # p PROVE Writers(q)' = Writers(q)
      BY <2>1, <2>2, <2>6, <3>1 DEF Writers
    <3>2. Writers(p)' = Writers(p) \cup {h}
      BY <2>1, <2>2, <2>6 DEF Writers
    <3>3. ASSUME p \notin overlapped' PROVE Writers(p) = {} /\ p \notin overlapped
      BY <2>3, <3>3 DEF Writers
    <3>4. ASSUME NEW q \in Peer, q # p, q \notin overlapped'
          PROVE  /\ Writers(q) = {} => peer_offense_counts[q] = offended'[q]
                 /\ \A g \in Writers(q) :
                        /\ Writers(q) = {g}
                        /\ count'[g] = peer_offense_counts[q]
                        /\ offended'[q] = peer_offense_counts[q] + 1
      <4>1. q \notin overlapped /\ offended'[q] = offended[q] /\ h \notin Writers(q)
        BY <2>2, <2>3, <2>5, <3>4 DEF Writers
      <4>2. \A g \in Writers(q) : count'[g] = count[g]
        BY <2>5, <4>1 DEF Writers
      <4> QED BY <1>1, <4>1, <4>2 DEF CountWillBeRight
    <3>5. ASSUME p \notin overlapped'
          PROVE  Writers(p)' = {h} /\ offended'[p] = peer_offense_counts[p] + 1
      BY <1>1, <2>2, <2>5, <3>2, <3>3, <3>5 DEF CountWillBeRight
    <3> QED BY <2>2, <2>3, <2>5, <3>1, <3>4, <3>5 DEF CountWillBeRight
  <2> QED BY <2>2, <2>4, <2>8, <2>9, <2>10, <2>11 DEF PeerInv
<1>4. CASE WriteOffenses(h)
  <2>1. PICK p : p = Sender(h)
    OBVIOUS
  <2>2. /\ pc[h] = "write" /\ p \in Peer /\ pc'[h] = "recheck" /\ handled' = handled /\ AtWork'
        /\ \A g \in Handler \ {h} : pc'[g] = pc[g]
        /\ pc' \in [Handler -> {"idle", "time", "status", "print", "rtt", "recheck"} \cup InRecord]
    BY <1>1, <1>4, <2>1, StepFacts DEF WriteOffenses
  <2>3. /\ peer_offense_counts' = [peer_offense_counts EXCEPT ![p] = count[h] + 1]
        /\ count' = [count EXCEPT ![h] = 0]
        /\ UNCHANGED <<now, entries, blacklist, offended, overlapped, monitor, cleared, received>>
    BY <1>4, <2>1 DEF WriteOffenses
  <2>4. count[h] \in Nat /\ count[h] < offended[p]
    BY <1>1, <2>1, <2>2 DEF TypeOK, CountsHappened
  <2>5. TypeOK'
    <3>1. count' \in [Handler -> Nat] /\ peer_offense_counts' \in [Peer -> Nat]
      BY <1>1, <2>2, <2>3, <2>4 DEF TypeOK
    <3>2. pc' \in [Handler -> {"idle", "time", "status", "print", "rtt"} \cup InRecord]
      BY <2>2 DEF InRecord
    <3> QED BY <1>1, <2>2, <2>3, <3>1, <3>2 DEF TypeOK, entries, monitor
  <2>6. /\ peer_offense_counts'[p] = count[h] + 1
        /\ \A q \in Peer \ {p} : peer_offense_counts'[q] = peer_offense_counts[q]
        /\ \A g \in Handler \ {h} : count'[g] = count[g]
    BY <1>1, <2>2, <2>3 DEF TypeOK
  <2>7. \A g \in Handler : Sender(g)' = Sender(g)
    BY <2>2 DEF Sender
  <2>8. CountsHappened'
    <3>1. \A q \in Peer : peer_offense_counts'[q] <= offended[q]
      BY <1>1, <1>2, <2>2, <2>4, <2>6 DEF CountsHappened
    <3>2. ASSUME NEW g \in Handler
          PROVE  /\ pc'[g] = "write" => count'[g] < offended[Sender(g)]
                 /\ pc'[g] = "punish" => MaxOffenses <= offended[Sender(g)]
      BY <1>1, <2>2, <2>6 DEF CountsHappened
    <3> QED BY <2>3, <2>7, <3>1, <3>2 DEF CountsHappened
  <2>9. BlacklistJustified'
    BY <2>3 DEF PeerInv, BlacklistJustified
  <2>10. SomebodyChecks'
    <3>1. ASSUME NEW q \in Peer, q # p, peer_offense_counts'[q] >= MaxOffenses
          PROVE  \/ q \in blacklist
                 \/ \E g \in Handler : pc'[g] \in {"recheck", "punish"} /\ Sender(g) = q
      BY <1>1, <2>1, <2>2, <2>6, <3>1 DEF SomebodyChecks
    <3>2. pc'[h] \in {"recheck", "punish"} /\ Sender(h) = p
      BY <2>1, <2>2
    <3> QED BY <2>3, <2>7, <3>1, <3>2 DEF SomebodyChecks
  <2>11. CountWillBeRight'
    <3>1. ASSUME NEW q \in Peer, q # p PROVE Writers(q)' = Writers(q) /\ h \notin Writers(q)
      BY <2>1, <2>2, <2>7, <3>1 DEF Writers
    <3>2. Writers(p)' = Writers(p) \ {h} /\ h \in Writers(p)
      BY <2>1, <2>2, <2>7 DEF Writers
    <3>3. ASSUME NEW q \in Peer, q # p, q \notin overlapped
          PROVE  /\ Writers(q) = {} => peer_offense_counts'[q] = offended[q]
                 /\ \A g \in Writers(q) :
                        /\ Writers(q) = {g}
                        /\ count'[g] = peer_offense_counts'[q]
                        /\ offended[q] = peer_offense_counts'[q] + 1
      <4>1. \A g \in Writers(q) : count'[g] = count[g]
        BY <2>6, <3>1, <3>3 DEF Writers
      <4> QED BY <1>1, <2>6, <3>3, <4>1 DEF CountWillBeRight
    <3>4. ASSUME p \notin overlapped
          PROVE  Writers(p)' = {} /\ peer_offense_counts'[p] = offended[p]
      BY <1>1, <2>2, <2>6, <3>2, <3>4 DEF CountWillBeRight
    <3> QED BY <2>2, <2>3, <3>1, <3>3, <3>4 DEF CountWillBeRight
  <2> QED BY <2>2, <2>5, <2>8, <2>9, <2>10, <2>11 DEF PeerInv
<1> QED BY <1>3, <1>4

LEMMA RecheckStep ==
    ASSUME PeerInv, NEW h \in Handler, Recheck(h)
    PROVE  PeerInv'
<1>1. TypeOK /\ AtWork /\ CountsHappened /\ SomebodyChecks /\ CountWillBeRight
  BY DEF PeerInv
<1>2. /\ UNCHANGED <<now, entries, offenses, count, monitor, cleared, received>>
      /\ pc[h] = "recheck" /\ Sender(h) \in Peer
  BY <1>1 DEF Recheck, AtWork, Sender
<1>3. PICK to \in {"punish", "idle"} :
          /\ Step(h, "recheck", to)
          /\ IF to = "punish" THEN peer_offense_counts[Sender(h)] >= MaxOffenses
                              ELSE ~(peer_offense_counts[Sender(h)] >= MaxOffenses)
  BY DEF Recheck, TooMany
<1>4. /\ pc' \in [Handler -> {"idle", "time", "status", "print", "rtt"} \cup InRecord]
      /\ handled' \in [Handler -> Type \X Peer \cup {NoMessage}]
      /\ pc'[h] = to /\ (\A g \in Handler \ {h} : pc'[g] = pc[g] /\ handled'[g] = handled[g])
      /\ to # "idle" => handled' = handled
      /\ AtWork'
  BY <1>1, <1>3, StepFacts DEF InRecord
<1>5. TypeOK'
  BY <1>1, <1>2, <1>4 DEF TypeOK, entries, offenses, monitor
<1>6. \A p \in Peer : Writers(p)' = Writers(p)
  BY <1>2, <1>3, <1>4 DEF Writers, Sender
<1>7. CountsHappened'
  <2>1. ASSUME NEW g \in Handler
        PROVE  /\ pc'[g] = "write" => count[g] < offended[Sender(g)']
               /\ pc'[g] = "punish" => MaxOffenses <= offended[Sender(g)']
    <3>1. CASE g # h
      BY <1>1, <1>4, <3>1 DEF CountsHappened, Sender
    <3>2. CASE g = h
      <4>1. /\ peer_offense_counts[Sender(h)] <= offended[Sender(h)]
            /\ peer_offense_counts[Sender(h)] \in Nat /\ offended[Sender(h)] \in Nat
        BY <1>1, <1>2 DEF CountsHappened, TypeOK
      <4> QED BY <1>3, <1>4, <3>2, <4>1, LimitsAssumption DEF Sender
    <3> QED BY <3>1, <3>2
  <2> QED BY <1>1, <1>2, <2>1 DEF CountsHappened, offenses
<1>8. BlacklistJustified'
  BY <1>2 DEF PeerInv, BlacklistJustified, offenses
<1>9. SomebodyChecks'
  <2>1. ASSUME NEW p \in Peer, peer_offense_counts[p] >= MaxOffenses, p \notin blacklist
        PROVE  \E g \in Handler : pc'[g] \in {"recheck", "punish"} /\ Sender(g)' = p
    <3>1. PICK g \in Handler : pc[g] \in {"recheck", "punish"} /\ Sender(g) = p
      BY <1>1, <2>1 DEF SomebodyChecks
    <3>2. CASE g # h
      BY <1>4, <3>1, <3>2 DEF Sender
    <3>3. CASE g = h
      BY <1>3, <1>4, <2>1, <3>1, <3>3 DEF Sender
    <3> QED BY <3>2, <3>3
  <2> QED BY <1>2, <2>1 DEF SomebodyChecks, offenses
<1>10. CountWillBeRight'
  BY <1>1, <1>2, <1>6 DEF CountWillBeRight, offenses
<1> QED BY <1>4, <1>5, <1>7, <1>8, <1>9, <1>10 DEF PeerInv

LEMMA PunishStep ==
    ASSUME PeerInv, NEW h \in Handler, Punish(h)
    PROVE  PeerInv'
<1>1. TypeOK /\ AtWork /\ CountsHappened /\ SomebodyChecks /\ CountWillBeRight
  BY DEF PeerInv
<1>2. PICK p : p = Sender(h)
  OBVIOUS
<1>3. /\ pc[h] = "punish" /\ p \in Peer
      /\ pc' \in [Handler -> {"idle", "time", "status", "print", "rtt"} \cup InRecord]
      /\ handled' \in [Handler -> Type \X Peer \cup {NoMessage}]
      /\ pc'[h] = "idle" /\ (\A g \in Handler \ {h} : pc'[g] = pc[g] /\ handled'[g] = handled[g])
      /\ AtWork'
  BY <1>1, <1>2, StepFacts DEF Punish, InRecord
<1>4. /\ blacklist' = blacklist \cup {p}
      /\ peer_status' = [peer_status EXCEPT ![p] = Absent]
      /\ last_ping_time' = [last_ping_time EXCEPT ![p] = Absent]
      /\ rtt_tracker' = [rtt_tracker EXCEPT ![p] = 0]
      /\ UNCHANGED <<now, peer_offense_counts, offended, overlapped, count, monitor, cleared,
                     received>>
  BY <1>2 DEF Punish
<1>5. TypeOK'
  <2>1. 0 \in 0..MaxSamples
    BY LimitsAssumption
  <2>2. /\ blacklist' \subseteq Peer
        /\ peer_status' \in [Peer -> Status \cup {Absent}]
        /\ last_ping_time' \in [Peer -> 0..MaxTime \cup {Absent}]
        /\ rtt_tracker' \in [Peer -> 0..MaxSamples]
    BY <1>1, <1>3, <1>4, <2>1 DEF TypeOK
  <2> QED BY <1>1, <1>3, <1>4, <2>2 DEF TypeOK, monitor
<1>6. \A q \in Peer : Writers(q)' = Writers(q)
  BY <1>3 DEF Writers, Sender
<1>7. CountsHappened'
  BY <1>1, <1>3, <1>4 DEF CountsHappened, Sender
<1>8. BlacklistJustified'
  <2>1. MaxOffenses <= offended[p] /\ offended[p] \in Nat
    BY <1>1, <1>2, <1>3 DEF CountsHappened, TypeOK
  <2> QED BY <1>4, <2>1, LimitsAssumption DEF PeerInv, BlacklistJustified
<1>9. SomebodyChecks'
  BY <1>1, <1>2, <1>3, <1>4 DEF SomebodyChecks, Sender
<1>10. CountWillBeRight'
  BY <1>1, <1>4, <1>6 DEF CountWillBeRight
<1> QED BY <1>3, <1>5, <1>7, <1>8, <1>9, <1>10 DEF PeerInv

\* The steps that have nothing to do with offences.
LEMMA DispatchStep ==
    ASSUME PeerInv, NEW h \in Handler, NEW type \in Type, NEW p \in Peer, Dispatch(h, type, p)
    PROVE  PeerInv'
<1>1. TypeOK /\ AtWork
  BY DEF PeerInv
<1>2. /\ pc[h] = "idle"
      /\ pc' = [pc EXCEPT ![h] = IF type = "BAD" THEN "read" ELSE "time"]
      /\ handled' = [handled EXCEPT ![h] = <<type, p>>]
      /\ received < MaxMessages /\ received' = received + 1
      /\ UNCHANGED <<now, entries, offenses, count, monitor, cleared>>
  BY DEF Dispatch
<1>3. /\ pc'[h] \in {"read", "time"} /\ handled'[h] \in Type \X Peer
      /\ \A g \in Handler \ {h} : pc'[g] = pc[g] /\ handled'[g] = handled[g]
  BY <1>1, <1>2 DEF TypeOK
<1>4. AtWork'
  BY <1>1, <1>3 DEF AtWork
<1>5. TypeOK'
  <2>1. pc' \in [Handler -> {"idle", "time", "status", "print", "rtt"} \cup InRecord]
    BY <1>1, <1>2 DEF TypeOK, InRecord
  <2>2. handled' \in [Handler -> Type \X Peer \cup {NoMessage}]
    BY <1>1, <1>2 DEF TypeOK
  <2>3. received' \in 0..MaxMessages
    BY <1>1, <1>2, LimitsAssumption DEF TypeOK
  <2> QED BY <1>1, <1>2, <2>1, <2>2, <2>3 DEF TypeOK, entries, offenses, monitor
<1>6. (CountsHappened /\ BlacklistJustified /\ SomebodyChecks /\ CountWillBeRight)'
  <2>1. UNCHANGED offenses /\ UNCHANGED count
    BY <1>2
  <2>2. /\ \A g \in Handler : pc'[g] \in InRecord \ {"read"} =>
               pc'[g] = pc[g] /\ handled'[g] = handled[g]
        /\ \A g \in Handler : pc[g] \in {"write", "recheck", "punish"} =>
               pc'[g] = pc[g] /\ handled'[g] = handled[g]
    BY <1>2, <1>3 DEF InRecord
  <2> QED BY <2>1, <2>2, OtherHandlersStep
<1> QED BY <1>4, <1>5, <1>6 DEF PeerInv

LEMMA HeartbeatSteps ==
    ASSUME PeerInv, NEW h \in Handler,
           SetTime(h) \/ SetAlive(h) \/ PrintTime(h) \/ HandlePong(h)
    PROVE  PeerInv'
<1>1. TypeOK /\ AtWork
  BY DEF PeerInv
<1>2. PICK from \in {"time", "status", "print", "rtt"},
           to \in {"status", "print", "rtt", "idle"} : Step(h, from, to)
  BY DEF SetTime, SetAlive, PrintTime, HandlePong
<1>3. /\ pc[h] = from /\ pc'[h] = to /\ Sender(h) \in Peer
      /\ pc' \in [Handler -> {"idle", "time", "status", "print", "rtt"} \cup InRecord]
      /\ handled' \in [Handler -> Type \X Peer \cup {NoMessage}]
      /\ \A g \in Handler \ {h} : pc'[g] = pc[g] /\ handled'[g] = handled[g]
      /\ AtWork'
  BY <1>1, <1>2, StepFacts DEF InRecord
<1>4. /\ last_ping_time' \in [Peer -> 0..MaxTime \cup {Absent}]
      /\ peer_status' \in [Peer -> Status \cup {Absent}]
      /\ UNCHANGED <<now, offenses, count, monitor, cleared, received>>
  <2>1. now \in 0..MaxTime /\ "ALIVE" \in Status
    BY <1>1 DEF TypeOK, Status
  <2>2. CASE SetTime(h)
    BY <1>1, <2>1, <2>2 DEF SetTime, TypeOK
  <2>3. CASE SetAlive(h)
    BY <1>1, <2>1, <2>3 DEF SetAlive, TypeOK
  <2>4. CASE PrintTime(h)
    BY <1>1, <2>4 DEF PrintTime, TypeOK, entries
  <2>5. CASE HandlePong(h)
    BY <1>1, <2>5 DEF HandlePong, TypeOK
  <2> QED BY <2>2, <2>3, <2>4, <2>5
<1>5. rtt_tracker' \in [Peer -> 0..MaxSamples]
  <2>1. CASE HandlePong(h)
    <3>1. \A n \in 0..MaxSamples : Trimmed(n + 1) \in 0..MaxSamples
      BY LimitsAssumption DEF Trimmed
    <3> QED BY <1>1, <2>1, <3>1 DEF HandlePong, TypeOK
  <2>2. CASE UNCHANGED rtt_tracker
    BY <1>1, <2>2 DEF TypeOK
  <2> QED BY <2>1, <2>2 DEF SetTime, SetAlive, PrintTime, entries
<1>6. TypeOK'
  BY <1>1, <1>3, <1>4, <1>5 DEF TypeOK, offenses, monitor
<1>7. (CountsHappened /\ BlacklistJustified /\ SomebodyChecks /\ CountWillBeRight)'
  <2>1. UNCHANGED offenses /\ UNCHANGED count
    BY <1>4
  <2>2. pc[h] \notin {"write", "recheck", "punish"} /\ pc'[h] \notin InRecord
    BY <1>3 DEF InRecord
  <2> QED BY <1>3, <2>1, <2>2, OtherHandlersStep
<1> QED BY <1>3, <1>6, <1>7 DEF PeerInv

LEMMA MonitorSteps ==
    ASSUME PeerInv, Tick \/ StartRound \/ CheckEntry \/ ClearOnce \/ UNCHANGED vars
    PROVE  PeerInv'
<1>1. TypeOK /\ AtWork
  BY DEF PeerInv
<1>2. UNCHANGED <<pc, handled>> /\ UNCHANGED offenses /\ UNCHANGED count
      /\ UNCHANGED <<last_ping_time, received>>
  BY DEF Tick, StartRound, CheckEntry, ClearOnce, vars, entries
<1>3. now' \in 0..MaxTime
  BY <1>1, LimitsAssumption
     DEF Tick, StartRound, CheckEntry, ClearOnce, vars, TypeOK
<1>4. peer_status' \in [Peer -> Status \cup {Absent}]
  <2>1. CASE CheckEntry
    BY <1>1, <2>1 DEF CheckEntry, TypeOK, Status
  <2>2. CASE UNCHANGED peer_status
    BY <1>1, <2>2 DEF TypeOK
  <2> QED BY <2>1, <2>2 DEF Tick, StartRound, ClearOnce, vars, entries
<1>5. rtt_tracker' \in [Peer -> 0..MaxSamples]
  <2>1. CASE ClearOnce
    <3>1. \A n \in 0..MaxSamples : n > 0 => n - 1 \in 0..MaxSamples
      BY LimitsAssumption
    <3> QED BY <1>1, <2>1, <3>1 DEF ClearOnce, TypeOK
  <2>2. CASE UNCHANGED rtt_tracker
    BY <1>1, <2>2 DEF TypeOK
  <2> QED BY <2>1, <2>2 DEF Tick, StartRound, CheckEntry, vars, entries
<1>6. current_time' \in 0..MaxTime /\ unchecked' \subseteq Peer \X (0..MaxTime)
  <2>1. CASE StartRound
    BY <1>1, <2>1 DEF StartRound, RoundTime, TypeOK
  <2>2. CASE ~StartRound
    BY <1>1, <2>2 DEF Tick, CheckEntry, ClearOnce, vars, monitor, TypeOK
  <2> QED BY <2>1, <2>2
<1>7. cleared' \in BOOLEAN
  BY <1>1 DEF Tick, StartRound, CheckEntry, ClearOnce, vars, TypeOK
<1>8. TypeOK' /\ AtWork'
  BY <1>1, <1>2, <1>3, <1>4, <1>5, <1>6, <1>7 DEF TypeOK, AtWork, offenses
<1>9. (CountsHappened /\ BlacklistJustified /\ SomebodyChecks /\ CountWillBeRight)'
  BY <1>2, OtherHandlersStep
<1> QED BY <1>8, <1>9 DEF PeerInv

LEMMA PeerInvStep == PeerInv /\ [Next]_vars => PeerInv'
BY OffensesSteps, RecheckStep, PunishStep, DispatchStep, HeartbeatSteps, MonitorSteps DEF Next

LEMMA PeerInvAlways == SafeSpec => []PeerInv
BY PeerInvInit, PeerInvStep, PTL DEF SafeSpec

-----------------------------------------------------------------------------
\* The tables have their types; a peer has at most MaxSamples latencies (handle_pong).
THEOREM PeersTyped == SafeSpec => []TypeOK
<1>1. PeerInv => TypeOK
  BY DEF PeerInv
<1> QED BY <1>1, PeerInvAlways, PTL

\* Who is blacklisted has offended MAX_OFFENSES times, however many handlers count its
\* offences at once and without the lock (record_offense).
THEOREM OnlyOffenders == SafeSpec => []BlacklistJustified
<1>1. PeerInv => BlacklistJustified
  BY DEF PeerInv
<1> QED BY <1>1, PeerInvAlways, PTL

\* A count at the limit never stays without consequences, although record_offense checks a
\* count that other handlers write.
THEOREM LimitIsEnforced == SafeSpec => []LimitEnforced
<1>1. PeerInv => LimitEnforced
  BY DEF PeerInv, SomebodyChecks, LimitEnforced, NotRecording, InRecord
<1> QED BY <1>1, PeerInvAlways, PTL

\* Only two offences of one peer that are counted at once can spoil its count.
THEOREM CountsRightAlone == SafeSpec => []CountedAlone
<1>1. PeerInv => CountedAlone
  <2> SUFFICES ASSUME PeerInv, NEW p \in Peer, NotRecording(p), p \notin overlapped
               PROVE  peer_offense_counts[p] = offended[p]
    BY DEF CountedAlone
  <2>1. Writers(p) = {}
    BY DEF Writers, NotRecording, InRecord
  <2> QED BY <2>1 DEF PeerInv, CountWillBeRight
<1> QED BY <1>1, PeerInvAlways, PTL

\* No entry of a blacklisted peer comes back once its last message is handled: neither from
\* the copy the monitor works on nor from clear_loop.
THEOREM NothingComesBack == SafeSpec => NothingRevived
<1> DEFINE NoneBack(p) ==
        /\ last_ping_time[p] = Absent => last_ping_time'[p] = Absent
        /\ peer_status[p] = Absent => peer_status'[p] = Absent
        /\ rtt_tracker[p] = 0 => rtt_tracker'[p] = 0
<1>1. ASSUME PeerInv, [Next]_vars, NEW p \in blacklist, Quiet(p) PROVE NoneBack(p)
  <2>1. TypeOK /\ p \in Peer
    BY <1>1 DEF PeerInv, TypeOK
  <2>2. \A h \in Handler : Sender(h) # p
    BY <1>1 DEF Quiet
  <2>3. ASSUME NEW h \in Handler, SetTime(h) \/ SetAlive(h) \/ HandlePong(h) \/ Punish(h)
        PROVE  NoneBack(p)
    BY <2>1, <2>2, <2>3 DEF SetTime, SetAlive, HandlePong, Punish, TypeOK
  <2>4. CASE CheckEntry
    BY <1>1, <2>1, <2>4 DEF CheckEntry, Skipped, TypeOK
  <2>5. CASE ClearOnce
    BY <2>1, <2>5 DEF ClearOnce, TypeOK
  <2>6. CASE UNCHANGED entries
    BY <2>6 DEF entries
  <2> QED BY <1>1, <2>3, <2>4, <2>5, <2>6
          DEF Next, vars, entries, Tick, Dispatch, PrintTime, ReadOffenses, WriteOffenses,
              Recheck, StartRound
<1>2. PeerInv /\ [Next]_vars => [\A p \in blacklist : Quiet(p) => NoneBack(p)]_vars
  BY <1>1
<1> QED BY <1>2, PeerInvAlways, PTL DEF SafeSpec, NothingRevived
=============================================================================
