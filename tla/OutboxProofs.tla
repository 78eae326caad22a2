---------------------------- MODULE OutboxProofs ----------------------------
(***************************************************************************)
(* Proofs about the outbox, for any messages, targets and limits: what its *)
(* queues hold, how many messages that may be, and that it keeps the       *)
(* promise of OutboxSpec.                                                  *)
(***************************************************************************)
EXTENDS Outbox, SequenceFacts

(* Priorities and totals. *)

\* Every message has one of the four priorities, whatever its type.
LEMMA PriorityIsLevel == PriorityOf \in [Msg -> Priority]
<1>1. \A type \in DOMAIN priority_order : priority_order[type] \in Priority
  BY DEF priority_order, Priority
<1>2. ASSUME NEW type PROVE classify_priority(type) \in Priority
  BY <1>1 DEF classify_priority, Priority
<1> QED BY <1>2 DEF PriorityOf

\* Changing one queue leaves the others alone.
LEMMA QueueUpdate ==
    ASSUME NEW q \in [Target -> [Priority -> Seq(Msg)]], NEW t \in Target,
           NEW p \in Priority, NEW s \in Seq(Msg)
    PROVE  /\ [q EXCEPT ![t][p] = s] \in [Target -> [Priority -> Seq(Msg)]]
           /\ [q EXCEPT ![t][p] = s][t][p] = s
           /\ \A u \in Target, v \in Priority :
                  u # t \/ v # p => [q EXCEPT ![t][p] = s][u][v] = q[u][v]
  OBVIOUS

\* A total counts messages, and changes with the queue that changes.
LEMMA Levels == 0 \in Priority /\ 1 \in Priority /\ 2 \in Priority /\ 3 \in Priority
BY DEF Priority

LEMMA SumIsNat == \A i, j, k, l \in Nat : i + j + k + l \in Nat
  OBVIOUS

LEMMA TotalIsNat == ASSUME TypeOK, NEW t \in Target PROVE Total(t) \in Nat
<1>1. \A p \in Priority : queues[t][p] \in Seq(Msg)
  BY DEF TypeOK
<1>2. \A p \in Priority : Len(queues[t][p]) \in Nat
  BY <1>1, LenProperties
<1>3. /\ Len(queues[t][0]) \in Nat /\ Len(queues[t][1]) \in Nat
      /\ Len(queues[t][2]) \in Nat /\ Len(queues[t][3]) \in Nat
  BY <1>2, Levels
<1> QED BY <1>3, SumIsNat, Zenon DEF Total

LEMMA SumUpdate ==
    ASSUME NEW i \in Nat, NEW j \in Nat, NEW k \in Nat, NEW l \in Nat,
           NEW i1, NEW j1, NEW k1, NEW l1, NEW d \in Int, NEW p \in Priority,
           i1 = IF p = 0 THEN i + d ELSE i, j1 = IF p = 1 THEN j + d ELSE j,
           k1 = IF p = 2 THEN k + d ELSE k, l1 = IF p = 3 THEN l + d ELSE l
    PROVE  i1 + j1 + k1 + l1 = (i + j + k + l) + d
BY DEF Priority

LEMMA TotalUpdate ==
    ASSUME TypeOK, NEW t \in Target, NEW p \in Priority, NEW s \in Seq(Msg), NEW d \in Int,
           queues' = [queues EXCEPT ![t][p] = s], Len(s) = Len(queues[t][p]) + d
    PROVE  /\ Total(t)' = Total(t) + d
           /\ \A u \in Target : u # t => Total(u)' = Total(u)
<1>1. /\ queues'[t][p] = s
      /\ \A u \in Target, v \in Priority : u # t \/ v # p => queues'[u][v] = queues[u][v]
  BY QueueUpdate DEF TypeOK
<1>2. \A v \in Priority : queues[t][v] \in Seq(Msg)
  BY DEF TypeOK
<1>3. \A v \in Priority : Len(queues[t][v]) \in Nat
  BY <1>2, LenProperties
<1>4. \A u \in Target : u # t => Total(u)' = Total(u)
  BY <1>1, Levels DEF Total
<1>5. \A v \in Priority :
          Len(queues'[t][v]) = IF p = v THEN Len(queues[t][v]) + d ELSE Len(queues[t][v])
  BY <1>1
<1>6. Total(t)' = Total(t) + d
  <2> DEFINE n(v) == Len(queues[t][v])
             n1(v) == Len(queues'[t][v])
  <2>1. /\ n(0) \in Nat /\ n(1) \in Nat /\ n(2) \in Nat /\ n(3) \in Nat
        /\ n1(0) = (IF p = 0 THEN n(0) + d ELSE n(0))
        /\ n1(1) = (IF p = 1 THEN n(1) + d ELSE n(1))
        /\ n1(2) = (IF p = 2 THEN n(2) + d ELSE n(2))
        /\ n1(3) = (IF p = 3 THEN n(3) + d ELSE n(3))
    BY <1>3, <1>5, Levels
  <2>2. /\ Total(t) = n(0) + n(1) + n(2) + n(3)
        /\ Total(t)' = n1(0) + n1(1) + n1(2) + n1(3)
    BY DEF Total
  <2> HIDE DEF n, n1
  <2>3. n1(0) + n1(1) + n1(2) + n1(3) = (n(0) + n(1) + n(2) + n(3)) + d
    BY <2>1, SumUpdate
  <2> QED BY <2>2, <2>3
<1> QED BY <1>4, <1>6

-----------------------------------------------------------------------------
(* The invariant. *)

OutboxInv == TypeOK /\ QueueBounded /\ Conservation

\* What a step keeps when it changes one queue, or none: the messages in the queue are in
\* their place and there once, and a message that is queued elsewhere stays so.
LEMMA QueueChange ==
    ASSUME TypeOK, QueuedInPlace, QueuedOnce,
           NEW t \in Target, NEW p \in Priority, NEW s \in Seq(Msg),
           queues' = [queues EXCEPT ![t][p] = s],
           IsInjective(s),
           \A n \in Range(s) : To[n] = t /\ PriorityOf[n] = p /\ fate'[n] = "queued",
           \A n \in Msg : /\ fate[n] = "queued"
                          /\ To[n] # t \/ PriorityOf[n] # p
                          => fate'[n] = "queued"
    PROVE  /\ queues' \in [Target -> [Priority -> Seq(Msg)]]
           /\ QueuedInPlace' /\ QueuedOnce'
<1>1. /\ queues' \in [Target -> [Priority -> Seq(Msg)]] /\ queues'[t][p] = s
      /\ \A u \in Target, v \in Priority : u # t \/ v # p => queues'[u][v] = queues[u][v]
  BY QueueUpdate DEF TypeOK
<1>2. \A u \in Target, v \in Priority : Range(queues[u][v]) \subseteq Msg
  BY RangeOfSeq DEF TypeOK
<1>3. QueuedInPlace'
  <2> SUFFICES ASSUME NEW u \in Target, NEW v \in Priority, NEW n \in Range(queues'[u][v])
               PROVE  To[n] = u /\ PriorityOf[n] = v /\ fate'[n] = "queued"
    BY DEF QueuedInPlace
  <2>1. CASE u = t /\ v = p
    BY <2>1, <1>1
  <2>2. CASE u # t \/ v # p
    <3>1. n \in Range(queues[u][v]) /\ n \in Msg
      BY <2>2, <1>1, <1>2
    <3>2. To[n] = u /\ PriorityOf[n] = v /\ fate[n] = "queued"
      BY <3>1 DEF QueuedInPlace
    <3> QED BY <2>2, <3>1, <3>2
  <2> QED BY <2>1, <2>2
<1>4. QueuedOnce'
  <2> SUFFICES ASSUME NEW u \in Target, NEW v \in Priority
               PROVE  IsInjective(queues'[u][v])
    BY DEF QueuedOnce
  <2>1. CASE u = t /\ v = p
    BY <2>1, <1>1
  <2>2. CASE u # t \/ v # p
    BY <2>2, <1>1 DEF QueuedOnce
  <2> QED BY <2>1, <2>2
<1> QED BY <1>1, <1>3, <1>4

LEMMA QueuesKept ==
    ASSUME TypeOK, QueuedInPlace, QueuedOnce, queues' = queues,
           \A n \in Msg : fate[n] = "queued" => fate'[n] = "queued"
    PROVE  QueuedInPlace' /\ QueuedOnce'
<1>1. \A u \in Target, v \in Priority : Range(queues[u][v]) \subseteq Msg
  BY RangeOfSeq DEF TypeOK
<1>2. QueuedInPlace'
  BY <1>1 DEF QueuedInPlace
<1> QED BY <1>2 DEF QueuedOnce

LEMMA OutboxInvInit == Init => OutboxInv
<1> SUFFICES ASSUME Init PROVE OutboxInv
  OBVIOUS
<1>1. \A S : <<>> \in Seq(S) /\ Len(<<>>) = 0 /\ DOMAIN <<>> = {} /\ Range(<<>>) = {}
  BY DEF Range
<1>2. \A t \in Target, p \in Priority : queues[t][p] = <<>>
  BY DEF Init
<1>3. TypeOK
  BY <1>1, LimitsAssumption DEF Init, TypeOK, Fate
<1>4. QueueBounded
  <2>1. \A t \in Target : Total(t) = 0 + 0 + 0 + 0
    BY <1>1, <1>2, Levels, Zenon DEF Total
  <2> QED BY <2>1, LimitsAssumption DEF QueueBounded
<1>5. QueuedInPlace /\ QueuedOnce
  BY <1>1, <1>2 DEF QueuedInPlace, QueuedOnce, IsInjective
<1>6. NoneMissing
  BY MessagesAssumption DEF Init, NoneMissing
<1> QED BY <1>3, <1>4, <1>5, <1>6 DEF OutboxInv, Conservation

\* The steps that touch neither the queues nor a message that is queued or in flight.
LEMMA CheckPeerKeeps ==
    ASSUME OutboxInv, NEW m \in Msg, CheckPeer(m) PROVE OutboxInv'
<1>1. UNCHANGED <<queues, known, retries, workerPc, round, inFlight, attempts, bypassed>>
  BY DEF CheckPeer, enqueued, worker
<1>2. /\ fate[m] = "new" /\ fate \in [Msg -> Fate]
      /\ \E f \in {"checked", "refused"} : fate' = [fate EXCEPT ![m] = f]
  BY DEF CheckPeer, OutboxInv, TypeOK
<1>3. TypeOK'
  BY <1>1, <1>2 DEF OutboxInv, TypeOK, Fate
<1>4. QueueBounded'
  BY <1>1 DEF OutboxInv, QueueBounded, Total
<1>5. \A n \in Msg : fate[n] \in {"queued", "sending"} \/ fate'[n] \in {"queued", "sending"}
                         => fate'[n] = fate[n]
  BY <1>2
<1>6. QueuedInPlace' /\ QueuedOnce'
  BY <1>1, <1>5, QueuesKept DEF OutboxInv, Conservation
<1>7. NoneMissing'
  BY <1>1, <1>5 DEF OutboxInv, Conservation, NoneMissing
<1> QED BY <1>3, <1>4, <1>6, <1>7 DEF OutboxInv, Conservation

LEMMA RoundKeeps ==
    ASSUME OutboxInv, StartRound \/ EndRound \/ SkipTarget PROVE OutboxInv'
<1>1. UNCHANGED <<queues, known, retries, fate, inFlight, attempts, bypassed>>
  BY DEF StartRound, EndRound, SkipTarget, enqueued
<1>2. /\ workerPc # "send" /\ workerPc' # "send"
      /\ workerPc' \in {"scan", "pick", "send", "dead"}
  BY DEF StartRound, EndRound, SkipTarget
<1>3. round' \in Seq(Target)
  <2>1. round \in Seq(Target) /\ known \in Seq(Target)
    BY DEF OutboxInv, TypeOK
  <2>2. round # <<>> => Tail(round) \in Seq(Target)
    BY <2>1, HeadTailProperties
  <2> QED BY <2>1, <2>2 DEF StartRound, EndRound, SkipTarget
<1>4. TypeOK'
  BY <1>1, <1>2, <1>3 DEF OutboxInv, TypeOK
<1>5. QueueBounded'
  BY <1>1 DEF OutboxInv, QueueBounded, Total
<1>6. Conservation'
  BY <1>1, <1>2 DEF OutboxInv, Conservation, QueuedInPlace, QueuedOnce, NoneMissing
<1> QED BY <1>4, <1>5, <1>6 DEF OutboxInv

\* A message that was not queued, or was in flight, gets a place in its queue.
LEMMA MessageQueued ==
    ASSUME TypeOK, QueueBounded, Conservation,
           NEW m \in Msg, NEW t \in Target, NEW p \in Priority, NEW s \in Seq(Msg),
           t = To[m], p = PriorityOf[m], HasRoom(t),
           queues' = [queues EXCEPT ![t][p] = s], fate' = [fate EXCEPT ![m] = "queued"],
           Len(s) = Len(queues[t][p]) + 1, Range(s) = Range(queues[t][p]) \cup {m},
           IsInjective(s),
           \/ fate[m] = "checked" /\ UNCHANGED <<inFlight, workerPc>>
           \/ inFlight = m /\ inFlight' = NoMsg /\ workerPc' = "pick"
    PROVE  /\ queues' \in [Target -> [Priority -> Seq(Msg)]] /\ fate' \in [Msg -> Fate]
           /\ QueueBounded' /\ Conservation'
<1>1. QueuedInPlace /\ QueuedOnce /\ NoneMissing
  BY DEF Conservation
<1>2. /\ fate \in [Msg -> Fate] /\ fate' \in [Msg -> Fate]
      /\ fate'[m] = "queued" /\ \A n \in Msg : n # m => fate'[n] = fate[n]
  BY DEF TypeOK, Fate
<1>3. /\ queues' \in [Target -> [Priority -> Seq(Msg)]]
      /\ QueuedInPlace' /\ QueuedOnce'
  <2>1. \A n \in Range(s) : n \in Msg
    BY RangeOfSeq
  <2>2. \A n \in Range(s) : To[n] = t /\ PriorityOf[n] = p /\ fate'[n] = "queued"
    BY <2>1, <1>1, <1>2 DEF QueuedInPlace
  <2>3. \A n \in Msg : fate[n] = "queued" /\ (To[n] # t \/ PriorityOf[n] # p)
                           => fate'[n] = "queued"
    BY <1>2
  <2> QED BY <1>1, <2>2, <2>3, QueueChange, ZenonT(40)
<1>4. QueueBounded'
  <2>1. 1 \in Int
    OBVIOUS
  <2>2. Total(t)' = Total(t) + 1 /\ \A u \in Target : u # t => Total(u)' = Total(u)
    BY <2>1, TotalUpdate, Zenon
  <2>3. Total(t) \in Nat /\ Total(t) < QueueLimit
    BY TotalIsNat DEF HasRoom
  <2> QED BY <2>2, <2>3, LimitsAssumption DEF QueueBounded
<1>5. NoneMissing'
  <2>1. \A u \in Target, v \in Priority : Range(queues[u][v]) \subseteq Range(queues'[u][v])
    <3>1. /\ queues'[t][p] = s
          /\ \A u \in Target, v \in Priority : u # t \/ v # p => queues'[u][v] = queues[u][v]
      BY QueueUpdate DEF TypeOK
    <3> TAKE u \in Target, v \in Priority
    <3>2. CASE u = t /\ v = p
      BY <3>1, <3>2, Zenon
    <3>3. CASE u # t \/ v # p
      BY <3>1, <3>3, Zenon
    <3> QED BY <3>2, <3>3
  <2>2. m \in Range(queues'[To[m]][PriorityOf[m]])
    BY QueueUpdate DEF TypeOK
  <2>3. \A n \in Msg : To[n] \in Target /\ PriorityOf[n] \in Priority
    BY PriorityIsLevel, MessagesAssumption
  <2>4. \A n \in Msg : fate'[n] = "queued" => n \in Range(queues'[To[n]][PriorityOf[n]])
    BY <1>1, <1>2, <2>1, <2>2, <2>3 DEF NoneMissing
  <2>5. \A n \in Msg : fate'[n] = "sending" <=> inFlight' = n
    BY <1>1, <1>2, MessagesAssumption DEF NoneMissing
  <2> QED BY <1>1, <2>4, <2>5 DEF NoneMissing
<1> QED BY <1>2, <1>3, <1>4, <1>5 DEF Conservation

\* A message goes to the end of its queue, where it was not, or is dropped.
LEMMA AppendMessageKeeps ==
    ASSUME OutboxInv, NEW m \in Msg, AppendMessage(m) PROVE OutboxInv'
<1>0. PICK t \in Target, p \in Priority : t = To[m] /\ p = PriorityOf[m]
  BY PriorityIsLevel, MessagesAssumption
<1>1. /\ fate[m] = "checked" /\ fate \in [Msg -> Fate]
      /\ UNCHANGED <<retries, workerPc, round, inFlight, attempts, bypassed>>
  BY DEF AppendMessage, worker, OutboxInv, TypeOK
<1>2. known' \in Seq(Target)
  BY <1>0, AppendProperties DEF AppendMessage, TouchQueue, OutboxInv, TypeOK
<1>3. TypeOK /\ QueueBounded /\ QueuedInPlace /\ QueuedOnce /\ NoneMissing
  BY DEF OutboxInv, Conservation
<1>4. CASE HasRoom(t)
  <2>1. PICK s : s = Append(queues[t][p], m)
    OBVIOUS
  <2>2. queues' = [queues EXCEPT ![t][p] = s] /\ fate' = [fate EXCEPT ![m] = "queued"]
    BY <1>0, <1>4, <2>1 DEF AppendMessage
  <2>3. queues[t][p] \in Seq(Msg) /\ m \notin Range(queues[t][p])
    BY <1>1, <1>3 DEF TypeOK, QueuedInPlace
  <2>4. /\ s \in Seq(Msg) /\ Len(s) = Len(queues[t][p]) + 1
        /\ Range(s) = Range(queues[t][p]) \cup {m}
    BY <2>1, <2>3, AppendFacts
  <2>5. IsInjective(s)
    BY <2>1, <2>3, <1>3, AddOnce DEF QueuedOnce
  <2>6. /\ queues' \in [Target -> [Priority -> Seq(Msg)]] /\ fate' \in [Msg -> Fate]
        /\ QueueBounded' /\ Conservation'
    <3>1. UNCHANGED <<inFlight, workerPc>> /\ Conservation
      BY <1>1 DEF OutboxInv
    <3> QED BY <1>0, <1>1, <1>3, <1>4, <2>2, <2>4, <2>5, <3>1, MessageQueued, Zenon
  <2>7. TypeOK'
    BY <1>1, <1>2, <1>3, <2>6 DEF TypeOK
  <2> QED BY <2>6, <2>7 DEF OutboxInv
<1>5. CASE ~HasRoom(t)
  <2>1. queues' = queues /\ fate' = [fate EXCEPT ![m] = "overflow"]
    BY <1>0, <1>5 DEF AppendMessage
  <2>2. TypeOK'
    BY <1>1, <1>2, <1>3, <2>1 DEF TypeOK, Fate
  <2>3. QueueBounded'
    BY <1>3, <2>1 DEF QueueBounded, Total
  <2>4. \A n \in Msg : fate[n] \in {"queued", "sending"} \/ fate'[n] \in {"queued", "sending"}
                           => fate'[n] = fate[n]
    BY <1>1, <2>1
  <2>5. QueuedInPlace' /\ QueuedOnce'
    BY <1>3, <2>1, <2>4, QueuesKept
  <2>6. NoneMissing'
    BY <1>1, <1>3, <2>1, <2>4 DEF NoneMissing
  <2> QED BY <2>2, <2>3, <2>5, <2>6 DEF OutboxInv, Conservation
<1> QED BY <1>4, <1>5

\* The head of a queue is taken in flight.
LEMMA PopMessageKeeps == ASSUME OutboxInv, PopMessage PROVE OutboxInv'
<1>1. TypeOK /\ QueueBounded /\ QueuedInPlace /\ QueuedOnce /\ NoneMissing
  BY DEF OutboxInv, Conservation
<1>2. /\ workerPc = "pick" /\ round # <<>> /\ workerPc' = "send"
      /\ fate' = [fate EXCEPT ![inFlight'] = "sending"]
      /\ round' = Tail(round)
      /\ UNCHANGED <<known, retries, attempts>>
  BY DEF PopMessage, NextRound
<1>3. Head(round) \in Target /\ round' \in Seq(Target)
  BY <1>1, <1>2, PopFacts DEF TypeOK
<1>4. PICK t \in Target, p \in Priority :
          /\ queues[t][p] # <<>>
          /\ inFlight' = Head(queues[t][p])
          /\ queues' = [queues EXCEPT ![t][p] = Tail(queues[t][p])]
          /\ bypassed' = Bypass(t)
  BY <1>3 DEF PopMessage, PopLeft
<1>5. PICK m : m = Head(queues[t][p])
  OBVIOUS
<1>6. PICK s : s = Tail(queues[t][p])
  OBVIOUS
<1>7. queues[t][p] \in Seq(Msg)
  BY <1>1 DEF TypeOK
<1>8. /\ m \in Msg /\ s \in Seq(Msg)
      /\ Len(s) = Len(queues[t][p]) + (-1)
      /\ Range(queues[t][p]) = Range(s) \cup {m}
  <2>1. /\ m \in Msg /\ s \in Seq(Msg) /\ Len(s) = Len(queues[t][p]) - 1
        /\ Range(queues[t][p]) = Range(s) \cup {m}
    BY <1>4, <1>5, <1>6, <1>7, PopFacts
  <2>2. Len(queues[t][p]) \in Nat
    BY <1>7, LenProperties
  <2> QED BY <2>1, <2>2
<1>9. IsInjective(s) /\ m \notin Range(s)
  BY <1>1, <1>4, <1>5, <1>6, <1>7, PopOnce DEF QueuedOnce
<1>10. /\ inFlight' = m /\ queues' = [queues EXCEPT ![t][p] = s]
       /\ fate' = [fate EXCEPT ![m] = "sending"]
  BY <1>2, <1>4, <1>5, <1>6
<1>11. fate \in [Msg -> Fate] /\ fate'[m] = "sending" /\ \A n \in Msg : n # m => fate'[n] = fate[n]
  BY <1>1, <1>8, <1>10 DEF TypeOK
<1>12. To[m] = t /\ PriorityOf[m] = p /\ fate[m] = "queued"
  BY <1>1, <1>8 DEF QueuedInPlace
<1>13. /\ queues' \in [Target -> [Priority -> Seq(Msg)]]
       /\ QueuedInPlace' /\ QueuedOnce'
  <2>1. \A n \in Range(s) : n \in Msg /\ n # m
    BY <1>8, <1>9, RangeOfSeq
  <2>2. \A n \in Range(s) : To[n] = t /\ PriorityOf[n] = p /\ fate'[n] = "queued"
    BY <2>1, <1>1, <1>8, <1>11 DEF QueuedInPlace
  <2>3. \A n \in Msg : fate[n] = "queued" /\ (To[n] # t \/ PriorityOf[n] # p)
                           => fate'[n] = "queued"
    BY <1>11, <1>12
  <2> QED BY <1>1, <1>8, <1>9, <1>10, <2>2, <2>3, QueueChange, Zenon
<1>14. TypeOK'
  <2>1. bypassed' \in [Target -> [Target -> Nat]]
    BY <1>1, <1>4, SMTT(30) DEF Bypass, TypeOK
  <2>2. fate' \in [Msg -> Fate] /\ inFlight' \in Msg
    BY <1>8, <1>10, <1>11 DEF Fate
  <2> QED BY <1>1, <1>2, <1>3, <1>13, <2>1, <2>2 DEF TypeOK
<1>15. QueueBounded'
  <2>1. -1 \in Int
    OBVIOUS
  <2>2. Total(t)' = Total(t) + (-1) /\ \A u \in Target : u # t => Total(u)' = Total(u)
    BY <2>1, <1>1, <1>8, <1>10, TotalUpdate, Zenon
  <2>3. Total(t) \in Nat /\ Total(t) <= QueueLimit
    BY <1>1, TotalIsNat DEF QueueBounded
  <2> QED BY <1>1, <2>2, <2>3, LimitsAssumption DEF QueueBounded
<1>16. NoneMissing'
  <2>1. \A n \in Msg : fate'[n] = "queued" => n \in Range(queues'[To[n]][PriorityOf[n]])
    <3> SUFFICES ASSUME NEW n \in Msg, fate'[n] = "queued"
                 PROVE  n \in Range(queues'[To[n]][PriorityOf[n]])
      OBVIOUS
    <3>1. n # m /\ n \in Range(queues[To[n]][PriorityOf[n]])
      BY <1>1, <1>11 DEF NoneMissing
    <3>2. To[n] \in Target /\ PriorityOf[n] \in Priority
      BY PriorityIsLevel, MessagesAssumption
    <3>3. CASE To[n] = t /\ PriorityOf[n] = p
      BY <3>1, <3>3, <1>1, <1>8, <1>10, QueueUpdate, SMTT(30) DEF TypeOK
    <3>4. CASE To[n] # t \/ PriorityOf[n] # p
      BY <3>1, <3>2, <3>4, <1>1, <1>8, <1>10, QueueUpdate, SMTT(30) DEF TypeOK
    <3> QED BY <3>3, <3>4
  <2>2. \A n \in Msg : fate[n] # "sending"
    BY <1>1, <1>2, MessagesAssumption DEF NoneMissing
  <2>3. \A n \in Msg : fate'[n] = "sending" <=> inFlight' = n
    BY <2>2, <1>10, <1>11
  <2> QED BY <2>1, <2>3, <1>2, <1>8, <1>10, MessagesAssumption DEF NoneMissing
<1> QED BY <1>13, <1>14, <1>15, <1>16 DEF OutboxInv, Conservation

\* The message in flight is one of the messages, and is said to be sent.
LEMMA InFlight ==
    ASSUME OutboxInv, workerPc = "send"
    PROVE  inFlight \in Msg /\ fate[inFlight] = "sending" /\ To[inFlight] \in Target
BY MessagesAssumption DEF OutboxInv, TypeOK, Conservation, NoneMissing

\* The worker is done with its message, and the queues are left alone.
LEMMA SettleKeeps ==
    ASSUME OutboxInv, workerPc = "send", NEW f \in Fate \ {"queued", "sending"},
           fate' = [fate EXCEPT ![inFlight] = f], inFlight' = NoMsg,
           workerPc' \in {"pick", "dead"},
           UNCHANGED <<queues, known, round, bypassed>>,
           retries' \in [Target -> 0..(MaxRetries - 1)],
           attempts' \in [Msg -> 0..MaxRetries]
    PROVE  OutboxInv'
<1>1. TypeOK /\ QueueBounded /\ QueuedInPlace /\ QueuedOnce /\ NoneMissing
  BY DEF OutboxInv, Conservation
<1>2. inFlight \in Msg /\ fate[inFlight] = "sending" /\ fate \in [Msg -> Fate]
  BY <1>1, InFlight DEF TypeOK
<1>3. TypeOK'
  BY <1>1, <1>2 DEF TypeOK
<1>4. QueueBounded'
  BY <1>1 DEF QueueBounded, Total
<1>5. /\ fate'[inFlight] \notin {"queued", "sending"}
      /\ \A n \in Msg : n # inFlight => fate'[n] = fate[n]
  BY <1>2
<1>6. QueuedInPlace' /\ QueuedOnce'
  <2>1. \A n \in Msg : fate[n] = "queued" => fate'[n] = "queued"
    BY <1>2, <1>5
  <2> QED BY <1>1, <2>1, QueuesKept
<1>7. NoneMissing'
  <2>1. \A n \in Msg : fate'[n] = "queued" => n \in Range(queues'[To[n]][PriorityOf[n]])
    BY <1>1, <1>5 DEF NoneMissing
  <2>2. \A n \in Msg : fate'[n] # "sending" /\ n # inFlight'
    BY <1>1, <1>5, MessagesAssumption DEF NoneMissing
  <2> QED BY <2>1, <2>2 DEF NoneMissing
<1> QED BY <1>3, <1>4, <1>6, <1>7 DEF OutboxInv, Conservation

\* The sends the worker takes for successful, and the one that ends it.
LEMMA SettledForGood ==
    ASSUME OutboxInv, SendDelivers \/ SendFailsSilently \/ WorkerDies PROVE OutboxInv'
<1>1. /\ workerPc = "send" /\ inFlight' = NoMsg /\ workerPc' \in {"pick", "dead"}
      /\ UNCHANGED <<queues, known, round, bypassed>>
      /\ \E f \in {"delivered", "unsent"} : fate' = [fate EXCEPT ![inFlight] = f]
  BY DEF SendDelivers, SendFailsSilently, WorkerDies, SettleAs, enqueued
<1>2. PICK f \in Fate \ {"queued", "sending"} : fate' = [fate EXCEPT ![inFlight] = f]
  BY <1>1 DEF Fate
<1>3. retries' \in [Target -> 0..(MaxRetries - 1)]
  <2>1. 0 \in 0..(MaxRetries - 1) /\ retries \in [Target -> 0..(MaxRetries - 1)]
    BY LimitsAssumption DEF OutboxInv, TypeOK
  <2> QED BY <2>1 DEF SendDelivers, SendFailsSilently, WorkerDies
<1>4. attempts' \in [Msg -> 0..MaxRetries]
  BY DEF SendDelivers, SendFailsSilently, WorkerDies, OutboxInv, TypeOK
<1> QED BY <1>1, <1>2, <1>3, <1>4, SettleKeeps

\* The message in flight goes back to the head of its queue, where it was not.
LEMMA PutBackKeeps ==
    ASSUME OutboxInv, workerPc = "send", workerPc' = "pick",
           HasRoom(To[inFlight]),
           queues' = [queues EXCEPT ![To[inFlight]][PriorityOf[inFlight]] =
                          PutBack(queues[To[inFlight]][PriorityOf[inFlight]], inFlight)],
           fate' = [fate EXCEPT ![inFlight] = "queued"], inFlight' = NoMsg,
           UNCHANGED <<known, round, bypassed>>,
           retries' \in [Target -> 0..(MaxRetries - 1)],
           attempts' \in [Msg -> 0..MaxRetries]
    PROVE  OutboxInv'
<1>1. TypeOK /\ QueueBounded /\ QueuedInPlace /\ QueuedOnce /\ NoneMissing
  BY DEF OutboxInv, Conservation
<1>2. PICK m \in Msg : m = inFlight /\ fate[m] = "sending"
  BY InFlight
<1>3. PICK t \in Target, p \in Priority : t = To[m] /\ p = PriorityOf[m]
  BY PriorityIsLevel, MessagesAssumption
<1>4. PICK s : s = <<m>> \o queues[t][p]
  OBVIOUS
<1>5. queues' = [queues EXCEPT ![t][p] = s] /\ fate' = [fate EXCEPT ![m] = "queued"]
  BY <1>2, <1>3, <1>4 DEF PutBack
<1>6. queues[t][p] \in Seq(Msg) /\ m \notin Range(queues[t][p])
  BY <1>1, <1>2 DEF TypeOK, QueuedInPlace
<1>7. /\ s \in Seq(Msg) /\ Len(s) = Len(queues[t][p]) + 1
      /\ Range(s) = Range(queues[t][p]) \cup {m}
  BY <1>4, <1>6, ConsFacts
<1>8. IsInjective(s)
  BY <1>1, <1>4, <1>6, AddOnce DEF QueuedOnce
<1>9. /\ queues' \in [Target -> [Priority -> Seq(Msg)]] /\ fate' \in [Msg -> Fate]
      /\ QueueBounded' /\ Conservation'
  <2>1. HasRoom(t) /\ Conservation /\ inFlight = m /\ inFlight' = NoMsg /\ workerPc' = "pick"
    BY <1>2, <1>3 DEF OutboxInv
  <2> QED BY <1>1, <1>3, <1>5, <1>7, <1>8, <2>1, MessageQueued, Zenon
<1>10. TypeOK'
  BY <1>1, <1>9 DEF TypeOK
<1> QED BY <1>9, <1>10 DEF OutboxInv

LEMMA SendFailsKeeps == ASSUME OutboxInv, SendFails PROVE OutboxInv'
<1>1. /\ workerPc = "send" /\ workerPc' = "pick" /\ inFlight' = NoMsg
      /\ UNCHANGED <<known, round, bypassed>>
  BY DEF SendFails, SettleAs
<1>2. /\ inFlight \in Msg /\ To[inFlight] \in Target
      /\ retries \in [Target -> 0..(MaxRetries - 1)] /\ attempts \in [Msg -> 0..MaxRetries]
  BY <1>1, InFlight DEF OutboxInv, TypeOK
<1>3. attempts' \in [Msg -> 0..MaxRetries]
  BY <1>2, LimitsAssumption DEF SendFails
<1>4. RetriesAfterFailure(To[inFlight]) \in Nat \ {0} /\ MaxRetries \in Nat \ {0}
  BY <1>2, LimitsAssumption DEF RetriesAfterFailure
<1>5. retries' \in [Target -> 0..(MaxRetries - 1)]
  <2>1. \/ retries' = [retries EXCEPT ![To[inFlight]] = 0]
        \/ /\ RetriesAfterFailure(To[inFlight]) < MaxRetries
           /\ retries' = [retries EXCEPT ![To[inFlight]] = RetriesAfterFailure(To[inFlight])]
    BY DEF SendFails, MayRetry
  <2>2. 0 \in 0..(MaxRetries - 1)
    BY <1>4
  <2>3. RetriesAfterFailure(To[inFlight]) < MaxRetries
            => RetriesAfterFailure(To[inFlight]) \in 0..(MaxRetries - 1)
    BY <1>4
  <2> QED BY <1>2, <2>1, <2>2, <2>3
<1>6. \/ /\ HasRoom(To[inFlight])
         /\ queues' = [queues EXCEPT ![To[inFlight]][PriorityOf[inFlight]] =
                           PutBack(queues[To[inFlight]][PriorityOf[inFlight]], inFlight)]
         /\ fate' = [fate EXCEPT ![inFlight] = "queued"]
      \/ /\ queues' = queues
         /\ \E f \in Fate \ {"queued", "sending"} : fate' = [fate EXCEPT ![inFlight] = f]
  BY DEF SendFails, SettleAs, Fate
<1> QED BY <1>1, <1>3, <1>5, <1>6, PutBackKeeps, SettleKeeps

LEMMA OutboxInvStep == OutboxInv /\ [Next]_vars => OutboxInv'
<1> SUFFICES ASSUME OutboxInv, [Next]_vars PROVE OutboxInv'
  OBVIOUS
<1>1. CASE \E m \in Msg : CheckPeer(m)
  BY <1>1, CheckPeerKeeps
<1>2. CASE \E m \in Msg : AppendMessage(m)
  BY <1>2, AppendMessageKeeps
<1>3. CASE StartRound \/ EndRound \/ SkipTarget
  BY <1>3, RoundKeeps
<1>4. CASE PopMessage
  BY <1>4, PopMessageKeeps
<1>5. CASE SendDelivers \/ SendFailsSilently \/ WorkerDies
  BY <1>5, SettledForGood
<1>6. CASE SendFails
  BY <1>6, SendFailsKeeps
<1>7. CASE UNCHANGED vars
  <2>1. UNCHANGED <<queues, known, retries, fate, workerPc, round, inFlight, attempts, bypassed>>
    BY <1>7 DEF vars, enqueued, worker
  <2>2. TypeOK'
    BY <2>1 DEF OutboxInv, TypeOK
  <2>3. QueueBounded'
    BY <2>1 DEF OutboxInv, QueueBounded, Total
  <2>4. Conservation'
    BY <2>1 DEF OutboxInv, Conservation, QueuedInPlace, QueuedOnce, NoneMissing
  <2> QED BY <2>2, <2>3, <2>4 DEF OutboxInv
<1> QED BY <1>1, <1>2, <1>3, <1>4, <1>5, <1>6, <1>7 DEF Next

LEMMA OutboxInvAlways == SafeSpec => []OutboxInv
<1> QED BY OutboxInvInit, OutboxInvStep, PTL DEF SafeSpec

\* Every variable of the outbox keeps its type, whatever its threads do.
THEOREM OutboxTypes == SafeSpec => []TypeOK
<1>1. OutboxInv => TypeOK
  BY DEF OutboxInv
<1> QED BY <1>1, OutboxInvAlways, PTL

\* The limit of a target's queues holds although send_from_queue puts a message back into
\* a queue that enqueue_message may have filled since it was popped.
THEOREM QueuesStayBounded == SafeSpec => []QueueBounded
<1>1. OutboxInv => QueueBounded
  BY DEF OutboxInv
<1> QED BY <1>1, OutboxInvAlways, PTL

\* No message is lost, duplicated or put into another's queue while the worker sends it
\* outside the lock.
THEOREM MessagesAreConserved == SafeSpec => []Conservation
<1>1. OutboxInv => Conservation
  BY DEF OutboxInv
<1> QED BY <1>1, OutboxInvAlways, PTL

-----------------------------------------------------------------------------
(* No target is passed over. *)

\* How often u may have been served since t was, with messages waiting for t: once if this
\* round may have passed t already, and once more if u has had its turn in it.
Passes(t, u) ==
    (IF t \in Range(round) THEN 1 ELSE 0) + (IF u \in Range(round) THEN 0 ELSE 1)

\* A round visits a target once, and all that had messages when it began.
RoundsRight ==
    /\ IsInjective(known) /\ IsInjective(round)
    /\ workerPc = "scan" => round = <<>>
    /\ \A t \in Target : Total(t) > 0 => t \in Range(known)
    /\ inFlight # NoMsg => To[inFlight] \in Range(known)

\* Nobody is served before a target for which nothing waits.
NothingPassed == \A t, u \in Target : Total(t) = 0 => bypassed[t][u] = 0

TurnsTaken == \A t, u \in Target : bypassed[t][u] <= Passes(t, u)

TurnInv == OutboxInv /\ RoundsRight /\ NothingPassed /\ TurnsTaken

LEMMA PassesFacts == \A t, u \in Target : Passes(t, u) \in Nat /\ Passes(t, u) <= 2
BY DEF Passes

\* The numbers of messages are numbers, also after a step.
TotalsOK == \A t \in Target : Total(t) \in Nat

LEMMA TotalsNext == OutboxInv' => TotalsOK'
<1>1. OutboxInv => TotalsOK
  BY TotalIsNat DEF OutboxInv, TotalsOK
<1> QED BY <1>1, PTL

LEMMA TurnInvInit == Init => TurnInv
<1> SUFFICES ASSUME Init PROVE TurnInv OBVIOUS
<1>1. \A t \in Target, p \in Priority : queues[t][p] = <<>>
  BY DEF Init
<1>2. Len(<<>>) = 0 /\ DOMAIN <<>> = {}
  BY EmptySeq
<1>3. \A t \in Target : Total(t) = 0 + 0 + 0 + 0
  BY <1>1, <1>2, Levels, Zenon DEF Total
<1>4. RoundsRight
  BY <1>2, <1>3, MessagesAssumption DEF Init, RoundsRight, IsInjective
<1>5. NothingPassed /\ TurnsTaken
  BY PassesFacts DEF Init, NothingPassed, TurnsTaken
<1> QED BY <1>4, <1>5, OutboxInvInit DEF TurnInv

\* A step that serves nobody and leaves the round alone.
LEMMA CalmStep ==
    ASSUME TurnInv, OutboxInv', UNCHANGED <<bypassed, round>>,
           workerPc' = "scan" => workerPc = "scan",
           IsInjective(known'), Range(known) \subseteq Range(known'),
           \A t \in Target : \/ Total(t)' = Total(t)
                             \/ Total(t)' = Total(t) + 1 /\ t \in Range(known'),
           inFlight' = inFlight \/ inFlight' = NoMsg
    PROVE  TurnInv'
<1>1. \A t \in Target : Total(t) \in Nat
  BY TotalIsNat DEF TurnInv, OutboxInv
<1>2. RoundsRight'
  <2>1. \A t \in Target : Total(t)' > 0 => t \in Range(known')
    BY <1>1 DEF TurnInv, RoundsRight
  <2> QED BY <2>1 DEF TurnInv, RoundsRight
<1>3. NothingPassed'
  <2>1. \A t \in Target : Total(t)' = 0 => Total(t) = 0
    BY <1>1
  <2> QED BY <2>1 DEF TurnInv, NothingPassed
<1>4. TurnsTaken'
  BY DEF TurnInv, TurnsTaken, Passes
<1> QED BY <1>2, <1>3, <1>4 DEF TurnInv

\* What a message brings its queue.
LEMMA OneMore ==
    ASSUME TypeOK, NEW t \in Target, NEW p \in Priority, NEW s \in Seq(Msg),
           queues' = [queues EXCEPT ![t][p] = s], Len(s) = Len(queues[t][p]) + 1
    PROVE  /\ Total(t)' = Total(t) + 1
           /\ \A u \in Target : u # t => Total(u)' = Total(u)
<1>1. 1 \in Int
  OBVIOUS
<1> QED BY <1>1, TotalUpdate, Zenon

LEMMA AppendMessageTurns ==
    ASSUME TurnInv, OutboxInv', NEW m \in Msg, AppendMessage(m)
    PROVE  TurnInv'
<1>1. PICK t \in Target, p \in Priority : t = To[m] /\ p = PriorityOf[m]
  BY PriorityIsLevel, MessagesAssumption
<1>2. /\ UNCHANGED <<bypassed, round, workerPc, inFlight>>
      /\ known' = IF t \in Range(known) THEN known ELSE Append(known, t)
  BY <1>1 DEF AppendMessage, TouchQueue, worker
<1>3. TypeOK /\ known \in Seq(Target) /\ IsInjective(known) /\ queues[t][p] \in Seq(Msg)
  <2>1. TypeOK /\ IsInjective(known)
    BY DEF TurnInv, OutboxInv, RoundsRight
  <2> QED BY <2>1 DEF TypeOK
<1>4. /\ IsInjective(known') /\ Range(known) \subseteq Range(known')
      /\ t \in Range(known')
  <2>1. Range(Append(known, t)) = Range(known) \cup {t}
    BY <1>3, AppendFacts
  <2>2. t \notin Range(known) => IsInjective(Append(known, t))
    BY <1>3, AddOnce
  <2> QED BY <1>2, <1>3, <2>1, <2>2
<1>5. CASE queues' = queues
  <2>1. \A u \in Target : Total(u)' = Total(u)
    BY <1>5 DEF Total
  <2> QED BY <1>2, <1>4, <2>1, CalmStep
<1>6. CASE queues' = [queues EXCEPT ![t][p] = Append(queues[t][p], m)]
  <2>1. PICK s : s = Append(queues[t][p], m)
    OBVIOUS
  <2>2. s \in Seq(Msg) /\ Len(s) = Len(queues[t][p]) + 1
    BY <1>3, <2>1, AppendFacts
  <2>3. /\ Total(t)' = Total(t) + 1
        /\ \A u \in Target : u # t => Total(u)' = Total(u)
    BY <1>3, <1>6, <2>1, <2>2, OneMore, Zenon
  <2> QED BY <1>2, <1>4, <2>3, CalmStep
<1> QED BY <1>1, <1>5, <1>6 DEF AppendMessage

\* The worker is done with its message, or has put it back.
LEMMA SettleTurns ==
    ASSUME TurnInv, OutboxInv', SendDelivers \/ SendFailsSilently \/ SendFails \/ WorkerDies
    PROVE  TurnInv'
<1>1. /\ workerPc = "send" /\ workerPc' # "scan" /\ inFlight' = NoMsg
      /\ UNCHANGED <<known, bypassed, round>>
  BY DEF SendDelivers, SendFailsSilently, SendFails, WorkerDies, SettleAs, enqueued
<1>2. PICK m \in Msg : m = inFlight
  BY <1>1, InFlight DEF TurnInv
<1>3. PICK t \in Target, p \in Priority : t = To[m] /\ p = PriorityOf[m]
  BY PriorityIsLevel, MessagesAssumption
<1>4. TypeOK /\ IsInjective(known) /\ queues[t][p] \in Seq(Msg) /\ t \in Range(known)
  <2>1. TypeOK /\ RoundsRight
    BY DEF TurnInv, OutboxInv
  <2>2. IsInjective(known) /\ t \in Range(known)
    BY <1>2, <1>3, <2>1, MessagesAssumption DEF RoundsRight
  <2>3. queues[t][p] \in Seq(Msg)
    BY <2>1 DEF TypeOK
  <2> QED BY <2>1, <2>2, <2>3
<1>5. CASE queues' = queues
  <2>1. \A u \in Target : Total(u)' = Total(u)
    BY <1>5 DEF Total
  <2> QED BY <1>1, <1>4, <2>1, CalmStep
<1>6. CASE queues' = [queues EXCEPT ![t][p] = PutBack(queues[t][p], m)]
  <2>1. PICK s : s = <<m>> \o queues[t][p]
    OBVIOUS
  <2>2. s \in Seq(Msg) /\ Len(s) = Len(queues[t][p]) + 1
    BY <1>4, <2>1, ConsFacts
  <2>3. /\ Total(t)' = Total(t) + 1
        /\ \A u \in Target : u # t => Total(u)' = Total(u)
    BY <1>4, <1>6, <2>1, <2>2, OneMore, Zenon DEF PutBack
  <2> QED BY <1>1, <1>4, <2>3, CalmStep
<1> QED BY <1>2, <1>3, <1>5, <1>6
        DEF SendDelivers, SendFailsSilently, SendFails, WorkerDies, enqueued

\* A round starts with all that have messages, also those the last one had passed.
LEMMA StartRoundTurns ==
    ASSUME TurnInv, OutboxInv', StartRound
    PROVE  TurnInv'
<1>1. /\ round = <<>> /\ round' = known /\ workerPc' = "pick"
      /\ UNCHANGED <<queues, known, inFlight, bypassed>>
  BY DEF StartRound, enqueued, TurnInv, RoundsRight
<1>2. \A t \in Target : Total(t)' = Total(t) /\ Total(t) \in Nat
  BY <1>1, TotalIsNat DEF Total, TurnInv, OutboxInv
<1>3. RoundsRight' /\ NothingPassed'
  BY <1>1, <1>2 DEF TurnInv, RoundsRight, NothingPassed
<1>4. TurnsTaken'
  <2> SUFFICES ASSUME NEW t \in Target, NEW u \in Target
               PROVE  bypassed[t][u] <= Passes(t, u)'
    BY <1>1 DEF TurnsTaken
  <2>1. Range(round) = {}
    BY <1>1, EmptySeq DEF Range
  <2>2. bypassed[t][u] \in Nat /\ bypassed[t][u] <= 1
    BY <2>1 DEF TurnInv, TurnsTaken, Passes, OutboxInv, TypeOK
  <2>3. Total(t) = 0 => bypassed[t][u] = 0
    BY DEF TurnInv, NothingPassed
  <2>4. Total(t) # 0 => t \in Range(round')
    BY <1>1, <1>2 DEF TurnInv, RoundsRight
  <2> QED BY <2>2, <2>3, <2>4 DEF Passes
<1> QED BY <1>3, <1>4 DEF TurnInv

\* The first target of the round has had its turn: the rest of the round is without it.
LEMMA TurnOver ==
    ASSUME TurnInv, workerPc = "pick", round # <<>>
    PROVE  /\ Head(round) \in Target /\ Tail(round) \in Seq(Target)
           /\ IsInjective(Tail(round)) /\ Head(round) \notin Range(Tail(round))
           /\ Range(round) = Range(Tail(round)) \cup {Head(round)}
<1>1. round \in Seq(Target) /\ IsInjective(round)
  BY DEF TurnInv, OutboxInv, TypeOK, RoundsRight
<1> QED BY <1>1, PopFacts, PopOnce

LEMMA SkipTargetTurns ==
    ASSUME TurnInv, OutboxInv', SkipTarget
    PROVE  TurnInv'
<1>1. PICK h, rest : h = Head(round) /\ rest = Tail(round)
  OBVIOUS
<1>2. /\ h \in Target /\ IsInjective(rest) /\ h \notin Range(rest)
      /\ Range(round) = Range(rest) \cup {h}
  BY <1>1, TurnOver DEF SkipTarget
<1>3. /\ workerPc = "pick" /\ workerPc' = "pick" /\ Total(h) = 0 /\ round' = rest
      /\ UNCHANGED <<queues, known, inFlight, bypassed>>
  BY <1>1 DEF SkipTarget, enqueued
<1>4. \A t \in Target : Total(t)' = Total(t)
  BY <1>3 DEF Total
<1>5. RoundsRight' /\ NothingPassed'
  BY <1>2, <1>3, <1>4 DEF TurnInv, RoundsRight, NothingPassed
<1>6. TurnsTaken'
  <2> SUFFICES ASSUME NEW t \in Target, NEW u \in Target
               PROVE  bypassed[t][u] <= Passes(t, u)'
    BY <1>3 DEF TurnsTaken
  <2>1. bypassed[t][u] \in Nat /\ bypassed[t][u] <= Passes(t, u)
    BY DEF TurnInv, TurnsTaken, OutboxInv, TypeOK
  <2>2. CASE t = h
    <3>1. bypassed[t][u] = 0
      BY <1>3, <2>2 DEF TurnInv, NothingPassed
    <3> QED BY <3>1 DEF Passes
  <2>3. CASE t # h
    BY <1>2, <1>3, <2>1, <2>3 DEF Passes
  <2> QED BY <2>2, <2>3
<1> QED BY <1>5, <1>6 DEF TurnInv

\* The target that is served starts anew; the others that wait have been passed by it once
\* more, and will not be passed by it in this round again.
LEMMA PopMessageTurns ==
    ASSUME TurnInv, OutboxInv', PopMessage
    PROVE  TurnInv'
<1>1. PICK h, rest : h = Head(round) /\ rest = Tail(round)
  OBVIOUS
<1>2. /\ workerPc = "pick" /\ workerPc' = "send" /\ round' = rest
      /\ UNCHANGED known
  BY <1>1 DEF PopMessage, NextRound
<1>3. /\ h \in Target /\ IsInjective(rest) /\ h \notin Range(rest)
      /\ Range(round) = Range(rest) \cup {h}
  BY <1>1, TurnOver DEF PopMessage
<1>4. PICK p \in Priority :
          /\ queues[h][p] # <<>>
          /\ inFlight' = Head(queues[h][p])
          /\ queues' = [queues EXCEPT ![h][p] = Tail(queues[h][p])]
          /\ bypassed' = Bypass(h)
  BY <1>1 DEF PopMessage, PopLeft
<1>5. PICK q, s : q = queues[h][p] /\ s = Tail(q)
  OBVIOUS
<1>6. TypeOK /\ QueuedInPlace /\ q \in Seq(Msg)
  <2>1. TypeOK /\ QueuedInPlace
    BY DEF TurnInv, OutboxInv, Conservation
  <2> QED BY <1>3, <1>5, <2>1 DEF TypeOK
<1>7. /\ s \in Seq(Msg) /\ Len(s) = Len(q) + (-1) /\ Head(q) \in Range(q) /\ Len(q) >= 1
      /\ Len(q) \in Nat
  <2>1. /\ s \in Seq(Msg) /\ Len(s) = Len(q) - 1 /\ Head(q) \in Range(q) /\ Len(q) >= 1
    BY <1>4, <1>5, <1>6, PopFacts
  <2> QED BY <1>6, <2>1, LenProperties
<1>8. Total(h)' = Total(h) + (-1) /\ \A u \in Target : u # h => Total(u)' = Total(u)
  <2>1. -1 \in Int /\ Len(s) = Len(queues[h][p]) + (-1)
        /\ queues' = [queues EXCEPT ![h][p] = s]
    BY <1>4, <1>5, <1>7
  <2> QED BY <1>3, <1>6, <1>7, <2>1, TotalUpdate, Zenon
<1>9. \A t \in Target : Total(t) \in Nat
  BY <1>6, TotalIsNat
<1>10. \A t \in Target : Total(t)' \in Nat
  BY TotalsNext DEF TotalsOK
<1>11. Total(h) > 0 /\ h \in Range(known)
  <2>1. Total(h) > 0
    BY <1>3, <1>8, <1>9, <1>10
  <2> QED BY <1>3, <2>1 DEF TurnInv, RoundsRight
<1>12. To[inFlight'] = h
  BY <1>3, <1>4, <1>5, <1>6, <1>7 DEF QueuedInPlace
<1>13. RoundsRight'
  <2>1. \A t \in Target : Total(t)' > 0 => t \in Range(known)
    BY <1>8, <1>11 DEF TurnInv, RoundsRight
  <2> QED BY <1>2, <1>3, <1>11, <1>12, <2>1 DEF TurnInv, RoundsRight
<1>14. \A t, u \in Target :
           bypassed'[t][u] = IF t = h THEN 0
                             ELSE IF u = h /\ Total(t) > 0 THEN bypassed[t][u] + 1
                             ELSE bypassed[t][u]
  BY <1>4 DEF Bypass
<1>15. NothingPassed'
  <2> SUFFICES ASSUME NEW t \in Target, NEW u \in Target, Total(t)' = 0
               PROVE  bypassed'[t][u] = 0
    BY DEF NothingPassed
  <2>1. t # h => Total(t) = 0 /\ bypassed[t][u] = 0
    BY <1>8 DEF TurnInv, NothingPassed
  <2> QED BY <1>14, <2>1
<1>16. TurnsTaken'
  <2> SUFFICES ASSUME NEW t \in Target, NEW u \in Target
               PROVE  bypassed'[t][u] <= Passes(t, u)'
    BY DEF TurnsTaken
  <2>1. bypassed[t][u] \in Nat /\ bypassed[t][u] <= Passes(t, u)
    BY DEF TurnInv, TurnsTaken, OutboxInv, TypeOK
  <2>2. CASE t = h
    <3>1. bypassed'[t][u] = 0
      BY <1>14, <2>2
    <3> QED BY <3>1 DEF Passes
  <2>3. CASE t # h /\ u = h
    <3>1. bypassed'[t][u] <= bypassed[t][u] + 1
      BY <1>14, <2>1, <2>3
    <3>2. Passes(t, u)' = Passes(t, u) + 1 /\ Passes(t, u) \in Nat
      BY <1>2, <1>3, <2>3 DEF Passes
    <3>3. bypassed'[t][u] \in Nat
      BY <1>14, <2>1
    <3> QED BY <2>1, <3>1, <3>2, <3>3
  <2>4. CASE t # h /\ u # h
    <3>1. bypassed'[t][u] = bypassed[t][u]
      BY <1>14, <2>4
    <3>2. Passes(t, u)' = Passes(t, u)
      BY <1>2, <1>3, <2>4 DEF Passes
    <3> QED BY <2>1, <3>1, <3>2
  <2> QED BY <2>2, <2>3, <2>4
<1> QED BY <1>13, <1>15, <1>16 DEF TurnInv

LEMMA TurnInvStep == TurnInv /\ [Next]_vars => TurnInv'
<1> SUFFICES ASSUME TurnInv, [Next]_vars PROVE TurnInv'
  OBVIOUS
<1>1. OutboxInv'
  BY OutboxInvStep DEF TurnInv
<1>2. CASE UNCHANGED <<queues, known, workerPc, round, inFlight, bypassed>>
  <2>1. \A t \in Target : Total(t)' = Total(t)
    BY <1>2 DEF Total
  <2>2. IsInjective(known)
    BY DEF TurnInv, RoundsRight
  <2> QED BY <1>1, <1>2, <2>1, <2>2, CalmStep
<1>3. ASSUME NEW m \in Msg, AppendMessage(m) PROVE TurnInv'
  BY <1>1, <1>3, AppendMessageTurns
<1>4. CASE StartRound
  BY <1>1, <1>4, StartRoundTurns
<1>5. CASE EndRound
  <2>1. \A t \in Target : Total(t)' = Total(t)
    BY <1>5 DEF EndRound, enqueued, Total
  <2>2. RoundsRight' /\ NothingPassed' /\ TurnsTaken'
    BY <1>5, <2>1
       DEF EndRound, enqueued, TurnInv, RoundsRight, NothingPassed, TurnsTaken, Passes
  <2> QED BY <1>1, <2>2 DEF TurnInv
<1>6. CASE SkipTarget
  BY <1>1, <1>6, SkipTargetTurns
<1>7. CASE PopMessage
  BY <1>1, <1>7, PopMessageTurns
<1>8. CASE SendDelivers \/ SendFailsSilently \/ SendFails \/ WorkerDies
  BY <1>1, <1>8, SettleTurns
<1> QED BY <1>2, <1>3, <1>4, <1>5, <1>6, <1>7, <1>8 DEF Next, vars, CheckPeer, enqueued, worker

\* While messages wait for a target, no other target is served more than twice before it,
\* whatever enqueue_message adds and whatever fails in the meantime.
THEOREM BypassIsBounded == SafeSpec => []BoundedBypass
<1>1. TurnInv => BoundedBypass
  <2> SUFFICES ASSUME TurnInv, NEW t \in Target, NEW u \in Target PROVE bypassed[t][u] <= 2
    BY DEF BoundedBypass
  <2>1. bypassed[t][u] \in Nat /\ bypassed[t][u] <= Passes(t, u)
    BY DEF TurnInv, TurnsTaken, OutboxInv, TypeOK
  <2> QED BY <2>1, PassesFacts
<1> QED BY <1>1, TurnInvInit, TurnInvStep, PTL DEF SafeSpec

-----------------------------------------------------------------------------
(* The promise. *)

\* What waits under the promise is a sequence of messages, and differs from the queues
\* only where the message in flight came from.
LEMMA PendingFacts ==
    ASSUME OutboxInv
    PROVE  /\ PromisedPending \in [Target -> [Priority -> Seq(Msg)]]
           /\ inFlight = NoMsg => PromisedPending = queues
           /\ \A t \in Target, p \in Priority :
                 PromisedPending[t][p] =
                     IF inFlight # NoMsg /\ To[inFlight] = t /\ PriorityOf[inFlight] = p
                     THEN <<inFlight>> \o queues[t][p]
                     ELSE queues[t][p]
<1>1. queues \in [Target -> [Priority -> Seq(Msg)]] /\ inFlight \in Msg \cup {NoMsg}
  BY DEF OutboxInv, TypeOK
<1>2. \A t \in Target, p \in Priority :
         PromisedPending[t][p] =
             IF inFlight # NoMsg /\ To[inFlight] = t /\ PriorityOf[inFlight] = p
             THEN <<inFlight>> \o queues[t][p]
             ELSE queues[t][p]
  BY DEF PromisedPending
<1>3. \A t \in Target, p \in Priority : PromisedPending[t][p] \in Seq(Msg)
  <2> TAKE t \in Target, p \in Priority
  <2>1. queues[t][p] \in Seq(Msg)
    BY <1>1
  <2>2. inFlight # NoMsg => <<inFlight>> \o queues[t][p] \in Seq(Msg)
    BY <1>1, <2>1, ConsFacts
  <2> QED BY <1>2, <2>1, <2>2
<1>4. PromisedPending \in [Target -> [Priority -> Seq(Msg)]]
  BY <1>3 DEF PromisedPending
<1>5. inFlight = NoMsg => PromisedPending = queues
  BY <1>1 DEF PromisedPending
<1> QED BY <1>2, <1>4, <1>5

PendingType == PromisedPending \in [Target -> [Priority -> Seq(Msg)]]

LEMMA PendingTypeNext == OutboxInv' => PendingType'
<1>1. OutboxInv => PendingType
  BY PendingFacts DEF PendingType
<1> QED BY <1>1, PTL

\* With no message in flight, what waits is what is queued.
PendingRests == inFlight = NoMsg => PromisedPending = queues

LEMMA PendingAtRest == OutboxInv' => PendingRests'
<1>1. OutboxInv => PendingRests
  BY PendingFacts DEF PendingRests
<1> QED BY <1>1, PTL

\* A table of queues is known by its queues.
LEMMA SameQueues ==
    ASSUME NEW f \in [Target -> [Priority -> Seq(Msg)]],
           NEW g \in [Target -> [Priority -> Seq(Msg)]],
           \A t \in Target, p \in Priority : f[t][p] = g[t][p]
    PROVE  f = g
<1>1. \A t \in Target : f[t] = g[t]
  <2> TAKE t \in Target
  <2>1. f[t] \in [Priority -> Seq(Msg)] /\ g[t] \in [Priority -> Seq(Msg)]
    OBVIOUS
  <2> QED BY <2>1
<1> QED BY <1>1

LEMMA PendingUpdate ==
    ASSUME NEW f \in [Target -> [Priority -> Seq(Msg)]],
           NEW g \in [Target -> [Priority -> Seq(Msg)]],
           NEW t \in Target, NEW p \in Priority, NEW s \in Seq(Msg),
           g[t][p] = s,
           \A u \in Target, v \in Priority : u # t \/ v # p => g[u][v] = f[u][v]
    PROVE  g = [f EXCEPT ![t][p] = s]
<1> DEFINE h == [f EXCEPT ![t][p] = s]
<1>1. /\ h \in [Target -> [Priority -> Seq(Msg)]]
      /\ h[t][p] = s
      /\ \A u \in Target, v \in Priority : u # t \/ v # p => h[u][v] = f[u][v]
  BY QueueUpdate
<1> HIDE DEF h
<1>2. \A u \in Target, v \in Priority : g[u][v] = h[u][v]
  BY <1>1
<1>3. g = h
  BY <1>1, <1>2, SameQueues
<1> QED BY <1>3 DEF h

\* One message changes its fate, and with it what the promise says of it.
LEMMA OutcomeChange ==
    ASSUME TypeOK, NEW m \in Msg, NEW f \in Fate, NEW o,
           fate' = [fate EXCEPT ![m] = f],
           \/ f \in {"new", "checked"} /\ o = "none"
           \/ f \in {"queued", "sending"} /\ o = "pending"
           \/ f = "delivered" /\ o = "delivered"
           \/ f \in {"refused", "overflow", "unsent", "dropped"} /\ o = "discarded"
    PROVE  PromisedOutcome' = [PromisedOutcome EXCEPT ![m] = o]
<1>1. fate' \in [Msg -> Fate] /\ fate'[m] = f /\ \A n \in Msg : n # m => fate'[n] = fate[n]
  BY DEF TypeOK
<1>2. \A n \in Msg : n # m => PromisedOutcome'[n] = PromisedOutcome[n]
  BY <1>1 DEF PromisedOutcome
<1>3. PromisedOutcome'[m] = o
  BY <1>1 DEF PromisedOutcome
<1>4. /\ PromisedOutcome = [n \in Msg |-> PromisedOutcome[n]]
      /\ PromisedOutcome' = [n \in Msg |-> PromisedOutcome'[n]]
  BY DEF PromisedOutcome
<1> QED BY <1>2, <1>3, <1>4

\* The outcome the promise starts from.
LEMMA OutcomeBefore ==
    ASSUME NEW m \in Msg
    PROVE  /\ fate[m] \in {"new", "checked"} => PromisedOutcome[m] = "none"
           /\ fate[m] \in {"queued", "sending"} => PromisedOutcome[m] = "pending"
BY DEF PromisedOutcome

\* An outcome that is set to what it was has not changed.
LEMMA OutcomeKept ==
    ASSUME NEW m \in Msg, PromisedOutcome' = [PromisedOutcome EXCEPT ![m] = PromisedOutcome[m]]
    PROVE  PromisedOutcome' = PromisedOutcome
<1>1. PromisedOutcome = [n \in Msg |-> PromisedOutcome[n]]
  BY DEF PromisedOutcome
<1> QED BY <1>1

LEMMA CheckPeerPromise ==
    ASSUME OutboxInv, NEW m \in Msg, CheckPeer(m)
    PROVE  Promise!Refuse(m) \/ UNCHANGED <<PromisedPending, PromisedOutcome>>
<1>1. TypeOK /\ fate[m] = "new" /\ UNCHANGED <<queues, inFlight>>
  BY DEF OutboxInv, CheckPeer, enqueued, worker
<1>2. PromisedPending' = PromisedPending
  BY <1>1 DEF PromisedPending
<1>3. PromisedOutcome[m] = "none"
  BY <1>1, OutcomeBefore
<1>4. CASE fate' = [fate EXCEPT ![m] = "checked"]
  <2>1. PromisedOutcome' = [PromisedOutcome EXCEPT ![m] = "none"]
    BY <1>1, <1>4, OutcomeChange DEF Fate
  <2> QED BY <2>1, <1>2, <1>3, OutcomeKept
<1>5. CASE fate' = [fate EXCEPT ![m] = "refused"]
  <2>1. PromisedOutcome' = [PromisedOutcome EXCEPT ![m] = "discarded"]
    BY <1>1, <1>5, OutcomeChange DEF Fate
  <2> QED BY <2>1, <1>2, <1>3 DEF Promise!Refuse
<1> QED BY <1>4, <1>5 DEF CheckPeer

\* A message that goes to the end of its queue goes to the end of what waits, behind the
\* message in flight.
LEMMA AppendMessagePromise ==
    ASSUME OutboxInv, NEW m \in Msg, AppendMessage(m)
    PROVE  Promise!Accept(m) \/ Promise!Refuse(m)
<1>0. PICK t \in Target, p \in Priority : t = To[m] /\ p = PriorityOf[m]
  BY PriorityIsLevel, MessagesAssumption
<1>1. TypeOK /\ fate[m] = "checked" /\ inFlight' = inFlight
  BY DEF OutboxInv, AppendMessage, worker
<1>2. PromisedOutcome[m] = "none"
  BY <1>1, OutcomeBefore
<1>3. CASE HasRoom(t)
  <2>1. /\ queues' = [queues EXCEPT ![t][p] = Append(queues[t][p], m)]
        /\ fate' = [fate EXCEPT ![m] = "queued"]
    BY <1>0, <1>3 DEF AppendMessage
  <2>2. PromisedOutcome' = [PromisedOutcome EXCEPT ![m] = "pending"]
    BY <1>1, <2>1, OutcomeChange DEF Fate
  <2>3. queues[t][p] \in Seq(Msg) /\ Append(queues[t][p], m) \in Seq(Msg)
    BY <1>1, AppendFacts DEF TypeOK
  <2>4. /\ queues'[t][p] = Append(queues[t][p], m)
        /\ \A u \in Target, v \in Priority : u # t \/ v # p => queues'[u][v] = queues[u][v]
    BY <1>1, <2>1, <2>3, QueueUpdate DEF TypeOK
  <2>5. PromisedPending \in [Target -> [Priority -> Seq(Msg)]]
    BY PendingFacts, Zenon
  <2>6. PromisedPending' \in [Target -> [Priority -> Seq(Msg)]]
    BY AppendMessageKeeps, PendingTypeNext DEF PendingType
  <2>7. PICK q : q = Append(PromisedPending[t][p], m)
    OBVIOUS
  <2>8. q \in Seq(Msg)
    BY <2>5, <2>7, AppendFacts
  <2>9. PromisedPending'[t][p] = q
    <3>1. CASE inFlight # NoMsg /\ To[inFlight] = t /\ PriorityOf[inFlight] = p
      <4>1. inFlight \in Msg
        BY <3>1, <1>1 DEF TypeOK
      <4>2. <<inFlight>> \o Append(queues[t][p], m) = Append(<<inFlight>> \o queues[t][p], m)
        BY <4>1, <2>3, ConsAppend
      <4> QED BY <3>1, <4>2, <1>1, <2>4, <2>7 DEF PromisedPending
    <3>2. CASE ~(inFlight # NoMsg /\ To[inFlight] = t /\ PriorityOf[inFlight] = p)
      BY <3>2, <1>1, <2>4, <2>7 DEF PromisedPending
    <3> QED BY <3>1, <3>2
  <2>10. \A u \in Target, v \in Priority :
            u # t \/ v # p => PromisedPending'[u][v] = PromisedPending[u][v]
    BY <1>1, <2>4 DEF PromisedPending
  <2>11. PromisedPending' = [PromisedPending EXCEPT ![t][p] = q]
    BY <2>5, <2>6, <2>8, <2>9, <2>10, PendingUpdate
  <2> QED BY <1>0, <1>2, <2>2, <2>7, <2>11 DEF Promise!Accept
<1>4. CASE ~HasRoom(t)
  <2>1. queues' = queues /\ fate' = [fate EXCEPT ![m] = "overflow"]
    BY <1>0, <1>4 DEF AppendMessage
  <2>2. PromisedOutcome' = [PromisedOutcome EXCEPT ![m] = "discarded"]
    BY <1>1, <2>1, OutcomeChange DEF Fate
  <2>3. PromisedPending' = PromisedPending
    BY <1>1, <2>1 DEF PromisedPending
  <2> QED BY <1>2, <2>2, <2>3 DEF Promise!Refuse
<1> QED BY <1>3, <1>4

\* The message in flight stands where it stood in its queue.
LEMMA PopMessagePromise ==
    ASSUME OutboxInv, PopMessage
    PROVE  UNCHANGED <<PromisedPending, PromisedOutcome>>
<1>1. TypeOK /\ QueuedInPlace /\ NoneMissing /\ workerPc = "pick" /\ round # <<>>
  BY DEF OutboxInv, Conservation, PopMessage
<1>2. inFlight = NoMsg
  BY <1>1 DEF NoneMissing
<1>3. Head(round) \in Target
  BY <1>1, PopFacts DEF TypeOK
<1>4. PICK t \in Target, p \in Priority :
          /\ queues[t][p] # <<>>
          /\ inFlight' = Head(queues[t][p])
          /\ queues' = [queues EXCEPT ![t][p] = Tail(queues[t][p])]
          /\ fate' = [fate EXCEPT ![inFlight'] = "sending"]
  BY <1>3 DEF PopMessage, PopLeft
<1>5. PICK m : m = Head(queues[t][p])
  OBVIOUS
<1>6. queues[t][p] \in Seq(Msg)
  BY <1>1 DEF TypeOK
<1>7. /\ m \in Msg /\ Tail(queues[t][p]) \in Seq(Msg)
      /\ <<m>> \o Tail(queues[t][p]) = queues[t][p]
      /\ m \in Range(queues[t][p])
  BY <1>4, <1>5, <1>6, PopFacts
<1>8. inFlight' = m /\ fate' = [fate EXCEPT ![m] = "sending"]
  BY <1>4, <1>5
<1>9. To[m] = t /\ PriorityOf[m] = p /\ fate[m] = "queued"
  BY <1>1, <1>7 DEF QueuedInPlace
<1>10. /\ queues'[t][p] = Tail(queues[t][p])
       /\ \A u \in Target, v \in Priority : u # t \/ v # p => queues'[u][v] = queues[u][v]
  BY <1>1, <1>4, <1>7, QueueUpdate DEF TypeOK
<1>11. m # NoMsg
  BY <1>7, MessagesAssumption
<1>12. \A u \in Target, v \in Priority : PromisedPending'[u][v] = queues[u][v]
  <2> TAKE u \in Target, v \in Priority
  <2>1. CASE u = t /\ v = p
    BY <2>1, <1>7, <1>8, <1>9, <1>10, <1>11 DEF PromisedPending
  <2>2. CASE u # t \/ v # p
    BY <2>2, <1>8, <1>9, <1>10 DEF PromisedPending
  <2> QED BY <2>1, <2>2
<1>13. PromisedPending = queues
  BY <1>2, PendingFacts, Zenon
<1>14. PromisedPending' \in [Target -> [Priority -> Seq(Msg)]]
  BY PopMessageKeeps, PendingTypeNext DEF PendingType
<1>15. PromisedPending' = queues
  BY <1>1, <1>12, <1>14, SameQueues DEF TypeOK
<1>16. PromisedOutcome' = PromisedOutcome
  <2>1. PromisedOutcome' = [PromisedOutcome EXCEPT ![m] = "pending"]
    BY <1>1, <1>7, <1>8, OutcomeChange DEF Fate
  <2>2. PromisedOutcome[m] = "pending"
    BY <1>7, <1>9, OutcomeBefore
  <2> QED BY <2>1, <2>2, <1>7, OutcomeKept
<1> QED BY <1>13, <1>15, <1>16

\* A message the worker is done with was the first of those that wait.
LEMMA SettlePromise ==
    ASSUME OutboxInv, workerPc = "send", NEW f \in Fate \ {"new", "checked", "queued", "sending"},
           fate' = [fate EXCEPT ![inFlight] = f], inFlight' = NoMsg, queues' = queues
    PROVE  \E m \in Msg : Promise!Settle(m)
<1>1. TypeOK
  BY DEF OutboxInv
<1>2. PICK m \in Msg : m = inFlight /\ fate[m] = "sending"
  BY InFlight
<1>3. PICK t \in Target, p \in Priority : t = To[m] /\ p = PriorityOf[m]
  BY PriorityIsLevel, MessagesAssumption
<1>4. queues[t][p] \in Seq(Msg) /\ m # NoMsg
  BY <1>1, MessagesAssumption DEF TypeOK
<1>5. PromisedPending[t][p] = <<m>> \o queues[t][p]
  BY <1>2, <1>3, <1>4 DEF PromisedPending
<1>6. /\ PromisedPending[t][p] # <<>>
      /\ Head(PromisedPending[t][p]) = m
      /\ Tail(PromisedPending[t][p]) = queues[t][p]
  BY <1>4, <1>5, ConsFacts
<1>7. PromisedPending' = queues
  BY <1>1 DEF PromisedPending, TypeOK
<1>8. \A u \in Target, v \in Priority : u # t \/ v # p => queues[u][v] = PromisedPending[u][v]
  BY <1>2, <1>3 DEF PromisedPending
<1>9. PromisedPending \in [Target -> [Priority -> Seq(Msg)]]
  BY PendingFacts, Zenon
<1>10. PromisedPending' = [PromisedPending EXCEPT ![t][p] = Tail(PromisedPending[t][p])]
  <2>1. queues = [PromisedPending EXCEPT ![t][p] = queues[t][p]]
    BY <1>1, <1>4, <1>8, <1>9, PendingUpdate DEF TypeOK
  <2> QED BY <2>1, <1>6, <1>7
<1>11. \E o \in {"delivered", "discarded"} :
          PromisedOutcome' = [PromisedOutcome EXCEPT ![m] = o]
  <2>1. CASE f = "delivered"
    <3>1. PromisedOutcome' = [PromisedOutcome EXCEPT ![m] = "delivered"]
      BY <2>1, <1>1, <1>2, OutcomeChange
    <3> QED BY <3>1
  <2>2. CASE f # "delivered"
    <3>1. f \in {"refused", "overflow", "unsent", "dropped"}
      BY <2>2 DEF Fate
    <3>2. PromisedOutcome' = [PromisedOutcome EXCEPT ![m] = "discarded"]
      BY <3>1, <1>1, <1>2, OutcomeChange
    <3> QED BY <3>2
  <2> QED BY <2>1, <2>2
<1> QED BY <1>3, <1>6, <1>10, <1>11 DEF Promise!Settle

\* A message that failed and is put back stands where it stood.
LEMMA PutBackPromise ==
    ASSUME OutboxInv, OutboxInv', NEW m \in Msg, NEW t \in Target, NEW p \in Priority,
           NEW s \in Seq(Msg), PromisedPending[t][p] = s,
           inFlight = m, To[m] = t /\ PriorityOf[m] = p,
           queues' = [queues EXCEPT ![t][p] = s],
           fate[m] = "sending", fate' = [fate EXCEPT ![m] = "queued"], inFlight' = NoMsg
    PROVE  UNCHANGED <<PromisedPending, PromisedOutcome>>
<1>1. TypeOK /\ TypeOK'
  BY DEF OutboxInv
<1>2. /\ queues'[t][p] = s
      /\ \A u \in Target, v \in Priority : u # t \/ v # p => queues'[u][v] = queues[u][v]
  <2>1. queues \in [Target -> [Priority -> Seq(Msg)]]
    BY <1>1 DEF TypeOK
  <2>2. /\ [queues EXCEPT ![t][p] = s][t][p] = s
        /\ \A u \in Target, v \in Priority :
               u # t \/ v # p => [queues EXCEPT ![t][p] = s][u][v] = queues[u][v]
    BY <2>1, QueueUpdate
  <2> QED BY <2>2
<1>3. PromisedPending' = queues'
  <2>1. OutboxInv' => (inFlight' = NoMsg => PromisedPending' = queues')
    BY PendingAtRest DEF PendingRests
  <2> QED BY <2>1
<1>4. \A u \in Target, v \in Priority : u # t \/ v # p => queues[u][v] = PromisedPending[u][v]
  BY DEF PromisedPending
<1>5. \A u \in Target, v \in Priority : queues'[u][v] = PromisedPending[u][v]
  <2> TAKE u \in Target, v \in Priority
  <2>1. CASE u = t /\ v = p
    BY <2>1, <1>2
  <2>2. CASE u # t \/ v # p
    BY <2>2, <1>2, <1>4
  <2> QED BY <2>1, <2>2
<1>6. queues' = PromisedPending
  <2>1. PromisedPending \in [Target -> [Priority -> Seq(Msg)]]
    BY PendingFacts, Zenon
  <2>2. queues' \in [Target -> [Priority -> Seq(Msg)]]
    BY <1>1 DEF TypeOK
  <2> QED BY <2>1, <2>2, <1>5, SameQueues
<1>7. PromisedOutcome' = PromisedOutcome
  <2>1. PromisedOutcome' = [PromisedOutcome EXCEPT ![m] = "pending"]
    BY <1>1, OutcomeChange DEF Fate
  <2>2. PromisedOutcome[m] = "pending"
    BY OutcomeBefore
  <2> QED BY <2>1, <2>2, OutcomeKept
<1> QED BY <1>3, <1>6, <1>7

LEMMA PromiseInit == Init => Promise!Init
<1> SUFFICES ASSUME Init PROVE Promise!Init
  OBVIOUS
<1>1. OutboxInv /\ inFlight = NoMsg
  BY OutboxInvInit DEF Init
<1>2. PromisedPending = queues
  BY <1>1, PendingFacts, Zenon
<1>3. PromisedOutcome = [m \in Msg |-> "none"]
  BY DEF Init, PromisedOutcome
<1> QED BY <1>2, <1>3 DEF Init, Promise!Init

LEMMA PromiseStep == OutboxInv /\ [Next]_vars => [Promise!Next]_(Promise!vars)
<1> SUFFICES ASSUME OutboxInv, [Next]_vars
             PROVE  Promise!Next \/ UNCHANGED <<PromisedPending, PromisedOutcome>>
  BY DEF Promise!vars
<1>1. CASE \E m \in Msg : CheckPeer(m)
  BY <1>1, CheckPeerPromise DEF Promise!Next
<1>2. CASE \E m \in Msg : AppendMessage(m)
  BY <1>2, AppendMessagePromise DEF Promise!Next
<1>3. CASE StartRound \/ EndRound \/ SkipTarget \/ UNCHANGED vars
  <2>1. UNCHANGED <<queues, inFlight, fate>>
    BY <1>3 DEF StartRound, EndRound, SkipTarget, vars, enqueued, worker
  <2> QED BY <2>1 DEF PromisedPending, PromisedOutcome
<1>4. CASE PopMessage
  BY <1>4, PopMessagePromise
<1>5. CASE SendDelivers \/ SendFailsSilently \/ WorkerDies
  <2>1. /\ workerPc = "send" /\ inFlight' = NoMsg /\ queues' = queues
        /\ \E f \in {"delivered", "unsent"} : fate' = [fate EXCEPT ![inFlight] = f]
    BY <1>5 DEF SendDelivers, SendFailsSilently, WorkerDies, SettleAs, enqueued
  <2>2. PICK f \in Fate \ {"new", "checked", "queued", "sending"} :
            fate' = [fate EXCEPT ![inFlight] = f]
    BY <2>1 DEF Fate
  <2> QED BY <2>1, <2>2, SettlePromise DEF Promise!Next
<1>6. CASE SendFails
  <2>1. workerPc = "send" /\ inFlight' = NoMsg
    BY <1>6 DEF SendFails, SettleAs
  <2>2. \/ /\ queues' = [queues EXCEPT ![To[inFlight]][PriorityOf[inFlight]] =
                             PutBack(queues[To[inFlight]][PriorityOf[inFlight]], inFlight)]
           /\ fate' = [fate EXCEPT ![inFlight] = "queued"]
        \/ /\ queues' = queues
           /\ \E f \in {"overflow", "dropped"} : fate' = [fate EXCEPT ![inFlight] = f]
    BY <1>6 DEF SendFails, SettleAs
  <2>3. CASE /\ queues' = [queues EXCEPT ![To[inFlight]][PriorityOf[inFlight]] =
                             PutBack(queues[To[inFlight]][PriorityOf[inFlight]], inFlight)]
             /\ fate' = [fate EXCEPT ![inFlight] = "queued"]
    <3>1. OutboxInv'
      BY <1>6, SendFailsKeeps
    <3>2. PICK m \in Msg : m = inFlight /\ fate[m] = "sending"
      BY <2>1, InFlight
    <3>3. PICK t \in Target, p \in Priority : t = To[m] /\ p = PriorityOf[m]
      BY PriorityIsLevel, MessagesAssumption
    <3>4. PICK s : s = <<m>> \o queues[t][p]
      OBVIOUS
    <3>5. queues[t][p] \in Seq(Msg)
      BY DEF OutboxInv, TypeOK
    <3>6. s \in Seq(Msg)
      BY <3>4, <3>5, ConsFacts
    <3>7. queues' = [queues EXCEPT ![t][p] = s] /\ fate' = [fate EXCEPT ![m] = "queued"]
      BY <2>3, <3>2, <3>3, <3>4 DEF PutBack
    <3>8. s = PromisedPending[t][p]
      BY <3>2, <3>3, <3>4, MessagesAssumption DEF PromisedPending
    <3> QED BY <2>1, <3>1, <3>2, <3>3, <3>6, <3>7, <3>8, PutBackPromise
  <2>4. CASE /\ queues' = queues
             /\ \E f \in {"overflow", "dropped"} : fate' = [fate EXCEPT ![inFlight] = f]
    <3>1. PICK f \in Fate \ {"new", "checked", "queued", "sending"} :
              fate' = [fate EXCEPT ![inFlight] = f]
      BY <2>4 DEF Fate
    <3> QED BY <2>1, <2>4, <3>1, SettlePromise DEF Promise!Next
  <2> QED BY <2>2, <2>3, <2>4
<1> QED BY <1>1, <1>2, <1>3, <1>4, <1>5, <1>6 DEF Next

\* send_from_queue serves every target and priority in the order in which enqueue_message
\* accepted: a message that failed and is put back has not lost its place.
THEOREM OutboxKeepsPromise == SafeSpec => ImplementsPromise
<1> QED BY PromiseInit, PromiseStep, OutboxInvAlways, PTL
        DEF SafeSpec, ImplementsPromise, Promise!Spec
=============================================================================
