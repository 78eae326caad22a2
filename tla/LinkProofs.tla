----------------------------- MODULE LinkProofs -----------------------------
(***************************************************************************)
(* The token bucket of Link bounds the sends, and drop_cnt stays in its    *)
(* range, for all settings, although both are changed without their locks; *)
(* and what is refused at the queue is refused because others used up the  *)
(* limit of the window, for any number of calls.                           *)
(***************************************************************************)
EXTENDS Link, SequenceFacts

-----------------------------------------------------------------------------
(* drop_cnt. *)

\* The loop lowers only what it has seen above zero, which the worker can but raise.
LoweringIsSafe ==
    /\ drop_cnt \in Count /\ read \in Count /\ lowered \in Count
    /\ lowering \in {"idle", "read", "write"}
    /\ lowering = "read" => drop_cnt > 0
    /\ lowering = "write" => lowered > 0

LEMMA LoweringInit == Init => LoweringIsSafe
BY LimitsAssumption DEF Init, LoweringIsSafe, Count

LEMMA LoweringStep == LoweringIsSafe /\ [Next]_vars => LoweringIsSafe'
<1> SUFFICES ASSUME LoweringIsSafe, [Next]_vars PROVE LoweringIsSafe' OBVIOUS
<1>1. CASE UNCHANGED drops
  BY <1>1 DEF LoweringIsSafe, drops
<1>2. CASE ReadDropCnt
  BY <1>2 DEF ReadDropCnt, LoweringIsSafe
<1>3. CASE RaiseDropCnt
  <2>1. Raised \in Count /\ Raised > 0 /\ 0 \in Count
    BY LimitsAssumption DEF LoweringIsSafe, Raised, Count
  <2> QED BY <1>3, <2>1 DEF RaiseDropCnt, LoweringIsSafe
<1>4. CASE TestDropCnt
  BY <1>4 DEF TestDropCnt, LoweringIsSafe
<1>5. CASE ReadToLower
  BY <1>5 DEF ReadToLower, LoweringIsSafe
<1>6. CASE LowerDropCnt
  <2>1. lowered - 1 \in Count /\ 0 \in Count
    BY <1>6, LimitsAssumption DEF LowerDropCnt, LoweringIsSafe, Count
  <2> QED BY <1>6, <2>1 DEF LowerDropCnt, LoweringIsSafe
<1> QED BY <1>1, <1>2, <1>3, <1>4, <1>5, <1>6
        DEF Next, vars, Tick, ReadClock, Enqueue, Limit, Refill, Allow, Deny, SetCapacity,
            SetRate, Sent, RandomDrop

\* However the worker and the loop of dec_drop_cnt lose each other's updates, drop_cnt stays
\* between zero and its threshold: the wait of send_from_queue has a bound.
THEOREM DropsStayInRange == Spec => []DropsInRange
<1>1. LoweringIsSafe => DropsInRange
  BY DEF LoweringIsSafe, DropsInRange
<1> QED BY <1>1, LoweringInit, LoweringStep, PTL DEF Spec

-----------------------------------------------------------------------------
(* The token bucket. *)

Full == MaxCapacity * Unit

\* The tokens that can be used: the next cut leaves no more of them.
Usable == IF tokens < Full THEN tokens ELSE Full

BucketTypeOK ==
    /\ now \in Nat /\ last_check \in Nat /\ last_check <= now /\ tokens \in Nat
    /\ capacity \in 0..MaxCapacity /\ refill_rate \in 0..MaxCapacity
    /\ adjusting \in Capacities \cup {Never}
    /\ since \in [Time -> Nat]

\* BurstBounded, with what the bucket still has to give.
TokensBounded ==
    \A t \in Time :
        /\ t > last_check => since[t] = 0
        /\ t <= last_check =>
               since[t] * Unit + Usable <= Full + (last_check - t) * MaxCapacity

BucketInv == BucketTypeOK /\ TokensBounded

\* What the solvers need of products.
LEMMA Products ==
    /\ \A a, b \in Nat : a * b \in Nat
    /\ \A a, b, c \in Nat : (a + b) * c = a * c + b * c
    /\ \A a, b, c \in Nat : a <= b => a * c <= b * c /\ c * a <= c * b
OBVIOUS

LEMMA BucketInit == Init => BucketInv
<1> SUFFICES ASSUME Init PROVE BucketInv OBVIOUS
<1>1. MaxCapacity \in Nat /\ Unit \in Nat /\ SEND_RATE_LIMIT \in Nat
  BY LimitsAssumption, CapacitiesAssumption
<1>2. BucketTypeOK
  BY <1>1, CapacitiesAssumption, Products DEF Init, BucketTypeOK
<1>3. Full \in Nat /\ Usable \in Nat /\ Usable <= Full
  BY <1>1, <1>2, Products DEF Full, Usable, BucketTypeOK
<1>4. TokensBounded
  <2>1. \A t \in Time : t \in Nat /\ since[t] = 0 /\ (t <= last_check => t = last_check)
    BY DEF Init, Time
  <2>2. 0 * Unit = 0 /\ 0 * MaxCapacity = 0
    BY <1>1
  <2> QED BY <1>2, <1>3, <2>1, <2>2 DEF TokensBounded, BucketTypeOK
<1> QED BY <1>2, <1>4 DEF BucketInv

LEMMA SettingsStep ==
    ASSUME BucketInv, UNCHANGED bucket, now' \in Nat, now <= now',
           capacity' \in 0..MaxCapacity, refill_rate' \in 0..MaxCapacity,
           adjusting' \in Capacities \cup {Never}
    PROVE  BucketInv'
<1>1. BucketTypeOK'
  BY DEF BucketInv, BucketTypeOK, bucket
<1>2. TokensBounded'
  BY DEF BucketInv, TokensBounded, Usable, bucket
<1> QED BY <1>1, <1>2 DEF BucketInv

LEMMA RefillStep == BucketInv /\ Refill => BucketInv'
<1> SUFFICES ASSUME BucketInv, Refill PROVE BucketInv' OBVIOUS
<1>1. /\ MaxCapacity \in Nat /\ Unit \in Nat /\ refill_rate \in Nat
      /\ refill_rate <= MaxCapacity
      /\ now \in Nat /\ last_check \in Nat /\ last_check <= now /\ tokens \in Nat
      /\ BucketTypeOK /\ TokensBounded
  BY LimitsAssumption, CapacitiesAssumption DEF BucketInv, BucketTypeOK
<1>2. PICK d \in Nat : d = now - last_check
  BY <1>1
<1>3. tokens' = tokens + d * refill_rate /\ last_check' = now /\ now' = now /\ since' = since
      /\ UNCHANGED settings
  BY <1>2 DEF Refill
<1>4. d * refill_rate \in Nat /\ d * MaxCapacity \in Nat /\ d * refill_rate <= d * MaxCapacity
      /\ Full \in Nat
  BY <1>1, Products DEF Full
<1>5. Usable \in Nat /\ Usable' \in Nat /\ Usable' <= Full /\ Usable' <= Usable + d * MaxCapacity
  BY <1>1, <1>3, <1>4 DEF Usable, Full
<1>6. BucketTypeOK'
  BY <1>1, <1>3, <1>4 DEF BucketTypeOK, settings
<1>7. TokensBounded'
  <2> SUFFICES ASSUME NEW t \in Time
               PROVE  /\ t > now => since[t] = 0
                      /\ t <= now =>
                             since[t] * Unit + Usable' <= Full + (now - t) * MaxCapacity
    BY <1>3 DEF TokensBounded, Full
  <2>1. t \in Nat /\ since[t] \in Nat
    BY <1>1, LimitsAssumption DEF Time, BucketTypeOK
  <2>2. CASE t <= last_check
    <3>1. PICK e \in Nat : e = last_check - t
      BY <1>1, <2>1, <2>2
    <3>2. since[t] * Unit + Usable <= Full + e * MaxCapacity
      BY <1>1, <2>2, <3>1 DEF TokensBounded
    <3>3. now - t = e + d /\ (e + d) * MaxCapacity = e * MaxCapacity + d * MaxCapacity
          /\ e * MaxCapacity \in Nat /\ since[t] * Unit \in Nat
      BY <1>1, <1>2, <2>1, <3>1, Products
    <3>4. since[t] * Unit + Usable' <= Full + (now - t) * MaxCapacity
      BY <1>4, <1>5, <3>2, <3>3
    <3> QED BY <1>1, <2>1, <2>2, <3>4
  <2>3. CASE t > last_check
    <3>1. since[t] = 0 /\ 0 * Unit = 0
      BY <1>1, <2>3 DEF TokensBounded
    <3>2. t <= now => now - t \in Nat /\ (now - t) * MaxCapacity \in Nat
      BY <1>1, <2>1, Products
    <3> QED BY <1>4, <1>5, <3>1, <3>2
  <2> QED BY <1>1, <2>1, <2>2, <2>3
<1> QED BY <1>6, <1>7 DEF BucketInv

\* The cut leaves no more than can be used.
LEMMA CutFacts ==
    ASSUME BucketInv
    PROVE  CutTokens \in Nat /\ Usable \in Nat /\ Full \in Nat /\ CutTokens <= Usable
<1>1. /\ MaxCapacity \in Nat /\ Unit \in Nat /\ capacity \in Nat /\ capacity <= MaxCapacity
      /\ tokens \in Nat
  BY LimitsAssumption, CapacitiesAssumption DEF BucketInv, BucketTypeOK
<1>2. capacity * Unit \in Nat /\ Full \in Nat /\ capacity * Unit <= Full
  BY <1>1, Products DEF Full
<1> QED BY <1>1, <1>2 DEF CutTokens, Usable

LEMMA AllowStep == BucketInv /\ Allow => BucketInv'
<1> SUFFICES ASSUME BucketInv, Allow PROVE BucketInv' OBVIOUS
<1>1. /\ BucketTypeOK /\ TokensBounded /\ MaxCapacity \in Nat /\ Unit \in Nat
      /\ last_check \in Nat
  BY LimitsAssumption, CapacitiesAssumption DEF BucketInv, BucketTypeOK
<1>2. /\ CutTokens >= Unit /\ tokens' = CutTokens - Unit
      /\ since' = [t \in Time |-> IF t <= last_check THEN since[t] + 1 ELSE since[t]]
      /\ UNCHANGED <<now, last_check, settings>>
  BY DEF Allow
<1>3. CutTokens \in Nat /\ Usable \in Nat /\ Full \in Nat /\ CutTokens <= Usable
  BY CutFacts
<1>4. tokens' \in Nat /\ Usable' <= Usable - Unit /\ Usable' \in Nat
  BY <1>1, <1>2, <1>3 DEF Usable, Full
<1>5. BucketTypeOK'
  <2>1. since' \in [Time -> Nat]
    BY <1>1, <1>2 DEF BucketTypeOK
  <2> QED BY <1>1, <1>2, <1>4, <2>1 DEF BucketTypeOK, settings
<1>6. TokensBounded'
  <2> SUFFICES ASSUME NEW t \in Time
               PROVE  /\ t > last_check => since'[t] = 0
                      /\ t <= last_check =>
                             since'[t] * Unit + Usable' <= Full + (last_check - t) * MaxCapacity
    BY <1>2 DEF TokensBounded, Full
  <2>1. t \in Nat /\ since[t] \in Nat
    BY <1>1, LimitsAssumption DEF Time, BucketTypeOK
  <2>2. CASE t <= last_check
    <3>1. since'[t] = since[t] + 1 /\ (since[t] + 1) * Unit = since[t] * Unit + 1 * Unit
          /\ 1 * Unit = Unit /\ since[t] * Unit \in Nat
      BY <1>1, <1>2, <2>1, <2>2, Products
    <3>2. (last_check - t) * MaxCapacity \in Nat
      BY <1>1, <2>1, <2>2, Products
    <3>3. since[t] * Unit + Usable <= Full + (last_check - t) * MaxCapacity
      BY <1>1, <2>2 DEF TokensBounded
    <3> QED BY <1>1, <1>3, <1>4, <2>1, <2>2, <3>1, <3>2, <3>3
  <2>3. CASE ~(t <= last_check)
    BY <1>1, <1>2, <2>1, <2>3 DEF TokensBounded
  <2> QED BY <2>2, <2>3
<1> QED BY <1>5, <1>6 DEF BucketInv

LEMMA DenyStep == BucketInv /\ Deny => BucketInv'
<1> SUFFICES ASSUME BucketInv, Deny PROVE BucketInv' OBVIOUS
<1>1. /\ BucketTypeOK /\ TokensBounded /\ MaxCapacity \in Nat /\ Unit \in Nat
      /\ last_check \in Nat
  BY LimitsAssumption, CapacitiesAssumption DEF BucketInv, BucketTypeOK
<1>2. tokens' = CutTokens /\ UNCHANGED <<now, last_check, since, settings>>
  BY DEF Deny
<1>3. CutTokens \in Nat /\ Usable \in Nat /\ Full \in Nat /\ CutTokens <= Usable
  BY CutFacts
<1>4. tokens' \in Nat /\ Usable' <= Usable /\ Usable' \in Nat
  BY <1>1, <1>2, <1>3 DEF Usable, Full
<1>5. BucketTypeOK'
  BY <1>1, <1>2, <1>4 DEF BucketTypeOK, settings
<1>6. TokensBounded'
  <2> SUFFICES ASSUME NEW t \in Time
               PROVE  /\ t > last_check => since[t] = 0
                      /\ t <= last_check =>
                             since[t] * Unit + Usable' <= Full + (last_check - t) * MaxCapacity
    BY <1>2 DEF TokensBounded, Full
  <2>1. t \in Nat /\ since[t] * Unit \in Nat
    BY <1>1, LimitsAssumption, Products DEF Time, BucketTypeOK
  <2>2. t <= last_check => (last_check - t) * MaxCapacity \in Nat
    BY <1>1, <2>1, Products
  <2> QED BY <1>1, <1>3, <1>4, <2>1, <2>2 DEF TokensBounded
<1> QED BY <1>5, <1>6 DEF BucketInv

LEMMA BucketStep == BucketInv /\ [Next]_vars => BucketInv'
<1> SUFFICES ASSUME BucketInv, [Next]_vars PROVE BucketInv' OBVIOUS
<1>1. /\ now \in Nat /\ capacity \in 0..MaxCapacity /\ refill_rate \in 0..MaxCapacity
      /\ adjusting \in Capacities \cup {Never} /\ Capacities \subseteq 0..MaxCapacity
  BY CapacitiesAssumption DEF BucketInv, BucketTypeOK
<1>2. CASE Tick
  BY <1>1, <1>2, SettingsStep DEF Tick, settings
<1>3. ASSUME NEW k \in Capacities, SetCapacity(k) PROVE BucketInv'
  BY <1>1, <1>3, SettingsStep DEF SetCapacity
<1>4. CASE SetRate
  BY <1>1, <1>4, SettingsStep DEF SetRate
<1>5. CASE UNCHANGED <<now, bucket, settings>>
  BY <1>1, <1>5, SettingsStep DEF settings
<1> QED BY <1>2, <1>3, <1>4, <1>5, RefillStep, AllowStep, DenyStep
        DEF Next, vars, ReadClock, Enqueue, Limit, Sent, RandomDrop, ReadDropCnt, RaiseDropCnt,
            TestDropCnt, ReadToLower, LowerDropCnt

\* The bucket allows no more than its largest capacity and its largest rate bring, from any
\* moment on, whenever the adjustment changes either under its hands (RateLimiter.allow).
THEOREM SendsAreBounded == Spec => []BurstBounded
<1>1. BucketInv => BurstBounded
  <2> SUFFICES ASSUME BucketInv, NEW t \in Time, t <= last_check
               PROVE  since[t] * Unit <= MaxCapacity * Unit + (last_check - t) * MaxCapacity
    BY DEF BurstBounded
  <2>1. Usable \in Nat /\ t \in Nat /\ last_check \in Nat /\ since[t] * Unit \in Nat
    BY CutFacts, LimitsAssumption, Products DEF Time, BucketInv, BucketTypeOK
  <2>2. (last_check - t) * MaxCapacity \in Nat /\ MaxCapacity * Unit \in Nat
    BY <2>1, LimitsAssumption, CapacitiesAssumption, Products
  <2> QED BY <2>1, <2>2 DEF BucketInv, TokensBounded, Full
<1> QED BY <1>1, BucketInit, BucketStep, PTL DEF Spec

-----------------------------------------------------------------------------
(* The limit at the queue. *)

\* The calls whose message is in the queue or was.
Queued == {d \in Call : pc[d] = "queued"}

LimitTypeOK ==
    /\ now \in Time
    /\ pc \in [Call -> {"start", "check", "queued", "limited"}]
    /\ at \in [Call -> Time \cup {Never}]
    /\ \A c \in Call : pc[c] # "start" => at[c] \in Time
    /\ peer_send_timestamps \in Seq(Time)
    /\ Len(peer_send_timestamps) <= RATE_LIMIT

\* However many calls there may be, only some have begun.
FewBegun == IsFiniteSet({c \in Call : pc[c] # "start"})

\* Every time in the list is that of a message that was queued, and of no other in the list.
TimesOwned ==
    \E own \in Injection(1..Len(peer_send_timestamps), Queued) :
        \A i \in 1..Len(peer_send_timestamps) : at[own[i]] = peer_send_timestamps[i]

LimitInv == LimitTypeOK /\ FewBegun /\ TimesOwned /\ RefusalJustified

LEMMA LimitInit == Init => LimitInv
<1> SUFFICES ASSUME Init PROVE LimitInv OBVIOUS
<1>1. 0 \in Time /\ RATE_LIMIT \in Nat
  BY LimitsAssumption DEF Time
<1>2. LimitTypeOK
  BY <1>1, EmptySeq DEF Init, LimitTypeOK
<1>3. {c \in Call : pc[c] # "start"} = {}
  BY DEF Init
<1>4. FewBegun
  BY <1>3, FS_EmptySet DEF FewBegun
<1>5. TimesOwned
  <2>1. 1..Len(peer_send_timestamps) = {}
    BY EmptySeq DEF Init
  <2>2. PICK own : own = [i \in {} |-> now]
    OBVIOUS
  <2>3. own \in Injection({}, Queued)
    BY <2>2 DEF Injection, IsInjective
  <2> QED BY <2>1, <2>3 DEF TimesOwned
<1>6. RefusalJustified
  BY DEF Init, RefusalJustified
<1> QED BY <1>2, <1>4, <1>5, <1>6 DEF LimitInv

\* What counts in a window when a call is refused goes on to count in it.
LEMMA WindowGrows ==
    ASSUME LimitInv, FewBegun', NEW c \in Call, pc[c] = "limited", at'[c] = at[c],
           \A d \in Queued : pc'[d] = "queued" /\ at'[d] = at[d]
    PROVE  Cardinality(InWindow(c)') >= RATE_LIMIT
<1>1. PICK V, W : V = InWindow(c) /\ W = InWindow(c)'
  OBVIOUS
<1>2. V \subseteq W
  BY <1>1 DEF InWindow, Queued
<1>3. W \subseteq {d \in Call : pc'[d] # "start"}
  BY <1>1 DEF InWindow
<1>4. IsFiniteSet(W)
  BY <1>3, FS_Subset DEF FewBegun
<1>5. Cardinality(V) <= Cardinality(W) /\ Cardinality(W) \in Nat /\ Cardinality(V) \in Nat
  BY <1>2, <1>4, FS_Subset, FS_CardinalityType
<1>6. Cardinality(V) >= RATE_LIMIT
  BY <1>1 DEF LimitInv, RefusalJustified
<1> QED BY <1>1, <1>5, <1>6, LimitsAssumption

LEMMA ReadClockStep ==
    ASSUME LimitInv, NEW c \in Call, ReadClock(c)
    PROVE  LimitInv'
<1>1. /\ LimitTypeOK /\ FewBegun /\ TimesOwned
      /\ pc[c] = "start" /\ pc' = [pc EXCEPT ![c] = "check"]
      /\ at' = [at EXCEPT ![c] = now]
      /\ UNCHANGED <<now, peer_send_timestamps>>
  BY DEF LimitInv, ReadClock
<1>2. LimitTypeOK'
  BY <1>1 DEF LimitTypeOK
<1>3. \A d \in Call \ {c} : pc'[d] = pc[d] /\ at'[d] = at[d]
  BY <1>1 DEF LimitTypeOK
<1>4. FewBegun'
  <2>1. {d \in Call : pc'[d] # "start"} = {d \in Call : pc[d] # "start"} \cup {c}
    BY <1>1 DEF LimitTypeOK
  <2> QED BY <1>1, <2>1, FS_AddElement DEF FewBegun
<1>5. pc'[c] = "check" /\ Queued' = Queued /\ c \notin Queued
  BY <1>1, <1>3 DEF Queued, LimitTypeOK
<1>6. TimesOwned'
  <2>1. PICK own \in Injection(1..Len(peer_send_timestamps), Queued) :
            \A i \in 1..Len(peer_send_timestamps) : at[own[i]] = peer_send_timestamps[i]
    BY <1>1 DEF TimesOwned
  <2>2. \A i \in 1..Len(peer_send_timestamps) : own[i] \in Queued
    BY <2>1 DEF Injection
  <2>3. \A d \in Queued : at'[d] = at[d]
    BY <1>3, <1>5 DEF Queued
  <2> QED BY <1>1, <1>5, <2>1, <2>2, <2>3 DEF TimesOwned
<1>7. RefusalJustified'
  <2>1. ASSUME NEW d \in Call, pc'[d] = "limited"
        PROVE  Cardinality(InWindow(d)') >= RATE_LIMIT
    <3>1. d # c /\ pc[d] = "limited" /\ at'[d] = at[d]
      BY <1>3, <1>5, <2>1
    <3>2. \A e \in Queued : pc'[e] = "queued" /\ at'[e] = at[e]
      BY <1>3, <1>5 DEF Queued
    <3> QED BY <1>4, <3>1, <3>2, WindowGrows
  <2> QED BY <2>1, LimitsAssumption DEF RefusalJustified
<1> QED BY <1>2, <1>4, <1>6, <1>7 DEF LimitInv

\* The times a call keeps are those of messages in its window, no two of the same one.
LEMMA RecentFacts ==
    ASSUME LimitInv, NEW c \in Call, pc[c] = "check"
    PROVE  /\ RecentTimes(c) \in Seq(Time)
           /\ Len(RecentTimes(c)) \in Nat /\ Len(RecentTimes(c)) <= RATE_LIMIT
           /\ \E own \in Injection(1..Len(RecentTimes(c)), Queued) :
                  \A i \in 1..Len(RecentTimes(c)) :
                      /\ at[own[i]] = RecentTimes(c)[i]
                      /\ RecentTimes(c)[i] > at[c] - TIME_WINDOW
<1>1. PICK T : T = {ts \in Time : ts > at[c] - TIME_WINDOW}
  OBVIOUS
<1>2. PICK recent : recent = Kept(peer_send_timestamps, T)
  OBVIOUS
<1>3. RecentTimes(c) = recent
  BY <1>1, <1>2 DEF RecentTimes
<1>4. LimitTypeOK /\ TimesOwned /\ peer_send_timestamps \in Seq(Time)
  BY DEF LimitInv, LimitTypeOK
<1>5. recent \in Seq(Time) /\ Len(recent) <= Len(peer_send_timestamps)
  BY <1>2, <1>4, KeptFacts
<1>6. PICK own \in Injection(1..Len(peer_send_timestamps), Queued) :
          \A i \in 1..Len(peer_send_timestamps) : at[own[i]] = peer_send_timestamps[i]
  BY <1>4 DEF TimesOwned
<1>7. PICK new \in Injection(1..Len(recent), Queued) :
          \A i \in 1..Len(recent) :
              /\ recent[i] \in T
              /\ \E j \in 1..Len(peer_send_timestamps) :
                     new[i] = own[j] /\ recent[i] = peer_send_timestamps[j]
  BY <1>2, <1>4, KeptOwners
<1>8. \A i \in 1..Len(recent) : at[new[i]] = recent[i] /\ recent[i] > at[c] - TIME_WINDOW
  BY <1>1, <1>6, <1>7
<1>9. Len(recent) \in Nat /\ Len(peer_send_timestamps) \in Nat
      /\ Len(peer_send_timestamps) <= RATE_LIMIT
  BY <1>4, <1>5, LenProperties DEF LimitTypeOK
<1> QED BY <1>3, <1>5, <1>7, <1>8, <1>9, LimitsAssumption

LEMMA EnqueueStep ==
    ASSUME LimitInv, NEW c \in Call, Enqueue(c)
    PROVE  LimitInv'
<1>1. PICK recent : recent = RecentTimes(c)
  OBVIOUS
<1>2. /\ LimitTypeOK /\ FewBegun
      /\ pc[c] = "check" /\ pc' = [pc EXCEPT ![c] = "queued"]
      /\ Len(recent) < RATE_LIMIT
      /\ peer_send_timestamps' = Append(recent, at[c])
      /\ UNCHANGED <<now, at>>
  BY <1>1 DEF LimitInv, Enqueue
<1>3. /\ recent \in Seq(Time) /\ Len(recent) \in Nat
      /\ \E own \in Injection(1..Len(recent), Queued) :
             \A i \in 1..Len(recent) : at[own[i]] = recent[i]
  BY <1>1, <1>2, RecentFacts
<1>4. at[c] \in Time
  BY <1>2 DEF LimitTypeOK
<1>5. /\ peer_send_timestamps' \in Seq(Time)
      /\ Len(peer_send_timestamps') = Len(recent) + 1
      /\ \A i \in 1..Len(recent) : peer_send_timestamps'[i] = recent[i]
      /\ peer_send_timestamps'[Len(recent) + 1] = at[c]
  BY <1>2, <1>3, <1>4, AppendFacts
<1>6. LimitTypeOK'
  <2>1. Len(peer_send_timestamps') <= RATE_LIMIT
    BY <1>2, <1>3, <1>5, LimitsAssumption
  <2> QED BY <1>2, <1>4, <1>5, <2>1 DEF LimitTypeOK
<1>7. FewBegun'
  <2>1. {d \in Call : pc'[d] # "start"} = {d \in Call : pc[d] # "start"}
    BY <1>2 DEF LimitTypeOK
  <2> QED BY <1>2, <2>1 DEF FewBegun
<1>8. Queued' = Queued \cup {c} /\ c \notin Queued
  BY <1>2 DEF LimitTypeOK, Queued
<1>9. TimesOwned'
  <2>1. PICK own \in Injection(1..Len(recent), Queued) :
            \A i \in 1..Len(recent) : at[own[i]] = recent[i]
    BY <1>3
  <2>2. PICK new \in Injection(1..(Len(recent) + 1), Queued \cup {c}) :
            new[Len(recent) + 1] = c /\ \A i \in 1..Len(recent) : new[i] = own[i]
    BY <1>3, <1>8, <2>1, NewOwner
  <2>3. \A i \in 1..(Len(recent) + 1) : at'[new[i]] = peer_send_timestamps'[i]
    BY <1>2, <1>3, <1>5, <2>1, <2>2
  <2> QED BY <1>5, <1>8, <2>2, <2>3 DEF TimesOwned
<1>10. RefusalJustified'
  <2>1. ASSUME NEW d \in Call, pc'[d] = "limited"
        PROVE  Cardinality(InWindow(d)') >= RATE_LIMIT
    <3>1. pc[d] = "limited" /\ at'[d] = at[d]
      BY <1>2, <2>1 DEF LimitTypeOK
    <3>2. \A e \in Queued : pc'[e] = "queued" /\ at'[e] = at[e]
      BY <1>2 DEF Queued, LimitTypeOK
    <3> QED BY <1>7, <3>1, <3>2, WindowGrows
  <2> QED BY <2>1, LimitsAssumption DEF RefusalJustified
<1> QED BY <1>6, <1>7, <1>9, <1>10 DEF LimitInv

LEMMA LimitStep ==
    ASSUME LimitInv, NEW c \in Call, Limit(c)
    PROVE  LimitInv'
<1>1. PICK recent : recent = RecentTimes(c)
  OBVIOUS
<1>2. /\ LimitTypeOK /\ FewBegun
      /\ pc[c] = "check" /\ pc' = [pc EXCEPT ![c] = "limited"]
      /\ Len(recent) >= RATE_LIMIT
      /\ peer_send_timestamps' = recent
      /\ UNCHANGED <<now, at>>
  BY <1>1 DEF LimitInv, Limit
<1>3. /\ recent \in Seq(Time) /\ Len(recent) \in Nat /\ Len(recent) <= RATE_LIMIT
      /\ \E own \in Injection(1..Len(recent), Queued) :
             \A i \in 1..Len(recent) :
                 at[own[i]] = recent[i] /\ recent[i] > at[c] - TIME_WINDOW
  BY <1>1, <1>2, RecentFacts
<1>4. LimitTypeOK'
  BY <1>2, <1>3 DEF LimitTypeOK
<1>5. FewBegun'
  <2>1. {d \in Call : pc'[d] # "start"} = {d \in Call : pc[d] # "start"}
    BY <1>2 DEF LimitTypeOK
  <2> QED BY <1>2, <2>1 DEF FewBegun
<1>6. Queued' = Queued
  BY <1>2 DEF LimitTypeOK, Queued
<1>7. PICK own \in Injection(1..Len(recent), Queued) :
          \A i \in 1..Len(recent) :
              at[own[i]] = recent[i] /\ recent[i] > at[c] - TIME_WINDOW
  BY <1>3
<1>8. TimesOwned'
  BY <1>2, <1>6, <1>7 DEF TimesOwned
<1>9. Cardinality(InWindow(c)') >= RATE_LIMIT
  <2>1. PICK W : W = InWindow(c)'
    OBVIOUS
  <2>2. \A i \in 1..Len(recent) : own[i] \in W
    <3>1. \A i \in 1..Len(recent) : own[i] \in Queued
      BY <1>7 DEF Injection
    <3> QED BY <1>2, <1>6, <1>7, <2>1, <3>1 DEF InWindow, Queued
  <2>3. own \in Injection(1..Len(recent), W)
    BY <1>7, <2>2, OwnersAmong
  <2>4. W \subseteq {d \in Call : pc'[d] # "start"}
    BY <2>1 DEF InWindow
  <2>5. IsFiniteSet(W)
    BY <1>5, <2>4, FS_Subset DEF FewBegun
  <2>6. Cardinality(W) \in Nat /\ Len(recent) <= Cardinality(W)
    BY <1>3, <2>3, <2>5, OwnersCounted
  <2> QED BY <1>2, <1>3, <2>1, <2>6, LimitsAssumption
<1>10. RefusalJustified'
  <2>1. ASSUME NEW d \in Call, pc'[d] = "limited"
        PROVE  Cardinality(InWindow(d)') >= RATE_LIMIT
    <3>1. CASE d = c
      BY <1>9, <3>1
    <3>2. CASE d # c
      <4>1. pc[d] = "limited" /\ at'[d] = at[d]
        BY <1>2, <2>1, <3>2 DEF LimitTypeOK
      <4>2. \A e \in Queued : pc'[e] = "queued" /\ at'[e] = at[e]
        BY <1>2 DEF Queued, LimitTypeOK
      <4> QED BY <1>5, <4>1, <4>2, WindowGrows
    <3> QED BY <3>1, <3>2
  <2> QED BY <2>1, LimitsAssumption DEF RefusalJustified
<1> QED BY <1>4, <1>5, <1>8, <1>10 DEF LimitInv

\* The other threads have no part in the limit.
LEMMA OtherStepsKeepLimit ==
    ASSUME LimitInv, UNCHANGED limit, now' \in Time
    PROVE  LimitInv'
<1>1. LimitTypeOK' /\ FewBegun'
  BY DEF LimitInv, LimitTypeOK, FewBegun, limit
<1>2. TimesOwned'
  BY DEF LimitInv, TimesOwned, Queued, limit
<1>3. RefusalJustified'
  BY DEF LimitInv, RefusalJustified, InWindow, limit
<1> QED BY <1>1, <1>2, <1>3 DEF LimitInv

LEMMA LimitInvStep == LimitInv /\ [Next]_vars => LimitInv'
<1> SUFFICES ASSUME LimitInv, [Next]_vars PROVE LimitInv' OBVIOUS
<1>1. now \in Time
  BY DEF LimitInv, LimitTypeOK
<1>2. CASE Tick
  <2>1. now' \in Time
    BY <1>1, <1>2, LimitsAssumption DEF Tick, Time
  <2> QED BY <1>2, <2>1, OtherStepsKeepLimit DEF Tick
<1>3. CASE UNCHANGED <<now, limit>>
  BY <1>1, <1>3, OtherStepsKeepLimit
<1> QED BY <1>2, <1>3, ReadClockStep, EnqueueStep, LimitStep
        DEF Next, vars, Refill, Allow, Deny, SetCapacity, SetRate, Sent, RandomDrop,
            ReadDropCnt, RaiseDropCnt, TestDropCnt, ReadToLower, LowerDropCnt

\* is_rate_limited refuses a message only when as many as the limit allows were queued in the
\* window of its call, whatever the order in which the calls come to the lock.
THEOREM RefusalsAreJustified == Spec => []RefusalJustified
<1>1. LimitInv => RefusalJustified
  BY DEF LimitInv
<1> QED BY <1>1, LimitInit, LimitInvStep, PTL DEF Spec

-----------------------------------------------------------------------------
(* The types. *)

\* The worker holds a message from the moment it asks the bucket.
WorkerOK ==
    /\ worker \in {"idle", "refilled", "allowed", "drop", "raise"}
    /\ queued \in Nat
    /\ worker # "idle" => queued > 0
    /\ last_check \in Time

LEMMA WorkerInit == Init => WorkerOK
BY LimitsAssumption DEF Init, WorkerOK, Time

LEMMA WorkerStep == WorkerOK /\ now \in Time /\ [Next]_vars => WorkerOK'
<1> SUFFICES ASSUME WorkerOK, now \in Time, [Next]_vars PROVE WorkerOK' OBVIOUS
<1>1. CASE UNCHANGED <<worker, queued, last_check>>
  BY <1>1 DEF WorkerOK
<1>2. ASSUME NEW c \in Call, Enqueue(c) PROVE WorkerOK'
  BY <1>2 DEF Enqueue, WorkerOK, bucket
<1>3. CASE Refill \/ Allow \/ Deny
  BY <1>3 DEF Refill, Allow, Deny, WorkerOK
<1>4. CASE Sent \/ RandomDrop \/ ReadDropCnt \/ RaiseDropCnt
  BY <1>4 DEF Sent, RandomDrop, ReadDropCnt, RaiseDropCnt, WorkerOK, bucket
<1> QED BY <1>1, <1>2, <1>3, <1>4
        DEF Next, vars, bucket, Tick, ReadClock, Limit, SetCapacity, SetRate, TestDropCnt,
            ReadToLower, LowerDropCnt

\* The variables keep their types: no counter of messages, drops or tokens falls below zero, and
\* the list of times never exceeds the limit.
THEOREM TypeCorrect == Spec => []TypeOK
<1> DEFINE Inv == LimitInv /\ BucketInv /\ LoweringIsSafe /\ WorkerOK
<1>1. Init => Inv
  BY LimitInit, BucketInit, LoweringInit, WorkerInit
<1>2. Inv /\ [Next]_vars => Inv'
  <2>1. LimitInv => now \in Time
    BY DEF LimitInv, LimitTypeOK
  <2> QED BY <2>1, LimitInvStep, BucketStep, LoweringStep, WorkerStep
<1>3. Inv => TypeOK
  BY DEF LimitInv, LimitTypeOK, BucketInv, BucketTypeOK, LoweringIsSafe, DropsInRange,
         WorkerOK, TypeOK
<1> HIDE DEF Inv
<1> QED BY <1>1, <1>2, <1>3, PTL DEF Spec
=============================================================================
