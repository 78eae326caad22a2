--------------------------- MODULE DispatchProofs ---------------------------
(***************************************************************************)
(* What the ids that were seen guarantee of the messages that are handled, *)
(* and what the lists of times guarantee of those that are refused, for    *)
(* any number of messages, senders and copies.                             *)
(***************************************************************************)
EXTENDS Dispatch, SequenceFacts

-----------------------------------------------------------------------------
Place == {"start", "limit", "filter", "store", "append", "check",
          "refused", "duplicate", "limited", "handled"}

SeenTypeOK ==
    /\ now \in Nat
    /\ pc \in [Call -> Place]
    /\ seen_message_ids \in [Ids -> Nat \cup {Never}]
    /\ accepted \in [Call -> Nat \cup {Never}]

\* What is accepted is on record, and not later than the record says; what is on record was
\* accepted at that time.  A call that has not begun has accepted nothing.
RecordRight ==
    /\ \A c \in Call : accepted[c] # Never =>
          /\ seen_message_ids[Id[c]] # Never
          /\ accepted[c] <= seen_message_ids[Id[c]]
    /\ \A i \in Ids : seen_message_ids[i] # Never =>
          /\ seen_message_ids[i] <= now
          /\ \E c \in Call : Id[c] = i /\ accepted[c] = seen_message_ids[i]
    /\ \A c \in Call : pc[c] = "start" => accepted[c] = Never

SeenInv == SeenTypeOK /\ RecordRight /\ HandledOnce

LEMMA SeenInvInit == Init => SeenInv
<1> SUFFICES ASSUME Init PROVE SeenInv OBVIOUS
<1>1. SeenTypeOK
  BY DEF Init, SeenTypeOK, Place
<1>2. \A c \in Call : accepted[c] = Never
  BY DEF Init
<1>3. \A i \in Ids : seen_message_ids[i] = Never
  BY DEF Init
<1>4. RecordRight /\ HandledOnce
  BY <1>2, <1>3 DEF RecordRight, HandledOnce
<1> QED BY <1>1, <1>4 DEF SeenInv

\* A step that accepts nothing.
LEMMA OtherStep ==
    ASSUME SeenInv, UNCHANGED <<seen_message_ids, accepted>>, now' \in Nat, now <= now',
           pc' \in [Call -> Place], \A c \in Call : pc'[c] = "start" => pc[c] = "start"
    PROVE  SeenInv'
<1>1. SeenTypeOK /\ RecordRight /\ HandledOnce
  BY DEF SeenInv
<1>2. SeenTypeOK' /\ HandledOnce'
  BY <1>1 DEF SeenTypeOK, HandledOnce
<1>3. RecordRight'
  <2>1. \A i \in Ids : seen_message_ids[i] # Never =>
            seen_message_ids[i] \in Nat /\ seen_message_ids[i] <= now'
    BY <1>1 DEF SeenTypeOK, RecordRight
  <2> QED BY <1>1, <2>1 DEF RecordRight
<1> QED BY <1>2, <1>3 DEF SeenInv

LEMMA AcceptStep ==
    ASSUME SeenInv, NEW c \in Call, Accept(c)
    PROVE  SeenInv'
<1>1. SeenTypeOK /\ RecordRight /\ HandledOnce
  BY DEF SeenInv
<1>2. PICK i \in Ids : i = Id[c]
  BY DEF Ids
<1>3. /\ pc[c] = "start" /\ pc' = [pc EXCEPT ![c] = "limit"] /\ now' = now
      /\ seen_message_ids' = [seen_message_ids EXCEPT ![i] = now]
      /\ accepted' = [accepted EXCEPT ![c] = now]
      /\ ~(seen_message_ids[i] # Never /\ now - seen_message_ids[i] < SEEN_EXPIRY_SECONDS)
  BY <1>2 DEF Accept, Goto, AfterNew, Seen
<1>4. now \in Nat /\ now # Never /\ accepted[c] = Never
  BY <1>1, <1>3, ConstantsAssumption DEF SeenTypeOK, RecordRight
<1>5. /\ seen_message_ids'[i] = now /\ accepted'[c] = now
      /\ \A j \in Ids \ {i} : seen_message_ids'[j] = seen_message_ids[j]
      /\ \A d \in Call \ {c} : accepted'[d] = accepted[d] /\ pc'[d] = pc[d]
      /\ pc'[c] = "limit"
  BY <1>1, <1>3 DEF SeenTypeOK
<1>6. \A d \in Call : Id[d] \in Ids
  BY DEF Ids
<1>7. SeenTypeOK'
  BY <1>1, <1>3, <1>4 DEF SeenTypeOK, Place
<1>8. \A d \in Call : accepted[d] # Never =>
          /\ accepted[d] \in Nat /\ seen_message_ids[Id[d]] \in Nat
          /\ seen_message_ids[Id[d]] # Never
          /\ accepted[d] <= seen_message_ids[Id[d]] /\ seen_message_ids[Id[d]] <= now
  BY <1>1, <1>6 DEF SeenTypeOK, RecordRight
<1>9. RecordRight'
  <2>1. ASSUME NEW d \in Call, accepted'[d] # Never
        PROVE  /\ seen_message_ids'[Id[d]] # Never
               /\ accepted'[d] <= seen_message_ids'[Id[d]]
    <3>1. CASE d = c
      BY <1>2, <1>4, <1>5, <3>1
    <3>2. CASE d # c
      BY <1>4, <1>5, <1>6, <1>8, <2>1, <3>2
    <3> QED BY <3>1, <3>2
  <2>2. ASSUME NEW j \in Ids, seen_message_ids'[j] # Never
        PROVE  /\ seen_message_ids'[j] <= now'
               /\ \E d \in Call : Id[d] = j /\ accepted'[d] = seen_message_ids'[j]
    <3>1. CASE j = i
      BY <1>2, <1>3, <1>4, <1>5, <3>1
    <3>2. CASE j # i
      <4>1. seen_message_ids[j] # Never /\ seen_message_ids'[j] = seen_message_ids[j]
        BY <1>5, <2>2, <3>2
      <4>2. PICK d \in Call : Id[d] = j /\ accepted[d] = seen_message_ids[j]
        BY <1>1, <4>1 DEF RecordRight
      <4>3. d # c
        BY <1>2, <3>2, <4>2
      <4>4. seen_message_ids[j] <= now
        BY <1>1, <4>1 DEF RecordRight
      <4> QED BY <1>3, <1>5, <4>1, <4>2, <4>3, <4>4
    <3> QED BY <3>1, <3>2
  <2>3. \A d \in Call : pc'[d] = "start" => accepted'[d] = Never
    BY <1>1, <1>5 DEF RecordRight
  <2> QED BY <2>1, <2>2, <2>3 DEF RecordRight
<1>10. HandledOnce'
  <2>1. ASSUME NEW d \in Call, d # c, Id[d] = i, accepted[d] # Never
        PROVE  now - accepted[d] >= SEEN_EXPIRY_SECONDS
    <3>1. /\ accepted[d] \in Nat /\ seen_message_ids[i] \in Nat
          /\ accepted[d] <= seen_message_ids[i] /\ seen_message_ids[i] # Never
      BY <1>8, <2>1
    <3>2. now - seen_message_ids[i] >= SEEN_EXPIRY_SECONDS
      BY <1>3, <1>4, <3>1, ConstantsAssumption
    <3> QED BY <1>4, <3>1, <3>2, ConstantsAssumption
  <2>2. ASSUME NEW d \in Call, NEW e \in Call, d # e, Id[d] = Id[e],
               accepted'[d] # Never, accepted'[e] # Never
        PROVE  \/ accepted'[d] - accepted'[e] >= SEEN_EXPIRY_SECONDS
               \/ accepted'[e] - accepted'[d] >= SEEN_EXPIRY_SECONDS
    <3>1. CASE d = c
      BY <1>2, <1>5, <2>1, <2>2, <3>1
    <3>2. CASE e = c
      BY <1>2, <1>5, <2>1, <2>2, <3>2
    <3>3. CASE d # c /\ e # c
      BY <1>1, <1>5, <2>2, <3>3 DEF HandledOnce
    <3> QED BY <3>1, <3>2, <3>3
  <2> QED BY <2>2 DEF HandledOnce
<1> QED BY <1>7, <1>9, <1>10 DEF SeenInv

LEMMA SeenInvStep == SeenInv /\ [Next]_vars => SeenInv'
<1> SUFFICES ASSUME SeenInv, [Next]_vars PROVE SeenInv' OBVIOUS
<1>1. now \in Nat /\ pc \in [Call -> Place]
  BY DEF SeenInv, SeenTypeOK
<1>2. ASSUME NEW c \in Call, NEW from, NEW to \in Place \ {"start"}, Goto(c, from, to),
             UNCHANGED <<now, seen_message_ids, accepted>>
      PROVE  SeenInv'
  <2>1. /\ pc' \in [Call -> Place]
        /\ \A d \in Call : pc'[d] = "start" => pc[d] = "start"
    BY <1>1, <1>2 DEF Goto
  <2> QED BY <1>1, <1>2, <2>1, OtherStep
<1>3. CASE Tick
  BY <1>1, <1>3, OtherStep DEF Tick
<1>4. CASE UNCHANGED vars
  BY <1>1, <1>4, OtherStep DEF vars
<1>5. ASSUME NEW c \in Call, Refuse(c) \/ DropCopy(c) \/ Begin(c) \/ Filter(c) \/ Store(c)
                                 \/ Record(c) \/ Check(c)
      PROVE  SeenInv'
  <2>1. CASE Refuse(c)
    BY <1>2, <2>1 DEF Refuse, Place
  <2>2. CASE DropCopy(c)
    BY <1>2, <2>2 DEF DropCopy, AfterCopy, Place
  <2>3. CASE Begin(c)
    BY <1>2, <2>3 DEF Begin, Place
  <2>4. CASE Filter(c)
    BY <1>2, <2>4 DEF Filter, Place
  <2>5. CASE Store(c)
    BY <1>2, <2>5 DEF Store, Place
  <2>6. CASE Record(c)
    BY <1>2, <2>6 DEF Record, Place
  <2>7. CASE Check(c)
    BY <1>2, <2>7 DEF Check, Place
  <2> QED BY <1>5, <2>1, <2>2, <2>3, <2>4, <2>5, <2>6, <2>7
<1> QED BY <1>3, <1>4, <1>5, AcceptStep DEF Next

LEMMA SeenInvAlways == Spec => []SeenInv
BY SeenInvInit, SeenInvStep, PTL DEF Spec

-----------------------------------------------------------------------------
\* Two messages with one id are handled only if SEEN_EXPIRY_SECONDS lie between them, however
\* their threads, their copies and the expiry of the record interleave (dispatch_message).
THEOREM IdsHandledOnce == Spec => []HandledOnce
<1>1. SeenInv => HandledOnce
  BY DEF SeenInv
<1> QED BY <1>1, SeenInvAlways, PTL

\* A message is dropped as a copy only of one accepted less than SEEN_EXPIRY_SECONDS ago.
THEOREM CopiesOfAccepted == Spec => CopyOfAccepted
<1> DEFINE Copied(c) ==
        \E d \in Call :
            /\ Id[d] = Id[c] /\ accepted[d] # Never
            /\ now - accepted[d] < SEEN_EXPIRY_SECONDS
<1>1. ASSUME SeenInv, [Next]_vars, NEW c \in Call, pc[c] # "duplicate", pc'[c] = "duplicate"
      PROVE  Copied(c)
  <2>1. SeenTypeOK /\ RecordRight
    BY <1>1 DEF SeenInv
  <2>2. ASSUME NEW d \in Call, NEW from, NEW to, Goto(d, from, to), to # "duplicate"
        PROVE  FALSE
    BY <1>1, <2>1, <2>2 DEF Goto, SeenTypeOK
  <2>3. ASSUME NEW d \in Call, Goto(d, "start", "duplicate") PROVE d = c
    BY <1>1, <2>1, <2>3 DEF Goto, SeenTypeOK
  <2>4. DropCopy(c)
    BY <1>1, <2>2, <2>3 DEF Next, vars, Tick, Refuse, DropCopy, Accept, Begin, Filter, Store,
                            Record, Check
  <2>5. PICK i \in Ids : i = Id[c]
    BY DEF Ids
  <2>6. seen_message_ids[i] # Never /\ now - seen_message_ids[i] < SEEN_EXPIRY_SECONDS
    BY <2>4, <2>5 DEF DropCopy, Seen
  <2> QED BY <2>1, <2>5, <2>6 DEF RecordRight
<1>2. SeenInv /\ [Next]_vars =>
          [\A c \in Call : (pc[c] # "duplicate" /\ pc'[c] = "duplicate") => Copied(c)]_vars
  BY <1>1
<1> QED BY <1>2, SeenInvAlways, PTL DEF Spec, CopyOfAccepted

-----------------------------------------------------------------------------
(* The lists of times. *)

\* However many calls there may be, only some have begun.
FewBegun == IsFiniteSet({c \in Call : pc[c] # "start"})

\* What a call has done by the place where it is.
PlacesRight ==
    \A c \in Call :
        /\ pc[c] \in {"start", "limit", "filter", "refused", "duplicate"}
               => timestamps[c] = <<>>
        /\ pc[c] \in {"start", "limit", "filter", "store", "append"} => recorded[c] = Never
        /\ pc[c] \in {"filter", "store", "append", "check", "limited", "handled"}
               => at[c] \in Time /\ at[c] <= now
        /\ source[c] # Never => Sender[source[c]] = Sender[c]
        /\ pc[c] = "append" => peer_inbound_timestamps[Sender[c]] # Never

\* The list that is stored for a sender is that of a call with a message of this sender.
StoredRight ==
    \A s \in Senders : peer_inbound_timestamps[s] # Never =>
        /\ Sender[peer_inbound_timestamps[s]] = s
        /\ pc[peer_inbound_timestamps[s]] \in {"append", "check", "limited", "handled"}

\* Every time in the list of a call is that of a message counted in its window, taken before it
\* was counted, and no two are those of the same message.
OwnsTimes(own, c) ==
    \A i \in 1..Len(timestamps[c]) : timestamps[c][i] <= recorded[own[i]]

ListsOwned ==
    \A c \in Call : \E own \in Injection(1..Len(timestamps[c]), InWindow(c)) : OwnsTimes(own, c)

ListInv ==
    /\ TypeOK /\ FewBegun /\ PlacesRight /\ StoredRight /\ ListsOwned /\ LimitJustified

\* What owns the places of an empty list.
LEMMA EmptyOwned ==
    ASSUME NEW c \in Call, timestamps[c] = <<>>
    PROVE  \E own \in Injection(1..Len(timestamps[c]), InWindow(c)) : OwnsTimes(own, c)
<1>1. 1..Len(timestamps[c]) = {}
  BY EmptySeq
<1>2. PICK own : own = [i \in {} |-> c]
  OBVIOUS
<1>3. own \in Injection({}, InWindow(c))
  BY <1>2 DEF Injection, IsInjective
<1> QED BY <1>1, <1>3 DEF OwnsTimes

LEMMA ListInit == Init => ListInv
<1> SUFFICES ASSUME Init PROVE ListInv OBVIOUS
<1>1. {c \in Call : pc[c] # "start"} = {} /\ {c \in Call : pc[c] = "duplicate"} = {}
  BY DEF Init
<1>2. FewBegun /\ Cardinality({c \in Call : pc[c] = "duplicate"}) = 0
  BY <1>1, FS_EmptySet DEF FewBegun
<1>3. TypeOK
  BY <1>2, ConstantsAssumption, EmptySeq DEF Init, TypeOK, Time
<1>4. PlacesRight /\ LimitJustified
  BY DEF Init, PlacesRight, LimitJustified
<1>5. StoredRight
  BY DEF Init, StoredRight
<1>6. ListsOwned
  BY EmptyOwned DEF Init, ListsOwned
<1> QED BY <1>2, <1>3, <1>4, <1>5, <1>6 DEF ListInv

\* A step of one call.
LEMMA MoveFacts ==
    ASSUME ListInv, NEW c \in Call, NEW from, NEW to \in Place \ {"start"}, Goto(c, from, to)
    PROVE  /\ pc[c] = from /\ pc'[c] = to /\ pc' \in [Call -> Place]
           /\ \A d \in Call \ {c} : pc'[d] = pc[d]
           /\ FewBegun'
<1>1. pc \in [Call -> Place] /\ pc[c] = from /\ pc' = [pc EXCEPT ![c] = to]
  BY DEF ListInv, TypeOK, Goto, Place
<1>2. FewBegun'
  <2>1. PICK A, B : A = {d \in Call : pc[d] # "start"} /\ B = {d \in Call : pc'[d] # "start"}
    OBVIOUS
  <2>2. IsFiniteSet(A \cup {c})
    BY <2>1, FS_AddElement DEF ListInv, FewBegun
  <2>3. B \subseteq A \cup {c}
    BY <1>1, <2>1
  <2>4. IsFiniteSet(B)
    BY <2>2, <2>3, FS_Subset
  <2> QED BY <2>1, <2>4 DEF FewBegun
<1> QED BY <1>1, <1>2

\* The number of copies is what was counted.
LEMMA CopiesCounted ==
    ASSUME ListInv, NEW c \in Call, NEW from, NEW to \in Place \ {"start"}, Goto(c, from, to),
           from # "duplicate",
           message_redundancy' = IF to = "duplicate" THEN message_redundancy + 1
                                                     ELSE message_redundancy
    PROVE  message_redundancy' = Cardinality({d \in Call : pc'[d] = "duplicate"})
<1>1. PICK A, B : /\ A = {d \in Call : pc[d] = "duplicate"}
                  /\ B = {d \in Call : pc'[d] = "duplicate"}
  OBVIOUS
<1>2. pc[c] = from /\ pc'[c] = to /\ \A d \in Call \ {c} : pc'[d] = pc[d]
  BY MoveFacts
<1>3. IsFiniteSet(A)
  <2>1. A \subseteq {d \in Call : pc[d] # "start"}
    BY <1>1
  <2> QED BY <2>1, FS_Subset DEF ListInv, FewBegun
<1>4. c \notin A /\ B = IF to = "duplicate" THEN A \cup {c} ELSE A
  BY <1>1, <1>2
<1>5. Cardinality(A \cup {c}) = Cardinality(A) + 1
  BY <1>3, <1>4, FS_AddElement
<1>6. message_redundancy = Cardinality(A)
  BY <1>1 DEF ListInv, TypeOK
<1> QED BY <1>1, <1>4, <1>5, <1>6

\* What counts in a window goes on to count in it, while its call keeps its time.
LEMMA WindowGrows ==
    ASSUME ListInv, NEW d \in Call, at'[d] = at[d],
           \A e \in Call : recorded[e] # Never => recorded'[e] = recorded[e]
    PROVE  InWindow(d) \subseteq InWindow(d)'
BY DEF InWindow

\* A call that has been refused was refused rightly, also afterwards.
LEMMA StillJustified ==
    ASSUME ListInv, FewBegun', PlacesRight', pc' \in [Call -> Place],
           NEW d \in Call, pc[d] = "limited", at'[d] = at[d],
           \A e \in Call : recorded[e] # Never => recorded'[e] = recorded[e]
    PROVE  Cardinality(InWindow(d)') > INBOUND_RATE_LIMIT
<1>1. PICK V, W : V = InWindow(d) /\ W = InWindow(d)'
  OBVIOUS
<1>2. V \subseteq W
  BY <1>1, WindowGrows
<1>3. W \subseteq {e \in Call : pc'[e] # "start"}
  BY <1>1 DEF InWindow, PlacesRight
<1>4. IsFiniteSet(W)
  BY <1>3, FS_Subset DEF FewBegun
<1>5. Cardinality(V) <= Cardinality(W) /\ Cardinality(W) \in Nat /\ Cardinality(V) \in Nat
  BY <1>2, <1>4, FS_Subset, FS_CardinalityType
<1>6. Cardinality(V) > INBOUND_RATE_LIMIT
  BY <1>1 DEF ListInv, LimitJustified
<1> QED BY <1>1, <1>5, <1>6, ConstantsAssumption

\* A step that changes neither a list nor what is recorded.
LEMMA ListsStay ==
    ASSUME ListInv, UNCHANGED <<timestamps, at, recorded>>
    PROVE  ListsOwned'
BY DEF ListInv, ListsOwned, OwnsTimes, InWindow

-----------------------------------------------------------------------------
(* The steps. *)

\* A call that is refused or dropped, or whose id is accepted.
LEMMA EntranceStep ==
    ASSUME ListInv, NEW c \in Call, Refuse(c) \/ DropCopy(c) \/ Accept(c)
    PROVE  ListInv'
<1>1. PICK to \in {"refused", "duplicate", "limit"} :
          /\ Goto(c, "start", to)
          /\ message_redundancy' = IF to = "duplicate" THEN message_redundancy + 1
                                                       ELSE message_redundancy
  BY DEF Refuse, DropCopy, Accept
<1>2. UNCHANGED <<now, peer_inbound_timestamps, timestamps, at, source, recorded>>
  BY DEF Refuse, DropCopy, Accept
<1>3. to \in Place \ {"start"}
  BY DEF Place
<1>4. /\ pc[c] = "start" /\ pc'[c] = to /\ pc' \in [Call -> Place]
      /\ \A d \in Call \ {c} : pc'[d] = pc[d]
      /\ FewBegun'
  BY <1>1, <1>3, MoveFacts
<1>5. message_redundancy' = Cardinality({d \in Call : pc'[d] = "duplicate"})
  BY <1>1, <1>3, CopiesCounted
<1>6. TypeOK'
  <2>1. /\ seen_message_ids' \in [Ids -> Time \cup {Never}]
        /\ accepted' \in [Call -> Time \cup {Never}]
    <3>1. /\ seen_message_ids \in [Ids -> Time \cup {Never}]
          /\ accepted \in [Call -> Time \cup {Never}] /\ now \in Time
      BY DEF ListInv, TypeOK
    <3>2. CASE Refuse(c)
      BY <3>1, <3>2 DEF Refuse
    <3>3. CASE DropCopy(c)
      BY <3>1, <3>3 DEF DropCopy, AfterCopy
    <3>4. CASE Accept(c)
      BY <3>1, <3>4 DEF Accept, AfterNew
    <3> QED BY <3>2, <3>3, <3>4
  <2> QED BY <1>2, <1>4, <1>5, <2>1 DEF ListInv, TypeOK, Place
<1>7. PlacesRight'
  BY <1>1, <1>2, <1>4 DEF ListInv, PlacesRight
<1>8. StoredRight'
  <2>1. \A s \in Senders : peer_inbound_timestamps[s] \in Call \cup {Never}
    BY DEF ListInv, TypeOK
  <2> QED BY <1>2, <1>4, <2>1 DEF ListInv, StoredRight
<1>9. LimitJustified'
  BY <1>1, <1>2, <1>4, <1>7, StillJustified DEF LimitJustified
<1> QED BY <1>2, <1>4, <1>6, <1>7, <1>8, <1>9, ListsStay DEF ListInv

LEMMA BeginStep ==
    ASSUME ListInv, NEW c \in Call, Begin(c)
    PROVE  ListInv'
<1>1. PICK s \in Senders : s = Sender[c]
  BY DEF Senders
<1>2. /\ Goto(c, "limit", "filter") /\ at' = [at EXCEPT ![c] = now]
      /\ source' = [source EXCEPT ![c] = peer_inbound_timestamps[s]]
      /\ UNCHANGED <<now, seen_message_ids, message_redundancy, peer_inbound_timestamps,
                     timestamps, accepted, recorded>>
  BY <1>1 DEF Begin
<1>3. "filter" \in Place \ {"start"}
  BY DEF Place
<1>4. /\ pc[c] = "limit" /\ pc'[c] = "filter" /\ pc' \in [Call -> Place]
      /\ \A d \in Call \ {c} : pc'[d] = pc[d]
      /\ FewBegun'
  BY <1>2, <1>3, MoveFacts
<1>5. message_redundancy' = Cardinality({d \in Call : pc'[d] = "duplicate"})
  BY <1>2, <1>3, CopiesCounted
<1>6. peer_inbound_timestamps[s] \in Call \cup {Never} /\ now \in Time
  BY DEF ListInv, TypeOK
<1>7. TypeOK'
  BY <1>2, <1>4, <1>5, <1>6 DEF ListInv, TypeOK, Place
<1>8. /\ at'[c] = now /\ source'[c] = peer_inbound_timestamps[s]
      /\ \A d \in Call \ {c} : at'[d] = at[d] /\ source'[d] = source[d]
  BY <1>2 DEF ListInv, TypeOK
<1>9. PlacesRight'
  <2>1. now <= now
    BY <1>6, ConstantsAssumption DEF Time
  <2>2. peer_inbound_timestamps[s] # Never => Sender[peer_inbound_timestamps[s]] = Sender[c]
    BY <1>1 DEF ListInv, StoredRight
  <2> QED BY <1>2, <1>4, <1>6, <1>8, <2>1, <2>2 DEF ListInv, PlacesRight
<1>10. StoredRight'
  <2>1. \A r \in Senders : peer_inbound_timestamps[r] \in Call \cup {Never}
    BY DEF ListInv, TypeOK
  <2> QED BY <1>2, <1>4, <2>1 DEF ListInv, StoredRight
<1>11. ListsOwned'
  <2>1. ASSUME NEW d \in Call
        PROVE  \E own \in Injection(1..Len(timestamps'[d]), InWindow(d)') : OwnsTimes(own, d)'
    <3>1. CASE d = c
      <4>1. timestamps'[c] = <<>>
        BY <1>4, <1>9 DEF PlacesRight
      <4>2. 1..Len(timestamps'[c]) = {}
        BY <4>1, EmptySeq
      <4>3. PICK own : own = [i \in {} |-> c]
        OBVIOUS
      <4>4. own \in Injection({}, InWindow(c)')
        BY <4>3 DEF Injection, IsInjective
      <4> QED BY <3>1, <4>2, <4>4 DEF OwnsTimes
    <3>2. CASE d # c
      <4>1. at'[d] = at[d]
        BY <1>8, <3>2
      <4>2. InWindow(d)' = InWindow(d)
        BY <1>2, <4>1 DEF InWindow
      <4>3. PICK own \in Injection(1..Len(timestamps[d]), InWindow(d)) : OwnsTimes(own, d)
        BY DEF ListInv, ListsOwned
      <4>4. OwnsTimes(own, d)'
        BY <1>2, <4>3 DEF OwnsTimes
      <4> QED BY <1>2, <4>2, <4>3, <4>4
    <3> QED BY <3>1, <3>2
  <2> QED BY <2>1 DEF ListsOwned
<1>12. LimitJustified'
  BY <1>2, <1>4, <1>8, <1>9, StillJustified DEF LimitJustified
<1> QED BY <1>4, <1>7, <1>9, <1>10, <1>11, <1>12 DEF ListInv

\* A copy of the stored list keeps the times in the window, and with each its message.
LEMMA CopyOwned ==
    ASSUME ListInv, NEW c \in Call, pc[c] = "filter", source[c] # Never
    PROVE  /\ RecentTimes(c) \in Seq(Time)
           /\ \E own \in Injection(1..Len(RecentTimes(c)), InWindow(c)) :
                  \A i \in 1..Len(RecentTimes(c)) : RecentTimes(c)[i] <= recorded[own[i]]
<1>1. PICK T : T = {ts \in Time : ts > at[c] - INBOUND_TIME_WINDOW}
  OBVIOUS
<1>2. PICK b \in Call : b = source[c]
  BY DEF ListInv, TypeOK
<1>3. PICK recent, list : list = timestamps[b] /\ recent = Kept(list, T)
  OBVIOUS
<1>4. RecentTimes(c) = recent
  BY <1>1, <1>2, <1>3 DEF RecentTimes
<1>5. list \in Seq(Time)
  BY <1>3 DEF ListInv, TypeOK
<1>6. recent \in Seq(Time)
  BY <1>3, <1>5, KeptFacts
<1>7. PICK own \in Injection(1..Len(list), InWindow(b)) : OwnsTimes(own, b)
  BY <1>3 DEF ListInv, ListsOwned
<1>8. PICK new \in Injection(1..Len(recent), InWindow(b)) :
          \A i \in 1..Len(recent) :
              /\ recent[i] \in T
              /\ \E j \in 1..Len(list) : new[i] = own[j] /\ recent[i] = list[j]
  BY <1>3, <1>5, <1>7, KeptOwners
<1>9. \A i \in 1..Len(recent) : recent[i] <= recorded[new[i]]
  BY <1>3, <1>7, <1>8 DEF OwnsTimes
<1>10. \A i \in 1..Len(recent) : new[i] \in InWindow(b)
  BY <1>8 DEF Injection
<1>11. \A i \in 1..Len(recent) : new[i] \in InWindow(c)
  <2> SUFFICES ASSUME NEW i \in 1..Len(recent) PROVE new[i] \in InWindow(c)
    OBVIOUS
  <2>1. /\ new[i] \in Call /\ Sender[new[i]] = Sender[b] /\ recorded[new[i]] # Never
    BY <1>10 DEF InWindow
  <2>2. Sender[b] = Sender[c] /\ at[c] \in Time
    BY <1>2 DEF ListInv, PlacesRight
  <2>3. recent[i] \in Time /\ recent[i] > at[c] - INBOUND_TIME_WINDOW
    BY <1>1, <1>8
  <2>4. recorded[new[i]] \in Time
    BY <2>1 DEF ListInv, TypeOK
  <2>5. recorded[new[i]] > at[c] - INBOUND_TIME_WINDOW
    BY <1>9, <2>2, <2>3, <2>4, ConstantsAssumption DEF Time
  <2> QED BY <2>1, <2>2, <2>5 DEF InWindow
<1>12. new \in Injection(1..Len(recent), InWindow(c))
  BY <1>8, <1>11, OwnersAmong
<1> QED BY <1>4, <1>6, <1>9, <1>12

LEMMA FilterStep ==
    ASSUME ListInv, NEW c \in Call, Filter(c)
    PROVE  ListInv'
<1>1. PICK copy : copy = IF source[c] = Never THEN <<>> ELSE RecentTimes(c)
  OBVIOUS
<1>2. /\ Goto(c, "filter", "store")
      /\ timestamps' = [timestamps EXCEPT ![c] = copy]
      /\ source' = [source EXCEPT ![c] = Never]
      /\ UNCHANGED <<now, seen_message_ids, message_redundancy, peer_inbound_timestamps,
                     at, accepted, recorded>>
  BY <1>1 DEF Filter
<1>3. "store" \in Place \ {"start"}
  BY DEF Place
<1>4. /\ pc[c] = "filter" /\ pc'[c] = "store" /\ pc' \in [Call -> Place]
      /\ \A d \in Call \ {c} : pc'[d] = pc[d]
      /\ FewBegun'
  BY <1>2, <1>3, MoveFacts
<1>5. message_redundancy' = Cardinality({d \in Call : pc'[d] = "duplicate"})
  BY <1>2, <1>3, CopiesCounted
<1>6. copy \in Seq(Time)
  BY <1>1, <1>4, CopyOwned, EmptySeq
<1>7. TypeOK'
  BY <1>2, <1>4, <1>5, <1>6 DEF ListInv, TypeOK, Place
<1>8. /\ timestamps'[c] = copy /\ source'[c] = Never
      /\ \A d \in Call \ {c} : timestamps'[d] = timestamps[d] /\ source'[d] = source[d]
  BY <1>2 DEF ListInv, TypeOK
<1>9. PlacesRight'
  BY <1>2, <1>4, <1>8 DEF ListInv, PlacesRight
<1>10. StoredRight'
  <2>1. \A r \in Senders : peer_inbound_timestamps[r] \in Call \cup {Never}
    BY DEF ListInv, TypeOK
  <2> QED BY <1>2, <1>4, <2>1 DEF ListInv, StoredRight
<1>11. ListsOwned'
  <2>1. ASSUME NEW d \in Call
        PROVE  \E own \in Injection(1..Len(timestamps'[d]), InWindow(d)') : OwnsTimes(own, d)'
    <3>1. InWindow(d)' = InWindow(d)
      BY <1>2 DEF InWindow
    <3>2. CASE d = c /\ source[c] = Never
      <4>1. timestamps'[c] = <<>>
        BY <1>1, <1>8, <3>2
      <4>2. 1..Len(timestamps'[c]) = {}
        BY <4>1, EmptySeq
      <4>3. PICK own : own = [i \in {} |-> c]
        OBVIOUS
      <4>4. own \in Injection({}, InWindow(c)')
        BY <4>3 DEF Injection, IsInjective
      <4> QED BY <3>2, <4>2, <4>4 DEF OwnsTimes
    <3>3. CASE d = c /\ source[c] # Never
      <4>1. timestamps'[c] = RecentTimes(c)
        BY <1>1, <1>8, <3>3
      <4>2. PICK own \in Injection(1..Len(timestamps'[c]), InWindow(c)) :
                \A i \in 1..Len(timestamps'[c]) : timestamps'[c][i] <= recorded[own[i]]
        BY <1>4, <3>3, <4>1, CopyOwned
      <4>3. OwnsTimes(own, c)'
        BY <1>2, <4>2 DEF OwnsTimes
      <4> QED BY <3>1, <3>3, <4>2, <4>3
    <3>4. CASE d # c
      <4>1. PICK own \in Injection(1..Len(timestamps[d]), InWindow(d)) : OwnsTimes(own, d)
        BY DEF ListInv, ListsOwned
      <4>2. OwnsTimes(own, d)'
        BY <1>2, <1>8, <3>4, <4>1 DEF OwnsTimes
      <4> QED BY <1>8, <3>1, <3>4, <4>1, <4>2
    <3> QED BY <3>2, <3>3, <3>4
  <2> QED BY <2>1 DEF ListsOwned
<1>12. LimitJustified'
  BY <1>2, <1>4, <1>9, StillJustified DEF LimitJustified
<1> QED BY <1>4, <1>7, <1>9, <1>10, <1>11, <1>12 DEF ListInv

LEMMA StoreStep ==
    ASSUME ListInv, NEW c \in Call, Store(c)
    PROVE  ListInv'
<1>1. PICK s \in Senders : s = Sender[c]
  BY DEF Senders
<1>2. /\ Goto(c, "store", "append")
      /\ peer_inbound_timestamps' = [peer_inbound_timestamps EXCEPT ![s] = c]
      /\ UNCHANGED <<now, seen_message_ids, message_redundancy, timestamps, at, source,
                     accepted, recorded>>
  BY <1>1 DEF Store
<1>3. "append" \in Place \ {"start"}
  BY DEF Place
<1>4. /\ pc[c] = "store" /\ pc'[c] = "append" /\ pc' \in [Call -> Place]
      /\ \A d \in Call \ {c} : pc'[d] = pc[d]
      /\ FewBegun'
  BY <1>2, <1>3, MoveFacts
<1>5. message_redundancy' = Cardinality({d \in Call : pc'[d] = "duplicate"})
  BY <1>2, <1>3, CopiesCounted
<1>6. TypeOK'
  BY <1>2, <1>4, <1>5 DEF ListInv, TypeOK, Place
<1>7. /\ peer_inbound_timestamps'[s] = c
      /\ \A r \in Senders \ {s} : peer_inbound_timestamps'[r] = peer_inbound_timestamps[r]
  BY <1>2 DEF ListInv, TypeOK
<1>8. PlacesRight'
  <2>1. \A d \in Call : Sender[d] \in Senders
    BY DEF Senders
  <2>2. c # Never
    BY ConstantsAssumption
  <2>3. \A d \in Call : peer_inbound_timestamps[Sender[d]] # Never =>
            peer_inbound_timestamps'[Sender[d]] # Never
    BY <1>7, <2>1, <2>2
  <2>4. peer_inbound_timestamps'[Sender[c]] # Never
    BY <1>1, <1>7, <2>2
  <2> QED BY <1>2, <1>4, <2>3, <2>4 DEF ListInv, PlacesRight
<1>9. StoredRight'
  <2>1. \A r \in Senders : peer_inbound_timestamps[r] \in Call \cup {Never}
    BY DEF ListInv, TypeOK
  <2> QED BY <1>1, <1>4, <1>7, <2>1 DEF ListInv, StoredRight
<1>10. LimitJustified'
  BY <1>2, <1>4, <1>8, StillJustified DEF LimitJustified
<1> QED BY <1>2, <1>4, <1>6, <1>8, <1>9, <1>10, ListsStay DEF ListInv

\* The time of c goes to the list of d, who counts the message from now on.
LEMMA RecordStep ==
    ASSUME ListInv, NEW c \in Call, Record(c)
    PROVE  ListInv'
<1>1. PICK s \in Senders : s = Sender[c]
  BY DEF Senders
<1>2. PICK d : d = peer_inbound_timestamps[s]
  OBVIOUS
<1>3. /\ Goto(c, "append", "check")
      /\ timestamps' = [timestamps EXCEPT ![d] = Append(timestamps[d], at[c])]
      /\ recorded' = [recorded EXCEPT ![c] = now]
      /\ UNCHANGED <<now, seen_message_ids, message_redundancy, peer_inbound_timestamps,
                     at, source, accepted>>
  BY <1>1, <1>2 DEF Record, Stamp
<1>4. "check" \in Place \ {"start"}
  BY DEF Place
<1>5. /\ pc[c] = "append" /\ pc'[c] = "check" /\ pc' \in [Call -> Place]
      /\ \A e \in Call \ {c} : pc'[e] = pc[e]
      /\ FewBegun'
  BY <1>3, <1>4, MoveFacts
<1>6. message_redundancy' = Cardinality({e \in Call : pc'[e] = "duplicate"})
  BY <1>3, <1>4, CopiesCounted
<1>7. d # Never
  BY <1>1, <1>2, <1>5 DEF ListInv, PlacesRight
<1>8. d \in Call
  BY <1>2, <1>7 DEF ListInv, TypeOK
<1>9. Sender[d] = Sender[c] /\ pc[d] \in {"append", "check", "limited", "handled"}
  BY <1>1, <1>2, <1>7 DEF ListInv, StoredRight
<1>10. /\ at[c] \in Time /\ at[c] <= now /\ recorded[c] = Never
       /\ at[d] \in Time /\ at[d] <= now /\ now \in Time
  BY <1>5, <1>8, <1>9 DEF ListInv, PlacesRight, TypeOK
<1>11. timestamps[d] \in Seq(Time)
  BY <1>8 DEF ListInv, TypeOK
<1>12. PICK list : list = Append(timestamps[d], at[c])
  OBVIOUS
<1>13. /\ list \in Seq(Time) /\ Len(list) = Len(timestamps[d]) + 1
       /\ \A i \in 1..Len(timestamps[d]) : list[i] = timestamps[d][i]
       /\ list[Len(timestamps[d]) + 1] = at[c]
       /\ Len(timestamps[d]) \in Nat
  BY <1>10, <1>11, <1>12, AppendFacts, LenProperties
<1>14. /\ timestamps'[d] = list
       /\ \A e \in Call \ {d} : timestamps'[e] = timestamps[e]
       /\ recorded'[c] = now
       /\ \A e \in Call \ {c} : recorded'[e] = recorded[e]
  BY <1>3, <1>8, <1>12 DEF ListInv, TypeOK
<1>15. TypeOK'
  <2>1. timestamps' \in [Call -> Seq(Time)]
    BY <1>3, <1>8, <1>12, <1>13 DEF ListInv, TypeOK
  <2>2. recorded' \in [Call -> Time \cup {Never}]
    BY <1>3, <1>10 DEF ListInv, TypeOK
  <2> QED BY <1>3, <1>5, <1>6, <2>1, <2>2 DEF ListInv, TypeOK, Place
<1>16. PlacesRight'
  <2>1. pc'[d] \in {"append", "check", "limited", "handled"}
    BY <1>5, <1>8, <1>9
  <2> QED BY <1>3, <1>5, <1>14, <2>1 DEF ListInv, PlacesRight
<1>17. StoredRight'
  <2>1. \A r \in Senders : peer_inbound_timestamps[r] \in Call \cup {Never}
    BY DEF ListInv, TypeOK
  <2> QED BY <1>3, <1>5, <2>1 DEF ListInv, StoredRight
<1>18. \A e \in Call : recorded[e] # Never => recorded'[e] = recorded[e]
  BY <1>10, <1>14
<1>19. \A e \in Call : InWindow(e) \subseteq InWindow(e)'
  BY <1>3, <1>18, WindowGrows
<1>20. ListsOwned'
  <2>1. ASSUME NEW e \in Call, e # d
        PROVE  \E own \in Injection(1..Len(timestamps'[e]), InWindow(e)') : OwnsTimes(own, e)'
    <3>1. PICK own \in Injection(1..Len(timestamps[e]), InWindow(e)) : OwnsTimes(own, e)
      BY DEF ListInv, ListsOwned
    <3>2. \A i \in 1..Len(timestamps[e]) : own[i] \in InWindow(e)
      BY <3>1 DEF Injection
    <3>3. own \in Injection(1..Len(timestamps[e]), InWindow(e)')
      BY <1>19, <3>1, <3>2, OwnersAmong
    <3>4. OwnsTimes(own, e)'
      BY <1>14, <1>18, <2>1, <3>1, <3>2 DEF OwnsTimes, InWindow
    <3> QED BY <1>14, <2>1, <3>3, <3>4
  <2>2. \E own \in Injection(1..Len(timestamps'[d]), InWindow(d)') : OwnsTimes(own, d)'
    <3>1. PICK n \in Nat : n = Len(timestamps[d])
      BY <1>13
    <3>2. PICK W : W = InWindow(d)
      OBVIOUS
    <3>3. PICK own \in Injection(1..n, W) : OwnsTimes(own, d)
      BY <1>8, <3>1, <3>2 DEF ListInv, ListsOwned
    <3>4. PICK new \in Injection(1..(n + 1), W \cup {c}) :
              new[n + 1] = c /\ \A i \in 1..n : new[i] = own[i]
      <4>1. c \notin W
        BY <1>10, <3>2 DEF InWindow
      <4> QED BY ONLY <3>1, <3>3, <4>1, NewOwner, SMTT(30)
    <3>5. c \in InWindow(d)'
      <4>1. now # Never /\ now > at[d] - INBOUND_TIME_WINDOW
        BY <1>10, ConstantsAssumption DEF Time
      <4> QED BY <1>3, <1>9, <1>14, <4>1 DEF InWindow
    <3>6. \A i \in 1..(n + 1) : new[i] \in InWindow(d)'
      BY <1>8, <1>19, <3>2, <3>4, <3>5 DEF Injection
    <3>7. new \in Injection(1..(n + 1), InWindow(d)')
      BY <3>4, <3>6, OwnersAmong
    <3>8. \A i \in 1..n : own[i] \in InWindow(d)
      BY <3>2, <3>3 DEF Injection
    <3>9. \A i \in 1..n : recorded'[own[i]] = recorded[own[i]]
      BY <1>18, <3>8 DEF InWindow
    <3>10. \A i \in 1..n : timestamps'[d][i] <= recorded'[new[i]]
      BY <1>13, <1>14, <3>1, <3>3, <3>4, <3>9 DEF OwnsTimes
    <3>11. timestamps'[d][n + 1] <= recorded'[new[n + 1]]
      BY <1>10, <1>13, <1>14, <3>1, <3>4
    <3>12. Len(timestamps'[d]) = n + 1
      BY <1>13, <1>14, <3>1
    <3>13. \A i \in 1..(n + 1) : i \in 1..n \/ i = n + 1
      BY <3>1
    <3>14. OwnsTimes(new, d)'
      BY <3>10, <3>11, <3>12, <3>13 DEF OwnsTimes
    <3> QED BY <3>7, <3>12, <3>14
  <2> QED BY <2>1, <2>2 DEF ListsOwned
<1>21. LimitJustified'
  BY <1>3, <1>5, <1>16, <1>18, StillJustified DEF LimitJustified
<1> QED BY <1>5, <1>15, <1>16, <1>17, <1>20, <1>21 DEF ListInv

LEMMA CheckStep ==
    ASSUME ListInv, NEW c \in Call, Check(c)
    PROVE  ListInv'
<1>1. PICK to \in {"limited", "handled"} :
          Goto(c, "check", to) /\ (to = "limited" <=> Limited(c))
  BY DEF Check
<1>2. UNCHANGED <<now, seen_message_ids, message_redundancy, peer_inbound_timestamps,
                  timestamps, at, source, accepted, recorded>>
  BY DEF Check
<1>3. to \in Place \ {"start"}
  BY DEF Place
<1>4. /\ pc[c] = "check" /\ pc'[c] = to /\ pc' \in [Call -> Place]
      /\ \A d \in Call \ {c} : pc'[d] = pc[d]
      /\ FewBegun'
  BY <1>1, <1>3, MoveFacts
<1>5. message_redundancy' = Cardinality({d \in Call : pc'[d] = "duplicate"})
  BY <1>1, <1>2, <1>3, CopiesCounted
<1>6. TypeOK'
  BY <1>2, <1>4, <1>5 DEF ListInv, TypeOK, Place
<1>7. PlacesRight'
  BY <1>1, <1>2, <1>4 DEF ListInv, PlacesRight
<1>8. StoredRight'
  <2>1. \A r \in Senders : peer_inbound_timestamps[r] \in Call \cup {Never}
    BY DEF ListInv, TypeOK
  <2> QED BY <1>1, <1>2, <1>4, <2>1 DEF ListInv, StoredRight
<1>9. LimitJustified'
  <2>1. ASSUME to = "limited" PROVE Cardinality(InWindow(c)') > INBOUND_RATE_LIMIT
    <3>1. PICK W : W = InWindow(c)
      OBVIOUS
    <3>2. InWindow(c)' = W
      BY <1>2, <3>1 DEF InWindow
    <3>3. PICK n \in Nat : n = Len(timestamps[c])
      BY LenProperties DEF ListInv, TypeOK
    <3>4. PICK own : own \in Injection(1..n, W)
      BY <3>1, <3>3 DEF ListInv, ListsOwned
    <3>5. W \subseteq {e \in Call : pc[e] # "start"}
      BY <3>1 DEF InWindow, ListInv, PlacesRight
    <3>6. IsFiniteSet(W)
      BY <3>5, FS_Subset DEF ListInv, FewBegun
    <3>7. Cardinality(W) \in Nat /\ n <= Cardinality(W)
      BY <3>4, <3>6, OwnersCounted
    <3>8. n > INBOUND_RATE_LIMIT
      BY <1>1, <2>1, <3>3 DEF Limited
    <3> QED BY <3>2, <3>3, <3>7, <3>8, ConstantsAssumption
  <2>2. ASSUME NEW d \in Call, d # c, pc'[d] = "limited"
        PROVE  Cardinality(InWindow(d)') > INBOUND_RATE_LIMIT
    BY <1>2, <1>4, <1>7, <2>2, StillJustified
  <2> QED BY <1>4, <2>1, <2>2 DEF LimitJustified
<1> QED BY <1>2, <1>4, <1>6, <1>7, <1>8, <1>9, ListsStay DEF ListInv

LEMMA ClockStep ==
    ASSUME ListInv, Tick \/ UNCHANGED vars
    PROVE  ListInv'
<1>1. /\ now' \in Time /\ now <= now'
      /\ UNCHANGED <<pc, seen_message_ids, message_redundancy, peer_inbound_timestamps,
                     timestamps, at, source, accepted, recorded>>
  BY ConstantsAssumption DEF Tick, vars, ListInv, TypeOK, Time
<1>2. now \in Time
  BY DEF ListInv, TypeOK
<1>3. TypeOK' /\ FewBegun' /\ StoredRight'
  BY <1>1 DEF ListInv, TypeOK, FewBegun, StoredRight
<1>4. PlacesRight'
  <2>1. \A d \in Call : at[d] \in Time /\ at[d] <= now => at[d] <= now'
    BY <1>1, <1>2, ConstantsAssumption DEF Time
  <2> QED BY <1>1, <2>1 DEF ListInv, PlacesRight
<1>5. LimitJustified'
  BY <1>1 DEF ListInv, LimitJustified, InWindow
<1> QED BY <1>1, <1>3, <1>4, <1>5, ListsStay DEF ListInv

LEMMA ListInvStep == ListInv /\ [Next]_vars => ListInv'
BY ClockStep, EntranceStep, BeginStep, FilterStep, StoreStep, RecordStep, CheckStep DEF Next

LEMMA ListInvAlways == Spec => []ListInv
BY ListInit, ListInvStep, PTL DEF Spec

\* is_inbound_limited drops a message only when more than the limit were counted of its sender
\* in the window of the call, however the calls overwrite and share the lists.
THEOREM LimitIsJustified == Spec => []LimitJustified
<1>1. ListInv => LimitJustified
  BY DEF ListInv
<1> QED BY <1>1, ListInvAlways, PTL

\* The variables keep their types, and message_redundancy counts the messages dropped as copies.
THEOREM TypeCorrect == Spec => []TypeOK
<1>1. ListInv => TypeOK
  BY DEF ListInv
<1> QED BY <1>1, ListInvAlways, PTL
=============================================================================
