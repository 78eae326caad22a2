--------------------------- MODULE SequenceFacts ---------------------------
(***************************************************************************)
(* How a sequence and its range change when elements are added at either   *)
(* end or taken from the front, in the form the other proofs use; and      *)
(* induction, in a form that speaks of sets, with what it shows of Kept.   *)
(***************************************************************************)
EXTENDS Lists, Functions, SequenceTheorems, FiniteSetTheorems, TLAPS

\* Appending one element to a sequence: its type, its range, its old and new elements.
LEMMA AppendFacts ==
    ASSUME NEW S, NEW s \in Seq(S), NEW e \in S
    PROVE  /\ Append(s, e) \in Seq(S)
           /\ Len(Append(s, e)) = Len(s) + 1
           /\ Range(Append(s, e)) = Range(s) \cup {e}
           /\ \A i \in 1..Len(s) : Append(s, e)[i] = s[i]
           /\ Append(s, e)[Len(s) + 1] = e
<1>1. /\ Append(s, e) \in Seq(S)
      /\ Len(Append(s, e)) = Len(s) + 1
      /\ \A i \in 1..Len(s) : Append(s, e)[i] = s[i]
      /\ Append(s, e)[Len(s) + 1] = e
  BY AppendProperties
<1>2. DOMAIN s = 1..Len(s) /\ DOMAIN Append(s, e) = 1..(Len(s) + 1) /\ Len(s) \in Nat
  BY <1>1, LenProperties
<1>3. Range(Append(s, e)) = Range(s) \cup {e}
  BY <1>1, <1>2 DEF Range
<1> QED BY <1>1, <1>3

\* Concatenating two sequences: type, range, and where the elements stand.
LEMMA ConcatFacts ==
    ASSUME NEW S, NEW s \in Seq(S), NEW t \in Seq(S)
    PROVE  /\ s \o t \in Seq(S)
           /\ Len(s \o t) = Len(s) + Len(t)
           /\ Range(s \o t) = Range(s) \cup Range(t)
           /\ \A i \in 1..Len(s) : (s \o t)[i] = s[i]
           /\ \A i \in (Len(s) + 1)..(Len(s) + Len(t)) : (s \o t)[i] \in Range(t)
<1>1. /\ s \o t \in Seq(S)
      /\ Len(s \o t) = Len(s) + Len(t)
      /\ \A i \in 1..(Len(s) + Len(t)) :
            (s \o t)[i] = IF i <= Len(s) THEN s[i] ELSE t[i - Len(s)]
  BY ConcatProperties
<1>2. Len(s) \in Nat /\ Len(t) \in Nat /\ DOMAIN t = 1..Len(t) /\ DOMAIN s = 1..Len(s)
  BY LenProperties
<1>3. Range(s \o t) = Range(s) \cup Range(t)
  BY RangeConcatenation
<1>4. \A i \in (Len(s) + 1)..(Len(s) + Len(t)) : (s \o t)[i] \in Range(t)
  BY <1>1, <1>2 DEF Range
<1>5. \A i \in 1..Len(s) : (s \o t)[i] = s[i]
  BY <1>1, <1>2
<1> QED BY <1>1, <1>3, <1>4, <1>5

\* Putting an element before a sequence: type, length, range, elements, head and tail.
LEMMA ConsFacts ==
    ASSUME NEW S, NEW s \in Seq(S), NEW e \in S
    PROVE  /\ <<e>> \o s \in Seq(S)
           /\ Len(<<e>> \o s) = Len(s) + 1
           /\ Range(<<e>> \o s) = Range(s) \cup {e}
           /\ (<<e>> \o s)[1] = e
           /\ \A i \in 1..Len(s) : (<<e>> \o s)[i + 1] = s[i]
           /\ <<e>> \o s # <<>>
           /\ Head(<<e>> \o s) = e
           /\ Tail(<<e>> \o s) = s
<1> DEFINE z == <<e>> \o s
<1>1. <<e>> \in Seq(S) /\ Len(<<e>>) = 1 /\ <<e>>[1] = e
  OBVIOUS
<1>2. Len(s) \in Nat /\ DOMAIN s = 1..Len(s)
  BY LenProperties
<1>3. /\ z \in Seq(S) /\ Len(z) = Len(s) + 1
      /\ \A i \in 1..(1 + Len(s)) : z[i] = IF i <= 1 THEN <<e>>[i] ELSE s[i - 1]
  BY <1>1, <1>2, ConcatProperties
<1> HIDE DEF z
<1>4. z[1] = e /\ \A i \in 1..Len(s) : z[i + 1] = s[i]
  BY <1>1, <1>2, <1>3
<1>5. DOMAIN z = 1..(Len(s) + 1)
  BY <1>3, LenProperties
<1>6. Range(z) = Range(s) \cup {e}
  <2>1. Range(z) = {z[i] : i \in 1..(Len(s) + 1)}
    BY <1>5 DEF Range
  <2>2. Range(s) = {s[i] : i \in 1..Len(s)}
    BY <1>2 DEF Range
  <2>3. ASSUME NEW i \in 1..(Len(s) + 1) PROVE z[i] \in Range(s) \cup {e}
    <3>1. CASE i = 1
      BY <3>1, <1>4
    <3>2. CASE i # 1
      <4>1. i - 1 \in 1..Len(s) /\ (i - 1) + 1 = i
        BY <3>2, <1>2
      <4> QED BY <4>1, <1>4, <2>2
    <3> QED BY <3>1, <3>2
  <2>4. ASSUME NEW i \in 1..Len(s) PROVE s[i] \in Range(z)
    <3>1. i + 1 \in 1..(Len(s) + 1) /\ z[i + 1] = s[i]
      BY <1>2, <1>4
    <3> QED BY <3>1, <2>1
  <2>5. e \in Range(z)
    BY <1>2, <1>4, <2>1
  <2> QED BY <2>1, <2>2, <2>3, <2>4, <2>5
<1>7. z # <<>> /\ Head(z) = e
  BY <1>2, <1>3, <1>4
<1>8. Tail(z) = s
  <2>1. /\ Tail(z) \in Seq(S) /\ Len(Tail(z)) = Len(z) - 1
        /\ \A i \in 1..Len(Tail(z)) : Tail(z)[i] = z[i + 1]
    BY <1>3, <1>7, HeadTailProperties
  <2>2. Len(Tail(z)) = Len(s) /\ \A i \in 1..Len(Tail(z)) : Tail(z)[i] = s[i]
    BY <2>1, <1>2, <1>3, <1>4
  <2> QED BY <2>1, <2>2, SeqEqual
<1> QED BY <1>3, <1>4, <1>6, <1>7, <1>8 DEF z

\* Taking the head off a sequence: types, length, elements, and what was taken apart.
LEMMA PopFacts ==
    ASSUME NEW S, NEW s \in Seq(S), s # <<>>
    PROVE  /\ Head(s) \in S /\ Head(s) = s[1]
           /\ Tail(s) \in Seq(S)
           /\ Len(Tail(s)) = Len(s) - 1 /\ Len(s) >= 1
           /\ \A i \in 1..Len(Tail(s)) : Tail(s)[i] = s[i + 1]
           /\ Range(s) = Range(Tail(s)) \cup {Head(s)}
           /\ <<Head(s)>> \o Tail(s) = s
<1>1. /\ Head(s) \in S /\ Tail(s) \in Seq(S) /\ Len(Tail(s)) = Len(s) - 1
      /\ \A i \in 1..Len(Tail(s)) : Tail(s)[i] = s[i + 1]
  BY HeadTailProperties
<1>2. Head(s) = s[1]
  OBVIOUS
<1>3. Len(s) \in Nat /\ Len(s) >= 1
  BY LenProperties, EmptySeq
<1>4. <<Head(s)>> \o Tail(s) = s
  <2> DEFINE z == <<Head(s)>> \o Tail(s)
  <2>1. /\ z \in Seq(S) /\ Len(z) = Len(Tail(s)) + 1 /\ z[1] = Head(s)
        /\ \A i \in 1..Len(Tail(s)) : z[i + 1] = Tail(s)[i]
    BY <1>1, ConsFacts
  <2> HIDE DEF z
  <2>2. Len(z) = Len(s)
    BY <2>1, <1>1, <1>3
  <2>3. ASSUME NEW i \in 1..Len(z) PROVE z[i] = s[i]
    <3>1. CASE i = 1
      BY <3>1, <2>1, <1>2
    <3>2. CASE i # 1
      <4>1. i - 1 \in 1..Len(Tail(s)) /\ (i - 1) + 1 = i
        BY <3>2, <2>1, <1>1, <1>3
      <4>2. z[(i - 1) + 1] = Tail(s)[i - 1] /\ Tail(s)[i - 1] = s[(i - 1) + 1]
        BY <4>1, <2>1, <1>1
      <4> QED BY <4>1, <4>2
    <3> QED BY <3>1, <3>2
  <2> QED BY <2>1, <2>2, <2>3, SeqEqual DEF z
<1>5. ASSUME NEW t \in Seq(S), NEW e \in S PROVE Range(<<e>> \o t) = Range(t) \cup {e}
  BY ConsFacts
<1>6. Range(s) = Range(Tail(s)) \cup {Head(s)}
  BY <1>1, <1>4, <1>5
<1> QED BY <1>1, <1>2, <1>3, <1>4, <1>6

\* Adding at the two ends of a sequence commutes.
LEMMA ConsAppend ==
    ASSUME NEW S, NEW s \in Seq(S), NEW e \in S, NEW f \in S
    PROVE  <<e>> \o Append(s, f) = Append(<<e>> \o s, f)
<1>1. <<e>> \in Seq(S) /\ <<f>> \in Seq(S)
  OBVIOUS
<1>2. Append(s, f) = s \o <<f>>
  BY AppendIsConcat
<1>3. <<e>> \o s \in Seq(S)
  BY ConsFacts
<1>4. Append(<<e>> \o s, f) = (<<e>> \o s) \o <<f>>
  BY <1>3, AppendIsConcat
<1>5. (<<e>> \o s) \o <<f>> = <<e>> \o (s \o <<f>>)
  BY <1>1, ConcatAssociative
<1> QED BY <1>2, <1>4, <1>5
\* A sequence without repetitions stays so when a new element is added at either end ...
LEMMA AddOnce ==
    ASSUME NEW S, NEW s \in Seq(S), NEW e \in S, IsInjective(s), e \notin Range(s)
    PROVE  IsInjective(Append(s, e)) /\ IsInjective(<<e>> \o s)
<1>1. DOMAIN s = 1..Len(s) /\ Len(s) \in Nat
  BY LenProperties
<1>2. \A i \in 1..Len(s) : s[i] # e
  BY <1>1 DEF Range
<1>3. \A i, j \in 1..Len(s) : s[i] = s[j] => i = j
  BY <1>1 DEF IsInjective
<1>4. IsInjective(Append(s, e))
  <2> DEFINE z == Append(s, e)
  <2>1. /\ z \in Seq(S) /\ Len(z) = Len(s) + 1
        /\ \A i \in 1..Len(s) : z[i] = s[i]
        /\ z[Len(s) + 1] = e
    BY AppendFacts
  <2> HIDE DEF z
  <2>2. DOMAIN z = 1..(Len(s) + 1)
    BY <2>1, LenProperties
  <2>3. \A i, j \in 1..(Len(s) + 1) : z[i] = z[j] => i = j
    BY <1>1, <1>2, <1>3, <2>1
  <2> QED BY <2>2, <2>3 DEF IsInjective, z
<1>5. IsInjective(<<e>> \o s)
  <2> DEFINE z == <<e>> \o s
  <2>1. /\ z \in Seq(S) /\ Len(z) = Len(s) + 1 /\ z[1] = e
        /\ \A i \in 1..Len(s) : z[i + 1] = s[i]
    BY ConsFacts
  <2> HIDE DEF z
  <2>2. DOMAIN z = 1..(Len(s) + 1)
    BY <2>1, LenProperties
  <2>3. \A i \in 1..(Len(s) + 1) : i # 1 => i - 1 \in 1..Len(s) /\ z[i] = s[i - 1]
    <3> TAKE i \in 1..(Len(s) + 1)
    <3> HAVE i # 1
    <3>1. i - 1 \in 1..Len(s) /\ (i - 1) + 1 = i
      BY <1>1
    <3> QED BY <3>1, <2>1
  <2>4. \A i, j \in 1..(Len(s) + 1) : z[i] = z[j] => i = j
    <3> TAKE i, j \in 1..(Len(s) + 1)
    <3> HAVE z[i] = z[j]
    <3>1. CASE i = 1 \/ j = 1
      BY <3>1, <2>1, <2>3, <1>2
    <3>2. CASE i # 1 /\ j # 1
      <4>1. i - 1 \in 1..Len(s) /\ j - 1 \in 1..Len(s) /\ s[i - 1] = s[j - 1]
        BY <3>2, <2>3
      <4>2. i - 1 = j - 1
        BY <4>1, <1>3
      <4> QED BY <4>2
    <3> QED BY <3>1, <3>2
  <2> QED BY <2>2, <2>4 DEF IsInjective, z
<1> QED BY <1>4, <1>5

\* ... and when its head is taken off, which then is no longer in it.
LEMMA PopOnce ==
    ASSUME NEW S, NEW s \in Seq(S), s # <<>>, IsInjective(s)
    PROVE  IsInjective(Tail(s)) /\ Head(s) \notin Range(Tail(s))
<1> DEFINE z == Tail(s)
<1>1. /\ Head(s) = s[1] /\ z \in Seq(S) /\ Len(z) = Len(s) - 1 /\ Len(s) >= 1
      /\ \A i \in 1..Len(z) : z[i] = s[i + 1]
  BY PopFacts
<1> HIDE DEF z
<1>2. DOMAIN s = 1..Len(s) /\ DOMAIN z = 1..Len(z) /\ Len(s) \in Nat
  BY <1>1, LenProperties
<1>3. \A i \in 1..Len(z) : i + 1 \in 1..Len(s) /\ i + 1 # 1 /\ z[i] = s[i + 1]
  BY <1>1, <1>2
<1>4. 1 \in 1..Len(s) /\ \A i, j \in 1..Len(s) : s[i] = s[j] => i = j
  BY <1>1, <1>2 DEF IsInjective
<1>5. \A i, j \in 1..Len(z) : z[i] = z[j] => i + 1 = j + 1
  BY <1>3, <1>4
<1>6. IsInjective(z)
  BY <1>2, <1>5 DEF IsInjective
<1>7. s[1] \notin Range(z)
  BY <1>2, <1>3, <1>4 DEF Range
<1> QED BY <1>1, <1>6, <1>7 DEF z

-----------------------------------------------------------------------------
(* Induction. *)

\* Every set of numbers that is not empty has a least element ...
LEMMA LeastNumber ==
    ASSUME NEW T \in SUBSET Nat, T # {}
    PROVE  \E n \in T : \A m \in T : n <= m
<1>1. IsWellFoundedOn(OpToRel(<, Nat), Nat)
  BY NatLessThanWellFounded
<1>2. PICK R : R = {pair \in Nat \X Nat : pair[1] < pair[2]}
  OBVIOUS
<1>3. IsWellFoundedOn(R, Nat)
  BY <1>1, <1>2 DEF OpToRel
<1>4. PICK n \in T : \A m \in T : ~(<<m, n>> \in R)
  BY <1>3, WFMin
<1>5. \A m \in T : ~(m < n)
  BY <1>2, <1>4
<1>6. n \in Nat /\ \A m \in T : m \in Nat
  OBVIOUS
<1> QED BY <1>5, <1>6

\* ... so what holds of zero and goes from a number to the next one holds of all.
LEMMA Induction ==
    ASSUME NEW T, 0 \in T, \A n \in Nat : n \in T => n + 1 \in T
    PROVE  Nat \subseteq T
<1> SUFFICES ASSUME Nat \ T # {} PROVE FALSE
  OBVIOUS
<1>1. PICK n \in Nat \ T : \A m \in Nat \ T : n <= m
  BY LeastNumber
<1>2. n # 0 /\ n - 1 \in Nat /\ n - 1 \in T
  BY <1>1
<1> QED BY <1>2

\* A function defined by its value at zero and its steps exists.
LEMMA Iteration ==
    ASSUME NEW S, NEW base \in S, NEW N \in Nat, NEW step \in [1..N -> [S -> S]]
    PROVE  \E f \in [0..N -> S] :
               f[0] = base /\ \A i \in 1..N : f[i] = step[i][f[i - 1]]
<1> DEFINE Upto(n, f) ==
        /\ f \in [0..n -> S] /\ f[0] = base
        /\ \A i \in 1..n : f[i] = step[i][f[i - 1]]
           Good == {n \in Nat : n <= N => \E f : Upto(n, f)}
<1>1. 0 \in Good
  <2>1. Upto(0, [i \in 0..0 |-> base])
    OBVIOUS
  <2> QED BY <2>1
<1>2. ASSUME NEW n \in Nat, n \in Good, n + 1 <= N PROVE \E f : Upto(n + 1, f)
  <2>1. PICK f : Upto(n, f)
    BY <1>2
  <2>2. PICK v \in S : v = step[n + 1][f[n]]
    <3>1. f[n] \in S /\ n + 1 \in 1..N
      BY <1>2, <2>1
    <3> QED BY <3>1
  <2>3. PICK g : g = [i \in 0..(n + 1) |-> IF i = n + 1 THEN v ELSE f[i]]
    OBVIOUS
  <2>4. \A i \in 0..n : g[i] = f[i] /\ f[i] \in S
    BY <2>1, <2>3
  <2>5. g \in [0..(n + 1) -> S] /\ g[0] = base /\ g[n + 1] = v
    BY <2>1, <2>3, <2>4
  <2>6. \A i \in 1..(n + 1) : g[i] = step[i][g[i - 1]]
    <3> TAKE i \in 1..(n + 1)
    <3>1. CASE i = n + 1
      BY <3>1, <2>2, <2>4, <2>5
    <3>2. CASE i # n + 1
      <4>1. i \in 1..n /\ i \in 0..n /\ i - 1 \in 0..n
        BY <3>2
      <4> QED BY <4>1, <2>1, <2>4
    <3> QED BY <3>1, <3>2
  <2> QED BY <2>5, <2>6
<1>3. Nat \subseteq Good
  <2> HIDE DEF Upto
  <2>1. \A n \in Nat : n \in Good => n + 1 \in Good
    BY <1>2
  <2> HIDE DEF Good
  <2> QED BY <1>1, <2>1, Induction
<1>4. PICK f : Upto(N, f)
  BY <1>3
<1> QED BY <1>4

\* The steps of Kept.
LEMMA KeptSteps ==
    ASSUME NEW S, NEW s \in Seq(S), NEW T
    PROVE  \E kept :
               /\ Kept(s, T) = kept[Len(s)]
               /\ kept[0] = <<>>
               /\ \A i \in 1..Len(s) :
                      kept[i] = IF s[i] \in T THEN Append(kept[i - 1], s[i]) ELSE kept[i - 1]
<1>1. Len(s) \in Nat /\ \A i \in 1..Len(s) : s[i] \in S
  BY LenProperties, ElementOfSeq
<1>2. PICK N \in Nat : N = Len(s)
  BY <1>1
<1>3. PICK step : step = [i \in 1..N |-> [r \in Seq(S) |->
                             IF s[i] \in T THEN Append(r, s[i]) ELSE r]]
  OBVIOUS
<1>4. step \in [1..N -> [Seq(S) -> Seq(S)]]
  <2>1. \A r \in Seq(S), e \in S : Append(r, e) \in Seq(S)
    BY AppendFacts
  <2> QED BY <1>1, <1>2, <1>3, <2>1
<1>5. PICK f \in [0..N -> Seq(S)] :
          f[0] = <<>> /\ \A i \in 1..N : f[i] = step[i][f[i - 1]]
  <2>1. <<>> \in Seq(S)
    OBVIOUS
  <2>2. PICK V, e : V = Seq(S) /\ e = <<>>
    OBVIOUS
  <2>3. e \in V /\ step \in [1..N -> [V -> V]]
    BY <1>4, <2>1, <2>2
  <2>4. \E f \in [0..N -> V] : f[0] = e /\ \A i \in 1..N : f[i] = step[i][f[i - 1]]
    BY <2>3, Iteration
  <2> QED BY <2>2, <2>4
<1>6. \A i \in 1..N : step[i][f[i - 1]] =
                          IF s[i] \in T THEN Append(f[i - 1], s[i]) ELSE f[i - 1]
  <2> TAKE i \in 1..N
  <2>1. f[i - 1] \in Seq(S)
    BY <1>5
  <2> QED BY <1>3, <2>1
<1>7. f = [i \in 0..N |-> IF i = 0 THEN <<>>
                          ELSE IF s[i] \in T THEN Append(f[i - 1], s[i]) ELSE f[i - 1]]
  <2>1. \A i \in 0..N : f[i] = IF i = 0 THEN <<>>
                          ELSE IF s[i] \in T THEN Append(f[i - 1], s[i]) ELSE f[i - 1]
    <3> TAKE i \in 0..N
    <3>1. i = 0 \/ i \in 1..N
      OBVIOUS
    <3> QED BY <1>5, <1>6, <3>1
  <2>2. f = [i \in 0..N |-> f[i]]
    BY <1>5
  <2> QED BY <2>1, <2>2
<1>8. \E g : /\ g = [i \in 0..Len(s) |-> IF i = 0 THEN <<>>
                          ELSE IF s[i] \in T THEN Append(g[i - 1], s[i]) ELSE g[i - 1]]
             /\ Kept(s, T) = g[Len(s)]
  BY <1>2, <1>7 DEF Kept
<1>9. PICK g : /\ g = [i \in 0..Len(s) |-> IF i = 0 THEN <<>>
                          ELSE IF s[i] \in T THEN Append(g[i - 1], s[i]) ELSE g[i - 1]]
               /\ Kept(s, T) = g[Len(s)]
  BY <1>8
<1>10. \A i \in 0..Len(s) : g[i] = IF i = 0 THEN <<>>
                          ELSE IF s[i] \in T THEN Append(g[i - 1], s[i]) ELSE g[i - 1]
  BY <1>9
<1>11. g[0] = <<>>
  BY <1>1, <1>10
<1>12. \A i \in 1..Len(s) :
           g[i] = IF s[i] \in T THEN Append(g[i - 1], s[i]) ELSE g[i - 1]
  BY <1>1, <1>10
<1> QED BY <1>9, <1>11, <1>12

\* What Kept keeps: the elements that are in the set, as often as they are in the list and in
\* its order; f says where they stood.
LEMMA KeptFacts ==
    ASSUME NEW S, NEW s \in Seq(S), NEW T
    PROVE  /\ Kept(s, T) \in Seq(S)
           /\ Len(Kept(s, T)) <= Len(s)
           /\ Range(Kept(s, T)) = Range(s) \cap T
           /\ \E f \in [1..Len(Kept(s, T)) -> 1..Len(s)] :
                  /\ \A i, j \in 1..Len(Kept(s, T)) : i < j => f[i] < f[j]
                  /\ \A i \in 1..Len(Kept(s, T)) : Kept(s, T)[i] = s[f[i]]
<1>1. PICK kept :
          /\ Kept(s, T) = kept[Len(s)]
          /\ kept[0] = <<>>
          /\ \A i \in 1..Len(s) :
                 kept[i] = IF s[i] \in T THEN Append(kept[i - 1], s[i]) ELSE kept[i - 1]
  BY KeptSteps
<1>2. Len(s) \in Nat /\ DOMAIN s = 1..Len(s) /\ \A i \in 1..Len(s) : s[i] \in S
  BY LenProperties, ElementOfSeq
<1> DEFINE Places(r, n, f) ==
        /\ f \in [1..Len(r) -> 1..n]
        /\ \A i, j \in 1..Len(r) : i < j => f[i] < f[j]
        /\ \A i \in 1..Len(r) : r[i] = s[f[i]]
           Holds(r, n) ==
        /\ r \in Seq(S) /\ Len(r) <= n
        /\ Range(r) = {s[i] : i \in 1..n} \cap T
        /\ \E f : Places(r, n, f)
           Good == {n \in Nat : n <= Len(s) => Holds(kept[n], n)}
<1>3. Holds(<<>>, 0)
  <2>1. <<>> \in Seq(S) /\ Len(<<>>) = 0 /\ Range(<<>>) = {}
    BY EmptySeq DEF Range
  <2>2. Places(<<>>, 0, <<>>)
    OBVIOUS
  <2> HIDE DEF Places
  <2>3. {s[i] : i \in 1..0} = {}
    OBVIOUS
  <2> QED BY <2>1, <2>2, <2>3
<1>4. ASSUME NEW n \in Nat, n + 1 <= Len(s), NEW r, Holds(r, n)
      PROVE  Holds(IF s[n + 1] \in T THEN Append(r, s[n + 1]) ELSE r, n + 1)
  <2>1. n + 1 \in 1..Len(s) /\ s[n + 1] \in S /\ r \in Seq(S) /\ Len(r) \in Nat /\ Len(r) <= n
    BY <1>2, <1>4, LenProperties
  <2>2. {s[i] : i \in 1..(n + 1)} = {s[i] : i \in 1..n} \cup {s[n + 1]}
    BY <1>4
  <2>3. PICK f : Places(r, n, f)
    BY <1>4
  <2>4. CASE s[n + 1] \notin T
    <3>1. Places(r, n + 1, f)
      BY <2>1, <2>3
    <3>2. Range(r) = {s[i] : i \in 1..(n + 1)} \cap T
      BY <1>4, <2>2, <2>4
    <3> HIDE DEF Places
    <3>3. Holds(r, n + 1)
      BY <2>1, <3>1, <3>2
    <3> HIDE DEF Holds
    <3> QED BY <2>4, <3>3
  <2>5. CASE s[n + 1] \in T
    <3>1. PICK q : q = Append(r, s[n + 1])
      OBVIOUS
    <3>2. /\ q \in Seq(S) /\ Len(q) = Len(r) + 1 /\ Range(q) = Range(r) \cup {s[n + 1]}
          /\ \A i \in 1..Len(r) : q[i] = r[i]
          /\ q[Len(r) + 1] = s[n + 1]
      BY <2>1, <3>1, AppendFacts
    <3>3. Range(q) = {s[i] : i \in 1..(n + 1)} \cap T
      BY <1>4, <2>2, <2>5, <3>2
    <3>4. PICK g : g = [i \in 1..(Len(r) + 1) |-> IF i = Len(r) + 1 THEN n + 1 ELSE f[i]]
      OBVIOUS
    <3>5. /\ g[Len(r) + 1] = n + 1
          /\ \A i \in 1..Len(r) : g[i] = f[i] /\ f[i] \in 1..n
      BY <2>1, <2>3, <3>4
    <3>6. \A i \in 1..(Len(r) + 1) : i \in 1..Len(r) \/ i = Len(r) + 1
      BY <2>1
    <3>7. g \in [1..Len(q) -> 1..(n + 1)]
      <4>1. \A i \in 1..(Len(r) + 1) : g[i] \in 1..(n + 1)
        BY <2>1, <3>5, <3>6
      <4> QED BY <3>2, <3>4, <4>1
    <3>8. \A i, j \in 1..Len(q) : i < j => g[i] < g[j]
      <4> TAKE i, j \in 1..Len(q)
      <4> HAVE i < j
      <4>1. i \in 1..Len(r)
        BY <2>1, <3>2
      <4>2. CASE j \in 1..Len(r)
        BY <2>3, <3>5, <4>1, <4>2
      <4>3. CASE j = Len(r) + 1
        BY <3>5, <4>1, <4>3
      <4> QED BY <3>2, <3>6, <4>2, <4>3
    <3>9. \A i \in 1..Len(q) : q[i] = s[g[i]]
      BY <2>3, <3>2, <3>5, <3>6
    <3>10. Places(q, n + 1, g)
      BY <3>7, <3>8, <3>9
    <3> HIDE DEF Places
    <3>11. Holds(q, n + 1)
      BY <2>1, <3>2, <3>3, <3>10
    <3> HIDE DEF Holds
    <3> QED BY <2>5, <3>1, <3>11
  <2> QED BY <2>4, <2>5
<1>5. Nat \subseteq Good
  <2> HIDE DEF Holds
  <2>1. 0 \in Good
    BY <1>1, <1>3
  <2>2. ASSUME NEW n \in Nat, n \in Good PROVE n + 1 \in Good
    <3> SUFFICES ASSUME n + 1 <= Len(s) PROVE Holds(kept[n + 1], n + 1)
      OBVIOUS
    <3>1. n + 1 \in 1..Len(s) /\ (n + 1) - 1 = n /\ Holds(kept[n], n)
      BY <1>2, <2>2
    <3>2. kept[n + 1] = IF s[n + 1] \in T THEN Append(kept[n], s[n + 1]) ELSE kept[n]
      BY <1>1, <3>1
    <3> QED BY <1>4, <3>1, <3>2
  <2> HIDE DEF Good
  <2> QED BY <2>1, <2>2, Induction
<1>6. Holds(Kept(s, T), Len(s))
  <2> HIDE DEF Holds
  <2>1. Len(s) \in Good
    BY <1>2, <1>5
  <2>2. Len(s) <= Len(s)
    BY <1>2
  <2> QED BY <1>1, <2>1, <2>2
<1>7. {s[i] : i \in 1..Len(s)} = Range(s)
  BY <1>2 DEF Range
<1> QED BY <1>6, <1>7

-----------------------------------------------------------------------------
(* Counting: the entries of a list that belong to different owners are no more than those. *)

\* The entries that are kept keep their owners.
LEMMA KeptOwners ==
    ASSUME NEW S, NEW s \in Seq(S), NEW T, NEW C, NEW own \in Injection(1..Len(s), C)
    PROVE  \E new \in Injection(1..Len(Kept(s, T)), C) :
               \A i \in 1..Len(Kept(s, T)) :
                   /\ Kept(s, T)[i] \in T
                   /\ \E j \in 1..Len(s) : new[i] = own[j] /\ Kept(s, T)[i] = s[j]
<1>1. PICK r : r = Kept(s, T)
  OBVIOUS
<1>2. /\ r \in Seq(S) /\ Range(r) = Range(s) \cap T
      /\ \E f \in [1..Len(r) -> 1..Len(s)] :
             /\ \A i, j \in 1..Len(r) : i < j => f[i] < f[j]
             /\ \A i \in 1..Len(r) : r[i] = s[f[i]]
  BY <1>1, KeptFacts
<1>3. PICK f \in [1..Len(r) -> 1..Len(s)] :
          /\ \A i, j \in 1..Len(r) : i < j => f[i] < f[j]
          /\ \A i \in 1..Len(r) : r[i] = s[f[i]]
  BY <1>2
<1>4. Len(s) \in Nat /\ Len(r) \in Nat /\ DOMAIN r = 1..Len(r)
  BY <1>2, LenProperties
<1>5. own \in [1..Len(s) -> C] /\ \A i, j \in 1..Len(s) : own[i] = own[j] => i = j
  BY DEF Injection, IsInjective
<1>6. PICK new : new = [i \in 1..Len(r) |-> own[f[i]]]
  OBVIOUS
<1>7. new \in [1..Len(r) -> C] /\ \A i \in 1..Len(r) : new[i] = own[f[i]] /\ f[i] \in 1..Len(s)
  BY <1>3, <1>5, <1>6
<1>8. \A i, j \in 1..Len(r) : new[i] = new[j] => i = j
  <2> TAKE i, j \in 1..Len(r)
  <2> HAVE new[i] = new[j]
  <2>1. f[i] = f[j] /\ f[i] \in Nat
    BY <1>5, <1>7
  <2>2. ~(i < j) /\ ~(j < i)
    BY <1>3, <2>1
  <2> QED BY <1>4, <2>2
<1>9. new \in Injection(1..Len(r), C)
  BY <1>7, <1>8 DEF Injection, IsInjective
<1>10. \A i \in 1..Len(r) : r[i] \in T
  BY <1>2, <1>4 DEF Range
<1> QED BY <1>1, <1>3, <1>7, <1>9, <1>10

\* A new entry brings a new owner.
LEMMA NewOwner ==
    ASSUME NEW n \in Nat, NEW C, NEW own \in Injection(1..n, C), NEW c, c \notin C
    PROVE  \E new \in Injection(1..(n + 1), C \cup {c}) :
               new[n + 1] = c /\ \A i \in 1..n : new[i] = own[i]
<1>1. own \in [1..n -> C] /\ \A i, j \in 1..n : own[i] = own[j] => i = j
  BY DEF Injection, IsInjective
<1>2. PICK new : new = [i \in 1..(n + 1) |-> IF i = n + 1 THEN c ELSE own[i]]
  OBVIOUS
<1>3. \A i \in 1..(n + 1) : i \in 1..n \/ i = n + 1
  OBVIOUS
<1>4. new[n + 1] = c /\ \A i \in 1..n : new[i] = own[i] /\ own[i] \in C
  BY <1>1, <1>2
<1>5. new \in [1..(n + 1) -> C \cup {c}]
  BY <1>2, <1>3, <1>4
<1>6. \A i, j \in 1..(n + 1) : new[i] = new[j] => i = j
  BY <1>1, <1>3, <1>4
<1>7. new \in Injection(1..(n + 1), C \cup {c})
  BY <1>5, <1>6 DEF Injection, IsInjective
<1> QED BY <1>4, <1>7

\* There are as many owners as entries, or more.
LEMMA OwnersCounted ==
    ASSUME NEW C, IsFiniteSet(C), NEW n \in Nat, NEW own \in Injection(1..n, C)
    PROVE  Cardinality(C) \in Nat /\ n <= Cardinality(C)
<1>1. Cardinality(1..n) <= Cardinality(C)
  BY FS_Injection
<1>2. Cardinality(1..n) = n
  BY FS_Interval
<1>3. Cardinality(C) \in Nat
  BY FS_CardinalityType
<1> QED BY <1>1, <1>2, <1>3

\* An injection may be looked at as one into another set that has its values.
LEMMA OwnersAmong ==
    ASSUME NEW n, NEW C, NEW own \in Injection(1..n, C), NEW D, \A i \in 1..n : own[i] \in D
    PROVE  own \in Injection(1..n, D)
BY DEF Injection, IsInjective
=============================================================================
