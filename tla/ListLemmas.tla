----------------------------- MODULE ListLemmas -----------------------------
(***************************************************************************)
(* What list::erase, list::push_back and a store through an iterator do to *)
(* a list, as facts about sequences.                                       *)
(***************************************************************************)
EXTENDS Integers, Sequences, SequencesExt, SequenceTheorems,
        WellFoundedInduction, FiniteSetTheorems, FunctionTheorems, TLAPS

(* erase(i): the elements behind position i move up by one. *)
LEMMA RemoveAtElements ==
  ASSUME NEW S, NEW s \in Seq(S), NEW i \in 1..Len(s)
  PROVE  /\ RemoveAt(s, i) \in Seq(S)
         /\ Len(RemoveAt(s, i)) = Len(s) - 1
         /\ \A j \in 1..(Len(s) - 1) :
              RemoveAt(s, i)[j] = IF j < i THEN s[j] ELSE s[j + 1]
<1> DEFINE front == SubSeq(s, 1, i - 1)
           back  == SubSeq(s, i + 1, Len(s))
<1>1. Len(s) \in Nat /\ \A j \in 1..Len(s) : s[j] \in S
  BY LenProperties, ElementOfSeq
<1>2. /\ front \in Seq(S)
      /\ Len(front) = i - 1
      /\ \A j \in 1..(i - 1) : front[j] = s[j]
  <2>1. i - 1 \in Int /\ \A j \in 1..(i - 1) : s[j] \in S
    BY <1>1
  <2> HIDE DEF front
  <2>2. /\ front \in Seq(S)
        /\ Len(front) = IF 1 <= i - 1 THEN i - 1 - 1 + 1 ELSE 0
        /\ \A j \in 1..(i - 1 - 1 + 1) : front[j] = s[1 + j - 1]
    BY <2>1, SubSeqProperties DEF front
  <2>3. QED
    BY <2>2, <1>1
<1>3. /\ back \in Seq(S)
      /\ Len(back) = Len(s) - i
      /\ \A j \in 1..(Len(s) - i) : back[j] = s[i + j]
  <2>1. i + 1 \in Int /\ Len(s) \in Int /\ \A j \in (i + 1)..Len(s) : s[j] \in S
    BY <1>1
  <2> HIDE DEF back
  <2>2. /\ back \in Seq(S)
        /\ Len(back) = IF i + 1 <= Len(s) THEN Len(s) - (i + 1) + 1 ELSE 0
        /\ \A j \in 1..(Len(s) - (i + 1) + 1) : back[j] = s[(i + 1) + j - 1]
    BY <2>1, SubSeqProperties DEF back
  <2>3. QED
    BY <2>2, <1>1
<1>4. RemoveAt(s, i) = front \o back
  BY DEF RemoveAt
<1> HIDE DEF front, back
<1>5. /\ front \o back \in Seq(S)
      /\ Len(front \o back) = Len(front) + Len(back)
      /\ \A j \in 1..(Len(front) + Len(back)) :
           (front \o back)[j] = IF j <= Len(front) THEN front[j]
                                ELSE back[j - Len(front)]
  BY <1>2, <1>3, ConcatProperties
<1>6. QED
  BY <1>1, <1>2, <1>3, <1>4, <1>5

(* push_back(e) *)
LEMMA AppendElements ==
  ASSUME NEW S, NEW s \in Seq(S), NEW e \in S
  PROVE  /\ Append(s, e) \in Seq(S)
         /\ Len(Append(s, e)) = Len(s) + 1
         /\ \A j \in 1..(Len(s) + 1) :
              Append(s, e)[j] = IF j <= Len(s) THEN s[j] ELSE e
<1>1. Len(s) \in Nat
  BY LenProperties
<1>2. QED
  BY <1>1

(* A loop that walks a list from begin() stops at the first match, if any. *)
LEMMA FirstExists ==
  ASSUME NEW T \in SUBSET Nat, T # {}
  PROVE  \E i \in T : \A j \in T : i <= j
<1> DEFINE less == OpToRel(<, Nat)
<1>1. IsWellFoundedOn(less, Nat)
  BY NatLessThanWellFounded
<1>2. \A x, y \in Nat : x < y => <<x, y>> \in less
  BY DEF OpToRel
<1> HIDE DEF less
<1>3. PICK i \in T : \A j \in T : ~(<<j, i>> \in less)
  BY <1>1, WFMin
<1>4. \A j \in T : i \in Nat /\ j \in Nat /\ ~(j < i)
  <2> TAKE j \in T
  <2>1. i \in Nat /\ j \in Nat
    OBVIOUS
  <2>2. QED
    BY <2>1, <1>2, <1>3, Zenon
<1>5. QED
  BY <1>4

(* A function on 1..m is a sequence. *)
LEMMA FunctionIsSeq ==
  ASSUME NEW S, NEW m \in Nat, NEW f \in [1..m -> S]
  PROVE  f \in Seq(S)
OBVIOUS

-----------------------------------------------------------------------------
(* The elements of a list. *)

LEMMA ElementsAppend ==
  ASSUME NEW S, NEW s \in Seq(S), NEW e \in S
  PROVE  ToSet(Append(s, e)) = ToSet(s) \cup {e}
<1> DEFINE t == Append(s, e)
           n == Len(s) + 1
<1>1. /\ Len(s) \in Nat /\ DOMAIN s = 1..Len(s) /\ DOMAIN t = 1..n
      /\ \A j \in 1..n : t[j] = IF j <= Len(s) THEN s[j] ELSE e
  BY AppendElements, LenProperties
<1> HIDE DEF t
<1>2. QED
  BY <1>1 DEF ToSet, t

(* erase(i) takes at most the element at i away, and adds none. *)
LEMMA ElementsRemoved ==
  ASSUME NEW S, NEW s \in Seq(S), NEW i \in 1..Len(s)
  PROVE  /\ ToSet(RemoveAt(s, i)) \subseteq ToSet(s)
         /\ ToSet(s) = ToSet(RemoveAt(s, i)) \cup {s[i]}
<1> DEFINE t == RemoveAt(s, i)
           n == Len(s) - 1
<1>1. /\ Len(s) \in Nat /\ DOMAIN s = 1..Len(s) /\ DOMAIN t = 1..n
      /\ \A j \in 1..n : t[j] = IF j < i THEN s[j] ELSE s[j + 1]
  BY RemoveAtElements, LenProperties
<1> HIDE DEF t
<1>2. ASSUME NEW k \in DOMAIN t PROVE \E j \in DOMAIN s : t[k] = s[j]
  BY <1>1
<1>3. ASSUME NEW k \in DOMAIN s, k # i PROVE \E j \in DOMAIN t : s[k] = t[j]
  <2>1. CASE k < i
    <3>1. k \in DOMAIN t /\ t[k] = s[k]
      BY <1>1, <2>1
    <3>2. QED
      BY <3>1
  <2>2. CASE ~(k < i)
    <3>1. k - 1 \in DOMAIN t /\ ~(k - 1 < i) /\ k - 1 + 1 = k
      BY <1>1, <1>3, <2>2
    <3>2. t[k - 1] = s[k]
      BY <1>1, <3>1
    <3>3. QED
      BY <3>1, <3>2
  <2>3. QED
    BY <2>1, <2>2
<1>4. s[i] \in ToSet(s)
  BY <1>1 DEF ToSet
<1>5. QED
  BY <1>2, <1>3, <1>4 DEF ToSet, t

(* pop_front() *)
LEMMA ElementsTail ==
  ASSUME NEW S, NEW s \in Seq(S), s # <<>>
  PROVE  /\ ToSet(Tail(s)) \subseteq ToSet(s)
         /\ ToSet(s) = ToSet(Tail(s)) \cup {Head(s)}
<1> DEFINE t == Tail(s)
           n == Len(s) - 1
<1>1. /\ Len(s) \in Nat /\ Len(s) >= 1 /\ DOMAIN s = 1..Len(s) /\ DOMAIN t = 1..n
      /\ \A j \in 1..n : t[j] = s[j + 1]
      /\ Head(s) = s[1]
  BY HeadTailProperties, LenProperties, EmptySeq
<1> HIDE DEF t
<1>2. ASSUME NEW k \in DOMAIN t PROVE \E j \in DOMAIN s : t[k] = s[j]
  BY <1>1
<1>3. ASSUME NEW k \in DOMAIN s, k # 1 PROVE \E j \in DOMAIN t : s[k] = t[j]
  <2>1. k - 1 \in DOMAIN t /\ k - 1 + 1 = k
    BY <1>1, <1>3
  <2>2. QED
    BY <1>1, <2>1
<1>4. s[1] \in ToSet(s)
  BY <1>1 DEF ToSet
<1>5. QED
  BY <1>1, <1>2, <1>3, <1>4 DEF ToSet, t

-----------------------------------------------------------------------------
(* How many elements of a list are in a set. *)

Places(s, V) == {i \in DOMAIN s : s[i] \in V}

Count(s, V) == Cardinality(Places(s, V))

(* A list is finite. *)
LEMMA CountType ==
  ASSUME NEW S, NEW s \in Seq(S), NEW V
  PROVE  /\ IsFiniteSet(Places(s, V))
         /\ Count(s, V) \in Nat
<1>1. IsFiniteSet(1..Len(s)) /\ DOMAIN s = 1..Len(s)
  BY LenProperties, FS_Interval
<1>2. Places(s, V) \in SUBSET (1..Len(s))
  BY <1>1 DEF Places
<1>3. IsFiniteSet(Places(s, V))
  BY <1>1, <1>2, FS_Subset
<1>4. QED
  BY <1>3, FS_CardinalityType DEF Count

(* An element at the end counts if it is in the set. *)
LEMMA CountAppend ==
  ASSUME NEW S, NEW s \in Seq(S), NEW e \in S, NEW V
  PROVE  Count(Append(s, e), V) = Count(s, V) + (IF e \in V THEN 1 ELSE 0)
<1> DEFINE t == Append(s, e)
           n == Len(s) + 1
<1>1. /\ Len(s) \in Nat /\ DOMAIN s = 1..Len(s) /\ DOMAIN t = 1..n
      /\ \A j \in 1..n : t[j] = IF j <= Len(s) THEN s[j] ELSE e
  BY AppendElements, LenProperties
<1>2. IsFiniteSet(Places(s, V)) /\ Count(s, V) \in Nat
  BY CountType
<1>3. n \notin Places(s, V)
  BY <1>1 DEF Places
<1> HIDE DEF t
<1>4. CASE e \in V
  <2>1. Places(t, V) = Places(s, V) \cup {n}
    BY <1>1, <1>4 DEF Places
  <2>2. QED
    BY <1>2, <1>3, <1>4, <2>1, FS_AddElement DEF Count, t
<1>5. CASE e \notin V
  <2>1. Places(t, V) = Places(s, V)
    BY <1>1, <1>5 DEF Places
  <2>2. QED
    BY <1>2, <1>5, <2>1 DEF Count, t
<1>6. QED
  BY <1>4, <1>5

\* t is s without its i-th element.
IsErased(t, s, i) ==
  /\ Len(t) = Len(s) - 1
  /\ \A j \in 1..(Len(s) - 1) : t[j] = IF j < i THEN s[j] ELSE s[j + 1]

(* So does one that is taken out. *)
LEMMA CountErased ==
  ASSUME NEW S, NEW s \in Seq(S), NEW i \in 1..Len(s), NEW V, NEW t \in Seq(S),
         IsErased(t, s, i)
  PROVE  Count(t, V) = Count(s, V) - (IF s[i] \in V THEN 1 ELSE 0)
<1> DEFINE P == Places(s, V) \ {i}
           Q == Places(t, V)
           f == [k \in Q |-> IF k < i THEN k ELSE k + 1]
<1>1. /\ Len(s) \in Nat /\ DOMAIN s = 1..Len(s) /\ DOMAIN t = 1..(Len(s) - 1)
      /\ \A j \in 1..(Len(s) - 1) : t[j] = IF j < i THEN s[j] ELSE s[j + 1]
  BY LenProperties DEF IsErased
<1>2. ASSUME NEW k \in Q
      PROVE  /\ k \in 1..(Len(s) - 1)
             /\ f[k] = IF k < i THEN k ELSE k + 1
             /\ f[k] \in P
  <2>1. k \in 1..(Len(s) - 1) /\ t[k] \in V
    BY <1>1 DEF Places
  <2>2. QED
    BY <1>1, <2>1 DEF Places
<1>3. ASSUME NEW k \in P PROVE \E j \in Q : f[j] = k
  <2>1. k \in 1..Len(s) /\ k # i /\ s[k] \in V
    BY <1>1 DEF Places
  <2>2. CASE k < i
    <3>1. k \in 1..(Len(s) - 1) /\ t[k] = s[k]
      BY <1>1, <2>1, <2>2
    <3>2. QED
      BY <1>1, <2>1, <2>2, <3>1 DEF Places
  <2>3. CASE ~(k < i)
    <3>1. k - 1 \in 1..(Len(s) - 1) /\ t[k - 1] = s[k] /\ ~(k - 1 < i)
      BY <1>1, <2>1, <2>3
    <3>2. k - 1 \in Q /\ k - 1 + 1 = k
      BY <1>1, <2>1, <3>1 DEF Places
    <3>3. QED
      BY <3>1, <3>2
  <2>4. QED
    BY <2>2, <2>3
<1> HIDE DEF P, Q
<1>4. f \in Bijection(Q, P)
  <2>1. f \in [Q -> P]
    BY <1>2
  <2>2. \A a, b \in Q : f[a] = f[b] => a = b
    BY <1>1, <1>2
  <2> HIDE DEF f
  <2>3. f \in Injection(Q, P)
    BY <2>1, <2>2, Fun_IsInj
  <2>4. f \in Surjection(Q, P)
    BY <1>3, <2>1, Fun_IsSurj
  <2>5. QED
    BY <2>3, <2>4 DEF Bijection
<1>5. ExistsBijection(Q, P)
  BY <1>4 DEF ExistsBijection
<1>6. Cardinality(P) = Cardinality(Q)
  BY <1>5, CountType, FS_Bijection DEF Q
<1>7. Cardinality(P) = IF i \in Places(s, V) THEN Count(s, V) - 1 ELSE Count(s, V)
  BY CountType, FS_RemoveElement DEF P, Count
<1>8. i \in Places(s, V) <=> s[i] \in V
  BY <1>1 DEF Places
<1>9. Count(s, V) \in Nat
  BY CountType
<1>10. QED
  BY <1>6, <1>7, <1>8, <1>9 DEF Q, Count

(* erase(i) takes an element out. *)
LEMMA CountRemoved ==
  ASSUME NEW S, NEW s \in Seq(S), NEW i \in 1..Len(s), NEW V
  PROVE  /\ RemoveAt(s, i) \in Seq(S)
         /\ Count(s, V) \in Nat /\ Count(RemoveAt(s, i), V) \in Nat
         /\ Count(RemoveAt(s, i), V) = Count(s, V) - (IF s[i] \in V THEN 1 ELSE 0)
         /\ Count(RemoveAt(s, i), V) <= Count(s, V)
<1> DEFINE t == RemoveAt(s, i)
<1>1. t \in Seq(S) /\ IsErased(t, s, i)
  BY RemoveAtElements DEF IsErased
<1> HIDE DEF t
<1>2. Count(s, V) \in Nat /\ Count(t, V) \in Nat
  BY <1>1, CountType
<1>3. Count(t, V) = Count(s, V) - (IF s[i] \in V THEN 1 ELSE 0)
  BY <1>1, CountErased
<1>4. Count(t, V) <= Count(s, V)
  <2>1. CASE s[i] \in V
    <3>1. Count(t, V) = Count(s, V) - 1
      BY <1>3, <2>1
    <3>2. QED
      BY <1>2, <3>1
  <2>2. CASE s[i] \notin V
    <3>1. Count(t, V) = Count(s, V) - 0
      BY <1>3, <2>2
    <3>2. QED
      BY <1>2, <3>1
  <2>3. QED
    BY <2>1, <2>2
<1>5. QED
  BY <1>1, <1>2, <1>3, <1>4 DEF t

(* pop_front() takes the first one out. *)
LEMMA CountTail ==
  ASSUME NEW S, NEW s \in Seq(S), s # <<>>, NEW V
  PROVE  /\ Count(s, V) \in Nat /\ Count(Tail(s), V) \in Nat
         /\ Count(Tail(s), V) = Count(s, V) - (IF Head(s) \in V THEN 1 ELSE 0)
<1> DEFINE t == Tail(s)
<1>1. /\ t \in Seq(S) /\ Len(t) = Len(s) - 1 /\ Len(s) \in Nat /\ 1 \in 1..Len(s)
      /\ \A j \in 1..(Len(s) - 1) : t[j] = s[j + 1]
      /\ Head(s) = s[1]
  BY HeadTailProperties, LenProperties, EmptySeq
<1> HIDE DEF t
<1>2. IsErased(t, s, 1)
  BY <1>1 DEF IsErased
<1>3. Count(t, V) = Count(s, V) - (IF s[1] \in V THEN 1 ELSE 0)
  BY <1>1, <1>2, CountErased
<1>4. Count(s, V) \in Nat /\ Count(t, V) \in Nat
  BY <1>1, CountType
<1>5. QED
  BY <1>1, <1>3, <1>4 DEF t

(* A larger set counts no fewer. *)
LEMMA CountGrows ==
  ASSUME NEW S, NEW s \in Seq(S), NEW V, NEW W, V \subseteq W
  PROVE  Count(s, V) <= Count(s, W)
<1>1. Places(s, V) \in SUBSET Places(s, W)
  BY DEF Places
<1>2. QED
  BY <1>1, CountType, FS_Subset DEF Count

(* None is counted when the count is zero. *)
LEMMA CountZero ==
  ASSUME NEW S, NEW s \in Seq(S), NEW V
  PROVE  Count(s, V) = 0 <=> ToSet(s) \cap V = {}
<1>1. Count(s, V) = 0 <=> Places(s, V) = {}
  BY CountType, FS_EmptySet DEF Count
<1>2. Places(s, V) = {} <=> ToSet(s) \cap V = {}
  BY DEF Places, ToSet
<1>3. QED
  BY <1>1, <1>2

=============================================================================
