----------------------------- MODULE SeqLemmas -----------------------------
(***************************************************************************)
(* Facts about the sequence operators the models are built from, for every *)
(* sequence, and about the history of charges that two of them keep. They  *)
(* are shared by the proof modules.                                        *)
(***************************************************************************)
EXTENDS SequencesExt, Functions, ChargeHistory, SequenceTheorems, FiniteSetTheorems, TLAPS

\* Removing one entry of a vector leaves a vector over the same elements,
\* one shorter.
LEMMA RemoveAtProperties ==
  ASSUME NEW S, NEW s \in Seq(S), NEW i \in 1..Len(s)
  PROVE  /\ RemoveAt(s, i) \in Seq(S)
         /\ Len(RemoveAt(s, i)) = Len(s) - 1
<1> DEFINE left == SubSeq(s, 1, i - 1)
           right == SubSeq(s, i + 1, Len(s))
<1>1. Len(s) \in Nat /\ i \in Nat
  BY LenProperties
<1>2. \A j \in 1..(i - 1) : s[j] \in S
  BY <1>1, ElementOfSeq
<1>3. \A j \in (i + 1)..Len(s) : s[j] \in S
  BY <1>1, ElementOfSeq
<1>4. left \in Seq(S) /\ Len(left) = i - 1
  <2>1. 1 \in Int /\ i - 1 \in Int
    BY <1>1
  <2>2. /\ SubSeq(s, 1, i - 1) \in Seq(S)
        /\ Len(SubSeq(s, 1, i - 1)) = IF 1 <= i - 1 THEN (i - 1) - 1 + 1 ELSE 0
    BY <1>2, <2>1, SubSeqProperties
  <2>. QED  BY <1>1, <2>2
<1>5. right \in Seq(S) /\ Len(right) = Len(s) - i
  <2>1. i + 1 \in Int /\ Len(s) \in Int
    BY <1>1
  <2>2. /\ SubSeq(s, i + 1, Len(s)) \in Seq(S)
        /\ Len(SubSeq(s, i + 1, Len(s))) = IF i + 1 <= Len(s) THEN Len(s) - (i + 1) + 1 ELSE 0
    BY <1>3, <2>1, SubSeqProperties
  <2>. QED  BY <1>1, <2>2
<1>6. /\ left \o right \in Seq(S)
      /\ Len(left \o right) = Len(left) + Len(right)
  BY <1>4, <1>5, ConcatProperties
<1>. QED
  <2>1. RemoveAt(s, i) = left \o right
    BY DEF RemoveAt
  <2> HIDE DEF left, right
  <2>2. Len(left) + Len(right) = Len(s) - 1
    BY <1>1, <1>4, <1>5
  <2>. QED
    BY <1>6, <2>1, <2>2

\* A vector without repetitions has as many different elements as entries.
LEMMA InjectiveCardinality ==
  ASSUME NEW S, NEW s \in Seq(S), IsInjective(s)
  PROVE  Cardinality(ToSet(s)) = Len(s) /\ IsFiniteSet(ToSet(s))
<1>1. Len(s) \in Nat /\ DOMAIN s = 1..Len(s) /\ s \in [1..Len(s) -> S]
  BY LenProperties
<1>2. IsFiniteSet(1..Len(s)) /\ Cardinality(1..Len(s)) = Len(s)
  <2> DEFINE n == Len(s)
  <2>1. n \in Nat
    BY <1>1
  <2> HIDE DEF n
  <2>2. IsFiniteSet(1..n) /\ Cardinality(1..n) = IF 1 > n THEN 0 ELSE n - 1 + 1
    BY <2>1, FS_Interval
  <2>3. Cardinality(1..n) = n
    BY <2>1, <2>2
  <2>. QED  BY <2>2, <2>3 DEF n
<1>3. /\ s \in [1..Len(s) -> ToSet(s)]
      /\ \A x \in ToSet(s) : \E i \in 1..Len(s) : s[i] = x
  BY <1>1, Zenon DEF ToSet
<1>4. /\ s \in Surjection(1..Len(s), ToSet(s))
      /\ s \in Injection(1..Len(s), ToSet(s))
  BY <1>1, <1>3, Zenon DEF Surjection, Injection, IsInjective
<1>5. ExistsBijection(1..Len(s), ToSet(s))
  BY <1>4 DEF ExistsBijection, Bijection
<1>. QED
  BY <1>2, <1>5, FS_Bijection

\* Appending a new element keeps a vector free of repetitions.
LEMMA InjectiveAppend ==
  ASSUME NEW S, NEW s \in Seq(S), NEW e \in S, IsInjective(s), ~Contains(s, e)
  PROVE  IsInjective(Append(s, e))
BY DEF IsInjective, Contains

\* Removing an entry shifts the entries after it.
LEMMA RemoveAtElements ==
  ASSUME NEW S, NEW s \in Seq(S), NEW i \in 1..Len(s), NEW j \in 1..(Len(s) - 1)
  PROVE  RemoveAt(s, i)[j] = IF j < i THEN s[j] ELSE s[j + 1]
<1> DEFINE left == SubSeq(s, 1, i - 1)
           right == SubSeq(s, i + 1, Len(s))
           n == Len(s)
<1>1. n \in Nat /\ i \in 1..n /\ j \in 1..(n - 1)
  BY LenProperties
<1>2. \A k \in 1..(i - 1) : s[k] \in S
  BY <1>1, ElementOfSeq
<1>3. \A k \in (i + 1)..n : s[k] \in S
  BY <1>1, ElementOfSeq
<1>4. /\ left \in Seq(S)
      /\ Len(left) = IF 1 <= i - 1 THEN i - 1 - 1 + 1 ELSE 0
      /\ \A k \in 1..(i - 1 - 1 + 1) : left[k] = s[1 + k - 1]
  <2>1. 1 \in Int /\ i - 1 \in Int
    BY <1>1
  <2>. QED  BY <1>2, <2>1, SubSeqProperties
<1>5. /\ right \in Seq(S)
      /\ Len(right) = IF i + 1 <= n THEN n - (i + 1) + 1 ELSE 0
      /\ \A k \in 1..(n - (i + 1) + 1) : right[k] = s[i + 1 + k - 1]
  <2>1. i + 1 \in Int /\ n \in Int
    BY <1>1
  <2>. QED  BY <1>3, <2>1, SubSeqProperties
<1>6. \A k \in 1..(Len(left) + Len(right)) :
        (left \o right)[k] = IF k <= Len(left) THEN left[k] ELSE right[k - Len(left)]
  BY <1>4, <1>5, ConcatProperties
<1>7. RemoveAt(s, i) = left \o right
  BY DEF RemoveAt
<1> HIDE DEF left, right, n
<1>8. Len(left) = i - 1 /\ Len(right) = n - i
  BY <1>1, <1>4, <1>5
<1>9. (left \o right)[j] = IF j <= i - 1 THEN left[j] ELSE right[j - (i - 1)]
  <2>1. j \in 1..(Len(left) + Len(right))
    BY <1>1, <1>8
  <2>. QED  BY <1>6, <1>8, <2>1
<1>10. CASE j < i
  <2>1. left[j] = s[j]
    <3>1. j \in 1..(i - 1 - 1 + 1) /\ 1 + j - 1 = j
      BY <1>1, <1>10
    <3>. QED  BY <1>4, <3>1
  <2>. QED  BY <1>1, <1>7, <1>9, <1>10, <2>1
<1>11. CASE ~(j < i)
  <2>1. right[j - (i - 1)] = s[j + 1]
    <3>1. /\ j - (i - 1) \in 1..(n - (i + 1) + 1)
          /\ i + 1 + (j - (i - 1)) - 1 = j + 1
      BY <1>1, <1>11
    <3>. QED  BY <1>5, <3>1
  <2>. QED  BY <1>1, <1>7, <1>9, <1>11, <2>1
<1>. QED
  BY <1>10, <1>11

\* What is left of a stack when its last element is taken off.
LEMMA FrontLastProperties ==
  ASSUME NEW S, NEW s \in Seq(S), s # <<>>
  PROVE  /\ Front(s) \in Seq(S)
         /\ Len(Front(s)) = Len(s) - 1
         /\ \A i \in 1..(Len(s) - 1) : Front(s)[i] = s[i]
         /\ Len(s) \in Nat \ {0}
         /\ Last(s) \in S
<1>1. Len(s) \in Nat /\ Len(s) # 0
  BY LenProperties, EmptySeq
<1>2. \A i \in 1..(Len(s) - 1) : s[i] \in S
  BY <1>1, ElementOfSeq
<1>3. 1 \in Int /\ Len(s) - 1 \in Int
  BY <1>1
<1>4. /\ SubSeq(s, 1, Len(s) - 1) \in Seq(S)
      /\ Len(SubSeq(s, 1, Len(s) - 1)) = IF 1 <= Len(s) - 1 THEN (Len(s) - 1) - 1 + 1 ELSE 0
      /\ \A i \in 1..((Len(s) - 1) - 1 + 1) : SubSeq(s, 1, Len(s) - 1)[i] = s[1 + i - 1]
  BY <1>2, <1>3, SubSeqProperties
<1>5. \A i \in 1..(Len(s) - 1) : SubSeq(s, 1, Len(s) - 1)[i] = s[i]
  <2> TAKE i \in 1..(Len(s) - 1)
  <2>1. 1 + i - 1 = i /\ (Len(s) - 1) - 1 + 1 = Len(s) - 1
    BY <1>1
  <2>. QED  BY <1>4, <2>1
<1>6. s[Len(s)] \in S
  BY <1>1, ElementOfSeq
<1>7. Len(SubSeq(s, 1, Len(s) - 1)) = Len(s) - 1
  <2> DEFINE n == Len(s)
             front == Len(SubSeq(s, 1, n - 1))
  <2>1. n \in Nat /\ n # 0 /\ front = IF 1 <= n - 1 THEN (n - 1) - 1 + 1 ELSE 0
    BY <1>1, <1>4
  <2> HIDE DEF n, front
  <2>2. front = n - 1
    BY <2>1
  <2>. QED  BY <2>2 DEF n, front
<1>8. Len(s) \in Nat \ {0}
  BY <1>1
<1>. QED
  BY <1>4, <1>5, <1>6, <1>7, <1>8, Zenon DEF Front, Last

\* A set of naturals has a least element: the well-founded ordering of the
\* library that needs no operator is strict inclusion of finite sets.
LEMMA LeastIndex ==
  ASSUME NEW I, I \subseteq Nat, I # {}
  PROVE  Min(I) \in I /\ \A j \in I : Min(I) <= j
<1> DEFINE R == StrictSubsetOrdering(Nat)
           T == {1..i : i \in I}
<1>1. IsWellFoundedOn(R, FiniteSubsetsOf(Nat))
  BY FS_StrictSubsetOrderingWellFounded
<1>2. T \subseteq FiniteSubsetsOf(Nat) /\ T # {}
  <2>1. ASSUME NEW i \in I
        PROVE  1..i \in FiniteSubsetsOf(Nat)
    <3>1. 1 \in Int /\ i \in Int /\ 1..i \subseteq Nat
      OBVIOUS
    <3>2. IsFiniteSet(1..i)
      BY <3>1, FS_Interval
    <3>. QED  BY <3>1, <3>2 DEF FiniteSubsetsOf
  <2>. QED  BY <2>1
<1>3. \E x \in T : \A y \in T : ~(<<y, x>> \in R)
  <2> HIDE DEF T, R
  <2>. QED  BY <1>1, <1>2, WFMin
<1>4. PICK i \in I : \A j \in I : ~(<<1..j, 1..i>> \in R)
  BY <1>3
<1>5. ASSUME NEW j \in I
      PROVE  i <= j
  <2>1. i \in Nat /\ j \in Nat
    OBVIOUS
  <2>2. ASSUME j < i
        PROVE  FALSE
    <3>1. 1..j \subseteq 1..i /\ 1..j # 1..i
      BY <2>1, <2>2
    <3>2. <<1..j, 1..i>> \in R
      <4> DEFINE p == <<1..j, 1..i>>
      <4>1. p \in (SUBSET Nat) \X (SUBSET Nat) /\ p[1] \subseteq p[2] /\ p[1] # p[2]
        BY <2>1, <3>1
      <4> HIDE DEF p
      <4>2. p \in StrictSubsetOrdering(Nat)
        BY <4>1 DEF StrictSubsetOrdering
      <4>. QED  BY <4>2 DEF p
    <3>. QED  BY <1>4, <3>2
  <2>. QED  BY <2>1, <2>2
<1>. QED  BY <1>5 DEF Min


\* RemoveFirst takes one occurrence out.
LEMMA RemoveFirstIsRemoveAt ==
  ASSUME NEW S, NEW s \in Seq(S), NEW x, Contains(s, x)
  PROVE  \E i \in 1..Len(s) : s[i] = x /\ RemoveFirst(s, x) = RemoveAt(s, i)
<1> DEFINE I == {i \in 1..Len(s) : s[i] = x}
<1>1. RemoveFirst(s, x) = RemoveAt(s, Min(I))
  BY DEF RemoveFirst, SelectInSeq, Contains
<1>2. I \subseteq Nat /\ I # {}
  BY DEF Contains
<1>. QED  BY <1>1, <1>2, LeastIndex

\* An element has at most one place in a vector.
OccursOnce(s, x) == \A i, j \in 1..Len(s) : s[i] = x /\ s[j] = x => i = j

\* What RemoveFirst leaves (iter().position and remove in the code): a part of
\* the vector with all of its other elements. What occurred at most once does
\* so still, and x itself, if it did, is gone.
LEMMA RemoveFirstProperties ==
  ASSUME NEW S, NEW s \in Seq(S), NEW x
  PROVE  /\ RemoveFirst(s, x) \in Seq(S)
         /\ Len(RemoveFirst(s, x)) <= Len(s)
         /\ \A y : Contains(RemoveFirst(s, x), y) => Contains(s, y)
         /\ \A y : y # x /\ Contains(s, y) => Contains(RemoveFirst(s, x), y)
         /\ \A y : OccursOnce(s, y) => OccursOnce(RemoveFirst(s, x), y)
         /\ OccursOnce(s, x) => ~Contains(RemoveFirst(s, x), x)
<1>1. CASE ~Contains(s, x)
  <2>1. RemoveFirst(s, x) = s
    BY <1>1 DEF RemoveFirst, Contains
  <2>2. Len(s) <= Len(s)
    BY LenProperties
  <2>. QED  BY <1>1, <2>1, <2>2
<1>2. CASE Contains(s, x)
  <2> DEFINE n == Len(s)
             t == RemoveFirst(s, x)
  <2>1. PICK i \in 1..n : s[i] = x /\ t = RemoveAt(s, i)
    BY <1>2, RemoveFirstIsRemoveAt
  <2> DEFINE Old(j) == IF j < i THEN j ELSE j + 1
  <2>2. n \in Nat /\ i \in 1..n /\ t \in Seq(S) /\ Len(t) = n - 1
    BY <2>1, LenProperties, RemoveAtProperties
  <2>3. \A j \in 1..(n - 1) : t[j] = s[Old(j)]
    BY <2>1, <2>2, RemoveAtElements
  <2> HIDE DEF t, n
  <2>4. \A j \in 1..(n - 1) : Old(j) \in 1..n /\ Old(j) # i
    BY <2>2
  <2>5. \A a, b \in 1..(n - 1) : Old(a) = Old(b) => a = b
    BY <2>2
  <2>6. \A k \in 1..n : k # i => \E j \in 1..(n - 1) : k = Old(j)
    <3> SUFFICES ASSUME NEW k \in 1..n, k # i
                 PROVE  \E j \in 1..(n - 1) : k = Old(j)
      OBVIOUS
    <3>1. CASE k < i
      BY <2>2, <3>1
    <3>2. CASE ~(k < i)
      <4>1. k - 1 \in 1..(n - 1) /\ k = Old(k - 1)
        BY <2>2, <3>2
      <4>. QED  BY <4>1
    <3>. QED  BY <3>1, <3>2
  <2> HIDE DEF Old
  <2>7. \A y : Contains(t, y) => Contains(s, y)
    BY <2>2, <2>3, <2>4 DEF Contains, n
  <2>8. \A y : y # x /\ Contains(s, y) => Contains(t, y)
    BY <2>1, <2>2, <2>3, <2>6 DEF Contains, n
  <2>9. \A y : OccursOnce(s, y) => OccursOnce(t, y)
    BY <2>2, <2>3, <2>4, <2>5 DEF OccursOnce, n
  <2>10. OccursOnce(s, x) => ~Contains(t, x)
    BY <2>1, <2>2, <2>3, <2>4 DEF OccursOnce, Contains, n
  <2>11. Len(t) <= Len(s)
    BY <2>2 DEF n
  <2>. QED  BY <2>2, <2>7, <2>8, <2>9, <2>10, <2>11 DEF t
<1>. QED  BY <1>1, <1>2

\* A vector has no repetitions when everything occurs in it at most once.
LEMMA InjectiveOccursOnce ==
  ASSUME NEW S, NEW s \in Seq(S)
  PROVE  IsInjective(s) <=> \A x : OccursOnce(s, x)
<1>1. DOMAIN s = 1..Len(s)
  BY LenProperties
<1>2. IsInjective(s) <=> \A i, j \in 1..Len(s) : s[i] = s[j] => i = j
  BY <1>1, Zenon DEF IsInjective
<1>. QED
  BY <1>2, Zenon DEF OccursOnce

\* What a vector contains after an element was appended.
LEMMA AppendContains ==
  ASSUME NEW S, NEW s \in Seq(S), NEW e \in S
  PROVE  /\ \A x : Contains(Append(s, e), x) <=> Contains(s, x) \/ x = e
         /\ \A x : OccursOnce(s, x) /\ (x # e \/ ~Contains(s, x)) => OccursOnce(Append(s, e), x)
         /\ Len(Append(s, e)) = Len(s) + 1
<1> DEFINE n == Len(s)
           t == Append(s, e)
<1>1. /\ n \in Nat /\ Len(t) = n + 1 /\ t[n + 1] = e
      /\ \A j \in 1..n : t[j] = s[j]
  BY LenProperties, AppendProperties
<1> HIDE DEF n, t
<1>2. \A j : j \in 1..(n + 1) <=> j \in 1..n \/ j = n + 1
  BY <1>1
<1>3. \A x : Contains(t, x) <=> Contains(s, x) \/ x = e
  BY <1>1, <1>2 DEF Contains, n
<1>4. \A x : OccursOnce(s, x) /\ (x # e \/ ~Contains(s, x)) => OccursOnce(t, x)
  BY <1>1, <1>2 DEF Contains, OccursOnce, n
<1>. QED
  BY <1>1, <1>3, <1>4 DEF n, t

\* Membership in ToSet is Contains.
LEMMA ToSetContains ==
  ASSUME NEW S, NEW s \in Seq(S)
  PROVE  \A x : x \in ToSet(s) <=> Contains(s, x)
BY LenProperties DEF ToSet, Contains

(* --------------------------- Charge histories -------------------------- *)

\* What is known of a limit of amount per period whose counter stands at spent
\* and may restart at ledger reset. Its current window began at start: all that
\* was charged since is in the counter, and what was charged in the period
\* before start is at most the amount, because the counter had it then.
Metered(h, last, now, amount, period, spent, reset) ==
  /\ \A m, n \in 0..(last + 1) : m <= n => h[m] <= h[n]
  /\ \A m, n \in 0..(last + 1) : reset <= m /\ reset <= n => h[m] = h[n]
  /\ WindowsWithin(h, period, 2 * amount)
  /\ spent <= amount
  /\ \E start \in 0..last :
       /\ start <= now
       /\ start + period <= reset \/ last < reset
       /\ \A n \in 0..(last + 1) : h[n] <= h[start] + spent
       /\ \A n \in 0..(last + 1) : n <= start /\ start <= n + period => h[start] <= h[n] + amount

\* A limit that nothing was charged to.
LEMMA UnchargedMetered ==
  ASSUME NEW last \in Nat, NEW now \in 0..last, NEW amount \in Nat, NEW period \in Nat,
         NEW spent \in Nat, NEW reset \in Nat, spent <= amount,
         now + period <= reset \/ last < reset
  PROVE  Metered(NoCharges(last), last, now, amount, period, spent, reset)
BY DEF Metered, NoCharges, WindowsWithin

\* Ledgers that pass do not change what is known.
LEMMA LaterMetered ==
  ASSUME NEW h, NEW last \in Nat, NEW now \in Nat, NEW later \in Nat, now <= later,
         NEW amount, NEW period, NEW spent, NEW reset,
         Metered(h, last, now, amount, period, spent, reset)
  PROVE  Metered(h, last, later, amount, period, spent, reset)
BY DEF Metered

\* A window that elapsed makes room for a new one.
LEMMA RolledOverMetered ==
  ASSUME NEW last \in Nat, NEW h \in Histories(last), NEW now \in 0..last, NEW amount \in Nat,
         NEW period \in Nat, NEW spent \in Nat, NEW reset \in Nat, reset <= now,
         Metered(h, last, now, amount, period, spent, reset),
         NEW next \in Nat, now + period <= next \/ last < next, now <= next
  PROVE  Metered(h, last, now, amount, period, 0, next)
<1>1. PICK start \in 0..last :
       /\ start <= now
       /\ start + period <= reset \/ last < reset
       /\ \A n \in 0..(last + 1) : h[n] <= h[start] + spent
  BY DEF Metered
<1>2. start + period <= now
  BY <1>1
<1>3. \A n \in 0..(last + 1) : h[n] \in Nat
  BY DEF Histories
<1>4. \A m, n \in 0..(last + 1) : reset <= m /\ reset <= n => h[m] = h[n]
  BY DEF Metered
<1>5. \A m, n \in 0..(last + 1) : m <= n => h[m] <= h[n]
  BY DEF Metered
<1>6. now \in 0..(last + 1) /\ start \in 0..(last + 1)
  OBVIOUS
<1>7. \A n \in 0..(last + 1) : h[n] <= h[now] + 0
  <2> SUFFICES ASSUME NEW n \in 0..(last + 1)
               PROVE  h[n] <= h[now]
    BY <1>3, <1>6
  <2>1. CASE n <= now
    BY <1>5, <1>6, <2>1
  <2>2. CASE n > now
    BY <1>3, <1>4, <1>6, <2>2
  <2>. QED  BY <2>1, <2>2
<1>8. \A n \in 0..(last + 1) : n <= now /\ now <= n + period => h[now] <= h[n] + amount
  <2> SUFFICES ASSUME NEW n \in 0..(last + 1), n <= now, now <= n + period
               PROVE  h[now] <= h[n] + amount
    OBVIOUS
  <2>1. start <= n
    BY <1>2, <1>6
  <2>2. h[start] <= h[n] /\ h[now] <= h[start] + spent /\ spent <= amount
    BY <1>1, <1>5, <1>6, <2>1 DEF Metered
  <2>. QED  BY <1>3, <1>6, <2>2
<1>9. \A m, n \in 0..(last + 1) : next <= m /\ next <= n => h[m] = h[n]
  BY <1>4
<1>. QED
  BY <1>5, <1>6, <1>7, <1>8, <1>9 DEF Metered

\* A charge within the window goes into the counter. A period it lies in
\* begins in the window, or reaches it from the period before.
LEMMA ChargeMetered ==
  ASSUME NEW last \in Nat, NEW h \in Histories(last), NEW now \in 0..last, NEW amount \in Nat,
         NEW period \in Nat, NEW spent \in Nat, NEW reset \in Nat, now < reset,
         Metered(h, last, now, amount, period, spent, reset),
         NEW s \in Nat, spent + s <= amount
  PROVE  Metered(WithCharge(h, now, s), last, now, amount, period, spent + s, reset)
<1>1. PICK start \in 0..last :
       /\ start <= now
       /\ start + period <= reset \/ last < reset
       /\ \A n \in 0..(last + 1) : h[n] <= h[start] + spent
       /\ \A n \in 0..(last + 1) : n <= start /\ start <= n + period => h[start] <= h[n] + amount
  BY DEF Metered
<1>2. \A n \in 0..(last + 1) : h[n] \in Nat
  BY DEF Histories
<1>3. PICK c : c = WithCharge(h, now, s)
  OBVIOUS
<1>4. \A n \in 0..(last + 1) : c[n] = IF n > now THEN h[n] + s ELSE h[n]
  BY <1>3 DEF WithCharge, Histories
<1>5. DOMAIN c = 0..(last + 1) /\ DOMAIN h = 0..(last + 1)
  BY <1>3 DEF WithCharge, Histories
<1>6. \A m, n \in 0..(last + 1) : m <= n => h[m] <= h[n]
  BY DEF Metered
<1>7. \A m, n \in 0..(last + 1) : m <= n => c[m] <= c[n]
  <2> SUFFICES ASSUME NEW m \in 0..(last + 1), NEW n \in 0..(last + 1), m <= n
               PROVE  c[m] <= c[n]
    OBVIOUS
  <2>1. h[m] <= h[n] /\ h[m] \in Nat /\ h[n] \in Nat
    BY <1>2, <1>6
  <2>. QED  BY <1>4, <2>1
<1>8. \A m, n \in 0..(last + 1) : reset <= m /\ reset <= n => c[m] = c[n]
  BY <1>4 DEF Metered
<1>9. \A n \in 0..(last + 1) : c[n] <= c[start] + (spent + s)
  <2> SUFFICES ASSUME NEW n \in 0..(last + 1)
               PROVE  c[n] <= c[start] + (spent + s)
    OBVIOUS
  <2>1. start \in 0..(last + 1) /\ c[start] = h[start]
    BY <1>1, <1>4
  <2>2. h[n] \in Nat /\ h[start] \in Nat /\ h[n] <= h[start] + spent
    BY <1>1, <1>2, <2>1
  <2>. QED  BY <1>4, <2>1, <2>2
<1>10. \A n \in 0..(last + 1) : n <= start /\ start <= n + period => c[start] <= c[n] + amount
  BY <1>1, <1>4
<1>11. \A first, end \in 0..(last + 1) :
         first <= end /\ end <= first + period => c[end] - c[first] <= 2 * amount
  <2> SUFFICES ASSUME NEW first \in 0..(last + 1), NEW end \in 0..(last + 1),
                      first <= end, end <= first + period
               PROVE  c[end] - c[first] <= 2 * amount
    OBVIOUS
  <2>1. /\ h[end] \in Nat /\ h[first] \in Nat /\ h[start] \in Nat
        /\ h[end] - h[first] <= 2 * amount
        /\ start \in 0..(last + 1) /\ h[end] <= h[start] + spent
    <3>1. h[end] - h[first] <= 2 * amount
      BY <1>5 DEF Metered, WindowsWithin
    <3>. QED  BY <1>1, <1>2, <3>1
  <2>2. CASE end <= now \/ now < first
    BY <1>4, <2>1, <2>2
  <2>3. CASE first <= now /\ now < end
    <3>1. c[end] = h[end] + s /\ c[first] = h[first]
      BY <1>4, <2>3
    <3>2. h[start] <= h[first] + amount
      <4>1. CASE start <= first
        <5>1. h[start] <= h[first]
          BY <1>6, <2>1, <4>1
        <5>. QED  BY <2>1, <5>1
      <4>2. CASE first < start
        BY <1>1, <2>3, <4>2
      <4>. QED  BY <4>1, <4>2
    <3>. QED  BY <2>1, <3>1, <3>2
  <2>. QED  BY <2>2, <2>3
<1>12. spent + s <= amount
  OBVIOUS
<1>13. \E st \in 0..last :
         /\ st <= now
         /\ st + period <= reset \/ last < reset
         /\ \A n \in 0..(last + 1) : c[n] <= c[st] + (spent + s)
         /\ \A n \in 0..(last + 1) : n <= st /\ st <= n + period => c[st] <= c[n] + amount
  BY <1>1, <1>9, <1>10
<1>14. WindowsWithin(c, period, 2 * amount)
  BY <1>5, <1>11 DEF WindowsWithin
<1>. QED
  BY <1>3, <1>7, <1>8, <1>12, <1>13, <1>14 DEF Metered

\* Charging keeps a history well typed.
LEMMA WithChargeType ==
  ASSUME NEW last \in Nat, NEW h \in Histories(last), NEW now \in Nat, NEW s \in Nat
  PROVE  WithCharge(h, now, s) \in Histories(last)
BY DEF Histories, WithCharge
=============================================================================
