------------------------ MODULE ChannelWindowsProofs ------------------------
(***************************************************************************)
(* What GenerateChannelWindows produces, for any number of channels, any   *)
(* set of channels left to list and any width: at least one window, full   *)
(* windows up to a final one that is not empty, and every channel in       *)
(* exactly one of them.                                                    *)
(*                                                                         *)
(* First come facts about ascending enumerations of finite sets of         *)
(* integers (Ranking), which other proofs cite too: positions grow with    *)
(* the elements, and every position from 1 to the size of the set is the   *)
(* position of exactly one element.  Nothing there is by induction: an     *)
(* injection of a finite set into one of its own size is onto.             *)
(***************************************************************************)
EXTENDS ChannelWindows, FiniteSetTheorems, TLAPS

(***************************************************************************)
(* A position lies between 0 and the size of the set, and between 1 and    *)
(* the size of the set for its elements.                                   *)
(***************************************************************************)
LEMMA RankRange ==
    ASSUME NEW S, IsFiniteSet(S), NEW x
    PROVE  /\ Cardinality(S) \in Nat
           /\ Rank(S, x) \in 0..Cardinality(S)
           /\ x \in S /\ x \in Int => Rank(S, x) \in 1..Cardinality(S)
<1> DEFINE T == {y \in S : y <= x}
<1>1. /\ IsFiniteSet(T)
      /\ Cardinality(T) <= Cardinality(S)
  <2>1. T \in SUBSET S
    OBVIOUS
  <2>2. QED
    BY <2>1, FS_Subset
<1>2. Cardinality(T) \in Nat /\ Cardinality(S) \in Nat
  BY <1>1, FS_CardinalityType
<1>3. Rank(S, x) = Cardinality(T)
  BY DEF Rank
<1>4. ASSUME x \in S, x \in Int
      PROVE  Cardinality(T) # 0
  <2>1. x <= x
    BY <1>4
  <2>2. x \in T
    BY <1>4, <2>1
  <2>3. QED
    BY <1>1, <2>2, FS_EmptySet
<1> HIDE DEF T
<1>5. QED
  BY <1>1, <1>2, <1>3, <1>4

(***************************************************************************)
(* Positions grow with the elements.                                       *)
(***************************************************************************)
LEMMA RankIncreasing ==
    ASSUME NEW S, IsFiniteSet(S), S \subseteq Int,
           NEW x \in S, NEW y \in S, x < y
    PROVE  Rank(S, x) < Rank(S, y)
<1> DEFINE X == {z \in S : z <= x}
           Y == {z \in S : z <= y}
<1>1. X \in SUBSET Y
  <2>1. ASSUME NEW z \in S, z <= x
        PROVE  z <= y
    <3>1. x \in Int /\ y \in Int /\ z \in Int
      OBVIOUS
    <3>2. QED
      BY <2>1, <3>1
  <2>2. QED
    BY <2>1
<1>2. y \in Y /\ y \notin X
  OBVIOUS
<1>3. IsFiniteSet(Y) /\ Cardinality(Y) \in Nat
  <2>1. Y \in SUBSET S
    OBVIOUS
  <2>2. QED
    BY <2>1, FS_Subset, FS_CardinalityType
<1>4. IsFiniteSet(X) /\ Cardinality(X) \in Nat
  BY <1>1, <1>3, FS_Subset, FS_CardinalityType
<1>5. Cardinality(X) <= Cardinality(Y) /\ Cardinality(X) # Cardinality(Y)
  <2> HIDE DEF X, Y
  <2>1. QED
    BY <1>1, <1>2, <1>3, FS_Subset
<1>6. Rank(S, x) = Cardinality(X) /\ Rank(S, y) = Cardinality(Y)
  BY DEF Rank
<1> HIDE DEF X, Y
<1>7. QED
  BY <1>3, <1>4, <1>5, <1>6

(***************************************************************************)
(* No two elements have the same position.                                 *)
(***************************************************************************)
LEMMA RankInjective ==
    ASSUME NEW S, IsFiniteSet(S), S \subseteq Int,
           NEW x \in S, NEW y \in S, Rank(S, x) = Rank(S, y)
    PROVE  x = y
<1>1. Rank(S, x) \in Nat /\ Rank(S, y) \in Nat
  BY RankRange
<1>2. ~(x < y)
  <2>1. x < y => Rank(S, x) < Rank(S, y)
    BY RankIncreasing
  <2>2. QED
    BY <1>1, <2>1
<1>3. ~(y < x)
  <2>1. y < x => Rank(S, y) < Rank(S, x)
    BY RankIncreasing
  <2>2. QED
    BY <1>1, <2>1
<1>4. x \in Int /\ y \in Int
  OBVIOUS
<1>5. QED
  BY <1>2, <1>3, <1>4

(***************************************************************************)
(* The elements of S and the positions 1..Cardinality(S) correspond one    *)
(* to one.                                                                 *)
(***************************************************************************)
LEMMA RankBijection ==
    ASSUME NEW S, IsFiniteSet(S), S \subseteq Int
    PROVE  [x \in S |-> Rank(S, x)] \in Bijection(S, 1..Cardinality(S))
<1> DEFINE n == Cardinality(S)
           f == [x \in S |-> Rank(S, x)]
<1>1. n \in Nat
  BY FS_CardinalityType
<1>2. f \in [S -> 1..n]
  BY RankRange
<1>3. \A x, y \in S : f[x] = f[y] => x = y
  BY RankInjective
<1>4. f \in Injection(S, 1..n)
  BY <1>2, <1>3 DEF Injection, IsInjective
<1>5. IsFiniteSet(1..n) /\ Cardinality(1..n) = n
  <2>1. 1 \in Int /\ n \in Int
    BY <1>1
  <2>2. Cardinality(1..n) = IF 1 > n THEN 0 ELSE n - 1 + 1
    BY <2>1, FS_Interval
  <2>3. QED
    BY <1>1, <2>1, <2>2, FS_Interval
<1> HIDE DEF f
<1>6. f \in Surjection(S, 1..n)
  BY <1>4, <1>5, FS_Injection
<1>7. QED
  BY <1>4, <1>6 DEF Bijection, f

(***************************************************************************)
(* The element at a position between 1 and the size of the set exists,     *)
(* and stands at that position.                                            *)
(***************************************************************************)
LEMMA NthProperties ==
    ASSUME NEW S, IsFiniteSet(S), S \subseteq Int, NEW r \in 1..Cardinality(S)
    PROVE  Nth(S, r) \in S /\ Rank(S, Nth(S, r)) = r
<1>1. [x \in S |-> Rank(S, x)] \in Surjection(S, 1..Cardinality(S))
  BY RankBijection DEF Bijection
<1>2. \E x \in S : Rank(S, x) = r
  BY <1>1 DEF Surjection
<1>3. QED
  BY <1>2 DEF Nth

(***************************************************************************)
(* Different positions hold different elements.                            *)
(***************************************************************************)
LEMMA NthInjective ==
    ASSUME NEW S, IsFiniteSet(S), S \subseteq Int,
           NEW q \in 1..Cardinality(S), NEW r \in 1..Cardinality(S), q # r
    PROVE  Nth(S, q) # Nth(S, r)
BY NthProperties

(***************************************************************************)
(* The elements whose positions run from a to b are b - a + 1 in number.   *)
(***************************************************************************)
LEMMA SliceCardinality ==
    ASSUME NEW S, IsFiniteSet(S), S \subseteq Int,
           NEW a \in 1..(Cardinality(S) + 1), NEW b \in 0..Cardinality(S), a <= b + 1
    PROVE  LET slice == {x \in S : Rank(S, x) \in a..b}
           IN  IsFiniteSet(slice) /\ Cardinality(slice) = b - a + 1
<1> DEFINE n == Cardinality(S)
           slice == {x \in S : Rank(S, x) \in a..b}
           g == [x \in slice |-> Rank(S, x)]
<1>1. n \in Nat
  BY FS_CardinalityType
<1>2. IsFiniteSet(slice)
  <2>1. slice \in SUBSET S
    OBVIOUS
  <2>2. QED
    BY <2>1, FS_Subset
<1>3. g \in Injection(slice, a..b)
  <2>1. g \in [slice -> a..b]
    OBVIOUS
  <2>2. \A x, y \in slice : g[x] = g[y] => x = y
    BY RankInjective
  <2>3. QED
    BY <2>1, <2>2 DEF Injection, IsInjective
<1>4. g \in Surjection(slice, a..b)
  <2>1. ASSUME NEW r \in a..b
        PROVE  \E x \in slice : g[x] = r
    <3>1. r \in 1..n
      BY <1>1
    <3>2. Nth(S, r) \in S /\ Rank(S, Nth(S, r)) = r
      BY <3>1, NthProperties
    <3>3. Nth(S, r) \in slice
      BY <3>2
    <3>4. QED
      BY <3>2, <3>3
  <2>2. QED
    BY <1>3, <2>1 DEF Injection, Surjection
<1>5. ExistsBijection(slice, a..b)
  BY <1>3, <1>4 DEF ExistsBijection, Bijection
<1>6. Cardinality(a..b) = Cardinality(slice)
  <2> HIDE DEF slice
  <2>1. QED
    BY <1>2, <1>5, FS_Bijection
<1>7. Cardinality(a..b) = b - a + 1
  <2>1. a \in Int /\ b \in Int
    BY <1>1
  <2>2. Cardinality(a..b) = IF a > b THEN 0 ELSE b - a + 1
    BY <2>1, FS_Interval
  <2>3. QED
    BY <1>1, <2>1, <2>2
<1>8. QED
  BY <1>2, <1>6, <1>7

-----------------------------------------------------------------------------
(***************************************************************************)
(* The channels left to list are a finite set of integers.                 *)
(***************************************************************************)
LEMMA FreeIsFinite ==
    ASSUME NEW free \in SUBSET ChannelNumbers, free # {}
    PROVE  /\ IsFiniteSet(free)
           /\ free \subseteq Int
           /\ Cardinality(free) \in 1..MaxChannel
<1>1. IsFiniteSet(ChannelNumbers) /\ Cardinality(ChannelNumbers) = MaxChannel
  <2>1. 1 \in Int /\ MaxChannel \in Int
    BY MaxChannelAssumption
  <2>2. /\ IsFiniteSet(1..MaxChannel)
        /\ Cardinality(1..MaxChannel) = IF 1 > MaxChannel THEN 0 ELSE MaxChannel - 1 + 1
    BY <2>1, FS_Interval
  <2>3. QED
    BY <2>2, MaxChannelAssumption DEF ChannelNumbers
<1>2. IsFiniteSet(free) /\ Cardinality(free) <= MaxChannel
  BY <1>1, FS_Subset
<1>3. Cardinality(free) \in Nat /\ Cardinality(free) # 0
  BY <1>2, FS_CardinalityType, FS_EmptySet
<1>4. QED
  BY <1>2, <1>3, MaxChannelAssumption DEF ChannelNumbers

(***************************************************************************)
(* The first channel left to list is one of them.                          *)
(***************************************************************************)
LEMMA FirstFree ==
    ASSUME NEW free \in SUBSET ChannelNumbers, free # {}
    PROVE  Nth(free, 1) \in free /\ Nth(free, 1) \in 1..MaxChannel
<1>1. 1 \in 1..Cardinality(free)
  BY FreeIsFinite
<1>2. Nth(free, 1) \in free
  BY <1>1, FreeIsFinite, NthProperties
<1>3. QED
  BY <1>2 DEF ChannelNumbers

(***************************************************************************)
(* There is at least one window (the assertion at line 272 of              *)
(* channelgroup.cpp), and windows only list channels left to list.         *)
(***************************************************************************)
LEMMA WindowsType ==
    ASSUME NEW free \in SUBSET ChannelNumbers, free # {}, NEW width \in Nat
    PROVE  /\ NumWindows(free, width) - 1 \in 0..MaxChannel
           /\ Windows(free, width) \in [0..(NumWindows(free, width) - 1) -> SUBSET free]
<1>1. NumWindows(free, width) - 1 \in 0..MaxChannel
  <2>1. CASE width = 0
    BY <2>1, FirstFree, MaxChannelAssumption DEF NumWindows
  <2>2. CASE width # 0
    <3>1. Cardinality(free) \in 1..MaxChannel
      BY FreeIsFinite
    <3>2. (Cardinality(free) + width - 1) \div width \in 1..Cardinality(free)
      BY <2>2, <3>1, MaxChannelAssumption
    <3>3. QED
      BY <2>2, <3>1, <3>2, MaxChannelAssumption DEF NumWindows
  <2>3. QED
    BY <2>1, <2>2
<1>2. Windows(free, width) \in [0..(NumWindows(free, width) - 1) -> SUBSET free]
  BY DEF Windows
<1>3. QED
  BY <1>1, <1>2

(***************************************************************************)
(* Every window but the last is as wide as asked for; the last one is not  *)
(* empty and no wider.                                                     *)
(***************************************************************************)
LEMMA WindowSize ==
    ASSUME NEW free \in SUBSET ChannelNumbers, free # {},
           NEW width \in Nat \ {0},
           NEW k \in 0..(NumWindows(free, width) - 1)
    PROVE  LET size == Cardinality(Windows(free, width)[k])
           IN  /\ size \in 1..width
               /\ k < NumWindows(free, width) - 1 => size = width
<1> DEFINE m == Cardinality(free)
           n == (m + width - 1) \div width
           a == k * width + 1
           b == (k + 1) * width
           top == IF b <= m THEN b ELSE m
<1>1. m \in 1..MaxChannel /\ IsFiniteSet(free) /\ free \subseteq Int
  BY FreeIsFinite
<1>2. NumWindows(free, width) = n
  BY DEF NumWindows
<1>3. k \in Nat /\ k <= n - 1 /\ n \in Nat
  BY <1>1, <1>2, MaxChannelAssumption
<1>4. /\ a \in 1..(m + 1) /\ top \in 0..m /\ a <= top + 1
      /\ top - a + 1 \in 1..width
      /\ k < n - 1 => top - a + 1 = width
  <2>1. n * width <= m + width - 1 /\ m + width - 1 < n * width + width
    BY <1>1, MaxChannelAssumption, SMTT(30)
  <2>2. k * width <= (n - 1) * width
    BY <1>3, SMTT(30)
  <2>3. (n - 1) * width = n * width - width
    BY <1>3, SMTT(30)
  <2>4. b = k * width + width
    BY <1>3, SMTT(30)
  <2>5. k < n - 1 => (k + 1) * width <= (n - 1) * width
    BY <1>3, SMTT(30)
  <2>6. k * width \in Nat /\ n * width \in Nat
    BY <1>3, SMTT(30)
  <2> HIDE DEF n, b
  <2>7. k < n - 1 => b <= m
    BY <1>1, <1>3, <2>1, <2>2, <2>3, <2>4, <2>5, <2>6, MaxChannelAssumption DEF b
  <2>8. a <= m /\ a \in Nat \ {0} /\ b = a + width - 1
    BY <1>1, <1>3, <2>1, <2>2, <2>3, <2>4, <2>6, MaxChannelAssumption
  <2> HIDE DEF a
  <2>9. QED
    BY <1>1, <2>7, <2>8, MaxChannelAssumption
<1>5. Windows(free, width)[k] = {c \in free : Rank(free, c) \in a..top}
  <2>1. \A c \in free : Rank(free, c) \in 1..m
    BY <1>1, RankRange
  <2>2. \A c \in free : Rank(free, c) \in a..b <=> Rank(free, c) \in a..top
    <3>1. a \in Int /\ b \in Int
      BY <1>3, SMTT(30)
    <3> HIDE DEF a, b
    <3>2. QED
      BY <1>1, <2>1, <3>1, MaxChannelAssumption
  <2>3. Windows(free, width)[k] = {c \in free : Rank(free, c) \in a..b}
    BY DEF Windows
  <2> HIDE DEF a, b, top
  <2>4. QED
    BY <2>2, <2>3
<1> HIDE DEF a, top, n, m
<1>6. Cardinality(Windows(free, width)[k]) = top - a + 1
  BY <1>1, <1>4, <1>5, SliceCardinality DEF m
<1>7. QED
  BY <1>2, <1>4, <1>6

(***************************************************************************)
(* Every channel left to list is in a window, and no channel is in two.    *)
(***************************************************************************)
LEMMA WindowsPartition ==
    ASSUME NEW free \in SUBSET ChannelNumbers, free # {}, NEW width \in Nat
    PROVE  LET wins == Windows(free, width)
           IN  /\ UNION {wins[k] : k \in DOMAIN wins} = free
               /\ \A k, m \in DOMAIN wins : k # m => wins[k] \cap wins[m] = {}
<1> DEFINE wins == Windows(free, width)
           last == NumWindows(free, width) - 1
<1>1. last \in Nat /\ wins \in [0..last -> SUBSET free] /\ DOMAIN wins = 0..last
  BY WindowsType
<1>2. /\ \A c \in free : \E k \in 0..last : c \in wins[k]
      /\ \A k, m \in 0..last : k # m => wins[k] \cap wins[m] = {}
  <2>1. CASE width = 0
    <3>1. last = Nth(free, 1)
      BY <2>1, FirstFree DEF NumWindows
    <3>2. \A k \in 0..last : wins[k] = IF k = last THEN free ELSE {}
      BY <2>1, <3>1 DEF Windows
    <3>3. last \in 0..last
      BY <1>1
    <3> HIDE DEF wins, last
    <3>4. QED
      BY <3>2, <3>3
  <2>2. CASE width # 0
    <3> DEFINE total == Cardinality(free)
    <3>1. /\ total \in 1..MaxChannel /\ total \in Nat
          /\ \A c \in free : Rank(free, c) \in 1..total
      BY FreeIsFinite, RankRange
    <3>2. \A k \in 0..last :
             wins[k] = {c \in free : Rank(free, c) \in (k * width + 1)..((k + 1) * width)}
      BY <2>2 DEF Windows
    <3>3. last = (total + width - 1) \div width - 1
      BY <2>2 DEF NumWindows
    <3>4. ASSUME NEW c \in free
          PROVE  \E k \in 0..last : c \in wins[k]
      <4> DEFINE r == Rank(free, c)
                 k == (r - 1) \div width
      <4>1. r \in 1..total
        BY <3>1
      <4> HIDE DEF r, total
      <4>2. k \in 0..last /\ k * width + 1 <= r /\ r <= (k + 1) * width
        <5>1. k \in Nat /\ k * width <= r - 1 /\ r - 1 < k * width + width
          BY <2>2, <3>1, <4>1, SMTT(30)
        <5>2. k <= last
          BY <2>2, <3>1, <3>3, <4>1, SMTT(30)
        <5>3. (k + 1) * width = k * width + width
          BY <5>1, SMTT(30)
        <5>4. k * width \in Nat
          BY <5>1, SMTT(30)
        <5> HIDE DEF k, last
        <5>5. QED
          BY <1>1, <3>1, <4>1, <5>1, <5>2, <5>3, <5>4
      <4>3. r \in (k * width + 1)..((k + 1) * width)
        <5>1. k * width + 1 \in Int /\ (k + 1) * width \in Int
          BY <4>2, <1>1, SMTT(30)
        <5> HIDE DEF k
        <5>2. QED
          BY <3>1, <4>1, <4>2, <5>1
      <4> HIDE DEF k, wins, last
      <4>4. QED
        BY <3>2, <4>2, <4>3 DEF r
    <3>5. ASSUME NEW k \in 0..last, NEW m \in 0..last, k < m,
                 NEW c \in wins[k], c \in wins[m]
          PROVE  FALSE
      <4> DEFINE r == Rank(free, c)
      <4>1. r \in (k * width + 1)..((k + 1) * width) /\ r \in (m * width + 1)..((m + 1) * width)
        BY <3>2, <3>5
      <4>2. (k + 1) * width <= m * width
        BY <1>1, <3>5, SMTT(30)
      <4>3. (k + 1) * width \in Int /\ m * width \in Int
        BY <1>1, SMTT(30)
      <4> HIDE DEF r, last
      <4>4. r \in Int
        BY <4>1
      <4>5. QED
        BY <4>1, <4>2, <4>3, <4>4
    <3>6. ASSUME NEW k \in 0..last, NEW m \in 0..last, k # m
          PROVE  wins[k] \cap wins[m] = {}
      <4>1. k < m \/ m < k
        BY <1>1, <3>6
      <4> HIDE DEF wins, last
      <4>2. QED
        BY <4>1, <3>5
    <3> HIDE DEF wins, last
    <3>7. QED
      BY <3>4, <3>6
  <2>3. QED
    BY <2>1, <2>2
<1> HIDE DEF wins, last
<1>3. UNION {wins[k] : k \in DOMAIN wins} = free
  BY <1>1, <1>2
<1>4. QED
  BY <1>1, <1>2, <1>3 DEF wins
=============================================================================
