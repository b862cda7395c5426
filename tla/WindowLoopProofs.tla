-------------------------- MODULE WindowLoopProofs --------------------------
(***************************************************************************)
(* The loop of GenerateChannelWindows computes the closed form of          *)
(* ChannelWindows, for any number of channels and strips, any set of       *)
(* pinned channels and any width.  Its invariant is stated for any         *)
(* windows f filed, current window s and next channel x, so that the two   *)
(* halves of an iteration (filing a full window, passing a channel) are    *)
(* lemmas of their own.                                                    *)
(***************************************************************************)
EXTENDS WindowLoop, ChannelWindowsProofs, SequenceTheorems

(***************************************************************************)
(* The inductive invariant of the loop.  Up to the end of the loop, the   *)
(* windows filed hold the channels of the first Len(filed) * width        *)
(* positions, and the current one holds the others passed; with no width  *)
(* an empty window has been filed for every channel up to the first free  *)
(* one.                                                                   *)
(***************************************************************************)
Free == ChannelNumbers \ pinnedHere

Passed == {c \in Free : c < i}

TypeOK ==
    /\ pinnedHere \in SUBSET ChannelNumbers /\ Cardinality(pinnedHere) <= NumStrips
    /\ width \in 0..NumStrips
    /\ i \in 1..(MaxChannel + 2)
    /\ current \in Seq(ChannelNumbers)
    /\ filed \in Seq(Seq(ChannelNumbers))

CutByWidth ==
    width > 0 =>
        /\ \A n \in DOMAIN filed :
              Range(filed[n]) = {c \in Free : Rank(Free, c) \in ((n - 1) * width + 1)..(n * width)}
        /\ ~Finished =>
              /\ Range(current) = {c \in Passed : Rank(Free, c) > Len(filed) * width}
              /\ Cardinality(Passed) = Len(filed) * width + Len(current)
              /\ Len(current) <= width

CutByNothing ==
    width = 0 =>
        LET first == Nth(Free, 1)
        IN  /\ \A n \in DOMAIN filed : n <= first => filed[n] = <<>>
            /\ i <= first => Len(filed) = i - 1 /\ current = <<>>
            /\ first < i /\ ~Finished => Len(filed) = first /\ current # <<>>

AllFiled ==
    Finished => current = <<>> /\ Len(filed) = NumWindows(Free, width)

IInv ==
    /\ TypeOK
    /\ LoopListsPassed
    /\ CutByWidth
    /\ CutByNothing
    /\ AllFiled

Before(free, x) == {c \in free : c < x}

\* The windows list the channels before x, in order and once each.
Lists(free, f, s, x) ==
    /\ f \in Seq(Seq(ChannelNumbers)) /\ s \in Seq(ChannelNumbers)
    /\ (UNION {Range(f[n]) : n \in DOMAIN f}) \cup Range(s) = Before(free, x)
    /\ Ascending(s)
    /\ \A n \in DOMAIN f : Ascending(f[n]) /\ Precedes(f[n], s)
    /\ \A m, n \in DOMAIN f : m < n => Precedes(f[m], f[n])

Slice(free, w, n) == {c \in free : Rank(free, c) \in ((n - 1) * w + 1)..(n * w)}

\* The windows are cut by the width.
Cut(free, w, f, s, x) ==
    /\ \A n \in DOMAIN f : Range(f[n]) = Slice(free, w, n)
    /\ Range(s) = {c \in Before(free, x) : Rank(free, c) > Len(f) * w}
    /\ Cardinality(Before(free, x)) = Len(f) * w + Len(s)
    /\ Len(s) <= w

-----------------------------------------------------------------------------
(***************************************************************************)
(* What a sequence lists after an element is appended.                     *)
(***************************************************************************)
LEMMA AppendLists ==
    ASSUME NEW S, NEW s \in Seq(S), NEW e \in S
    PROVE  /\ Append(s, e) \in Seq(S)
           /\ Len(Append(s, e)) = Len(s) + 1
           /\ DOMAIN s = 1..Len(s) /\ Len(s) \in Nat
           /\ DOMAIN Append(s, e) = DOMAIN s \cup {Len(s) + 1}
           /\ Len(s) + 1 \notin DOMAIN s
           /\ \A n \in DOMAIN s : Append(s, e)[n] = s[n]
           /\ Append(s, e)[Len(s) + 1] = e
           /\ Range(Append(s, e)) = Range(s) \cup {e}
<1>1. /\ Append(s, e) \in Seq(S)
      /\ Len(Append(s, e)) = Len(s) + 1
      /\ DOMAIN s = 1..Len(s) /\ Len(s) \in Nat
      /\ \A n \in DOMAIN s : Append(s, e)[n] = s[n]
      /\ Append(s, e)[Len(s) + 1] = e
  BY LenProperties, AppendProperties
<1>2. DOMAIN Append(s, e) = 1..(Len(s) + 1)
  BY <1>1, LenProperties
<1>3. DOMAIN Append(s, e) = DOMAIN s \cup {Len(s) + 1} /\ Len(s) + 1 \notin DOMAIN s
  BY <1>1, <1>2
<1> DEFINE t == Append(s, e)
<1>4. Range(t) = Range(s) \cup {e}
  <2>1. DOMAIN t = DOMAIN s \cup {Len(s) + 1} /\ t[Len(s) + 1] = e
        /\ \A n \in DOMAIN s : t[n] = s[n]
    BY <1>1, <1>3
  <2> HIDE DEF t
  <2>2. QED
    BY <2>1 DEF Range
<1>5. QED
  BY <1>1, <1>3, <1>4

LEMMA EmptyLists ==
    ASSUME NEW S
    PROVE  /\ <<>> \in Seq(S) /\ Len(<<>>) = 0
           /\ Range(<<>>) = {} /\ Ascending(<<>>)
           /\ \A t : Precedes(t, <<>>)
<1>1. DOMAIN <<>> = {}
  OBVIOUS
<1>2. QED
  BY <1>1, EmptySeq DEF Range, Ascending, Precedes

(***************************************************************************)
(* A list of numbers below the appended one stays in order.                *)
(***************************************************************************)
LEMMA AppendAscending ==
    ASSUME NEW s \in Seq(ChannelNumbers), NEW e \in ChannelNumbers, Ascending(s),
           \A c \in Range(s) : c < e
    PROVE  Ascending(Append(s, e))
<1> DEFINE t == Append(s, e)
<1>1. /\ DOMAIN s = 1..Len(s) /\ Len(s) \in Nat
      /\ DOMAIN t = DOMAIN s \cup {Len(s) + 1}
      /\ \A n \in DOMAIN s : t[n] = s[n]
      /\ t[Len(s) + 1] = e
  BY AppendLists
<1>2. \A n \in DOMAIN s : t[n] < e
  BY <1>1 DEF Range
<1> HIDE DEF t
<1>3. ASSUME NEW m \in DOMAIN t, NEW n \in DOMAIN t, m < n
      PROVE  t[m] < t[n]
  <2>1. CASE n \in DOMAIN s
    <3>1. m \in DOMAIN s
      BY <1>1, <1>3, <2>1
    <3>2. QED
      BY <1>1, <1>3, <2>1, <3>1 DEF Ascending
  <2>2. CASE n = Len(s) + 1
    <3>1. m \in DOMAIN s
      BY <1>1, <1>3, <2>2
    <3>2. QED
      BY <1>1, <1>2, <2>2, <3>1
  <2>3. QED
    BY <1>1, <2>1, <2>2
<1>4. Ascending(t)
  BY <1>3 DEF Ascending
<1>5. QED
  BY <1>4 DEF t

(***************************************************************************)
(* The channels before the next number are those before this one, and      *)
(* this one if it is free.                                                 *)
(***************************************************************************)
LEMMA BeforeNext ==
    ASSUME NEW free \in SUBSET ChannelNumbers, NEW x \in ChannelNumbers
    PROVE  /\ x \notin Before(free, x)
           /\ x \in free => Before(free, x + 1) = Before(free, x) \cup {x}
           /\ x \notin free => Before(free, x + 1) = Before(free, x)
<1>1. x \in Int /\ \A c \in free : c \in Int
  BY MaxChannelAssumption DEF ChannelNumbers
<1>2. ~(x < x) /\ \A c \in free : c < x + 1 <=> c < x \/ c = x
  BY <1>1
<1>3. QED
  BY <1>2 DEF Before

(***************************************************************************)
(* The channels before x are those of the first positions; if x is free,   *)
(* it stands at the next one.                                              *)
(***************************************************************************)
LEMMA RankBefore ==
    ASSUME NEW free \in SUBSET ChannelNumbers, free # {}, NEW x \in Int
    PROVE  LET p == Cardinality(Before(free, x))
           IN  /\ p \in Nat
               /\ \A c \in free : c < x <=> Rank(free, c) <= p
               /\ x \in free => /\ Rank(free, x) = p + 1
                                /\ Cardinality(Before(free, x + 1)) = p + 1
<1> DEFINE B == Before(free, x)
           p == Cardinality(B)
<1>1. IsFiniteSet(free) /\ free \subseteq Int
  BY FreeIsFinite
<1>2. B \subseteq free /\ IsFiniteSet(B) /\ p \in Nat
  <2>1. B \subseteq free
    BY DEF Before
  <2> HIDE DEF B
  <2>2. QED
    BY <1>1, <2>1, FS_Subset, FS_CardinalityType
<1>3. ASSUME NEW c \in free
      PROVE  c < x <=> Rank(free, c) <= p
  <2> DEFINE U == {y \in free : y <= c}
  <2>1. Rank(free, c) = Cardinality(U)
    BY DEF Rank
  <2>2. IsFiniteSet(U) /\ Cardinality(U) \in Nat
    <3>1. U \subseteq free
      OBVIOUS
    <3> HIDE DEF U
    <3>2. QED
      BY <1>1, <3>1, FS_Subset, FS_CardinalityType
  <2>3. CASE c < x
    <3>1. U \subseteq B
      <4>1. \A y \in free : y <= c => y < x
        BY <1>1, <2>3
      <4>2. QED
        BY <4>1 DEF Before
    <3> HIDE DEF U, B
    <3>2. Cardinality(U) <= p
      BY <1>2, <3>1, FS_Subset
    <3>3. QED
      BY <2>1, <2>3, <3>2
  <2>4. CASE ~(c < x)
    <3>1. B \subseteq U /\ c \in U /\ c \notin B
      <4>1. c <= c /\ \A y \in free : y < x => y <= c
        BY <1>1, <2>4
      <4>2. QED
        BY <2>4, <4>1 DEF Before
    <3> HIDE DEF U, B
    <3>2. p <= Cardinality(U) /\ p # Cardinality(U)
      BY <2>2, <3>1, FS_Subset
    <3>3. QED
      BY <1>2, <2>1, <2>2, <2>4, <3>2
  <2>5. QED
    BY <2>3, <2>4
<1>4. ASSUME x \in free
      PROVE  Rank(free, x) = p + 1 /\ Cardinality(Before(free, x + 1)) = p + 1
  <2>1. Before(free, x + 1) = B \cup {x} /\ x \notin B
    BY <1>4, BeforeNext
  <2>2. Cardinality(B \cup {x}) = p + 1
    <3> HIDE DEF B
    <3>1. QED
      BY <1>2, <2>1, FS_AddElement
  <2>3. {y \in free : y <= x} = Before(free, x + 1)
    <3>1. \A y \in free : y <= x <=> y < x + 1
      BY <1>1
    <3>2. QED
      BY <3>1 DEF Before
  <2>4. QED
    BY <2>1, <2>2, <2>3 DEF Rank
<1>5. QED
  BY <1>2, <1>3, <1>4

-----------------------------------------------------------------------------
(***************************************************************************)
(* Filing the current window lists the same channels.                      *)
(***************************************************************************)
LEMMA FileLists ==
    ASSUME NEW free, NEW f, NEW s, NEW x, Lists(free, f, s, x)
    PROVE  Lists(free, Append(f, s), <<>>, x)
<1> DEFINE g == Append(f, s)
           k == Len(f) + 1
<1>1. /\ g \in Seq(Seq(ChannelNumbers))
      /\ DOMAIN f = 1..Len(f) /\ Len(f) \in Nat
      /\ DOMAIN g = DOMAIN f \cup {k}
      /\ \A n \in DOMAIN f : g[n] = f[n]
      /\ g[k] = s
  BY AppendLists DEF Lists
<1>2. k \in Int /\ \A n \in DOMAIN f : n \in Int /\ n < k
  BY <1>1
<1> HIDE DEF g, k
<1>3. UNION {Range(g[n]) : n \in DOMAIN g} =
        (UNION {Range(f[n]) : n \in DOMAIN f}) \cup Range(s)
  BY <1>1
<1>4. (UNION {Range(g[n]) : n \in DOMAIN g}) \cup Range(<<>>) = Before(free, x)
  BY <1>3, EmptyLists DEF Lists
<1>5. ASSUME NEW m \in DOMAIN g, NEW n \in DOMAIN g, m < n
      PROVE  Precedes(g[m], g[n])
  <2>1. m \in DOMAIN f
    BY <1>1, <1>2, <1>5
  <2>2. QED
    BY <1>1, <1>5, <2>1 DEF Lists
<1>6. \A n \in DOMAIN g : Ascending(g[n]) /\ Precedes(g[n], <<>>)
  BY <1>1, EmptyLists DEF Lists
<1>7. Lists(free, g, <<>>, x)
  BY <1>1, <1>4, <1>5, <1>6, EmptyLists DEF Lists
<1>8. QED
  BY <1>7 DEF g

(***************************************************************************)
(* Passing a channel lists it if it is not pinned.                         *)
(***************************************************************************)
LEMMA PassLists ==
    ASSUME NEW free \in SUBSET ChannelNumbers, NEW f, NEW s,
           NEW x \in ChannelNumbers, Lists(free, f, s, x)
    PROVE  Lists(free, f, IF x \in free THEN Append(s, x) ELSE s, x + 1)
<1>1. CASE x \notin free
  <2>1. Before(free, x + 1) = Before(free, x)
    BY <1>1, BeforeNext
  <2>2. QED
    BY <1>1, <2>1 DEF Lists
<1>2. CASE x \in free
  <2> DEFINE t == Append(s, x)
  <2>1. Before(free, x + 1) = Before(free, x) \cup {x} /\ x \notin Before(free, x)
    BY <1>2, BeforeNext
  <2>2. t \in Seq(ChannelNumbers) /\ Range(t) = Range(s) \cup {x}
    BY AppendLists DEF Lists
  <2>3. \A c \in Range(s) : c < x
    <3>1. Range(s) \subseteq Before(free, x)
      BY DEF Lists
    <3>2. QED
      BY <3>1 DEF Before
  <2>4. Ascending(t)
    BY <2>3, AppendAscending DEF Lists
  <2> HIDE DEF t
  <2>5. ASSUME NEW n \in DOMAIN f
        PROVE  Ascending(f[n]) /\ Precedes(f[n], t)
    <3>1. Range(f[n]) \subseteq Before(free, x)
      BY DEF Lists
    <3>2. \A c \in Range(f[n]) : c < x
      BY <3>1 DEF Before
    <3>3. Ascending(f[n]) /\ Precedes(f[n], s)
      BY DEF Lists
    <3>4. QED
      BY <2>2, <3>2, <3>3 DEF Precedes
  <2>6. (UNION {Range(f[n]) : n \in DOMAIN f}) \cup Range(t) = Before(free, x + 1)
    BY <2>1, <2>2 DEF Lists
  <2>7. Lists(free, f, t, x + 1)
    BY <2>2, <2>4, <2>5, <2>6 DEF Lists
  <2>8. QED
    BY <1>2, <2>7 DEF t
<1>3. QED
  BY <1>1, <1>2

-----------------------------------------------------------------------------
(***************************************************************************)
(* Filing a full window keeps the cut.                                     *)
(***************************************************************************)
LEMMA FileCut ==
    ASSUME NEW free \in SUBSET ChannelNumbers, free # {}, NEW w \in Nat \ {0},
           NEW f \in Seq(Seq(ChannelNumbers)), NEW s \in Seq(ChannelNumbers), NEW x \in Int,
           Cut(free, w, f, s, x), Len(s) = w
    PROVE  Cut(free, w, Append(f, s), <<>>, x)
<1> DEFINE g == Append(f, s)
           k == Len(f) + 1
           p == Cardinality(Before(free, x))
           a == Len(f) * w
           b == k * w
<1>1. /\ Len(g) = k /\ Len(f) \in Nat
      /\ DOMAIN g = DOMAIN f \cup {k}
      /\ \A n \in DOMAIN f : g[n] = f[n]
      /\ g[k] = s
  BY AppendLists
<1>2. a \in Nat /\ b \in Nat /\ b = a + w /\ k - 1 = Len(f)
  BY <1>1, SMTT(30)
<1>3. p = b /\ Range(s) = {c \in Before(free, x) : Rank(free, c) > a}
  BY <1>2 DEF Cut
<1>4. /\ \A c \in free : c < x <=> Rank(free, c) <= p
      /\ \A c \in free : Rank(free, c) \in Nat
  <2>1. \A c \in free : c < x <=> Rank(free, c) <= p
    BY RankBefore
  <2>2. IsFiniteSet(free)
    BY FreeIsFinite
  <2>3. \A c \in free : Rank(free, c) \in 0..Cardinality(free) /\ Cardinality(free) \in Nat
    BY <2>2, RankRange
  <2>4. QED
    BY <2>1, <2>3
<1>5. Slice(free, w, k) = {c \in free : Rank(free, c) \in (a + 1)..b}
  BY <1>2 DEF Slice
<1> HIDE DEF a, b, g, k, p
<1>6. Range(s) = Slice(free, w, k)
  <2>1. \A c \in free : Rank(free, c) \in (a + 1)..b <=> Rank(free, c) <= b /\ Rank(free, c) > a
    BY <1>2, <1>4
  <2>2. \A c \in free : c < x <=> Rank(free, c) <= b
    BY <1>3, <1>4
  <2>3. QED
    BY <1>3, <1>5, <2>1, <2>2 DEF Before
<1>7. \A n \in DOMAIN g : Range(g[n]) = Slice(free, w, n)
  BY <1>1, <1>6 DEF Cut
<1>8. {c \in Before(free, x) : Rank(free, c) > b} = {}
  <2>1. \A c \in free : c < x => ~(Rank(free, c) > b)
    BY <1>2, <1>3, <1>4
  <2>2. QED
    BY <2>1 DEF Before
<1>9. Cut(free, w, g, <<>>, x)
  <2>1. Len(g) * w = b /\ Len(<<>>) = 0 /\ Range(<<>>) = {}
    BY <1>1, EmptyLists DEF b
  <2>2. p = Len(g) * w + Len(<<>>)
    BY <1>2, <1>3, <2>1
  <2>3. QED
    BY <1>7, <1>8, <2>1, <2>2 DEF Cut, p
<1>10. QED
  BY <1>9 DEF g

(***************************************************************************)
(* Passing a channel keeps the cut while there is room.                    *)
(***************************************************************************)
LEMMA PassCut ==
    ASSUME NEW free \in SUBSET ChannelNumbers, free # {}, NEW w \in Nat \ {0},
           NEW f \in Seq(Seq(ChannelNumbers)), NEW s \in Seq(ChannelNumbers),
           NEW x \in ChannelNumbers, Cut(free, w, f, s, x), Len(s) < w
    PROVE  Cut(free, w, f, IF x \in free THEN Append(s, x) ELSE s, x + 1)
<1>1. CASE x \notin free
  <2>1. Before(free, x + 1) = Before(free, x)
    BY <1>1, BeforeNext
  <2>2. QED
    BY <1>1, <2>1 DEF Cut
<1>2. CASE x \in free
  <2> DEFINE t == Append(s, x)
             p == Cardinality(Before(free, x))
             a == Len(f) * w
  <2>1. Before(free, x + 1) = Before(free, x) \cup {x}
    BY <1>2, BeforeNext
  <2>2. Range(t) = Range(s) \cup {x} /\ Len(t) = Len(s) + 1 /\ Len(s) \in Nat
    BY AppendLists
  <2>3. a \in Nat
    <3>1. Len(f) \in Nat
      BY LenProperties
    <3>2. QED
      BY <3>1, SMTT(30)
  <2>4. Rank(free, x) = p + 1 /\ Cardinality(Before(free, x + 1)) = p + 1
    <3>1. x \in Int
      BY MaxChannelAssumption DEF ChannelNumbers
    <3>2. QED
      BY <1>2, <3>1, RankBefore
  <2>5. p = a + Len(s) /\ Range(s) = {c \in Before(free, x) : Rank(free, c) > a}
    BY DEF Cut
  <2> HIDE DEF a, p, t
  <2>6. Rank(free, x) > a
    BY <2>2, <2>3, <2>4, <2>5
  <2>7. Range(t) = {c \in Before(free, x + 1) : Rank(free, c) > a}
    BY <2>1, <2>2, <2>5, <2>6
  <2>8. Cardinality(Before(free, x + 1)) = a + Len(t) /\ Len(t) <= w
    BY <2>2, <2>3, <2>4, <2>5
  <2>9. Cut(free, w, f, t, x + 1)
    BY <2>7, <2>8 DEF Cut, a
  <2>10. QED
    BY <1>2, <2>9 DEF t
<1>3. QED
  BY <1>1, <1>2

(***************************************************************************)
(* A number of channels between a and a + 1 times the width, the latter    *)
(* included, makes a + 1 windows.                                          *)
(***************************************************************************)
LEMMA WindowsNeeded ==
    ASSUME NEW a \in Nat, NEW w \in Nat \ {0}, NEW r \in 0..w
    PROVE  (a * w + r + w - 1) \div w = IF r = 0 THEN a ELSE a + 1
<1> DEFINE m == a * w + r + w - 1
           q == m \div w
<1>1. a * w \in Nat
  BY SMTT(30)
<1>2. m \in Nat
  BY <1>1
<1>3. q \in Nat /\ q * w <= m /\ m < q * w + w
  BY <1>2, SMTT(30)
<1>4. ASSUME NEW b \in Nat, b * w <= m, m < b * w + w
      PROVE  q = b
  <2>1. ~(q < b)
    <3>1. q < b => q * w + w <= b * w
      BY <1>3, SMTT(30)
    <3>2. b * w \in Nat /\ q * w \in Nat
      BY <1>3, SMTT(30)
    <3> HIDE DEF m, q
    <3>3. QED
      BY <1>2, <1>3, <1>4, <3>1, <3>2
  <2>2. ~(b < q)
    <3>1. b < q => b * w + w <= q * w
      BY <1>3, SMTT(30)
    <3>2. b * w \in Nat /\ q * w \in Nat
      BY <1>3, SMTT(30)
    <3> HIDE DEF m, q
    <3>3. QED
      BY <1>2, <1>3, <1>4, <3>1, <3>2
  <2> HIDE DEF m, q
  <2>3. QED
    BY <1>3, <2>1, <2>2
<1>5. CASE r = 0
  <2>1. a * w <= m /\ m < a * w + w
    BY <1>1, <1>5
  <2>2. QED
    BY <1>4, <1>5, <2>1
<1>6. CASE r # 0
  <2>1. (a + 1) * w = a * w + w
    BY SMTT(30)
  <2>2. (a + 1) * w <= m /\ m < (a + 1) * w + w
    BY <1>1, <1>6, <2>1
  <2>3. QED
    BY <1>4, <1>6, <2>2
<1>7. QED
  BY <1>5, <1>6

(***************************************************************************)
(* When every channel is passed, the windows filed and the one left over   *)
(* are as many as the closed form has, and the one left over is its last.  *)
(***************************************************************************)
LEMMA LastCut ==
    ASSUME NEW free \in SUBSET ChannelNumbers, free # {}, NEW w \in Nat \ {0},
           NEW f \in Seq(Seq(ChannelNumbers)), NEW s \in Seq(ChannelNumbers),
           Cut(free, w, f, s, MaxChannel + 1)
    PROVE  /\ Range(s) = Slice(free, w, Len(f) + 1)
           /\ NumWindows(free, w) = IF Len(s) = 0 THEN Len(f) ELSE Len(f) + 1
<1> DEFINE a == Len(f) * w
           b == (Len(f) + 1) * w
           m == Cardinality(free)
<1>1. Len(f) \in Nat /\ Len(s) \in 0..w
  BY LenProperties DEF Cut
<1>2. a \in Nat /\ b \in Nat /\ b = a + w /\ (Len(f) + 1 - 1) * w = a
  BY <1>1, SMTT(30)
<1>3. Before(free, MaxChannel + 1) = free
  <2>1. \A c \in free : c < MaxChannel + 1
    BY MaxChannelAssumption DEF ChannelNumbers
  <2>2. QED
    BY <2>1 DEF Before
<1>4. m = a + Len(s) /\ Range(s) = {c \in free : Rank(free, c) > a}
  BY <1>3 DEF Cut
<1>5. \A c \in free : Rank(free, c) \in 1..m
  BY FreeIsFinite, RankRange
<1>6. Slice(free, w, Len(f) + 1) = {c \in free : Rank(free, c) \in (a + 1)..b}
  BY <1>2 DEF Slice
<1>7. Range(s) = Slice(free, w, Len(f) + 1)
  <2> HIDE DEF a, b, m
  <2>1. \A c \in free : Rank(free, c) \in (a + 1)..b <=> Rank(free, c) > a
    BY <1>1, <1>2, <1>4, <1>5
  <2>2. QED
    BY <1>4, <1>6, <2>1
<1>8. NumWindows(free, w) = IF Len(s) = 0 THEN Len(f) ELSE Len(f) + 1
  <2>1. NumWindows(free, w) = (a + Len(s) + w - 1) \div w
    BY <1>4 DEF NumWindows
  <2>2. QED
    BY <1>1, <2>1, WindowsNeeded
<1>9. QED
  BY <1>7, <1>8

(***************************************************************************)
(* No free channel comes before the first one.                             *)
(***************************************************************************)
LEMMA FirstIsLeast ==
    ASSUME NEW free \in SUBSET ChannelNumbers, free # {}, NEW c \in free
    PROVE  Nth(free, 1) <= c
<1> DEFINE first == Nth(free, 1)
<1>1. IsFiniteSet(free) /\ free \subseteq Int /\ Cardinality(free) \in 1..MaxChannel
  BY FreeIsFinite
<1>2. first \in free /\ Rank(free, first) = 1
  <2>1. 1 \in 1..Cardinality(free)
    BY <1>1
  <2>2. QED
    BY <1>1, <2>1, NthProperties
<1>3. Rank(free, c) \in 1..Cardinality(free)
  BY <1>1, RankRange
<1> HIDE DEF first
<1>4. c < first => Rank(free, c) < Rank(free, first)
  BY <1>1, <1>2, RankIncreasing
<1>5. ~(c < first)
  BY <1>2, <1>3, <1>4, <1>1, MaxChannelAssumption
<1>6. first \in Int /\ c \in Int
  BY <1>1, <1>2
<1>7. QED
  BY <1>5, <1>6 DEF first

-----------------------------------------------------------------------------
(***************************************************************************)
(* At least one channel of the page is not pinned.                         *)
(***************************************************************************)
LEMMA SomeFree ==
    ASSUME TypeOK
    PROVE  Free \in SUBSET ChannelNumbers /\ Free # {}
<1>1. IsFiniteSet(ChannelNumbers) /\ Cardinality(ChannelNumbers) = MaxChannel
  <2>1. /\ IsFiniteSet(1..MaxChannel)
        /\ Cardinality(1..MaxChannel) = IF 1 > MaxChannel THEN 0 ELSE MaxChannel - 1 + 1
    BY FS_Interval, MaxChannelAssumption
  <2>2. QED
    BY <2>1, MaxChannelAssumption DEF ChannelNumbers
<1>2. pinnedHere # ChannelNumbers
  BY <1>1, MaxChannelAssumption, NumStripsAssumption DEF TypeOK
<1>3. QED
  BY <1>2 DEF TypeOK, Free

(***************************************************************************)
(* The parts of the invariant in terms of what is filed, current and next. *)
(***************************************************************************)
LEMMA InvariantParts ==
    ASSUME IInv
    PROVE  /\ Lists(Free, filed, current, i)
           /\ width > 0 /\ ~Finished => Cut(Free, width, filed, current, i)
<1>1. Lists(Free, filed, current, i)
  BY DEF IInv, TypeOK, LoopListsPassed, Listed, Precedes, Lists, Before, Free
<1>2. width > 0 /\ ~Finished => Cut(Free, width, filed, current, i)
  BY DEF IInv, CutByWidth, Cut, Slice, Before, Passed
<1>3. QED
  BY <1>1, <1>2

LEMMA InitInvariant == Init => IInv
<1> SUFFICES ASSUME Init
             PROVE  IInv
  OBVIOUS
<1>1. TypeOK
  <2>1. IsFiniteSet(pinnedHere)
    <3>1. IsFiniteSet(1..MaxChannel)
      BY FS_Interval, MaxChannelAssumption
    <3>2. QED
      BY <3>1, FS_Subset DEF Init, ChannelNumbers
  <2>2. Cardinality(pinnedHere) \in Nat
    BY <2>1, FS_CardinalityType
  <2>3. width \in 0..NumStrips
    BY <2>2, NumStripsAssumption DEF Init
  <2>4. i \in 1..(MaxChannel + 2)
    BY MaxChannelAssumption DEF Init
  <2>5. QED
    BY <2>3, <2>4, EmptyLists DEF Init, TypeOK
<1>2. /\ DOMAIN filed = {} /\ Len(filed) = 0 /\ ~Finished /\ i = 1
      /\ current = <<>> /\ Len(current) = 0 /\ Range(current) = {} /\ Ascending(current)
  BY EmptyLists, MaxChannelAssumption DEF Init, Finished
<1>3. Passed = {}
  BY <1>1, <1>2, MaxChannelAssumption DEF Passed, Free, ChannelNumbers
<1>4. LoopListsPassed
  BY <1>2, <1>3 DEF LoopListsPassed, Listed, Passed, Free
<1>5. CutByWidth
  <2>1. Len(filed) * width + Len(current) = 0 /\ Cardinality(Passed) = 0 /\ 0 <= width
    BY <1>1, <1>2, <1>3, FS_EmptySet DEF TypeOK
  <2>2. QED
    BY <1>2, <1>3, <2>1 DEF CutByWidth
<1>6. CutByNothing
  <2>1. Nth(Free, 1) \in 1..MaxChannel
    BY <1>1, SomeFree, FirstFree
  <2>2. QED
    BY <1>2, <2>1, MaxChannelAssumption DEF CutByNothing
<1>7. QED
  BY <1>1, <1>2, <1>4, <1>5, <1>6 DEF IInv, AllFiled

(***************************************************************************)
(* An iteration with no width: until the first free channel is passed it   *)
(* files an empty window, afterwards it files nothing.                     *)
(***************************************************************************)
LEMMA IterateUncut == IInv /\ Iterate => CutByNothing'
<1> SUFFICES ASSUME IInv, Iterate, width = 0
             PROVE  CutByNothing'
  BY DEF CutByNothing, Iterate
<1> DEFINE first == Nth(Free, 1)
<1>1. /\ Free' = Free /\ i' = i + 1 /\ i \in ChannelNumbers /\ i \in Int
      /\ i <= MaxChannel /\ ~Finished /\ ~Finished'
  BY MaxChannelAssumption DEF Iterate, Free, Finished, IInv, TypeOK, ChannelNumbers
<1>2. /\ first \in Free /\ first \in Int
      /\ \A c \in Free : first <= c
  <2>1. Free \in SUBSET ChannelNumbers /\ Free # {}
    BY SomeFree DEF IInv
  <2>2. QED
    BY <2>1, FirstFree, FirstIsLeast
<1>3. /\ filed \in Seq(Seq(ChannelNumbers)) /\ current \in Seq(ChannelNumbers)
      /\ \A n \in DOMAIN filed : n <= first => filed[n] = <<>>
      /\ i <= first => Len(filed) = i - 1 /\ current = <<>>
      /\ first < i => Len(filed) = first /\ current # <<>>
  BY <1>1 DEF IInv, TypeOK, CutByNothing
<1> HIDE DEF first
<1>4. /\ \A n \in DOMAIN filed' : n <= first => filed'[n] = <<>>
      /\ i + 1 <= first => Len(filed') = i /\ current' = <<>>
      /\ first < i + 1 => Len(filed') = first /\ current' # <<>>
  <2>1. CASE i <= first
    <3>1. filed' = Append(filed, <<>>) /\ <<>> \in Seq(ChannelNumbers)
      BY <1>3, <2>1, EmptyLists DEF Iterate
    <3>2. /\ Len(filed') = i
          /\ \A n \in DOMAIN filed' : n <= first => filed'[n] = <<>>
      <4>1. /\ Len(Append(filed, <<>>)) = Len(filed) + 1
            /\ DOMAIN Append(filed, <<>>) = DOMAIN filed \cup {Len(filed) + 1}
            /\ \A n \in DOMAIN filed : Append(filed, <<>>)[n] = filed[n]
            /\ Append(filed, <<>>)[Len(filed) + 1] = <<>>
        BY <1>3, <3>1, AppendLists
      <4>2. QED
        BY <1>1, <1>3, <2>1, <3>1, <4>1
    <3>3. i \in pinnedHere <=> i \notin Free
      BY <1>1 DEF Free
    <3>4. current' = IF i \in Free THEN Append(<<>>, i) ELSE <<>>
      BY <1>3, <2>1, <3>3, EmptyLists DEF Iterate
    <3>5. Append(<<>>, i) # <<>>
      OBVIOUS
    <3>6. i < first => i \notin Free
      BY <1>1, <1>2
    <3>7. CASE i < first
      BY <1>1, <1>2, <3>2, <3>4, <3>6, <3>7
    <3>8. CASE i = first
      BY <1>1, <1>2, <3>2, <3>4, <3>5, <3>8
    <3>9. QED
      BY <1>1, <1>2, <2>1, <3>7, <3>8
  <2>2. CASE first < i
    <3>1. Len(current) # 0
      BY <1>3, <2>2, EmptySeq
    <3>2. filed' = filed /\ current' = (IF i \in pinnedHere THEN current ELSE Append(current, i))
      BY <3>1, <1>1, <1>3 DEF Iterate
    <3>3. Append(current, i) # <<>>
      BY <1>1, <1>3, AppendProperties
    <3>4. QED
      BY <1>1, <1>2, <1>3, <2>2, <3>2, <3>3
  <2>3. QED
    BY <1>1, <1>2, <2>1, <2>2
<1>5. i' - 1 = i
  BY <1>1
<1>6. QED
  BY <1>1, <1>4, <1>5 DEF CutByNothing, first

(***************************************************************************)
(* An iteration files the current window if it is full, then passes the    *)
(* channel.                                                                *)
(***************************************************************************)
LEMMA IterateInvariant == IInv /\ Iterate => IInv'
<1> SUFFICES ASSUME IInv, Iterate
             PROVE  IInv'
  OBVIOUS
<1> DEFINE full == Len(current) = width
           f == IF full THEN Append(filed, current) ELSE filed
           s == IF full THEN <<>> ELSE current
           t == IF i \in Free THEN Append(s, i) ELSE s
<1>1. /\ i \in ChannelNumbers /\ i \in Int /\ i' = i + 1 /\ Free' = Free /\ width' = width
      /\ pinnedHere' = pinnedHere /\ ~Finished /\ ~Finished'
      /\ width \in Nat
  BY MaxChannelAssumption, NumStripsAssumption
     DEF Iterate, Free, Finished, IInv, TypeOK, ChannelNumbers
<1>2. Free \in SUBSET ChannelNumbers /\ Free # {}
  BY SomeFree DEF IInv
<1>3. filed' = f /\ current' = t
  <2>1. i \in pinnedHere <=> i \notin Free
    BY <1>1 DEF Free
  <2>2. QED
    BY <2>1 DEF Iterate
<1>4. /\ Lists(Free, filed, current, i)
      /\ filed \in Seq(Seq(ChannelNumbers)) /\ current \in Seq(ChannelNumbers)
      /\ width > 0 => Cut(Free, width, filed, current, i)
  BY <1>1, InvariantParts DEF Lists
<1>5. Lists(Free, f, s, i)
  BY <1>4, FileLists
<1>6. Lists(Free, f, t, i + 1)
  BY <1>1, <1>2, <1>5, PassLists
<1>7. ASSUME width > 0
      PROVE  Cut(Free, width, f, t, i + 1)
  <2>1. width \in Nat \ {0}
    BY <1>1, <1>7
  <2>2. Cut(Free, width, f, s, i) /\ Len(s) < width
    <3>1. CASE full
      <4>1. Cut(Free, width, Append(filed, current), <<>>, i)
        BY <1>1, <1>2, <1>4, <1>7, <2>1, <3>1, FileCut
      <4>2. Len(<<>>) < width
        BY <1>7, EmptyLists
      <4>3. QED
        BY <3>1, <4>1, <4>2
    <3>2. CASE ~full
      <4>1. Len(current) <= width /\ Len(current) \in Nat
        BY <1>4, <1>7, LenProperties DEF Cut
      <4>2. QED
        BY <1>1, <1>4, <1>7, <3>2, <4>1
    <3>3. QED
      BY <3>1, <3>2
  <2>3. f \in Seq(Seq(ChannelNumbers)) /\ s \in Seq(ChannelNumbers)
    BY <1>5 DEF Lists
  <2> HIDE DEF f, s
  <2>4. QED
    BY <1>1, <1>2, <2>1, <2>2, <2>3, PassCut
<1> HIDE DEF f, s, t, full
<1>8. TypeOK'
  <2>1. i' \in 1..(MaxChannel + 2)
    BY <1>1, MaxChannelAssumption DEF ChannelNumbers
  <2>2. QED
    BY <1>1, <1>3, <1>6, <2>1 DEF TypeOK, Lists, IInv
<1>9. LoopListsPassed'
  BY <1>1, <1>3, <1>6 DEF LoopListsPassed, Listed, Precedes, Lists, Before, Free
<1>10. CutByWidth'
  BY <1>1, <1>3, <1>7 DEF CutByWidth, Cut, Slice, Before, Passed
<1>11. CutByNothing'
  BY IterateUncut
<1>12. AllFiled'
  BY <1>1 DEF AllFiled
<1>13. QED
  BY <1>8, <1>9, <1>10, <1>11, <1>12 DEF IInv

(***************************************************************************)
(* After the loop the window left over is filed unless it is empty.        *)
(***************************************************************************)
LEMMA FileLastInvariant == IInv /\ FileLast => IInv'
<1> SUFFICES ASSUME IInv, FileLast
             PROVE  IInv'
  OBVIOUS
<1> DEFINE rest == Len(current) > 0
           f == IF rest THEN Append(filed, current) ELSE filed
           first == Nth(Free, 1)
<1>1. /\ i = MaxChannel + 1 /\ i' = MaxChannel + 2 /\ Free' = Free /\ width' = width
      /\ pinnedHere' = pinnedHere /\ ~Finished /\ Finished'
      /\ width \in Nat /\ filed' = f /\ current' = <<>>
  BY MaxChannelAssumption, NumStripsAssumption
     DEF FileLast, Free, Finished, IInv, TypeOK, ChannelNumbers
<1>2. Free \in SUBSET ChannelNumbers /\ Free # {} /\ first \in 1..MaxChannel
  BY SomeFree, FirstFree DEF IInv
<1>3. /\ Lists(Free, filed, current, i)
      /\ filed \in Seq(Seq(ChannelNumbers)) /\ current \in Seq(ChannelNumbers)
      /\ Len(current) \in Nat /\ Len(filed) \in Nat
      /\ width > 0 => Cut(Free, width, filed, current, MaxChannel + 1)
  BY <1>1, InvariantParts, LenProperties DEF Lists
<1>4. Lists(Free, f, <<>>, MaxChannel + 2)
  <2>1. Before(Free, MaxChannel + 2) = Before(Free, i)
    <3>1. \A c \in Free : c < MaxChannel + 2 /\ c < i
      BY <1>1, <1>2, MaxChannelAssumption DEF ChannelNumbers
    <3>2. QED
      BY <3>1 DEF Before
  <2>2. CASE rest
    <3>1. Lists(Free, Append(filed, current), <<>>, i)
      BY <1>3, FileLists
    <3>2. \A g : Lists(Free, g, <<>>, i) => Lists(Free, g, <<>>, MaxChannel + 2)
      BY <2>1 DEF Lists
    <3>3. QED
      BY <2>2, <3>1, <3>2
  <2>3. CASE ~rest
    <3>1. current = <<>>
      BY <1>3, <2>3, EmptySeq
    <3>2. QED
      BY <1>3, <2>1, <2>3, <3>1 DEF Lists
  <2>4. QED
    BY <2>2, <2>3
<1>5. /\ rest => /\ DOMAIN f = DOMAIN filed \cup {Len(filed) + 1}
                 /\ Len(f) = Len(filed) + 1
                 /\ \A n \in DOMAIN filed : f[n] = filed[n]
                 /\ f[Len(filed) + 1] = current
      /\ ~rest => f = filed
  BY <1>3, AppendLists
<1> HIDE DEF f, first
<1>6. ASSUME width > 0
      PROVE  /\ \A n \in DOMAIN f : Range(f[n]) = Slice(Free, width, n)
             /\ Len(f) = NumWindows(Free, width)
  <2>1. width \in Nat \ {0}
    BY <1>1, <1>6
  <2>2. /\ Range(current) = Slice(Free, width, Len(filed) + 1)
        /\ NumWindows(Free, width) = IF Len(current) = 0 THEN Len(filed) ELSE Len(filed) + 1
    BY <1>2, <1>3, <1>6, <2>1, LastCut
  <2>3. \A n \in DOMAIN filed : Range(filed[n]) = Slice(Free, width, n)
    BY <1>3, <1>6 DEF Cut
  <2>4. QED
    BY <1>3, <1>5, <2>2, <2>3
<1>7. ASSUME width = 0
      PROVE  /\ \A n \in DOMAIN f : n <= first => f[n] = <<>>
             /\ Len(f) = NumWindows(Free, width)
  <2>1. first < i
    BY <1>1, <1>2, MaxChannelAssumption
  <2>2. /\ \A n \in DOMAIN filed : n <= first => filed[n] = <<>>
        /\ Len(filed) = first /\ current # <<>>
    BY <1>1, <1>7, <2>1 DEF IInv, CutByNothing, first
  <2>3. rest
    BY <1>3, <2>2, EmptySeq
  <2>4. NumWindows(Free, width) = first + 1
    BY <1>7 DEF NumWindows, first
  <2>5. QED
    BY <1>2, <1>5, <2>2, <2>3, <2>4
<1>8. TypeOK'
  <2>1. i' \in 1..(MaxChannel + 2)
    BY <1>1, MaxChannelAssumption
  <2>2. QED
    BY <1>1, <1>4, <2>1 DEF TypeOK, Lists, IInv
<1>9. LoopListsPassed'
  BY <1>1, <1>4 DEF LoopListsPassed, Listed, Precedes, Lists, Before, Free
<1>10. CutByWidth'
  BY <1>1, <1>6 DEF CutByWidth, Slice
<1>11. CutByNothing'
  <2>1. ~(MaxChannel + 2 <= first)
    BY <1>2, MaxChannelAssumption
  <2>2. QED
    BY <1>1, <1>7, <2>1 DEF CutByNothing, first
<1>12. AllFiled'
  <2>1. width > 0 \/ width = 0
    BY <1>1
  <2>2. QED
    BY <1>1, <1>6, <1>7, <2>1 DEF AllFiled
<1>13. QED
  BY <1>8, <1>9, <1>10, <1>11, <1>12 DEF IInv

-----------------------------------------------------------------------------
(***************************************************************************)
(* The parts of the loop's invariant hold throughout.                      *)
(***************************************************************************)
THEOREM InductiveInvariant == Spec => []IInv
<1>1. IInv /\ [Next]_vars => IInv'
  <2>1. ASSUME IInv, UNCHANGED vars
        PROVE  IInv'
    <3>1. /\ pinnedHere' = pinnedHere /\ width' = width /\ i' = i
          /\ current' = current /\ filed' = filed
          /\ Free' = Free /\ (Finished' <=> Finished)
      BY <2>1 DEF vars, Free, Finished
    <3>2. Passed' = Passed /\ Listed' = Listed
      BY <3>1 DEF Passed, Listed
    <3>3. TypeOK' /\ AllFiled'
      BY <2>1, <3>1 DEF IInv, TypeOK, AllFiled
    <3>4. LoopListsPassed'
      BY <2>1, <3>1, <3>2 DEF IInv, LoopListsPassed
    <3>5. CutByWidth' /\ CutByNothing'
      BY <2>1, <3>1, <3>2 DEF IInv, CutByWidth, CutByNothing
    <3>6. QED
      BY <3>3, <3>4, <3>5 DEF IInv
  <2>2. QED
    BY <2>1, IterateInvariant, FileLastInvariant DEF Next
<1>2. QED
  BY <1>1, InitInvariant, PTL DEF Spec

(***************************************************************************)
(* Every iteration keeps the lists complete and in order: the windows      *)
(* filed, then the one being filled, list the free channels passed, each   *)
(* once and in ascending order, within a window and from one to the next.  *)
(***************************************************************************)
THEOREM ListsPassed == Spec => []LoopListsPassed
<1>1. IInv => LoopListsPassed
  BY DEF IInv
<1>2. QED
  BY <1>1, InductiveInvariant, PTL

(***************************************************************************)
(* The loop of lines 336 to 355 computes Windows, the closed form that     *)
(* ChannelGroup uses and that WindowSize and WindowsPartition are about.   *)
(***************************************************************************)
THEOREM LoopComputesWindows == Spec => []LoopMatchesWindows
<1>1. ASSUME IInv, Finished
      PROVE  LoopMatchesWindows
  <2> DEFINE closed == Windows(Free, width)
             first == Nth(Free, 1)
  <2>1. /\ Free \in SUBSET ChannelNumbers /\ Free # {} /\ width \in Nat
        /\ filed \in Seq(Seq(ChannelNumbers)) /\ DOMAIN filed = 1..Len(filed)
        /\ Len(filed) \in Nat
    BY <1>1, SomeFree, NumStripsAssumption, LenProperties DEF IInv, TypeOK
  <2>2. Len(filed) = NumWindows(Free, width) /\ current = <<>>
    BY <1>1 DEF IInv, AllFiled
  <2>3. Len(filed) > 0 /\ DOMAIN closed = 0..(Len(filed) - 1)
    <3>1. NumWindows(Free, width) - 1 \in 0..MaxChannel
      BY <2>1, WindowsType
    <3>2. QED
      BY <2>1, <2>2, <3>1, MaxChannelAssumption DEF Windows
  <2>4. ASSUME NEW n \in DOMAIN filed
        PROVE  Range(filed[n]) = closed[n - 1] /\ Ascending(filed[n])
    <3>1. Ascending(filed[n])
      BY <1>1 DEF IInv, LoopListsPassed
    <3>2. n \in Int /\ n - 1 \in DOMAIN closed /\ n - 1 + 1 = n
      BY <2>1, <2>3
    <3>3. CASE width > 0
      <4>1. Range(filed[n]) = {c \in Free : Rank(Free, c) \in ((n - 1) * width + 1)..(n * width)}
        BY <1>1, <3>3 DEF IInv, CutByWidth
      <4>2. QED
        BY <2>1, <2>2, <2>3, <3>1, <3>2, <3>3, <4>1 DEF Windows
    <3>4. CASE width = 0
      <4>1. closed[n - 1] = IF n - 1 = first THEN Free ELSE {}
        BY <2>2, <2>3, <3>2, <3>4 DEF Windows
      <4>2. Len(filed) = first + 1 /\ first \in Int
        BY <2>1, <2>2, <3>4, FirstFree DEF NumWindows
      <4>3. \A m \in DOMAIN filed : m <= first => Range(filed[m]) = {}
        BY <1>1, <3>4, EmptyLists DEF IInv, CutByNothing
      <4> HIDE DEF first, closed
      <4>4. CASE n <= first
        BY <2>1, <3>1, <3>2, <4>1, <4>2, <4>3, <4>4
      <4>5. CASE n = first + 1
        <5>1. UNION {Range(filed[m]) : m \in DOMAIN filed} = Range(filed[n])
          <6>1. \A m \in DOMAIN filed : m # n => Range(filed[m]) = {}
            BY <2>1, <4>2, <4>3, <4>5
          <6>2. QED
            BY <6>1
        <5>2. Passed = Free
          <6>1. \A c \in Free : c < i
            BY <1>1, <2>1, MaxChannelAssumption DEF Finished, ChannelNumbers
          <6>2. QED
            BY <6>1 DEF Passed
        <5>3. Range(filed[n]) = Free
          BY <1>1, <2>2, <5>1, <5>2, EmptyLists
             DEF IInv, LoopListsPassed, Listed, Passed, Free
        <5>4. QED
          BY <3>1, <4>1, <4>2, <4>5, <5>3
      <4>6. QED
        BY <2>1, <3>2, <4>2, <4>4, <4>5
    <3>5. QED
      BY <2>1, <3>3, <3>4
  <2> HIDE DEF closed
  <2>5. QED
    BY <2>3, <2>4 DEF LoopMatchesWindows, closed, Free
<1>2. IInv => LoopMatchesWindows
  BY <1>1 DEF LoopMatchesWindows
<1>3. QED
  BY <1>2, InductiveInvariant, PTL
=============================================================================
