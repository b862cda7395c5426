------------------------- MODULE ChannelGroupProofs -------------------------
(***************************************************************************)
(* ChannelGroup for any number of strips, channels and pages: its state   *)
(* keeps its type, no two strips show the same channel, the windows cover *)
(* the page, the assertions fail only in the cases AbortsOnlyWhen names,  *)
(* the lights tell which keys have an effect, and it implements           *)
(* AddressBook.                                                           *)
(***************************************************************************)
EXTENDS ChannelGroup, ChannelWindowsProofs

(***************************************************************************)
(* What the invariants of ChannelGroup rest on.  Outside the pin layer,   *)
(* the windows the keys step through                                      *)
(*   - do not list a channel that is pinned,                              *)
(*   - are those GenerateChannelWindows would produce again, unless a     *)
(*     pinned strip was taken off its channel since, and                  *)
(*   - are full up to the final one, unless every strip is pinned.        *)
(***************************************************************************)
PinsOffWindows ==
    ~pinMode =>
        \A k \in DOMAIN windows : \A c \in windows[k] : \A s \in pinned :
            address[s] # [main |-> page, sub |-> c]

WindowsCurrent ==
    (~pinMode /\ \A s \in pinned : address[s].sub # Invalid) =>
        windows = GeneratedWindows(page)

WindowsFit ==
    (~pinMode /\ Unpinned # {}) =>
        \A k \in DOMAIN windows :
            /\ Cardinality(windows[k]) \in 1..Cardinality(Unpinned)
            /\ k # OffsetEnd(windows) => Cardinality(windows[k]) = Cardinality(Unpinned)

IInv ==
    /\ TypeOK
    /\ UniqueAddresses
    /\ AbortsOnlyWhen
    /\ PinsOffWindows
    /\ WindowsCurrent
    /\ WindowsFit

-----------------------------------------------------------------------------
(***************************************************************************)
(* Counting strips, pins and channels.                                    *)
(***************************************************************************)
LEMMA StripsFinite ==
    IsFiniteSet(Strips) /\ Cardinality(Strips) = NumStrips /\ Strips \subseteq Int
<1>1. 1 \in Int /\ NumStrips \in Int /\ NumStrips >= 1
  BY NumStripsAssumption
<1>2. /\ IsFiniteSet(1..NumStrips)
      /\ Cardinality(1..NumStrips) = IF 1 > NumStrips THEN 0 ELSE NumStrips - 1 + 1
  BY <1>1, FS_Interval
<1>3. QED
  BY <1>1, <1>2 DEF Strips

(***************************************************************************)
(* The strips that are not pinned are the others.                         *)
(***************************************************************************)
LEMMA PinnedCount ==
    ASSUME pinned \in SUBSET Strips
    PROVE  /\ IsFiniteSet(pinned)
           /\ Cardinality(pinned) \in 0..NumStrips
           /\ IsFiniteSet(Unpinned)
           /\ Unpinned \subseteq Int
           /\ Cardinality(Unpinned) = NumStrips - Cardinality(pinned)
           /\ Unpinned = {} <=> pinned = Strips
<1>1. IsFiniteSet(pinned) /\ Cardinality(pinned) <= NumStrips
  BY StripsFinite, FS_Subset
<1>2. Cardinality(pinned) \in Nat
  BY <1>1, FS_CardinalityType
<1>3. /\ IsFiniteSet(Unpinned)
      /\ Cardinality(Unpinned) = Cardinality(Strips) - Cardinality(Strips \cap pinned)
  BY StripsFinite, FS_Difference DEF Unpinned
<1>4. Strips \cap pinned = pinned
  OBVIOUS
<1>5. Cardinality(Unpinned) = NumStrips - Cardinality(pinned)
  BY <1>3, <1>4, StripsFinite
<1>6. Unpinned = {} <=> pinned = Strips
  BY DEF Unpinned
<1>7. Unpinned \subseteq Int
  BY StripsFinite DEF Unpinned
<1>8. Cardinality(pinned) \in 0..NumStrips
  BY <1>1, <1>2, NumStripsAssumption
<1>9. QED
  BY <1>1, <1>3, <1>5, <1>6, <1>7, <1>8

(***************************************************************************)
(* Pinned addresses are at most as many as pinned strips, and exactly as  *)
(* many if the assertion of GenerateChannelWindows holds.                 *)
(***************************************************************************)
LEMMA PinnedAddressCount ==
    ASSUME pinned \in SUBSET Strips
    PROVE  /\ IsFiniteSet(PinnedAddresses)
           /\ Cardinality(PinnedAddresses) \in 0..Cardinality(pinned)
           /\ PinsUnique => Cardinality(PinnedAddresses) = Cardinality(pinned)
<1> DEFINE f == [s \in pinned |-> address[s]]
<1>1. IsFiniteSet(pinned) /\ Cardinality(pinned) \in Nat
  BY PinnedCount, FS_CardinalityType
<1>2. f \in Surjection(pinned, PinnedAddresses)
  BY DEF Surjection, PinnedAddresses
<1>3. PinsUnique => f \in Injection(pinned, PinnedAddresses)
  BY <1>2 DEF PinsUnique, Injection, Surjection, IsInjective
<1> HIDE DEF f
<1>4. /\ IsFiniteSet(PinnedAddresses)
      /\ Cardinality(PinnedAddresses) <= Cardinality(pinned)
      /\ PinsUnique => Cardinality(PinnedAddresses) = Cardinality(pinned)
  BY <1>1, <1>2, <1>3, FS_Surjection
<1>5. QED
  BY <1>1, <1>4, FS_CardinalityType

(***************************************************************************)
(* More channels of a page are left to list than a window is wide,        *)
(* because a page has more channels than the surface has strips.          *)
(***************************************************************************)
LEMMA FreeChannelsCount ==
    ASSUME pinned \in SUBSET Strips, NEW p \in Pages
    PROVE  /\ FreeChannels(p) \in SUBSET ChannelNumbers
           /\ FreeChannels(p) # {}
           /\ WindowWidth \in 0..NumStrips
           /\ Cardinality(FreeChannels(p)) > WindowWidth
           /\ PinsUnique => WindowWidth = Cardinality(Unpinned)
<1> DEFINE taken == ChannelNumbers \ FreeChannels(p)
           g == [c \in taken |-> [main |-> p, sub |-> c]]
<1>1. IsFiniteSet(ChannelNumbers) /\ Cardinality(ChannelNumbers) = MaxChannel
  <2>1. 1 \in Int /\ MaxChannel \in Int
    BY MaxChannelAssumption
  <2>2. /\ IsFiniteSet(1..MaxChannel)
        /\ Cardinality(1..MaxChannel) = IF 1 > MaxChannel THEN 0 ELSE MaxChannel - 1 + 1
    BY <2>1, FS_Interval
  <2>3. QED
    BY <2>2, MaxChannelAssumption DEF ChannelNumbers
<1>2. /\ IsFiniteSet(PinnedAddresses)
      /\ Cardinality(PinnedAddresses) \in 0..NumStrips
      /\ PinsUnique => WindowWidth = Cardinality(Unpinned)
      /\ WindowWidth \in 0..NumStrips
  BY PinnedCount, PinnedAddressCount, NumStripsAssumption DEF WindowWidth
<1>3. g \in Injection(taken, PinnedAddresses)
  <2>1. g \in [taken -> PinnedAddresses]
    BY DEF FreeChannels
  <2>2. \A c, d \in taken : g[c] = g[d] => c = d
    OBVIOUS
  <2>3. QED
    BY <2>1, <2>2 DEF Injection, IsInjective
<1>4. IsFiniteSet(taken) /\ Cardinality(taken) <= Cardinality(PinnedAddresses)
  <2> HIDE DEF taken, g
  <2>1. QED
    BY <1>2, <1>3, FS_Injection
<1>5. FreeChannels(p) = ChannelNumbers \ taken /\ ChannelNumbers \cap taken = taken
  BY DEF FreeChannels
<1>6. Cardinality(FreeChannels(p)) = MaxChannel - Cardinality(taken)
  BY <1>1, <1>5, FS_Difference
<1>7. Cardinality(taken) \in Nat
  BY <1>4, FS_CardinalityType
<1> HIDE DEF taken
<1>8. Cardinality(FreeChannels(p)) > WindowWidth
  BY <1>2, <1>4, <1>6, <1>7, NumStripsAssumption, MaxChannelAssumption DEF WindowWidth
<1>9. FreeChannels(p) # {}
  BY <1>2, <1>8, FS_EmptySet
<1>10. QED
  BY <1>2, <1>8, <1>9 DEF FreeChannels

-----------------------------------------------------------------------------
(***************************************************************************)
(* m_channelOffsetEnd is the last index of m_channelWindows.              *)
(***************************************************************************)
LEMMA OffsetEndIsLast ==
    ASSUME NEW n \in Nat, NEW wins, DOMAIN wins = 0..n
    PROVE  OffsetEnd(wins) = n
<1>1. 0 \in Int /\ n \in Int
  OBVIOUS
<1>2. Cardinality(0..n) = IF 0 > n THEN 0 ELSE n - 0 + 1
  BY <1>1, FS_Interval
<1>3. QED
  BY <1>2 DEF OffsetEnd

(***************************************************************************)
(* What GenerateChannelWindows leaves: at least two windows, none of      *)
(* which lists a pinned channel, and full ones up to the last.            *)
(***************************************************************************)
LEMMA Generated ==
    ASSUME pinned \in SUBSET Strips, NEW p \in Pages
    PROVE  LET wins == GeneratedWindows(p)
               last == OffsetEnd(wins)
           IN  /\ last \in 1..MaxChannel
               /\ wins \in [0..last -> SUBSET ChannelNumbers]
               /\ \A k \in 0..last : \A c \in wins[k] : \A s \in pinned :
                     address[s] # [main |-> p, sub |-> c]
               /\ PinsUnique /\ Unpinned # {} =>
                     \A k \in 0..last :
                        /\ Cardinality(wins[k]) \in 1..Cardinality(Unpinned)
                        /\ k # last => Cardinality(wins[k]) = Cardinality(Unpinned)
<1> DEFINE wins == GeneratedWindows(p)
           last == NumWindows(FreeChannels(p), WindowWidth) - 1
<1>1. /\ FreeChannels(p) \in SUBSET ChannelNumbers
      /\ FreeChannels(p) # {}
      /\ WindowWidth \in 0..NumStrips
      /\ WindowWidth \in Nat
      /\ Cardinality(FreeChannels(p)) > WindowWidth
      /\ PinsUnique => WindowWidth = Cardinality(Unpinned)
  BY FreeChannelsCount, NumStripsAssumption
<1>2. /\ last \in 0..MaxChannel
      /\ wins \in [0..last -> SUBSET FreeChannels(p)]
  BY <1>1, WindowsType DEF GeneratedWindows
<1>3. last # 0
  <2>1. CASE WindowWidth = 0
    BY <1>1, <2>1, FirstFree DEF NumWindows
  <2>2. CASE WindowWidth # 0
    <3>1. Cardinality(FreeChannels(p)) \in Nat
      BY <1>1, FreeIsFinite
    <3>2. (Cardinality(FreeChannels(p)) + WindowWidth - 1) \div WindowWidth # 1
      BY <1>1, <2>2, <3>1, SMTT(30)
    <3>3. QED
      BY <2>2, <3>2 DEF NumWindows
  <2>3. QED
    BY <2>1, <2>2
<1>4. last = OffsetEnd(wins)
  <2>1. DOMAIN wins = 0..last /\ last \in Nat
    BY <1>2, MaxChannelAssumption
  <2> HIDE DEF wins, last
  <2>2. QED
    BY <2>1, OffsetEndIsLast
<1>5. \A k \in 0..last : \A c \in wins[k] : \A s \in pinned :
         address[s] # [main |-> p, sub |-> c]
  <2>1. \A k \in 0..last : \A c \in wins[k] : c \in FreeChannels(p)
    BY <1>2
  <2> HIDE DEF wins, last
  <2>2. QED
    BY <2>1 DEF FreeChannels, PinnedAddresses
<1>6. ASSUME PinsUnique, Unpinned # {}, NEW k \in 0..last
      PROVE  /\ Cardinality(wins[k]) \in 1..Cardinality(Unpinned)
             /\ k # last => Cardinality(wins[k]) = Cardinality(Unpinned)
  <2>1. Cardinality(Unpinned) # 0 /\ WindowWidth \in Nat \ {0}
    BY <1>1, <1>6, PinnedCount, FS_EmptySet
  <2>2. /\ Cardinality(wins[k]) \in 1..WindowWidth
        /\ k < last => Cardinality(wins[k]) = WindowWidth
    BY <1>1, <2>1, WindowSize DEF GeneratedWindows
  <2>3. k # last => k < last
    BY <1>2
  <2> HIDE DEF wins, last
  <2>4. QED
    BY <1>1, <1>6, <2>2, <2>3
<1>7. wins \in [0..last -> SUBSET ChannelNumbers]
  BY <1>1, <1>2
<1> HIDE DEF wins, last
<1>8. QED
  BY <1>2, <1>3, <1>4, <1>5, <1>6, <1>7 DEF wins

-----------------------------------------------------------------------------
(***************************************************************************)
(* What a page change or a scroll makes of the addresses: pinned strips   *)
(* keep their channel or lose it, the others show different channels of   *)
(* the window or none.                                                    *)
(***************************************************************************)
Shows(book, p, window) ==
    /\ book \in [Strips -> Addresses]
    /\ \A s \in pinned : book[s] # address[s] => book[s].sub = Invalid
    /\ \A s \in Unpinned : book[s].main = p /\ book[s].sub \in window \cup {Invalid}
    /\ \A s, t \in Unpinned : s # t /\ book[s] = book[t] => book[s].sub = Invalid

(***************************************************************************)
(* A window can be dealt out to the strips that come no later than it has *)
(* channels.                                                              *)
(***************************************************************************)
LEMMA DealtOut ==
    ASSUME pinned \in SUBSET Strips, NEW window \in SUBSET ChannelNumbers
    PROVE  /\ Cardinality(window) \in Nat
           /\ \A s \in Unpinned :
                 /\ Rank(Unpinned, s) \in 1..Cardinality(Unpinned)
                 /\ Rank(Unpinned, s) <= Cardinality(window) =>
                       Nth(window, Rank(Unpinned, s)) \in window
           /\ \A s, t \in Unpinned :
                 /\ s # t
                 /\ Rank(Unpinned, s) <= Cardinality(window)
                 /\ Rank(Unpinned, t) <= Cardinality(window)
                 => Nth(window, Rank(Unpinned, s)) # Nth(window, Rank(Unpinned, t))
<1>1. IsFiniteSet(window) /\ window \subseteq Int
  <2>1. 1 \in Int /\ MaxChannel \in Int
    BY MaxChannelAssumption
  <2>2. IsFiniteSet(ChannelNumbers)
    BY <2>1, FS_Interval DEF ChannelNumbers
  <2>3. IsFiniteSet(window)
    BY <2>2, FS_Subset
  <2>4. QED
    BY <2>3 DEF ChannelNumbers
<1>2. Cardinality(window) \in Nat
  BY <1>1, FS_CardinalityType
<1>3. IsFiniteSet(Unpinned) /\ Unpinned \subseteq Int
  BY PinnedCount
<1>4. \A s \in Unpinned : Rank(Unpinned, s) \in 1..Cardinality(Unpinned)
  BY <1>3, RankRange
<1>5. ASSUME NEW s \in Unpinned, Rank(Unpinned, s) <= Cardinality(window)
      PROVE  /\ Rank(Unpinned, s) \in 1..Cardinality(window)
             /\ Nth(window, Rank(Unpinned, s)) \in window
  <2>1. Rank(Unpinned, s) \in 1..Cardinality(window)
    BY <1>2, <1>4, <1>5
  <2>2. QED
    BY <1>1, <2>1, NthProperties
<1>6. ASSUME NEW s \in Unpinned, NEW t \in Unpinned, s # t,
             Rank(Unpinned, s) <= Cardinality(window),
             Rank(Unpinned, t) <= Cardinality(window)
      PROVE  Nth(window, Rank(Unpinned, s)) # Nth(window, Rank(Unpinned, t))
  <2>1. Rank(Unpinned, s) # Rank(Unpinned, t)
    BY <1>3, <1>6, RankInjective
  <2>2. QED
    BY <1>1, <1>5, <1>6, <2>1, NthInjective
<1>7. QED
  BY <1>2, <1>4, <1>5, <1>6

(***************************************************************************)
(* How both walks deal a window out: the strips in off show no channel,   *)
(* the other pinned ones keep theirs, and the rest get a channel of the   *)
(* window each.                                                           *)
(***************************************************************************)
Deals(book, p, window, off, dealt) ==
    /\ book = [s \in Strips |-> book[s]]
    /\ off \in SUBSET Strips
    /\ \A s \in off : book[s] = [main |-> p, sub |-> Invalid]
    /\ \A s \in pinned \ off : book[s] = address[s]
    /\ \A s \in Unpinned \ off : book[s] = [main |-> p, sub |-> dealt[s]]
    /\ \A s \in Unpinned \ off : dealt[s] \in window
    /\ \A s, t \in Unpinned \ off : s # t => dealt[s] # dealt[t]

(***************************************************************************)
(* Addresses dealt out like that are as Shows asks.                       *)
(***************************************************************************)
LEMMA DealsShows ==
    ASSUME TypeOK, NEW p \in Pages, NEW window \in SUBSET ChannelNumbers,
           NEW book, NEW off, NEW dealt, Deals(book, p, window, off, dealt)
    PROVE  Shows(book, p, window)
<1>0. USE DEF Deals
<1>1. pinned \in SUBSET Strips /\ address \in [Strips -> Addresses]
  BY DEF TypeOK
<1>2. \A c \in ChannelNumbers \cup {Invalid} :
         /\ [main |-> p, sub |-> c] \in Addresses
         /\ [main |-> p, sub |-> c].main = p
         /\ [main |-> p, sub |-> c].sub = c
  BY DEF Addresses
<1>3. \A s \in off : book[s] \in Addresses /\ book[s].main = p /\ book[s].sub = Invalid
  BY <1>2
<1>4. \A s \in Unpinned \ off :
         book[s] \in Addresses /\ book[s].main = p /\ book[s].sub = dealt[s]
  <2>1. ASSUME NEW s \in Unpinned \ off
        PROVE  book[s] \in Addresses /\ book[s].main = p /\ book[s].sub = dealt[s]
    <3>1. dealt[s] \in ChannelNumbers \cup {Invalid}
      OBVIOUS
    <3>2. book[s] = [main |-> p, sub |-> dealt[s]]
      OBVIOUS
    <3>3. QED
      BY <1>2, <3>1, <3>2
  <2>2. QED
    BY <2>1
<1>5. \A s \in pinned \ off : book[s] \in Addresses
  BY <1>1
<1>6. \A s \in Strips : book[s] \in Addresses
  BY <1>3, <1>4, <1>5 DEF Unpinned
<1>7. book \in [Strips -> Addresses]
  BY <1>6
<1>8. \A s \in pinned : book[s] # address[s] => book[s].sub = Invalid
  BY <1>3
<1>9. \A s \in Unpinned : book[s].main = p /\ book[s].sub \in window \cup {Invalid}
  BY <1>3, <1>4
<1>10. \A s, t \in Unpinned : s # t /\ book[s] = book[t] => book[s].sub = Invalid
  BY <1>3, <1>4
<1>11. QED
  BY <1>7, <1>8, <1>9, <1>10 DEF Shows

(***************************************************************************)
(* The walk over a window that has a channel for every strip that is not  *)
(* pinned.                                                                *)
(***************************************************************************)
LEMMA ShowWindowShows ==
    ASSUME TypeOK, NEW p \in Pages, NEW window \in SUBSET ChannelNumbers,
           Cardinality(window) >= Cardinality(Unpinned)
    PROVE  Shows(ShowWindow(p, window), p, window)
<1> DEFINE book == ShowWindow(p, window)
           dealt == [s \in Unpinned |-> Nth(window, Rank(Unpinned, s))]
<1>1. pinned \in SUBSET Strips
  BY DEF TypeOK
<1>2. Cardinality(Unpinned) \in Nat /\ Cardinality(window) \in Nat
  BY <1>1, PinnedCount, DealtOut, FS_CardinalityType
<1>3. \A s \in Unpinned : Rank(Unpinned, s) <= Cardinality(window)
  BY <1>1, <1>2, DealtOut
<1>4. \A s \in Unpinned : book[s] = [main |-> p, sub |-> dealt[s]] /\ dealt[s] \in window
  BY <1>1, <1>3, DealtOut DEF ShowWindow, Unpinned
<1>5. \A s \in pinned : book[s] = address[s]
  BY <1>1 DEF ShowWindow
<1>6. \A s, t \in Unpinned : s # t => dealt[s] # dealt[t]
  BY <1>1, <1>3, DealtOut
<1>7. book = [s \in Strips |-> book[s]]
  BY DEF ShowWindow
<1> HIDE DEF book, dealt
<1>8. Deals(book, p, window, {}, dealt)
  BY <1>4, <1>5, <1>6, <1>7 DEF Deals
<1>9. Shows(book, p, window)
  BY <1>8, DealsShows
<1>10. QED
  BY <1>9 DEF book

(***************************************************************************)
(* The walk over a final window that is too short.                        *)
(***************************************************************************)
LEMMA ShowFinalWindowShows ==
    ASSUME TypeOK, NEW p \in Pages, NEW window \in SUBSET ChannelNumbers,
           Cardinality(window) < Cardinality(Unpinned)
    PROVE  Shows(ShowFinalWindow(p, window), p, window)
<1> DEFINE book == ShowFinalWindow(p, window)
           dealt == [s \in Unpinned |-> Nth(window, Rank(Unpinned, s))]
           first == Nth(Unpinned, Cardinality(window) + 1)
           off == {s \in Strips : s >= first}
<1>1. pinned \in SUBSET Strips
  BY DEF TypeOK
<1>2. /\ IsFiniteSet(Unpinned) /\ Unpinned \subseteq Int
      /\ Cardinality(Unpinned) \in Nat /\ Cardinality(window) \in Nat
  BY <1>1, PinnedCount, DealtOut, FS_CardinalityType
<1>3. first \in Unpinned /\ Rank(Unpinned, first) = Cardinality(window) + 1
  <2>1. Cardinality(window) + 1 \in 1..Cardinality(Unpinned)
    BY <1>2
  <2>2. QED
    BY <1>2, <2>1, NthProperties
<1>4. \A s \in Strips :
         book[s] = IF s >= first THEN [main |-> p, sub |-> Invalid]
                   ELSE IF s \in pinned THEN address[s]
                   ELSE [main |-> p, sub |-> dealt[s]]
  <2>1. \A s \in Strips :
           ShowWindow(p, window)[s] = IF s \in pinned THEN address[s]
                                      ELSE [main |-> p, sub |-> dealt[s]]
    BY DEF ShowWindow, Unpinned
  <2>2. \A s \in Strips :
           book[s] = IF s >= first THEN [main |-> p, sub |-> Invalid]
                                   ELSE ShowWindow(p, window)[s]
    BY DEF ShowFinalWindow
  <2> HIDE DEF book, first, dealt
  <2>3. QED
    BY <2>1, <2>2
<1>5. book = [s \in Strips |-> book[s]]
  BY DEF ShowFinalWindow
<1> HIDE DEF first, book
<1>6. \A s \in Unpinned \ off : Rank(Unpinned, s) <= Cardinality(window)
  <2>1. ASSUME NEW s \in Unpinned, ~(s >= first)
        PROVE  Rank(Unpinned, s) <= Cardinality(window)
    <3>1. s \in Int /\ first \in Int
      BY <1>2, <1>3
    <3>2. s < first
      BY <2>1, <3>1
    <3>3. Rank(Unpinned, s) < Rank(Unpinned, first)
      BY <1>2, <1>3, <3>2, RankIncreasing
    <3>4. Rank(Unpinned, s) \in 1..Cardinality(Unpinned)
      BY <1>1, DealtOut
    <3>5. QED
      BY <1>2, <1>3, <3>3, <3>4
  <2>2. QED
    BY <2>1 DEF Unpinned
<1>7. \A s \in Unpinned \ off : dealt[s] \in window
  BY <1>1, <1>6, DealtOut
<1>8. \A s, t \in Unpinned \ off : s # t => dealt[s] # dealt[t]
  BY <1>1, <1>6, DealtOut
<1> HIDE DEF dealt
<1>9. \A s \in off : book[s] = [main |-> p, sub |-> Invalid]
  BY <1>4
<1>10. \A s \in pinned \ off : book[s] = address[s]
  BY <1>1, <1>4
<1>11. \A s \in Unpinned \ off : book[s] = [main |-> p, sub |-> dealt[s]]
  BY <1>4 DEF Unpinned
<1>12. off \in SUBSET Strips
  OBVIOUS
<1> HIDE DEF off
<1>13. Deals(book, p, window, off, dealt)
  BY <1>5, <1>7, <1>8, <1>9, <1>10, <1>11, <1>12 DEF Deals
<1>14. Shows(book, p, window)
  BY <1>13, DealsShows
<1>15. QED
  BY <1>14 DEF book

(***************************************************************************)
(* If the window does not list a pinned channel, the new addresses are    *)
(* again pairwise different.                                              *)
(***************************************************************************)
LEMMA ShowsDistinct ==
    ASSUME TypeOK, UniqueAddresses,
           NEW p \in Pages, NEW window \in SUBSET ChannelNumbers, NEW book,
           Shows(book, p, window),
           \A c \in window : \A s \in pinned : address[s] # [main |-> p, sub |-> c],
           NEW s \in Strips, NEW t \in Strips, s # t, book[s] = book[t]
    PROVE  book[s].sub = Invalid
<1>1. \A a \in Addresses : a = [main |-> a.main, sub |-> a.sub]
  BY DEF Addresses
<1>2. book[s] \in Addresses
  BY DEF Shows
<1>3. CASE s \in Unpinned /\ t \in Unpinned
  BY <1>3 DEF Shows
<1>4. CASE s \in pinned /\ t \in pinned
  BY <1>4 DEF Shows, UniqueAddresses
<1>5. CASE s \in pinned /\ t \in Unpinned
  BY <1>1, <1>2, <1>5 DEF Shows
<1>6. CASE s \in Unpinned /\ t \in pinned
  BY <1>1, <1>2, <1>6 DEF Shows
<1>7. QED
  BY <1>3, <1>4, <1>5, <1>6 DEF Unpinned

-----------------------------------------------------------------------------
(***************************************************************************)
(* The windows do not change if the pins keep their addresses.            *)
(***************************************************************************)
LEMMA SamePins ==
    ASSUME pinned' = pinned, \A s \in pinned : address'[s] = address[s]
    PROVE  GeneratedWindows(page)' = GeneratedWindows(page')
<1>1. PinnedAddresses' = PinnedAddresses
  BY DEF PinnedAddresses
<1>2. FreeChannels(page)' = FreeChannels(page') /\ WindowWidth' = WindowWidth
  BY <1>1 DEF FreeChannels, WindowWidth
<1>3. QED
  BY <1>2 DEF GeneratedWindows

(***************************************************************************)
(* RefreshPageChannelLights leaves a light state.                         *)
(***************************************************************************)
LEMMA RefreshedLightsType ==
    ASSUME lights \in Lights, NEW p, NEW offset, NEW wins
    PROVE  RefreshedLights(p, offset, wins) \in Lights
<1>1. CASE blockUpdates
  BY <1>1 DEF RefreshedLights
<1>2. CASE ~blockUpdates
  <2>1. RefreshedLights(p, offset, wins) =
          [key \in NavKeys |->
            CASE key = "SCROLL_RIGHT" -> offset # OffsetEnd(wins)
              [] key = "SCROLL_LEFT"  -> offset > 0
              [] key = "PAGE_INC"     -> p < MaxPage
              [] key = "PAGE_DEC"     -> p > 1]
    BY <1>2 DEF RefreshedLights
  <2>2. QED
    BY <2>1 DEF Lights, NavKeys
<1>3. QED
  BY <1>1, <1>2

(***************************************************************************)
(* The invariant holds when the group is constructed.                     *)
(***************************************************************************)
LEMMA InitInvariant == Init => IInv
<1> SUFFICES ASSUME Init PROVE IInv
  OBVIOUS
<1> USE DEF Init
<1>1. 1 \in Pages /\ pinned \in SUBSET Strips
  BY MaxPageAssumption DEF Pages
<1>2. /\ OffsetEnd(windows) \in 1..MaxChannel
      /\ windows \in [0..OffsetEnd(windows) -> SUBSET ChannelNumbers]
      /\ PinsUnique /\ Unpinned # {} =>
            \A k \in 0..OffsetEnd(windows) :
               /\ Cardinality(windows[k]) \in 1..Cardinality(Unpinned)
               /\ k # OffsetEnd(windows) => Cardinality(windows[k]) = Cardinality(Unpinned)
  BY <1>1, Generated
<1>3. TypeOK
  <2>1. address \in [Strips -> Addresses]
    BY NumStripsAssumption, MaxChannelAssumption, <1>1 DEF Strips, Addresses, ChannelNumbers
  <2>2. channelOffset \in DOMAIN windows /\ \E n \in 0..MaxChannel : windows \in [0..n -> SUBSET ChannelNumbers]
    BY <1>2, MaxChannelAssumption
  <2>3. lights \in Lights
    BY DEF Lights, LightsOff, NavKeys
  <2>4. lightStack \in Seq(Lights) /\ Len(lightStack) = 0
    OBVIOUS
  <2>5. page \in Pages /\ failed \in Assertions \cup {"none"}
    BY <1>1
  <2>6. sequence \in 0..(SequenceModulus - 1)
    BY SequenceModulusAssumption
  <2>7. pinMode \in BOOLEAN /\ blockUpdates = pinMode /\ ~pinMode
    BY Zenon
  <2> HIDE DEF Init
  <2>8. QED
    BY <1>1, <2>1, <2>2, <2>3, <2>4, <2>5, <2>6, <2>7 DEF TypeOK
<1>4. UniqueAddresses
  BY DEF UniqueAddresses
<1>5. PinsOffWindows /\ WindowsCurrent
  BY DEF PinsOffWindows, WindowsCurrent
<1>6. WindowsFit
  BY <1>2 DEF WindowsFit, PinsUnique
<1>7. QED
  BY <1>3, <1>4, <1>5, <1>6 DEF IInv, AbortsOnlyWhen

(***************************************************************************)
(* A failing assertion of a kind AbortsOnlyWhen allows preserves the      *)
(* invariant: nothing else changes.                                       *)
(***************************************************************************)
LEMMA AbortInvariant ==
    ASSUME IInv, NEW a, a \in {"PinsNotUnique", "WindowLeftOver"}, Abort(a),
           a = "PinsNotUnique" => ~PinsUnique,
           a = "WindowLeftOver" => pinned = Strips
    PROVE  IInv'
<1> USE DEF Abort, IInv
<1>1. TypeOK'
  BY DEF TypeOK, Assertions
<1>2. UniqueAddresses'
  BY DEF UniqueAddresses
<1>3. AbortsOnlyWhen'
  <2>1. ASSUME ~PinsUnique
        PROVE  \E s, t \in pinned : s # t /\ address[s].sub = Invalid /\ address[t].sub = Invalid
    <3>1. PICK s \in pinned, t \in pinned : s # t /\ address[s] = address[t]
      BY <2>1 DEF PinsUnique
    <3>2. address[s].sub = Invalid /\ address[t].sub = Invalid
      BY <3>1 DEF UniqueAddresses, TypeOK
    <3>3. QED
      BY <3>1, <3>2
  <2>2. QED
    BY <2>1 DEF AbortsOnlyWhen
<1>4. GeneratedWindows(page)' = GeneratedWindows(page)
  BY SamePins
<1>5. PinsOffWindows' /\ WindowsCurrent' /\ WindowsFit'
  BY <1>4 DEF PinsOffWindows, WindowsCurrent, WindowsFit, Unpinned, OffsetEnd
<1>6. QED
  BY <1>1, <1>2, <1>3, <1>5

(***************************************************************************)
(* A key that moves nothing but the sequence number.                      *)
(***************************************************************************)
LEMMA StaysInvariant ==
    ASSUME IInv, sequence' = NextSequence,
           UNCHANGED <<page, channelOffset, windows, pinned, address, pinMode,
                       blockUpdates, lights, lightStack, failed>>
    PROVE  IInv'
<1> USE DEF IInv
<1>1. NextSequence \in 0..(SequenceModulus - 1)
  BY SequenceModulusAssumption DEF NextSequence, TypeOK
<1>2. TypeOK'
  BY <1>1 DEF TypeOK
<1>3. UniqueAddresses' /\ AbortsOnlyWhen'
  BY DEF UniqueAddresses, AbortsOnlyWhen
<1>4. GeneratedWindows(page)' = GeneratedWindows(page)
  BY SamePins
<1>5. PinsOffWindows' /\ WindowsCurrent' /\ WindowsFit'
  BY <1>4 DEF PinsOffWindows, WindowsCurrent, WindowsFit, Unpinned, OffsetEnd
<1>6. QED
  BY <1>2, <1>3, <1>5

(***************************************************************************)
(* New addresses dealt out of a window that lists no pinned channel       *)
(* preserve what the invariant says of addresses, pins and windows, if    *)
(* the windows are kept or generated afresh.                              *)
(***************************************************************************)
LEMMA RetargetInvariant ==
    ASSUME IInv, ~pinMode, ~pinMode', pinned' = pinned, page' \in Pages,
           NEW window \in SUBSET ChannelNumbers,
           Shows(address', page', window),
           \A c \in window : \A s \in pinned : address[s] # [main |-> page', sub |-> c],
           \/ windows' = windows /\ page' = page
           \/ windows' = GeneratedWindows(page') /\ PinsUnique
    PROVE  UniqueAddresses' /\ PinsOffWindows' /\ WindowsCurrent' /\ WindowsFit'
<1> USE DEF IInv
<1>1. UniqueAddresses'
  BY ShowsDistinct DEF UniqueAddresses
<1>2. pinned \in SUBSET Strips
  BY DEF TypeOK
<1>3. \A s \in pinned : address'[s] # address[s] => address'[s].sub = Invalid
  BY DEF Shows
<1>4. (\A s \in pinned : address'[s].sub # Invalid) =>
         GeneratedWindows(page)' = GeneratedWindows(page')
  BY <1>3, SamePins
<1>5. (\A s \in pinned : address'[s].sub # Invalid) => \A s \in pinned : address[s].sub # Invalid
  BY <1>3
<1>6. WindowsCurrent'
  <2>1. CASE windows' = windows /\ page' = page
    BY <1>4, <1>5, <2>1 DEF WindowsCurrent
  <2>2. CASE windows' = GeneratedWindows(page')
    BY <1>4, <2>2 DEF WindowsCurrent
  <2>3. QED
    BY <2>1, <2>2
<1>7. \A k \in DOMAIN windows' : windows'[k] \subseteq ChannelNumbers
  BY <1>2, Generated DEF TypeOK
<1>8. \A k \in DOMAIN windows' : \A c \in windows'[k] : \A s \in pinned :
         address[s] # [main |-> page', sub |-> c]
  BY <1>2, Generated DEF PinsOffWindows
<1>9. PinsOffWindows'
  <2>1. ASSUME NEW k \in DOMAIN windows', NEW c \in windows'[k], NEW s \in pinned,
               address'[s] = [main |-> page', sub |-> c]
        PROVE  FALSE
    <3>1. address'[s] # address[s]
      BY <1>8, <2>1
    <3>2. address'[s].sub = Invalid /\ address'[s].sub = c
      BY <1>3, <2>1, <3>1
    <3>3. QED
      BY <1>7, <2>1, <3>2, InvalidAssumption
  <2>2. QED
    BY <2>1 DEF PinsOffWindows
<1>10. WindowsFit'
  <2>1. Unpinned' = Unpinned
    BY DEF Unpinned
  <2>2. CASE windows' = windows /\ page' = page
    BY <2>1, <2>2 DEF WindowsFit, OffsetEnd
  <2>3. CASE windows' = GeneratedWindows(page') /\ PinsUnique
    <3>1. LET last == OffsetEnd(windows')
          IN  /\ DOMAIN windows' = 0..last
              /\ Unpinned # {} =>
                    \A k \in 0..last :
                       /\ Cardinality(windows'[k]) \in 1..Cardinality(Unpinned)
                       /\ k # last => Cardinality(windows'[k]) = Cardinality(Unpinned)
      BY <1>2, <2>3, Generated
    <3>2. QED
      BY <2>1, <3>1 DEF WindowsFit, OffsetEnd
  <2>4. QED
    BY <2>2, <2>3
<1>11. QED
  BY <1>1, <1>6, <1>9, <1>10

(***************************************************************************)
(* PAGE- and PAGE+.  The first window always has a channel for every      *)
(* strip, so the assertion at line 228 of channelgroup.cpp holds.         *)
(***************************************************************************)
LEMMA ChangePageInvariant ==
    ASSUME IInv, NEW d \in {-1, 1}, ChangePage(d)
    PROVE  IInv'
<1> DEFINE p == page + d
           wins == GeneratedWindows(p)
<1> USE DEF IInv
<1>1. p \in Pages /\ pinned \in SUBSET Strips /\ failed = "none" /\ ~pinMode
  BY DEF ChangePage, GroupHandlesKeys, TypeOK
<1>2. /\ OffsetEnd(wins) \in 1..MaxChannel
      /\ wins \in [0..OffsetEnd(wins) -> SUBSET ChannelNumbers]
      /\ \A k \in 0..OffsetEnd(wins) : \A c \in wins[k] : \A s \in pinned :
            address[s] # [main |-> p, sub |-> c]
      /\ PinsUnique /\ Unpinned # {} =>
            \A k \in 0..OffsetEnd(wins) :
               /\ Cardinality(wins[k]) \in 1..Cardinality(Unpinned)
               /\ k # OffsetEnd(wins) => Cardinality(wins[k]) = Cardinality(Unpinned)
  BY <1>1, Generated
<1>3. 0 \in 0..OffsetEnd(wins) /\ 0 # OffsetEnd(wins) /\ wins[0] \in SUBSET ChannelNumbers
  <2> HIDE DEF wins
  <2>1. QED
    BY <1>2, MaxChannelAssumption
<1>4. PinsUnique => Cardinality(wins[0]) >= Cardinality(Unpinned)
  <2>1. Cardinality(wins[0]) \in Nat /\ Cardinality(Unpinned) \in Nat
    BY <1>1, <1>3, DealtOut, PinnedCount, FS_CardinalityType
  <2>2. CASE Unpinned = {}
    BY <2>1, <2>2, FS_EmptySet
  <2>3. CASE Unpinned # {}
    BY <1>2, <1>3, <2>1, <2>3
  <2>4. QED
    BY <2>2, <2>3
<1>5. CASE ~PinsUnique /\ Abort("PinsNotUnique")
  BY <1>5, AbortInvariant
<1>6. CASE /\ PinsUnique
           /\ page' = p
           /\ windows' = wins
           /\ channelOffset' = 0
           /\ address' = ShowWindow(p, wins[0])
           /\ lights' = RefreshedLights(p, 0, wins)
           /\ sequence' = NextSequence
           /\ UNCHANGED <<pinned, pinMode, blockUpdates, lightStack, failed>>
  <2> HIDE DEF p, wins
  <2>1. Shows(address', page', wins[0])
    BY <1>1, <1>3, <1>4, <1>6, ShowWindowShows
  <2>2. UniqueAddresses' /\ PinsOffWindows' /\ WindowsCurrent' /\ WindowsFit'
    <3>1. \A c \in wins[0] : \A s \in pinned : address[s] # [main |-> page', sub |-> c]
      BY <1>2, <1>3, <1>6
    <3>2. windows' = GeneratedWindows(page') /\ page' \in Pages /\ ~pinMode'
      BY <1>1, <1>6 DEF wins
    <3>3. QED
      BY <1>1, <1>3, <1>6, <2>1, <3>1, <3>2, RetargetInvariant
  <2>3. TypeOK'
    <3>1. lights' \in Lights
      BY <1>6, RefreshedLightsType DEF TypeOK
    <3>2. sequence' \in 0..(SequenceModulus - 1)
      BY <1>6, SequenceModulusAssumption DEF NextSequence, TypeOK
    <3>3. address' \in [Strips -> Addresses]
      BY <2>1 DEF Shows
    <3>4. /\ \E n \in 0..MaxChannel : windows' \in [0..n -> SUBSET ChannelNumbers]
          /\ channelOffset' \in DOMAIN windows'
      BY <1>2, <1>3, <1>6, MaxChannelAssumption
    <3>5. QED
      BY <1>1, <1>6, <3>1, <3>2, <3>3, <3>4 DEF TypeOK
  <2>4. AbortsOnlyWhen'
    BY <1>1, <1>6 DEF AbortsOnlyWhen
  <2>5. QED
    BY <2>2, <2>3, <2>4
<1>7. \/ /\ ~PinsUnique \/ Cardinality(wins[0]) < Cardinality(Unpinned)
         /\ Abort(IF ~PinsUnique THEN "PinsNotUnique" ELSE "WindowTooShort")
      \/ /\ PinsUnique
         /\ page' = p
         /\ windows' = wins
         /\ channelOffset' = 0
         /\ address' = ShowWindow(p, wins[0])
         /\ lights' = RefreshedLights(p, 0, wins)
         /\ sequence' = NextSequence
         /\ UNCHANGED <<pinned, pinMode, blockUpdates, lightStack, failed>>
  BY DEF ChangePage
<1>8. Cardinality(wins[0]) \in Nat /\ Cardinality(Unpinned) \in Nat
  BY <1>1, <1>3, DealtOut, PinnedCount, FS_CardinalityType
<1> HIDE DEF p, wins
<1>9. PinsUnique => ~(Cardinality(wins[0]) < Cardinality(Unpinned))
  BY <1>4, <1>8
<1>10. QED
  BY <1>5, <1>6, <1>7, <1>9

(***************************************************************************)
(* SCROLL LEFT and SCROLL RIGHT.  Windows before the final one have       *)
(* exactly one channel per strip, and the final one no more than that,    *)
(* unless every strip is pinned: of the assertions of ScrollPage, the one *)
(* at line 290 holds and the one at line 307 fails only in that case.     *)
(***************************************************************************)
LEMMA ScrollPageInvariant ==
    ASSUME IInv, NEW d \in {-1, 1}, ScrollPage(d)
    PROVE  IInv'
<1> DEFINE offset == channelOffset + d
           window == windows[offset]
           size == Cardinality(window)
           final == offset = OffsetEnd(windows)
           fits == size = Cardinality(Unpinned) \/ (final /\ size < Cardinality(Unpinned))
<1> USE DEF IInv
<1>1. /\ offset \in DOMAIN windows /\ page \in Pages /\ pinned \in SUBSET Strips
      /\ failed = "none" /\ ~pinMode
      /\ window \in SUBSET ChannelNumbers
  BY DEF ScrollPage, GroupHandlesKeys, TypeOK
<1>2. \A c \in window : \A s \in pinned : address[s] # [main |-> page, sub |-> c]
  BY <1>1 DEF PinsOffWindows
<1>3. size \in Nat /\ Cardinality(Unpinned) \in Nat
  BY <1>1, DealtOut, PinnedCount, FS_CardinalityType
<1>4. \/ /\ ~fits
         /\ Abort(IF size < Cardinality(Unpinned) THEN "WindowTooShort" ELSE "WindowLeftOver")
      \/ /\ fits
         /\ channelOffset' = offset
         /\ address' = IF size = Cardinality(Unpinned)
                       THEN ShowWindow(page, window)
                       ELSE ShowFinalWindow(page, window)
         /\ lights' = RefreshedLights(page, offset, windows)
         /\ sequence' = NextSequence
         /\ UNCHANGED <<page, windows, pinned, pinMode, blockUpdates, lightStack, failed>>
  BY DEF ScrollPage
<1> HIDE DEF offset
<1>5. ~fits => pinned = Strips /\ ~(size < Cardinality(Unpinned))
  <2>1. CASE Unpinned = {}
    <3>1. Cardinality(Unpinned) = 0
      BY <2>1, FS_EmptySet
    <3>2. QED
      BY <1>1, <1>3, <2>1, <3>1, PinnedCount
  <2>2. CASE Unpinned # {}
    <3>1. size \in 1..Cardinality(Unpinned) /\ (~final => size = Cardinality(Unpinned))
      BY <1>1, <2>2 DEF WindowsFit
    <3>2. QED
      BY <1>3, <3>1
  <2>3. QED
    BY <2>1, <2>2
<1>6. CASE ~fits /\ Abort("WindowLeftOver")
  BY <1>5, <1>6, AbortInvariant
<1>7. CASE /\ fits
           /\ channelOffset' = offset
           /\ address' = IF size = Cardinality(Unpinned)
                         THEN ShowWindow(page, window)
                         ELSE ShowFinalWindow(page, window)
           /\ lights' = RefreshedLights(page, offset, windows)
           /\ sequence' = NextSequence
           /\ UNCHANGED <<page, windows, pinned, pinMode, blockUpdates, lightStack, failed>>
  <2>1. Shows(address', page', window)
    <3>1. CASE size = Cardinality(Unpinned)
      <4>1. size >= Cardinality(Unpinned)
        BY <1>3, <3>1
      <4>2. Shows(ShowWindow(page, window), page, window)
        BY <1>1, <4>1, ShowWindowShows
      <4>3. QED
        BY <1>7, <3>1, <4>2
    <3>2. CASE size # Cardinality(Unpinned)
      <4>1. size < Cardinality(Unpinned)
        BY <1>7, <3>2
      <4>2. Shows(ShowFinalWindow(page, window), page, window)
        BY <1>1, <4>1, ShowFinalWindowShows
      <4>3. QED
        BY <1>7, <3>2, <4>2
    <3>3. QED
      BY <3>1, <3>2
  <2> HIDE DEF window
  <2>2. UniqueAddresses' /\ PinsOffWindows' /\ WindowsCurrent' /\ WindowsFit'
    BY <1>1, <1>2, <1>7, <2>1, RetargetInvariant
  <2>3. TypeOK'
    <3>1. lights' \in Lights
      BY <1>7, RefreshedLightsType DEF TypeOK
    <3>2. sequence' \in 0..(SequenceModulus - 1)
      BY <1>7, SequenceModulusAssumption DEF NextSequence, TypeOK
    <3>3. address' \in [Strips -> Addresses]
      BY <2>1 DEF Shows
    <3>4. /\ \E n \in 0..MaxChannel : windows' \in [0..n -> SUBSET ChannelNumbers]
          /\ channelOffset' \in DOMAIN windows'
      BY <1>1, <1>7 DEF TypeOK
    <3>5. QED
      BY <1>7, <3>1, <3>2, <3>3, <3>4 DEF TypeOK
  <2>4. AbortsOnlyWhen'
    BY <1>1, <1>7 DEF AbortsOnlyWhen
  <2>5. QED
    BY <2>2, <2>3, <2>4
<1> HIDE DEF fits, size
<1>8. QED
  BY <1>4, <1>5, <1>6, <1>7

(***************************************************************************)
(* PIN, into the pin layer.                                               *)
(***************************************************************************)
LEMMA EnterPinModeInvariant ==
    ASSUME IInv, EnterPinMode
    PROVE  IInv'
<1> USE DEF IInv, EnterPinMode
<1>1. lightStack \in Seq(Lights) /\ Len(lightStack) = 0 /\ lights \in Lights
  BY DEF TypeOK, GroupHandlesKeys
<1>2. lightStack' \in Seq(Lights) /\ Len(lightStack') = 1
  BY <1>1
<1>3. lights' \in Lights
  BY DEF LightsOff, Lights
<1>4. TypeOK'
  BY <1>2, <1>3 DEF TypeOK
<1>5. UniqueAddresses' /\ AbortsOnlyWhen'
  BY DEF UniqueAddresses, AbortsOnlyWhen
<1>6. PinsOffWindows' /\ WindowsCurrent' /\ WindowsFit'
  BY DEF PinsOffWindows, WindowsCurrent, WindowsFit
<1>7. QED
  BY <1>4, <1>5, <1>6

(***************************************************************************)
(* SELECT and MUTE in the pin layer.                                      *)
(***************************************************************************)
LEMMA TogglePinInvariant ==
    ASSUME IInv, NEW s \in Strips, PinStrip(s) \/ UnpinStrip(s)
    PROVE  IInv'
<1> USE DEF IInv, PinStrip, UnpinStrip
<1>1. lights' \in Lights
  BY DEF LightsOff, Lights
<1>2. pinned' \in SUBSET Strips
  BY DEF TypeOK
<1>3. TypeOK'
  BY <1>1, <1>2 DEF TypeOK
<1>4. UniqueAddresses' /\ AbortsOnlyWhen'
  BY DEF UniqueAddresses, AbortsOnlyWhen
<1>5. PinsOffWindows' /\ WindowsCurrent' /\ WindowsFit'
  BY DEF PinsOffWindows, WindowsCurrent, WindowsFit
<1>6. QED
  BY <1>3, <1>4, <1>5

(***************************************************************************)
(* PIN, out of the pin layer: the windows are generated for the new pins. *)
(***************************************************************************)
LEMMA ExitPinModeInvariant ==
    ASSUME IInv, ExitPinMode
    PROVE  IInv'
<1> DEFINE wins == GeneratedWindows(page)
           last == OffsetEnd(wins)
<1> USE DEF IInv
<1>1. page \in Pages /\ pinned \in SUBSET Strips /\ failed = "none" /\ pinMode
  BY DEF TypeOK, ExitPinMode
<1>2. CASE ~PinsUnique /\ Abort("PinsNotUnique")
  BY <1>2, AbortInvariant
<1>3. CASE /\ PinsUnique
           /\ windows' = wins
           /\ channelOffset' = Clamp(channelOffset, wins)
           /\ lights' = lightStack[Len(lightStack)]
           /\ lightStack' = SubSeq(lightStack, 1, Len(lightStack) - 1)
           /\ pinMode' = FALSE
           /\ blockUpdates' = FALSE
           /\ UNCHANGED <<page, pinned, address, sequence, failed>>
  <2>1. /\ last \in 1..MaxChannel
        /\ wins \in [0..last -> SUBSET ChannelNumbers]
        /\ \A k \in 0..last : \A c \in wins[k] : \A s \in pinned :
              address[s] # [main |-> page, sub |-> c]
        /\ Unpinned # {} =>
              \A k \in 0..last :
                 /\ Cardinality(wins[k]) \in 1..Cardinality(Unpinned)
                 /\ k # last => Cardinality(wins[k]) = Cardinality(Unpinned)
    BY <1>1, <1>3, Generated
  <2>2. Clamp(channelOffset, wins) \in 0..last
    <3>1. channelOffset \in Nat
      BY DEF TypeOK
    <3> HIDE DEF wins
    <3>2. QED
      BY <2>1, <3>1, MaxChannelAssumption DEF Clamp
  <2>3. wins = GeneratedWindows(page)' /\ Unpinned' = Unpinned
    BY <1>3, SamePins DEF Unpinned
  <2> HIDE DEF wins
  <2>4. PinsOffWindows' /\ WindowsFit' /\ WindowsCurrent'
    <3>1. DOMAIN windows' = 0..last /\ OffsetEnd(windows') = last
      BY <1>3, <2>1
    <3>2. PinsOffWindows'
      BY <1>3, <2>1, <3>1 DEF PinsOffWindows
    <3>3. WindowsFit'
      BY <1>3, <2>1, <2>3, <3>1 DEF WindowsFit, OffsetEnd
    <3>4. WindowsCurrent'
      BY <1>3, <2>3 DEF WindowsCurrent
    <3>5. QED
      BY <3>2, <3>3, <3>4
  <2>5. TypeOK'
    <3>1. lightStack \in Seq(Lights) /\ Len(lightStack) = 1
      BY <1>1 DEF TypeOK
    <3>2. lights' \in Lights
      BY <1>3, <3>1
    <3>3. lightStack' \in Seq(Lights) /\ Len(lightStack') = 0
      BY <1>3, <3>1
    <3>4. /\ \E n \in 0..MaxChannel : windows' \in [0..n -> SUBSET ChannelNumbers]
          /\ channelOffset' \in DOMAIN windows'
      BY <1>3, <2>1, <2>2, MaxChannelAssumption
    <3>5. QED
      BY <1>3, <3>2, <3>3, <3>4 DEF TypeOK
  <2>6. UniqueAddresses' /\ AbortsOnlyWhen'
    BY <1>3 DEF UniqueAddresses, AbortsOnlyWhen
  <2>7. QED
    BY <2>4, <2>5, <2>6
<1>4. QED
  BY <1>2, <1>3 DEF ExitPinMode

(***************************************************************************)
(* Every step preserves the invariant.                                    *)
(***************************************************************************)
LEMMA NextInvariant == IInv /\ [Next]_vars => IInv'
<1> SUFFICES ASSUME IInv, [Next]_vars PROVE IInv'
  OBVIOUS
<1>1. ASSUME NEW d \in {-1, 1}, ChangePageStays(d) \/ ScrollPageStays(d)
      PROVE  IInv'
  BY <1>1, StaysInvariant DEF ChangePageStays, ScrollPageStays
<1>2. ASSUME NEW d \in {-1, 1}, ChangePage(d)
      PROVE  IInv'
  BY <1>2, ChangePageInvariant
<1>3. ASSUME NEW d \in {-1, 1}, ScrollPage(d)
      PROVE  IInv'
  BY <1>3, ScrollPageInvariant
<1>4. CASE EnterPinMode
  BY <1>4, EnterPinModeInvariant
<1>5. ASSUME NEW s \in Strips, PinStrip(s) \/ UnpinStrip(s)
      PROVE  IInv'
  BY <1>5, TogglePinInvariant
<1>6. CASE ExitPinMode
  BY <1>6, ExitPinModeInvariant
<1>7. CASE UNCHANGED vars
  <2>1. GeneratedWindows(page)' = GeneratedWindows(page)
    BY <1>7, SamePins DEF vars
  <2>2. PinsOffWindows' /\ WindowsCurrent' /\ WindowsFit'
    BY <1>7, <2>1 DEF vars, IInv, PinsOffWindows, WindowsCurrent, WindowsFit,
                      Unpinned, OffsetEnd
  <2>3. TypeOK' /\ UniqueAddresses' /\ AbortsOnlyWhen'
    BY <1>7 DEF vars, IInv, TypeOK, UniqueAddresses, AbortsOnlyWhen
  <2>4. QED
    BY <2>2, <2>3 DEF IInv
<1>8. QED
  BY <1>1, <1>2, <1>3, <1>4, <1>5, <1>6, <1>7 DEF Next

(***************************************************************************)
(* The inductive invariant holds in every reachable state.                *)
(***************************************************************************)
THEOREM InductiveInvariant == Spec => []IInv
BY InitInvariant, NextInvariant, PTL DEF Spec

(***************************************************************************)
(* The state keeps its type; in particular m_channelOffset always indexes *)
(* m_channelWindows, whatever is pinned or unpinned while scrolled.       *)
(***************************************************************************)
THEOREM TypeCorrect == Spec => []TypeOK
<1>1. IInv => TypeOK
  BY DEF IInv
<1>2. QED
  BY <1>1, InductiveInvariant, PTL

(***************************************************************************)
(* No two strips ever show the same channel.                              *)
(***************************************************************************)
THEOREM AddressesUnique == Spec => []UniqueAddresses
<1>1. IInv => UniqueAddresses
  BY DEF IInv
<1>2. QED
  BY <1>1, InductiveInvariant, PTL

(***************************************************************************)
(* The assertions at lines 228 and 290 of channelgroup.cpp never fail;    *)
(* the one at line 332 fails only with two pinned strips off their        *)
(* channels and the one at line 307 only with every strip pinned.         *)
(***************************************************************************)
THEOREM AbortCauses == Spec => []AbortsOnlyWhen
<1>1. IInv => AbortsOnlyWhen
  BY DEF IInv
<1>2. QED
  BY <1>1, InductiveInvariant, PTL

-----------------------------------------------------------------------------
(***************************************************************************)
(* Every channel of the page can be reached by scrolling or is pinned on  *)
(* the surface, and is in one place only.                                 *)
(***************************************************************************)
THEOREM PageCovered == Spec => []WindowsCoverPage
<1>1. ASSUME IInv, ~pinMode, \A s \in pinned : address[s].sub # Invalid
      PROVE  /\ ChannelNumbers = PinnedHere \cup UNION {windows[k] : k \in DOMAIN windows}
             /\ \A k \in DOMAIN windows :
                   /\ windows[k] \cap PinnedHere = {}
                   /\ \A m \in DOMAIN windows : m # k => windows[k] \cap windows[m] = {}
  <2>1. /\ windows = Windows(FreeChannels(page), WindowWidth)
        /\ page \in Pages /\ pinned \in SUBSET Strips /\ address \in [Strips -> Addresses]
    BY <1>1 DEF IInv, WindowsCurrent, TypeOK, GeneratedWindows
  <2>2. /\ UNION {windows[k] : k \in DOMAIN windows} = FreeChannels(page)
        /\ \A k, m \in DOMAIN windows : k # m => windows[k] \cap windows[m] = {}
    <3>1. WindowWidth \in Nat
      BY <2>1, FreeChannelsCount, NumStripsAssumption
    <3>2. QED
      BY <2>1, <3>1, FreeChannelsCount, WindowsPartition
  <2>3. \A c \in ChannelNumbers : c \in PinnedHere <=> c \notin FreeChannels(page)
    <3>1. \A s \in pinned : address[s] = [main |-> address[s].main, sub |-> address[s].sub]
      BY <2>1 DEF Addresses
    <3>2. ASSUME NEW c \in ChannelNumbers, c \in PinnedHere
          PROVE  c \notin FreeChannels(page)
      <4>1. PICK s \in pinned : address[s].main = page /\ address[s].sub = c
        BY <3>2 DEF PinnedHere
      <4>2. address[s] = [main |-> page, sub |-> c]
        BY <3>1, <4>1
      <4>3. QED
        BY <4>2 DEF FreeChannels, PinnedAddresses
    <3>3. ASSUME NEW c \in ChannelNumbers, c \notin FreeChannels(page)
          PROVE  c \in PinnedHere
      <4>1. PICK s \in pinned : address[s] = [main |-> page, sub |-> c]
        BY <3>3 DEF FreeChannels, PinnedAddresses
      <4>2. address[s].main = page /\ address[s].sub = c
        BY <4>1
      <4>3. QED
        BY <4>2 DEF PinnedHere
    <3>4. QED
      BY <3>2, <3>3
  <2>4. PinnedHere \subseteq ChannelNumbers
    BY <1>1, <2>1 DEF PinnedHere, Addresses
  <2>5. FreeChannels(page) \subseteq ChannelNumbers
    BY DEF FreeChannels
  <2>6. ChannelNumbers = PinnedHere \cup FreeChannels(page)
    BY <2>3, <2>4, <2>5
  <2>7. \A k \in DOMAIN windows : windows[k] \cap PinnedHere = {}
    BY <2>2, <2>3, <2>4
  <2>8. QED
    BY <2>2, <2>6, <2>7
<1>2. IInv => WindowsCoverPage
  BY <1>1 DEF WindowsCoverPage
<1>3. QED
  BY <1>2, InductiveInvariant, PTL

(***************************************************************************)
(* PAGE-, PAGE+ and SCROLL LEFT are lit exactly when they have an effect, *)
(* also after the lights of before a pin session are restored: clamping   *)
(* the offset never brings it to 0, as there are always two windows.      *)
(***************************************************************************)
THEOREM LightsCorrect == Spec => []LightsTellKeys
<1>1. Init => LightsTellKeys
  <2> SUFFICES ASSUME Init PROVE LightsTellKeys
    OBVIOUS
  <2>1. /\ lights["PAGE_INC"] = TRUE
        /\ lights["PAGE_DEC"] = FALSE
        /\ lights["SCROLL_LEFT"] = FALSE
    BY DEF Init, LightsOff, NavKeys
  <2>2. ~pinMode /\ page = 1 /\ channelOffset = 0
    BY DEF Init
  <2>3. /\ (page < MaxPage) = TRUE
        /\ (page > 1) = FALSE
        /\ (channelOffset > 0) = FALSE
    BY <2>2, MaxPageAssumption
  <2>4. /\ lights["PAGE_INC"] = (page < MaxPage)
        /\ lights["PAGE_DEC"] = (page > 1)
        /\ lights["SCROLL_LEFT"] = (channelOffset > 0)
    BY <2>1, <2>3, Zenon
  <2>5. QED
    BY <2>2, <2>4, Zenon DEF LightsTellKeys
<1>2. ASSUME IInv, LightsTellKeys, [Next]_vars
      PROVE  LightsTellKeys'
  <2> USE DEF IInv
  <2>1. ASSUME NEW a, Abort(a), a # "none"
        PROVE  LightsTellKeys'
    BY <2>1 DEF Abort, LightsTellKeys
  <2>2. ASSUME NEW p, NEW offset, NEW wins, ~pinMode, ~pinMode', page' = p, channelOffset' = offset,
               lights' = RefreshedLights(p, offset, wins)
        PROVE  LightsTellKeys'
    <3>1. ~blockUpdates
      BY <1>2, <2>2 DEF TypeOK
    <3>2. /\ lights'["PAGE_INC"] = (p < MaxPage)
          /\ lights'["PAGE_DEC"] = (p > 1)
          /\ lights'["SCROLL_LEFT"] = (offset > 0)
      BY <2>2, <3>1 DEF RefreshedLights, NavKeys
    <3>3. QED
      BY <2>2, <3>2 DEF LightsTellKeys
  <2>3. ASSUME NEW d \in {-1, 1}, ChangePageStays(d) \/ ScrollPageStays(d)
        PROVE  LightsTellKeys'
    BY <1>2, <2>3 DEF ChangePageStays, ScrollPageStays, LightsTellKeys
  <2>4. ASSUME NEW d \in {-1, 1}, ChangePage(d)
        PROVE  LightsTellKeys'
    <3>1. CASE ~(/\ page' = page + d
                 /\ channelOffset' = 0
                 /\ lights' = RefreshedLights(page + d, 0, GeneratedWindows(page + d))
                 /\ pinMode' = pinMode)
      <4>1. Abort("PinsNotUnique") \/ Abort("WindowTooShort")
        BY <2>4, <3>1 DEF ChangePage
      <4>2. QED
        BY <2>1, <4>1
    <3>2. ~pinMode
      BY <2>4 DEF ChangePage, GroupHandlesKeys
    <3>3. QED
      BY <2>2, <3>1, <3>2
  <2>5. ASSUME NEW d \in {-1, 1}, ScrollPage(d)
        PROVE  LightsTellKeys'
    <3>1. CASE ~(/\ page' = page
                 /\ channelOffset' = channelOffset + d
                 /\ lights' = RefreshedLights(page, channelOffset + d, windows)
                 /\ pinMode' = pinMode)
      <4>1. Abort("WindowTooShort") \/ Abort("WindowLeftOver")
        BY <2>5, <3>1 DEF ScrollPage
      <4>2. QED
        BY <2>1, <4>1
    <3>2. ~pinMode
      BY <2>5 DEF ScrollPage, GroupHandlesKeys
    <3>3. QED
      BY <2>2, <3>1, <3>2
  <2>6. CASE EnterPinMode
    <3>1. ~pinMode /\ pinMode' /\ lightStack' = Append(lightStack, lights)
      BY <2>6 DEF EnterPinMode, GroupHandlesKeys
    <3>2. lightStack'[1] = lights
      <4>1. lightStack \in Seq(Lights) /\ Len(lightStack) = 0 /\ lights \in Lights
        BY <1>2, <3>1 DEF TypeOK
      <4>2. QED
        BY <3>1, <4>1
    <3>3. QED
      BY <1>2, <2>6, <3>1, <3>2 DEF EnterPinMode, LightsTellKeys
  <2>7. ASSUME NEW s \in Strips, PinStrip(s) \/ UnpinStrip(s)
        PROVE  LightsTellKeys'
    BY <1>2, <2>7 DEF PinStrip, UnpinStrip, LightsTellKeys
  <2>8. CASE ExitPinMode
    <3>1. CASE Abort("PinsNotUnique")
      BY <2>1, <3>1
    <3>2. CASE /\ channelOffset' = Clamp(channelOffset, GeneratedWindows(page))
               /\ lights' = lightStack[Len(lightStack)]
               /\ pinMode' = FALSE
               /\ UNCHANGED <<page, failed>>
      <4>1. OffsetEnd(GeneratedWindows(page)) \in 1..MaxChannel
        BY <1>2, Generated DEF TypeOK
      <4>2. channelOffset \in Nat
        BY <1>2 DEF TypeOK
      <4>3. channelOffset' > 0 <=> channelOffset > 0
        BY <3>2, <4>1, <4>2, MaxChannelAssumption DEF Clamp
      <4>4. lights' = lightStack[1]
        BY <1>2, <2>8, <3>2 DEF TypeOK, ExitPinMode
      <4>5. pinMode /\ failed = "none"
        BY <2>8 DEF ExitPinMode
      <4>6. QED
        BY <1>2, <3>2, <4>3, <4>4, <4>5 DEF LightsTellKeys
    <3>3. QED
      BY <2>8, <3>1, <3>2 DEF ExitPinMode
  <2>9. CASE UNCHANGED vars
    BY <1>2, <2>9 DEF vars, LightsTellKeys
  <2>10. QED
    BY <1>2, <2>3, <2>4, <2>5, <2>6, <2>7, <2>8, <2>9 DEF Next
<1>3. QED
  BY <1>1, <1>2, InductiveInvariant, PTL DEF Spec

-----------------------------------------------------------------------------
(***************************************************************************)
(* ChannelGroup keeps the promise of AddressBook: it starts as one, and   *)
(* every key is a retargeting of the strips under a new sequence number,  *)
(* the pinning of one strip, or invisible in the addresses.               *)
(***************************************************************************)
THEOREM RefinesAddressBook == Spec => ImplementsAddressBook
<1> USE DEF Book!Strips, Strips, Book!Addresses, Addresses, Pages
<1>1. Init => Book!Init
  <2> SUFFICES ASSUME Init PROVE Book!Init
    OBVIOUS
  <2>1. \A s \in Strips : 1 \in 1..MaxPage /\ s \in ChannelNumbers
    BY NumStripsAssumption, MaxChannelAssumption, MaxPageAssumption DEF ChannelNumbers
  <2>2. address \in [Strips -> [main : 1..MaxPage, sub : ChannelNumbers]]
    BY <2>1 DEF Init
  <2>3. Book!Distinct(address)
    BY DEF Init, Book!Distinct
  <2>4. QED
    BY <2>2, <2>3 DEF Init, Book!Init
<1>2. ASSUME IInv, IInv', [Next]_vars
      PROVE  [Book!Next]_Book!bookVars
  <2> USE DEF IInv
  <2>1. /\ pinned \in SUBSET Strips
        /\ address \in [Strips -> Addresses]
        /\ address' \in [Strips -> Addresses]
        /\ Book!Distinct(address')
    BY <1>2 DEF TypeOK, UniqueAddresses, Book!Distinct
  <2>2. ASSUME sequence' = NextSequence, pinned' = pinned,
               \A s \in pinned : address'[s] # address[s] => address'[s].sub = Invalid
        PROVE  Book!Next
    BY <2>1, <2>2 DEF NextSequence, Book!Next, Book!Retarget
  <2>3. ASSUME NEW a, Abort(a)
        PROVE  UNCHANGED Book!bookVars
    BY <2>3 DEF Abort, Book!bookVars
  <2>4. ASSUME NEW d \in {-1, 1}, ChangePageStays(d) \/ ScrollPageStays(d)
        PROVE  Book!Next
    BY <2>2, <2>4 DEF ChangePageStays, ScrollPageStays
  <2>5. ASSUME NEW p, NEW window
        PROVE  /\ \A s \in pinned : ShowWindow(p, window)[s] = address[s]
               /\ \A s \in pinned : \/ ShowFinalWindow(p, window)[s] = address[s]
                                   \/ ShowFinalWindow(p, window)[s].sub = Invalid
    <3>1. \A s \in pinned : ShowWindow(p, window)[s] = address[s]
      BY <2>1 DEF ShowWindow
    <3>2. \A s \in Strips :
             \/ ShowFinalWindow(p, window)[s] = [main |-> p, sub |-> Invalid]
             \/ ShowFinalWindow(p, window)[s] = ShowWindow(p, window)[s]
      BY DEF ShowFinalWindow
    <3>3. QED
      BY <2>1, <3>1, <3>2
  <2>6. ASSUME NEW d \in {-1, 1}, ChangePage(d)
        PROVE  Book!Next \/ UNCHANGED Book!bookVars
    <3>1. \/ Abort("PinsNotUnique") \/ Abort("WindowTooShort")
          \/ /\ address' = ShowWindow(page + d, GeneratedWindows(page + d)[0])
             /\ sequence' = NextSequence
             /\ pinned' = pinned
      BY <2>6 DEF ChangePage
    <3>2. QED
      BY <2>2, <2>3, <2>5, <3>1
  <2>7. ASSUME NEW d \in {-1, 1}, ScrollPage(d)
        PROVE  Book!Next \/ UNCHANGED Book!bookVars
    <3>1. \/ Abort("WindowTooShort") \/ Abort("WindowLeftOver")
          \/ /\ \/ address' = ShowWindow(page, windows[channelOffset + d])
                \/ address' = ShowFinalWindow(page, windows[channelOffset + d])
             /\ sequence' = NextSequence
             /\ pinned' = pinned
      BY <2>7 DEF ScrollPage
    <3>2. QED
      BY <2>2, <2>3, <2>5, <3>1
  <2>8. CASE EnterPinMode
    BY <2>8 DEF EnterPinMode, Book!bookVars
  <2>9. ASSUME NEW s \in Strips, PinStrip(s) \/ UnpinStrip(s)
        PROVE  Book!Next
    BY <2>9 DEF PinStrip, UnpinStrip, Book!Next, Book!TogglePin
  <2>10. CASE ExitPinMode
    BY <2>3, <2>10 DEF ExitPinMode, Book!bookVars
  <2>11. CASE UNCHANGED vars
    BY <2>11 DEF vars, Book!bookVars
  <2>12. QED
    BY <1>2, <2>4, <2>6, <2>7, <2>8, <2>9, <2>10, <2>11 DEF Next
<1>3. QED
  BY <1>1, <1>2, InductiveInvariant, PTL DEF Spec, ImplementsAddressBook, Book!Spec
=============================================================================
