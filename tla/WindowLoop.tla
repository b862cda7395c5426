----------------------------- MODULE WindowLoop -----------------------------
(***************************************************************************)
(* The loop of ChannelGroup::GenerateChannelWindows (lines 336 to 355),   *)
(* one iteration per step, from every possible set of pinned channels of  *)
(* the current page.  Its result is compared with ChannelWindows, the     *)
(* closed form the other modules use.                                     *)
(***************************************************************************)
EXTENDS ChannelWindows, Sequences, Functions

CONSTANT
    \* PHYSICAL_CHANNEL_COUNT
    NumStrips

ASSUME NumStripsAssumption == NumStrips \in Nat \ {0} /\ NumStrips < MaxChannel

VARIABLES
    pinnedHere,   \* channels of this page found in pinned_addresses
    width,        \* window_width
    i,            \* the loop counter
    current,      \* cur_window
    filed         \* windows

vars == <<pinnedHere, width, i, current, filed>>

\* At most NumStrips strips are pinned; some of them may be pinned to a
\* channel of another page, or to no channel, and count for the width only.
Init ==
    /\ pinnedHere \in {P \in SUBSET ChannelNumbers : Cardinality(P) <= NumStrips}
    /\ width \in 0..(NumStrips - Cardinality(pinnedHere))
    /\ i = 1
    /\ current = <<>>
    /\ filed = <<>>

\* Variants with a mistake in them, for the mutation checks: a window is filed
\* one channel too late, and cur_window is not cleared.
IterateFilesLate ==
    /\ i <= MaxChannel
    /\ LET full == Len(current) > width
           rest == IF full THEN <<>> ELSE current
       IN  /\ filed' = IF full THEN Append(filed, current) ELSE filed
           /\ current' = IF i \in pinnedHere THEN rest ELSE Append(rest, i)
    /\ i' = i + 1
    /\ UNCHANGED <<pinnedHere, width>>

IterateKeepsWindow ==
    /\ i <= MaxChannel
    /\ filed' = IF Len(current) = width THEN Append(filed, current) ELSE filed
    /\ current' = IF i \in pinnedHere THEN current ELSE Append(current, i)
    /\ i' = i + 1
    /\ UNCHANGED <<pinnedHere, width>>

Iterate ==
    /\ i <= MaxChannel
    /\ LET full == Len(current) = width
           rest == IF full THEN <<>> ELSE current
       IN  /\ filed' = IF full THEN Append(filed, current) ELSE filed
           /\ current' = IF i \in pinnedHere THEN rest ELSE Append(rest, i)
    /\ i' = i + 1
    /\ UNCHANGED <<pinnedHere, width>>

FileLast ==
    /\ i = MaxChannel + 1
    /\ filed' = IF Len(current) > 0 THEN Append(filed, current) ELSE filed
    /\ current' = <<>>
    /\ i' = i + 1
    /\ UNCHANGED <<pinnedHere, width>>

Next == Iterate \/ FileLast

Spec == Init /\ [][Next]_vars

Finished == i = MaxChannel + 2

Ascending(s) == \A m, n \in DOMAIN s : m < n => s[m] < s[n]

(***************************************************************************)
(* When the loop ends it has filed the windows of the closed form, each   *)
(* in ascending order, and at least one of them (ScrollPage asserts that, *)
(* and m_channelOffsetEnd is their number minus one in unsigned           *)
(* arithmetic).                                                           *)
(***************************************************************************)
LoopMatchesWindows ==
    Finished =>
        LET closed == Windows(ChannelNumbers \ pinnedHere, width)
        IN  /\ Len(filed) > 0
            /\ DOMAIN closed = 0..(Len(filed) - 1)
            /\ \A n \in DOMAIN filed :
                  /\ Range(filed[n]) = closed[n - 1]
                  /\ Ascending(filed[n])

(***************************************************************************)
(* No channel is skipped, listed twice or out of order while the windows   *)
(* are built: the filed windows and the current one list the channels      *)
(* passed so far that are not pinned, each window in ascending order and   *)
(* with every channel below those of the windows after it.                 *)
(***************************************************************************)
Listed == (UNION {Range(filed[n]) : n \in DOMAIN filed}) \cup Range(current)

Precedes(s, t) == \A c \in Range(s), d \in Range(t) : c < d

LoopListsPassed ==
    /\ Listed = {c \in ChannelNumbers \ pinnedHere : c < i}
    /\ Ascending(current)
    /\ \A n \in DOMAIN filed : Ascending(filed[n]) /\ Precedes(filed[n], current)
    /\ \A m, n \in DOMAIN filed : m < n => Precedes(filed[m], filed[n])
=============================================================================
