--------------------------- MODULE ChannelWindows ---------------------------
(***************************************************************************)
(* ChannelGroup::GenerateChannelWindows cuts the channels of a page that  *)
(* are not pinned into the windows the SCROLL keys step through, each as  *)
(* wide as the number of strips that are not pinned.  This is its closed  *)
(* form; the loop itself is in WindowLoop, which a run compares with it.  *)
(***************************************************************************)
EXTENDS Ranking

CONSTANT
    \* Channels per page: the literal 90 of GenerateChannelWindows, which is
    \* MAX_CHANNEL_COUNT of include/standard.h.
    MaxChannel

ASSUME MaxChannelAssumption == MaxChannel \in Nat \ {0}

ChannelNumbers == 1..MaxChannel

\* With no strip left (width 0) the loop files an empty window before every
\* channel until it meets a channel that is not pinned, and never again: that
\* window keeps growing past its width.
NumWindows(free, width) ==
    IF width = 0 THEN Nth(free, 1) + 1
                 ELSE (Cardinality(free) + width - 1) \div width

\* m_channelWindows, indexed from 0 as in the source.
Windows(free, width) ==
    [k \in 0..(NumWindows(free, width) - 1) |->
        IF width = 0
        THEN IF k = Nth(free, 1) THEN free ELSE {}
        ELSE {c \in free : Rank(free, c) \in (k * width + 1)..((k + 1) * width)}]
=============================================================================
