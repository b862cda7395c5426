---------------------------- MODULE AddressBook -----------------------------
(***************************************************************************)
(* What ChannelGroup promises to the threads and the plugin that use the  *)
(* addresses of the strips: no two strips show the same channel, every    *)
(* change of an address comes with a new sequence number, and a pinned    *)
(* strip is never moved to another channel (it may be taken off its       *)
(* channel, which ScrollPage does).  ChannelGroup is checked to implement *)
(* this; PlaybackRefresh assumes no more than this of its input thread.   *)
(***************************************************************************)
EXTENDS Integers

CONSTANTS NumStrips, MaxPage, ChannelNumbers, Invalid, SequenceModulus

VARIABLES address, pinned, sequence

bookVars == <<address, pinned, sequence>>

Strips == 1..NumStrips

Addresses == [main : 1..MaxPage, sub : ChannelNumbers \cup {Invalid}]

Distinct(book) ==
    \A s, t \in Strips : s # t /\ book[s] = book[t] => book[s].sub = Invalid

Init ==
    /\ address \in [Strips -> [main : 1..MaxPage, sub : ChannelNumbers]]
    /\ Distinct(address)
    /\ pinned = {}
    /\ sequence = 0

\* A key was handled: the strips may show other channels.
Retarget ==
    /\ sequence' = (sequence + 1) % SequenceModulus
    /\ address' \in [Strips -> Addresses]
    /\ Distinct(address')
    /\ \A s \in pinned : address'[s] # address[s] => address'[s].sub = Invalid
    /\ UNCHANGED pinned

\* One strip is pinned or released.
TogglePin ==
    /\ \E s \in Strips : pinned' \in {pinned \cup {s}, pinned \ {s}}
    /\ UNCHANGED <<address, sequence>>

Next == Retarget \/ TogglePin

Spec == Init /\ [][Next]_bookVars
=============================================================================
