---------------------------- MODULE ChannelGroup ----------------------------
(***************************************************************************)
(* Navigation in ChannelGroup (XTouchController/channelgroup.cpp): the    *)
(* page, the windows of channels, the pins, the address every strip shows *)
(* and the four navigation lights, driven by the keys the surface reports.*)
(*                                                                         *)
(* Every action is one key released on the surface: HandlePacket runs the *)
(* callbacks to the end before it reads the next packet, and no other     *)
(* thread writes these variables.  What the refresh thread sees of them   *)
(* while a key is being handled is the subject of PlaybackRefresh.        *)
(***************************************************************************)
EXTENDS ChannelWindows, Sequences

CONSTANTS
    NumStrips,      \* PHYSICAL_CHANNEL_COUNT
    MaxPage,        \* MAX_PAGE_COUNT
    Invalid,        \* UINT32_MAX, the subaddress of a strip that shows "----"
    SequenceModulus \* 2^32, the range of m_sequence

ASSUME NumStripsAssumption == NumStrips \in Nat \ {0} /\ NumStrips < MaxChannel
\* There is a second page: the constructor lights PAGE+ without asking.
ASSUME MaxPageAssumption == MaxPage \in Nat /\ MaxPage > 1
ASSUME InvalidAssumption == Invalid \notin ChannelNumbers
ASSUME SequenceModulusAssumption == SequenceModulus \in Nat /\ SequenceModulus > 1

Strips == 1..NumStrips
Pages == 1..MaxPage

Addresses == [main : Pages, sub : ChannelNumbers \cup {Invalid}]

NavKeys == {"PAGE_DEC", "PAGE_INC", "SCROLL_LEFT", "SCROLL_RIGHT"}

Lights == [NavKeys -> BOOLEAN]

VARIABLES
    page,           \* m_page
    channelOffset,  \* m_channelOffset
    windows,        \* m_channelWindows
    pinned,         \* the strips whose Channel::m_pinned is set
    address,        \* Channel::m_address of every strip
    pinMode,        \* the pin layer is on top of the group layer
    blockUpdates,   \* m_blockUpdates
    lights,         \* mButtonLEDStates of the navigation keys
    lightStack,     \* mButtonLEDStack, for the same keys
    sequence,       \* m_sequence
    failed          \* the assertion that aborted the process, or "none"

vars == <<page, channelOffset, windows, pinned, address, pinMode, blockUpdates,
          lights, lightStack, sequence, failed>>

-----------------------------------------------------------------------------
Unpinned == Strips \ pinned

\* m_channelOffsetEnd, set wherever m_channelWindows is.
OffsetEnd(wins) == Cardinality(DOMAIN wins) - 1

PinnedAddresses == {address[s] : s \in pinned}

\* assert(pinned.size() == inserted && "Pinned channels not unique")
PinsUnique == \A s, t \in pinned : s # t => address[s] # address[t]

\* Definitions marked "mutant" carry a mistake on purpose; the mutation checks
\* put each in the place of the definition after it.

\* mutant: pinned channels stay in the list
FreeChannelsAll(p) == ChannelNumbers

\* What GenerateChannelWindows lists for page p, and how wide: pinned channels
\* of that page are left out, pins of any page make the windows narrower.
FreeChannels(p) ==
    {c \in ChannelNumbers : [main |-> p, sub |-> c] \notin PinnedAddresses}

\* mutant: pins to other pages do not make the windows narrower
WidthOfThisPage ==
    NumStrips - Cardinality({a \in PinnedAddresses : a.main = page})

WindowWidth == NumStrips - Cardinality(PinnedAddresses)

GeneratedWindows(p) == Windows(FreeChannels(p), WindowWidth)

\* mutant: the offset is not adjusted to fewer windows
ClampNothing(offset, wins) == offset

\* The tail of GenerateChannelWindows.
Clamp(offset, wins) == IF offset > OffsetEnd(wins) THEN OffsetEnd(wins) ELSE offset

\* mutant: the number is not incremented
SameSequence == sequence

NextSequence == (sequence + 1) % SequenceModulus

\* mutant: the last page is taken for a page before the last
LightsOffByOne(p, offset, wins) ==
    IF blockUpdates THEN lights
    ELSE [key \in NavKeys |->
            CASE key = "SCROLL_RIGHT" -> offset # OffsetEnd(wins)
              [] key = "SCROLL_LEFT"  -> offset > 0
              [] key = "PAGE_INC"     -> p <= MaxPage
              [] key = "PAGE_DEC"     -> p > 1]

\* RefreshPageChannelLights; PredicateSetLight writes nothing while updates are
\* blocked.
RefreshedLights(p, offset, wins) ==
    IF blockUpdates THEN lights
    ELSE [key \in NavKeys |->
            CASE key = "SCROLL_RIGHT" -> offset # OffsetEnd(wins)
              [] key = "SCROLL_LEFT"  -> offset > 0
              [] key = "PAGE_INC"     -> p < MaxPage
              [] key = "PAGE_DEC"     -> p > 1]

LightsOff == [key \in NavKeys |-> FALSE]

\* The strips that are not pinned show the channels of the window, left to right.
ShowWindow(p, window) ==
    [s \in Strips |->
        IF s \in pinned THEN address[s]
        ELSE [main |-> p, sub |-> Nth(window, Rank(Unpinned, s))]]

\* The final window may be shorter than the row of strips that are not pinned.
\* From the first strip left without a channel on, ScrollPage takes every strip
\* off the page: its second loop does not ask whether the strip is pinned.
ShowFinalWindow(p, window) ==
    LET first == Nth(Unpinned, Cardinality(window) + 1)
    IN  [s \in Strips |->
            IF s >= first THEN [main |-> p, sub |-> Invalid]
                          ELSE ShowWindow(p, window)[s]]

-----------------------------------------------------------------------------
Init ==
    /\ page = 1
    /\ channelOffset = 0
    /\ pinned = {}
    /\ address = [s \in Strips |-> [main |-> 1, sub |-> s]]
    /\ windows = GeneratedWindows(1)
    /\ pinMode = FALSE
    /\ blockUpdates = FALSE
    /\ lights = [LightsOff EXCEPT !["PAGE_INC"] = TRUE, !["SCROLL_RIGHT"] = TRUE]
    /\ lightStack = <<>>
    /\ sequence = 0
    /\ failed = "none"

\* A failed assertion ends the process (CMakeLists.txt does not define NDEBUG).
Abort(assertion) ==
    /\ failed' = assertion
    /\ UNCHANGED <<page, channelOffset, windows, pinned, address, pinMode,
                   blockUpdates, lights, lightStack, sequence>>

\* The keys that move the group reach it only while it is the top layer that
\* handles them: the pin layer swallows every button.
GroupHandlesKeys == failed = "none" /\ ~pinMode

\* ChangePage at the first or the last page: only the sequence number moves.
ChangePageStays(d) ==
    /\ GroupHandlesKeys
    /\ page + d \notin Pages
    /\ sequence' = NextSequence
    /\ UNCHANGED <<page, channelOffset, windows, pinned, address, pinMode,
                   blockUpdates, lights, lightStack, failed>>

ChangePage(d) ==
    /\ GroupHandlesKeys
    /\ page + d \in Pages
    /\ LET p == page + d
           wins == GeneratedWindows(p)
       IN  \/ /\ ~PinsUnique \/ Cardinality(wins[0]) < Cardinality(Unpinned)
              /\ Abort(IF ~PinsUnique THEN "PinsNotUnique" ELSE "WindowTooShort")
           \/ /\ PinsUnique
              /\ Cardinality(wins[0]) >= Cardinality(Unpinned)
              /\ page' = p
              /\ windows' = wins
              /\ channelOffset' = 0
              /\ address' = ShowWindow(p, wins[0])
              /\ lights' = RefreshedLights(p, 0, wins)
              /\ sequence' = NextSequence
              /\ UNCHANGED <<pinned, pinMode, blockUpdates, lightStack, failed>>

\* ScrollPage before the first or past the last window.
ScrollPageStays(d) ==
    /\ GroupHandlesKeys
    /\ channelOffset + d \notin DOMAIN windows
    /\ sequence' = NextSequence
    /\ UNCHANGED <<page, channelOffset, windows, pinned, address, pinMode,
                   blockUpdates, lights, lightStack, failed>>

ScrollPage(d) ==
    /\ GroupHandlesKeys
    /\ channelOffset + d \in DOMAIN windows
    /\ LET offset == channelOffset + d
           size == Cardinality(windows[offset])
           final == offset = OffsetEnd(windows)
           fits == size = Cardinality(Unpinned) \/ (final /\ size < Cardinality(Unpinned))
       IN  \/ /\ ~fits
              /\ Abort(IF size < Cardinality(Unpinned) THEN "WindowTooShort"
                                                     ELSE "WindowLeftOver")
           \/ /\ fits
              /\ channelOffset' = offset
              /\ address' = IF size = Cardinality(Unpinned)
                            THEN ShowWindow(page, windows[offset])
                            ELSE ShowFinalWindow(page, windows[offset])
              /\ lights' = RefreshedLights(page, offset, windows)
              /\ sequence' = NextSequence
              /\ UNCHANGED <<page, windows, pinned, pinMode, blockUpdates,
                             lightStack, failed>>

\* PIN released in the group layer: PushLayer pauses the group and starts the
\* pin layer, whose UpdateLights leaves the navigation lights off.
EnterPinMode ==
    /\ GroupHandlesKeys
    /\ pinMode' = TRUE
    /\ blockUpdates' = TRUE
    /\ lightStack' = Append(lightStack, lights)
    /\ lights' = LightsOff
    /\ UNCHANGED <<page, channelOffset, windows, pinned, address, sequence, failed>>

\* SELECT released in the pin layer: Channel::Pin(true), then UpdateLights.
PinStrip(s) ==
    /\ failed = "none" /\ pinMode
    /\ pinned' = pinned \cup {s}
    /\ lights' = LightsOff
    /\ UNCHANGED <<page, channelOffset, windows, address, pinMode, blockUpdates,
                   lightStack, sequence, failed>>

\* MUTE released in the pin layer: Channel::Pin(false), then UpdateLights.
UnpinStrip(s) ==
    /\ failed = "none" /\ pinMode
    /\ pinned' = pinned \ {s}
    /\ lights' = LightsOff
    /\ UNCHANGED <<page, channelOffset, windows, address, pinMode, blockUpdates,
                   lightStack, sequence, failed>>

\* mutant: Resume does not generate the windows again
ExitPinModeKeepsWindows ==
    /\ failed = "none" /\ pinMode
    /\ lights' = lightStack[Len(lightStack)]
    /\ lightStack' = SubSeq(lightStack, 1, Len(lightStack) - 1)
    /\ pinMode' = FALSE
    /\ blockUpdates' = FALSE
    /\ UNCHANGED <<page, channelOffset, windows, pinned, address, sequence, failed>>

\* PIN released in the pin layer: PopLayer, then the group layer resumes.
\* Neither the addresses nor the navigation lights are computed again.
ExitPinMode ==
    /\ failed = "none" /\ pinMode
    /\ \/ /\ ~PinsUnique
          /\ Abort("PinsNotUnique")
       \/ /\ PinsUnique
          /\ windows' = GeneratedWindows(page)
          /\ channelOffset' = Clamp(channelOffset, GeneratedWindows(page))
          /\ lights' = lightStack[Len(lightStack)]
          /\ lightStack' = SubSeq(lightStack, 1, Len(lightStack) - 1)
          /\ pinMode' = FALSE
          /\ blockUpdates' = FALSE
          /\ UNCHANGED <<page, pinned, address, sequence, failed>>

Next ==
    \/ \E d \in {-1, 1} : \/ ChangePageStays(d)
                          \/ ChangePage(d)
                          \/ ScrollPageStays(d)
                          \/ ScrollPage(d)
    \/ EnterPinMode
    \/ \E s \in Strips : PinStrip(s) \/ UnpinStrip(s)
    \/ ExitPinMode

Spec == Init /\ [][Next]_vars

-----------------------------------------------------------------------------
(***************************************************************************)
(* The assertions of GenerateChannelWindows (line 332), ScrollPage (line  *)
(* 307) and of both walks (lines 228 and 290).                            *)
(***************************************************************************)
Assertions == {"PinsNotUnique", "WindowLeftOver", "WindowTooShort"}

(***************************************************************************)
(* The type invariant.  m_channelOffset always indexes m_channelWindows.  *)
(***************************************************************************)
TypeOK ==
    /\ page \in Pages
    /\ \E n \in 0..MaxChannel : windows \in [0..n -> SUBSET ChannelNumbers]
    /\ channelOffset \in DOMAIN windows
    /\ pinned \in SUBSET Strips
    /\ address \in [Strips -> Addresses]
    /\ pinMode \in BOOLEAN
    /\ blockUpdates = pinMode
    /\ lights \in Lights
    /\ lightStack \in Seq(Lights) /\ Len(lightStack) = IF pinMode THEN 1 ELSE 0
    /\ sequence \in 0..(SequenceModulus - 1)
    /\ failed \in Assertions \cup {"none"}

(***************************************************************************)
(* Two strips never drive the same executor column: whatever the order of *)
(* page changes, scrolls, pins and unpins, equal addresses are only ever  *)
(* the address of no channel.                                             *)
(***************************************************************************)
UniqueAddresses ==
    \A s, t \in Strips :
        s # t /\ address[s] = address[t] => address[s].sub = Invalid

(***************************************************************************)
(* Which assertion can fail, and when: the pins are found not to be       *)
(* unique only if two pinned strips show no channel, channels are left    *)
(* over only if every strip is pinned, and a walk never runs out of       *)
(* channels before it runs out of strips.                                 *)
(***************************************************************************)
AbortsOnlyWhen ==
    /\ failed = "PinsNotUnique" =>
          \E s, t \in pinned : s # t /\ address[s].sub = Invalid
                                   /\ address[t].sub = Invalid
    /\ failed = "WindowLeftOver" => pinned = Strips
    /\ failed # "WindowTooShort"

(***************************************************************************)
(* Scrolling reaches every channel: outside the pin layer, and as long as *)
(* no pinned strip was taken off its channel, every channel of the page   *)
(* is in exactly one window or pinned on the surface, and no window lists *)
(* a channel that is pinned.                                              *)
(***************************************************************************)
PinnedHere == {address[s].sub : s \in {t \in pinned : address[t].main = page}}

WindowsCoverPage ==
    (failed = "none" /\ ~pinMode /\ \A s \in pinned : address[s].sub # Invalid) =>
        /\ ChannelNumbers = PinnedHere \cup UNION {windows[k] : k \in DOMAIN windows}
        /\ \A k \in DOMAIN windows :
              /\ windows[k] \cap PinnedHere = {}
              /\ \A m \in DOMAIN windows : m # k => windows[k] \cap windows[m] = {}

(***************************************************************************)
(* The lights that are restored when the pin layer is left still tell     *)
(* which of PAGE-, PAGE+ and SCROLL LEFT has an effect, although Resume   *)
(* may have clamped the offset to fewer windows in between.  (SCROLL      *)
(* RIGHT is not in this list: Resume does not compute it again.)          *)
(***************************************************************************)
LightsTellKeys ==
    failed = "none" =>
        LET shown == IF pinMode THEN lightStack[1] ELSE lights
        IN  /\ shown["PAGE_INC"] = (page < MaxPage)
            /\ shown["PAGE_DEC"] = (page > 1)
            /\ shown["SCROLL_LEFT"] = (channelOffset > 0)

(***************************************************************************)
(* What the rest of the program relies on: see AddressBook.               *)
(***************************************************************************)
Book == INSTANCE AddressBook WITH ChannelNumbers <- ChannelNumbers

ImplementsAddressBook == Book!Spec

(***************************************************************************)
(* assert(pinned.size() == inserted && "Pinned channels not unique"), line *)
(* 332 of channelgroup.cpp.  A run shows it violated.                     *)
(***************************************************************************)
PinnedChannelsUnique == failed # "PinsNotUnique"
=============================================================================
