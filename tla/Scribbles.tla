------------------------------ MODULE Scribbles ------------------------------
(***************************************************************************)
(* The scribble pad of a strip: two texts and a colour (channel.cpp).  The *)
(* input thread sets it when the strip is moved, pinned or released; the   *)
(* refresh thread when it shows what the desk answered.  Both write the    *)
(* fields of m_scribblePad and then pass a copy of it to the device, which *)
(* stores and sends it.                                                    *)
(*                                                                         *)
(* A thread runs a program of steps, each with one access to shared state, *)
(* as in SurfaceLights.  The rounds of the refresh thread are those of     *)
(* PlaybackRefresh; a strip that has been moved since the sequence numbers *)
(* were compared aborts the program there, and here.                       *)
(***************************************************************************)
EXTENDS Naturals, Sequences

CONSTANTS
    Channels,    \* channels the strip may show, as the text of an address
    Invalid,     \* UINT32_MAX
    MaxKeys,     \* bound: keys that move, pin or release the strip
    MaxTroubles  \* bound: edits of the show and packets lost, together

ASSUME InvalidAssumption == Invalid \notin Channels
ASSUME BoundsAssumption == {MaxKeys, MaxTroubles} \subseteq Nat

VARIABLES
    pad,      \* m_scribblePad
    cache,    \* the strip's entry of mScribblePads
    surface,  \* what the surface shows
    copy,     \* the copy each thread passes to SetScribble, while it does
    ops,      \* what is left of the program of each thread
    address,  \* m_address
    pinned,   \* m_pinned
    exists,   \* the channels with executors; their name is the channel
    aborted,  \* an assertion failed
    touched,  \* history: what happened to the strip since it was moved
    keys, troubles

padVars == <<pad, cache, surface, copy>>
stripVars == <<address, pinned, keys>>
vars == <<padVars, ops, stripVars, exists, aborted, touched, troubles>>

Threads == {"input", "refresh"}
\* Texts stand for themselves, "empty" for one without a character.
Pads == [top : Channels \cup {"----"}, bottom : Channels \cup {"empty", "None"},
         colour : {"BLACK", "RED", "PINK", "WHITE"}]
Blank == [top |-> "----", bottom |-> "empty", colour |-> "BLACK"]

-----------------------------------------------------------------------------
(***************************************************************************)
(* The programs.                                                           *)
(***************************************************************************)
Op(do, value) == [do |-> do, value |-> value]

SetScribble == <<Op("copy", "none"), Op("store", "none"), Op("send", "none")>>

\* Definitions marked "mutant" carry a mistake on purpose; the mutation checks
\* put each in the place of the definition after it.

\* mutant: the observer calls back only if the text is another
SetTextOnce(text) ==
    IF pad.bottom = text THEN <<>> ELSE <<Op("bottom", text)>> \o SetScribble

SetText(text) == <<Op("bottom", text)>> \o SetScribble

SetColour(colour) == <<Op("colour", colour)>> \o SetScribble

\* mutant: the colour is left as it is
SetAddressOnly(a) ==
    IF a = Invalid
    THEN <<Op("top", "----")>> \o SetText("empty") \o SetColour("BLACK")
    ELSE <<Op("top", a)>> \o SetScribble

\* mutant: the invalid address is shown like any other
SetAnyAddress(a) == <<Op("colour", "WHITE"), Op("top", a)>> \o SetScribble

\* The callback of m_address.
SetAddress(a) ==
    IF a = Invalid
    THEN <<Op("top", "----")>> \o SetText("empty") \o SetColour("BLACK")
    ELSE <<Op("colour", "WHITE"), Op("top", a)>> \o SetScribble

\* mutant: strips that show ---- are disabled, too
DisableAll(a) == SetColour("RED") \o SetText("None")

\* Disable reads the address, which may be another by now.
Disable(a) == <<Op("valid", "none")>> \o SetColour("RED") \o SetText("None")

\* UpdateEncoderFromMA compares the address, then sets the text.
UpdateEncoderFromMA(a) == <<Op("assert", a)>> \o SetText(a)

-----------------------------------------------------------------------------
Init ==
    /\ address \in Channels
    /\ pad = [top |-> address, bottom |-> "empty", colour |-> "WHITE"]
    /\ cache = pad /\ surface = pad
    /\ copy = [t \in Threads |-> Blank]
    /\ ops = [t \in Threads |-> <<>>]
    /\ pinned = FALSE
    /\ exists \in SUBSET Channels
    /\ aborted = FALSE /\ touched = {}
    /\ keys = 0 /\ troubles = 0

Idle(t) == ops[t] = <<>>
Doing(t, do) == ~aborted /\ ~Idle(t) /\ Head(ops[t]).do = do
Finish(t) == ops' = [ops EXCEPT ![t] = Tail(@)]
Start(t, program) == ops' = [ops EXCEPT ![t] = program]

SetField(t, field) ==
    /\ Doing(t, field)
    /\ pad' = [pad EXCEPT ![field] = Head(ops[t]).value]
    /\ Finish(t)
    /\ UNCHANGED <<cache, surface, copy, stripVars, exists, aborted, touched, troubles>>

CopyPad(t) ==
    /\ Doing(t, "copy")
    /\ copy' = [copy EXCEPT ![t] = pad]
    /\ Finish(t)
    /\ UNCHANGED <<pad, cache, surface, stripVars, exists, aborted, touched, troubles>>

StorePad(t) ==
    /\ Doing(t, "store")
    /\ cache' = copy[t]
    /\ copy' = [copy EXCEPT ![t] = Blank]
    /\ Finish(t)
    /\ UNCHANGED <<pad, surface, stripVars, exists, aborted, touched, troubles>>

\* SendScribble reads the cache again; the packet may be lost.
SendScribble(t) ==
    /\ Doing(t, "send")
    /\ \/ /\ surface' = cache
          /\ UNCHANGED <<touched, troubles>>
       \/ /\ troubles < MaxTroubles
          /\ troubles' = troubles + 1 /\ touched' = touched \cup {"lost"}
          /\ UNCHANGED surface
    /\ Finish(t)
    /\ UNCHANGED <<pad, cache, copy, stripVars, exists, aborted>>

CheckValid(t) ==
    /\ Doing(t, "valid")
    /\ IF address = Invalid THEN Start(t, <<>>) ELSE Finish(t)
    /\ UNCHANGED <<padVars, stripVars, exists, aborted, touched, troubles>>

CompareAddress(t) ==
    /\ Doing(t, "assert")
    /\ aborted' = (Head(ops[t]).value # address)
    /\ Finish(t)
    /\ UNCHANGED <<padVars, stripVars, exists, touched, troubles>>

Step(t) ==
    \/ \E field \in {"top", "bottom", "colour"} : SetField(t, field)
    \/ CopyPad(t) \/ StorePad(t) \/ SendScribble(t) \/ CheckValid(t) \/ CompareAddress(t)

-----------------------------------------------------------------------------
(***************************************************************************)
(* The keys, and a round of the refresh thread.                            *)
(***************************************************************************)
Key == ~aborted /\ Idle("input") /\ keys < MaxKeys /\ keys' = keys + 1

\* Page and scroll keys: a pinned strip only ever loses its channel.
Move(a) ==
    /\ Key /\ a # address /\ (pinned => a = Invalid)
    /\ address' = a
    /\ Start("input", SetAddress(a))
    /\ touched' = IF Idle("refresh") THEN {} ELSE {"raced"}
    /\ UNCHANGED <<padVars, pinned, exists, aborted, troubles>>

\* SELECT and MUTE in pin mode.
Pin(state) ==
    /\ Key /\ pinned # state
    /\ pinned' = state
    /\ Start("input", SetColour(IF state THEN "PINK" ELSE "WHITE"))
    /\ touched' = touched \cup {"pinned"}
    /\ UNCHANGED <<padVars, address, exists, aborted, troubles>>

\* The sequence numbers agree: the strip is about to be updated or disabled.
Round ==
    /\ ~aborted /\ Idle("refresh")
    /\ Start("refresh", IF address \in exists THEN UpdateEncoderFromMA(address)
                                              ELSE Disable(address))
    /\ UNCHANGED <<padVars, stripVars, exists, aborted, touched, troubles>>

EditShow(c) ==
    /\ ~aborted /\ troubles < MaxTroubles
    /\ troubles' = troubles + 1
    /\ exists' = IF c \in exists THEN exists \ {c} ELSE exists \cup {c}
    /\ touched' = touched \cup {"edited"}
    /\ UNCHANGED <<padVars, ops, stripVars, aborted>>

Next ==
    \/ \E t \in Threads : Step(t)
    \/ \E a \in Channels \cup {Invalid} : Move(a)
    \/ \E state \in BOOLEAN : Pin(state)
    \/ Round
    \/ \E c \in Channels : EditShow(c)

Spec == Init /\ [][Next]_vars

\* Neither thread blocks.
FairSpec == Spec /\ WF_vars(Step("input")) /\ WF_vars(Step("refresh")) /\ WF_vars(Round)

-----------------------------------------------------------------------------
AllIdle == Idle("input") /\ Idle("refresh") /\ ~aborted

(***************************************************************************)
(* The type invariant: no text but an address, ---- or None is ever shown. *)
(***************************************************************************)
TypeOK ==
    /\ {pad, cache, surface, copy["input"], copy["refresh"]} \subseteq Pads
    /\ address \in Channels \cup {Invalid}
    /\ {pinned, aborted} \subseteq BOOLEAN
    /\ exists \subseteq Channels
    /\ touched \subseteq {"raced", "lost", "pinned", "edited"}
    /\ keys \in 0..MaxKeys /\ troubles \in 0..MaxTroubles

(***************************************************************************)
(* "We want to show a different colour if the channel does not exist"      *)
(* (channel.cpp:6): the colour of a channel that exists tells whether it   *)
(* is pinned and is not the RED of Disable, unless its executors appeared  *)
(* or went while the strip showed it, or it was moved during an update.    *)
(***************************************************************************)
ColourTellsState ==
    AllIdle /\ address \in exists /\ touched \cap {"raced", "edited"} = {} =>
        pad.colour = (IF pinned THEN "PINK" ELSE "WHITE")

(***************************************************************************)
(* A strip without a channel shows ---- and nothing else, although the     *)
(* refresh thread may be setting its text and colour; no round repairs     *)
(* what a race, a lost packet or a pin did to it.                          *)
(***************************************************************************)
DashesStayBlank ==
    AllIdle /\ address = Invalid /\ touched \cap {"raced", "lost", "pinned"} = {} =>
        surface = Blank

(***************************************************************************)
(* A strip with a channel comes to show its address, the name of its       *)
(* executor or RED and None, and the colour it was given last, whatever    *)
(* the two threads did to the pad at once and whatever packets were lost.  *)
(***************************************************************************)
PadsSettle ==
    <>[](aborted \/ address = Invalid \/
         /\ surface.top = address
         /\ surface.colour = pad.colour
         /\ surface.bottom = (IF address \in exists THEN address ELSE "None")
         /\ address \notin exists => surface.colour = "RED")
=============================================================================
