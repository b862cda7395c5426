---------------------------- MODULE InputLayers ----------------------------
(***************************************************************************)
(* What a key of the surface does depends on the stack of layers its      *)
(* events fall through (helpers/interface.cpp): the pin layer while it is  *)
(* there, the channel group, the controller, the base layer.  The group    *)
(* forwards the executor keys of a strip to the plugin, which presses and  *)
(* releases the executor the message names; the controller forwards the    *)
(* system keys and lights them while they are held.                        *)
(*                                                                         *)
(* A key is pressed and released in two events, and between the two the    *)
(* layers, the address of the strip and the network can change.            *)
(*                                                                         *)
(* Every action is one event, handled to its end by the input thread.  One *)
(* page and one system key are modelled.  Which addresses navigation can   *)
(* lead to is what AddressBook says and ChannelGroup implements.           *)
(***************************************************************************)
EXTENDS Integers, Sequences

CONSTANTS
    NumStrips,     \* PHYSICAL_CHANNEL_COUNT
    MaxChannel,    \* MAX_CHANNEL_COUNT
    Invalid,       \* UINT32_MAX: the strip shows "----"
    WireChannels,  \* 2^8, the range of the channel fields of IPC.h
    TypeStep,      \* 100: executors c, 100 + c, 200 + c, 300 + c are one column
    Buttons,       \* the buttons of a strip that are used
    Executors,     \* the numbers that have an executor in the show
    QueueCap,      \* bound: datagrams on their way to the plugin
    MaxPresses,    \* bound: keys pressed
    MaxMoves,      \* bound: keys that move the strips
    MaxLosses      \* bound: datagrams lost, by a full socket buffer or otherwise

ASSUME NumStripsAssumption == NumStrips \in Nat \ {0}
ASSUME ChannelAssumption ==
    /\ MaxChannel \in Nat /\ TypeStep \in Nat
    /\ NumStrips <= MaxChannel /\ MaxChannel < TypeStep
ASSUME InvalidAssumption == Invalid \in Nat /\ Invalid > MaxChannel
ASSUME WireAssumption == WireChannels \in Nat /\ WireChannels > MaxChannel
ASSUME ButtonsAssumption == Buttons \subseteq {"SELECT", "MUTE", "SOLO", "REC"}
ASSUME ExecutorsAssumption == Executors \subseteq Nat \ {0}
ASSUME BoundsAssumption ==
    QueueCap \in Nat /\ MaxPresses \in Nat /\ MaxMoves \in Nat /\ MaxLosses \in Nat

Strips == 1..NumStrips
Keys == Strips \X Buttons

Subs == 1..MaxChannel \cup {Invalid}

VARIABLES
    layers,       \* m_layers, bottom first
    address,      \* m_address.subAddress of every strip
    pinned,       \* the strips with m_pinned
    held,         \* the executor keys held down
    systemHeld,   \* the system key is held down
    systemLight,  \* its entry of mButtonLEDStates
    savedLight,   \* the same entry in every element of mButtonLEDStack
    wire,         \* datagrams on their way to the plugin
    pressed,      \* executors the desk has pressed
    sentFor,      \* history: the executor the press of a held key was sent for
    astray,       \* history: executors whose release was sent elsewhere or lost
    told,         \* history: the last the plugin was sent of the system key
    presses, moves, losses

stripVars == <<address, pinned, moves>>
layerVars == <<layers, savedLight>>
systemVars == <<systemHeld, systemLight, told>>
keyVars == <<held, sentFor, astray>>
deskVars == <<wire, pressed, losses>>
vars == <<stripVars, layerVars, systemVars, keyVars, deskVars, presses>>

-----------------------------------------------------------------------------
\* Which layer's HandleInput returns true for an event.
Handles(layer, event) ==
    CASE layer = "pin"        -> event \in {"STRIP_KEY", "PIN", "NAVIGATION", "SYSTEM"}
      [] layer = "group"      -> event \in {"STRIP_KEY", "PIN", "NAVIGATION"}
      [] layer = "controller" -> event = "SYSTEM"
      [] layer = "base"       -> TRUE

\* Definitions marked "mutant" carry a mistake on purpose; the mutation checks
\* put each in the place of the definition after it.

\* mutant: the layers are asked from the bottom, the base layer last
BottomReceiver(event) ==
    layers[CHOOSE i \in 2..Len(layers) :
              /\ Handles(layers[i], event)
              /\ \A j \in 2..(i - 1) : ~Handles(layers[j], event)]

\* DispatchEvent asks the layers from the top.
Receiver(event) ==
    layers[CHOOSE i \in DOMAIN layers :
              /\ Handles(layers[i], event)
              /\ \A j \in (i + 1)..Len(layers) : ~Handles(layers[j], event)]

TypeNumber(button) ==
    TypeStep * (CASE button = "SELECT" -> 0 [] button = "MUTE" -> 1
                  [] button = "SOLO"   -> 2 [] button = "REC"  -> 3)

\* The executor a message names: a channel is sent in WireChannels values.
ExecutorOf(sub, button) == (sub % WireChannels) + TypeNumber(button)

\* The executor an event of a key is sent for; NoExecutor: the system key.
Executor(key) == ExecutorOf(address[key[1]], key[2])
NoExecutor == 0

Message(executor, down) == [executor |-> executor, down |-> down]

Init ==
    /\ layers = <<"base", "controller", "group">>
    /\ address = [s \in Strips |-> s]
    /\ pinned = {}
    /\ held = {}
    /\ systemHeld = FALSE /\ systemLight = "OFF" /\ savedLight = <<>>
    /\ wire = <<>> /\ pressed = {}
    /\ sentFor = [k \in Keys |-> NoExecutor]
    /\ astray = {}
    /\ told = "UP"
    /\ presses = 0 /\ moves = 0 /\ losses = 0

-----------------------------------------------------------------------------
(***************************************************************************)
(* The executor keys of the strips.                                        *)
(***************************************************************************)
\* The group sends the press (HandleFaderButton); the pin layer keeps it.
PressKey(k) ==
    /\ k \notin held /\ presses < MaxPresses
    /\ held' = held \cup {k}
    /\ presses' = presses + 1
    /\ \/ /\ Receiver("STRIP_KEY") = "group" /\ Len(wire) < QueueCap
          /\ wire' = Append(wire, Message(Executor(k), TRUE))
          /\ sentFor' = [sentFor EXCEPT ![k] = Executor(k)]
       \/ /\ Receiver("STRIP_KEY") = "pin"
          /\ UNCHANGED <<wire, sentFor>>
    /\ UNCHANGED <<stripVars, layerVars, systemVars, astray, pressed, losses>>

\* The group sends the release, for the executor the strip stands for now; the
\* pin layer pins the strip (SELECT) or releases it (MUTE).
ReleaseKey(k) ==
    /\ k \in held
    /\ held' = held \ {k}
    /\ sentFor' = [sentFor EXCEPT ![k] = NoExecutor]
    /\ \/ /\ Receiver("STRIP_KEY") = "group" /\ Len(wire) < QueueCap
          /\ wire' = Append(wire, Message(Executor(k), FALSE))
          /\ astray' = (astray \cup {sentFor[k]}) \ {Executor(k), NoExecutor}
          /\ UNCHANGED <<pinned, systemLight>>
       \/ /\ Receiver("STRIP_KEY") = "pin"
          /\ pinned' = CASE k[2] = "SELECT" -> pinned \cup {k[1]}
                         [] k[2] = "MUTE"   -> pinned \ {k[1]}
                         [] OTHER           -> pinned
          /\ systemLight' = IF k[2] \in {"SELECT", "MUTE"} THEN "OFF" ELSE systemLight
          /\ astray' = (astray \cup {sentFor[k]}) \ {NoExecutor}
          /\ UNCHANGED wire
    /\ UNCHANGED <<address, moves, layerVars, systemHeld, told, pressed, losses, presses>>

-----------------------------------------------------------------------------
(***************************************************************************)
(* The keys that move the strips, and PIN.                                 *)
(***************************************************************************)
\* Two pinned strips that show "----" make GenerateChannelWindows abort: see
\* ChannelGroup.  The process that goes on has none.
PinsUnique(book, pins) ==
    \A s, t \in pins : s # t => book[s] # book[t]

\* ChangePage and ScrollPage, as far as AddressBook tells.
Navigate ==
    /\ Receiver("NAVIGATION") = "group" /\ moves < MaxMoves
    /\ moves' = moves + 1
    /\ address' \in [Strips -> Subs]
    /\ \A s, t \in Strips : s # t /\ address'[s] = address'[t] => address'[s] = Invalid
    /\ \A s \in pinned : address'[s] \in {address[s], Invalid}
    /\ UNCHANGED <<pinned, layerVars, systemVars, keyVars, deskVars, presses>>

\* PIN released in the group: PushLayer pauses the group, which saves and clears
\* the lights, and starts the pin layer, which clears them again.
EnterPinMode ==
    /\ Receiver("PIN") = "group"
    /\ layers' = Append(layers, "pin")
    /\ savedLight' = Append(savedLight, systemLight)
    /\ systemLight' = "OFF"
    /\ UNCHANGED <<stripVars, systemHeld, told, keyVars, deskVars, presses>>

\* mutant: the lights are left as the pin layer had them
ExitPinModeKeepsLights ==
    /\ Receiver("PIN") = "pin"
    /\ PinsUnique(address, pinned)
    /\ layers' = SubSeq(layers, 1, Len(layers) - 1)
    /\ savedLight' = SubSeq(savedLight, 1, Len(savedLight) - 1)
    /\ UNCHANGED <<stripVars, systemVars, keyVars, deskVars, presses>>

\* PIN released in the pin layer: PopLayer; the group resumes and restores the
\* lights it saved.
ExitPinMode ==
    /\ Receiver("PIN") = "pin"
    /\ PinsUnique(address, pinned)
    /\ layers' = SubSeq(layers, 1, Len(layers) - 1)
    /\ systemLight' = savedLight[Len(savedLight)]
    /\ savedLight' = SubSeq(savedLight, 1, Len(savedLight) - 1)
    /\ UNCHANGED <<stripVars, systemHeld, told, keyVars, deskVars, presses>>

-----------------------------------------------------------------------------
(***************************************************************************)
(* A system key: the controller lights it and sends it; the pin layer      *)
(* swallows it.                                                            *)
(***************************************************************************)
PressSystemKey ==
    /\ ~systemHeld /\ presses < MaxPresses
    /\ systemHeld' = TRUE
    /\ presses' = presses + 1
    /\ \/ /\ Receiver("SYSTEM") = "controller" /\ Len(wire) < QueueCap
          /\ systemLight' = "ON"
          /\ wire' = Append(wire, Message(NoExecutor, TRUE))
          /\ told' = "DOWN"
       \/ /\ Receiver("SYSTEM") = "pin"
          /\ UNCHANGED <<systemLight, wire, told>>
    /\ UNCHANGED <<stripVars, layerVars, keyVars, pressed, losses>>

ReleaseSystemKey ==
    /\ systemHeld
    /\ systemHeld' = FALSE
    /\ \/ /\ Receiver("SYSTEM") = "controller" /\ Len(wire) < QueueCap
          /\ systemLight' = "OFF"
          /\ wire' = Append(wire, Message(NoExecutor, FALSE))
          /\ told' = "UP"
       \/ /\ Receiver("SYSTEM") = "pin"
          /\ UNCHANGED <<systemLight, wire, told>>
    /\ UNCHANGED <<stripVars, layerVars, keyVars, pressed, losses, presses>>

-----------------------------------------------------------------------------
(***************************************************************************)
(* The plugin and the network.                                             *)
(***************************************************************************)
\* mutant: every key message presses
HandleConnectionPresses ==
    /\ wire # <<>>
    /\ wire' = Tail(wire)
    /\ pressed' = pressed \cup ({Head(wire).executor} \cap Executors)
    /\ UNCHANGED <<stripVars, layerVars, systemVars, keyVars, losses, presses>>

\* HandleConnection for a key: GetEncoder finds the executor or the message is
\* dropped.  The commands the system keys give the desk are left out.
HandleConnection ==
    /\ wire # <<>>
    /\ wire' = Tail(wire)
    /\ LET named == {Head(wire).executor} \cap Executors
       IN  pressed' = IF Head(wire).down THEN pressed \cup named ELSE pressed \ named
    /\ UNCHANGED <<stripVars, layerVars, systemVars, keyVars, losses, presses>>

Lose ==
    /\ wire # <<>> /\ losses < MaxLosses
    /\ losses' = losses + 1
    /\ wire' = Tail(wire)
    /\ astray' = IF Head(wire).down THEN astray
                                    ELSE (astray \cup {Head(wire).executor}) \ {NoExecutor}
    /\ UNCHANGED <<stripVars, layerVars, systemVars, held, sentFor, pressed, presses>>

Next ==
    \/ \E k \in Keys : PressKey(k) \/ ReleaseKey(k)
    \/ Navigate
    \/ EnterPinMode
    \/ ExitPinMode
    \/ PressSystemKey
    \/ ReleaseSystemKey
    \/ HandleConnection
    \/ Lose

Spec == Init /\ [][Next]_vars

-----------------------------------------------------------------------------
PinMode == Len(layers) = 4

Stack == <<"base", "controller", "group">>
PinStack == <<"base", "controller", "group", "pin">>

ExecutorNumbers == 0..(WireChannels - 1 + 3 * TypeStep)
Messages == [executor : ExecutorNumbers, down : BOOLEAN]

(***************************************************************************)
(* The type invariant.  At most one pin layer is on the stack, always on   *)
(* top of the three layers of the start, and the lights are saved once     *)
(* while it is there.                                                      *)
(***************************************************************************)
TypeOK ==
    /\ layers \in {Stack, PinStack}
    /\ address \in [Strips -> Subs]
    /\ pinned \in SUBSET Strips
    /\ held \in SUBSET Keys
    /\ systemHeld \in BOOLEAN
    /\ systemLight \in {"OFF", "ON"}
    /\ savedLight \in Seq({"OFF", "ON"}) /\ Len(savedLight) = Len(layers) - 3
    /\ wire \in Seq(Messages) /\ Len(wire) <= QueueCap
    /\ pressed \in SUBSET Executors
    /\ sentFor \in [Keys -> ExecutorNumbers]
    /\ astray \in SUBSET ExecutorNumbers
    /\ told \in {"UP", "DOWN"}
    /\ presses \in 0..MaxPresses /\ moves \in 0..MaxMoves /\ losses \in 0..MaxLosses

(***************************************************************************)
(* Nothing stays pressed on the desk once every key is up and every        *)
(* message has arrived, except where a release went astray: its key was    *)
(* released in the pin layer, or after its strip had been moved, or the    *)
(* datagram was lost, and no release was sent for that executor since.     *)
(***************************************************************************)
NothingStaysPressed ==
    held = {} /\ wire = <<>> => pressed \subseteq astray

(***************************************************************************)
(* The light of a system key tells what the desk was told last, outside    *)
(* the pin layer and in the lights saved for the return from it, whatever  *)
(* the pin layer swallowed in between.                                     *)
(***************************************************************************)
LightTellsDesk ==
    LET shown == IF PinMode THEN savedLight[1] ELSE systemLight
    IN  shown = "ON" <=> told = "DOWN"
=============================================================================
