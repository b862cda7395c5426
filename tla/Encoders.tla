------------------------------ MODULE Encoders ------------------------------
(***************************************************************************)
(* The value of one encoder (the class Encoder of channel.cpp): the fader  *)
(* of a strip, its dial, the dial while it is toggled to the executor that *)
(* the level meter shows, or the master fader.  The input thread sets it   *)
(* when the user turns it and tells the plugin; the refresh thread sets it *)
(* from the answers of the plugin.                                         *)
(*                                                                         *)
(* The desk applies a new value with its next DMX packet only, so an       *)
(* answer can carry the value from before a turn.  SetValue ignores the    *)
(* answers for m_delayTime after a turn for that reason.  Time is counted  *)
(* in ticks.  The round of the refresh thread is the one of                *)
(* PlaybackRefresh, from the point of view of one encoder.                 *)
(***************************************************************************)
EXTENDS Integers, Sequences, SequencesExt, FiniteSetsExt

CONSTANTS
    Kinds,       \* the kinds of EncoderId to look at
    FaderDelay,  \* 500 ms, in ticks
    DialDelay,   \* 50 ms, in ticks
    UpdateLag,   \* ticks within which a turn is usually in effect on the desk
    AnswerLag,   \* ticks within which an answer is usually used
    Channels,    \* channels the strip may show
    MaxValue,    \* values go from 0 to MaxValue; a dial turns by one
    MaxTurns,    \* bound: turns by the user
    MaxTroubles  \* bound: moves, edits on the desk, losses and silences, together

ASSUME KindsAssumption == Kinds \subseteq {"Fader", "Dial", "SoundMeter", "Master"}
ASSUME DelayAssumption ==
    /\ {FaderDelay, DialDelay, UpdateLag, AnswerLag} \subseteq Nat
    /\ UpdateLag + AnswerLag < Min({FaderDelay, DialDelay})
ASSUME BoundsAssumption == {MaxValue, MaxTurns, MaxTroubles} \subseteq Nat

Values == 0..MaxValue
Unknown == -1   \* no value, or one that nothing has set
FaderKinds == {"Fader", "Master"}
Delay(k) == IF k \in FaderKinds THEN FaderDelay ELSE DialDelay
LongAgo == Max({FaderDelay, DialDelay})

VARIABLES
    kind,      \* m_type
    value,     \* m_value
    age,       \* time since m_lastPhysicalChange, up to LongAgo
    shown,     \* the fader, the ring of the dial or the meter
    level,     \* mFaderLevels: the last level sent to the fader
    rewound,   \* history: the fader was sent an old level since
    address,   \* m_address; the master has one channel
    reading,   \* where a dial whose m_value has been read will be turned to
    turning,   \* the value of a turn the input thread is in the middle of
    pc,        \* where the refresh thread is
    round,     \* the answer it waits for or uses
    overtaken, \* history: a turn came between the check of an answer and its use
    wire,      \* datagrams on their way to the plugin
    pending,   \* values the desk will apply with the next DMX packet
    desk,      \* the values of the desk
    turns, troubles

inputVars == <<address, reading, turning, turns>>
refreshVars == <<pc, round>>
faderVars == <<level, rewound>>
deskVars == <<wire, pending, desk>>
vars == <<kind, value, age, shown, faderVars, inputVars, refreshVars, overtaken, deskVars, troubles>>

\* What is known of an answer: its value; how long ago it was taken; whether the
\* strip was moved since the request; whether all turns were in effect; whether
\* the desk or the answer was slower than usual.
NoAnswer == [value |-> Unknown, lag |-> 0, moved |-> FALSE, fresh |-> FALSE, late |-> FALSE]

Request == [type |-> "REQ_ENCODERS", channel |-> address, value |-> Unknown]
Update(v) == [type |-> "UPDATE_MA_ENCODER", channel |-> address, value |-> v]

Init ==
    /\ kind \in Kinds
    /\ value = Unknown /\ age = LongAgo /\ shown = 0
    /\ level = 0 /\ rewound = FALSE
    /\ address \in Channels
    /\ reading = Unknown /\ turning = Unknown
    /\ pc = "idle" /\ round = NoAnswer /\ overtaken = FALSE
    /\ wire = <<>> /\ pending = [c \in Channels |-> Unknown]
    /\ desk \in [Channels -> {0, MaxValue}]
    /\ turns = 0 /\ troubles = 0

Trouble ==
    /\ troubles < MaxTroubles
    /\ troubles' = troubles + 1

-----------------------------------------------------------------------------
(***************************************************************************)
(* The input thread.                                                       *)
(***************************************************************************)
\* Definitions marked "mutant" carry a mistake on purpose; the mutation checks
\* put each in the place of the definition after it.

\* mutant: the limits of a dial are not observed
TurnedToAnything ==
    IF kind \in FaderKinds THEN Values
    ELSE UNION {{old - 1, old + 1} : old \in (IF value = Unknown THEN Values ELSE {value})}

\* What a turn leads to: a fader is where it was put; a dial adds to m_value,
\* within the limits, and m_value is not initialized.
TurnedTo ==
    IF kind \in FaderKinds THEN Values
    ELSE UNION {{Max({0, old - 1}), Min({MaxValue, old + 1})} :
                   old \in (IF value = Unknown THEN Values ELSE {value})}

\* The refresh thread is past the check of SetValue.
Using == pc \in {"write", "show", "store"}

\* The input thread is between two events.
Free == reading = Unknown /\ turning = Unknown

\* UpdateDial reads m_value.
ReadDial ==
    /\ kind \notin FaderKinds /\ Free /\ turns < MaxTurns
    /\ turns' = turns + 1
    /\ reading' \in TurnedTo
    /\ UNCHANGED <<kind, value, age, shown, faderVars, address, turning, refreshVars, overtaken,
                   deskVars, troubles>>

\* mutant: SetValue does not note the time of a turn
SetUntimed(v) ==
    /\ value' = v /\ turning' = v
    /\ shown' = IF kind \in FaderKinds THEN v ELSE shown
    /\ round' = [round EXCEPT !.fresh = FALSE]
    /\ overtaken' = Using
    /\ rewound' = FALSE
    /\ UNCHANGED <<kind, age, level, address, pc, deskVars, troubles>>

\* SetValue of a physical change, as far as m_value.
SetPhysical(v) ==
    /\ value' = v /\ turning' = v
    /\ age' = 0
    /\ shown' = IF kind \in FaderKinds THEN v ELSE shown
    /\ round' = [round EXCEPT !.fresh = FALSE]
    /\ overtaken' = Using
    /\ rewound' = FALSE
    /\ UNCHANGED <<kind, level, address, pc, deskVars, troubles>>

\* UpdateEncoderFromXT or UpdateMasterEncoder: the fader is where the user put
\* it; the motor is left alone.
TurnFader ==
    /\ kind \in FaderKinds /\ Free /\ turns < MaxTurns
    /\ turns' = turns + 1
    /\ \E v \in TurnedTo : SetPhysical(v)
    /\ UNCHANGED reading

\* UpdateDial, after the read.
TurnDial ==
    /\ reading # Unknown
    /\ SetPhysical(reading)
    /\ reading' = Unknown
    /\ UNCHANGED turns

\* The rest of it: SetDialLevel or SetMeterLevel, m_value once more, and the
\* datagram to the plugin.
TellTurn ==
    /\ turning # Unknown
    /\ shown' = IF kind \in FaderKinds THEN shown ELSE turning
    /\ value' = turning
    /\ wire' = Append(wire, Update(turning))
    /\ turning' = Unknown
    /\ UNCHANGED <<kind, age, faderVars, address, reading, turns, refreshVars, overtaken, pending, desk,
                   troubles>>

\* ChangePage and ScrollPage: a new address and sequence number.
Move ==
    /\ kind # "Master" /\ Free /\ Trouble
    /\ address' \in Channels \ {address}
    /\ round' = [round EXCEPT !.moved = TRUE]
    /\ UNCHANGED <<kind, value, age, shown, faderVars, reading, turning, turns, pc, overtaken,
                   deskVars>>

\* CheckIdle of SurfaceLights: the faders are sent their old levels, which a
\* turn does not set.
SendAllFaders ==
    /\ kind \in FaderKinds /\ Free /\ Trouble
    /\ shown' = level
    /\ rewound' = TRUE
    /\ UNCHANGED <<kind, value, age, level, inputVars, refreshVars, overtaken, deskVars>>

-----------------------------------------------------------------------------
(***************************************************************************)
(* The refresh thread.                                                     *)
(***************************************************************************)
Ask ==
    /\ pc = "idle"
    /\ pc' = "asked" /\ round' = NoAnswer
    /\ wire' = Append(wire, Request)
    /\ UNCHANGED <<kind, value, age, shown, faderVars, inputVars, overtaken, pending, desk, troubles>>

\* Read fails after its timeout if the request was lost.
Timeout ==
    /\ pc = "asked" /\ \A i \in DOMAIN wire : wire[i].type # "REQ_ENCODERS"
    /\ pc' = "idle"
    /\ UNCHANGED <<kind, value, age, shown, faderVars, inputVars, round, overtaken, deskVars, troubles>>

\* The sequence numbers are compared, except for the master, whose value is set
\* before.
Accept ==
    /\ pc = "answered"
    /\ pc' = IF round.moved /\ kind # "Master" THEN "idle" ELSE "check"
    /\ UNCHANGED <<kind, value, age, shown, faderVars, inputVars, round, overtaken, deskVars, troubles>>

\* mutant: SetValue notes the time of an answer it ignores
CheckRenews ==
    /\ pc = "check"
    /\ pc' = IF age < Delay(kind) THEN "idle" ELSE "write"
    /\ age' = IF age < Delay(kind) THEN 0 ELSE age
    /\ round' = [round EXCEPT !.late = @ \/ round.lag > AnswerLag]
    /\ overtaken' = (overtaken /\ pc' = "idle")
    /\ UNCHANGED <<kind, value, shown, faderVars, inputVars, deskVars, troubles>>

\* SetValue: the time since the last turn.
CheckDuration ==
    /\ pc = "check"
    /\ pc' = IF age < Delay(kind) THEN "idle" ELSE "write"
    /\ round' = [round EXCEPT !.late = @ \/ round.lag > AnswerLag]
    /\ overtaken' = (overtaken /\ pc' = "idle")
    /\ UNCHANGED <<kind, value, age, shown, faderVars, inputVars, deskVars, troubles>>

WriteValue ==
    /\ pc = "write"
    /\ pc' = "show"
    /\ value' = round.value
    /\ UNCHANGED <<kind, age, shown, faderVars, inputVars, round, overtaken, deskVars, troubles>>

\* mutant: the faders are left alone here, too
ShowDialsOnly ==
    /\ pc = "show"
    /\ pc' = "store"
    /\ shown' = IF kind \in FaderKinds THEN shown ELSE round.value
    /\ UNCHANGED <<kind, value, age, faderVars, inputVars, round, overtaken, deskVars, troubles>>

\* SetFaderLevel, SetDialLevel or SetMeterLevel.
ShowValue ==
    /\ pc = "show"
    /\ pc' = "store"
    /\ shown' = round.value
    /\ level' = IF kind \in FaderKinds THEN round.value ELSE level
    /\ rewound' = FALSE
    /\ UNCHANGED <<kind, value, age, inputVars, round, overtaken, deskVars, troubles>>

\* The last line of SetValue sets m_value again.
StoreValue ==
    /\ pc = "store"
    /\ pc' = "idle"
    /\ value' = round.value
    /\ UNCHANGED <<kind, age, shown, faderVars, inputVars, round, overtaken, deskVars, troubles>>

-----------------------------------------------------------------------------
(***************************************************************************)
(* The plugin, the desk and the network.                                   *)
(***************************************************************************)
\* GetFader tells what the desk applied last.
AnswerRequest ==
    /\ wire # <<>> /\ Head(wire).type = "REQ_ENCODERS"
    /\ wire' = Tail(wire)
    /\ pc' = "answered"
    /\ LET c     == Head(wire).channel
           fresh == turning = Unknown /\ pending[c] = Unknown /\ Tail(wire) = <<>>
       IN  round' = [round EXCEPT !.value = desk[c], !.fresh = fresh,
                                  !.late = ~fresh /\ age > UpdateLag]
    /\ UNCHANGED <<kind, value, age, shown, faderVars, inputVars, overtaken, pending, desk, troubles>>

\* SetFader.
HandleUpdate ==
    /\ wire # <<>> /\ Head(wire).type = "UPDATE_MA_ENCODER"
    /\ wire' = Tail(wire)
    /\ pending' = [pending EXCEPT ![Head(wire).channel] = Head(wire).value]
    /\ UNCHANGED <<kind, value, age, shown, faderVars, inputVars, refreshVars, overtaken, desk, troubles>>

\* "the value is updated for the next DMX packet" (channel.cpp:232).
DmxPacket ==
    /\ \E c \in Channels : pending[c] # Unknown
    /\ desk' = [c \in Channels |-> IF pending[c] = Unknown THEN desk[c] ELSE pending[c]]
    /\ pending' = [c \in Channels |-> Unknown]
    /\ UNCHANGED <<kind, value, age, shown, faderVars, inputVars, refreshVars, overtaken, wire, troubles>>

EditDesk ==
    /\ Trouble
    /\ \E c \in Channels : \E v \in Values \ {desk[c]} : desk' = [desk EXCEPT ![c] = v]
    /\ UNCHANGED <<kind, value, age, shown, faderVars, inputVars, refreshVars, overtaken, wire, pending>>

Lose ==
    /\ wire # <<>> /\ Trouble
    /\ wire' = Tail(wire)
    /\ UNCHANGED <<kind, value, age, shown, faderVars, inputVars, refreshVars, overtaken, pending, desk>>

\* The input thread handles an event in far less than a tick.
Tick ==
    /\ Free
    /\ age' = Min({age + 1, LongAgo})
    /\ round' = IF pc \in {"answered", "check"}
                THEN [round EXCEPT !.lag = Min({@ + 1, AnswerLag + 1})] ELSE round
    /\ UNCHANGED <<kind, value, shown, faderVars, inputVars, pc, overtaken, deskVars, troubles>>

Refresh == Ask \/ Timeout \/ Accept \/ CheckDuration \/ WriteValue \/ ShowValue \/ StoreValue
Plugin == AnswerRequest \/ HandleUpdate

Next ==
    \/ ReadDial \/ TurnDial \/ TurnFader \/ TellTurn \/ Move \/ SendAllFaders
    \/ Refresh \/ Plugin \/ DmxPacket \/ EditDesk \/ Lose \/ Tick

Spec == Init /\ [][Next]_vars

Fairness ==
    /\ WF_vars(TurnDial) /\ WF_vars(TellTurn) /\ WF_vars(Refresh) /\ WF_vars(Plugin)
    /\ WF_vars(DmxPacket) /\ WF_vars(Tick)

FairSpec == Spec /\ Fairness

-----------------------------------------------------------------------------
Rounds ==
    [value : Values \cup {Unknown}, lag : 0..(AnswerLag + 1),
     moved : BOOLEAN, fresh : BOOLEAN, late : BOOLEAN]

Messages ==
    [type : {"REQ_ENCODERS"}, channel : Channels, value : {Unknown}]
        \cup [type : {"UPDATE_MA_ENCODER"}, channel : Channels, value : Values]

OneRequest(w, where) ==
    \A i, j \in DOMAIN w :
        w[i].type = "REQ_ENCODERS" /\ w[j].type = "REQ_ENCODERS" => i = j /\ where = "asked"

(***************************************************************************)
(* The type invariant.  There is a request on the wire only while the      *)
(* refresh thread waits for it.                                            *)
(***************************************************************************)
TypeOK ==
    /\ kind \in Kinds
    /\ {value, reading, turning} \subseteq Values \cup {Unknown}
    /\ pending \in [Channels -> Values \cup {Unknown}]
    /\ desk \in [Channels -> Values]
    /\ {shown, level} \subseteq Values
    /\ rewound \in BOOLEAN /\ overtaken \in BOOLEAN
    /\ age \in 0..LongAgo
    /\ address \in Channels
    /\ pc \in {"idle", "asked", "answered", "check", "write", "show", "store"}
    /\ round \in Rounds
    /\ pc \in {"answered", "check"} \/ Using => round.value \in Values
    /\ wire \in Seq(Messages) /\ OneRequest(wire, pc)

(***************************************************************************)
(* "This means that the value is not immediately updated" (channel.cpp:    *)
(* 233): still no dial or fader jumps back.  An answer about to be used    *)
(* knows of every turn, unless the desk took longer than UpdateLag, the    *)
(* answer longer than AnswerLag, or the turn came between the check of     *)
(* the time and the use.                                                   *)
(***************************************************************************)
JumpsBackOnlyIfSlow ==
    pc = "write" => round.fresh \/ round.late \/ overtaken

(***************************************************************************)
(* Between two steps that set it, the fader, ring or meter shows m_value,  *)
(* which the next turn of a dial starts from; only a turn in the middle of *)
(* an update can part them, and a surface that was silent for long, whose  *)
(* faders are then sent the levels from before the last turns.  The        *)
(* channel has executors: one that has none sends its fader to 0 and keeps *)
(* m_value (channel.cpp:12).                                               *)
(***************************************************************************)
ShownIsValue ==
    value # Unknown /\ turning = Unknown /\ ~Using /\ ~overtaken /\ ~rewound =>
        shown = value

(***************************************************************************)
(* When the user has let go, the surface, m_value and the desk come to     *)
(* agree, whatever was moved, edited, lost or ignored.                     *)
(***************************************************************************)
Settles ==
    <>[](shown = desk[address] /\ value = desk[address])
=============================================================================
