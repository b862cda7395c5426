---------------------------- MODULE SurfaceLights ----------------------------
(***************************************************************************)
(* The lights of the keys.  XTouch (XTouchLib/x-touch.cpp) keeps a cache   *)
(* of them, mButtonLEDStates, and sends a packet when an entry changes.    *)
(* Two threads write it without a lock: the input thread, whose pin layer  *)
(* saves, clears, sets and restores all lights, and the refresh thread,    *)
(* which sets the key lights of a strip from what the desk said.  The      *)
(* surface may be switched off, and packets to it may be lost; a surface   *)
(* that was silent for long is sent everything again (CheckIdle).          *)
(*                                                                         *)
(* A thread runs a program of steps, each with one access to shared state. *)
(* One strip is modelled, with the two of its keys that the pin layer uses *)
(* too.  The light of PIN, which only the input thread writes, is left out.*)
(***************************************************************************)
EXTENDS Integers, Sequences, SequencesExt

CONSTANTS
    Limit,      \* bound: stands for the 5 seconds of CheckIdle
    MaxKeys,    \* bound: keys handled in the group or the pin layer
    MaxTroubles \* bound: edits of the show, packets lost and outages, together

ASSUME BoundsAssumption == {Limit, MaxKeys, MaxTroubles} \subseteq Nat

LightOrder == <<"MUTE", "SELECT">>
Lights == ToSet(LightOrder)
States == {"OFF", "ON"}
Threads == {"input", "refresh"}

VARIABLES
    led,            \* mButtonLEDStates
    stack,          \* mButtonLEDStack
    blockUpdates,   \* m_blockUpdates
    ops,            \* what is left of the program of each thread
    buf,            \* the local buffer of each thread: what it has read
    pinMode,        \* the pin layer is on the stack of layers
    pinned,         \* m_pinned of the strip
    refreshNeeded,  \* mFullRefreshNeeded
    since,          \* time(NULL) - mLastIdle, up to Limit + 1
    desk,           \* keysActive as the desk has it; Gone: no executors
    surface, on,    \* what the surface shows; whether it is switched on
    rebooted,       \* history: it was switched on and has sent nothing since
    excused,        \* history: lights that a race, a loss or a short outage spoilt
    raced,          \* history: lights the pin layer cleared during an update
    keys, troubles

threadVars == <<led, stack, blockUpdates, ops, buf>>
layerVars == <<pinMode, pinned, refreshNeeded, since>>
surfaceVars == <<surface, on, rebooted, excused>>
vars == <<threadVars, layerVars, surfaceVars, desk, raced, keys, troubles>>

Gone == [k \in {} |-> "OFF"]
AllOff == [l \in Lights |-> "OFF"]
Nothing == [l \in {} |-> "OFF"]

-----------------------------------------------------------------------------
(***************************************************************************)
(* The programs, as sequences of steps.                                    *)
(***************************************************************************)
Op(do, light, state) == [do |-> do, light |-> light, state |-> state]

ForEachLight(do, state) == [i \in DOMAIN LightOrder |-> Op(do, LightOrder[i], state)]

SetSingleButton(light, state) ==
    <<Op("compare", light, state), Op("store", light, state),
      Op("read", light, "none"), Op("send", "none", "none")>>

SendAllButtons == ForEachLight("read", "none") \o <<Op("send", "none", "none")>>

ClearButtonLights == ForEachLight("store", "OFF") \o SendAllButtons

PushLightState ==
    ForEachLight("read", "none") \o <<Op("push", "none", "none")>> \o ClearButtonLights

\* Definitions marked "mutant" carry a mistake on purpose; the mutation checks
\* put each in the place of the definition after it.

\* mutant: the state stays on the stack
PopLightStateKeeps == <<Op("peek", "none", "none")>> \o ForEachLight("restore", "none") \o SendAllButtons

PopLightState == <<Op("pop", "none", "none")>> \o ForEachLight("restore", "none") \o SendAllButtons

\* PinInterfaceLayer::UpdateLights.
UpdateLights(pin) ==
    ClearButtonLights \o SetSingleButton(IF pin THEN "MUTE" ELSE "SELECT", "ON")

\* The group's Pause, then the Start of the pin layer.
Pause == <<Op("block", "none", "TRUE")>> \o PushLightState

\* mutant: updates of the key lights stay blocked
ResumeBlocked == PopLightState

\* GenerateChannelWindows, the first call of Resume, writes no light.
Resume == PopLightState \o <<Op("block", "none", "FALSE")>>

-----------------------------------------------------------------------------
Init ==
    /\ led = AllOff /\ stack = <<>> /\ blockUpdates = FALSE
    /\ ops = [t \in Threads |-> <<>>] /\ buf = [t \in Threads |-> Nothing]
    /\ pinMode = FALSE /\ pinned = FALSE
    /\ refreshNeeded = FALSE /\ since = 0
    /\ desk \in [Lights -> States]
    /\ surface = AllOff /\ on = TRUE /\ rebooted = FALSE
    /\ excused = {} /\ raced = {}
    /\ keys = 0 /\ troubles = 0

Idle(t) == ops[t] = <<>>
Doing(t, do) == ~Idle(t) /\ Head(ops[t]).do = do
Finish(t, n) == ops' = [ops EXCEPT ![t] = SubSeq(@, n + 1, Len(@))]

Put(f, l, v) == [x \in DOMAIN f \cup {l} |-> IF x = l THEN v ELSE f[x]]

(***************************************************************************)
(* The steps of a thread.                                                  *)
(***************************************************************************)
\* SetSingleButton returns if the cache has the state already.
Compare(t) ==
    /\ Doing(t, "compare")
    /\ Finish(t, IF led[Head(ops[t]).light] = Head(ops[t]).state THEN 4 ELSE 1)
    /\ UNCHANGED <<led, stack, blockUpdates, buf, layerVars, surfaceVars, desk, raced, keys, troubles>>

\* A light the input thread writes while an update is under way is raced.
Store(t) ==
    /\ Doing(t, "store") \/ Doing(t, "restore")
    /\ LET op == Head(ops[t])
       IN  /\ led' = [led EXCEPT ![op.light] = IF op.do = "store" THEN op.state
                                                                  ELSE buf[t][op.light]]
           /\ raced' = CASE t = "refresh"   -> raced
                         [] Idle("refresh") -> raced \ {op.light}
                         [] OTHER           -> raced \cup {op.light}
    /\ Finish(t, 1)
    /\ UNCHANGED <<stack, blockUpdates, buf, layerVars, surfaceVars, desk, keys, troubles>>

ReadLight(t) ==
    /\ Doing(t, "read")
    /\ LET l == Head(ops[t]).light IN buf' = [buf EXCEPT ![t] = Put(@, l, led[l])]
    /\ Finish(t, 1)
    /\ UNCHANGED <<led, stack, blockUpdates, layerVars, surfaceVars, desk, raced, keys, troubles>>

\* SendPacket.  A packet to a surface that is off is gone; one that is lost, or
\* that was read before the other thread changed the cache, spoils its lights.
Send(t) ==
    /\ Doing(t, "send")
    /\ LET sent  == DOMAIN buf[t]
           stale == {l \in sent : buf[t][l] # led[l]}
       IN  \/ /\ on
              /\ surface' = [l \in Lights |-> IF l \in sent THEN buf[t][l] ELSE surface[l]]
              /\ excused' = (excused \ sent) \cup stale
              /\ UNCHANGED troubles
           \/ /\ on /\ troubles < MaxTroubles
              /\ troubles' = troubles + 1
              /\ excused' = excused \cup {l \in sent : surface[l] # buf[t][l]}
              /\ UNCHANGED surface
           \/ /\ ~on
              /\ UNCHANGED <<surface, excused, troubles>>
    /\ buf' = [buf EXCEPT ![t] = Nothing]
    /\ Finish(t, 1)
    /\ UNCHANGED <<led, stack, blockUpdates, layerVars, on, rebooted, desk, raced, keys>>

Push(t) ==
    /\ Doing(t, "push")
    /\ stack' = Append(stack, buf[t])
    /\ buf' = [buf EXCEPT ![t] = Nothing]
    /\ Finish(t, 1)
    /\ UNCHANGED <<led, blockUpdates, layerVars, surfaceVars, desk, raced, keys, troubles>>

Pop(t) ==
    /\ Doing(t, "pop") \/ Doing(t, "peek")
    /\ buf' = [buf EXCEPT ![t] = Last(stack)]
    /\ stack' = IF Doing(t, "pop") THEN Front(stack) ELSE stack
    /\ Finish(t, 1)
    /\ UNCHANGED <<led, blockUpdates, layerVars, surfaceVars, desk, raced, keys, troubles>>

Block(t) ==
    /\ Doing(t, "block")
    /\ blockUpdates' = (Head(ops[t]).state = "TRUE")
    /\ Finish(t, 1)
    /\ UNCHANGED <<led, stack, buf, layerVars, surfaceVars, desk, raced, keys, troubles>>

Step(t) ==
    Compare(t) \/ Store(t) \/ ReadLight(t) \/ Send(t) \/ Push(t) \/ Pop(t) \/ Block(t)

-----------------------------------------------------------------------------
(***************************************************************************)
(* The packets of the surface: CheckIdle, then the handler of the event.   *)
(***************************************************************************)
\* mutant: a surface that comes back is never sent everything
CheckIdleNever(program) ==
    /\ ops' = [ops EXCEPT !["input"] = program]
    /\ since' = 0
    /\ UNCHANGED refreshNeeded

CheckIdle(program) ==
    /\ ops' = [ops EXCEPT !["input"] =
                  (IF since > 0 /\ refreshNeeded THEN SendAllButtons ELSE <<>>) \o program]
    /\ refreshNeeded' = IF since = 0 THEN refreshNeeded ELSE since > Limit
    /\ since' = 0

HandlePacket(program) ==
    /\ on /\ Idle("input")
    /\ CheckIdle(program)
    /\ rebooted' = FALSE
    /\ excused' = excused \cup
          IF rebooted /\ ~refreshNeeded /\ since <= Limit
          THEN {l \in Lights : surface[l] # led[l]} ELSE {}
    /\ UNCHANGED <<led, stack, blockUpdates, buf, surface, on, desk, raced, troubles>>

\* A probe, a touch, or a key that no layer lights.
OtherPacket ==
    /\ HandlePacket(<<>>)
    /\ UNCHANGED <<pinMode, pinned, keys>>

EnterPinMode ==
    /\ ~pinMode /\ keys < MaxKeys
    /\ HandlePacket(Pause \o UpdateLights(pinned))
    /\ pinMode' = TRUE /\ keys' = keys + 1
    /\ UNCHANGED pinned

\* SELECT pins the strip, MUTE releases it.
PinStrip(state) ==
    /\ pinMode /\ keys < MaxKeys
    /\ HandlePacket(UpdateLights(state))
    /\ pinned' = state /\ keys' = keys + 1
    /\ UNCHANGED pinMode

ExitPinMode ==
    /\ pinMode /\ keys < MaxKeys
    /\ HandlePacket(Resume)
    /\ pinMode' = FALSE /\ keys' = keys + 1
    /\ UNCHANGED pinned

-----------------------------------------------------------------------------
(***************************************************************************)
(* The refresh thread, from UpdateEncoderFromMA of the group on: whether   *)
(* lights are updated is read before, and used after, the encoders.        *)
(***************************************************************************)
\* mutant: the lights are updated in any case
UpdateEncoderFromMAAlways ==
    /\ Idle("refresh") /\ desk # Gone
    /\ ops' = [ops EXCEPT !["refresh"] = SetSingleButton("MUTE", desk["MUTE"])
                                            \o SetSingleButton("SELECT", desk["SELECT"])]
    /\ UNCHANGED <<led, stack, blockUpdates, buf, layerVars, surfaceVars, desk, raced, keys, troubles>>

UpdateEncoderFromMA ==
    /\ Idle("refresh") /\ desk # Gone
    /\ ~blockUpdates
    /\ ops' = [ops EXCEPT !["refresh"] = SetSingleButton("MUTE", desk["MUTE"])
                                            \o SetSingleButton("SELECT", desk["SELECT"])]
    /\ UNCHANGED <<led, stack, blockUpdates, buf, layerVars, surfaceVars, desk, raced, keys, troubles>>

-----------------------------------------------------------------------------
(***************************************************************************)
(* The surroundings.                                                       *)
(***************************************************************************)
EditShow ==
    /\ troubles < MaxTroubles
    /\ troubles' = troubles + 1
    /\ desk' \in ([Lights -> States] \cup {Gone}) \ {desk}
    /\ UNCHANGED <<threadVars, layerVars, surfaceVars, raced, keys>>

SwitchOff ==
    /\ on /\ troubles < MaxTroubles
    /\ troubles' = troubles + 1
    /\ on' = FALSE
    /\ surface' = AllOff /\ rebooted' = FALSE /\ excused' = {}
    /\ UNCHANGED <<threadVars, layerVars, desk, raced, keys>>

SwitchOn ==
    /\ ~on
    /\ on' = TRUE /\ rebooted' = TRUE
    /\ UNCHANGED <<threadVars, layerVars, surface, excused, desk, raced, keys, troubles>>

\* Handling a packet takes far less than a second.
Tick ==
    /\ Idle("input") /\ since <= Limit
    /\ since' = since + 1
    /\ UNCHANGED <<threadVars, pinMode, pinned, refreshNeeded, surfaceVars, desk, raced, keys, troubles>>

Next ==
    \/ \E t \in Threads : Step(t)
    \/ OtherPacket
    \/ EnterPinMode
    \/ \E state \in BOOLEAN : PinStrip(state)
    \/ ExitPinMode
    \/ UpdateEncoderFromMA
    \/ EditShow
    \/ SwitchOff
    \/ SwitchOn
    \/ Tick

Spec == Init /\ [][Next]_vars

\* The threads run; a surface that is on keeps sending (it probes); time passes.
Fairness ==
    /\ \A t \in Threads : WF_vars(Step(t))
    /\ WF_vars(UpdateEncoderFromMA)
    /\ WF_vars(OtherPacket)
    /\ WF_vars(Tick)

FairSpec == Spec /\ Fairness

-----------------------------------------------------------------------------
(***************************************************************************)
(* The type invariant.  The lights are saved exactly while the pin layer   *)
(* is there, once.                                                         *)
(***************************************************************************)
TypeOK ==
    /\ led \in [Lights -> States] /\ surface \in [Lights -> States]
    /\ stack \in Seq([Lights -> States])
    /\ Idle("input") => Len(stack) = (IF pinMode THEN 1 ELSE 0)
    /\ {blockUpdates, pinMode, pinned, refreshNeeded, on, rebooted} \subseteq BOOLEAN
    /\ since \in 0..(Limit + 1)
    /\ desk \in [Lights -> States] \cup {Gone}
    /\ excused \subseteq Lights /\ raced \subseteq Lights
    /\ keys \in 0..MaxKeys /\ troubles \in 0..MaxTroubles

(***************************************************************************)
(* Between two packets the surface shows what the cache says: although two *)
(* threads compare, set and send without a lock, a light can stay wrong    *)
(* only if a packet with it was overtaken by the other thread's or lost,   *)
(* or if the surface was off for no longer than CheckIdle notices.         *)
(***************************************************************************)
DivergenceHasCause ==
    on /\ ~rebooted /\ ~refreshNeeded /\ Idle("input") /\ Idle("refresh") =>
        \A l \in Lights \ excused : surface[l] = led[l]

(***************************************************************************)
(* In pin mode the key lights tell whether the strip is pinned, not what   *)
(* the desk says, unless an update that had read m_blockUpdates before     *)
(* wrote the light after the pin layer.                                    *)
(***************************************************************************)
PinLightsTellPins ==
    pinMode /\ Idle("input") =>
        \A k \in Lights \ raced : led[k] = (IF (k = "MUTE") = pinned THEN "ON" ELSE "OFF")

(***************************************************************************)
(* If the surface stays on, its key lights come to show the desk's and     *)
(* stay so: pin mode, the lights it saved, outages and losses leave no     *)
(* trace, except for the causes above, and for a strip that lost its       *)
(* executors, whose lights Disable leaves alone.                           *)
(***************************************************************************)
KeyLightsConverge ==
    <>[]on => <>[](pinMode \/ desk = Gone \/ \A k \in Lights \ excused : surface[k] = desk[k])
=============================================================================
