------------------------- MODULE InputLayersProofs -------------------------
(***************************************************************************)
(* Proofs about InputLayers, for any strips, buttons, executors and bounds,*)
(* and, at the end, about the executer next to the layers in the helpers   *)
(* (DelayedExecuter), for any executions, values and delay, and about the  *)
(* start, which puts the layers up (StartUp), for any limit of the idle    *)
(* time.                                                                   *)
(***************************************************************************)
EXTENDS InputLayers, DelayedExecuter, StartUp, SequenceTheorems, TLAPS

(***************************************************************************)
(* What NothingStaysPressed rests on.  An executor that will be pressed    *)
(* once every message has arrived is one that a held key was sent for, or  *)
(* one whose release went astray.                                          *)
(***************************************************************************)
WillBePressed(e, w, now) ==
    \/ e \in now /\ \A i \in DOMAIN w : w[i].executor = e => w[i].down
    \/ \E i \in DOMAIN w :
          /\ w[i].executor = e
          /\ \A j \in DOMAIN w : j >= i /\ w[j].executor = e => w[j].down

PressesAreReleased ==
    \A e \in Executors :
        WillBePressed(e, wire, pressed) => e \in astray \/ \E k \in held : sentFor[k] = e

IInv == TypeOK /\ PressesAreReleased /\ LightTellsDesk

USE NumStripsAssumption, ChannelAssumption, InvalidAssumption, WireAssumption,
    ButtonsAssumption, ExecutorsAssumption, BoundsAssumption

-----------------------------------------------------------------------------
(***************************************************************************)
(* Which layer receives what, and which executor a key stands for.         *)
(***************************************************************************)
LEMMA Receivers ==
    ASSUME layers \in {Stack, PinStack},
           NEW event \in {"STRIP_KEY", "PIN", "NAVIGATION", "SYSTEM"}
    PROVE  /\ Receiver(event) \in {"group", "controller"} => layers = Stack
           /\ Receiver(event) = "pin" => layers = PinStack
<1> DEFINE Top(i) == /\ Handles(layers[i], event)
                     /\ \A j \in (i + 1)..Len(layers) : ~Handles(layers[j], event)
<1>1. CASE layers = Stack
  <2>1. DOMAIN layers = {1, 2, 3} /\ Len(layers) = 3 /\ \A i \in {1, 2, 3} : layers[i] # "pin"
    BY <1>1 DEF Stack
  <2>2. ASSUME event = "SYSTEM"
        PROVE  \E i \in DOMAIN layers : Top(i)
    <3>1. layers[2] = "controller" /\ layers[3] = "group"
      BY <1>1 DEF Stack
    <3>2. Handles("controller", event) /\ ~Handles("group", event)
      BY <2>2 DEF Handles
    <3>3. \A j \in (2 + 1)..Len(layers) : j = 3
      BY <2>1
    <3>4. Top(2)
      BY <3>1, <3>2, <3>3
    <3> HIDE DEF Top
    <3>5. QED
      BY <2>1, <3>4
  <2>3. ASSUME event # "SYSTEM"
        PROVE  \E i \in DOMAIN layers : Top(i)
    <3>1. Top(3)
      BY <1>1, <2>1, <2>3 DEF Stack, Handles
    <3> HIDE DEF Top
    <3>2. QED
      BY <2>1, <3>1
  <2>4. \E i \in DOMAIN layers : Top(i)
    <3> HIDE DEF Top
    <3>1. QED
      BY <2>2, <2>3
  <2>5. Receiver(event) = layers[CHOOSE i \in DOMAIN layers : Top(i)]
    BY Zenon DEF Receiver
  <2> HIDE DEF Top
  <2>6. (CHOOSE i \in DOMAIN layers : Top(i)) \in DOMAIN layers
    BY <2>4, Zenon
  <2>7. QED
    BY <1>1, <2>1, <2>5, <2>6
<1>2. CASE layers = PinStack
  <2>1. DOMAIN layers = 1..4 /\ Len(layers) = 4 /\ layers[4] = "pin"
    BY <1>2 DEF PinStack
  <2>2. Top(4)
    BY <2>1 DEF Handles
  <2>3. \A i \in DOMAIN layers : Top(i) => i = 4
    BY <2>1, <2>2
  <2>4. Receiver(event) = "pin"
    BY <2>1, <2>2, <2>3 DEF Receiver
  <2>5. QED
    BY <1>2, <2>4
<1>3. QED
  BY <1>1, <1>2

\* PushLayer and PopLayer go from one stack to the other.
LEMMA Stacks == Append(Stack, "pin") = PinStack /\ SubSeq(PinStack, 1, 3) = Stack
<1> DEFINE Names == {"base", "controller", "group", "pin"}
<1>1. /\ Stack \in Seq(Names) /\ Len(Stack) = 3
      /\ Stack[1] = "base" /\ Stack[2] = "controller" /\ Stack[3] = "group"
  BY DEF Stack
<1>2. /\ PinStack \in Seq(Names) /\ Len(PinStack) = 4
      /\ PinStack[1] = "base" /\ PinStack[2] = "controller"
      /\ PinStack[3] = "group" /\ PinStack[4] = "pin"
  BY DEF PinStack
<1>3. /\ Append(Stack, "pin") \in Seq(Names) /\ Len(Append(Stack, "pin")) = 4
      /\ \A i \in 1..4 : Append(Stack, "pin")[i] = PinStack[i]
  <2>1. /\ Append(Stack, "pin") \in Seq(Names) /\ Len(Append(Stack, "pin")) = 4
        /\ Append(Stack, "pin")[4] = "pin"
        /\ \A i \in 1..3 : Append(Stack, "pin")[i] = Stack[i]
    BY <1>1
  <2>2. QED
    BY <1>1, <1>2, <2>1
<1>4. /\ SubSeq(PinStack, 1, 3) \in Seq(Names) /\ Len(SubSeq(PinStack, 1, 3)) = 3
      /\ \A i \in 1..3 : SubSeq(PinStack, 1, 3)[i] = PinStack[i]
  BY <1>2, SubSeqProperties
<1>5. \A i \in 1..3 : SubSeq(PinStack, 1, 3)[i] = Stack[i]
  BY <1>1, <1>2, <1>4
<1> HIDE DEF Names
<1>6. QED
  BY <1>1, <1>2, <1>3, <1>4, <1>5, SeqEqual

LEMMA ExecutorNumber ==
    ASSUME address \in [Strips -> Subs], NEW k \in Keys
    PROVE  Executor(k) \in ExecutorNumbers
<1>1. k[1] \in Strips /\ k[2] \in Buttons
  BY DEF Keys
<1>2. address[k[1]] \in Nat
  BY <1>1 DEF Subs
<1>3. address[k[1]] % WireChannels \in 0..(WireChannels - 1)
  BY <1>2
<1>4. TypeNumber(k[2]) \in 0..(3 * TypeStep)
  BY <1>1 DEF TypeNumber
<1>5. QED
  BY <1>3, <1>4 DEF Executor, ExecutorOf, ExecutorNumbers

-----------------------------------------------------------------------------
(***************************************************************************)
(* Which executors will be pressed.                                        *)
(***************************************************************************)
\* A message sent decides about the executor it names only.
LEMMA SentDecides ==
    ASSUME NEW w \in Seq(Messages), NEW m \in Messages, NEW e, NEW now,
           WillBePressed(e, Append(w, m), now)
    PROVE  IF m.executor = e THEN m.down ELSE WillBePressed(e, w, now)
<1> DEFINE sent == Append(w, m)
<1>1. Len(w) \in Nat /\ DOMAIN w = 1..Len(w) /\ DOMAIN sent = 1..(Len(w) + 1)
  OBVIOUS
<1>2. sent[Len(w) + 1] = m /\ \A i \in DOMAIN w : sent[i] = w[i]
  OBVIOUS
<1> HIDE DEF sent
<1>3. CASE m.executor = e
  <2>1. \A i \in DOMAIN sent : i <= Len(w) + 1 /\ Len(w) + 1 \in DOMAIN sent
    BY <1>1
  <2>2. m.down
    BY <1>2, <1>3, <2>1 DEF WillBePressed, sent
  <2>3. QED
    BY <1>3, <2>2
<1>4. CASE m.executor # e
  <2>1. CASE e \in now /\ \A i \in DOMAIN sent : sent[i].executor = e => sent[i].down
    BY <1>1, <1>2, <2>1 DEF WillBePressed
  <2>2. ASSUME NEW i \in DOMAIN sent, sent[i].executor = e,
               \A j \in DOMAIN sent : j >= i /\ sent[j].executor = e => sent[j].down
        PROVE  WillBePressed(e, w, now)
    <3>1. i \in DOMAIN w
      BY <1>1, <1>2, <1>4, <2>2
    <3>2. \A j \in DOMAIN w : j \in DOMAIN sent /\ sent[j] = w[j]
      BY <1>1, <1>2
    <3>3. QED
      BY <2>2, <3>1, <3>2 DEF WillBePressed
  <2>3. QED
    BY <1>4, <2>1, <2>2 DEF WillBePressed, sent
<1>5. QED
  BY <1>3, <1>4

\* A message that arrives, or is lost, leaves what the others decide.
LEMMA ReceivedDecides ==
    ASSUME NEW w \in Seq(Messages), w # <<>>, NEW e, NEW before, NEW now,
           Head(w).executor = e => Head(w).down \/ e \notin now,
           Head(w).executor # e /\ e \in now => e \in before,
           WillBePressed(e, Tail(w), now)
    PROVE  WillBePressed(e, w, before)
<1> DEFINE rest == Tail(w)
<1>1. Len(w) \in Nat /\ Len(w) > 0 /\ DOMAIN w = 1..Len(w) /\ DOMAIN rest = 1..(Len(w) - 1)
  OBVIOUS
<1>2. Head(w) = w[1] /\ \A i \in DOMAIN rest : rest[i] = w[i + 1]
  OBVIOUS
<1> HIDE DEF rest
<1>3. \A i \in DOMAIN w : i = 1 \/ (i - 1 \in DOMAIN rest /\ rest[i - 1] = w[i])
  BY <1>1, <1>2
<1>4. CASE e \in now /\ \A i \in DOMAIN rest : rest[i].executor = e => rest[i].down
  <2>1. CASE Head(w).executor = e
    <3>1. 1 \in DOMAIN w /\ w[1].executor = e
      BY <1>1, <1>2, <2>1
    <3>2. \A j \in DOMAIN w : w[j].executor = e => w[j].down
      BY <1>2, <1>3, <1>4
    <3>3. QED
      BY <3>1, <3>2 DEF WillBePressed
  <2>2. CASE Head(w).executor # e
    <3>1. \A j \in DOMAIN w : w[j].executor = e => w[j].down
      BY <1>2, <1>3, <1>4, <2>2
    <3>2. QED
      BY <1>4, <2>2, <3>1 DEF WillBePressed
  <2>3. QED
    BY <2>1, <2>2
<1>5. ASSUME NEW i \in DOMAIN rest, rest[i].executor = e,
             \A j \in DOMAIN rest : j >= i /\ rest[j].executor = e => rest[j].down
      PROVE  WillBePressed(e, w, before)
  <2>1. i + 1 \in DOMAIN w /\ w[i + 1].executor = e
    BY <1>1, <1>2, <1>5
  <2>2. \A j \in DOMAIN w : j >= i + 1 /\ w[j].executor = e => w[j].down
    BY <1>1, <1>3, <1>5
  <2>3. QED
    BY <2>1, <2>2 DEF WillBePressed
<1>6. QED
  BY <1>4, <1>5 DEF WillBePressed, rest

-----------------------------------------------------------------------------
(***************************************************************************)
(* Type correctness.                                                       *)
(***************************************************************************)
LEMMA InitTypeOK == Init => TypeOK
<1> SUFFICES ASSUME Init
             PROVE  TypeOK
  OBVIOUS
<1>1. address \in [Strips -> Subs]
  BY DEF Init, Strips, Subs
<1>2. sentFor \in [Keys -> ExecutorNumbers]
  BY DEF Init, NoExecutor, ExecutorNumbers
<1>3. /\ savedLight \in Seq({"OFF", "ON"}) /\ Len(savedLight) = Len(layers) - 3
      /\ wire \in Seq(Messages) /\ Len(wire) <= QueueCap
  BY DEF Init
<1>4. presses \in 0..MaxPresses /\ moves \in 0..MaxMoves /\ losses \in 0..MaxLosses
  BY DEF Init
<1>5. QED
  BY <1>1, <1>2, <1>3, <1>4 DEF Init, TypeOK, Stack

\* The queue to the plugin.
LEMMA Queued ==
    ASSUME NEW w \in Seq(Messages), Len(w) < QueueCap, NEW m \in Messages
    PROVE  Append(w, m) \in Seq(Messages) /\ Len(Append(w, m)) <= QueueCap
OBVIOUS

LEMMA Dequeued ==
    ASSUME NEW w \in Seq(Messages), w # <<>>, Len(w) <= QueueCap
    PROVE  /\ Head(w) \in Messages
           /\ Tail(w) \in Seq(Messages) /\ Len(Tail(w)) <= QueueCap
OBVIOUS

\* The lights that PushLayer saved are all that PopLayer restores.
LEMMA OneSaved ==
    ASSUME NEW s \in Seq({"OFF", "ON"}), Len(s) = 1
    PROVE  s[Len(s)] \in {"OFF", "ON"} /\ SubSeq(s, 1, Len(s) - 1) = <<>>
<1>1. 1 \in DOMAIN s /\ Len(s) - 1 = 0 /\ 0 \in Int /\ 1 \in Int /\ 0 < 1
  OBVIOUS
<1>2. SubSeq(s, 1, 0) = <<>>
  BY <1>1, SubSeqEmpty
<1>3. QED
  BY <1>1, <1>2

\* The keys of the strips.
LEMMA KeyTypeOK ==
    ASSUME TypeOK, NEW k \in Keys, PressKey(k) \/ ReleaseKey(k)
    PROVE  TypeOK'
<1> USE DEF TypeOK, stripVars, layerVars, systemVars, deskVars
<1>1. /\ Executor(k) \in ExecutorNumbers /\ NoExecutor \in ExecutorNumbers
      /\ Message(Executor(k), TRUE) \in Messages /\ Message(Executor(k), FALSE) \in Messages
  BY ExecutorNumber DEF Message, Messages, NoExecutor, ExecutorNumbers
<1>2. CASE PressKey(k)
  <2>1. wire' \in Seq(Messages) /\ Len(wire') <= QueueCap
    <3>1. \/ Len(wire) < QueueCap /\ wire' = Append(wire, Message(Executor(k), TRUE))
          \/ wire' = wire
      BY <1>2 DEF PressKey
    <3>2. QED
      BY <1>1, <3>1, Queued
  <2>2. sentFor' \in [Keys -> ExecutorNumbers]
    BY <1>1, <1>2 DEF PressKey
  <2>3. held' \in SUBSET Keys /\ presses' \in 0..MaxPresses
    BY <1>2 DEF PressKey
  <2>4. QED
    BY <1>2, <2>1, <2>2, <2>3 DEF PressKey
<1>3. CASE ReleaseKey(k)
  <2>1. wire' \in Seq(Messages) /\ Len(wire') <= QueueCap
    <3>1. \/ Len(wire) < QueueCap /\ wire' = Append(wire, Message(Executor(k), FALSE))
          \/ wire' = wire
      BY <1>3 DEF ReleaseKey
    <3>2. QED
      BY <1>1, <3>1, Queued
  <2>2. sentFor' \in [Keys -> ExecutorNumbers] /\ held' \in SUBSET Keys
    BY <1>1, <1>3 DEF ReleaseKey
  <2>3. astray' \in SUBSET ExecutorNumbers
    <3>1. sentFor[k] \in ExecutorNumbers
      OBVIOUS
    <3>2. \/ astray' = (astray \cup {sentFor[k]}) \ {Executor(k), NoExecutor}
          \/ astray' = (astray \cup {sentFor[k]}) \ {NoExecutor}
      BY <1>3 DEF ReleaseKey
    <3>3. QED
      BY <3>1, <3>2
  <2>4. pinned' \in SUBSET Strips /\ systemLight' \in {"OFF", "ON"}
    BY <1>3 DEF ReleaseKey, Keys
  <2>5. QED
    BY <1>3, <2>1, <2>2, <2>3, <2>4 DEF ReleaseKey
<1>4. QED
  BY <1>2, <1>3

\* The keys that move the strips, PIN, and the system key.
LEMMA OtherKeysTypeOK ==
    ASSUME TypeOK,
           Navigate \/ EnterPinMode \/ ExitPinMode \/ PressSystemKey \/ ReleaseSystemKey
    PROVE  TypeOK'
<1> USE DEF TypeOK, stripVars, layerVars, systemVars, keyVars, deskVars
<1>1. CASE Navigate
  BY <1>1 DEF Navigate
<1>2. CASE EnterPinMode
  <2>1. layers = Stack
    BY <1>2, Receivers DEF EnterPinMode
  <2>2. layers' = PinStack
    BY <1>2, <2>1, Stacks DEF EnterPinMode
  <2>3. savedLight' \in Seq({"OFF", "ON"}) /\ Len(savedLight') = Len(layers') - 3
    BY <1>2, <2>1, <2>2 DEF EnterPinMode, Stack, PinStack
  <2>4. QED
    BY <1>2, <2>2, <2>3 DEF EnterPinMode
<1>3. CASE ExitPinMode
  <2>1. layers = PinStack
    BY <1>3, Receivers DEF ExitPinMode
  <2>2. layers' = Stack
    <3>1. Len(PinStack) - 1 = 3
      BY DEF PinStack
    <3>2. QED
      BY <1>3, <2>1, <3>1, Stacks DEF ExitPinMode
  <2>3. savedLight \in Seq({"OFF", "ON"}) /\ Len(savedLight) = 1
    BY <2>1 DEF PinStack
  <2>4. savedLight' = <<>> /\ systemLight' \in {"OFF", "ON"}
    <3>1. /\ savedLight' = SubSeq(savedLight, 1, Len(savedLight) - 1)
          /\ systemLight' = savedLight[Len(savedLight)]
      BY <1>3, Zenon DEF ExitPinMode
    <3>2. QED
      BY <2>3, <3>1, OneSaved, Zenon
  <2>5. Len(layers') = 3
    BY <2>2 DEF Stack
  <2>6. savedLight' \in Seq({"OFF", "ON"}) /\ Len(savedLight') = Len(layers') - 3
    BY <2>4, <2>5
  <2>7. QED
    BY <1>3, <2>2, <2>4, <2>6 DEF ExitPinMode
<1>4. ASSUME PressSystemKey \/ ReleaseSystemKey
      PROVE  TypeOK'
  <2>1. Message(NoExecutor, TRUE) \in Messages /\ Message(NoExecutor, FALSE) \in Messages
    BY DEF Message, Messages, NoExecutor, ExecutorNumbers
  <2>2. CASE PressSystemKey
    <3>1. wire' \in Seq(Messages) /\ Len(wire') <= QueueCap
      <4>1. \/ Len(wire) < QueueCap /\ wire' = Append(wire, Message(NoExecutor, TRUE))
            \/ wire' = wire
        BY <2>2 DEF PressSystemKey
      <4>2. QED
        BY <2>1, <4>1, Queued
    <3>2. /\ systemLight' \in {"OFF", "ON"} /\ told' \in {"UP", "DOWN"}
          /\ presses' \in 0..MaxPresses
      <4>1. presses < MaxPresses /\ presses' = presses + 1
        BY <2>2 DEF PressSystemKey
      <4>2. systemLight' \in {systemLight, "ON"} /\ told' \in {told, "DOWN"}
        BY <2>2 DEF PressSystemKey
      <4>3. QED
        BY <4>1, <4>2
    <3>3. QED
      BY <2>2, <3>1, <3>2 DEF PressSystemKey
  <2>3. CASE ReleaseSystemKey
    <3>1. wire' \in Seq(Messages) /\ Len(wire') <= QueueCap
      <4>1. \/ Len(wire) < QueueCap /\ wire' = Append(wire, Message(NoExecutor, FALSE))
            \/ wire' = wire
        BY <2>3 DEF ReleaseSystemKey
      <4>2. QED
        BY <2>1, <4>1, Queued
    <3>2. systemLight' \in {"OFF", "ON"} /\ told' \in {"UP", "DOWN"}
      BY <2>3 DEF ReleaseSystemKey
    <3>3. QED
      BY <2>3, <3>1, <3>2 DEF ReleaseSystemKey
  <2>4. QED
    BY <1>4, <2>2, <2>3
<1>5. QED
  BY <1>1, <1>2, <1>3, <1>4

\* The plugin and the network.
LEMMA DeskTypeOK ==
    ASSUME TypeOK, HandleConnection \/ Lose
    PROVE  TypeOK'
<1> USE DEF TypeOK, stripVars, layerVars, systemVars, keyVars
<1>1. /\ wire # <<>> /\ wire' = Tail(wire)
  BY DEF HandleConnection, Lose
<1>2. wire' \in Seq(Messages) /\ Len(wire') <= QueueCap /\ Head(wire) \in Messages
  BY <1>1, Dequeued
<1>3. CASE HandleConnection
  <2>1. pressed' \in SUBSET Executors
    BY <1>3 DEF HandleConnection
  <2>2. QED
    BY <1>2, <1>3, <2>1 DEF HandleConnection
<1>4. CASE Lose
  <2>1. astray' \in SUBSET ExecutorNumbers /\ losses' \in 0..MaxLosses
    BY <1>2, <1>4 DEF Lose, Messages
  <2>2. QED
    BY <1>2, <1>4, <2>1 DEF Lose
<1>5. QED
  BY <1>3, <1>4

LEMMA StepTypeOK == TypeOK /\ [Next]_vars => TypeOK'
<1>1. TypeOK /\ UNCHANGED vars => TypeOK'
  BY DEF TypeOK, vars, stripVars, layerVars, systemVars, keyVars, deskVars
<1>2. QED
  BY <1>1, KeyTypeOK, OtherKeysTypeOK, DeskTypeOK DEF Next

-----------------------------------------------------------------------------
(***************************************************************************)
(* What is pressed is released.                                            *)
(***************************************************************************)
LEMMA ReleasedStep ==
    ASSUME TypeOK, PressesAreReleased, [Next]_vars
    PROVE  PressesAreReleased'
<1> SUFFICES ASSUME NEW e \in Executors, WillBePressed(e, wire, pressed)'
             PROVE  e \in astray' \/ \E k \in held' : sentFor'[k] = e
  BY DEF PressesAreReleased
<1> DEFINE Owed == e \in astray \/ \E k \in held : sentFor[k] = e
<1>1. e # NoExecutor
  BY DEF NoExecutor
<1>2. WillBePressed(e, wire, pressed) => Owed
  BY DEF PressesAreReleased
<1>3. wire \in Seq(Messages) /\ sentFor \in [Keys -> ExecutorNumbers] /\ held \subseteq Keys
  BY DEF TypeOK
<1>4. ASSUME NEW k \in Keys, PressKey(k)
      PROVE  e \in astray' \/ \E j \in held' : sentFor'[j] = e
  <2>1. k \notin held /\ held' = held \cup {k} /\ UNCHANGED <<astray, pressed>>
    BY <1>4 DEF PressKey
  <2>2. CASE /\ wire' = Append(wire, Message(Executor(k), TRUE))
             /\ sentFor' = [sentFor EXCEPT ![k] = Executor(k)]
    <3>1. /\ Message(Executor(k), TRUE) \in Messages
          /\ Message(Executor(k), TRUE).executor = Executor(k)
      BY ExecutorNumber DEF Message, Messages, TypeOK
    <3>2. Executor(k) = e \/ WillBePressed(e, wire, pressed)
      BY <1>3, <2>1, <2>2, <3>1, SentDecides
    <3>3. QED
      BY <1>2, <1>3, <2>1, <2>2, <3>2
  <2>3. CASE UNCHANGED <<wire, sentFor>>
    BY <1>2, <2>1, <2>3
  <2>4. QED
    BY <1>4, <2>2, <2>3 DEF PressKey
<1>5. ASSUME NEW k \in Keys, ReleaseKey(k)
      PROVE  e \in astray' \/ \E j \in held' : sentFor'[j] = e
  <2>1. /\ k \in held /\ held' = held \ {k} /\ UNCHANGED pressed
        /\ sentFor' = [sentFor EXCEPT ![k] = NoExecutor]
    BY <1>5 DEF ReleaseKey, deskVars
  <2>2. CASE /\ wire' = Append(wire, Message(Executor(k), FALSE))
             /\ astray' = (astray \cup {sentFor[k]}) \ {Executor(k), NoExecutor}
    <3>1. /\ Message(Executor(k), FALSE) \in Messages
          /\ Message(Executor(k), FALSE).executor = Executor(k)
          /\ ~Message(Executor(k), FALSE).down
      BY ExecutorNumber DEF Message, Messages, TypeOK
    <3> DEFINE up == Message(Executor(k), FALSE)
    <3>2. WillBePressed(e, Append(wire, up), pressed)
      BY <2>1, <2>2
    <3> HIDE DEF up
    <3>3. IF up.executor = e THEN up.down ELSE WillBePressed(e, wire, pressed)
      BY <1>3, <3>1, <3>2, SentDecides DEF up
    <3>4. Executor(k) # e /\ WillBePressed(e, wire, pressed)
      BY <3>1, <3>3 DEF up
    <3>5. QED
      BY <1>1, <1>2, <1>3, <2>1, <2>2, <3>4
  <2>3. CASE UNCHANGED wire /\ astray' = (astray \cup {sentFor[k]}) \ {NoExecutor}
    BY <1>1, <1>2, <1>3, <2>1, <2>3
  <2>4. QED
    BY <1>5, <2>2, <2>3 DEF ReleaseKey
<1>6. CASE PressSystemKey \/ ReleaseSystemKey
  <2>1. UNCHANGED <<astray, held, sentFor, pressed>>
    BY <1>6 DEF PressSystemKey, ReleaseSystemKey, keyVars
  <2>2. CASE UNCHANGED wire
    BY <1>2, <2>1, <2>2
  <2>3. ASSUME NEW down \in BOOLEAN, wire' = Append(wire, Message(NoExecutor, down))
        PROVE  WillBePressed(e, wire, pressed)
    <3>1. /\ Message(NoExecutor, down) \in Messages
          /\ Message(NoExecutor, down).executor = NoExecutor
      BY DEF Message, Messages, NoExecutor, ExecutorNumbers
    <3>2. QED
      BY <1>1, <1>3, <2>1, <2>3, <3>1, SentDecides
  <2>4. QED
    BY <1>2, <1>6, <2>1, <2>2, <2>3 DEF PressSystemKey, ReleaseSystemKey
<1>7. CASE HandleConnection
  <2>1. wire # <<>> /\ wire' = Tail(wire) /\ UNCHANGED <<astray, held, sentFor>>
    BY <1>7 DEF HandleConnection, keyVars
  <2>2. CASE Head(wire).down
    <3>1. pressed' = pressed \cup ({Head(wire).executor} \cap Executors)
      BY <1>7, <2>2 DEF HandleConnection
    <3>2. WillBePressed(e, wire, pressed)
      BY <1>3, <2>1, <2>2, <3>1, ReceivedDecides
    <3>3. QED
      BY <1>2, <2>1, <3>2
  <2>3. CASE ~Head(wire).down
    <3>1. pressed' = pressed \ ({Head(wire).executor} \cap Executors)
      BY <1>7, <2>3 DEF HandleConnection
    <3>2. WillBePressed(e, wire, pressed)
      BY <1>3, <2>1, <3>1, ReceivedDecides
    <3>3. QED
      BY <1>2, <2>1, <3>2
  <2>4. QED
    BY <2>2, <2>3
<1>8. CASE Lose
  <2>1. wire # <<>> /\ wire' = Tail(wire) /\ UNCHANGED <<held, sentFor, pressed>>
    BY <1>8 DEF Lose
  <2>2. CASE Head(wire).down
    <3>1. WillBePressed(e, wire, pressed)
      BY <1>3, <2>1, <2>2, ReceivedDecides
    <3>2. QED
      BY <1>2, <1>8, <2>1, <2>2, <3>1 DEF Lose
  <2>3. CASE ~Head(wire).down
    <3>1. astray' = (astray \cup {Head(wire).executor}) \ {NoExecutor}
      BY <1>8, <2>3 DEF Lose
    <3>2. Head(wire).executor = e \/ WillBePressed(e, wire, pressed)
      BY <1>3, <2>1, ReceivedDecides
    <3>3. QED
      BY <1>1, <1>2, <2>1, <3>1, <3>2
  <2>4. QED
    BY <2>2, <2>3
<1>9. CASE Navigate \/ EnterPinMode \/ ExitPinMode \/ UNCHANGED vars
  <2>1. UNCHANGED <<astray, held, sentFor, pressed, wire>>
    BY <1>9 DEF Navigate, EnterPinMode, ExitPinMode, vars, keyVars, deskVars
  <2>2. QED
    BY <1>2, <2>1
<1>10. QED
  BY <1>4, <1>5, <1>6, <1>7, <1>8, <1>9 DEF Next

-----------------------------------------------------------------------------
(***************************************************************************)
(* The light of the system key.                                            *)
(***************************************************************************)
LEMMA LightStep ==
    ASSUME TypeOK, LightTellsDesk, [Next]_vars
    PROVE  LightTellsDesk'
<1> USE DEF LightTellsDesk
<1>1. /\ layers \in {Stack, PinStack} /\ Len(Stack) = 3 /\ Len(PinStack) = 4
      /\ savedLight \in Seq({"OFF", "ON"}) /\ Len(savedLight) = Len(layers) - 3
  BY DEF TypeOK, Stack, PinStack
<1>2. ASSUME NEW k \in Keys, PressKey(k)
      PROVE  LightTellsDesk'
  BY <1>2 DEF PressKey, PinMode, layerVars, systemVars
<1>3. ASSUME NEW k \in Keys, ReleaseKey(k)
      PROVE  LightTellsDesk'
  <2>1. UNCHANGED <<layers, savedLight, told>>
    BY <1>3 DEF ReleaseKey, layerVars
  <2>2. CASE UNCHANGED systemLight
    BY <2>1, <2>2 DEF PinMode
  <2>3. CASE Receiver("STRIP_KEY") = "pin"
    <3>1. PinMode
      BY <1>1, <2>3, Receivers DEF PinMode
    <3>2. QED
      BY <2>1, <3>1 DEF PinMode
  <2>4. QED
    BY <1>3, <2>2, <2>3 DEF ReleaseKey
<1>4. CASE EnterPinMode
  <2>1. layers = Stack /\ layers' = PinStack
    BY <1>1, <1>4, Receivers, Stacks DEF EnterPinMode
  <2>2. ~PinMode /\ PinMode'
    BY <1>1, <2>1 DEF PinMode
  <2>3. Len(savedLight) = 0
    BY <1>1, <2>1
  <2>4. savedLight'[1] = systemLight
    <3>1. savedLight' = Append(savedLight, systemLight)
      BY <1>4 DEF EnterPinMode
    <3>2. QED
      BY <1>1, <2>3, <3>1
  <2>5. told' = told
    BY <1>4 DEF EnterPinMode
  <2>6. QED
    BY <2>2, <2>4, <2>5
<1>5. CASE ExitPinMode
  <2>1. layers = PinStack /\ Len(savedLight) = 1
    <3>1. layers = PinStack
      BY <1>1, <1>5, Receivers DEF ExitPinMode
    <3>2. QED
      BY <1>1, <3>1
  <2>2. layers' = SubSeq(PinStack, 1, 4 - 1) /\ systemLight' = savedLight[1] /\ told' = told
    BY <1>1, <1>5, <2>1 DEF ExitPinMode
  <2>3. layers' = Stack
    BY <2>2, Stacks
  <2>4. PinMode /\ ~PinMode'
    BY <1>1, <2>1, <2>3 DEF PinMode
  <2>5. QED
    BY <2>2, <2>4
<1>6. CASE PressSystemKey
  <2>1. UNCHANGED <<layers, savedLight>>
    BY <1>6 DEF PressSystemKey, layerVars
  <2>2. CASE Receiver("SYSTEM") = "controller" /\ systemLight' = "ON" /\ told' = "DOWN"
    <3>1. ~PinMode
      BY <1>1, <2>2, Receivers DEF PinMode
    <3>2. QED
      BY <2>1, <2>2, <3>1 DEF PinMode
  <2>3. CASE UNCHANGED <<systemLight, told>>
    BY <2>1, <2>3 DEF PinMode
  <2>4. QED
    BY <1>6, <2>2, <2>3 DEF PressSystemKey
<1>7. CASE ReleaseSystemKey
  <2>1. UNCHANGED <<layers, savedLight>>
    BY <1>7 DEF ReleaseSystemKey, layerVars
  <2>2. CASE Receiver("SYSTEM") = "controller" /\ systemLight' = "OFF" /\ told' = "UP"
    <3>1. ~PinMode
      BY <1>1, <2>2, Receivers DEF PinMode
    <3>2. QED
      BY <2>1, <2>2, <3>1 DEF PinMode
  <2>3. CASE UNCHANGED <<systemLight, told>>
    BY <2>1, <2>3 DEF PinMode
  <2>4. QED
    BY <1>7, <2>2, <2>3 DEF ReleaseSystemKey
<1>8. CASE Navigate \/ HandleConnection \/ Lose \/ UNCHANGED vars
  <2>1. UNCHANGED <<layers, savedLight, systemLight, told>>
    BY <1>8 DEF Navigate, HandleConnection, Lose, vars, layerVars, systemVars
  <2>2. QED
    BY <2>1 DEF PinMode
<1>9. QED
  BY <1>2, <1>3, <1>4, <1>5, <1>6, <1>7, <1>8 DEF Next

-----------------------------------------------------------------------------
(***************************************************************************)
(* The inductive invariant: an executor that will be pressed once all      *)
(* messages have arrived has a held key or a release that went astray.     *)
(***************************************************************************)
THEOREM InductiveInvariant == Spec => []IInv
<1>1. Init => PressesAreReleased
  BY DEF Init, PressesAreReleased, WillBePressed
<1>2. Init => LightTellsDesk
  BY DEF Init, LightTellsDesk, PinMode
<1>3. Init => IInv
  BY <1>1, <1>2, InitTypeOK DEF IInv
<1>4. IInv /\ [Next]_vars => IInv'
  BY StepTypeOK, ReleasedStep, LightStep DEF IInv
<1>5. QED
  BY <1>3, <1>4, PTL DEF Spec

(***************************************************************************)
(* There is at most one pin layer, on top of the three of the start, and   *)
(* the lights are saved exactly while it is there, whatever the keys.      *)
(***************************************************************************)
THEOREM TypeCorrect == Spec => []TypeOK
BY InductiveInvariant, PTL DEF IInv

(***************************************************************************)
(* Nothing stays pressed on the desk but what a release that went astray   *)
(* left there, for any strips, keys, moves and losses.                     *)
(***************************************************************************)
THEOREM AllReleased == Spec => []NothingStaysPressed
<1>1. IInv => NothingStaysPressed
  <2> SUFFICES ASSUME IInv, held = {}, wire = <<>>, NEW e \in pressed
               PROVE  e \in astray
    BY DEF NothingStaysPressed
  <2>1. e \in Executors /\ WillBePressed(e, wire, pressed)
    BY DEF IInv, TypeOK, WillBePressed
  <2>2. QED
    BY <2>1 DEF IInv, PressesAreReleased
<1>2. QED
  BY <1>1, InductiveInvariant, PTL

(***************************************************************************)
(* The light of the system key, or the light saved for the return from     *)
(* the pin layer, is on exactly while the plugin was told of a press last. *)
(***************************************************************************)
THEOREM LightIsTrue == Spec => []LightTellsDesk
BY InductiveInvariant, PTL DEF IInv

-----------------------------------------------------------------------------
(***************************************************************************)
(* The executer.                                                           *)
(***************************************************************************)
USE NeverAssumption, DelayAssumption

(***************************************************************************)
(* What DoneIsLatest and AsleepOnlyIfRaced rest on: the same of a thread   *)
(* that has decided to go to sleep; and nothing is done for an execution   *)
(* before it is there.                                                     *)
(***************************************************************************)
DecidedOnlyIfRaced ==
    pc = "decide" /\ ~hasActive /\ DataMutexFree /\ active # {} => raced

NotDoneBefore == \A id \in Ids \ registered : done[id] = Never

ExecuterIInv ==
    /\ ExecuterTypeOK
    /\ DoneIsLatest /\ NotDoneBefore
    /\ AsleepOnlyIfRaced /\ DecidedOnlyIfRaced

LEMMA ExecuterInitIInv == ExecuterInit => ExecuterIInv
<1> SUFFICES ASSUME ExecuterInit
             PROVE  ExecuterIInv
  OBVIOUS
<1>1. ExecuterTypeOK
  <2>1. \A id \in Ids : id \in registered <=> value[id] # Never
    BY DEF ExecuterInit
  <2>2. /\ hasActive \in BOOLEAN /\ suspended \in BOOLEAN /\ raced \in BOOLEAN
        /\ suspended => pc = "waiting"
    BY DEF ExecuterInit
  <2>3. QED
    BY <2>1, <2>2 DEF ExecuterInit, ExecuterTypeOK
<1>2. DoneIsLatest /\ NotDoneBefore /\ AsleepOnlyIfRaced /\ DecidedOnlyIfRaced
  BY DEF ExecuterInit, DoneIsLatest, NotDoneBefore, AsleepOnlyIfRaced, DecidedOnlyIfRaced
<1>3. QED
  BY <1>1, <1>2 DEF ExecuterIInv

LEMMA ExecuterStutterIInv == ExecuterIInv /\ UNCHANGED executerVars => ExecuterIInv'
BY DEF ExecuterIInv, ExecuterTypeOK, DoneIsLatest, NotDoneBefore, AsleepOnlyIfRaced,
       DecidedOnlyIfRaced, DataMutexFree, executerVars, dataVars, threadVars

LEMMA ExecuterRegisterIInv ==
    ASSUME ExecuterIInv, NEW id \in Ids, Register(id)
    PROVE  ExecuterIInv'
<1> USE DEF ExecuterIInv, DataMutexFree, dataVars, threadVars
<1>1. PICK v \in Values : value' = [value EXCEPT ![id] = v]
  BY DEF Register
<1>2. ExecuterTypeOK'
  <2>1. \A d \in Ids : d \in registered' <=> value'[d] # Never
    BY <1>1 DEF Register, ExecuterTypeOK
  <2>2. /\ value' \in [Ids -> Values \cup {Never}]
        /\ age' \in [Ids -> 0..Delay]
        /\ registered' \in SUBSET Ids /\ active' \in SUBSET registered'
        /\ caller' \in active' \cup {Never}
    BY <1>1 DEF Register, ExecuterTypeOK
  <2>3. QED
    BY <2>1, <2>2 DEF Register, ExecuterTypeOK
<1>3. DoneIsLatest' /\ NotDoneBefore'
  BY <1>1 DEF Register, ExecuterTypeOK, DoneIsLatest, NotDoneBefore
<1>4. AsleepOnlyIfRaced' /\ DecidedOnlyIfRaced'
  BY DEF Register, AsleepOnlyIfRaced, DecidedOnlyIfRaced
<1>5. QED
  BY <1>2, <1>3, <1>4

LEMMA ExecuterUpdatesIInv ==
    ASSUME ExecuterIInv, NEW id \in Ids, NEW v \in Values,
           Update(id, v) \/ ForcedUpdate(id, v)
    PROVE  ExecuterIInv'
<1> USE DEF ExecuterIInv, DataMutexFree, dataVars, threadVars
<1>1. CASE Update(id, v)
  <2>1. ExecuterTypeOK'
    BY <1>1 DEF Update, ExecuterTypeOK
  <2>2. DoneIsLatest' /\ NotDoneBefore'
    BY <1>1 DEF Update, ExecuterTypeOK, DoneIsLatest, NotDoneBefore
  <2>3. AsleepOnlyIfRaced' /\ DecidedOnlyIfRaced'
    BY <1>1 DEF Update, ExecuterTypeOK, AsleepOnlyIfRaced, DecidedOnlyIfRaced
  <2>4. QED
    BY <2>1, <2>2, <2>3
<1>2. CASE ForcedUpdate(id, v)
  <2>1. ExecuterTypeOK'
    BY <1>2 DEF ForcedUpdate, ExecuterTypeOK
  <2>2. DoneIsLatest' /\ NotDoneBefore'
    BY <1>2 DEF ForcedUpdate, ExecuterTypeOK, DoneIsLatest, NotDoneBefore
  <2>3. AsleepOnlyIfRaced' /\ DecidedOnlyIfRaced'
    BY <1>2 DEF ForcedUpdate, AsleepOnlyIfRaced, DecidedOnlyIfRaced
  <2>4. QED
    BY <2>1, <2>2, <2>3
<1>3. QED
  BY <1>1, <1>2

LEMMA ExecuterMaybeWakeIInv == ExecuterIInv /\ MaybeWake => ExecuterIInv'
<1> SUFFICES ASSUME ExecuterIInv, MaybeWake
             PROVE  ExecuterIInv'
  OBVIOUS
<1> USE DEF ExecuterIInv, MaybeWake, DataMutexFree, dataVars, threadVars
<1>1. ExecuterTypeOK'
  BY DEF ExecuterTypeOK
<1>2. DoneIsLatest' /\ NotDoneBefore'
  BY DEF DoneIsLatest, NotDoneBefore
<1>3. AsleepOnlyIfRaced' /\ DecidedOnlyIfRaced'
  BY DEF AsleepOnlyIfRaced, DecidedOnlyIfRaced
<1>4. QED
  BY <1>1, <1>2, <1>3

LEMMA ExecuterThreadIInv == ExecuterIInv /\ Thread => ExecuterIInv'
<1> SUFFICES ASSUME ExecuterIInv, Thread
             PROVE  ExecuterIInv'
  OBVIOUS
<1> USE DEF ExecuterIInv, DataMutexFree, dataVars, threadVars
<1>1. CASE Scan
  <2>1. ExecuterTypeOK'
    BY <1>1 DEF Scan, ExecuterTypeOK
  <2>2. DoneIsLatest' /\ NotDoneBefore'
    BY <1>1 DEF Scan, ExecuterTypeOK, DoneIsLatest, NotDoneBefore
  <2>3. AsleepOnlyIfRaced' /\ DecidedOnlyIfRaced'
    BY <1>1 DEF Scan, ExecuterTypeOK, AsleepOnlyIfRaced, DecidedOnlyIfRaced
  <2>4. QED
    BY <2>1, <2>2, <2>3
<1>2. CASE Decide
  <2>1. ExecuterTypeOK'
    BY <1>2 DEF Decide, ExecuterTypeOK
  <2>2. DoneIsLatest' /\ NotDoneBefore'
    BY <1>2 DEF Decide, DoneIsLatest, NotDoneBefore
  <2>3. AsleepOnlyIfRaced' /\ DecidedOnlyIfRaced'
    BY <1>2 DEF Decide, ExecuterTypeOK, AsleepOnlyIfRaced, DecidedOnlyIfRaced
  <2>4. QED
    BY <2>1, <2>2, <2>3
<1>3. CASE Wake
  BY <1>3 DEF Wake, ExecuterTypeOK, DoneIsLatest, NotDoneBefore, AsleepOnlyIfRaced,
              DecidedOnlyIfRaced
<1>4. QED
  BY <1>1, <1>2, <1>3 DEF Thread

LEMMA ExecuterTickIInv == ExecuterIInv /\ Tick => ExecuterIInv'
BY DEF Tick, ExecuterIInv, ExecuterTypeOK, DoneIsLatest, NotDoneBefore, AsleepOnlyIfRaced,
       DecidedOnlyIfRaced, DataMutexFree, threadVars

(***************************************************************************)
(* The inductive invariant: the Update that finds the thread on its way    *)
(* to sleep is the only way to sleep over something pending.               *)
(***************************************************************************)
THEOREM ExecuterInvariant == ExecuterSpec => []ExecuterIInv
<1>1. ExecuterIInv /\ [ExecuterNext]_executerVars => ExecuterIInv'
  BY ExecuterStutterIInv, ExecuterRegisterIInv, ExecuterUpdatesIInv, ExecuterMaybeWakeIInv,
     ExecuterThreadIInv, ExecuterTickIInv DEF ExecuterNext
<1>2. QED
  BY ExecuterInitIInv, <1>1, PTL DEF ExecuterSpec

(***************************************************************************)
(* Only registered executions are ever active, and the thread is marked    *)
(* as suspended only while it waits, for any executions and any delay.     *)
(***************************************************************************)
THEOREM ExecuterTypeCorrect == ExecuterSpec => []ExecuterTypeOK
BY ExecuterInvariant, PTL DEF ExecuterIInv

(***************************************************************************)
(* A callback never has an older value than its execution once nothing is  *)
(* pending for it, however updates, forced updates and passes interleave.  *)
(***************************************************************************)
THEOREM ExecuterLatestDone == ExecuterSpec => []DoneIsLatest
BY ExecuterInvariant, PTL DEF ExecuterIInv

(***************************************************************************)
(* The thread sleeps over a pending execution only after the one race.     *)
(***************************************************************************)
THEOREM ExecuterSleepsOnlyIfRaced == ExecuterSpec => []AsleepOnlyIfRaced
BY ExecuterInvariant, PTL DEF ExecuterIInv

-----------------------------------------------------------------------------
(***************************************************************************)
(* The start.                                                              *)
(***************************************************************************)
\* Which steps are behind the main thread.
StepAt(n, step) == \A i \in 1..13 : BootSteps[i] = step <=> i = n

Behind(n, step) == Done(step) <=> boot > n

LEMMA StepBehind ==
    ASSUME boot \in 1..14, NEW n \in 1..13, NEW step, StepAt(n, step)
    PROVE  Behind(n, step)
<1>1. ASSUME NEW i \in 1..(boot - 1), BootSteps[i] = step
      PROVE  i = n /\ boot > n
  <2>1. i \in 1..13 /\ boot > i
    OBVIOUS
  <2>2. i = n
    BY <1>1, <2>1 DEF StepAt
  <2>3. QED
    BY <2>1, <2>2
<1>2. ASSUME boot > n
      PROVE  n \in 1..(boot - 1) /\ BootSteps[n] = step
  <2>1. BootSteps[n] = step
    BY DEF StepAt
  <2>2. QED
    BY <1>2, <2>1
<1>3. QED
  BY <1>1, <1>2 DEF Done, Behind

LEMMA StepCount == BootSteps' = BootSteps /\ Len(BootSteps) = 13
BY DEF BootSteps

LEMMA StepsInOrder ==
    ASSUME boot \in 1..14
    PROVE  /\ Done("sender") => Done("xt_server")
           /\ Done("group layer") => Done("refresh thread")
           /\ Done("strip server") => Done("group server")
           /\ Done("group layer") => Done("sender")
<1>1. \A i \in 1..13 :
         i = 1 \/ i = 2 \/ i = 3 \/ i = 4 \/ i = 5 \/ i = 6 \/ i = 7
               \/ i = 8 \/ i = 9 \/ i = 10 \/ i = 11 \/ i = 12 \/ i = 13
  OBVIOUS
<1>2. /\ BootSteps[1] = "XTouch" /\ BootSteps[2] = "InterfaceManager"
      /\ BootSteps[3] = "reader" /\ BootSteps[4] = "xt_server"
      /\ BootSteps[5] = "sender" /\ BootSteps[6] = "controller layer"
      /\ BootSteps[7] = "scribbles" /\ BootSteps[8] = "page"
      /\ BootSteps[9] = "refresh thread" /\ BootSteps[10] = "group layer"
      /\ BootSteps[11] = "lights" /\ BootSteps[12] = "group server"
      /\ BootSteps[13] = "strip server" /\ Len(BootSteps) = 13
  BY DEF BootSteps
<1>3. /\ StepAt(4, "xt_server") /\ StepAt(5, "sender") /\ StepAt(9, "refresh thread")
      /\ StepAt(10, "group layer") /\ StepAt(12, "group server")
      /\ StepAt(13, "strip server")
  <2>1. StepAt(4, "xt_server")
    BY <1>1, <1>2 DEF StepAt
  <2>2. StepAt(5, "sender")
    BY <1>1, <1>2 DEF StepAt
  <2>3. StepAt(9, "refresh thread")
    BY <1>1, <1>2 DEF StepAt
  <2>4. StepAt(10, "group layer")
    BY <1>1, <1>2 DEF StepAt
  <2>5. StepAt(12, "group server")
    BY <1>1, <1>2 DEF StepAt
  <2>6. StepAt(13, "strip server")
    BY <1>1, <1>2 DEF StepAt
  <2>7. QED
    BY <2>1, <2>2, <2>3, <2>4, <2>5, <2>6
<1>4. {4, 5, 9, 10, 12, 13} \subseteq 1..13
  OBVIOUS
<1>5. /\ Behind(4, "xt_server") /\ Behind(5, "sender") /\ Behind(9, "refresh thread")
      /\ Behind(10, "group layer") /\ Behind(12, "group server")
      /\ Behind(13, "strip server")
  BY <1>3, <1>4, StepBehind
<1>6. boot \in Int
  OBVIOUS
<1>7. Done("sender") => Done("xt_server")
  <2>1. boot > 5 => boot > 4
    BY <1>6
  <2>2. QED
    BY <1>5, <2>1, Zenon DEF Behind
<1>8. Done("group layer") => Done("refresh thread")
  <2>1. boot > 10 => boot > 9
    BY <1>6
  <2>2. QED
    BY <1>5, <2>1, Zenon DEF Behind
<1>9. Done("strip server") => Done("group server")
  <2>1. boot > 13 => boot > 12
    BY <1>6
  <2>2. QED
    BY <1>5, <2>1, Zenon DEF Behind
<1>10. Done("group layer") => Done("sender")
  <2>1. boot > 10 => boot > 5
    BY <1>6
  <2>2. QED
    BY <1>5, <2>1, Zenon DEF Behind
<1>11. QED
  BY <1>7, <1>8, <1>9, <1>10

-----------------------------------------------------------------------------
(***************************************************************************)
(* The inductive invariant: a pointer to the desk's server is what it is   *)
(* meant to be from the step on that sets it; nothing of the board is set  *)
(* before there is a sender; and a surface that has not spoken has been    *)
(* silent for so long that its first packet asks for a full refresh.       *)
(***************************************************************************)
ServersKnown == \A who \in ServerSteps : Done(who) => server[who] = "set"

NothingUnsent == ~Done("sender") => cache = {}

SilentIfUnknown == ~client => since > Limit

BoardKept == NothingUnsent /\ SilentIfUnknown /\ SurfaceShowsBoard

BootIInv == BootTypeOK /\ ServersKnown /\ CrashesOnlyEarly /\ BoardKept

LEMMA BootNumbers ==
    ASSUME BootTypeOK
    PROVE  /\ Done("sender") => Done("xt_server")
           /\ Done("group layer") => Done("refresh thread")
           /\ Done("strip server") => Done("group server")
           /\ Done("group layer") => Done("sender")
<1>1. boot \in 1..14
  BY StepCount, SMT DEF BootTypeOK
<1>2. QED
  BY <1>1, StepsInOrder, Zenon

\* Truth values, which are kept apart from what needs arithmetic.
BootFlags ==
    /\ client \in BOOLEAN /\ refreshNeeded \in BOOLEAN
    /\ pinMode \in BOOLEAN /\ saved \in BOOLEAN
    /\ asking \in BOOLEAN /\ crashed \in BOOLEAN /\ early \in BOOLEAN
    /\ surface # {} => client

BootRanges ==
    /\ boot \in 1..14
    /\ server \in [ServerSteps -> {"null", "junk", "set"}]
    /\ cache \subseteq BoardSteps /\ surface \subseteq cache \cup {"meters"}
    /\ since \in 0..(Limit + 1)

LEMMA BootTypeParts == BootTypeOK <=> BootFlags /\ BootRanges
<1>1. 1..14 = 1..(Len(BootSteps) + 1)
  BY StepCount
<1>2. QED
  BY <1>1, Zenon DEF BootTypeOK, BootFlags, BootRanges

LEMMA BootTypeNext == BootTypeOK' <=> BootFlags' /\ BootRanges'
<1>1. 1..14 = 1..(Len(BootSteps)' + 1)
  BY StepCount
<1>2. QED
  BY <1>1, Zenon DEF BootTypeOK, BootFlags, BootRanges

LEMMA BootInitIInv == BootInit => BootIInv
<1> SUFFICES ASSUME BootInit
             PROVE  BootIInv
  OBVIOUS
<1>1. BootTypeOK
  <2>1. BootFlags
    BY DEF BootInit, BootFlags
  <2>2. BootRanges
    BY LimitAssumption DEF BootInit, BootRanges
  <2>3. QED
    BY <2>1, <2>2, BootTypeParts
<1>2. ServersKnown
  BY DEF BootInit, ServersKnown, Done
<1>3. CrashesOnlyEarly
  BY DEF BootInit, CrashesOnlyEarly
<1>4. BoardKept
  <2>1. since > Limit
    BY LimitAssumption DEF BootInit
  <2>2. NothingUnsent /\ SurfaceShowsBoard
    BY DEF BootInit, NothingUnsent, SurfaceShowsBoard
  <2>3. QED
    BY <2>1, <2>2 DEF BoardKept, SilentIfUnknown
<1>5. QED
  BY <1>1, <1>2, <1>3, <1>4 DEF BootIInv

\* A step that leaves the main thread where it is.
LEMMA SameSteps ==
    ASSUME boot' = boot
    PROVE  \A s : Done(s)' <=> Done(s)
BY DEF Done, BootSteps

LEMMA SameBoard ==
    ASSUME BoardKept, boot' = boot, cache' = cache, client' = client, since' = since,
           refreshNeeded' = refreshNeeded, surface' \ {"meters"} = surface \ {"meters"}
    PROVE  BoardKept'
BY SameSteps DEF BoardKept, NothingUnsent, SilentIfUnknown, SurfaceShowsBoard

LEMMA BootStutterIInv == BootIInv /\ UNCHANGED bootVars => BootIInv'
<1> SUFFICES ASSUME BootIInv, UNCHANGED bootVars
             PROVE  BootIInv'
  OBVIOUS
<1>1. UNCHANGED <<boot, server, cache, surface, client, since, refreshNeeded, pinMode, saved,
                  asking, crashed, early>>
  BY DEF bootVars, idleVars, pinModeVars
<1>2. BootTypeOK'
  <2>1. BootFlags /\ BootRanges
    BY BootTypeParts DEF BootIInv
  <2>2. BootFlags' /\ BootRanges'
    BY <1>1, <2>1 DEF BootFlags, BootRanges
  <2>3. QED
    BY <2>2, BootTypeNext
<1>3. ServersKnown' /\ CrashesOnlyEarly'
  BY <1>1, SameSteps DEF BootIInv, ServersKnown, CrashesOnlyEarly
<1>4. BoardKept'
  BY <1>1, SameBoard DEF BootIInv
<1>5. QED
  BY <1>2, <1>3, <1>4 DEF BootIInv

\* What is sent to the surface is shown only if it is known.
LEMMA ShownIsSet ==
    ASSUME BootTypeOK, NEW parts, parts \subseteq Parts
    PROVE  /\ Shown(parts) \subseteq cache \cup parts \cup {"meters"}
           /\ Shown(parts) # {} => client
BY DEF BootTypeOK, Shown, Reaches

LEMMA BootAdvance ==
    ASSUME BootIInv, NEW step, Advance(step)
    PROVE  /\ boot' = boot + 1 /\ boot \in 1..13 /\ boot' \in 1..14
           /\ ~crashed /\ BootSteps[boot] = step
           /\ \A s : Done(s)' <=> Done(s) \/ s = step
<1>1. boot \in 1..14 /\ Len(BootSteps) = 13
  BY StepCount DEF BootIInv, BootTypeOK
<1>2. /\ boot' = boot + 1 /\ boot \in 1..13 /\ boot' \in 1..14
      /\ ~crashed /\ BootSteps[boot] = step
  BY <1>1 DEF Advance, Booted
<1>3. \A i : i \in 1..(boot' - 1) <=> i \in 1..(boot - 1) \/ i = boot
  BY <1>2
<1>4. BootSteps' = BootSteps
  BY DEF BootSteps
<1>5. QED
  BY <1>2, <1>3, <1>4 DEF Done

LEMMA AdvanceKeepsBoard ==
    ASSUME BoardKept, NEW step, \A s : Done(s)' <=> Done(s) \/ s = step,
           UNCHANGED <<cache, surface, client, since, refreshNeeded>>
    PROVE  BoardKept'
BY DEF BoardKept, NothingUnsent, SilentIfUnknown, SurfaceShowsBoard

(***************************************************************************)
(* The main thread.                                                        *)
(***************************************************************************)
LEMMA ConstructIInv == BootIInv /\ Construct => BootIInv'
<1> SUFFICES ASSUME BootIInv, Construct
             PROVE  BootIInv'
  OBVIOUS
<1>1. PICK step \in ToSet(BootSteps) \ (BoardSteps \cup ServerSteps) : Advance(step)
  BY DEF Construct
<1>2. /\ boot' \in 1..14 /\ ~crashed
      /\ \A s : Done(s)' <=> Done(s) \/ s = step
  BY <1>1, BootAdvance
<1>3. step \notin ServerSteps
  BY <1>1
<1>4. UNCHANGED <<server, cache, surface, client, since, refreshNeeded, pinMode, saved,
                  asking, crashed, early>>
  BY DEF Construct, idleVars, pinModeVars
<1>5. BootTypeOK'
  <2>1. BootFlags /\ BootRanges
    BY BootTypeParts DEF BootIInv
  <2>2. BootFlags'
    BY <1>2, <1>4, <2>1 DEF BootFlags
  <2>3. BootRanges'
    BY <1>2, <1>4, <2>1 DEF BootRanges
  <2>4. QED
    BY <2>2, <2>3, BootTypeNext
<1>6. ServersKnown'
  BY <1>2, <1>3, <1>4 DEF BootIInv, ServersKnown
<1>7. CrashesOnlyEarly'
  BY <1>2, <1>4 DEF BootIInv, CrashesOnlyEarly
<1>8. BoardKept'
  BY <1>2, <1>4, AdvanceKeepsBoard DEF BootIInv
<1>9. QED
  BY <1>5, <1>6, <1>7, <1>8 DEF BootIInv

\* The board is set after the sender is registered.
LEMMA AdvanceAfterSender ==
    ASSUME BootTypeOK, NEW part \in BoardSteps, Advance(part)
    PROVE  Done("sender")
<1>1. boot \in 1..13 /\ BootSteps[boot] = part
  BY StepCount DEF BootTypeOK, Advance, Booted
<1>2. /\ BootSteps[1] = "XTouch" /\ BootSteps[2] = "InterfaceManager"
      /\ BootSteps[3] = "reader" /\ BootSteps[4] = "xt_server"
      /\ BootSteps[5] = "sender"
  BY DEF BootSteps
<1>3. boot \notin 1..5
  <2>1. boot \in 1..5 => boot = 1 \/ boot = 2 \/ boot = 3 \/ boot = 4 \/ boot = 5
    OBVIOUS
  <2>2. part # "XTouch" /\ part # "InterfaceManager" /\ part # "reader"
        /\ part # "xt_server" /\ part # "sender"
    BY DEF BoardSteps
  <2>3. QED
    BY <1>1, <1>2, <2>1, <2>2
<1>4. 5 \in 1..(boot - 1)
  BY <1>1, <1>3
<1>5. QED
  BY <1>2, <1>4 DEF Done

LEMMA SetBoardIInv ==
    ASSUME BootIInv, NEW part \in BoardSteps, SetBoard(part)
    PROVE  BootIInv'
<1> DEFINE set == IF part = "lights" /\ pinMode THEN {} ELSE {part}
<1>1. Advance(part) /\ cache' = cache \cup set /\ surface' = Shown(set)
  BY DEF SetBoard
<1>2. /\ boot' \in 1..14 /\ ~crashed
      /\ \A s : Done(s)' <=> Done(s) \/ s = part
  BY <1>1, BootAdvance
<1>3. UNCHANGED <<server, client, since, refreshNeeded, pinMode, saved,
                  asking, crashed, early>>
  BY DEF SetBoard, idleVars, pinModeVars
<1>4. set \subseteq BoardSteps /\ set \subseteq Parts /\ part \notin ServerSteps
  BY DEF BoardSteps, ServerSteps, Parts
<1> HIDE DEF set
<1>5. /\ Shown(set) \subseteq cache \cup set \cup {"meters"}
      /\ Shown(set) # {} => client
  BY <1>4, ShownIsSet DEF BootIInv
<1>6. BootTypeOK'
  <2>1. /\ cache' \subseteq BoardSteps /\ surface' \subseteq cache' \cup {"meters"}
        /\ surface' # {} => client'
    BY <1>1, <1>3, <1>4, <1>5 DEF BootIInv, BootTypeOK
  <2>2. BootFlags /\ BootRanges
    BY BootTypeParts DEF BootIInv
  <2>3. BootFlags'
    BY <1>3, <2>1, <2>2 DEF BootFlags
  <2>4. BootRanges'
    BY <1>2, <1>3, <2>1, <2>2 DEF BootRanges
  <2>5. QED
    BY <2>3, <2>4, BootTypeNext
<1>7. ServersKnown'
  BY <1>2, <1>3, <1>4 DEF BootIInv, ServersKnown
<1>8. CrashesOnlyEarly'
  BY <1>2, <1>3 DEF BootIInv, CrashesOnlyEarly
<1>9. BoardKept'
  <2>1. Done("sender")
    BY <1>1, AdvanceAfterSender DEF BootIInv
  <2>2. Done("sender")'
    BY <1>2, <2>1
  <2>3. surface' = IF client THEN surface \cup set ELSE surface
    BY <1>1, <2>1 DEF Shown, Reaches
  <2>4. "meters" \notin set
    BY <1>4 DEF BoardSteps
  <2>5. SurfaceShowsBoard'
    BY <1>1, <1>3, <2>3, <2>4 DEF BootIInv, BoardKept, SurfaceShowsBoard
  <2>6. NothingUnsent' /\ SilentIfUnknown'
    BY <1>3, <2>2 DEF BootIInv, BoardKept, NothingUnsent, SilentIfUnknown
  <2>7. QED
    BY <2>5, <2>6 DEF BoardKept
<1>10. QED
  BY <1>6, <1>7, <1>8, <1>9 DEF BootIInv

LEMMA RegisterMaSendIInv ==
    ASSUME BootIInv, NEW who \in ServerSteps, RegisterMaSend(who)
    PROVE  BootIInv'
<1>1. Advance(who) /\ server' = [server EXCEPT ![who] = "set"]
  BY DEF RegisterMaSend
<1>2. /\ boot' \in 1..14 /\ ~crashed
      /\ \A s : Done(s)' <=> Done(s) \/ s = who
  BY <1>1, BootAdvance
<1>3. UNCHANGED <<cache, surface, client, since, refreshNeeded, pinMode, saved,
                  asking, crashed, early>>
  BY DEF RegisterMaSend, idleVars, pinModeVars
<1>4. BootTypeOK'
  <2>1. BootFlags /\ BootRanges
    BY BootTypeParts DEF BootIInv
  <2>2. BootFlags'
    BY <1>1, <1>2, <1>3, <2>1 DEF BootFlags
  <2>3. BootRanges'
    BY <1>1, <1>2, <1>3, <2>1 DEF BootRanges
  <2>4. QED
    BY <2>2, <2>3, BootTypeNext
<1>5. ServersKnown'
  BY <1>1, <1>2 DEF BootIInv, BootTypeOK, ServersKnown
<1>6. CrashesOnlyEarly'
  BY <1>2, <1>3 DEF BootIInv, CrashesOnlyEarly
<1>7. BoardKept'
  BY <1>2, <1>3, AdvanceKeepsBoard DEF BootIInv
<1>8. QED
  BY <1>4, <1>5, <1>6, <1>7 DEF BootIInv

-----------------------------------------------------------------------------
(***************************************************************************)
(* The threads.                                                            *)
(***************************************************************************)
LEMMA SendAllMetersIInv == BootIInv /\ SendAllMeters => BootIInv'
<1> SUFFICES ASSUME BootIInv, SendAllMeters
             PROVE  BootIInv'
  OBVIOUS
<1>1. ~crashed' /\ crashed' \in BOOLEAN
  <2>1. BootTypeOK
    BY DEF BootIInv
  <2>2. QED
    BY <2>1, BootNumbers, Zenon DEF SendAllMeters
<1>2. UNCHANGED <<boot, server, cache, client, since, refreshNeeded, pinMode, saved,
                  asking, early>>
  BY DEF SendAllMeters, idleVars, pinModeVars
<1>3. surface' \subseteq cache \cup {"meters"} /\ (surface' # {} => client)
  BY ShownIsSet DEF BootIInv, SendAllMeters, Parts
<1>4. BootTypeOK'
  <2>1. BootFlags /\ BootRanges
    BY BootTypeParts DEF BootIInv
  <2>2. BootFlags'
    BY <1>1, <1>2, <1>3, <2>1 DEF BootFlags
  <2>3. BootRanges'
    BY <1>1, <1>2, <1>3, <2>1 DEF BootRanges
  <2>4. QED
    BY <2>2, <2>3, BootTypeNext
<1>5. ServersKnown'
  BY <1>2, SameSteps DEF BootIInv, ServersKnown
<1>6. CrashesOnlyEarly'
  BY <1>1, <1>2 DEF BootIInv, CrashesOnlyEarly
<1>7. BoardKept'
  <2>1. surface' \ {"meters"} = surface \ {"meters"}
    BY DEF SendAllMeters, Shown
  <2>2. QED
    BY <1>2, <2>1, SameBoard DEF BootIInv
<1>8. QED
  BY <1>4, <1>5, <1>6, <1>7 DEF BootIInv

LEMMA RefreshPlaybacksIInv == BootIInv /\ RefreshPlaybacks => BootIInv'
<1> SUFFICES ASSUME BootIInv, RefreshPlaybacks
             PROVE  BootIInv'
  OBVIOUS
<1>1. UNCHANGED <<boot, server, cache, surface, client, since, refreshNeeded, pinMode,
                  saved, early>>
  BY DEF RefreshPlaybacks, idleVars, pinModeVars
<1>2. crashed' => Done("refresh thread") /\ ~Done("strip server")
  <2>1. BootTypeOK
    BY DEF BootIInv
  <2>2. crashed' => ~Done("group server")
    BY DEF RefreshPlaybacks, BootIInv, ServersKnown, ServerSteps
  <2>3. QED
    BY <2>1, <2>2, BootNumbers, Zenon DEF RefreshPlaybacks
<1>3. BootTypeOK'
  <2>1. BootFlags /\ BootRanges
    BY BootTypeParts DEF BootIInv
  <2>2. BootFlags'
    BY <1>1, <2>1 DEF BootFlags, RefreshPlaybacks
  <2>3. BootRanges'
    BY <1>1, <2>1 DEF BootRanges, RefreshPlaybacks
  <2>4. QED
    BY <2>2, <2>3, BootTypeNext
<1>4. ServersKnown' /\ CrashesOnlyEarly'
  BY <1>1, <1>2, SameSteps DEF BootIInv, ServersKnown, CrashesOnlyEarly
<1>5. BoardKept'
  BY <1>1, SameBoard DEF BootIInv
<1>6. QED
  BY <1>3, <1>4, <1>5 DEF BootIInv

-----------------------------------------------------------------------------
(***************************************************************************)
(* The reader.                                                             *)
(***************************************************************************)
LEMMA CheckIdleShows ==
    ASSUME BootTypeOK, CheckIdle
    PROVE  /\ client' = TRUE /\ refreshNeeded' \in BOOLEAN /\ since' \in 0..(Limit + 1)
           /\ ShownAfterIdle \subseteq cache \cup {"meters"}
<1>1. client' = TRUE /\ refreshNeeded' \in BOOLEAN /\ since' \in 0..(Limit + 1)
  <2>1. client' = TRUE /\ since' \in 0..(Limit + 1)
    BY LimitAssumption DEF CheckIdle
  <2>2. (since > Limit) \in BOOLEAN /\ refreshNeeded \in BOOLEAN
    BY DEF BootTypeOK
  <2>3. refreshNeeded' \in BOOLEAN
    BY <2>2, Zenon DEF CheckIdle
  <2>4. QED
    BY <2>1, <2>3
<1>2. ShownAfterIdle \subseteq cache \cup {"meters"}
  BY DEF BootTypeOK, ShownAfterIdle
<1>3. QED
  BY <1>1, <1>2

(***************************************************************************)
(* After CheckIdle the surface shows the board, or is about to be sent it. *)
(***************************************************************************)
LEMMA CheckIdleKeepsBoard ==
    ASSUME BootIInv, CheckIdle
    PROVE  ~refreshNeeded' => ShownAfterIdle \ {"meters"} = cache
<1>1. /\ cache \subseteq BoardSteps /\ surface \subseteq cache \cup {"meters"}
      /\ "meters" \notin BoardSteps
  BY DEF BootIInv, BootTypeOK, BoardSteps
<1>2. since \in Nat /\ Limit \in Nat
  BY LimitAssumption DEF BootIInv, BootTypeOK
<1>3. /\ ~Done("sender") => cache = {}
      /\ ~client => since > Limit
      /\ client /\ ~refreshNeeded => surface \ {"meters"} = cache
  BY DEF BootIInv, BoardKept, NothingUnsent, SilentIfUnknown, SurfaceShowsBoard
<1>4. refreshNeeded' = IF since = 0 THEN refreshNeeded ELSE since > Limit
  BY DEF CheckIdle
<1>5. CASE since > 0 /\ refreshNeeded
  <2>1. CASE Done("sender")
    BY <1>1, <1>5, <2>1 DEF ShownAfterIdle
  <2>2. CASE ~Done("sender")
    BY <1>1, <1>3, <2>2 DEF ShownAfterIdle
  <2>3. QED
    BY <2>1, <2>2
<1>6. CASE ~(since > 0 /\ refreshNeeded)
  <2>1. ShownAfterIdle = surface
    BY <1>6 DEF ShownAfterIdle
  <2>2. since = 0 => ~(since > Limit)
    BY <1>2
  <2>3. since = 0 \/ since > 0
    BY <1>2
  <2>4. ~refreshNeeded' => client /\ ~refreshNeeded
    BY <1>3, <1>4, <1>6, <2>2, <2>3
  <2>5. QED
    BY <1>3, <2>1, <2>4
<1>7. QED
  BY <1>5, <1>6

\* A packet that changes nothing of the board.
LEMMA PacketKeepsBoard ==
    ASSUME BootIInv, CheckIdle, boot' = boot, cache' = cache, surface' = ShownAfterIdle
    PROVE  BoardKept'
<1>1. client'
  BY DEF CheckIdle
<1>2. NothingUnsent'
  BY SameSteps DEF BootIInv, BoardKept, NothingUnsent
<1>3. SurfaceShowsBoard'
  BY CheckIdleKeepsBoard DEF SurfaceShowsBoard
<1>4. QED
  BY <1>1, <1>2, <1>3 DEF BoardKept, SilentIfUnknown

LEMMA OtherPacketIInv == BootIInv /\ OtherPacket => BootIInv'
<1> SUFFICES ASSUME BootIInv, OtherPacket
             PROVE  BootIInv'
  OBVIOUS
<1>1. UNCHANGED <<boot, server, cache, pinMode, saved, asking, crashed, early>>
  BY DEF OtherPacket, pinModeVars
<1>2. /\ client' = TRUE /\ refreshNeeded' \in BOOLEAN /\ since' \in 0..(Limit + 1)
      /\ surface' \subseteq cache \cup {"meters"}
  BY CheckIdleShows DEF OtherPacket, BootIInv
<1>3. BootTypeOK'
  <2>1. BootFlags /\ BootRanges
    BY BootTypeParts DEF BootIInv
  <2>2. BootFlags'
    BY <1>1, <1>2, <2>1 DEF BootFlags
  <2>3. BootRanges'
    BY <1>1, <1>2, <2>1 DEF BootRanges
  <2>4. QED
    BY <2>2, <2>3, BootTypeNext
<1>4. ServersKnown' /\ CrashesOnlyEarly'
  BY <1>1, SameSteps DEF BootIInv, ServersKnown, CrashesOnlyEarly
<1>5. BoardKept'
  BY <1>1, PacketKeepsBoard DEF OtherPacket
<1>6. QED
  BY <1>3, <1>4, <1>5 DEF BootIInv

LEMMA StripEventIInv ==
    ASSUME BootIInv, NEW who \in ServerSteps, StripEvent(who)
    PROVE  BootIInv'
<1>1. UNCHANGED <<boot, server, cache, pinMode, saved, asking, early>>
  BY DEF StripEvent, pinModeVars
<1>2. /\ client' = TRUE /\ refreshNeeded' \in BOOLEAN /\ since' \in 0..(Limit + 1)
      /\ surface' \subseteq cache \cup {"meters"}
  BY CheckIdleShows DEF StripEvent, BootIInv
<1>3. crashed' => Done("refresh thread") /\ ~Done("strip server")
  <2>1. BootTypeOK
    BY DEF BootIInv
  <2>2. crashed' => ~Done(who) /\ Done("group layer")
    BY DEF StripEvent, BootIInv, ServersKnown
  <2>3. who \in {"group server", "strip server"}
    BY DEF ServerSteps
  <2>4. QED
    BY <2>1, <2>2, <2>3, BootNumbers, Zenon
<1>4. BootTypeOK'
  <2> DEFINE bad == IF who = "group server" THEN {"null", "junk"} ELSE {"junk"}
  <2>1. crashed' = (server[who] \in bad)
    BY DEF StripEvent
  <2> HIDE DEF bad
  <2>2. crashed' \in BOOLEAN
    BY <2>1
  <2>3. BootFlags /\ BootRanges
    BY BootTypeParts DEF BootIInv
  <2>4. BootFlags'
    BY <1>1, <1>2, <2>2, <2>3 DEF BootFlags
  <2>5. BootRanges'
    BY <1>1, <1>2, <2>3 DEF BootRanges
  <2>6. QED
    BY <2>4, <2>5, BootTypeNext
<1>5. ServersKnown' /\ CrashesOnlyEarly'
  BY <1>1, <1>3, SameSteps DEF BootIInv, ServersKnown, CrashesOnlyEarly
<1>6. BoardKept'
  BY <1>1, PacketKeepsBoard DEF StripEvent
<1>7. QED
  BY <1>4, <1>5, <1>6 DEF BootIInv

LEMMA PinKeyIInv == BootIInv /\ PinKey => BootIInv'
<1> SUFFICES ASSUME BootIInv, PinKey
             PROVE  BootIInv'
  OBVIOUS
<1>1. UNCHANGED <<boot, server, asking, crashed>>
  BY DEF PinKey
<1>2. /\ client' = TRUE /\ refreshNeeded' \in BOOLEAN /\ since' \in 0..(Limit + 1)
      /\ ShownAfterIdle \subseteq cache \cup {"meters"}
  BY CheckIdleShows DEF PinKey, BootIInv
<1>3. /\ cache' = (cache \ {"lights"}) \cup (IF saved THEN {"lights"} ELSE {})
      /\ surface' = (ShownAfterIdle \ {"lights"}) \cup (cache' \cap {"lights"})
      /\ pinMode' \in BOOLEAN /\ saved' \in BOOLEAN
      /\ early' \in BOOLEAN
  BY Zenon DEF PinKey
<1>4. cache' \subseteq BoardSteps /\ surface' \subseteq cache' \cup {"meters"}
  BY <1>2, <1>3 DEF BootIInv, BootTypeOK, BoardSteps
<1>5. BootTypeOK'
  <2>1. BootFlags /\ BootRanges
    BY BootTypeParts DEF BootIInv
  <2>2. BootFlags'
    BY <1>1, <1>2, <1>3, <1>4, <2>1 DEF BootFlags
  <2>3. BootRanges'
    BY <1>1, <1>2, <1>3, <1>4, <2>1 DEF BootRanges
  <2>4. QED
    BY <2>2, <2>3, BootTypeNext
<1>6. ServersKnown' /\ CrashesOnlyEarly'
  BY <1>1, SameSteps DEF BootIInv, ServersKnown, CrashesOnlyEarly
<1>7. BoardKept'
  <2>1. Done("sender")
    <3>1. boot \in 1..14 /\ Done("group layer")
      BY BootTypeParts DEF PinKey, BootIInv, BootRanges
    <3>2. QED
      BY <3>1, StepsInOrder, Zenon
  <2>2. Done("sender")' /\ client'
    BY <1>1, <1>2, <2>1, SameSteps
  <2>3. ~refreshNeeded' => ShownAfterIdle \ {"meters"} = cache
    BY CheckIdleKeepsBoard DEF PinKey
  <2>4. ~refreshNeeded' => surface' \ {"meters"} = cache'
    <3> HIDE DEF ShownAfterIdle
    <3>1. QED
      BY <1>3, <2>3
  <2>5. QED
    BY <2>2, <2>4 DEF BoardKept, NothingUnsent, SilentIfUnknown, SurfaceShowsBoard
<1>8. QED
  BY <1>5, <1>6, <1>7 DEF BootIInv

LEMMA TimePassesIInv == BootIInv /\ TimePasses => BootIInv'
<1> SUFFICES ASSUME BootIInv, TimePasses
             PROVE  BootIInv'
  OBVIOUS
<1>1. UNCHANGED <<boot, server, cache, surface, client, refreshNeeded, pinMode, saved,
                  asking, crashed, early>>
  BY DEF TimePasses, pinModeVars
<1>2. since' \in 0..(Limit + 1)
  BY LimitAssumption DEF TimePasses, BootIInv, BootTypeOK
<1>3. BootTypeOK'
  <2>1. BootFlags /\ BootRanges
    BY BootTypeParts DEF BootIInv
  <2>2. BootFlags'
    BY <1>1, <1>2, <2>1 DEF BootFlags
  <2>3. BootRanges'
    BY <1>1, <1>2, <2>1 DEF BootRanges
  <2>4. QED
    BY <2>2, <2>3, BootTypeNext
<1>4. ServersKnown' /\ CrashesOnlyEarly'
  BY <1>1, SameSteps DEF BootIInv, ServersKnown, CrashesOnlyEarly
<1>5. BoardKept'
  <2>1. since > Limit => since' > Limit
    BY LimitAssumption DEF TimePasses, BootIInv, BootTypeOK
  <2>2. SilentIfUnknown'
    BY <1>1, <2>1 DEF BootIInv, BoardKept, SilentIfUnknown
  <2>3. NothingUnsent' /\ SurfaceShowsBoard'
    BY <1>1, SameSteps DEF BootIInv, BoardKept, NothingUnsent, SurfaceShowsBoard
  <2>4. QED
    BY <2>2, <2>3 DEF BoardKept
<1>6. QED
  BY <1>3, <1>4, <1>5 DEF BootIInv

(***************************************************************************)
(* The inductive invariant of the start.                                   *)
(***************************************************************************)
THEOREM BootInvariant == BootSpec => []BootIInv
<1>1. BootIInv /\ [BootNext]_bootVars => BootIInv'
  BY BootStutterIInv, ConstructIInv, SetBoardIInv, RegisterMaSendIInv, SendAllMetersIInv,
     RefreshPlaybacksIInv, OtherPacketIInv, StripEventIInv, PinKeyIInv,
     TimePassesIInv DEF BootNext, Main
<1>2. QED
  BY BootInitIInv, <1>1, PTL DEF BootSpec

(***************************************************************************)
(* The surface shows only what the program has set and only after it has   *)
(* told its address, however long it is silent.                            *)
(***************************************************************************)
THEOREM BootTypeCorrect == BootSpec => []BootTypeOK
BY BootInvariant, PTL DEF BootIInv

(***************************************************************************)
(* However the four threads interleave, only a pointer to the desk's       *)
(* server can be used too early, and nothing crashes once the strips       *)
(* have it.                                                                *)
(***************************************************************************)
THEOREM BootCrashesEarly == BootSpec => []CrashesOnlyEarly
BY BootInvariant, PTL DEF BootIInv

(***************************************************************************)
(* Whenever the surface first speaks and however long it is silent, the    *)
(* full refreshes and what is sent directly leave nothing out.             *)
(***************************************************************************)
THEOREM BootShowsBoard == BootSpec => []SurfaceShowsBoard
BY BootInvariant, PTL DEF BootIInv, BoardKept
=============================================================================
