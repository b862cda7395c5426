--------------------------- MODULE EncodersProofs ---------------------------
(***************************************************************************)
(* Proofs about Encoders, for any kinds, delays, lags, channels and values.*)
(***************************************************************************)
EXTENDS Encoders, TLAPS

(***************************************************************************)
(* What JumpsBackOnlyIfSlow and ShownIsValue rest on.  Until it is         *)
(* checked, an answer that misses a turn is younger than the turn by       *)
(* UpdateLag at most.  The time since a turn does not pass in the middle   *)
(* of it, so no answer is used then that was not checked before.           *)
(***************************************************************************)
AnswerIsYoung ==
    pc \in {"answered", "check"} /\ round.lag <= AnswerLag =>
        round.fresh \/ round.late \/ age <= UpdateLag + round.lag

MidTurn ==
    turning # Unknown =>
        /\ age = 0
        /\ Using => overtaken
        /\ ~overtaken => value = turning /\ (kind \in FaderKinds => shown = turning)

MidUpdate ==
    ~overtaken =>
        /\ pc \in {"show", "store"} => value = round.value
        /\ pc = "store" /\ turning = Unknown /\ ~rewound => shown = value

IInv == TypeOK /\ AnswerIsYoung /\ JumpsBackOnlyIfSlow /\ MidTurn /\ MidUpdate /\ ShownIsValue

USE KindsAssumption, BoundsAssumption

-----------------------------------------------------------------------------
(***************************************************************************)
(* The constants.                                                          *)
(***************************************************************************)
LEMMA PairMin ==
    ASSUME NEW a \in Int, NEW b \in Int
    PROVE  /\ Min({a, b}) \in {a, b}
           /\ Min({a, b}) <= a /\ Min({a, b}) <= b
<1>1. \E x \in {a, b} : \A y \in {a, b} : x <= y
  OBVIOUS
<1>2. QED
  BY <1>1 DEF Min

LEMMA PairMax ==
    ASSUME NEW a \in Int, NEW b \in Int
    PROVE  /\ Max({a, b}) \in {a, b}
           /\ Max({a, b}) >= a /\ Max({a, b}) >= b
<1>1. \E x \in {a, b} : \A y \in {a, b} : x >= y
  OBVIOUS
<1>2. QED
  BY <1>1 DEF Max

\* The delays are longer than what an answer and the desk usually take.
LEMMA Delays ==
    /\ UpdateLag \in Nat /\ AnswerLag \in Nat /\ LongAgo \in Nat
    /\ \A k \in Kinds : Delay(k) \in Nat /\ UpdateLag + AnswerLag < Delay(k)
<1>1. FaderDelay \in Nat /\ DialDelay \in Nat /\ UpdateLag \in Nat /\ AnswerLag \in Nat
  BY DelayAssumption
<1>2. FaderDelay \in Int /\ DialDelay \in Int
  BY <1>1
<1>3. /\ Min({FaderDelay, DialDelay}) \in {FaderDelay, DialDelay}
      /\ Min({FaderDelay, DialDelay}) <= FaderDelay
      /\ Min({FaderDelay, DialDelay}) <= DialDelay
  BY <1>2, PairMin, Zenon
<1>4. UpdateLag + AnswerLag < FaderDelay /\ UpdateLag + AnswerLag < DialDelay
  BY <1>1, <1>3, DelayAssumption
<1>5. LongAgo \in {FaderDelay, DialDelay}
  BY <1>2, PairMax, Zenon DEF LongAgo
<1>6. QED
  BY <1>1, <1>4, <1>5 DEF Delay

\* A turn leads to a value.
LEMMA TurnedToValues ==
    ASSUME value \in Values \cup {Unknown}
    PROVE  TurnedTo \subseteq Values
<1>1. ASSUME NEW old \in Values
      PROVE  Max({0, old - 1}) \in Values /\ Min({MaxValue, old + 1}) \in Values
  <2>1. 0 \in Int /\ MaxValue \in Int /\ old - 1 \in Int /\ old + 1 \in Int
    BY DEF Values
  <2>2. Max({0, old - 1}) \in {0, old - 1} /\ Max({0, old - 1}) >= 0
    BY <2>1, PairMax, Zenon
  <2>3. /\ Min({MaxValue, old + 1}) \in {MaxValue, old + 1}
        /\ Min({MaxValue, old + 1}) <= MaxValue
    BY <2>1, PairMin, Zenon
  <2>4. QED
    BY <2>1, <2>2, <2>3 DEF Values
<1> DEFINE Olds == IF value = Unknown THEN Values ELSE {value}
<1>2. Olds \subseteq Values
  OBVIOUS
<1> HIDE DEF Olds
<1>3. ASSUME NEW v \in UNION {{Max({0, old - 1}), Min({MaxValue, old + 1})} : old \in Olds}
      PROVE  v \in Values
  <2>1. PICK old \in Olds : v \in {Max({0, old - 1}), Min({MaxValue, old + 1})}
    BY <1>3, Zenon
  <2>2. old \in Values
    BY <1>2
  <2>3. QED
    BY <1>1, <2>1, <2>2, Zenon
<1>4. QED
  BY <1>3, Zenon DEF TurnedTo, Olds

\* Time passes up to a limit.
LEMMA NextTick ==
    ASSUME NEW n \in Nat, NEW limit \in Nat, n <= limit
    PROVE  /\ Min({n + 1, limit}) \in 0..limit
           /\ Min({n + 1, limit}) <= n + 1
           /\ Min({n + 1, limit}) < limit => Min({n + 1, limit}) = n + 1
<1>1. n + 1 \in Int /\ limit \in Int
  OBVIOUS
<1>2. /\ Min({n + 1, limit}) \in {n + 1, limit}
      /\ Min({n + 1, limit}) <= n + 1 /\ Min({n + 1, limit}) <= limit
  BY <1>1, PairMin, Zenon
<1>3. QED
  BY <1>1, <1>2

-----------------------------------------------------------------------------
(***************************************************************************)
(* Type correctness.                                                       *)
(***************************************************************************)
LEMMA InitTypeOK == Init => TypeOK
<1> SUFFICES ASSUME Init
             PROVE  TypeOK
  OBVIOUS
<1>1. {0, MaxValue} \subseteq Values
  BY DEF Values
<1>2. age \in 0..LongAgo
  BY Delays DEF Init
<1>3. desk \in [Channels -> Values] /\ {shown, level} \subseteq Values
  BY <1>1 DEF Init
<1>4. round \in Rounds
  BY Delays DEF Init, NoAnswer, Rounds
<1>5. wire \in Seq(Messages) /\ OneRequest(wire, pc)
  BY DEF Init, OneRequest
<1>6. /\ pending \in [Channels -> Values \cup {Unknown}]
      /\ {value, reading, turning} \subseteq Values \cup {Unknown}
  BY DEF Init
<1>7. QED
  BY <1>2, <1>3, <1>4, <1>5, <1>6 DEF Init, TypeOK, Using

\* The first datagram leaves the wire.
LEMMA TakenOff ==
    ASSUME NEW w \in Seq(Messages), w # <<>>, NEW where, OneRequest(w, where)
    PROVE  /\ Head(w) \in Messages /\ Tail(w) \in Seq(Messages)
           /\ OneRequest(Tail(w), where)
           /\ Head(w).type = "REQ_ENCODERS" => \A other : OneRequest(Tail(w), other)
<1>1. Head(w) \in Messages /\ Tail(w) \in Seq(Messages)
  OBVIOUS
<1>2. \A i \in DOMAIN Tail(w) :
        i + 1 \in DOMAIN w /\ Tail(w)[i] = w[i + 1] /\ i + 1 # 1 /\ i \in Int
  OBVIOUS
<1>3. 1 \in DOMAIN w /\ Head(w) = w[1]
  OBVIOUS
<1>4. QED
  BY <1>1, <1>2, <1>3 DEF OneRequest

\* A datagram is sent.
LEMMA PutOn ==
    ASSUME NEW w \in Seq(Messages), NEW m \in Messages, NEW where, NEW after,
           OneRequest(w, where),
           IF m.type = "REQ_ENCODERS" THEN where # "asked" /\ after = "asked" ELSE after = where
    PROVE  Append(w, m) \in Seq(Messages) /\ OneRequest(Append(w, m), after)
<1>1. Append(w, m) \in Seq(Messages)
  OBVIOUS
<1>2. \A i \in DOMAIN Append(w, m) :
        \/ i \in DOMAIN w /\ Append(w, m)[i] = w[i]
        \/ i = Len(w) + 1 /\ Append(w, m)[i] = m
  OBVIOUS
<1>3. ASSUME NEW i \in DOMAIN w, w[i].type = "REQ_ENCODERS"
      PROVE  where = "asked" /\ after = "asked" /\ m.type # "REQ_ENCODERS"
  BY <1>3 DEF OneRequest
<1>4. ASSUME NEW i \in DOMAIN Append(w, m), NEW j \in DOMAIN Append(w, m),
             Append(w, m)[i].type = "REQ_ENCODERS", Append(w, m)[j].type = "REQ_ENCODERS"
      PROVE  i = j /\ after = "asked"
  <2>1. CASE m.type = "REQ_ENCODERS"
    BY <1>2, <1>3, <1>4, <2>1
  <2>2. CASE m.type # "REQ_ENCODERS"
    <3>1. /\ i \in DOMAIN w /\ w[i].type = "REQ_ENCODERS"
          /\ j \in DOMAIN w /\ w[j].type = "REQ_ENCODERS"
      BY <1>2, <1>4, <2>2
    <3>2. QED
      BY <1>3, <3>1 DEF OneRequest
  <2>3. QED
    BY <2>1, <2>2
<1>5. QED
  BY <1>1, <1>4 DEF OneRequest

\* The input thread.
LEMMA InputTypeOK ==
    ASSUME TypeOK, ReadDial \/ TurnDial \/ TurnFader \/ TellTurn \/ Move \/ SendAllFaders
    PROVE  TypeOK'
<1> USE DEF TypeOK, faderVars, inputVars, refreshVars, deskVars, Using
<1>1. ASSUME NEW v \in Values, SetPhysical(v), reading' \in Values \cup {Unknown}
      PROVE  TypeOK'
  <2>1. turning' \in Values /\ value' \in Values /\ shown' \in Values
    BY <1>1 DEF SetPhysical
  <2>2. round' \in Rounds /\ round'.value = round.value
    BY <1>1 DEF SetPhysical, Rounds
  <2>3. age' \in 0..LongAgo
    BY <1>1, Delays DEF SetPhysical
  <2>4. overtaken' \in BOOLEAN /\ rewound' \in BOOLEAN
    <3>1. Using \in BOOLEAN
      OBVIOUS
    <3>2. overtaken' = Using /\ rewound' = FALSE
      BY <1>1, Zenon DEF SetPhysical
    <3> HIDE DEF Using
    <3>3. QED
      BY <3>1, <3>2, Zenon
  <2>5. UNCHANGED <<kind, level, address, pc, wire, pending, desk>>
    BY <1>1 DEF SetPhysical
  <2>6. QED
    BY <1>1, <2>1, <2>2, <2>3, <2>4, <2>5
<1>2. CASE ReadDial
  BY <1>2, TurnedToValues DEF ReadDial
<1>3. CASE TurnDial
  BY <1>1, <1>3 DEF TurnDial
<1>4. CASE TurnFader
  BY <1>1, <1>4, TurnedToValues DEF TurnFader
<1>5. CASE TellTurn
  <2>1. Update(turning) \in Messages /\ Update(turning).type = "UPDATE_MA_ENCODER"
    BY <1>5 DEF TellTurn, Update, Messages
  <2>2. wire' \in Seq(Messages) /\ OneRequest(wire', pc')
    BY <1>5, <2>1, PutOn DEF TellTurn
  <2>3. shown' \in Values
    BY <1>5 DEF TellTurn
  <2>4. QED
    BY <1>5, <2>2, <2>3 DEF TellTurn
<1>6. CASE Move
  <2>1. round' \in Rounds /\ round'.value = round.value
    BY <1>6 DEF Move, Rounds
  <2>2. QED
    BY <1>6, <2>1 DEF Move
<1>7. CASE SendAllFaders
  BY <1>7 DEF SendAllFaders
<1>8. QED
  BY <1>2, <1>3, <1>4, <1>5, <1>6, <1>7

\* The refresh thread.
LEMMA RefreshTypeOK ==
    ASSUME TypeOK, Refresh
    PROVE  TypeOK'
<1> USE DEF TypeOK, faderVars, inputVars, refreshVars, deskVars, Using
<1>1. CASE Ask
  <2>1. Request \in Messages /\ Request.type = "REQ_ENCODERS"
    BY DEF Request, Messages
  <2>2. wire' \in Seq(Messages) /\ OneRequest(wire', pc')
    BY <1>1, <2>1, PutOn DEF Ask
  <2>3. round' \in Rounds
    BY <1>1, Delays DEF Ask, NoAnswer, Rounds
  <2>4. QED
    BY <1>1, <2>2, <2>3 DEF Ask
<1>2. CASE Timeout
  BY <1>2 DEF Timeout, OneRequest
<1>3. CASE Accept
  <2>1. OneRequest(wire', pc')
    BY <1>3 DEF Accept, OneRequest
  <2>2. QED
    BY <1>3, <2>1 DEF Accept
<1>4. CASE CheckDuration
  <2>1. OneRequest(wire', pc')
    BY <1>4 DEF CheckDuration, OneRequest
  <2>2. round' \in Rounds /\ round'.value = round.value
    BY <1>4 DEF CheckDuration, Rounds
  <2>3. overtaken' \in BOOLEAN
    BY <1>4 DEF CheckDuration
  <2>4. QED
    BY <1>4, <2>1, <2>2, <2>3 DEF CheckDuration
<1>5. CASE WriteValue
  <2>1. OneRequest(wire', pc')
    BY <1>5 DEF WriteValue, OneRequest
  <2>2. QED
    BY <1>5, <2>1 DEF WriteValue
<1>6. CASE ShowValue
  <2>1. OneRequest(wire', pc')
    BY <1>6 DEF ShowValue, OneRequest
  <2>2. QED
    BY <1>6, <2>1 DEF ShowValue
<1>7. CASE StoreValue
  <2>1. OneRequest(wire', pc')
    BY <1>7 DEF StoreValue, OneRequest
  <2>2. QED
    BY <1>7, <2>1 DEF StoreValue
<1>8. QED
  BY <1>1, <1>2, <1>3, <1>4, <1>5, <1>6, <1>7 DEF Refresh

\* The plugin, the desk, the network and the time.
LEMMA DeskTypeOK ==
    ASSUME TypeOK, Plugin \/ DmxPacket \/ EditDesk \/ Lose \/ Tick
    PROVE  TypeOK'
<1> USE DEF TypeOK, faderVars, inputVars, refreshVars, deskVars, Using
<1>1. CASE AnswerRequest
  <2>1. Head(wire) \in Messages /\ Head(wire).channel \in Channels
    BY <1>1, TakenOff DEF AnswerRequest, Messages
  <2>2. wire' \in Seq(Messages) /\ OneRequest(wire', pc')
    BY <1>1, TakenOff DEF AnswerRequest
  <2>3. round' \in Rounds /\ round'.value \in Values
    BY <1>1, <2>1 DEF AnswerRequest, Rounds
  <2>4. QED
    BY <1>1, <2>2, <2>3 DEF AnswerRequest
<1>2. CASE HandleUpdate
  <2>1. Head(wire) \in Messages /\ Head(wire).value \in Values
    BY <1>2, TakenOff DEF HandleUpdate, Messages
  <2>2. wire' \in Seq(Messages) /\ OneRequest(wire', pc')
    BY <1>2, TakenOff DEF HandleUpdate
  <2>3. QED
    BY <1>2, <2>1, <2>2 DEF HandleUpdate
<1>3. CASE DmxPacket
  BY <1>3 DEF DmxPacket
<1>4. CASE EditDesk
  BY <1>4 DEF EditDesk
<1>5. CASE Lose
  <2>1. wire' \in Seq(Messages) /\ OneRequest(wire', pc')
    BY <1>5, TakenOff DEF Lose
  <2>2. QED
    BY <1>5, <2>1 DEF Lose
<1>6. CASE Tick
  <2>1. age' \in 0..LongAgo
    BY <1>6, Delays, NextTick DEF Tick
  <2>2. round' \in Rounds /\ round'.value = round.value
    <3>1. CASE pc \in {"answered", "check"}
      <4>1. round.lag \in Nat /\ AnswerLag + 1 \in Nat /\ round.lag <= AnswerLag + 1
        BY Delays DEF Rounds
      <4>2. Min({round.lag + 1, AnswerLag + 1}) \in 0..(AnswerLag + 1)
        BY <4>1, NextTick, Zenon
      <4>3. QED
        BY <1>6, <3>1, <4>2 DEF Tick, Rounds
    <3>2. CASE pc \notin {"answered", "check"}
      BY <1>6, <3>2 DEF Tick
    <3>3. QED
      BY <3>1, <3>2
  <2>3. QED
    BY <1>6, <2>1, <2>2 DEF Tick
<1>7. QED
  BY <1>1, <1>2, <1>3, <1>4, <1>5, <1>6 DEF Plugin

LEMMA StepTypeOK == TypeOK /\ [Next]_vars => TypeOK'
<1>1. TypeOK /\ UNCHANGED vars => TypeOK'
  BY DEF TypeOK, vars, faderVars, inputVars, refreshVars, deskVars, Using
<1>2. QED
  BY <1>1, InputTypeOK, RefreshTypeOK, DeskTypeOK DEF Next

-----------------------------------------------------------------------------
(***************************************************************************)
(* Answers from before a turn.                                             *)
(***************************************************************************)
LEMMA YoungStep ==
    ASSUME TypeOK, AnswerIsYoung, JumpsBackOnlyIfSlow, [Next]_vars
    PROVE  AnswerIsYoung' /\ JumpsBackOnlyIfSlow'
<1> USE DEF AnswerIsYoung, JumpsBackOnlyIfSlow
<1> USE DEF faderVars, inputVars, refreshVars, deskVars
<1>1. /\ age \in Nat /\ age <= LongAgo /\ UpdateLag \in Nat /\ AnswerLag \in Nat
      /\ round.lag \in Nat /\ round.lag <= AnswerLag + 1 /\ LongAgo \in Nat
  BY Delays DEF TypeOK, Rounds
<1>2. CASE TurnDial \/ TurnFader
  <2>1. PICK v : SetPhysical(v)
    BY <1>2 DEF TurnDial, TurnFader
  <2>2. age' = 0 /\ round'.lag = round.lag /\ pc' = pc
    BY <2>1 DEF SetPhysical, TypeOK, Rounds
  <2>3. pc = "write" => overtaken'
    BY <2>1 DEF SetPhysical, Using
  <2>4. QED
    BY <1>1, <2>2, <2>3
<1>3. CASE ReadDial \/ TellTurn
  BY <1>3 DEF ReadDial, TellTurn
<1>4. CASE Move
  BY <1>4 DEF Move, TypeOK, Rounds
<1>5. CASE SendAllFaders
  BY <1>5 DEF SendAllFaders
<1>6. CASE Ask \/ Timeout \/ WriteValue \/ ShowValue \/ StoreValue
  BY <1>6 DEF Ask, Timeout, WriteValue, ShowValue, StoreValue
<1>7. CASE Accept
  BY <1>7 DEF Accept
<1>8. CASE CheckDuration
  <2>1. round'.fresh = round.fresh /\ round'.late = (round.late \/ round.lag > AnswerLag)
    BY <1>8 DEF CheckDuration, TypeOK, Rounds
  <2>2. ASSUME pc' = "write"
        PROVE  round'.fresh \/ round'.late
    <3>1. age >= Delay(kind) /\ UpdateLag + AnswerLag < Delay(kind) /\ Delay(kind) \in Nat
      BY <1>1, <1>8, <2>2, Delays DEF CheckDuration, TypeOK
    <3>2. CASE round.lag > AnswerLag
      BY <2>1, <3>2
    <3>3. CASE round.lag <= AnswerLag
      <4>1. ~(age <= UpdateLag + round.lag)
        BY <1>1, <3>1, <3>3
      <4>2. round.fresh \/ round.late
        BY <1>8, <3>3, <4>1 DEF CheckDuration
      <4>3. QED
        BY <2>1, <4>2
    <3>4. QED
      BY <1>1, <3>2, <3>3
  <2>3. pc' \in {"idle", "write"}
    BY <1>8 DEF CheckDuration
  <2>4. QED
    BY <2>2, <2>3
<1>9. CASE AnswerRequest
  <2> DEFINE answer == desk[Head(wire).channel]
             fresh == /\ turning = Unknown /\ pending[Head(wire).channel] = Unknown
                      /\ Tail(wire) = <<>>
  <2>1. /\ round' = [round EXCEPT !.value = answer, !.fresh = fresh,
                                  !.late = ~fresh /\ age > UpdateLag]
        /\ pc' = "answered" /\ age' = age
    BY <1>9, Zenon DEF AnswerRequest
  <2> HIDE DEF answer, fresh
  <2>2. CASE fresh
    <3>1. round'.fresh
      BY <2>1, <2>2 DEF TypeOK, Rounds
    <3>2. QED
      BY <2>1, <3>1
  <2>3. CASE ~fresh /\ age > UpdateLag
    <3>1. round'.late
      BY <2>1, <2>3 DEF TypeOK, Rounds
    <3>2. QED
      BY <2>1, <3>1
  <2>4. CASE age <= UpdateLag
    <3>1. round'.lag = round.lag
      BY <2>1 DEF TypeOK, Rounds
    <3>2. QED
      BY <1>1, <2>1, <2>4, <3>1
  <2>5. QED
    BY <1>1, <2>2, <2>3, <2>4
<1>10. CASE HandleUpdate \/ DmxPacket \/ EditDesk \/ Lose
  BY <1>10 DEF HandleUpdate, DmxPacket, EditDesk, Lose
<1>11. CASE Tick
  <2>1. age' \in Nat /\ age' <= age + 1
    <3>1. Min({age + 1, LongAgo}) \in 0..LongAgo /\ Min({age + 1, LongAgo}) <= age + 1
      BY <1>1, NextTick, Zenon
    <3>2. age' = Min({age + 1, LongAgo})
      BY <1>11 DEF Tick
    <3>3. QED
      BY <1>1, <3>1, <3>2
  <2>2. pc' = pc /\ overtaken' = overtaken
    BY <1>11 DEF Tick
  <2>3. CASE pc \in {"answered", "check"}
    <3>1. AnswerLag + 1 \in Nat
      BY <1>1
    <3>2. Min({round.lag + 1, AnswerLag + 1}) < AnswerLag + 1 =>
            Min({round.lag + 1, AnswerLag + 1}) = round.lag + 1
      BY <1>1, <3>1, NextTick, Zenon
    <3>3. /\ round' = [round EXCEPT !.lag = Min({round.lag + 1, AnswerLag + 1})]
          /\ Min({round.lag + 1, AnswerLag + 1}) \in 0..(AnswerLag + 1)
      <4>1. Min({round.lag + 1, AnswerLag + 1}) \in 0..(AnswerLag + 1)
        BY <1>1, <3>1, NextTick, Zenon
      <4>2. QED
        BY <1>11, <2>3, <4>1 DEF Tick
    <3>4. /\ round'.lag = Min({round.lag + 1, AnswerLag + 1})
          /\ round'.fresh = round.fresh /\ round'.late = round.late
      BY <3>3 DEF TypeOK, Rounds
    <3>5. QED
      BY <1>1, <2>1, <2>2, <2>3, <3>2, <3>3, <3>4
  <2>4. CASE pc \notin {"answered", "check"}
    BY <1>11, <2>2, <2>4 DEF Tick
  <2>5. QED
    BY <2>3, <2>4
<1>12. CASE UNCHANGED vars
  BY <1>12 DEF vars
<1>13. QED
  BY <1>2, <1>3, <1>4, <1>5, <1>6, <1>7, <1>8, <1>9, <1>10, <1>11, <1>12
     DEF Next, Refresh, Plugin

-----------------------------------------------------------------------------
(***************************************************************************)
(* What is shown and m_value.                                              *)
(***************************************************************************)
LEMMA ShownStep ==
    ASSUME TypeOK, MidTurn, MidUpdate, ShownIsValue, [Next]_vars
    PROVE  MidTurn' /\ MidUpdate' /\ ShownIsValue'
<1> USE DEF MidTurn, MidUpdate, ShownIsValue, Using
<1> USE DEF faderVars, inputVars, refreshVars, deskVars
<1>1. CASE TurnDial \/ TurnFader
  <2>1. PICK v \in Values : SetPhysical(v)
    BY <1>1, TurnedToValues DEF TurnDial, TurnFader, TypeOK
  <2>2. /\ turning' # Unknown /\ turning' = value' /\ age' = 0 /\ pc' = pc /\ kind' = kind
        /\ kind \in FaderKinds => shown' = turning'
    <3>1. Unknown \notin Values
      BY DEF Unknown, Values
    <3>2. QED
      BY <2>1, <3>1 DEF SetPhysical
  <2>3. Using => overtaken'
    BY <2>1 DEF SetPhysical
  <2>4. QED
    BY <2>2, <2>3
<1>2. CASE ReadDial \/ TellTurn
  BY <1>2 DEF ReadDial, TellTurn
<1>3. CASE Move
  BY <1>3 DEF Move, TypeOK, Rounds
<1>4. CASE SendAllFaders
  BY <1>4 DEF SendAllFaders, Free
<1>5. CASE Ask \/ Timeout \/ Accept
  BY <1>5 DEF Ask, Timeout, Accept
<1>6. CASE CheckDuration
  <2>1. 0 < Delay(kind)
    BY Delays DEF TypeOK
  <2>2. pc' = "idle" => overtaken' = overtaken
    BY <1>6 DEF CheckDuration, TypeOK
  <2>3. UNCHANGED <<turning, age, value, shown, kind, rewound>> /\ pc = "check"
    BY <1>6 DEF CheckDuration
  <2>4. turning # Unknown => pc' = "idle"
    BY <1>6, <2>1 DEF CheckDuration
  <2>5. pc' \in {"idle", "write"}
    BY <1>6 DEF CheckDuration
  <2>6. QED
    BY <2>2, <2>3, <2>4, <2>5
<1>7. CASE WriteValue
  BY <1>7 DEF WriteValue
<1>8. CASE ShowValue \/ StoreValue
  BY <1>8 DEF ShowValue, StoreValue
<1>9. CASE AnswerRequest
  <2>1. pc = "asked" /\ pc' = "answered"
    <3>1. 1 \in DOMAIN wire /\ wire[1].type = "REQ_ENCODERS"
      BY <1>9 DEF AnswerRequest, TypeOK
    <3>2. QED
      BY <1>9, <3>1 DEF AnswerRequest, TypeOK, OneRequest
  <2>2. QED
    BY <1>9, <2>1 DEF AnswerRequest
<1>10. CASE HandleUpdate \/ DmxPacket \/ EditDesk \/ Lose
  BY <1>10 DEF HandleUpdate, DmxPacket, EditDesk, Lose
<1>11. CASE Tick
  <2>1. round'.value = round.value
    <3>1. CASE pc \in {"answered", "check"}
      BY <1>11, <3>1 DEF Tick, TypeOK, Rounds
    <3>2. CASE pc \notin {"answered", "check"}
      BY <1>11, <3>2 DEF Tick
    <3>3. QED
      BY <3>1, <3>2
  <2>2. QED
    BY <1>11, <2>1 DEF Tick, Free
<1>12. CASE UNCHANGED vars
  BY <1>12 DEF vars
<1>13. QED
  BY <1>1, <1>2, <1>3, <1>4, <1>5, <1>6, <1>7, <1>8, <1>9, <1>10, <1>11, <1>12
     DEF Next, Refresh, Plugin

-----------------------------------------------------------------------------
(***************************************************************************)
(* The inductive invariant: an unchecked answer that misses a turn is      *)
(* young, and no answer is checked in the middle of a turn.                *)
(***************************************************************************)
THEOREM InductiveInvariant == Spec => []IInv
<1>1. Init => IInv
  BY InitTypeOK DEF Init, IInv, AnswerIsYoung, JumpsBackOnlyIfSlow, MidTurn, MidUpdate, ShownIsValue, Using
<1>2. IInv /\ [Next]_vars => IInv'
  BY StepTypeOK, YoungStep, ShownStep DEF IInv
<1>3. QED
  BY <1>1, <1>2, PTL DEF Spec

(***************************************************************************)
(* A turn stays within the limits of the value, at most one request is on  *)
(* the wire, and only while the refresh thread waits for its answer.       *)
(***************************************************************************)
THEOREM TypeCorrect == Spec => []TypeOK
BY InductiveInvariant, PTL DEF IInv

(***************************************************************************)
(* No fader or dial jumps back to a value from before a turn, for any      *)
(* delays longer than what the desk and an answer take, except where the   *)
(* desk or the answer was slow or the turn came after the check.           *)
(***************************************************************************)
THEOREM NoJumpBack == Spec => []JumpsBackOnlyIfSlow
BY InductiveInvariant, PTL DEF IInv

(***************************************************************************)
(* The surface shows m_value, from which the next turn starts, except      *)
(* after a turn in the middle of an update and the levels sent from        *)
(* before a turn.                                                          *)
(***************************************************************************)
THEOREM ShowsItsValue == Spec => []ShownIsValue
BY InductiveInvariant, PTL DEF IInv
=============================================================================
