----------------------------- MODULE ScribblesProofs ------------------------
(***************************************************************************)
(* Proofs about Scribbles, for any channels and bounds.                    *)
(***************************************************************************)
EXTENDS Scribbles, Integers, SequenceTheorems, TLAPS

(***************************************************************************)
(* The inductive invariant: what the rest of each program will do.         *)
(***************************************************************************)
Wanted == IF pinned THEN "PINK" ELSE "WHITE"

PadSteps ==
    [do : {"top"}, value : Channels \cup {"----"}]
        \cup [do : {"bottom"}, value : Channels \cup {"empty", "None"}]
        \cup [do : {"colour"}, value : {"BLACK", "RED", "PINK", "WHITE"}]
        \cup [do : {"copy", "store", "send", "valid"}, value : {"none"}]
        \cup [do : {"assert"}, value : Channels]

OpsOK == ops \in [Threads -> Seq(PadSteps)] /\ copy \in [Threads -> Pads]

Colours(s) == {s[k].value : k \in {n \in DOMAIN s : s[n].do = "colour"}}

\* The refresh thread leaves the colour alone, and the input thread sets the
\* one wanted or has done so.
ColourSettles ==
    address \in exists /\ touched \cap {"raced", "edited"} = {} =>
        /\ Colours(ops["refresh"]) = {}
        /\ \/ Colours(ops["input"]) = {Wanted}
           \/ Colours(ops["input"]) = {} /\ pad.colour = Wanted

Dashes == SetAddress(Invalid)

\* The refresh thread has nothing to do but to find that there is no channel,
\* and the input thread has set as much as it has done of its program.
DashesSettle ==
    LET left == Len(ops["input"])
    IN  address = Invalid /\ touched \cap {"raced", "lost", "pinned"} = {} =>
            /\ Idle("refresh") \/ Head(ops["refresh"]).do = "valid"
            /\ left <= 9
            /\ \A k \in 1..left : ops["input"][k] = Dashes[9 - left + k]
            /\ left < 9 => pad.top = Blank.top
            /\ left < 8 => pad.bottom = Blank.bottom
            /\ left < 4 => pad.colour = Blank.colour
            /\ left < 3 => copy["input"] = Blank
            /\ left < 2 => cache = Blank
            /\ left < 1 => surface = Blank

IInv ==
    /\ TypeOK
    /\ OpsOK
    /\ ColourSettles
    /\ DashesSettle

LEMMA Bounds == MaxKeys \in Nat /\ MaxTroubles \in Nat
  BY BoundsAssumption

-----------------------------------------------------------------------------
(***************************************************************************)
(* The programs: what they are made of, the colours they set, and what is  *)
(* left of them after a step.                                              *)
(***************************************************************************)
LEMMA OneStep ==
  ASSUME NEW do, NEW value, Op(do, value) \in PadSteps
  PROVE  /\ <<Op(do, value)>> \in Seq(PadSteps) /\ Len(<<Op(do, value)>>) = 1
         /\ <<Op(do, value)>>[1] = Op(do, value)
         /\ Colours(<<Op(do, value)>>) = IF do = "colour" THEN {value} ELSE {}
<1> DEFINE s == <<Op(do, value)>>
<1>1. s \in Seq(PadSteps) /\ Len(s) = 1 /\ s[1] = Op(do, value) /\ DOMAIN s = {1}
  OBVIOUS
<1>2. s[1].do = do /\ s[1].value = value
  BY <1>1 DEF Op
<1> HIDE DEF s
<1>3. CASE do = "colour"
  BY <1>1, <1>2, <1>3 DEF Colours
<1>4. CASE do # "colour"
  BY <1>1, <1>2, <1>4 DEF Colours
<1>5. QED
  BY <1>1, <1>3, <1>4 DEF s

\* u is s followed by t.
Joined(s, t, u) ==
    /\ Len(s) \in Nat /\ DOMAIN s = 1..Len(s)
    /\ Len(t) \in Nat /\ DOMAIN t = 1..Len(t)
    /\ DOMAIN u = 1..(Len(s) + Len(t))
    /\ \A i \in 1..Len(s) : u[i] = s[i]
    /\ \A i \in 1..Len(t) : u[Len(s) + i] = t[i]

LEMMA JoinSteps ==
  ASSUME NEW s \in Seq(PadSteps), NEW t \in Seq(PadSteps), NEW u, u = s \o t
  PROVE  /\ u \in Seq(PadSteps) /\ Joined(s, t, u) /\ Len(u) = Len(s) + Len(t)
         /\ Colours(u) = Colours(s) \cup Colours(t)
<1>1. u \in Seq(PadSteps) /\ Joined(s, t, u) /\ Len(u) = Len(s) + Len(t)
  <2>1. /\ Len(s) \in Nat /\ DOMAIN s = 1..Len(s)
        /\ Len(t) \in Nat /\ DOMAIN t = 1..Len(t)
    BY LenProperties
  <2>2. /\ u \in Seq(PadSteps) /\ Len(u) = Len(s) + Len(t)
        /\ \A i \in 1..(Len(s) + Len(t)) :
              u[i] = IF i <= Len(s) THEN s[i] ELSE t[i - Len(s)]
    BY ConcatProperties
  <2>3. DOMAIN u = 1..(Len(s) + Len(t))
    BY <2>2, LenProperties
  <2>4. \A i \in 1..Len(s) : u[i] = s[i]
    BY <2>1, <2>2
  <2>5. \A i \in 1..Len(t) : u[Len(s) + i] = t[i]
    BY <2>1, <2>2
  <2>6. QED
    BY <2>1, <2>2, <2>3, <2>4, <2>5 DEF Joined
<1>2. ASSUME NEW v \in Colours(u)
      PROVE  v \in Colours(s) \cup Colours(t)
  <2>1. PICK k \in DOMAIN u : u[k].do = "colour" /\ v = u[k].value
    BY <1>2 DEF Colours
  <2>2. CASE k \in DOMAIN s /\ u[k] = s[k]
    BY <2>1, <2>2 DEF Colours
  <2>3. CASE k - Len(s) \in DOMAIN t /\ u[k] = t[k - Len(s)]
    BY <2>1, <2>3 DEF Colours
  <2>4. QED
    BY <1>1, <2>1, <2>2, <2>3 DEF Joined
<1>3. Colours(s) \subseteq Colours(u)
  BY <1>1 DEF Colours, Joined
<1>4. ASSUME NEW v \in Colours(t)
      PROVE  v \in Colours(u)
  <2>1. PICK k \in DOMAIN t : t[k].do = "colour" /\ v = t[k].value
    BY <1>4 DEF Colours
  <2>2. Len(s) + k \in DOMAIN u /\ u[Len(s) + k] = t[k]
    BY <1>1, <2>1 DEF Joined
  <2>3. QED
    BY <2>1, <2>2 DEF Colours
<1>5. QED
  BY <1>1, <1>2, <1>3, <1>4 DEF Joined

LEMMA ScribbleSteps ==
  /\ SetScribble \in Seq(PadSteps) /\ Len(SetScribble) = 3
  /\ SetScribble[1].do = "copy" /\ SetScribble[2].do = "store" /\ SetScribble[3].do = "send"
  /\ Colours(SetScribble) = {}
<1>1. /\ DOMAIN SetScribble = 1..3 /\ Len(SetScribble) = 3
      /\ SetScribble[1] = Op("copy", "none") /\ SetScribble[2] = Op("store", "none")
      /\ SetScribble[3] = Op("send", "none")
  BY DEF SetScribble
<1>2. \A k \in 1..3 : SetScribble[k] \in PadSteps /\ SetScribble[k].do # "colour"
  BY <1>1 DEF Op, PadSteps
<1>3. SetScribble \in Seq(PadSteps)
  BY <1>2 DEF SetScribble
<1>4. Colours(SetScribble) = {}
  BY <1>1, <1>2 DEF Colours
<1>5. QED
  BY <1>1, <1>3, <1>4 DEF Op

LEMMA SetTextSteps ==
  ASSUME NEW text \in Channels \cup {"empty", "None"}
  PROVE  /\ SetText(text) \in Seq(PadSteps) /\ Len(SetText(text)) = 4
         /\ SetText(text)[1] = Op("bottom", text)
         /\ SetText(text)[2].do = "copy"
         /\ SetText(text)[3].do = "store"
         /\ SetText(text)[4].do = "send"
         /\ Colours(SetText(text)) = {}
<1>1. Op("bottom", text) \in PadSteps
  BY DEF Op, PadSteps
<1> DEFINE s == <<Op("bottom", text)>>
<1>2. s \in Seq(PadSteps) /\ Len(s) = 1 /\ s[1] = Op("bottom", text) /\ Colours(s) = {}
  BY <1>1, OneStep
<1> HIDE DEF s
<1> DEFINE u == SetText(text)
<1>3. u = s \o SetScribble
  BY DEF SetText, s
<1> HIDE DEF u
<1>4. /\ u \in Seq(PadSteps) /\ Len(u) = 4
      /\ Joined(s, SetScribble, u)
      /\ Colours(u) = {}
  <2>1. /\ u \in Seq(PadSteps) /\ Joined(s, SetScribble, u) /\ Len(u) = Len(s) + Len(SetScribble)
        /\ Colours(u) = Colours(s) \cup Colours(SetScribble)
    BY <1>2, <1>3, JoinSteps, ScribbleSteps, Zenon
  <2>2. QED
    BY <1>2, <1>3, ScribbleSteps, <2>1
<1>5. /\ u[1] = Op("bottom", text)
      /\ u[2].do = "copy" /\ u[3].do = "store" /\ u[4].do = "send"
  BY <1>2, <1>4, ScribbleSteps DEF Joined
<1>6. QED
  BY <1>4, <1>5 DEF u

LEMMA SetColourSteps ==
  ASSUME NEW colour \in {"BLACK", "RED", "PINK", "WHITE"}
  PROVE  /\ SetColour(colour) \in Seq(PadSteps) /\ Len(SetColour(colour)) = 4
         /\ SetColour(colour)[1] = Op("colour", colour)
         /\ SetColour(colour)[2].do = "copy" /\ SetColour(colour)[3].do = "store"
         /\ SetColour(colour)[4].do = "send"
         /\ Colours(SetColour(colour)) = {colour}
<1>1. Op("colour", colour) \in PadSteps
  BY DEF Op, PadSteps
<1> DEFINE s == <<Op("colour", colour)>>
<1>2. s \in Seq(PadSteps) /\ Len(s) = 1 /\ s[1] = Op("colour", colour) /\ Colours(s) = {colour}
  BY <1>1, OneStep
<1> HIDE DEF s
<1> DEFINE u == SetColour(colour)
<1>3. u = s \o SetScribble
  BY DEF SetColour, s
<1> HIDE DEF u
<1>4. /\ u \in Seq(PadSteps) /\ Len(u) = 4
      /\ Joined(s, SetScribble, u)
      /\ Colours(u) = {colour}
  <2>1. /\ u \in Seq(PadSteps) /\ Joined(s, SetScribble, u) /\ Len(u) = Len(s) + Len(SetScribble)
        /\ Colours(u) = Colours(s) \cup Colours(SetScribble)
    BY <1>2, <1>3, JoinSteps, ScribbleSteps, Zenon
  <2>2. QED
    BY <1>2, <1>3, ScribbleSteps, <2>1
<1>5. /\ u[1] = Op("colour", colour)
      /\ u[2].do = "copy" /\ u[3].do = "store" /\ u[4].do = "send"
  BY <1>2, <1>4, ScribbleSteps DEF Joined
<1>6. QED
  BY <1>4, <1>5 DEF u

LEMMA DashesAre ==
  /\ Dashes \in Seq(PadSteps) /\ Len(Dashes) = 9
  /\ Dashes[1] = Op("top", "----")
  /\ Dashes[2] = Op("bottom", "empty")
  /\ Dashes[6] = Op("colour", "BLACK")
  /\ Dashes[3].do = "copy" /\ Dashes[7].do = "copy"
  /\ Dashes[4].do = "store" /\ Dashes[8].do = "store"
  /\ Dashes[5].do = "send" /\ Dashes[9].do = "send"
<1> DEFINE s == <<Op("top", "----")>>
           t == SetText("empty")
           u == s \o t
           v == SetColour("BLACK")
<1>1. Op("top", "----") \in PadSteps
  BY DEF Op, PadSteps
<1>2. s \in Seq(PadSteps) /\ Len(s) = 1 /\ s[1] = Op("top", "----")
  BY <1>1, OneStep
<1>3. /\ t \in Seq(PadSteps) /\ Len(t) = 4 /\ t[1] = Op("bottom", "empty")
      /\ t[2].do = "copy" /\ t[3].do = "store" /\ t[4].do = "send"
  BY SetTextSteps
<1>4. /\ v \in Seq(PadSteps) /\ Len(v) = 4 /\ v[1] = Op("colour", "BLACK")
      /\ v[2].do = "copy" /\ v[3].do = "store" /\ v[4].do = "send"
  BY SetColourSteps
<1> DEFINE w == u \o v
<1>5. Dashes = w
  BY DEF Dashes, SetAddress
<1>6. u = s \o t /\ w = u \o v
  OBVIOUS
<1> HIDE DEF s, t, u, v, w
<1>7. u \in Seq(PadSteps) /\ Len(u) = 5 /\ Joined(s, t, u)
  <2>1. /\ u \in Seq(PadSteps) /\ Joined(s, t, u) /\ Len(u) = Len(s) + Len(t)
        /\ Colours(u) = Colours(s) \cup Colours(t)
    BY <1>2, <1>3, <1>6, JoinSteps, Zenon
  <2>2. QED
    BY <1>2, <1>3, <1>6, <2>1
<1>8. w \in Seq(PadSteps) /\ Len(w) = 9 /\ Joined(u, v, w)
  <2>1. /\ w \in Seq(PadSteps) /\ Joined(u, v, w) /\ Len(w) = Len(u) + Len(v)
        /\ Colours(w) = Colours(u) \cup Colours(v)
    BY <1>4, <1>6, <1>7, JoinSteps, Zenon
  <2>2. QED
    BY <1>4, <1>6, <1>7, <2>1
<1>9. /\ w[1] = s[1] /\ w[2] = t[1] /\ w[3] = t[2] /\ w[4] = t[3] /\ w[5] = t[4]
      /\ w[6] = v[1] /\ w[7] = v[2] /\ w[8] = v[3] /\ w[9] = v[4]
  BY <1>2, <1>3, <1>4, <1>7, <1>8 DEF Joined
<1>10. QED
  BY <1>2, <1>3, <1>4, <1>5, <1>8, <1>9

LEMMA SetAddressSteps ==
  ASSUME NEW a \in Channels
  PROVE  /\ SetAddress(a) \in Seq(PadSteps)
         /\ Colours(SetAddress(a)) = {"WHITE"}
<1> DEFINE u == <<Op("colour", "WHITE"), Op("top", a)>>
<1>1. Op("colour", "WHITE") \in PadSteps /\ Op("top", a) \in PadSteps
  BY DEF Op, PadSteps
<1>2. SetAddress(a) = u \o SetScribble
  BY InvalidAssumption DEF SetAddress
<1>3. /\ u \in Seq(PadSteps) /\ Len(u) = 2 /\ DOMAIN u = 1..2
      /\ u[1] = Op("colour", "WHITE") /\ u[2] = Op("top", a)
  BY <1>1
<1> DEFINE w == SetAddress(a)
<1> HIDE DEF u
<1>4. {n \in DOMAIN u : u[n].do = "colour"} = {1}
  BY <1>3 DEF Op
<1>5. Colours(u) = {"WHITE"}
  BY <1>3, <1>4 DEF Colours, Op
<1>6. w = u \o SetScribble
  BY <1>2
<1> HIDE DEF w
<1>7. w \in Seq(PadSteps) /\ Colours(w) = {"WHITE"}
  <2>1. /\ w \in Seq(PadSteps) /\ Joined(u, SetScribble, w) /\ Len(w) = Len(u) + Len(SetScribble)
        /\ Colours(w) = Colours(u) \cup Colours(SetScribble)
    BY <1>3, <1>5, <1>6, JoinSteps, ScribbleSteps, Zenon
  <2>2. QED
    BY <1>3, <1>5, <1>6, ScribbleSteps, <2>1
<1>8. QED
  BY <1>7 DEF w

LEMMA UpdateSteps ==
  ASSUME NEW a \in Channels
  PROVE  /\ UpdateEncoderFromMA(a) \in Seq(PadSteps)
         /\ Colours(UpdateEncoderFromMA(a)) = {}
<1> DEFINE s == <<Op("assert", a)>>
<1>1. Op("assert", a) \in PadSteps
  BY DEF Op, PadSteps
<1> DEFINE w == UpdateEncoderFromMA(a)
<1>2. s \in Seq(PadSteps) /\ Len(s) = 1 /\ Colours(s) = {}
  BY <1>1, OneStep
<1>3. w = s \o SetText(a)
  BY DEF UpdateEncoderFromMA
<1> HIDE DEF s, w
<1>4. w \in Seq(PadSteps) /\ Colours(w) = {}
  <2>1. /\ w \in Seq(PadSteps) /\ Joined(s, SetText(a), w) /\ Len(w) = Len(s) + Len(SetText(a))
        /\ Colours(w) = Colours(s) \cup Colours(SetText(a))
    BY <1>2, <1>3, SetTextSteps, JoinSteps, Zenon
  <2>2. QED
    BY <1>2, <1>3, SetTextSteps, <2>1
<1>5. QED
  BY <1>4 DEF w

LEMMA DisableSteps ==
  ASSUME NEW a
  PROVE  /\ Disable(a) \in Seq(PadSteps) /\ Disable(a) # <<>>
         /\ Head(Disable(a)).do = "valid"
<1> DEFINE s == <<Op("valid", "none")>>
           t == SetColour("RED")
           u == s \o t
           v == SetText("None")
<1>1. Op("valid", "none") \in PadSteps
  BY DEF Op, PadSteps
<1>2. s \in Seq(PadSteps) /\ Len(s) = 1 /\ s[1] = Op("valid", "none")
  BY <1>1, OneStep
<1>3. t \in Seq(PadSteps) /\ v \in Seq(PadSteps) /\ Len(t) = 4 /\ Len(v) = 4
  BY SetColourSteps, SetTextSteps
<1> DEFINE w == Disable(a)
<1>4. u = s \o t /\ w = u \o v
  BY DEF Disable
<1> HIDE DEF s, t, u, v, w
<1>5. u \in Seq(PadSteps) /\ Len(u) = 5 /\ Joined(s, t, u)
  <2>1. /\ u \in Seq(PadSteps) /\ Joined(s, t, u) /\ Len(u) = Len(s) + Len(t)
        /\ Colours(u) = Colours(s) \cup Colours(t)
    BY <1>2, <1>3, <1>4, JoinSteps, Zenon
  <2>2. QED
    BY <1>2, <1>3, <1>4, <2>1
<1>6. w \in Seq(PadSteps) /\ Len(w) = 9 /\ Joined(u, v, w)
  <2>1. /\ w \in Seq(PadSteps) /\ Joined(u, v, w) /\ Len(w) = Len(u) + Len(v)
        /\ Colours(w) = Colours(u) \cup Colours(v)
    BY <1>3, <1>4, <1>5, JoinSteps, Zenon
  <2>2. QED
    BY <1>3, <1>4, <1>5, <2>1
<1>7. w # <<>> /\ Head(w) = Op("valid", "none")
  <2>1. w[1] = Op("valid", "none")
    BY <1>2, <1>5, <1>6 DEF Joined
  <2>2. w # <<>> /\ Head(w) = w[1]
    BY <1>6
  <2>3. QED
    BY <2>1, <2>2
<1>8. QED
  BY <1>6, <1>7 DEF w, Op

LEMMA NoSteps == <<>> \in Seq(PadSteps) /\ Colours(<<>>) = {}
  BY DEF Colours

LEMMA RestSteps ==
  ASSUME NEW s \in Seq(PadSteps), s # <<>>
  PROVE  /\ Head(s) = s[1] /\ Head(s) \in PadSteps
         /\ Tail(s) \in Seq(PadSteps) /\ Len(Tail(s)) = Len(s) - 1 /\ Len(s) \in Nat \ {0}
         /\ \A k \in 1..(Len(s) - 1) : Tail(s)[k] = s[k + 1]
         /\ Colours(Tail(s)) \subseteq Colours(s)
         /\ Head(s).do # "colour" => Colours(Tail(s)) = Colours(s)
         /\ Head(s).do = "colour" => Head(s).value \in Colours(s)
<1> DEFINE r == Tail(s)
<1>1. /\ Len(s) \in Nat \ {0} /\ Head(s) = s[1] /\ s[1] \in PadSteps
      /\ r \in Seq(PadSteps) /\ Len(r) = Len(s) - 1
      /\ \A k \in 1..(Len(s) - 1) : r[k] = s[k + 1]
  OBVIOUS
<1>2. DOMAIN s = 1..Len(s) /\ DOMAIN r = 1..(Len(s) - 1)
  BY <1>1
<1> HIDE DEF r
<1>3. ASSUME NEW v \in Colours(r)
      PROVE  v \in Colours(s)
  <2>1. PICK k \in DOMAIN r : r[k].do = "colour" /\ v = r[k].value
    BY <1>3 DEF Colours
  <2>2. k + 1 \in DOMAIN s /\ s[k + 1] = r[k]
    BY <1>1, <1>2, <2>1
  <2>3. QED
    BY <2>1, <2>2 DEF Colours
<1>4. ASSUME s[1].do # "colour", NEW v \in Colours(s)
      PROVE  v \in Colours(r)
  <2>1. PICK k \in DOMAIN s : s[k].do = "colour" /\ v = s[k].value
    BY <1>4 DEF Colours
  <2>2. k - 1 \in DOMAIN r /\ r[k - 1] = s[k]
    BY <1>1, <1>2, <1>4, <2>1
  <2>3. QED
    BY <2>1, <2>2 DEF Colours
<1>5. s[1].do = "colour" => s[1].value \in Colours(s)
  BY <1>1, <1>2 DEF Colours
<1>6. QED
  BY <1>1, <1>3, <1>4, <1>5 DEF r

-----------------------------------------------------------------------------
(***************************************************************************)
(* What a step that goes on in a program keeps.                            *)
(***************************************************************************)
LEMMA HeadStep ==
  ASSUME OpsOK, NEW t \in Threads, ~Idle(t)
  PROVE  /\ ops[t] \in Seq(PadSteps) /\ ops[t] # <<>> /\ Head(ops[t]) \in PadSteps
         /\ Len(ops[t]) \in Nat \ {0}
  BY RestSteps DEF OpsOK, Idle

LEMMA FinishSteps ==
  ASSUME OpsOK, NEW t \in Threads, ~Idle(t), Finish(t)
  PROVE  /\ ops' \in [Threads -> Seq(PadSteps)]
         /\ ops'[t] = Tail(ops[t])
         /\ \A u \in Threads \ {t} : ops'[u] = ops[u]
<1>1. Tail(ops[t]) \in Seq(PadSteps)
  BY HeadStep, RestSteps
<1>2. QED
  BY <1>1 DEF OpsOK, Finish

LEMMA StartSteps ==
  ASSUME OpsOK, NEW t \in Threads, NEW program \in Seq(PadSteps), Start(t, program)
  PROVE  /\ ops' \in [Threads -> Seq(PadSteps)]
         /\ ops'[t] = program
         /\ \A u \in Threads \ {t} : ops'[u] = ops[u]
  BY DEF OpsOK, Start

\* A step that is not about the colour.
LEMMA ColourFinish ==
  ASSUME OpsOK, ColourSettles, NEW t \in Threads, ~Idle(t), Finish(t),
         UNCHANGED <<address, pinned, exists>>, touched \subseteq touched',
         pad'.colour = pad.colour, Head(ops[t]).do # "colour"
  PROVE  ColourSettles'
<1>1. \A u \in Threads : Colours(ops'[u]) = Colours(ops[u])
  BY FinishSteps, HeadStep, RestSteps
<1>2. "input" \in Threads /\ "refresh" \in Threads
  BY DEF Threads
<1>3. Wanted' = Wanted
  BY DEF Wanted
<1>4. touched' \cap {"raced", "edited"} = {} => touched \cap {"raced", "edited"} = {}
  OBVIOUS
<1>5. QED
  BY <1>1, <1>2, <1>3, <1>4 DEF ColourSettles

\* Under the hypotheses of DashesSettle: a strip without a channel that nothing
\* disturbs.
Undisturbed == address = Invalid /\ touched \cap {"raced", "lost", "pinned"} = {}

\* What the program of a strip without a channel has done, and left to do.
LEMMA DashesFacts ==
  ASSUME DashesSettle, OpsOK, Undisturbed
  PROVE  /\ Idle("refresh") \/ Head(ops["refresh"]).do = "valid"
         /\ Len(ops["input"]) \in 0..9
         /\ \A k \in 1..Len(ops["input"]) : ops["input"][k] = Dashes[9 - Len(ops["input"]) + k]
         /\ Len(ops["input"]) < 9 => pad.top = Blank.top
         /\ Len(ops["input"]) < 8 => pad.bottom = Blank.bottom
         /\ Len(ops["input"]) < 4 => pad.colour = Blank.colour
         /\ Len(ops["input"]) < 3 => copy["input"] = Blank
         /\ Len(ops["input"]) < 2 => cache = Blank
         /\ Len(ops["input"]) < 1 => surface = Blank
<1>1. Len(ops["input"]) \in Nat
  BY DEF OpsOK, Threads
<1>2. Len(ops["input"]) <= 9
  BY DEF DashesSettle, Undisturbed
<1>3. Len(ops["input"]) \in 0..9
  <2> DEFINE left == Len(ops["input"])
  <2>1. left \in Nat /\ left <= 9
    BY <1>1, <1>2
  <2> HIDE DEF left
  <2>2. left \in 0..9
    BY <2>1
  <2>3. QED
    BY <2>2 DEF left
<1>4. QED
  BY <1>3, Zenon DEF DashesSettle, Undisturbed

\* The next step of that program, and what is left of it.
LEMMA DashesNext ==
  ASSUME DashesSettle, OpsOK, Undisturbed, ~Idle("input"), Finish("input")
  PROVE  LET left == Len(ops["input"])
         IN  /\ left \in 1..9 /\ Len(ops'["input"]) = left - 1
             /\ Head(ops["input"]) = Dashes[10 - left]
             /\ \A k \in 1..(left - 1) : ops'["input"][k] = Dashes[9 - (left - 1) + k]
             /\ ops'["refresh"] = ops["refresh"]
<1> DEFINE left == Len(ops["input"])
           s == ops["input"]
           r == ops'["input"]
<1>1. "input" \in Threads /\ "refresh" \in Threads \ {"input"}
  BY DEF Threads
<1>2. r = Tail(s) /\ ops'["refresh"] = ops["refresh"] /\ s \in Seq(PadSteps) /\ s # <<>>
  BY <1>1, FinishSteps, HeadStep
<1> HIDE DEF s, r
<1>3. /\ Head(s) = s[1] /\ Len(r) = Len(s) - 1 /\ Len(s) \in Nat \ {0}
      /\ \A k \in 1..(Len(s) - 1) : r[k] = s[k + 1]
  BY <1>2, RestSteps
<1>4. \A k \in 1..Len(s) : s[k] = Dashes[9 - Len(s) + k]
  BY DashesFacts DEF s
<1>5. Len(s) \in 1..9
  <2>1. Len(s) \in 0..9 /\ Len(s) \in Nat \ {0}
    BY <1>3, DashesFacts DEF s
  <2>2. QED
    BY <2>1
<1>6. Head(s) = Dashes[10 - Len(s)]
  <2>1. s[1] = Dashes[9 - Len(s) + 1]
    BY <1>4, <1>5
  <2>2. 9 - Len(s) + 1 = 10 - Len(s)
    BY <1>5
  <2>3. QED
    BY <1>3, <2>1, <2>2
<1>7. ASSUME NEW k \in 1..(Len(s) - 1)
      PROVE  r[k] = Dashes[9 - (Len(s) - 1) + k]
  <2>1. k + 1 \in 1..Len(s) /\ 9 - Len(s) + (k + 1) = 9 - (Len(s) - 1) + k
    BY <1>5
  <2>2. r[k] = s[k + 1] /\ s[k + 1] = Dashes[9 - Len(s) + (k + 1)]
    BY <1>3, <1>4, <2>1
  <2>3. QED
    BY <2>1, <2>2
<1>8. QED
  BY <1>2, <1>3, <1>5, <1>6, <1>7 DEF s, r

LEMMA DashesOrder ==
  ASSUME NEW k \in 1..9
  PROVE  /\ Dashes[k].do = "top" => k = 1
         /\ Dashes[k].do = "bottom" => k = 2
         /\ Dashes[k].do = "colour" => k = 6
         /\ Dashes[k].do = "copy" => k \in {3, 7}
         /\ Dashes[k].do = "store" => k \in {4, 8}
         /\ Dashes[k].do = "send" => k \in {5, 9}
         /\ Dashes[k].do \in {"top", "bottom", "colour", "copy", "store", "send"}
         /\ Dashes[1].value = Blank.top /\ Dashes[2].value = Blank.bottom
         /\ Dashes[6].value = Blank.colour
<1>1. k \in {1, 2, 3, 4, 5, 6, 7, 8, 9}
  OBVIOUS
<1>2. /\ Dashes[1].do = "top" /\ Dashes[2].do = "bottom" /\ Dashes[6].do = "colour"
      /\ Dashes[1].value = Blank.top /\ Dashes[2].value = Blank.bottom
      /\ Dashes[6].value = Blank.colour
  BY DashesAre DEF Op, Blank
<1>3. QED
  BY <1>1, <1>2, DashesAre

\* It is enough to look at undisturbed strips.
LEMMA DashesIf ==
  ASSUME Undisturbed' => LET left == Len(ops'["input"])
                         IN  /\ Idle("refresh")' \/ Head(ops'["refresh"]).do = "valid"
                             /\ left <= 9
                             /\ \A k \in 1..left : ops'["input"][k] = Dashes[9 - left + k]
                             /\ left < 9 => pad'.top = Blank.top
                             /\ left < 8 => pad'.bottom = Blank.bottom
                             /\ left < 4 => pad'.colour = Blank.colour
                             /\ left < 3 => copy'["input"] = Blank
                             /\ left < 2 => cache' = Blank
                             /\ left < 1 => surface' = Blank
  PROVE  DashesSettle'
  BY DEF DashesSettle, Undisturbed, Dashes, SetAddress, SetText, SetColour, SetScribble

\* The refresh thread does nothing to an undisturbed strip.
LEMMA RefreshWaits ==
  ASSUME DashesSettle, OpsOK, Undisturbed, NEW do, Doing("refresh", do)
  PROVE  do = "valid"
  BY DashesFacts DEF Doing

LEMMA Countdown ==
  ASSUME NEW left \in 1..9
  PROVE  /\ 10 - left \in 1..9 /\ left - 1 <= 9
         /\ 10 - left = 1 => left = 9
         /\ 10 - left = 2 => left = 8
         /\ 10 - left = 6 => left = 4
         /\ 10 - left \in {3, 7} => left \in {7, 3}
         /\ 10 - left \in {4, 8} => left \in {6, 2}
         /\ 10 - left \in {5, 9} => left \in {5, 1}
  OBVIOUS

\* Where the input thread is, from what it does; what its step has to show.
LEMMA DashesInput ==
  ASSUME DashesSettle, OpsOK, Undisturbed, NEW do, Doing("input", do), Finish("input"),
         NEW left, left = Len(ops["input"])
  PROVE  /\ left \in 1..9
         /\ do = "top" => left = 9 /\ Head(ops["input"]).value = Blank.top
         /\ do = "bottom" => left = 8 /\ Head(ops["input"]).value = Blank.bottom
         /\ do = "colour" => left = 4 /\ Head(ops["input"]).value = Blank.colour
         /\ do = "copy" => left \in {7, 3}
         /\ do = "store" => left \in {6, 2}
         /\ do = "send" => left \in {5, 1}
         /\ do \notin {"valid", "assert"}
         /\ left < 9 => pad.top = Blank.top
         /\ left < 8 => pad.bottom = Blank.bottom
         /\ left < 4 => pad.colour = Blank.colour
         /\ left < 3 => copy["input"] = Blank
         /\ left < 2 => cache = Blank
         /\ (/\ left - 1 < 9 => pad'.top = Blank.top
             /\ left - 1 < 8 => pad'.bottom = Blank.bottom
             /\ left - 1 < 4 => pad'.colour = Blank.colour
             /\ left - 1 < 3 => copy'["input"] = Blank
             /\ left - 1 < 2 => cache' = Blank
             /\ left - 1 < 1 => surface' = Blank)
            => DashesSettle'
<1>1. ~Idle("input") /\ Head(ops["input"]).do = do
  BY DEF Doing
<1>2. /\ left \in 1..9 /\ Len(ops'["input"]) = left - 1
      /\ Head(ops["input"]) = Dashes[10 - left]
      /\ \A k \in 1..(left - 1) : ops'["input"][k] = Dashes[9 - (left - 1) + k]
      /\ ops'["refresh"] = ops["refresh"]
  BY <1>1, DashesNext
<1>3. 10 - left \in 1..9
  BY <1>2, Countdown, Zenon
<1>4. /\ do = "top" => 10 - left = 1
      /\ do = "bottom" => 10 - left = 2
      /\ do = "colour" => 10 - left = 6
      /\ do = "copy" => 10 - left \in {3, 7}
      /\ do = "store" => 10 - left \in {4, 8}
      /\ do = "send" => 10 - left \in {5, 9}
      /\ do \in {"top", "bottom", "colour", "copy", "store", "send"}
      /\ Dashes[1].value = Blank.top /\ Dashes[2].value = Blank.bottom
      /\ Dashes[6].value = Blank.colour
  <2> DEFINE k == 10 - left
  <2>1. k \in 1..9 /\ Dashes[k].do = do
    BY <1>1, <1>2, <1>3
  <2> HIDE DEF k
  <2>2. /\ do = "top" => k = 1
        /\ do = "bottom" => k = 2
        /\ do = "colour" => k = 6
        /\ do = "copy" => k \in {3, 7}
        /\ do = "store" => k \in {4, 8}
        /\ do = "send" => k \in {5, 9}
        /\ do \in {"top", "bottom", "colour", "copy", "store", "send"}
        /\ Dashes[1].value = Blank.top /\ Dashes[2].value = Blank.bottom
        /\ Dashes[6].value = Blank.colour
    BY <2>1, DashesOrder
  <2>3. QED
    BY <2>2 DEF k
<1>5. /\ do = "top" => left = 9 /\ Head(ops["input"]).value = Blank.top
      /\ do = "bottom" => left = 8 /\ Head(ops["input"]).value = Blank.bottom
      /\ do = "colour" => left = 4 /\ Head(ops["input"]).value = Blank.colour
      /\ do = "copy" => left \in {7, 3}
      /\ do = "store" => left \in {6, 2}
      /\ do = "send" => left \in {5, 1}
      /\ do \notin {"valid", "assert"}
  <2>1. /\ 10 - left = 1 => left = 9
        /\ 10 - left = 2 => left = 8
        /\ 10 - left = 6 => left = 4
        /\ 10 - left \in {3, 7} => left \in {7, 3}
        /\ 10 - left \in {4, 8} => left \in {6, 2}
        /\ 10 - left \in {5, 9} => left \in {5, 1}
    BY <1>2, Countdown, Zenon
  <2>2. QED
    BY <1>2, <1>4, <2>1
<1>6. /\ left < 9 => pad.top = Blank.top
      /\ left < 8 => pad.bottom = Blank.bottom
      /\ left < 4 => pad.colour = Blank.colour
      /\ left < 3 => copy["input"] = Blank
      /\ left < 2 => cache = Blank
      /\ Idle("refresh") \/ Head(ops["refresh"]).do = "valid"
  BY DashesFacts
<1>7. (/\ left - 1 < 9 => pad'.top = Blank.top
       /\ left - 1 < 8 => pad'.bottom = Blank.bottom
       /\ left - 1 < 4 => pad'.colour = Blank.colour
       /\ left - 1 < 3 => copy'["input"] = Blank
       /\ left - 1 < 2 => cache' = Blank
       /\ left - 1 < 1 => surface' = Blank)
      => DashesSettle'
  <2> DEFINE n == left - 1
      s == ops'["input"]
  <2>1. n <= 9 /\ Len(s) = n
    BY <1>2, Countdown, Zenon
  <2>2. \A k \in 1..n : s[k] = Dashes[9 - n + k]
    BY <1>2
  <2>3. Idle("refresh")' \/ Head(ops'["refresh"]).do = "valid"
    BY <1>2, <1>6 DEF Idle
  <2> HIDE DEF n
  <2>4. (/\ n < 9 => pad'.top = Blank.top
         /\ n < 8 => pad'.bottom = Blank.bottom
         /\ n < 4 => pad'.colour = Blank.colour
         /\ n < 3 => copy'["input"] = Blank
         /\ n < 2 => cache' = Blank
         /\ n < 1 => surface' = Blank)
        => DashesSettle'
    BY <2>1, <2>2, <2>3, DashesIf, Zenon
  <2>5. QED
    BY <2>4 DEF n
<1>8. QED
  BY <1>2, <1>5, <1>6, <1>7, Zenon

-----------------------------------------------------------------------------
(***************************************************************************)
(* The steps keep the invariant: one lemma for each.                       *)
(***************************************************************************)
LEMMA TypeParts ==
  /\ TypeOK <=> /\ pad \in Pads /\ cache \in Pads /\ surface \in Pads
                /\ copy["input"] \in Pads /\ copy["refresh"] \in Pads
                /\ address \in Channels \cup {Invalid}
                /\ pinned \in BOOLEAN /\ aborted \in BOOLEAN
                /\ exists \subseteq Channels
                /\ touched \subseteq {"raced", "lost", "pinned", "edited"}
                /\ keys \in 0..MaxKeys /\ troubles \in 0..MaxTroubles
  /\ OpsOK => copy["input"] \in Pads /\ copy["refresh"] \in Pads
<1>1. OpsOK => copy["input"] \in Pads /\ copy["refresh"] \in Pads
  BY DEF OpsOK, Threads
<1>2. QED
  BY <1>1 DEF TypeOK

LEMMA ThreadCases == \A t \in Threads : t = "input" \/ t = "refresh"
  BY DEF Threads

LEMMA PadIsBlank ==
  /\ Blank \in Pads
  /\ \A p \in Pads : p.top = Blank.top /\ p.bottom = Blank.bottom /\ p.colour = Blank.colour
                        => p = Blank
  BY DEF Blank, Pads

LEMMA SetFieldStep ==
  ASSUME IInv, NEW t \in Threads, NEW field \in {"top", "bottom", "colour"}, SetField(t, field)
  PROVE  IInv'
<1> DEFINE op == Head(ops[t])
<1>1. /\ Doing(t, field) /\ ~Idle(t) /\ op.do = field /\ Finish(t)
      /\ pad' = [pad EXCEPT ![field] = op.value]
      /\ UNCHANGED <<cache, surface, copy, address, pinned, keys, exists, aborted,
                   touched, troubles>>
  BY DEF SetField, Doing, stripVars
<1>2. op \in PadSteps /\ pad \in Pads /\ OpsOK /\ ColourSettles /\ DashesSettle
  BY <1>1, HeadStep, TypeParts DEF IInv
<1>3. /\ pad' \in Pads
      /\ pad'.top = (IF field = "top" THEN op.value ELSE pad.top)
      /\ pad'.bottom = (IF field = "bottom" THEN op.value ELSE pad.bottom)
      /\ pad'.colour = (IF field = "colour" THEN op.value ELSE pad.colour)
  BY <1>1, <1>2 DEF PadSteps, Pads
<1>4. TypeOK'
  BY <1>1, <1>3 DEF IInv, TypeOK
<1>5. OpsOK'
  BY <1>1, <1>2, FinishSteps DEF OpsOK
<1>6. ColourSettles'
  <2>1. CASE field # "colour"
    BY <1>1, <1>2, <1>3, <2>1, ColourFinish
  <2>2. CASE field = "colour"
    <3> SUFFICES ASSUME address \in exists, touched \cap {"raced", "edited"} = {}
                 PROVE  /\ Colours(ops'["refresh"]) = {}
                        /\ \/ Colours(ops'["input"]) = {Wanted}
                           \/ Colours(ops'["input"]) = {} /\ pad'.colour = Wanted
      BY <1>1 DEF ColourSettles, Wanted
    <3>1. /\ Colours(ops["refresh"]) = {}
          /\ \/ Colours(ops["input"]) = {Wanted}
             \/ Colours(ops["input"]) = {} /\ pad.colour = Wanted
      BY <1>2 DEF ColourSettles
    <3>2. op.value \in Colours(ops[t]) /\ Colours(Tail(ops[t])) \subseteq Colours(ops[t])
      BY <1>1, <1>2, <2>2, HeadStep, RestSteps
    <3>3. t = "input"
      BY <3>1, <3>2, ThreadCases
    <3>4. ops'["input"] = Tail(ops["input"]) /\ ops'["refresh"] = ops["refresh"]
      BY <1>1, <1>2, <3>3, FinishSteps DEF Threads
    <3>5. Colours(ops["input"]) = {Wanted} /\ op.value = Wanted
      BY <3>1, <3>2, <3>3
    <3>6. QED
      BY <1>3, <2>2, <3>1, <3>2, <3>3, <3>4, <3>5
  <2>3. QED
    BY <2>1, <2>2
<1>7. DashesSettle'
  <2>1. CASE ~Undisturbed
    <3>1. ~Undisturbed'
      BY <1>1, <2>1 DEF Undisturbed
    <3>2. QED
      BY <3>1, DashesIf
  <2>2. CASE Undisturbed
    <3> DEFINE left == Len(ops["input"])
    <3>1. t = "input"
      BY <1>1, <1>2, <2>2, RefreshWaits, ThreadCases
    <3>2. Doing("input", field) /\ Finish("input") /\ op = Head(ops["input"])
      BY <1>1, <3>1
    <3> HIDE DEF left, op
    <3>3. /\ left \in 1..9
          /\ field = "top" => left = 9 /\ op.value = Blank.top
          /\ field = "bottom" => left = 8 /\ op.value = Blank.bottom
          /\ field = "colour" => left = 4 /\ op.value = Blank.colour
          /\ left < 9 => pad.top = Blank.top
          /\ left < 8 => pad.bottom = Blank.bottom
          /\ left < 4 => pad.colour = Blank.colour
          /\ left < 3 => copy["input"] = Blank
          /\ left < 2 => cache = Blank
      BY <1>2, <2>2, <3>2, DashesInput, Zenon DEF left
    <3>4. /\ left - 1 < 9 => pad'.top = Blank.top
          /\ left - 1 < 8 => pad'.bottom = Blank.bottom
          /\ left - 1 < 4 => pad'.colour = Blank.colour
          /\ left - 1 < 3 => copy'["input"] = Blank
          /\ left - 1 < 2 => cache' = Blank
          /\ left - 1 < 1 => surface' = Blank
      BY <1>1, <1>3, <3>3
    <3>5. QED
      BY <1>2, <2>2, <3>2, <3>4, DashesInput, Zenon DEF left
  <2>3. QED
    BY <2>1, <2>2
<1>8. QED
  BY <1>4, <1>5, <1>6, <1>7 DEF IInv

LEMMA CopyPadStep ==
  ASSUME IInv, NEW t \in Threads, CopyPad(t)
  PROVE  IInv'
<1>1. /\ Doing(t, "copy") /\ ~Idle(t) /\ Head(ops[t]).do = "copy" /\ Finish(t)
      /\ copy' = [copy EXCEPT ![t] = pad]
      /\ UNCHANGED <<pad, cache, surface, address, pinned, keys, exists, aborted,
                   touched, troubles>>
  BY DEF CopyPad, Doing, stripVars
<1>2. pad \in Pads /\ OpsOK /\ ColourSettles /\ DashesSettle
  BY TypeParts DEF IInv
<1>3. OpsOK'
  BY <1>1, <1>2, FinishSteps DEF OpsOK
<1>4. TypeOK'
  <2>1. copy'["input"] \in Pads /\ copy'["refresh"] \in Pads
    BY <1>3 DEF OpsOK, Threads
  <2>2. QED
    BY <1>1, <2>1 DEF IInv, TypeOK
<1>6. ColourSettles'
  BY <1>1, <1>2, ColourFinish
<1>7. DashesSettle'
  <2>1. CASE ~Undisturbed
    <3>1. ~Undisturbed'
      BY <1>1, <2>1 DEF Undisturbed
    <3>2. QED
      BY <3>1, DashesIf
  <2>2. CASE Undisturbed
    <3> DEFINE left == Len(ops["input"])
    <3>1. t = "input"
      BY <1>1, <1>2, <2>2, RefreshWaits, ThreadCases
    <3>2. Doing("input", "copy") /\ Finish("input") /\ copy'["input"] = pad
      BY <1>1, <1>2, <3>1 DEF OpsOK
    <3> HIDE DEF left
    <3>3. /\ left \in {7, 3}
          /\ left < 9 => pad.top = Blank.top
          /\ left < 8 => pad.bottom = Blank.bottom
          /\ left < 4 => pad.colour = Blank.colour
          /\ left < 2 => cache = Blank
      BY <1>2, <2>2, <3>2, DashesInput, Zenon DEF left
    <3>4. left < 4 => pad = Blank
      BY <1>2, <3>3, PadIsBlank
    <3>5. /\ left - 1 < 9 => pad'.top = Blank.top
          /\ left - 1 < 8 => pad'.bottom = Blank.bottom
          /\ left - 1 < 4 => pad'.colour = Blank.colour
          /\ left - 1 < 3 => copy'["input"] = Blank
          /\ left - 1 < 2 => cache' = Blank
          /\ left - 1 < 1 => surface' = Blank
      BY <1>1, <3>2, <3>3, <3>4
    <3>6. QED
      BY <1>2, <2>2, <3>2, <3>5, DashesInput, Zenon DEF left
  <2>3. QED
    BY <2>1, <2>2
<1>8. QED
  BY <1>3, <1>4, <1>6, <1>7 DEF IInv

LEMMA StorePadStep ==
  ASSUME IInv, NEW t \in Threads, StorePad(t)
  PROVE  IInv'
<1>1. /\ Doing(t, "store") /\ ~Idle(t) /\ Head(ops[t]).do = "store" /\ Finish(t)
      /\ cache' = copy[t] /\ copy' = [copy EXCEPT ![t] = Blank]
      /\ UNCHANGED <<pad, surface, address, pinned, keys, exists, aborted,
                   touched, troubles>>
  BY DEF StorePad, Doing, stripVars
<1>2. OpsOK /\ ColourSettles /\ DashesSettle
  BY DEF IInv
<1>3. OpsOK' /\ cache' \in Pads
  BY <1>1, <1>2, FinishSteps, PadIsBlank DEF OpsOK
<1>4. TypeOK'
  <2>1. copy'["input"] \in Pads /\ copy'["refresh"] \in Pads
    BY <1>3 DEF OpsOK, Threads
  <2>2. QED
    BY <1>1, <1>3, <2>1 DEF IInv, TypeOK
<1>6. ColourSettles'
  BY <1>1, <1>2, ColourFinish
<1>7. DashesSettle'
  <2>1. CASE ~Undisturbed
    <3>1. ~Undisturbed'
      BY <1>1, <2>1 DEF Undisturbed
    <3>2. QED
      BY <3>1, DashesIf
  <2>2. CASE Undisturbed
    <3> DEFINE left == Len(ops["input"])
    <3>1. t = "input"
      BY <1>1, <1>2, <2>2, RefreshWaits, ThreadCases
    <3>2. /\ Doing("input", "store") /\ Finish("input")
          /\ copy'["input"] = Blank /\ cache' = copy["input"]
      BY <1>1, <1>2, <3>1 DEF OpsOK
    <3> HIDE DEF left
    <3>3. /\ left \in {6, 2}
          /\ left < 9 => pad.top = Blank.top
          /\ left < 8 => pad.bottom = Blank.bottom
          /\ left < 4 => pad.colour = Blank.colour
          /\ left < 3 => copy["input"] = Blank
      BY <1>2, <2>2, <3>2, DashesInput, Zenon DEF left
    <3>4. /\ left - 1 < 9 => pad'.top = Blank.top
          /\ left - 1 < 8 => pad'.bottom = Blank.bottom
          /\ left - 1 < 4 => pad'.colour = Blank.colour
          /\ left - 1 < 3 => copy'["input"] = Blank
          /\ left - 1 < 2 => cache' = Blank
          /\ left - 1 < 1 => surface' = Blank
      BY <1>1, <3>2, <3>3
    <3>5. QED
      BY <1>2, <2>2, <3>2, <3>4, DashesInput, Zenon DEF left
  <2>3. QED
    BY <2>1, <2>2
<1>8. QED
  BY <1>3, <1>4, <1>6, <1>7 DEF IInv

LEMMA SendScribbleStep ==
  ASSUME IInv, NEW t \in Threads, SendScribble(t)
  PROVE  IInv'
<1>1. /\ Doing(t, "send") /\ ~Idle(t) /\ Head(ops[t]).do = "send" /\ Finish(t)
      /\ \/ surface' = cache /\ UNCHANGED <<touched, troubles>>
         \/ /\ troubles < MaxTroubles
            /\ troubles' = troubles + 1 /\ touched' = touched \cup {"lost"}
            /\ UNCHANGED surface
      /\ UNCHANGED <<pad, cache, copy, address, pinned, keys, exists, aborted>>
  BY DEF SendScribble, Doing, stripVars
<1>2. OpsOK /\ ColourSettles /\ DashesSettle
  BY DEF IInv
<1>3. OpsOK'
  BY <1>1, <1>2, FinishSteps DEF OpsOK
<1>4. TypeOK'
  <2>1. troubles' \in 0..MaxTroubles
    BY <1>1, Bounds, TypeParts DEF IInv
  <2>2. surface' \in Pads /\ touched' \subseteq {"raced", "lost", "pinned", "edited"}
    BY <1>1, TypeParts DEF IInv
  <2>3. QED
    BY <1>1, <2>1, <2>2 DEF IInv, TypeOK
<1>6. ColourSettles'
  BY <1>1, <1>2, ColourFinish
<1>7. DashesSettle'
  <2>1. CASE ~Undisturbed'
    BY <2>1, DashesIf
  <2>2. CASE Undisturbed'
    <3> DEFINE left == Len(ops["input"])
    <3>1. Undisturbed /\ surface' = cache
      BY <1>1, <2>2 DEF Undisturbed
    <3>2. t = "input"
      BY <1>1, <1>2, <3>1, RefreshWaits, ThreadCases
    <3>3. Doing("input", "send") /\ Finish("input")
      BY <1>1, <3>2
    <3> HIDE DEF left
    <3>4. /\ left \in {5, 1}
          /\ left < 9 => pad.top = Blank.top
          /\ left < 8 => pad.bottom = Blank.bottom
          /\ left < 4 => pad.colour = Blank.colour
          /\ left < 3 => copy["input"] = Blank
          /\ left < 2 => cache = Blank
      BY <1>2, <3>1, <3>3, DashesInput, Zenon DEF left
    <3>5. /\ left - 1 < 9 => pad'.top = Blank.top
          /\ left - 1 < 8 => pad'.bottom = Blank.bottom
          /\ left - 1 < 4 => pad'.colour = Blank.colour
          /\ left - 1 < 3 => copy'["input"] = Blank
          /\ left - 1 < 2 => cache' = Blank
          /\ left - 1 < 1 => surface' = Blank
      BY <1>1, <3>1, <3>4
    <3>6. QED
      BY <1>2, <3>1, <3>3, <3>5, DashesInput, Zenon DEF left
  <2>3. QED
    BY <2>1, <2>2
<1>8. QED
  BY <1>3, <1>4, <1>6, <1>7 DEF IInv

\* Only the refresh thread looks whether the address is valid, or compares it.
LEMMA InputOnlySets ==
  ASSUME DashesSettle, OpsOK, Undisturbed, NEW do, Doing("input", do)
  PROVE  do \notin {"valid", "assert"}
<1> DEFINE left == Len(ops["input"])
           s == ops["input"]
<1>1. ~Idle("input") /\ Head(s).do = do
  BY DEF Doing
<1>2. s \in Seq(PadSteps) /\ s # <<>> /\ Len(s) \in Nat \ {0}
  BY <1>1, HeadStep DEF Threads
<1>3. Len(s) \in 0..9 /\ \A k \in 1..Len(s) : s[k] = Dashes[9 - Len(s) + k]
  BY DashesFacts
<1> HIDE DEF s
<1>4. Head(s) = s[1]
  BY <1>2
<1>5. PICK n \in 1..9 : n = Len(s)
  <2>1. Len(s) \in 0..9 /\ Len(s) # 0
    BY <1>2, <1>3
  <2>2. \A n \in 0..9 : n # 0 => n \in 1..9
    OBVIOUS
  <2>3. QED
    BY <2>1, <2>2, Zenon
<1>6. 1 \in 1..n /\ 9 - n + 1 \in 1..9
  OBVIOUS
<1>7. s[1] = Dashes[9 - n + 1]
  BY <1>3, <1>5, <1>6, Zenon
<1>8. s[1].do \in {"top", "bottom", "colour", "copy", "store", "send"}
  BY <1>6, <1>7, DashesOrder, Zenon
<1>9. QED
  BY <1>1, <1>4, <1>8

\* A step that leaves the input thread and the pad alone, and the refresh thread
\* with nothing to do or the check still before it.
LEMMA DashesKeep ==
  ASSUME OpsOK, DashesSettle, Undisturbed' => Undisturbed,
         UNCHANGED <<pad, cache, surface, copy>>, ops'["input"] = ops["input"],
         Undisturbed => Idle("refresh")' \/ Head(ops'["refresh"]).do = "valid"
  PROVE  DashesSettle'
<1>1. CASE ~Undisturbed'
  BY <1>1, DashesIf
<1>2. CASE Undisturbed'
  <2>1. Undisturbed
    BY <1>2
  <2>2. /\ Len(ops["input"]) <= 9
        /\ \A k \in 1..Len(ops["input"]) : ops["input"][k] = Dashes[9 - Len(ops["input"]) + k]
        /\ Len(ops["input"]) < 9 => pad.top = Blank.top
        /\ Len(ops["input"]) < 8 => pad.bottom = Blank.bottom
        /\ Len(ops["input"]) < 4 => pad.colour = Blank.colour
        /\ Len(ops["input"]) < 3 => copy["input"] = Blank
        /\ Len(ops["input"]) < 2 => cache = Blank
        /\ Len(ops["input"]) < 1 => surface = Blank
    BY <2>1, Zenon DEF DashesSettle, Undisturbed
  <2>3. QED
    BY <2>1, <2>2, DashesIf, Zenon
<1>3. QED
  BY <1>1, <1>2

LEMMA NoChannel ==
  ASSUME TypeOK, address = Invalid
  PROVE  address \notin exists
  BY InvalidAssumption DEF TypeOK

LEMMA CheckValidStep ==
  ASSUME IInv, NEW t \in Threads, CheckValid(t)
  PROVE  IInv'
<1>1. /\ Doing(t, "valid") /\ ~Idle(t) /\ Head(ops[t]).do = "valid"
      /\ IF address = Invalid THEN Start(t, <<>>) ELSE Finish(t)
      /\ UNCHANGED <<pad, cache, surface, copy, address, pinned, keys, exists, aborted,
                   touched, troubles>>
  BY DEF CheckValid, Doing, stripVars, padVars
<1>2. TypeOK /\ OpsOK /\ ColourSettles /\ DashesSettle
  BY DEF IInv
<1>3. OpsOK'
  BY <1>1, <1>2, FinishSteps, StartSteps, NoSteps DEF OpsOK
<1>4. TypeOK'
  BY <1>1, <1>2 DEF TypeOK
<1>5. ColourSettles'
  <2>1. CASE address = Invalid
    <3>1. address' \notin exists'
      BY <1>1, <1>2, <2>1, NoChannel
    <3>2. QED
      BY <3>1 DEF ColourSettles
  <2>2. CASE address # Invalid
    BY <1>1, <1>2, <2>2, ColourFinish
  <2>3. QED
    BY <2>1, <2>2
<1>6. DashesSettle'
  <2>1. CASE ~Undisturbed
    <3>1. ~Undisturbed'
      BY <1>1, <2>1 DEF Undisturbed
    <3>2. QED
      BY <3>1, DashesIf
  <2>2. CASE Undisturbed
    <3>1. t = "refresh"
      BY <1>1, <1>2, <2>2, InputOnlySets, ThreadCases
    <3>2. Start("refresh", <<>>)
      BY <1>1, <2>2, <3>1 DEF Undisturbed
    <3>3. ops'["refresh"] = <<>> /\ ops'["input"] = ops["input"]
      BY <1>2, <3>2, StartSteps, NoSteps DEF Threads
    <3>4. Idle("refresh")'
      BY <3>3 DEF Idle
    <3>5. QED
      BY <1>1, <1>2, <2>2, <3>3, <3>4, DashesKeep
  <2>3. QED
    BY <2>1, <2>2
<1>7. QED
  BY <1>3, <1>4, <1>5, <1>6 DEF IInv

LEMMA CompareAddressStep ==
  ASSUME IInv, NEW t \in Threads, CompareAddress(t)
  PROVE  IInv'
<1>1. /\ Doing(t, "assert") /\ ~Idle(t) /\ Head(ops[t]).do = "assert" /\ Finish(t)
      /\ aborted' \in BOOLEAN
      /\ UNCHANGED <<pad, cache, surface, copy, address, pinned, keys, exists, touched, troubles>>
  BY DEF CompareAddress, Doing, stripVars, padVars
<1>2. TypeOK /\ OpsOK /\ ColourSettles /\ DashesSettle
  BY DEF IInv
<1>3. OpsOK'
  BY <1>1, <1>2, FinishSteps DEF OpsOK
<1>4. TypeOK'
  BY <1>1, <1>2 DEF TypeOK
<1>5. ColourSettles'
  BY <1>1, <1>2, ColourFinish
<1>6. DashesSettle'
  <2>1. ~Undisturbed
    BY <1>1, <1>2, InputOnlySets, RefreshWaits, ThreadCases
  <2>2. ~Undisturbed'
    BY <1>1, <2>1 DEF Undisturbed
  <2>3. QED
    BY <2>2, DashesIf
<1>7. QED
  BY <1>3, <1>4, <1>5, <1>6 DEF IInv

LEMMA KeyType ==
  ASSUME TypeOK, Key
  PROVE  keys' \in 0..MaxKeys
  BY Bounds DEF TypeOK, Key

LEMMA MoveStep ==
  ASSUME IInv, NEW a \in Channels \cup {Invalid}, Move(a)
  PROVE  IInv'
<1>1. /\ Key /\ (pinned => a = Invalid)
      /\ address' = a /\ Start("input", SetAddress(a))
      /\ touched' = IF Idle("refresh") THEN {} ELSE {"raced"}
      /\ UNCHANGED <<pad, cache, surface, copy, pinned, exists, aborted, troubles>>
  BY DEF Move, padVars
<1>2. TypeOK /\ OpsOK
  BY DEF IInv
<1>3. SetAddress(a) \in Seq(PadSteps)
  BY SetAddressSteps, DashesAre DEF Dashes
<1>4. /\ ops' \in [Threads -> Seq(PadSteps)]
      /\ ops'["input"] = SetAddress(a) /\ ops'["refresh"] = ops["refresh"]
  BY <1>1, <1>2, <1>3, StartSteps DEF Threads
<1>5. OpsOK'
  BY <1>1, <1>2, <1>4 DEF OpsOK
<1>6. TypeOK'
  <2>1. keys' \in 0..MaxKeys
    BY <1>1, <1>2, KeyType
  <2>2. touched' \subseteq {"raced", "lost", "pinned", "edited"}
    BY <1>1
  <2>3. QED
    BY <1>1, <1>2, <2>1, <2>2 DEF TypeOK
<1>7. touched' \cap {"raced"} = {} => Idle("refresh") /\ ops["refresh"] = <<>>
  BY <1>1 DEF Idle
<1>8. ColourSettles'
  <2> SUFFICES ASSUME a \in exists, touched' \cap {"raced"} = {}
               PROVE  Colours(ops'["refresh"]) = {} /\ Colours(ops'["input"]) = {Wanted'}
    BY <1>1 DEF ColourSettles
  <2>1. a \in Channels /\ a # Invalid
    BY <1>2, InvalidAssumption DEF TypeOK
  <2>2. pinned' = FALSE
    BY <1>1, <1>2, <2>1 DEF TypeOK
  <2>3. Wanted' = "WHITE"
    BY <2>2 DEF Wanted
  <2>4. QED
    BY <1>4, <1>7, <2>1, <2>3, SetAddressSteps, NoSteps
<1>9. DashesSettle'
  <2>1. CASE ~Undisturbed'
    BY <2>1, DashesIf
  <2>2. CASE Undisturbed'
    <3>1. a = Invalid /\ touched' \cap {"raced"} = {}
      BY <1>1, <2>2 DEF Undisturbed
    <3>2. ops'["input"] = Dashes
      BY <1>4, <3>1 DEF Dashes
    <3>3. Len(ops'["input"]) = 9
      BY <3>2, DashesAre
    <3>4. \A k \in 1..9 : 9 - 9 + k = k
      OBVIOUS
    <3>5. \A k \in 1..9 : ops'["input"][k] = Dashes[9 - 9 + k]
      BY <3>2, <3>4
    <3>6. Idle("refresh")'
      BY <1>4, <1>7, <3>1 DEF Idle
    <3>7. 9 <= 9 /\ ~(9 < 9) /\ ~(9 < 8) /\ ~(9 < 4) /\ ~(9 < 3) /\ ~(9 < 2) /\ ~(9 < 1)
      OBVIOUS
    <3>8. QED
      BY <3>3, <3>5, <3>6, <3>7, DashesIf, Zenon
  <2>3. QED
    BY <2>1, <2>2
<1>10. QED
  BY <1>5, <1>6, <1>8, <1>9 DEF IInv

LEMMA PinStep ==
  ASSUME IInv, NEW state \in BOOLEAN, Pin(state)
  PROVE  IInv'
<1> DEFINE colour == IF state THEN "PINK" ELSE "WHITE"
<1>1. /\ Key /\ pinned' = state /\ Start("input", SetColour(colour))
      /\ touched' = touched \cup {"pinned"}
      /\ UNCHANGED <<pad, cache, surface, copy, address, exists, aborted, troubles>>
  BY DEF Pin, padVars
<1>2. TypeOK /\ OpsOK /\ ColourSettles
  BY DEF IInv
<1>3. colour \in {"BLACK", "RED", "PINK", "WHITE"} /\ Wanted' = colour
  BY <1>1 DEF Wanted
<1> HIDE DEF colour
<1>4. SetColour(colour) \in Seq(PadSteps) /\ Colours(SetColour(colour)) = {colour}
  BY <1>3, SetColourSteps
<1>5. /\ ops' \in [Threads -> Seq(PadSteps)]
      /\ ops'["input"] = SetColour(colour) /\ ops'["refresh"] = ops["refresh"]
  BY <1>1, <1>2, <1>4, StartSteps DEF Threads
<1>6. OpsOK'
  BY <1>1, <1>2, <1>5 DEF OpsOK
<1>7. TypeOK'
  <2>1. keys' \in 0..MaxKeys
    BY <1>1, <1>2, KeyType
  <2>2. QED
    BY <1>1, <1>2, <2>1 DEF TypeOK
<1>8. ColourSettles'
  <2> SUFFICES ASSUME address \in exists, touched \cap {"raced", "edited"} = {}
               PROVE  Colours(ops'["refresh"]) = {} /\ Colours(ops'["input"]) = {Wanted'}
    BY <1>1 DEF ColourSettles
  <2>1. QED
    BY <1>2, <1>3, <1>4, <1>5 DEF ColourSettles
<1>9. ~Undisturbed'
  BY <1>1 DEF Undisturbed
<1>10. DashesSettle'
  BY <1>9, DashesIf
<1>11. QED
  BY <1>6, <1>7, <1>8, <1>10 DEF IInv

LEMMA RoundStep ==
  ASSUME IInv, Round
  PROVE  IInv'
<1> DEFINE program == IF address \in exists THEN UpdateEncoderFromMA(address) ELSE Disable(address)
<1>1. /\ Start("refresh", program)
      /\ UNCHANGED <<pad, cache, surface, copy, address, pinned, keys, exists, aborted,
                   touched, troubles>>
  BY DEF Round, padVars, stripVars
<1>2. TypeOK /\ OpsOK /\ ColourSettles /\ DashesSettle
  BY DEF IInv
<1>3. /\ program \in Seq(PadSteps)
      /\ address \in exists => Colours(program) = {}
      /\ address \notin exists => Head(program).do = "valid"
  <2>1. address \in exists => address \in Channels
    BY <1>2 DEF TypeOK
  <2>2. QED
    BY <2>1, UpdateSteps, DisableSteps
<1> HIDE DEF program
<1>4. /\ ops' \in [Threads -> Seq(PadSteps)]
      /\ ops'["refresh"] = program /\ ops'["input"] = ops["input"]
  BY <1>1, <1>2, <1>3, StartSteps DEF Threads
<1>5. OpsOK'
  BY <1>1, <1>2, <1>4 DEF OpsOK
<1>6. TypeOK'
  BY <1>1, <1>2 DEF TypeOK
<1>7. ColourSettles'
  BY <1>1, <1>2, <1>3, <1>4 DEF ColourSettles, Wanted
<1>8. DashesSettle'
  <2>1. Undisturbed => Head(ops'["refresh"]).do = "valid"
    BY <1>2, <1>3, <1>4, NoChannel DEF Undisturbed
  <2>2. Undisturbed' => Undisturbed
    BY <1>1 DEF Undisturbed
  <2>3. QED
    BY <1>1, <1>2, <1>4, <2>1, <2>2, DashesKeep
<1>9. QED
  BY <1>5, <1>6, <1>7, <1>8 DEF IInv

LEMMA EditShowStep ==
  ASSUME IInv, NEW c \in Channels, EditShow(c)
  PROVE  IInv'
<1>1. /\ troubles < MaxTroubles /\ troubles' = troubles + 1
      /\ exists' \subseteq exists \cup {c}
      /\ touched' = touched \cup {"edited"}
      /\ UNCHANGED <<pad, cache, surface, copy, ops, address, pinned, keys, aborted>>
  BY DEF EditShow, padVars, stripVars
<1>2. TypeOK /\ OpsOK /\ DashesSettle
  BY DEF IInv
<1>3. OpsOK'
  BY <1>1, <1>2 DEF OpsOK
<1>4. TypeOK'
  <2>1. troubles' \in 0..MaxTroubles
    BY <1>1, <1>2, Bounds DEF TypeOK
  <2>2. QED
    BY <1>1, <1>2, <2>1 DEF TypeOK
<1>5. ColourSettles'
  BY <1>1 DEF ColourSettles
<1>6. DashesSettle'
  <2>1. Undisturbed' => Undisturbed
    BY <1>1 DEF Undisturbed
  <2>2. Undisturbed => Idle("refresh")' \/ Head(ops'["refresh"]).do = "valid"
    BY <1>1, <1>2, DashesFacts DEF Idle
  <2>3. QED
    BY <1>1, <1>2, <2>1, <2>2, DashesKeep
<1>7. QED
  BY <1>3, <1>4, <1>5, <1>6 DEF IInv

LEMMA InitInvariant ==
  ASSUME Init
  PROVE  IInv
<1>1. ops \in [Threads -> Seq(PadSteps)] /\ ops["input"] = <<>> /\ ops["refresh"] = <<>>
  BY NoSteps DEF Init, Threads
<1>2. pad \in Pads /\ pad.colour = "WHITE" /\ address \in Channels /\ pinned = FALSE
  BY DEF Init, Pads
<1>3. OpsOK
  BY <1>1, PadIsBlank DEF Init, OpsOK
<1>4. TypeOK
  <2>1. copy["input"] \in Pads /\ copy["refresh"] \in Pads /\ cache \in Pads /\ surface \in Pads
    BY <1>2, <1>3 DEF Init, OpsOK, Threads
  <2>2. keys \in 0..MaxKeys /\ troubles \in 0..MaxTroubles
    BY Bounds DEF Init
  <2>3. /\ exists \subseteq Channels /\ aborted \in BOOLEAN
        /\ touched \subseteq {"raced", "lost", "pinned", "edited"}
    BY DEF Init
  <2>4. QED
    BY <1>2, <2>1, <2>2, <2>3, TypeParts
<1>5. ColourSettles
  BY <1>1, <1>2, NoSteps DEF ColourSettles, Wanted
<1>6. DashesSettle
  BY <1>2, InvalidAssumption DEF DashesSettle
<1>7. QED
  BY <1>3, <1>4, <1>5, <1>6 DEF IInv

\* A step that changes nothing.
LEMMA Stutter ==
  ASSUME IInv, UNCHANGED vars
  PROVE  IInv'
<1>1. UNCHANGED <<pad, cache, surface, copy, ops, address, pinned, keys, exists, aborted,
                   touched, troubles>>
  BY DEF vars, padVars, stripVars
<1>2. QED
  BY <1>1 DEF IInv, TypeOK, OpsOK, ColourSettles, DashesSettle, Wanted, Idle, Dashes, SetAddress,
              SetText, SetColour, SetScribble

-----------------------------------------------------------------------------
(***************************************************************************)
(* The inductive invariant: the colour wanted is on the pad or still in    *)
(* the program of the input thread, and a strip without a channel has on   *)
(* its pad, in the copy, in the cache and on the surface as much of the    *)
(* dashes as its program has got to.                                       *)
(***************************************************************************)
THEOREM InductiveInvariant == Spec => []IInv
<1>1. Init => IInv
  BY InitInvariant
<1>2. IInv /\ [Next]_vars => IInv'
  <2> SUFFICES ASSUME IInv, [Next]_vars
               PROVE  IInv'
    OBVIOUS
  <2>1. ASSUME NEW t \in Threads, Step(t)
        PROVE  IInv'
    BY <2>1, SetFieldStep, CopyPadStep, StorePadStep, SendScribbleStep, CheckValidStep,
       CompareAddressStep DEF Step
  <2>2. ASSUME NEW a \in Channels \cup {Invalid}, Move(a)
        PROVE  IInv'
    BY <2>2, MoveStep
  <2>3. ASSUME NEW state \in BOOLEAN, Pin(state)
        PROVE  IInv'
    BY <2>3, PinStep
  <2>4. CASE Round
    BY <2>4, RoundStep
  <2>5. ASSUME NEW c \in Channels, EditShow(c)
        PROVE  IInv'
    BY <2>5, EditShowStep
  <2>6. CASE UNCHANGED vars
    BY <2>6, Stutter
  <2>7. QED
    BY <2>1, <2>2, <2>3, <2>4, <2>5, <2>6 DEF Next
<1>3. QED
  BY <1>1, <1>2, PTL DEF Spec

(***************************************************************************)
(* No text but an address, ---- or None, and no colour but the four, ever  *)
(* gets to m_scribblePad, mScribblePads or the surface, whatever the two   *)
(* threads write at once.                                                  *)
(***************************************************************************)
THEOREM TypeCorrect == Spec => []TypeOK
<1>1. IInv => TypeOK
  BY DEF IInv
<1>2. QED
  BY <1>1, InductiveInvariant, PTL

(***************************************************************************)
(* The colour of a channel that exists tells whether it is pinned          *)
(* (channel.cpp:6), unless its executors came or went or the strip was     *)
(* moved during an update.                                                 *)
(***************************************************************************)
THEOREM ColoursCorrect == Spec => []ColourTellsState
<1>1. IInv => ColourTellsState
  <2> SUFFICES ASSUME IInv, AllIdle, address \in exists, touched \cap {"raced", "edited"} = {}
               PROVE  pad.colour = (IF pinned THEN "PINK" ELSE "WHITE")
    BY DEF ColourTellsState
  <2>1. Colours(ops["input"]) = {}
    BY NoSteps DEF AllIdle, Idle
  <2>2. pad.colour = Wanted
    BY <2>1 DEF IInv, ColourSettles
  <2>3. QED
    BY <2>2 DEF Wanted
<1>2. QED
  BY <1>1, InductiveInvariant, PTL

(***************************************************************************)
(* A strip without a channel shows ---- and nothing else once the threads  *)
(* are done, although a round may disable it meanwhile, unless it was      *)
(* moved during an update, pinned, or a packet was lost.                   *)
(***************************************************************************)
THEOREM DashesCorrect == Spec => []DashesStayBlank
<1>1. IInv => DashesStayBlank
  <2> SUFFICES ASSUME IInv, AllIdle, Undisturbed
               PROVE  surface = Blank
    BY DEF DashesStayBlank, Undisturbed
  <2>1. Len(ops["input"]) = 0
    BY DEF AllIdle, Idle
  <2>2. OpsOK /\ DashesSettle
    BY DEF IInv
  <2>3. Len(ops["input"]) < 1 => surface = Blank
    BY <2>2, DashesFacts
  <2>4. QED
    BY <2>1, <2>3
<1>2. QED
  BY <1>1, InductiveInvariant, PTL
=============================================================================
