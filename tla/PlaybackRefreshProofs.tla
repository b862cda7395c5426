----------------------- MODULE PlaybackRefreshProofs -----------------------
(***************************************************************************)
(* Proofs about PlaybackRefresh, for any number of strips, channels, keys, *)
(* losses and edits and for sockets of any size.  From ChannelWindowsProofs*)
(* come the facts about ranks: an answer lists the marked strips in order. *)
(***************************************************************************)
EXTENDS PlaybackRefresh, ChannelWindowsProofs

(***************************************************************************)
(* What the invariants of PlaybackRefresh rest on.  A message that carries *)
(* the current sequence number, taken while no key was being handled,      *)
(* carries the current addresses; and the data of an answer are those of   *)
(* the strips it marks, in their order.                                    *)
(***************************************************************************)
Fresh(m) == m.seq = sequence /\ m.input = "idle"

Current(m) ==
    /\ m.seq <= sequence
    /\ Fresh(m) => InputIdle /\ m.book = address

DataInOrder(m) ==
    \A s \in m.active :
        /\ Rank(m.active, s) \in DOMAIN m.data
        /\ m.data[Rank(m.active, s)].address = m.book[s]

RequestInv ==
    pc = "reading" =>
        /\ request.seq <= sequence
        /\ Fresh(request) =>
              InputIdle /\ \A s \in Strips : s < at => request.book[s] = address[s]

MessagesInv ==
    /\ \A k \in 1..Len(requests) : Current(requests[k])
    /\ \A k \in 1..Len(answers) : Current(answers[k]) /\ DataInOrder(answers[k])
    /\ Applying => Current(answer) /\ DataInOrder(answer)
    /\ pc \in {"compare", "write", "aborted"} => checkedAt = answer.seq

IInv ==
    /\ TypeOK
    /\ RequestInv
    /\ MessagesInv
    /\ WritesLandRight
    /\ AbortOnlyIfDisturbed

(***************************************************************************)
(* What a queue holds after a message has joined it.                       *)
(***************************************************************************)
LEMMA AppendEntries ==
    ASSUME NEW S, NEW q \in Seq(S), NEW e \in S, NEW k \in 1..Len(Append(q, e))
    PROVE  \/ Append(q, e)[k] = e
           \/ k \in 1..Len(q) /\ Append(q, e)[k] = q[k]
OBVIOUS

USE NumStripsAssumption, InvalidAssumption, ContentsAssumption, BoundsAssumption

(***************************************************************************)
(* The plugin's answer to a request has one entry per marked strip; the    *)
(* entry at the position of a strip among the marked ones is the entry of  *)
(* that strip.                                                             *)
(***************************************************************************)
LEMMA AnswerOfRequest ==
    ASSUME NEW req \in Message,
           playback \in [Channels -> Contents \cup {NoExecutor}]
    PROVE  /\ Answer(req) \in AnswerMessage
           /\ DataInOrder(Answer(req))
           /\ Answer(req).seq = req.seq
           /\ Answer(req).book = req.book
           /\ Answer(req).input = req.input
<1> DEFINE active == Active(req.book)
           n == Cardinality(active)
           entry(s) == [address |-> req.book[s], content |-> playback[req.book[s]]]
           data == [k \in 1..n |-> entry(Nth(active, k))]
<1>1. active \in SUBSET Strips /\ IsFiniteSet(active) /\ active \subseteq Int /\ n \in 0..NumStrips
  <2>1. active \in SUBSET Strips
    BY DEF Active
  <2>2. IsFiniteSet(Strips) /\ Cardinality(Strips) = NumStrips
    BY FS_Interval DEF Strips
  <2>3. IsFiniteSet(active) /\ n <= NumStrips
    BY <2>1, <2>2, FS_Subset
  <2>4. n \in Nat
    BY <2>3, FS_CardinalityType
  <2>5. Strips \subseteq Int
    BY DEF Strips
  <2> HIDE DEF active, n
  <2>6. active \subseteq Int
    BY <2>1, <2>5
  <2>7. n \in 0..NumStrips
    BY <2>3, <2>4
  <2>8. QED
    BY <2>1, <2>3, <2>6, <2>7
<1>2. ASSUME NEW s \in active
      PROVE  entry(s) \in Data
  <2>1. s \in Strips /\ req.book[s] \in Channels /\ playback[req.book[s]] # NoExecutor
    BY DEF Active
  <2>2. playback[req.book[s]] \in Contents
    BY <2>1
  <2>3. QED
    BY <2>1, <2>2 DEF Data
<1>3. ASSUME NEW k \in 1..n
      PROVE  Nth(active, k) \in active
  BY <1>1, NthProperties
<1>4. data \in [1..n -> Data]
  <2> HIDE DEF active, n, entry
  <2>1. QED
    BY <1>2, <1>3
<1>5. Answer(req) = [seq |-> req.seq, active |-> active, data |-> data,
                     book |-> req.book, input |-> req.input]
  BY DEF Answer
<1>6. ASSUME NEW s \in active
      PROVE  Rank(active, s) \in 1..n /\ Nth(active, Rank(active, s)) = s
  <2>1. Rank(active, s) \in 1..n
    BY <1>1, RankRange
  <2>2. /\ Nth(active, Rank(active, s)) \in active
        /\ Rank(active, Nth(active, Rank(active, s))) = Rank(active, s)
    BY <1>1, <2>1, NthProperties
  <2>3. QED
    BY <1>1, <2>1, <2>2, RankInjective
<1>7. ASSUME NEW s \in active
      PROVE  Rank(active, s) \in DOMAIN data /\ data[Rank(active, s)].address = req.book[s]
  <2>1. Rank(active, s) \in 1..n
    BY <1>6
  <2>2. data[Rank(active, s)] = entry(Nth(active, Rank(active, s)))
    BY <2>1
  <2>3. data[Rank(active, s)] = entry(s)
    BY <1>6, <2>2
  <2>4. DOMAIN data = 1..n
    OBVIOUS
  <2>5. QED
    BY <2>1, <2>3, <2>4
<1> HIDE DEF active, n, entry, data
<1>8. data \in UNION {[1..m -> Data] : m \in 0..NumStrips}
  BY <1>1, <1>4
<1>9. QED
  BY <1>1, <1>5, <1>7, <1>8 DEF AnswerMessage, Message, DataInOrder

(***************************************************************************)
(* The strip the refresh thread is at has its entry in the answer.         *)
(***************************************************************************)
LEMMA DatumOfStrip ==
    ASSUME TypeOK, Applying, DataInOrder(answer), at \in answer.active
    PROVE  Datum \in Data /\ Datum.address = answer.book[at]
<1>1. answer \in AnswerMessage
  BY DEF TypeOK
<1>2. PICK n \in 0..NumStrips : answer.data \in [1..n -> Data]
  BY <1>1 DEF AnswerMessage
<1>3. Rank(answer.active, at) \in DOMAIN answer.data
  BY DEF DataInOrder
<1>4. QED
  BY <1>2, <1>3 DEF DataInOrder, Datum

(***************************************************************************)
(* The initial states.                                                     *)
(***************************************************************************)
LEMMA InitInv == Init => IInv
<1> SUFFICES ASSUME Init PROVE IInv
  OBVIOUS
<1>1. TypeOK
  BY DEF Init, TypeOK, Books, Addresses, Strips, Applying
<1>2. RequestInv /\ MessagesInv /\ WritesLandRight /\ AbortOnlyIfDisturbed
  BY DEF Init, RequestInv, MessagesInv, WritesLandRight, AbortOnlyIfDisturbed,
         Applying, Running
<1>3. QED
  BY <1>1, <1>2 DEF IInv

(***************************************************************************)
(* Every step preserves the types.                                         *)
(***************************************************************************)
LEMMA TypeStep == IInv /\ [Next]_vars => TypeOK'
<1> SUFFICES ASSUME IInv, [Next]_vars PROVE TypeOK'
  OBVIOUS
<1> USE DEF IInv
<1>1. CASE BeginChange
  BY <1>1 DEF TypeOK, BeginChange, refreshVars, networkVars, showVars, Applying,
              InputIdle, Books, Strips
<1>2. CASE SetAddress
  <2>1. todo \in Strips
    BY <1>2 DEF TypeOK, SetAddress, InputIdle, Strips
  <2>2. address' \in Books /\ shown' \in [Strips -> Contents \cup {NoExecutor, Blank}]
    BY <1>2, <2>1 DEF TypeOK, SetAddress, Books
  <2>3. QED
    BY <1>2, <2>1, <2>2 DEF TypeOK, SetAddress, refreshVars, networkVars, showVars,
                            Applying, Strips
<1>3. CASE BeginRequest
  <2>1. request' \in Message
    BY <1>3 DEF TypeOK, BeginRequest, Message, Books, Addresses, InputIdle
  <2>2. QED
    BY <1>3, <2>1 DEF TypeOK, BeginRequest, inputVars, networkVars, showVars, Applying
<1>4. CASE ReadAddress
  <2>1. at \in Strips /\ request \in Message /\ address[at] \in Addresses
    BY <1>4 DEF TypeOK, ReadAddress, Strips, Books
  <2>2. request' \in Message
    BY <1>4, <2>1 DEF ReadAddress, Message, Books
  <2>3. QED
    BY <1>4, <2>1, <2>2 DEF TypeOK, ReadAddress, inputVars, networkVars, showVars,
                            Applying, Strips
<1>5. CASE Send
  <2>1. requests' \in Seq(Message) /\ Len(requests') <= QueueCap
    BY <1>5 DEF TypeOK, Send
  <2>2. QED
    BY <1>5, <2>1 DEF TypeOK, Send, inputVars, showVars, Applying, Strips
<1>6. CASE Receive
  <2>1. /\ answer' \in AnswerMessage
        /\ answers' \in Seq(AnswerMessage) /\ Len(answers') <= QueueCap
    BY <1>6 DEF TypeOK, Receive
  <2>2. QED
    BY <1>6, <2>1 DEF TypeOK, Receive, inputVars, showVars, Applying, Strips
<1>7. CASE Timeout
  BY <1>7 DEF TypeOK, Timeout, inputVars, networkVars, showVars, Applying
<1>8. CASE CheckSequence
  BY <1>8 DEF TypeOK, CheckSequence, inputVars, networkVars, showVars, Applying
<1>9. ASSUME Advance, pc \in {"compare", "write"}
      PROVE  /\ pc' \in {"idle", "compare"}
             /\ at' \in Strips
             /\ checkedAt' \in 0..MaxSequence
             /\ IF Applying' THEN answer' \in AnswerMessage ELSE answer' = NoMessage
  BY <1>9 DEF TypeOK, Advance, Applying, Strips
<1>10. CASE Compare
  <2>1. CASE Advance
    BY <1>9, <1>10, <2>1 DEF TypeOK, Compare, inputVars, networkVars, showVars, Applying
  <2>2. CASE (pc' = "aborted" \/ pc' = "write") /\ UNCHANGED <<at, answer, checkedAt>>
    BY <1>10, <2>2 DEF TypeOK, Compare, inputVars, networkVars, showVars, Applying
  <2>3. QED
    BY <1>10, <2>1, <2>2 DEF Compare
<1>11. CASE Write
  <2>1. Applying /\ at \in Strips
    BY <1>11 DEF TypeOK, Write, Applying
  <2>2. ASSUME at \in answer.active
        PROVE  Datum.content \in Contents
    <3>1. DataInOrder(answer)
      BY <2>1 DEF MessagesInv
    <3>2. QED
      BY <2>1, <2>2, <3>1, DatumOfStrip DEF Data
  <2>3. shown' \in [Strips -> Contents \cup {NoExecutor, Blank}]
    BY <1>11, <2>1, <2>2 DEF TypeOK, Write
  <2>4. QED
    BY <1>9, <1>11, <2>3 DEF TypeOK, Write, inputVars, networkVars, showVars, Applying
<1>12. CASE Respond
  <2>1. Head(requests) \in Message /\ requests' \in Seq(Message) /\ Len(requests') <= QueueCap
    BY <1>12 DEF TypeOK, Respond
  <2>2. Answer(Head(requests)) \in AnswerMessage
    BY <2>1, AnswerOfRequest DEF TypeOK
  <2>3. answers' \in Seq(AnswerMessage) /\ Len(answers') <= QueueCap
    BY <1>12, <2>2 DEF TypeOK, Respond
  <2>4. QED
    BY <1>12, <2>1, <2>3 DEF TypeOK, Respond, inputVars, refreshVars, showVars, Applying
<1>13. CASE Lose
  <2>1. /\ requests' \in Seq(Message) /\ Len(requests') <= QueueCap
        /\ answers' \in Seq(AnswerMessage) /\ Len(answers') <= QueueCap
    <3>1. CASE requests # <<>> /\ requests' = Tail(requests) /\ UNCHANGED answers
      BY <3>1 DEF TypeOK
    <3>2. CASE answers # <<>> /\ answers' = Tail(answers) /\ UNCHANGED requests
      BY <3>2 DEF TypeOK
    <3>3. QED
      BY <1>13, <3>1, <3>2 DEF Lose
  <2>2. QED
    BY <1>13, <2>1 DEF TypeOK, Lose, inputVars, refreshVars, showVars, Applying
<1>14. CASE EditShow
  BY <1>14 DEF TypeOK, EditShow, inputVars, refreshVars, networkVars, Applying
<1>15. CASE UNCHANGED vars
  BY <1>15 DEF TypeOK, vars, inputVars, refreshVars, networkVars, showVars, Applying
<1>16. QED
  BY <1>1, <1>2, <1>3, <1>4, <1>5, <1>6, <1>7, <1>8, <1>10, <1>11, <1>12, <1>13,
     <1>14, <1>15 DEF Next, Input, Refresh

(***************************************************************************)
(* Only the two steps of the input thread touch what a message is          *)
(* compared with, so a message that was current stays so: a new key makes  *)
(* it old, and while a key is being handled none is fresh.                 *)
(***************************************************************************)
Kept(m) ==
    /\ m.seq <= sequence'
    /\ m.seq = sequence' /\ m.input = "idle" =>
          todo' = NumStrips + 1 /\ m.book = address'

LEMMA InputSteps ==
    [Next]_vars => BeginChange \/ SetAddress \/ UNCHANGED <<address, sequence, todo>>
BY DEF Next, Input, Refresh, vars, inputVars, BeginRequest, ReadAddress, Send,
       Receive, Timeout, CheckSequence, Compare, Write, Respond, Lose, EditShow

LEMMA CurrentKept ==
    ASSUME TypeOK, [Next]_vars, NEW m, m.seq \in Nat, Current(m)
    PROVE  Kept(m)
<1>1. CASE BeginChange
  BY <1>1 DEF TypeOK, BeginChange, Current, Kept
<1>2. CASE SetAddress
  BY <1>2 DEF SetAddress, Current, Fresh, Kept
<1>3. CASE UNCHANGED <<address, sequence, todo>>
  BY <1>3 DEF Current, Fresh, InputIdle, Kept
<1>4. QED
  BY <1>1, <1>2, <1>3, InputSteps

(***************************************************************************)
(* Every step preserves what is known of the request being built.  If it   *)
(* is fresh, no key is being handled, and the addresses cannot move.       *)
(***************************************************************************)
LEMMA RequestStep == IInv /\ [Next]_vars => RequestInv'
<1> SUFFICES ASSUME IInv, [Next]_vars, pc' = "reading"
             PROVE  /\ request'.seq <= sequence'
                    /\ request'.seq = sequence' /\ request'.input = "idle" =>
                          /\ todo' = NumStrips + 1
                          /\ \A s \in Strips : s < at' => request'.book[s] = address'[s]
  BY DEF RequestInv, Fresh, InputIdle
<1> USE DEF IInv
<1>1. CASE BeginRequest
  BY <1>1 DEF TypeOK, BeginRequest, InputIdle, inputVars, Strips
<1>2. CASE ReadAddress
  <2>1. request \in Message /\ at \in Strips
    BY <1>2 DEF TypeOK, ReadAddress, Strips
  <2>2. /\ request'.seq = request.seq /\ request'.input = request.input
        /\ request'.book = [request.book EXCEPT ![at] = address[at]]
    BY <1>2, <2>1 DEF ReadAddress, Message
  <2>3. ASSUME request.seq = sequence, request.input = "idle", NEW s \in Strips, s < at + 1
        PROVE  request'.book[s] = address[s]
    <3>1. request.book \in [Strips -> Addresses]
      BY <2>1 DEF Message, Books
    <3>2. CASE s = at
      BY <2>2, <3>1, <3>2
    <3>3. CASE s # at
      <4>1. s < at
        BY <2>1, <2>3, <3>3 DEF Strips
      <4>2. request.book[s] = address[s]
        BY <1>2, <2>3, <4>1 DEF RequestInv, Fresh, ReadAddress
      <4>3. QED
        BY <2>2, <3>1, <3>3, <4>2
    <3>4. QED
      BY <3>2, <3>3
  <2>4. QED
    BY <1>2, <2>2, <2>3 DEF RequestInv, Fresh, InputIdle, ReadAddress, inputVars
<1>3. CASE UNCHANGED <<pc, request, at>>
  <2>1. pc = "reading" /\ request \in Message
    BY <1>3 DEF TypeOK
  <2>2. request.seq \in Nat
    BY <2>1 DEF Message
  <2>3. CASE BeginChange
    BY <1>3, <2>1, <2>2, <2>3 DEF TypeOK, BeginChange, RequestInv
  <2>4. CASE SetAddress
    BY <1>3, <2>1, <2>4 DEF SetAddress, RequestInv, Fresh
  <2>5. CASE UNCHANGED <<address, sequence, todo>>
    BY <1>3, <2>1, <2>5 DEF RequestInv, Fresh, InputIdle
  <2>6. QED
    BY <2>3, <2>4, <2>5, InputSteps
<1>4. BeginRequest \/ ReadAddress \/ UNCHANGED <<pc, request, at>>
  BY DEF Next, Input, Refresh, vars, refreshVars, BeginChange, SetAddress, Send, Receive, Timeout,
         CheckSequence, Compare, Write, Advance, Respond, Lose, EditShow
<1>5. QED
  BY <1>1, <1>2, <1>3, <1>4

(***************************************************************************)
(* Every step preserves what is known of the messages on their way and of  *)
(* the answer being applied.                                               *)
(***************************************************************************)
LEMMA MessagesStep == IInv /\ [Next]_vars => MessagesInv'
<1> SUFFICES ASSUME IInv, [Next]_vars PROVE MessagesInv'
  OBVIOUS
<1> USE DEF IInv
<1>1. ASSUME NEW m \in Message \cup AnswerMessage, Current(m)
      PROVE  Kept(m)
  BY <1>1, CurrentKept DEF Message, AnswerMessage
<1>2. ASSUME Send
      PROVE  Current(request) /\ request \in Message
  <2>1. request \in Message /\ request.book \in Books
    BY <1>2 DEF TypeOK, Send, Message
  <2>2. request.seq <= sequence
    BY <1>2 DEF RequestInv, Send
  <2>3. ASSUME Fresh(request)
        PROVE  InputIdle /\ request.book = address
    <3>1. InputIdle /\ \A s \in Strips : request.book[s] = address[s]
      BY <1>2, <2>3 DEF RequestInv, Send, Strips
    <3>2. address \in Books
      BY DEF TypeOK
    <3>3. QED
      BY <2>1, <3>1, <3>2 DEF Books
  <2>4. QED
    BY <2>1, <2>2, <2>3 DEF Current
<1>3. ASSUME NEW k \in 1..Len(requests')
      PROVE  Kept(requests'[k])
  <2>1. CASE Send
    <3>1. \/ requests'[k] = request
          \/ k \in 1..Len(requests) /\ requests'[k] = requests[k]
      <4>1. request \in Message /\ requests \in Seq(Message)
        BY <1>2, <2>1 DEF TypeOK
      <4>2. CASE requests' = Append(requests, request)
        BY <1>3, <4>1, <4>2, AppendEntries
      <4>3. CASE requests' = requests
        BY <1>3, <4>3
      <4>4. QED
        BY <2>1, <4>2, <4>3 DEF Send
    <3>2. CASE requests'[k] = request
      BY <1>1, <1>2, <2>1, <3>2
    <3>3. CASE k \in 1..Len(requests) /\ requests'[k] = requests[k]
      <4>1. requests[k] \in Message /\ Current(requests[k])
        BY <3>3 DEF TypeOK, MessagesInv
      <4>2. QED
        BY <1>1, <3>3, <4>1
    <3>4. QED
      BY <3>1, <3>2, <3>3
  <2>2. CASE requests # <<>> /\ requests' = Tail(requests)
    <3>1. k + 1 \in 1..Len(requests) /\ requests'[k] = requests[k + 1]
      BY <1>3, <2>2 DEF TypeOK
    <3>2. requests[k + 1] \in Message /\ Current(requests[k + 1])
      BY <3>1 DEF TypeOK, MessagesInv
    <3>3. QED
      BY <1>1, <3>1, <3>2
  <2>3. CASE UNCHANGED requests
    <3>1. requests[k] \in Message /\ Current(requests[k])
      BY <1>3, <2>3 DEF TypeOK, MessagesInv
    <3>2. QED
      BY <1>1, <2>3, <3>1
  <2>4. Send \/ (requests # <<>> /\ requests' = Tail(requests)) \/ UNCHANGED requests
    BY DEF Next, Input, Refresh, vars, networkVars, BeginChange, SetAddress, BeginRequest,
           ReadAddress, Receive, Timeout, CheckSequence, Compare, Write, Respond, Lose, EditShow
  <2>5. QED
    BY <2>1, <2>2, <2>3, <2>4
<1>4. ASSUME Respond
      PROVE  LET a == Answer(Head(requests))
             IN  a \in AnswerMessage /\ Current(a) /\ DataInOrder(a)
  <2>1. Head(requests) \in Message /\ Current(Head(requests))
    <3>1. 1 \in 1..Len(requests) /\ Head(requests) = requests[1]
      BY <1>4 DEF TypeOK, Respond
    <3>2. QED
      BY <3>1 DEF TypeOK, MessagesInv
  <2>2. playback \in [Channels -> Contents \cup {NoExecutor}]
    BY DEF TypeOK
  <2>3. QED
    BY <2>1, <2>2, AnswerOfRequest DEF Current, Fresh
<1>5. ASSUME NEW k \in 1..Len(answers')
      PROVE  Kept(answers'[k]) /\ DataInOrder(answers'[k])
  <2>1. CASE Respond
    <3>1. \/ answers'[k] = Answer(Head(requests))
          \/ k \in 1..Len(answers) /\ answers'[k] = answers[k]
      <4>1. Answer(Head(requests)) \in AnswerMessage /\ answers \in Seq(AnswerMessage)
        BY <1>4, <2>1 DEF TypeOK
      <4>2. CASE answers' = Append(answers, Answer(Head(requests)))
        BY <1>5, <4>1, <4>2, AppendEntries
      <4>3. CASE answers' = answers
        BY <1>5, <4>3
      <4>4. QED
        BY <2>1, <4>2, <4>3 DEF Respond
    <3>2. CASE answers'[k] = Answer(Head(requests))
      BY <1>1, <1>4, <2>1, <3>2
    <3>3. CASE k \in 1..Len(answers) /\ answers'[k] = answers[k]
      <4>1. answers[k] \in AnswerMessage /\ Current(answers[k]) /\ DataInOrder(answers[k])
        BY <3>3 DEF TypeOK, MessagesInv
      <4>2. QED
        BY <1>1, <3>3, <4>1
    <3>4. QED
      BY <3>1, <3>2, <3>3
  <2>2. CASE answers # <<>> /\ answers' = Tail(answers)
    <3>1. k + 1 \in 1..Len(answers) /\ answers'[k] = answers[k + 1]
      BY <1>5, <2>2 DEF TypeOK
    <3>2. /\ answers[k + 1] \in AnswerMessage
          /\ Current(answers[k + 1]) /\ DataInOrder(answers[k + 1])
      BY <3>1 DEF TypeOK, MessagesInv
    <3>3. QED
      BY <1>1, <3>1, <3>2
  <2>3. CASE UNCHANGED answers
    <3>1. /\ answers[k] \in AnswerMessage
          /\ Current(answers[k]) /\ DataInOrder(answers[k])
      BY <1>5, <2>3 DEF TypeOK, MessagesInv
    <3>2. QED
      BY <1>1, <2>3, <3>1
  <2>4. Respond \/ (answers # <<>> /\ answers' = Tail(answers)) \/ UNCHANGED answers
    BY DEF Next, Input, Refresh, vars, networkVars, BeginChange, SetAddress, BeginRequest,
           ReadAddress, Send, Receive, Timeout, CheckSequence, Compare, Write, Lose, EditShow
  <2>5. QED
    BY <2>1, <2>2, <2>3, <2>4
<1>6. ASSUME Applying'
      PROVE  Kept(answer') /\ DataInOrder(answer')
  <2>1. CASE Receive
    <3>1. 1 \in 1..Len(answers) /\ answer' = answers[1]
      BY <2>1 DEF TypeOK, Receive
    <3>2. answers[1] \in AnswerMessage /\ Current(answers[1]) /\ DataInOrder(answers[1])
      BY <3>1 DEF TypeOK, MessagesInv
    <3>3. QED
      BY <1>1, <3>1, <3>2
  <2>2. CASE Applying /\ UNCHANGED answer
    <3>1. answer \in AnswerMessage /\ Current(answer) /\ DataInOrder(answer)
      BY <2>2 DEF TypeOK, MessagesInv
    <3>2. QED
      BY <1>1, <2>2, <3>1
  <2>3. Receive \/ (Applying /\ UNCHANGED answer)
    BY <1>6 DEF Applying, Next, Input, Refresh, vars, refreshVars, BeginChange, SetAddress,
                BeginRequest, ReadAddress, Send, Timeout, CheckSequence, Compare,
                Write, Advance, Respond, Lose, EditShow
  <2>4. QED
    BY <2>1, <2>2, <2>3
<1>7. ASSUME pc' \in {"compare", "write", "aborted"}
      PROVE  checkedAt' = answer'.seq
  <2>1. CASE CheckSequence
    BY <1>7, <2>1 DEF CheckSequence
  <2>2. CASE pc \in {"compare", "write", "aborted"} /\ UNCHANGED <<answer, checkedAt>>
    BY <2>2 DEF MessagesInv
  <2>3. CheckSequence \/ (pc \in {"compare", "write", "aborted"} /\ UNCHANGED <<answer, checkedAt>>)
    BY <1>7 DEF Next, Input, Refresh, vars, refreshVars, BeginChange, SetAddress,
                BeginRequest, ReadAddress, Send, Receive, Timeout, Compare, Write,
                Advance, Respond, Lose, EditShow
  <2>4. QED
    BY <2>1, <2>2, <2>3
<1>8. QED
  BY <1>3, <1>5, <1>6, <1>7 DEF MessagesInv, Kept, Current, Fresh, InputIdle

(***************************************************************************)
(* An undisturbed answer asks for the addresses the strips have now.       *)
(***************************************************************************)
LEMMA UndisturbedIsCurrent ==
    ASSUME IInv, pc \in {"compare", "write", "aborted"}, Undisturbed
    PROVE  InputIdle /\ answer.book = address
BY DEF IInv, MessagesInv, Current, Fresh, Undisturbed, Applying

(***************************************************************************)
(* Only Compare lets the refresh thread write, and only when the strip     *)
(* agrees with the answer; a key handled in between disturbs the answer.   *)
(***************************************************************************)
LEMMA WriteStep == IInv /\ [Next]_vars => WritesLandRight'
<1> SUFFICES ASSUME IInv, [Next]_vars, pc' = "write", Undisturbed'
             PROVE  /\ address'[at'] = answer'.book[at']
                    /\ at' \in answer'.active => Datum'.address = address'[at']
                    /\ address'[at'] # Invalid
  BY DEF WritesLandRight
<1> USE DEF IInv
<1>1. CASE Compare
  <2>1. /\ UNCHANGED <<at, answer, checkedAt, address, sequence>>
        /\ pc = "compare" /\ Applying /\ DataInOrder(answer)
    BY <1>1 DEF Compare, Advance, Applying, inputVars, MessagesInv
  <2>2. Undisturbed
    BY <2>1 DEF Undisturbed
  <2>3. answer.book = address
    BY <2>1, <2>2, UndisturbedIsCurrent
  <2>4. at \in answer.active => Datum \in Data /\ Datum.address = address[at]
    BY <2>1, <2>3, DatumOfStrip
  <2>5. at \in answer.active => address[at] # Invalid
    BY <2>4 DEF Data
  <2>6. at \notin answer.active => address[at] # Invalid
    BY <1>1 DEF Compare, Advance
  <2>7. Datum' = Datum
    BY <2>1 DEF Datum
  <2>8. QED
    BY <2>1, <2>3, <2>4, <2>5, <2>6, <2>7
<1>2. CASE UNCHANGED <<pc, at, answer, checkedAt>>
  <2>1. pc = "write" /\ Applying /\ answer \in AnswerMessage
    BY <1>2 DEF Applying, TypeOK
  <2>2. answer.seq = sequence' /\ answer.input = "idle"
    BY <1>2, <2>1 DEF Undisturbed, MessagesInv
  <2>3. Current(answer) /\ answer.seq \in Nat
    BY <2>1 DEF MessagesInv, AnswerMessage
  <2>4. CASE BeginChange
    BY <2>2, <2>3, <2>4 DEF BeginChange, Current, TypeOK
  <2>5. CASE SetAddress
    BY <2>2, <2>3, <2>5 DEF SetAddress, Current, Fresh
  <2>6. CASE UNCHANGED <<address, sequence, todo>>
    <3>1. Undisturbed
      BY <1>2, <2>6 DEF Undisturbed
    <3>2. Datum' = Datum
      BY <1>2 DEF Datum
    <3>3. QED
      BY <1>2, <2>1, <2>6, <3>1, <3>2 DEF WritesLandRight
  <2>7. QED
    BY <2>4, <2>5, <2>6, InputSteps
<1>3. Compare \/ UNCHANGED <<pc, at, answer, checkedAt>>
  BY DEF Next, Input, Refresh, vars, refreshVars, BeginChange, SetAddress, BeginRequest, ReadAddress,
         Send, Receive, Timeout, CheckSequence, Write, Advance, Respond, Lose, EditShow
<1>4. QED
  BY <1>1, <1>2, <1>3

LEMMA AbortStep == IInv /\ [Next]_vars => AbortOnlyIfDisturbed'
<1> SUFFICES ASSUME IInv, [Next]_vars, pc' = "aborted"
             PROVE  ~Undisturbed'
  BY DEF AbortOnlyIfDisturbed, Running
<1> USE DEF IInv
<1>1. CASE Compare
  <2>1. /\ UNCHANGED <<answer, checkedAt, sequence>>
        /\ pc = "compare" /\ Applying /\ DataInOrder(answer)
        /\ at \in answer.active /\ Datum.address # address[at]
    BY <1>1 DEF Compare, Advance, Applying, inputVars, MessagesInv
  <2>2. answer.book # address
    BY <2>1, DatumOfStrip
  <2>3. ~Undisturbed
    BY <2>1, <2>2, UndisturbedIsCurrent
  <2>4. QED
    BY <2>1, <2>3 DEF Undisturbed
<1>2. CASE UNCHANGED vars
  BY <1>2 DEF AbortOnlyIfDisturbed, Running, Undisturbed, vars, inputVars, refreshVars
<1>3. Compare \/ UNCHANGED vars
  BY Zenon DEF Next, Running, Input, Refresh, vars, refreshVars, BeginChange, SetAddress,
         BeginRequest, ReadAddress, Send, Receive, Timeout, CheckSequence, Write, Advance,
         Respond, Lose, EditShow
<1>4. QED
  BY <1>1, <1>2, <1>3

(***************************************************************************)
(* The inductive invariant: what carries the current sequence number and   *)
(* was asked while no key was being handled, carries the current           *)
(* addresses.                                                              *)
(***************************************************************************)
THEOREM InductiveInvariant == Spec => []IInv
<1>1. IInv /\ [Next]_vars => IInv'
  BY TypeStep, RequestStep, MessagesStep, WriteStep, AbortStep DEF IInv
<1>2. QED
  BY <1>1, InitInv, PTL DEF Spec

(***************************************************************************)
(* Types: in particular no loop counter leaves its range and the plugin's  *)
(* answers fit the requests.                                               *)
(***************************************************************************)
THEOREM TypeCorrect == Spec => []TypeOK
BY InductiveInvariant, PTL DEF IInv

(***************************************************************************)
(* The assertion on the address (channel.cpp:128) fails only if a key was  *)
(* handled at the wrong moment, however many requests and answers are on   *)
(* their way, late or lost.                                                *)
(***************************************************************************)
THEOREM AbortsAreRaces == Spec => []AbortOnlyIfDisturbed
BY InductiveInvariant, PTL DEF IInv

(***************************************************************************)
(* Otherwise every write puts on a strip what was asked for its channel.   *)
(***************************************************************************)
THEOREM WritesAreRight == Spec => []WritesLandRight
BY InductiveInvariant, PTL DEF IInv
=============================================================================
