-------------------------- MODULE PlaybackRefresh --------------------------
(***************************************************************************)
(* Every 25 ms ChannelGroup asks the plugin of the lighting desk what the *)
(* eight strips should show and applies the answer (RefreshPlaybacks,      *)
(* XTouchController/channelgroup.cpp).  Three actors share the addresses:  *)
(*   - the input thread moves the strips to other channels, one strip      *)
(*     after the other, after it has taken a new sequence number;          *)
(*   - the refresh thread copies the sequence number and the addresses     *)
(*     into a request, waits for an answer, compares the sequence numbers  *)
(*     and then updates strip after strip;                                 *)
(*   - the plugin (luaplugin/main.lua) answers from the show.              *)
(* No lock is taken: every access to a strip's address is a step.          *)
(*                                                                         *)
(* An address is an opaque value: a channel of some page, or Invalid, the  *)
(* address of a strip that shows "----".  Fields and variables marked      *)
(* "history" exist in the specification only.                              *)
(***************************************************************************)
EXTENDS Ranking, Sequences

CONSTANTS
    NumStrips,    \* PHYSICAL_CHANNEL_COUNT
    Channels,     \* the channels of all pages
    Invalid,      \* subAddress UINT32_MAX
    Contents,     \* complete columns of executors: see ColumnUpdate for others
    NoExecutor,   \* a channel without executors; a strip that shows "None"
    Blank,        \* the lower half of a strip that shows "----"
    MaxSequence,  \* bound: keys that move the strips (far less than 2^32)
    QueueCap,     \* bound: datagrams a socket buffers before it drops them
    MaxLosses,    \* bound: datagrams lost for any other reason
    MaxEdits      \* bound: changes of the show

ASSUME NumStripsAssumption == NumStrips \in Nat \ {0}
ASSUME InvalidAssumption == Invalid \notin Channels
ASSUME ContentsAssumption == NoExecutor \notin Contents /\ Blank \notin Contents \cup {NoExecutor}
ASSUME BoundsAssumption == /\ MaxSequence \in Nat /\ QueueCap \in Nat
                           /\ MaxLosses \in Nat /\ MaxEdits \in Nat

Strips == 1..NumStrips
Addresses == Channels \cup {Invalid}
Books == [Strips -> Addresses]

\* What the program keeps of the addresses it hands out: see AddressBook.
Distinct(book) ==
    \A s, t \in Strips : s # t /\ book[s] = book[t] => book[s] = Invalid

VARIABLES
    address,   \* Channel::m_address of every strip
    sequence,  \* m_sequence
    target,    \* the addresses the key being handled leads to
    todo,      \* the next strip the input thread sets; NumStrips + 1: no key
    shown,     \* the texts, faders and meters of every strip
    pc,        \* where the refresh thread is; "aborted": ASSERT_EQ_INT failed
    at,        \* the strip it is at (the loop counters i)
    request,   \* the request it is building
    answer,    \* the answer it is applying
    checkedAt, \* history: m_sequence when it was compared with the answer's
    requests,  \* datagrams on their way to the plugin
    answers,   \* datagrams on their way back
    playback,  \* the show: what the executors of every channel hold
    losses, edits  \* bounded counters of the environment

inputVars == <<target, todo, sequence>>
networkVars == <<requests, answers, losses>>
showVars == <<playback, edits>>
refreshVars == <<pc, at, request, answer, checkedAt>>
vars == <<address, inputVars, shown, refreshVars, networkVars, showVars>>

InputIdle == todo = NumStrips + 1

Running == pc # "aborted"

NoMessage == [seq |-> 0]

\* What the plugin makes of a request: one flag per strip, then the data of
\* the strips whose flag is set, in the order of the strips.
Active(book) == {s \in Strips : book[s] \in Channels /\ playback[book[s]] # NoExecutor}

Answer(req) ==
    LET active == Active(req.book)
    IN  [seq    |-> req.seq,
         active |-> active,
         data   |-> [k \in 1..Cardinality(active) |->
                        LET a == req.book[Nth(active, k)]
                        IN  [address |-> a, content |-> playback[a]]],
         book   |-> req.book,    \* history
         input  |-> req.input]   \* history

-----------------------------------------------------------------------------
Init ==
    /\ address \in [Strips -> Channels] /\ Distinct(address)
    /\ sequence = 0
    /\ target = address
    /\ todo = NumStrips + 1
    /\ shown = [s \in Strips |-> NoExecutor]
    /\ pc = "idle"
    /\ at = 1
    /\ request = NoMessage
    /\ answer = NoMessage
    /\ checkedAt = 0
    /\ requests = <<>>
    /\ answers = <<>>
    /\ playback \in [Channels -> Contents \cup {NoExecutor}]
    /\ losses = 0
    /\ edits = 0

-----------------------------------------------------------------------------
(***************************************************************************)
(* The input thread: ChangePage and ScrollPage.                           *)
(***************************************************************************)
\* Definitions marked "mutant" carry a mistake on purpose; the mutation checks
\* put each in the place of the definition after it.

\* mutant: the sequence number is not incremented
BeginChangeUnnumbered ==
    /\ Running /\ InputIdle /\ sequence < MaxSequence
    /\ target' \in Books /\ Distinct(target')
    /\ todo' = 1
    /\ UNCHANGED <<address, sequence, shown, refreshVars, networkVars, showVars>>

\* A key was released: m_sequence is incremented first.  At the first or last
\* page or window the addresses stay what they are.
BeginChange ==
    /\ Running /\ InputIdle /\ sequence < MaxSequence
    /\ sequence' = sequence + 1
    /\ \/ UNCHANGED <<target, todo>>
       \/ /\ target' \in Books /\ Distinct(target')
          /\ todo' = 1
    /\ UNCHANGED <<address, shown, refreshVars, networkVars, showVars>>

\* m_address->Set of one strip; its callback blanks a strip that shows "----".
SetAddress ==
    /\ Running /\ ~InputIdle
    /\ address' = [address EXCEPT ![todo] = target[todo]]
    /\ shown' = IF target[todo] = Invalid THEN [shown EXCEPT ![todo] = Blank] ELSE shown
    /\ todo' = todo + 1
    /\ UNCHANGED <<sequence, target, refreshVars, networkVars, showVars>>

Input == BeginChange \/ SetAddress

-----------------------------------------------------------------------------
(***************************************************************************)
(* The refresh thread: RefreshPlaybacksImpl.                              *)
(***************************************************************************)
\* header.seq = m_sequence
BeginRequest ==
    /\ pc = "idle"
    /\ request' = [seq  |-> sequence,
                   book |-> [s \in Strips |-> Invalid],
                   input |-> IF InputIdle THEN "idle" ELSE "busy"]   \* history
    /\ pc' = "reading"
    /\ at' = 1
    /\ UNCHANGED <<address, inputVars, shown, answer, checkedAt, networkVars, showVars>>

\* CurrentChannelAddress, one strip per step.
ReadAddress ==
    /\ pc = "reading" /\ at <= NumStrips
    /\ request' = [request EXCEPT !.book[at] = address[at]]
    /\ at' = at + 1
    /\ UNCHANGED <<address, inputVars, shown, pc, answer, checkedAt, networkVars, showVars>>

\* sendto; a full socket buffer drops the datagram.
Send ==
    /\ pc = "reading" /\ at = NumStrips + 1
    /\ requests' = IF Len(requests) < QueueCap THEN Append(requests, request) ELSE requests
    /\ pc' = "waiting"
    /\ request' = NoMessage
    /\ at' = 1
    /\ UNCHANGED <<address, inputVars, shown, answer, checkedAt, answers, losses, showVars>>

\* recvfrom returns a datagram.  Nothing tells whether it answers the request
\* of this round or of an earlier one.
Receive ==
    /\ pc = "waiting" /\ answers # <<>>
    /\ answer' = Head(answers)
    /\ answers' = Tail(answers)
    /\ pc' = "received"
    /\ UNCHANGED <<address, inputVars, shown, at, request, checkedAt, requests,
                   losses, showVars>>

\* mutant: recvfrom waits without a limit
TimeoutNever == FALSE

\* recvfrom gives up after a second (SO_RCVTIMEO): the round is over.
Timeout ==
    /\ pc = "waiting" /\ answers = <<>>
    /\ pc' = "idle"
    /\ UNCHANGED <<address, inputVars, shown, at, request, answer, checkedAt,
                   networkVars, showVars>>

\* mutant: the sequence numbers are not compared
CheckNothing ==
    /\ pc = "received"
    /\ pc' = "compare"
    /\ checkedAt' = sequence
    /\ UNCHANGED <<address, inputVars, shown, at, request, answer, networkVars, showVars>>

\* if (resp_header->seq != m_sequence) { return false; }
CheckSequence ==
    /\ pc = "received"
    /\ IF answer.seq # sequence
       THEN /\ pc' = "idle"
            /\ answer' = NoMessage
            /\ UNCHANGED checkedAt
       ELSE /\ pc' = "compare"
            /\ checkedAt' = sequence   \* history
            /\ UNCHANGED answer
    /\ UNCHANGED <<address, inputVars, shown, at, request, networkVars, showVars>>

\* mutant: the loop runs past the last strip
AdvancePastEnd ==
    IF at > NumStrips
    THEN pc' = "idle" /\ at' = 1 /\ answer' = NoMessage /\ checkedAt' = 0
    ELSE pc' = "compare" /\ at' = at + 1 /\ UNCHANGED <<answer, checkedAt>>

\* mutant: the loop ends before the last strip
AdvanceStopsEarly ==
    IF at >= NumStrips - 1
    THEN pc' = "idle" /\ at' = 1 /\ answer' = NoMessage /\ checkedAt' = 0
    ELSE pc' = "compare" /\ at' = at + 1 /\ UNCHANGED <<answer, checkedAt>>

\* To the next strip, or to the end of the round.
Advance ==
    IF at = NumStrips
    THEN pc' = "idle" /\ at' = 1 /\ answer' = NoMessage /\ checkedAt' = 0
    ELSE pc' = "compare" /\ at' = at + 1 /\ UNCHANGED <<answer, checkedAt>>

Datum == answer.data[Rank(answer.active, at)]

\* UpdateEncoderFromMA reads the address of the strip and compares it with the
\* answer; Disable reads it and leaves a strip that shows "----" alone.
Compare ==
    /\ pc = "compare"
    /\ \/ /\ at \in answer.active /\ Datum.address # address[at]
          /\ pc' = "aborted"
          /\ UNCHANGED <<at, answer, checkedAt>>
       \/ /\ at \in answer.active /\ Datum.address = address[at]
          /\ pc' = "write"
          /\ UNCHANGED <<at, answer, checkedAt>>
       \/ /\ at \notin answer.active /\ address[at] # Invalid
          /\ pc' = "write"
          /\ UNCHANGED <<at, answer, checkedAt>>
       \/ /\ at \notin answer.active /\ address[at] = Invalid
          /\ Advance
    /\ UNCHANGED <<address, inputVars, shown, request, networkVars, showVars>>

\* The rest of UpdateEncoderFromMA and of Disable.
Write ==
    /\ pc = "write"
    /\ shown' = [shown EXCEPT ![at] =
                    IF at \in answer.active THEN Datum.content ELSE NoExecutor]
    /\ Advance
    /\ UNCHANGED <<address, inputVars, request, networkVars, showVars>>

Refresh ==
    \/ BeginRequest \/ ReadAddress \/ Send \/ Receive \/ Timeout
    \/ CheckSequence \/ Compare \/ Write

-----------------------------------------------------------------------------
(***************************************************************************)
(* The plugin, the network and the people at the desk.                    *)
(***************************************************************************)
\* HandleConnection for a request; a full socket buffer drops the answer.
Respond ==
    /\ Running /\ requests # <<>>
    /\ requests' = Tail(requests)
    /\ answers' = IF Len(answers) < QueueCap
                  THEN Append(answers, Answer(Head(requests))) ELSE answers
    /\ UNCHANGED <<address, inputVars, shown, refreshVars, losses, showVars>>

\* A datagram is lost.  Over the loopback interface none is reordered or doubled.
Lose ==
    /\ Running /\ losses < MaxLosses
    /\ losses' = losses + 1
    /\ \/ requests # <<>> /\ requests' = Tail(requests) /\ UNCHANGED answers
       \/ answers # <<>> /\ answers' = Tail(answers) /\ UNCHANGED requests
    /\ UNCHANGED <<address, inputVars, shown, refreshVars, showVars>>

EditShow ==
    /\ Running /\ edits < MaxEdits
    /\ edits' = edits + 1
    /\ \E c \in Channels, x \in Contents \cup {NoExecutor} :
          playback' = [playback EXCEPT ![c] = x]
    /\ UNCHANGED <<address, inputVars, shown, refreshVars, networkVars>>

Next == Input \/ Refresh \/ Respond \/ Lose \/ EditShow

Spec == Init /\ [][Next]_vars

\* Each thread keeps running, and so does the plugin's loop; keys, losses and
\* edits may stop.
Fairness ==
    /\ WF_vars(SetAddress)
    /\ WF_vars(Refresh)
    /\ WF_vars(Respond)

FairSpec == Spec /\ Fairness

-----------------------------------------------------------------------------
\* The refresh thread holds an answer.
Applying == pc \in {"received", "compare", "write", "aborted"}

Message == [seq : Nat, book : Books, input : {"idle", "busy"}]

Data == [address : Channels, content : Contents]

AnswerMessage ==
    [seq : Nat, active : SUBSET Strips,
     data : UNION {[1..n -> Data] : n \in 0..NumStrips},
     book : Books, input : {"idle", "busy"}]

(***************************************************************************)
(* The type invariant.  The input thread only ever works on a key it has  *)
(* counted, and the refresh thread holds an answer only while it uses it. *)
(***************************************************************************)
TypeOK ==
    /\ address \in Books
    /\ sequence \in 0..MaxSequence
    /\ target \in Books
    /\ todo \in 1..(NumStrips + 1)
    /\ shown \in [Strips -> Contents \cup {NoExecutor, Blank}]
    /\ pc \in {"idle", "reading", "waiting", "received", "compare", "write", "aborted"}
    /\ at \in IF pc = "reading" THEN 1..(NumStrips + 1) ELSE Strips
    /\ IF pc = "reading" THEN request \in Message ELSE request = NoMessage
    /\ IF Applying THEN answer \in AnswerMessage ELSE answer = NoMessage
    /\ checkedAt \in 0..MaxSequence
    /\ requests \in Seq(Message) /\ Len(requests) <= QueueCap
    /\ answers \in Seq(AnswerMessage) /\ Len(answers) <= QueueCap
    /\ playback \in [Channels -> Contents \cup {NoExecutor}]
    /\ losses \in 0..MaxLosses
    /\ edits \in 0..MaxEdits

\* No key was being handled when the sequence number of the answer was copied
\* into its request, and none has been handled since the sequence numbers were
\* compared.
Undisturbed == answer.input = "idle" /\ checkedAt = sequence

(***************************************************************************)
(* ASSERT_EQ_INT (channel.cpp:128) aborts the program only if a key was   *)
(* being handled while the request was built, or after the sequence       *)
(* numbers were compared; whatever is lost or late in between does not    *)
(* matter.                                                                 *)
(***************************************************************************)
AbortOnlyIfDisturbed == ~Running => ~Undisturbed

(***************************************************************************)
(* Unless a key is handled in those two places, what is written to a      *)
(* strip was asked for the channel the strip shows now, the entry of the  *)
(* compressed data is the entry of that channel, and a strip that shows   *)
(* "----" is not written to.                                              *)
(***************************************************************************)
WritesLandRight ==
    pc = "write" /\ Undisturbed =>
        /\ address[at] = answer.book[at]
        /\ at \in answer.active => Datum.address = address[at]
        /\ address[at] # Invalid

(***************************************************************************)
(* Once nobody presses a key or edits the show, every strip with a        *)
(* channel comes to show what its channel holds, and goes on showing it,  *)
(* however late the answers are and whatever was lost.                    *)
(***************************************************************************)
ShowsPlaybacks ==
    \A s \in Strips : address[s] # Invalid => shown[s] = playback[address[s]]

Converges == <>[](~Running \/ ShowsPlaybacks)

(***************************************************************************)
(* A lost request or answer never stops the refreshing: the refresh       *)
(* thread always comes back to ask again.                                 *)
(***************************************************************************)
RoundsGoOn == []<>(pc \in {"idle", "aborted"})

(***************************************************************************)
(* ASSERT_EQ_INT(address.mainAddress, encoder.page), channel.cpp:128: the *)
(* sequence number protects the update from a change of the addresses.  A *)
(* run shows it violated.                                                  *)
(***************************************************************************)
AnswerMatchesStrip == Running
=============================================================================
