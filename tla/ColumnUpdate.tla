---------------------------- MODULE ColumnUpdate ----------------------------
(***************************************************************************)
(* One strip and the column of executors it stands for: c, 100 + c,        *)
(* 200 + c and 300 + c, called 1xx to 4xx here.  The plugin lists the      *)
(* executors that exist and packs the first three of them and four key     *)
(* flags (luaplugin/main.lua); Channel::UpdateEncoderFromMA takes the      *)
(* packet apart by the encoder types it carries and shows the result.  The *)
(* input thread toggles the dial between 4xx and 3xx meanwhile.            *)
(*                                                                         *)
(* A round is about whatever column the strip stands for by then: the      *)
(* strip may have been moved and the show edited since the last one.  That *)
(* the answer belongs to the strip is the subject of PlaybackRefresh, the  *)
(* values of the encoders are left out, and the pin layer is not there.    *)
(***************************************************************************)
EXTENDS Integers, Sequences

CONSTANT
    \* bound: the rows in whose keys the columns differ
    KeyRows

ASSUME KeyRowsAssumption == KeyRows \subseteq 1..4

Rows == 1..4

Name == <<"1xx", "2xx", "3xx", "4xx">>

\* "unnamed" is an executor whose FADER is the empty string.
Columns ==
    {col \in [Rows -> [exec : {"absent", "unnamed", "named"}, key : BOOLEAN]] :
        \A r \in Rows : col[r].key => r \in KeyRows /\ col[r].exec # "absent"}

NoColumn == [r \in Rows |-> [exec |-> "absent", key |-> FALSE]]

VARIABLES
    column,   \* history: the column of the last round
    packet,   \* the encoder types and key flags of the answer being applied
    pc,       \* where the round is
    at,        \* the loop counter of UpdateEncoderFromMA, from 1
    pending,  \* the text the refresh thread is about to set, if any
    failure,  \* what ended the process or the plugin
    toggle,   \* m_toggle
    toggling, \* the input thread is inside Toggle
    known,    \* the rows whose encoder is active and has its name
    text,     \* m_scribbleBottomText; "empty" without a character
    lights,   \* the lights of SELECT, MUTE, SOLO and REC of the strip
    last,     \* history: what the last complete round was about
    toggled   \* history: the dial was toggled since the last round began

inputVars == <<toggle, toggling, toggled>>
roundVars == <<column, packet, pc, at, pending, failure, known, lights, last>>
columnVars == <<inputVars, roundVars, text>>

NoPacket == [types |-> <<>>, keys |-> <<>>]

\* EncoderType::None
None == 0

-----------------------------------------------------------------------------
\* Definitions marked "mutant" carry a mistake on purpose; the mutation checks
\* put each in the place of the definition after it.

\* table.insert of nil inserts nothing.
Insert(list, col, r) == IF col[r].exec = "absent" THEN list ELSE Append(list, r)

\* mutant: the table is filled from the other end
ExecutersUpward(col) ==
    Insert(Insert(Insert(Insert(<<>>, col, 1), col, 2), col, 3), col, 4)

\* GetExecutersFromChannel: the rows after a missing one move up.
Executers(col) ==
    Insert(Insert(Insert(Insert(<<>>, col, 4), col, 3), col, 2), col, 1)

\* mutant: the key flags go by row
PrepareKeysByRow(col) ==
    LET list == Executers(col)
    IN  [types |-> [k \in 1..3 |-> IF col[list[k]].exec = "unnamed" THEN None ELSE list[k]],
         keys  |-> [k \in 1..4 |-> col[k].key]]

\* PrepareEncoderData, for a list of at least three executors.
Prepare(col) ==
    LET list == Executers(col)
    IN  [types |-> [k \in 1..3 |-> IF col[list[k]].exec = "unnamed" THEN None ELSE list[k]],
         keys  |-> [k \in 1..4 |-> k <= Len(list) /\ col[list[k]].key]]

ColumnInit ==
    /\ column = NoColumn
    /\ packet = NoPacket
    /\ pc = "idle" /\ at = 1 /\ pending = "empty" /\ failure = "none"
    /\ toggle = FALSE /\ toggling = FALSE
    /\ known = {}
    /\ text = "empty"
    /\ lights = [r \in Rows |-> FALSE]
    /\ last = "none" /\ toggled = FALSE

\* HandleSendingEncoderData for one strip.  Indexing an executor that is not in
\* the list is an error, which ends the loop of the plugin.
Answer(col) ==
    /\ pc = "idle"
    /\ column' = col
    /\ \/ /\ Executers(col) = <<>>
          /\ pc' = "disable"
          /\ UNCHANGED <<packet, failure>>
       \/ /\ Len(Executers(col)) \in 1..2
          /\ pc' = "stopped"
          /\ failure' = "PluginIndexesNil"
          /\ UNCHANGED packet
       \/ /\ Len(Executers(col)) >= 3
          /\ pc' = "encoder"
          /\ packet' = Prepare(col)
          /\ UNCHANGED failure
    /\ last' = "none"
    /\ toggled' = FALSE
    /\ UNCHANGED <<at, pending, toggle, toggling, known, text, lights>>

\* Channel::Disable
Disable ==
    /\ pc = "disable"
    /\ text' = "None"
    /\ last' = "inactive"
    /\ pc' = "idle"
    /\ UNCHANGED <<inputVars, column, packet, at, pending, failure, known, lights>>

\* mutant: the loop runs past the third encoder
NextEncoderPastEnd ==
    IF at > 3 THEN pc' = "lights" /\ at' = 1 ELSE pc' = "encoder" /\ at' = at + 1

\* The loop goes on with the next encoder, or the lights follow.
NextEncoder ==
    IF at = 3 THEN pc' = "lights" /\ at' = 1 ELSE pc' = "encoder" /\ at' = at + 1

\* mutant: m_toggle is not asked before the text is set
EncoderSetsText ==
    /\ pc = "encoder"
    /\ packet.types[at] \notin {None, 1}
    /\ known' = known \cup {packet.types[at]}
    /\ IF at \in {1, 2}
       THEN pc' = "text" /\ pending' = Name[packet.types[at]] /\ UNCHANGED at
       ELSE NextEncoder /\ UNCHANGED pending
    /\ UNCHANGED <<inputVars, column, packet, failure, text, lights, last>>

\* One encoder of the packet: GetEncoderRefFromType, its name, and whether the
\* strip is to show that name (m_toggle is read here and the text set later).
Encoder ==
    /\ pc = "encoder"
    /\ packet.types[at] \notin {None, 1}
    /\ known' = known \cup {packet.types[at]}
    /\ IF at = (IF toggle THEN 2 ELSE 1)
       THEN pc' = "text" /\ pending' = Name[packet.types[at]] /\ UNCHANGED at
       ELSE NextEncoder /\ UNCHANGED pending
    /\ UNCHANGED <<inputVars, column, packet, failure, text, lights, last>>

\* GetEncoderRefFromType has no encoder for x100 and None.
EncoderMissing ==
    /\ pc = "encoder"
    /\ packet.types[at] \in {None, 1}
    /\ pc' = "aborted"
    /\ failure' = IF packet.types[at] = 1 THEN "EncoderX100" ELSE "EncoderNone"
    /\ UNCHANGED <<inputVars, column, packet, at, pending, known, text, lights, last>>

SetText ==
    /\ pc = "text"
    /\ text' = pending
    /\ pending' = "empty"
    /\ NextEncoder
    /\ UNCHANGED <<inputVars, column, packet, failure, known, lights, last>>

\* keysActive[0..3] are REC, SOLO, MUTE, SELECT.
SetLights ==
    /\ pc = "lights"
    /\ lights' = [r \in Rows |-> packet.keys[5 - r]]
    /\ packet' = NoPacket
    /\ last' = "active"
    /\ pc' = "idle"
    /\ UNCHANGED <<inputVars, column, at, pending, failure, known, text>>

\* Channel::Toggle, in the input thread: first m_toggle, then the text.  The
\* constructor made m_encoder[0] the fader's (2xx) and m_encoder[1] 3xx's.
Toggle ==
    /\ pc # "aborted" /\ ~toggling
    /\ {2, 3} \subseteq known
    /\ toggle' = ~toggle
    /\ toggling' = TRUE
    /\ toggled' = TRUE
    /\ UNCHANGED <<roundVars, text>>

ToggleText ==
    /\ pc # "aborted" /\ toggling
    /\ text' = IF toggle THEN Name[3] ELSE Name[2]
    /\ toggling' = FALSE
    /\ toggled' = TRUE
    /\ UNCHANGED <<roundVars, toggle>>

ColumnNext ==
    \/ \E col \in Columns : Answer(col)
    \/ Disable
    \/ Encoder
    \/ EncoderMissing
    \/ SetText
    \/ SetLights
    \/ Toggle
    \/ ToggleText

ColumnSpec == ColumnInit /\ [][ColumnNext]_columnVars

-----------------------------------------------------------------------------
Texts == {Name[r] : r \in 2..4} \cup {"empty", "None"}

(***************************************************************************)
(* The type invariant: the packet is there exactly while it is applied,    *)
(* and a text is pending exactly while it is about to be set.              *)
(***************************************************************************)
ColumnTypeOK ==
    /\ column \in Columns
    /\ pc \in {"idle", "disable", "encoder", "text", "lights", "stopped", "aborted"}
    /\ IF pc \in {"encoder", "text", "lights", "aborted"}
       THEN packet \in [types : [1..3 -> Rows \cup {None}], keys : [1..4 -> BOOLEAN]]
       ELSE packet = NoPacket
    /\ at \in 1..3
    /\ pending \in Texts /\ (pending # "empty" <=> pc = "text")
    /\ failure \in {"none", "PluginIndexesNil", "EncoderX100", "EncoderNone"}
    /\ (failure = "none") = (pc \notin {"stopped", "aborted"})
    /\ toggle \in BOOLEAN /\ toggling \in BOOLEAN /\ toggled \in BOOLEAN
    /\ known \in SUBSET Rows
    /\ text \in Texts
    /\ lights \in [Rows -> BOOLEAN]
    /\ last \in {"none", "active", "inactive"}

\* The three executors with encoders are there and have names.
Complete(col) == \A r \in 2..4 : col[r].exec = "named"

(***************************************************************************)
(* A round goes through exactly for a column without executors and for one *)
(* whose 2xx, 3xx and 4xx are all there and named: anything between stops  *)
(* the plugin or aborts the program.                                       *)
(***************************************************************************)
StopsOnlyWhen ==
    /\ failure # "none" => ~Complete(column) /\ Executers(column) # <<>>
    /\ last = "active" => Complete(column)

(***************************************************************************)
(* After a round that went through for a column with executors, the four   *)
(* lights tell which of REC, SOLO, MUTE and SELECT has a key in its own    *)
(* row, although the flags go by the position in a list that closes up.    *)
(***************************************************************************)
LightsTellRows ==
    pc = "idle" /\ last = "active" => \A r \in Rows : lights[r] = column[r].key

(***************************************************************************)
(* The strip names the executor its dial drives, 4xx or 3xx, at the end of *)
(* every round in which the dial was not toggled, whatever toggling the    *)
(* rounds before were disturbed by.                                        *)
(***************************************************************************)
TextNamesDial ==
    pc = "idle" /\ last = "active" /\ ~toggled => text = Name[IF toggle THEN 3 ELSE 4]
=============================================================================
