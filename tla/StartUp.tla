------------------------------- MODULE StartUp -------------------------------
(***************************************************************************)
(* How the program comes up (main.cpp, controller.cpp and the constructors *)
(* of XTouch, InterfaceManager, TCPServer and ChannelGroup).  The main     *)
(* thread creates the objects and starts the others on the way: the meter  *)
(* thread, the reader of the surface's packets, the refresh thread.  These *)
(* run while the rest of the objects do not exist yet.                     *)
(*                                                                         *)
(* The surface sends packets at any time, and a packet is handled at once. *)
(* What is sent to the surface is known by the part of the board it is     *)
(* for.  Setting a part and sending it is one step: losses, and two        *)
(* threads at one light, are in SurfaceLights.  The answer to the probe is *)
(* left out: nothing in the program depends on it.  One strip is modelled. *)
(***************************************************************************)
EXTENDS Integers, Sequences, SequencesExt

CONSTANT Limit   \* bound: stands for the 5 seconds of CheckIdle

ASSUME LimitAssumption == Limit \in Nat

\* Definitions marked "mutant" carry a mistake on purpose; the mutation checks
\* put each in the place of the definition after it.

\* mutant: the packet sender is registered before there is a server
BootStepsSenderFirst ==
    <<"XTouch", "InterfaceManager", "sender", "reader", "xt_server", "controller layer",
      "scribbles", "page", "refresh thread", "group layer", "lights", "group server",
      "strip server">>

\* mutant: the packet sender is registered after the strip is made
BootStepsSenderLate ==
    <<"XTouch", "InterfaceManager", "reader", "xt_server", "controller layer", "scribbles",
      "sender", "page", "refresh thread", "group layer", "lights", "group server",
      "strip server">>

\* What main and the constructors do, in the order of its effects.
BootSteps ==
    <<"XTouch", "InterfaceManager", "reader", "xt_server", "sender", "controller layer",
      "scribbles", "page", "refresh thread", "group layer", "lights", "group server",
      "strip server">>

BoardSteps == {"scribbles", "page", "lights"}
ServerSteps == {"group server", "strip server"}
Parts == BoardSteps \cup {"meters"}

VARIABLES
    boot,           \* the step the main thread takes next
    server,         \* m_maServer of the group and the strip, not initialized
    cache,          \* the parts of the board that have been set
    surface,        \* the parts that the surface shows
    client,         \* the server knows the address of the surface
    since,          \* time(NULL) - mLastIdle, up to Limit + 1
    refreshNeeded,  \* mFullRefreshNeeded
    pinMode,        \* the pin layer is on the stack: m_blockUpdates
    saved,          \* mButtonLEDStack: the lights were on
    asking,         \* the refresh thread has slept and asks the plugin
    crashed,        \* an assertion failed or a wild pointer was used
    early           \* history: PIN came before the lights were set

idleVars == <<client, since, refreshNeeded>>
pinModeVars == <<pinMode, saved>>
bootVars == <<boot, server, cache, surface, idleVars, pinModeVars, asking, crashed, early>>

Done(step) == \E i \in 1..(boot - 1) : BootSteps[i] = step
Booted == boot = Len(BootSteps) + 1

-----------------------------------------------------------------------------
\* mLastIdle is 0, so the first packet comes long after it.
BootInit ==
    /\ boot = 1
    /\ server \in [ServerSteps -> {"null", "junk"}]
    /\ cache = {} /\ surface = {}
    /\ client = FALSE /\ since = Limit + 1 /\ refreshNeeded = FALSE
    /\ pinMode = FALSE /\ saved = FALSE
    /\ asking = FALSE /\ crashed = FALSE /\ early = FALSE

\* mutant: the address of the surface is taken to be known
ReachesAnybody == Done("sender")

\* SendPacket sends nothing before there is a sender, and sendto fails before a
\* packet has told the address of the surface.
Reaches == Done("sender") /\ client

Shown(parts) == IF Reaches THEN surface \cup parts ELSE surface

(***************************************************************************)
(* The main thread.                                                        *)
(***************************************************************************)
Advance(step) ==
    /\ ~crashed /\ ~Booted /\ BootSteps[boot] = step
    /\ boot' = boot + 1

\* Objects, threads, callbacks and layers.
Construct ==
    /\ \E step \in ToSet(BootSteps) \ (BoardSteps \cup ServerSteps) : Advance(step)
    /\ UNCHANGED <<server, cache, surface, idleVars, pinModeVars, asking, crashed, early>>

\* The pad of a strip; the page; the two lights, which SetLight leaves alone in
\* pin mode.
SetBoard(part) ==
    /\ Advance(part)
    /\ LET set == IF part = "lights" /\ pinMode THEN {} ELSE {part}
       IN  cache' = cache \cup set /\ surface' = Shown(set)
    /\ UNCHANGED <<server, idleVars, pinModeVars, asking, crashed, early>>

\* The group first, then the strips.
RegisterMaSend(who) ==
    /\ Advance(who)
    /\ server' = [server EXCEPT ![who] = "set"]
    /\ UNCHANGED <<cache, surface, idleVars, pinModeVars, asking, crashed, early>>

-----------------------------------------------------------------------------
(***************************************************************************)
(* The meter thread and the refresh thread.                                *)
(***************************************************************************)
\* The sender asserts that there is a server.
SendAllMeters ==
    /\ ~crashed /\ Done("XTouch")
    /\ crashed' = (Done("sender") /\ ~Done("xt_server"))
    /\ surface' = Shown({"meters"})
    /\ UNCHANGED <<boot, server, cache, idleVars, pinModeVars, asking, early>>

\* The thread sleeps for 2.5 seconds, in which the rest may or may not be done;
\* a round does nothing if m_maServer is null.
RefreshPlaybacks ==
    /\ ~crashed /\ Done("refresh thread") /\ ~asking
    /\ asking' = (server["group server"] = "set")
    /\ crashed' = (server["group server"] = "junk")
    /\ UNCHANGED <<boot, server, cache, surface, idleVars, pinModeVars, early>>

-----------------------------------------------------------------------------
(***************************************************************************)
(* The reader: HandlePacket is CheckIdle and one of the handlers.          *)
(***************************************************************************)
Ready == ~crashed /\ Done("reader")

\* mutant: a surface that was never heard of is not sent everything
CheckIdleKnown ==
    /\ client' = TRUE
    /\ since' = 0
    /\ refreshNeeded' = IF since = 0 THEN refreshNeeded ELSE since > Limit /\ client

\* The surface of the packet is known from here on.
CheckIdle ==
    /\ client' = TRUE
    /\ since' = 0
    /\ refreshNeeded' = IF since = 0 THEN refreshNeeded ELSE since > Limit

\* What the surface shows after CheckIdle: SendAllBoard leaves the meters out.
ShownAfterIdle ==
    IF since > 0 /\ refreshNeeded /\ Done("sender")
    THEN cache \cup (surface \ BoardSteps) ELSE surface

\* A probe, or an event that no layer has a use for.
OtherPacket ==
    /\ Ready /\ CheckIdle
    /\ surface' = ShownAfterIdle
    /\ UNCHANGED <<boot, server, cache, pinModeVars, asking, crashed, early>>

\* HandleFaderButton uses m_maServer as it is; UpdateEncoderFromXT unless it is
\* null.  Before the group's layer is there, the events end in the base layer.
StripEvent(who) ==
    /\ Ready /\ CheckIdle
    /\ Done("group layer") /\ ~pinMode
    /\ crashed' = (server[who] \in (IF who = "group server" THEN {"null", "junk"} ELSE {"junk"}))
    /\ surface' = ShownAfterIdle
    /\ UNCHANGED <<boot, server, cache, pinModeVars, asking, early>>

\* PIN: the lights are saved and cleared, and restored the next time.
PinKey ==
    /\ Ready /\ CheckIdle
    /\ Done("group layer")
    /\ pinMode' = ~pinMode
    /\ saved' = (~pinMode /\ "lights" \in cache)
    /\ cache' = (cache \ {"lights"}) \cup (IF saved THEN {"lights"} ELSE {})
    /\ surface' = (ShownAfterIdle \ {"lights"}) \cup (cache' \cap {"lights"})
    /\ early' = (early \/ ~Done("lights"))
    /\ UNCHANGED <<boot, server, asking, crashed>>

TimePasses ==
    /\ ~crashed /\ since <= Limit
    /\ since' = since + 1
    /\ UNCHANGED <<boot, server, cache, surface, client, refreshNeeded, pinModeVars,
                   asking, crashed, early>>

Main == Construct \/ (\E p \in BoardSteps : SetBoard(p)) \/ (\E w \in ServerSteps : RegisterMaSend(w))

BootNext ==
    \/ Main
    \/ SendAllMeters
    \/ RefreshPlaybacks
    \/ OtherPacket
    \/ \E who \in ServerSteps : StripEvent(who)
    \/ PinKey
    \/ TimePasses

BootSpec == BootInit /\ [][BootNext]_bootVars

\* The threads run, time passes, and the surface keeps sending.
BootFairness ==
    /\ WF_bootVars(Main) /\ WF_bootVars(SendAllMeters) /\ WF_bootVars(RefreshPlaybacks)
    /\ WF_bootVars(OtherPacket) /\ WF_bootVars(TimePasses)

BootFairSpec == BootSpec /\ BootFairness

-----------------------------------------------------------------------------
(***************************************************************************)
(* The type invariant.  The surface shows only what was sent to an address *)
(* it had told, and only what the cache has.                               *)
(***************************************************************************)
BootTypeOK ==
    /\ boot \in 1..(Len(BootSteps) + 1)
    /\ server \in [ServerSteps -> {"null", "junk", "set"}]
    /\ cache \subseteq BoardSteps /\ surface \subseteq cache \cup {"meters"}
    /\ surface # {} => client
    /\ client \in BOOLEAN /\ refreshNeeded \in BOOLEAN /\ since \in 0..(Limit + 1)
    /\ pinMode \in BOOLEAN /\ saved \in BOOLEAN
    /\ asking \in BOOLEAN /\ crashed \in BOOLEAN /\ early \in BOOLEAN

(***************************************************************************)
(* Four threads run while the main thread still makes what they use.  Only *)
(* the pointer to the desk's server can be used before it is there, by a   *)
(* key or fader, or by a refresh thread that sleeps for less than the rest *)
(* takes; once the strips have it nothing can crash.                       *)
(***************************************************************************)
CrashesOnlyEarly ==
    crashed => Done("refresh thread") /\ ~Done("strip server")

(***************************************************************************)
(* The full refresh that a new or silent surface gets (CheckIdle) is never *)
(* used up in vain.  Once the surface has spoken and no refresh is due it  *)
(* shows the board exactly as the program has set it, although the reader  *)
(* runs before there is a sender, the board is set in steps of another     *)
(* thread, and PIN takes the lights away and brings them back in between.  *)
(***************************************************************************)
SurfaceShowsBoard ==
    client /\ ~refreshNeeded => surface \ {"meters"} = cache

(***************************************************************************)
(* "Allow board to fully engage before sending requests"                   *)
(* (channelgroup.cpp:384): whenever the surface first speaks, it comes to  *)
(* show everything that the start has set, most of it before the program   *)
(* knew where to send it, and the plugin is asked.  Only a PIN before the  *)
(* lights are set costs the lights.                                        *)
(***************************************************************************)
BoardComesUp ==
    <>[](\/ crashed
         \/ /\ Booted /\ asking
            /\ Parts \ {"lights"} \subseteq surface
            /\ "lights" \in surface \/ pinMode \/ early)
=============================================================================
