# A verification of the grandMA3 / X-Touch bridge

The program connects a Behringer X-Touch control surface to a grandMA3 lighting
desk. It talks UDP to both: raw MIDI-like packets to the surface, a small
protocol of its own (`src/include/IPC.h`) to a plugin that runs inside the desk
(`luaplugin/main.lua`). Paths below are relative to the root of the repository.

This directory holds TLA+ models of the program, the TLC runs that check them on
small instances, and TLAPS proofs of the most important results for all
instances. `PROJECT.json` lists the runs, the mutants that show each property can
fail, the source lines of every definition, the hazards and the findings.

## 1. The system

### Parts and their state

| Part | Source | State | Operations |
|---|---|---|---|
| Channel group | `XTouchController/channelgroup.cpp` | page, windows of channels, offset, sequence number, `m_blockUpdates` | page and scroll keys, pin mode, executor keys, master fader, playback refresh |
| Channel, Encoder | `XTouchController/channel.cpp` | address of the strip, pinned flag, three encoders, toggle, texts, colour | update from the surface, update from the desk, disable, pin, toggle |
| Layers | `helpers/interface.cpp`, `controller.cpp`, `channelgroup.cpp` | the stack of layers | dispatch an event, push, pop |
| Device | `XTouchLib/x-touch.cpp` | caches of lights, faders, meters, scribbles; a stack of light states | set, send all, save and restore lights, decode packets, probe, idle refresh |
| Surface server | `TCPServer/xserver.cpp` | a socket | receive, send |
| Desk server | `TCPServer/maserver.cpp` | a socket with a timeout of one second | send, read |
| Plugin | `luaplugin/main.lua` | none of its own; the show of the desk | answer a request, set an encoder, press a key |
| Delayed executer | `helpers/delayed.cpp` | executions | register, update, forced update, its thread |
| Start-up | `main.cpp`, `controller.cpp` | the global objects | construct, start the threads |

### Threads and interaction

- The **input thread** (the reader of the surface server) decodes a packet and
  runs its whole effect before it reads the next one: `HandlePacket`, the button,
  dial or fader callback, `DispatchEvent` through the layers from the top, the
  handler, and the packets and datagrams it sends.
- The **refresh thread** asks the plugin every 25 ms what the strips should show,
  waits for at most a second, and applies the answer to encoders, texts and
  lights.
- The meter thread (100 ms), the watchdog (50 ms) and the thread of the delayed
  executer run beside them. No caller registers with the executer.
- The **plugin** is a coroutine: one datagram after the other.

The input thread and the refresh thread share the addresses, the sequence
number, `m_blockUpdates`, `m_toggle`, the encoders and all caches of the device,
without a lock; the sequence number is the only protection. Assertions are
compiled in (`CMakeLists.txt` does not define `NDEBUG`), so a failed one ends the
process.

### What is hard, and what makes each part correct

- **Navigation.** Windows, pins, offset and addresses are computed in three places
  that must agree. Correct: no two strips share a channel, every channel can be
  reached, no assertion fails, the lights tell what the keys do.
- **Refresh.** Keys, losses, late answers and edits of the show interleave with a
  loop of many steps. Correct: an answer lands on the strip it was asked for, the
  loop never stops, and the surface converges to the show.
- **Columns.** Answers are compressed lists. Correct: the right encoder, key light
  and name, or a clear refusal.
- **Keys.** Press and release are separate events, and layers, addresses and the
  network change in between. Correct: nothing stays pressed, lights tell the truth.
- **Delayed executer.** A hand-made sleep protocol. Correct: what is pending is run.
- **Lights.** Two threads compare, set and send one cache without a lock, and the
  pin layer saves, clears and restores it. Correct: the surface ends up with what
  the desk and the pins say.
- **Encoders.** The desk applies a turn with its next DMX packet, so an answer can be
  from before it. Correct: nothing jumps back, and user, surface and desk agree in
  the end.
- **Scribble pads.** Both threads write the fields of a pad and pass copies on.
  Correct: address, name and colour belong to the strip as it is.
- **Start-up.** Threads run before what they use exists. Correct: only one known
  pointer is used too early, and the surface comes to show everything.

## 2. Modules

| Module | Models |
|---|---|
| `Ranking` | walks over ascending lists, as sets and ranks |
| `ChannelWindows` | the closed form of `GenerateChannelWindows` |
| `WindowLoop` | its loop, one iteration per step, compared with the closed form |
| `ChannelGroup` | navigation, pins, navigation lights: one action per key released |
| `AddressBook` | the abstract specification of what `ChannelGroup` promises about addresses |
| `PlaybackRefresh` | the refresh loop against the input thread, the network and the plugin |
| `ColumnUpdate` | one strip: from the executors of the show to what the strip shows |
| `InputLayers` | the layers, executor keys, pin mode and a system key, up to the desk |
| `DelayedExecuter` | the class of that name |
| `SurfaceLights` | the cache of the key lights, two threads that write it, the surface and its outages |
| `Encoders` | one fader, dial, meter or the master: user, `SetValue`, plugin, desk |
| `Scribbles` | the scribble pad of one strip and the two threads that write it |
| `StartUp` | the order in which the program comes up, and the surface that speaks meanwhile |
| `*Proofs` | the inductive invariants and the theorems, one module each for `ChannelWindows` (and the ranks of `Ranking`), `WindowLoop`, `ChannelGroup`, `PlaybackRefresh`, `Encoders`, `Scribbles`, `InputLayers` (at its end `DelayedExecuter` and `StartUp`) and `SurfaceLights` (at its end `ColumnUpdate`) |

In `DelayedExecuter`, `StartUp` and `ColumnUpdate` the specification, its variables
and its type invariant carry a prefix (`ExecuterInit`, `BootSpec`, `ColumnTypeOK`),
so that one module of proofs can extend two of them.

How they fit together: `ChannelGroup` is shown to implement `AddressBook`;
`PlaybackRefresh` and `InputLayers` take from their input thread only what
`AddressBook` allows (any change of addresses that keeps them distinct, with a
new sequence number, and pinned strips that stay or lose their channel).
`PlaybackRefresh` takes columns as opaque contents; `ColumnUpdate` tells which of
them a round survives, and `Contents` stands for those. `SurfaceLights`, `Encoders` and
`Scribbles` look at what a round of `PlaybackRefresh` writes, one piece of state
each, in steps as small as the accesses of the two threads. Losses and silences
of the surface are in `SurfaceLights`; the module for start-up takes a surface
that receives what is sent to it, once its address is known.

### State and actions

- **ChannelGroup.** Every variable is a field of `ChannelGroup`, `Channel` or
  `XTouch` (the comments name them); `pinMode` is the pin layer on top of the
  stack. Windows are sets, because the code lists channels in ascending order.
  `ChangePage`, `ScrollPage` (with the early returns as `...Stays`), `EnterPinMode`,
  `ExitPinMode`, `PinStrip` and `UnpinStrip` are the handlers; each contains the
  lights it refreshes and the assertions it passes. `failed` holds the assertion
  that failed.
- **PlaybackRefresh.** `address` is read and written one strip per step, since no
  lock is taken (an `Address` is eight bytes, which the 64-bit builds copy at
  once). `pc` is the place in `RefreshPlaybacksImpl`. A sent datagram is dropped if
  the buffer is full; `Lose` loses one on the way. `input`, `book` and `checkedAt`
  are history. The master fader and the key lights, which the same loop writes,
  are left out.
- **ColumnUpdate.** Row r stands for the executors r00. The plugin's list, packet
  and error; one step per encoder on the program's side, with `m_toggle` read in
  one step and the text set in the next; `Toggle` in two steps of the input thread.
- **InputLayers.** One action per event. `sentFor`, `astray` and `told` are history.
  The 8-bit channel of the messages is a remainder.
- **SurfaceLights** and **Scribbles.** A thread runs a program, a sequence of steps
  with one access to shared state each; the programs are the functions of the
  device (`SetSingleButton`, `PushLightState`, `SetScribble`, ...), put together by
  the handlers as in the code. `excused`, `raced` and `touched` are history and
  name the lights and pads that a race or a loss may have spoilt.
- **Encoders.** Time is in ticks. `value` is `m_value`, `age` the time since
  `m_lastPhysicalChange`, `level` the entry of `mFaderLevels`. An answer carries
  what is known of it (`fresh`, `late`, `lag`, `moved`) as history. `SetValue` is cut
  at its accesses to shared state: the check of the time, `m_value`, the surface, and
  `m_value` again; a dial reads `m_value` in a step of its own (`ReadDial`). The curve
  of a dial is a step of one, with the limits of the code.
- **StartUp.** `boot` is the place of the main thread in `BootSteps`. The board is
  three parts, set by three of these steps, and the meters. A server pointer that
  is not set yet is null or junk, since the constructor does not initialize it. The
  registration of the packet sender is one step, although the meter thread tests and
  calls the `std::function` without a lock.
- **DelayedExecuter.** `Update` is two steps under the data mutex, because
  `_maybe_wake` looks at `m_suspended` while the thread may be changing it.

## 3. Runs

Passing runs:

| Run | Bounds | Shows |
|---|---|---|
| `WindowLoop` | 8 channels, 3 strips | the loop is the closed form for every set of pins and every width from 0 to 3 |
| `ChannelGroup` | 3 strips, 5 channels, 2 pages | types, unique addresses, causes of aborts, every channel in one window, lights; implements `AddressBook` |
| `PlaybackRefresh` | 2 strips, 2 channels, 1 key, 1 loss, 1 edit, queues of 2, fairness | aborts only from keys in two places; undisturbed updates land right; convergence; the loop goes on |
| `ColumnUpdate` | every column, keys in rows 1 and 4 | which columns a round survives; lights and text right |
| `InputLayers` | 2 strips, 3 channels, 3 presses, 1 move, 1 loss | what can stay pressed; the light of a system key |
| `DelayedExecuter` | 2 executions, 2 values, delay 2, fairness | latest value; everything runs but for one race |
| `SurfaceLights` | 2 lights, 3 keys, 1 edit, loss or outage, fairness | surface and cache part only for named causes; lights in pin mode tell the pins; key lights converge to the desk's |
| `Encoders` | all four kinds, 2 channels, 2 values, 2 turns, 1 move, edit, loss or silence, fairness | what can jump back; surface and `m_value` agree; all sides settle |
| `Scribbles` | 2 channels and none, 2 keys, 1 edit or loss, fairness | colours, blank pads, and that pads settle |
| `StartUp` | one strip, a silence of 2 ticks, fairness | causes of crashes; no full refresh is used up in vain; the board comes up |

Why the bounds are enough: three strips and five channels give windows of width
0 to 3, full and short final windows, pins on this page and on the other one. Two
strips show every order of reads and writes around a change that is half done,
and queues of two let the loop fall a round behind and stay there. Three presses
and one move let two keys and the system key overlap pin mode, a move and a loss.
The columns are all there are.
In `SurfaceLights` three keys enter pin mode, pin or leave, and enter again, each
against an update in any of its steps; one trouble at a time suffices, because the
properties name each cause by itself. Two turns are the first from an unknown
value and a second during the answer to the first; the delays of 4 and 3 ticks are
longer than the two lags together, as 500 and 50 ms are, and let a lag be exceeded.
Two keys move a strip away and back, or move and pin it, within one update. The sequence number wraps (modulo 2) in
`ChannelGroup`; in `PlaybackRefresh` it does not: 2^32 keys between a request and
its answer are out of reach of a hand.

`CHECK_DEADLOCK FALSE` stands where an assertion ends the process or the bounds of
the environment (keys, presses, losses) are used up.

Runs that find what a comment or an assertion says violated, one per finding:

| Run | Claim | What happens |
|---|---|---|
| `PinsNotUnique` | assertion, `channelgroup.cpp:332` | scrolling to a short final window takes pinned strips off their channels; two of them are equal |
| `AnswerRace` | assertion, `channel.cpp:128` | a request built while a key is handled has the new number and old addresses |

Behaviour that contradicts a comment and has no run of its own; each is an
exception that a property of a passing run names, or follows from one action:

- With every strip pinned, scrolling to the last window leaves it undealt and the
  assertion of `channelgroup.cpp:307` fails: a cause in `AbortsOnlyWhen`.
- A column with 1xx but without one of the others aborts in "This should never
  happen" (`channel.cpp:99`): a cause in `StopsOnlyWhen`.
- "REC, SOLO, MUTE, SELECT represents keys 4xx, 3xx, 2xx, 1xx" (`channel.cpp:157`),
  but a key of a strip that shows `----` presses executor 255 and its like, because
  the message has eight bits for the channel (`channelgroup.cpp:368`). Its fader
  and dial send the same channel.
- A column of one or two executors stops the plugin: `encoder["exec"]` is read
  before the test for nil (`main.lua:357`), although the entries "may contain nil
  values" (`main.lua:419`). It is a failure `StopsOnlyWhen` admits.
- `Channel::Toggle` back shows the name of the fader's executor
  (`channel.cpp:303`, "400 text") until the next round: `TextNamesDial` speaks of
  the text a round sets.
- The key lights of a strip that moves to a channel without executors stay
  lit, because `Disable` does not write them (`channel.cpp:156`).
- An `Update` between the last pass of the thread and its wait wakes nobody
  (`delayed.cpp:41`; "used to block thread when no executions are active",
  `delayed.h:28`): `raced` in `AsleepOnlyIfRaced` and `EverythingRuns`.
- `ForcedUpdate` with the value stored already calls nothing (`delayed.cpp:79`;
  "immediately execute", `delayed.h:42`). The value of a new execution is not
  initialized, so this can be the first call: `DoneIsLatest` allows no value.
- A fader that is moved after the surface was silent for more than five seconds is
  sent back to its level of before by the refresh of the next second
  (`x-touch.cpp:536`), and stays there until an answer is used: `rewound` in
  `ShownIsValue`. "Don't need to update fader when it's physical"
  (`channel.cpp:276`) leaves `mFaderLevels` behind.
- The "jump back" (`channel.cpp:230`) that the delays are for is still there if an
  answer takes longer than the delay, or a turn comes between the check of the time
  and the use: `late` and `overtaken` in `JumpsBackOnlyIfSlow`.
- A dial adds to the value of the channel the strip showed before, until an answer
  arrives (`channel.cpp:59`).
- RED stays on a strip whose executors appear, until it is moved or pinned, and RED
  can get onto a strip that shows `----`: `edited` and `raced` in `Scribbles`.
- The probe is answered once (`x-touch.cpp:496`): not again if the answer is lost or
  the surface starts anew, and not at all if it comes before the sender is there.
  Nothing in the program depends on the answer, so it is not modelled.
- The watchdog (`controller.cpp:107`) can never find the server dead, and would abort.

### Fairness

`PlaybackRefresh` assumes weak fairness of three things: the input thread
finishes a key it has begun (it never blocks), the refresh thread keeps going
(its only blocking call has a timeout), and the plugin answers what has arrived
(its loop yields and is resumed by the desk). Keys, losses and edits are not
fair: they may stop, and are bounded. `Timeout` is enabled only while no answer
is there, which lets an answer be late by any amount. Convergence therefore
includes the case that every answer is one round late for ever.

`DelayedExecuter` assumes that its thread runs, that a call returns, and that time
passes. It does not assume that a mutex is handed over fairly: what must happen
is asked only once the calls have stopped.

`SurfaceLights` and `StartUp` assume that the threads run, that time passes, and that a
surface that is on goes on sending: it probes by itself. Nothing makes a user press
a key. `Encoders` assumes that the threads and the plugin run, that time passes and
that the desk sends DMX packets; `Scribbles` that the two threads run. In all four
the bounds on turns, keys and troubles say "in the end they stop", which is what
the liveness properties are about.

## 4. Proofs

TLAPS checks eight modules to the last leaf. The assumptions are those named in
the modules: at least one strip, fewer strips than channels, at least two pages, an
invalid address that is no channel, delays of `SetValue` that are longer than what
the desk and an answer usually take together, and bounds that are numbers.

- `ChannelWindowsProofs`: the rank is a bijection from a finite set of integers onto
  1 to its size, and `Nth` is its inverse, which other proofs cite too; the windows
  partition the free channels, all but the last
  are full, none is empty unless the width is 0 (`WindowsPartition`, `WindowSize`).
- `WindowLoopProofs`: after every iteration, what the loop has filed and collected is
  what it has passed: nothing skipped or repeated, in ascending order within a window
  and from each to the next (`LoopListsPassed`), cut where the ranks say:
  list n has the ranks n - 1 widths to n widths (`CutByWidth`), and with width 0 the
  lists are empty up to the first free channel, where the loop stops cutting
  (`CutByNothing`). At the end this is the closed form: `LoopComputesWindows`, for any
  number of channels, any pins and any width.
- `ChannelGroupProofs`: `IInv` is inductive. The invariants alone are not:
  that an address is unique after a scroll needs that the windows do not list a
  pinned channel (`PinsOffWindows`) and have the width of the row of free strips
  (`WindowsFit`), and that the windows cover the page needs that they are those
  that would be generated now (`WindowsCurrent`), which holds outside the pin
  layer and as long as no pinned strip was taken off its channel. From `IInv`
  follow `TypeCorrect`, `AddressesUnique`, `AbortCauses` and `PageCovered`;
  `LightsCorrect` adds what the saved lights say; `RefinesAddressBook` maps every
  key to `Retarget`, `TogglePin` or a stutter.
- `PlaybackRefreshProofs`: `IInv` says that a message with the current number that
  was begun between two keys carries the current addresses, wherever it is
  (request under construction, in a queue, being applied), and that the data of
  an answer are in the order of its active strips. `AbortsAreRaces` and
  `WritesAreRight` follow, for any number of strips, channels, keys and any queue.
- `EncodersProofs`: until the time is checked, an answer that misses a turn is older
  than the turn by `UpdateLag` at most (`AnswerIsYoung`), so the check, with a
  delay longer than `UpdateLag + AnswerLag`, lets no answer pass but a slow one:
  `NoJumpBack`. In the middle of a turn no time has passed since it (`MidTurn`), so
  no answer passes the check then, and between its two writes the refresh thread
  has stored what it will show (`MidUpdate`): `ShowsItsValue`.
- `InputLayersProofs`: `WillBePressed` looks ahead, over the messages on the wire. An
  executor that will be pressed has a held key that was sent for it or a release that
  went astray (`PressesAreReleased`), which each key, loss and arrival keeps.
  `AllReleased` is the case of an empty wire. `LightIsTrue` needs that the pin layer
  is on the stack exactly when its receiver is asked (`Receivers`).
- `InputLayersProofs`, the executer: a thread that has decided to sleep
  (`DecidedOnlyIfRaced`) is as far as one that sleeps, and nothing is done for an
  execution before it is registered (`NotDoneBefore`). With these
  `ExecuterLatestDone` and `ExecuterSleepsOnlyIfRaced` follow, for any executions,
  values and delay.
- `InputLayersProofs`, the start: the invariant (`BootIInv`) says of each pointer to
  the desk's server that it is set from the step that sets it on (`ServersKnown`),
  and what `BootShowsBoard` rests on: nothing of the board is set before there is a
  sender (`NothingUnsent`), so a refresh that comes before it has nothing to send, and
  a surface not heard of yet has been silent for so long that its first packet asks for
  a refresh (`SilentIfUnknown`). Then whatever was set without an address is sent by
  that refresh, and the rest directly (`CheckIdleKeepsBoard`). What the main thread
  does in which order is only in `BootSteps`, so a crash is placed by comparing
  positions in it: nothing asks the desk before the refresh thread is started, and once
  the strips have the server nobody is without one (`BootCrashesEarly`). For any limit
  of the idle time.
- `SurfaceLightsProofs`: the invariant speaks of what is left of a thread's program.
  Every write in it is followed by a read of that light and a send (`Regular`), and
  what is saved or restored has been read before (`Buffered`); this is shown for the
  pieces programs are made of and carried on by concatenation and by each step.
  Then a light that is wrong on the surface is owed by a thread (`WrongIsOwed`):
  it will still be read and sent, or has been read and will be sent. An idle thread
  owes nothing: `DivergenceExplained`. `StackOK` counts the saves and restores to
  come: `TypeCorrect`. `PinLightsOK` says that updates are blocked before the pin layer
  clears the lights, and that a light no update has raced with is as wanted or will
  be: `PinLightsCorrect`. All for any number of keys and troubles and any limit.
- `ScribblesProofs`: the invariant speaks of the rest of each program here too. As long
  as nothing raced or was edited, the refresh thread has no colour to set, and the input
  thread has the colour wanted still to set or has set it (`ColourSettles`); an idle
  pair of threads therefore shows it: `ColoursCorrect`. On a strip without a
  channel the nine steps that blank it are done one after the other, and pad, copy,
  cache and surface are blank as far as they have come, while the refresh thread can
  only find that there is no channel (`DashesSettle`): `DashesCorrect`. That
  what is left is always the tail of that program is carried by each step; for any
  channels, keys and troubles.

- `SurfaceLightsProofs`, the columns: the list of a column closes up over what is
  missing, so its first three entries are 4xx, 3xx and 2xx, or the third is 1xx
  (`ExecutersOf`); a packet in which every type has an encoder is therefore that of a
  complete column, and in one of those position and row agree (`Prepared`). The
  invariant (`ColumnIInv`) adds what the loop has passed (`FoundSoFar`) and where the
  text of the dial is by then: to be set, on its way, or set (`DialNamed`).
  `ColumnStops`, `ColumnLights` and `ColumnText` follow, for every column a show can
  have, keys in any rows and the dial toggled at any time.

The inductive invariants (`IInv`, `ExecuterIInv`, `BootIInv`, `ColumnIInv`) stand in
the modules of the proofs. They are state predicates TLC can evaluate: put beside
their model, they can be checked under the configurations of section 3.

Every safety invariant of the passing runs, and the refinement, is a theorem. Only
model-checked: everything about time (`Converges`, `RoundsGoOn`, `EverythingRuns`,
`Settles`, `KeyLightsConverge`, `PadsSettle`, `BoardComesUp`), because liveness under
fairness is out of the prover's reach; and the two claims that runs show violated,
which are not theorems.

## 5. Not modelled

Formatting of texts and numbers, the byte layout of packets, the decay of the
meters, the curve of the dials, the buffer that a round leaks on its early returns,
and `Stream`/`pack` of the plugin: no property is about them. Functions without a
caller: `HandleUpdate`, `UpdateEncoderFromXT` and `HandleButtonPress` of
`ChannelGroup`; `SetDialPan`, `SetHMSF`, `SetFrames` and `SetTime` of `XTouch`;
`RegisterFaderTouch`. `SetDead` is never reached, so neither is anything the watchdog
does. Disabling a strip sends its fader to 0 and leaves `m_value` as it is
(`channel.cpp:12`), which `Encoders` leaves out: its channel has executors. Nor does
`Encoders` have what `m_value` holds for a moment while a fader is set from an answer
(`channel.cpp:278`), since it is overwritten by the last line of `SetValue` and the
only reader is a dial. Its rounds do not read the answer of the round before:
`PlaybackRefresh` does that, and here the `lag` of an answer stands for any lateness.
The answer to the probe. The light of PIN and the jog wheel, which prints. Liveness of
the desk and the operating system is assumed where section 3 says so.

## 6. What is left

`PlaybackRefresh` over `ChannelGroup`: the composition in one module, with
`AddressBook` as the interface in the middle. So far each side is checked against
the interface.
