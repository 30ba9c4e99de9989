# TLA+ models of the Ika display and input path

Ika runs Android in a crosvm guest (a fork of Cuttlefish) and shows its
displays in native windows (a fork of scrcpy). The code of its own is the path
of a frame from the guest to a window, the resizing of a display with its
window, and gamepads made of keys, with the buffers, sockets, threads and timers
they share. This directory models these parts, checks them with TLC on small
instances and proves their central invariants with TLAPS.

## 1. The system

```
guest GPU --flush--> crosvm --Wayland--> compositor (Surfaces) in ika_stream
                        ^                     |  OnFrame / OnDmabufFrame
                        |  wl_buffer release  v
                        +---------------  RawFrameStreamer, one DisplayStream
                                          per display
                                              |  Unix socket, shared memory
                                              v
                              console: cf_source thread -> frame buffer -> UI
                                                                           |
      keys, gamepads, window size --> UI thread --> controller's queue     |
                                                    and resize slot  <-----+
                                                         |  control socket
                                                         v
      device: scrcpy server: UhidManager; PrimaryDisplayResizer, DisplayMonitor,
              app start  --DISPLAY_READY--> console
```

| Part | State it keeps | Operations |
|---|---|---|
| `ika_stream.cpp` frames | `DisplayStream`: latest frame, generation, `ClientShm` (slots in shared memory, busy ones, generation, pause) | `OnFrame`, `OnDmabufFrame`, `StreamToClient` and the sends, `ReadClientMessages`, `EndClientLocked` |
| `ika_stream.cpp` connections | `stopped_`, `client_fds_`, `client_threads_`, `client_fd` of each display, `frame_cv_` | `ServerLoop`, `ClientLoop`, the destructor |
| `wayland_surfaces.cpp`, `wayland_surface.cpp` | frame ids, `held_`, `released_frames_` | `Commit`, `HoldDmabufBuffer`, `ReleaseDmabufFrame`, `ReleasePendingFrames`, destruction of surfaces and buffers |
| crosvm patches | `in_use` of each import, `current_import_id` | scanout flush, wl_buffer release |
| console `cf_source.c` | the connection, the mapped slots, references of frames to slots, buffers and the socket | `run_cf_source`, `sc_cf_process_msg`, `sc_cf_free_slot`, `sc_cf_free_dma_buf`, stop, window hidden |
| console `screen.c`, `frame_buffer.c` | pending frame, frame shown, frame kept while paused | push, `sc_screen_update_frame`, `sc_screen_set_paused` |
| console `flex.c` | window size, size requested, hold of the old picture, fades, one SDL timer | `sc_flex_on_window_size`, `_on_display_ready`, `_on_frame`, `_on_timer` |
| `controller.c` | the bounded message queue, the resize slot | `sc_controller_push_msg`, `sc_controller_resize_display`, `run_controller` |
| device `PrimaryDisplayResizer`, `DisplayMonitor`, `Controller.java` | size the client waits for, size seen last, message kept for the app start | `resize`, `checkReady`, `startApp` |
| device `NewDisplayCapture`, `DisplayResizeDebouncer`, `DisplayPropertiesTracker`, `SurfaceEncoder` (a new virtual display, as a video) | request to be debounced, sizes asked for, reset of the capture | `requestResize`, `debounce`, `triggerResize`, `onChanged`, restart of the encoder |
| console `keyboard_gamepad.c` | keys held, in order; where pads point; ramps, the mouse's speed, the tick timer | keys, buttons, wheel, motion, tick, release of everything |
| `gamepad_focus.c`, `hid_gamepad.c`, `gamepad_uhid.c`, device `UhidManager` | gamepads known, slots and their reports, the device's gamepads | added, removed, focus, reports |

How the parts talk. The streamer and the console exchange IKAS (new slots),
IKAN (frame in a slot), IKAF (raw frame inline), IKAD (dma-buf), IKAT (timestamps)
one way, and IKAH (hello), IKAR (slot released), IKAB (dma-buf released), IKAP
(window hidden) the other way. The Wayland thread and the client threads share
the `DisplayStream`s under `mutex_`, wake each other by an eventfd per client and
by `frame_cv_`; the client threads call back into `Surfaces` to release buffers,
which queues them for the Wayland thread. The console's UI thread handles events
of the window, of timers (whose threads only push events) and of the receiver; it
hands messages to the control thread, which the device's control thread reads.

What is hard. `OnFrame` copies pixels into a reserved slot without the lock, while
the client thread may remake the slots, end the session or free slots. Slots are
shown by the console without a copy, so that a slot written too early is a torn
window. Releases arrive late: after a remap, after a reconnection. The hold of a
dma-buf frame has three possible owners, who may drop it at the same time, and its
release can come before it is recorded. Clients wait for a display on a shared
condition variable; the destructor must get every thread to end wherever it is.
The console closes its socket while frames on screen still have duplicates of it.
A resized window waits for a confirmation that crosses four threads, each of which
may coalesce, keep or drop what it gets, and its single timer is replaced, skipped
and forgotten. A key's release goes elsewhere if the focus, the pause or the
pointer changed meanwhile; handlers send the device only what they changed.

What makes each part correct:

- frames in slots: nobody writes a slot the console may read; no slot is lost; a
  notice is read with the right slots; the window shows whole frames, in order, and
  catches up;
- dma-bufs: each hold ends exactly once, whoever ends it; each buffer comes back to
  crosvm; crosvm does not draw into the buffer on screen;
- connections: one client per display, the display it asked for; waiters get in; the
  destructor ends and shuts down only descriptors that are its own;
- flexible displays: the display gets the window's size, the hold ends, and a window
  that is not held shows its own size, which the display has too;
- gamepads: nothing stays pressed that was let go of; the slot and the device show what
  the held keys say; the device has the gamepads of the focused window, each once.

`PROJECT.json` lists the hazards at their lines, each with the property that would
catch it, and every component, the ones left out too.

## 2. Modules

| Module | Models | State and actions |
|---|---|---|
| `RawFrames` | frames as pixels of one display: `OnFrame`, slots, the client thread, the console | The variables are `DisplayStream` and `ClientShm` (`latest`, `frameGen`, `shm`), the shared memories ever made (`mem`, so that pointers and generations are different things), `OnFrame` between its critical sections (`prod`), the client thread (`th`), the socket, the console (`cl`). One action per critical section or message. |
| `FrameChannel` | what `RawFrames` promises | the display's latest frame, the frame shown, whether the window can be seen; the window shows later and later frames and catches up |
| `DmabufHolds` | dma-buf frames of one display: crosvm, `Surfaces`, the client thread, the console | `held`, `relQ` and `hold` are `held_`, `released_frames_` and the gap between the answer of `OnDmabufFrame` and `HoldDmabufBuffer`; `given`, `released` and `lost` are history. |
| `ClientSessions` | all connections: the server thread, the client threads, the destructor, the consoles' frame sources | `frame_cv_` has its sleepers (pc `asleep`), so a wakeup can be lost; `fdOpen` are the descriptors open in the server; `kept` the duplicates of the socket that frames keep. |
| `DisplayLock` | what `ClientSessions` promises | a lock per display, its holder and those who wait; a free display somebody waits for is granted |
| `FlexDisplay` | a display that follows its window | `flex` is `struct sc_flex` with deadlines as Booleans; `timer` the SDL timers and queued events, `slot` and `ctl` the controller's; `resizer`, `monitor`, `start` the device's three threads; `video` the debouncer, the tracker, the capture's reset and the sizes of the video under way; `disp` and `forced` Android's display. `seen`, `repeated` and `overtaken` are history. |
| `KeyboardGamepad` | `keyboard_gamepad.c` as operators | no variables: an operator takes the state of the gamepad and returns the next one, with the events sent |
| `Gamepads` | the keyboard gamepad and real ones, composed with the focus, the HID slots, the control queue and the device | `down` are the user's fingers, `kg` the keyboard gamepad, `pads` and `slots` those of the focus and of the HID gamepads, `queue` the controller's, `device` what Android sees. |
| `RawFramesProofs`, `RawSlotsProofs`, `RawShownProofs` | theorems about `RawFrames`, each extending the one before: types and notices, slots, what the window shows | |
| `DmabufHoldsProofs`, `ClientSessionsProofs`, `FlexDisplayProofs` | theorems about these components and the refinement of `DisplayLock` | |
| `KeyboardGamepadProofs`, `GamepadsProofs` | what the operators of `KeyboardGamepad` do, and the theorems about `Gamepads`, which rest on it | |
| `MCRawFrames`, `MCDmabufHolds`, `MCClientSessions`, `MCFlexDisplay`, `MCGamepads` | instances for TLC | |

`RawFrames`, `DmabufHolds` and `ClientSessions` look at the same client thread from three
sides. In `RawFrames` a dma-buf frame is only a frame that is not in a slot; in
`DmabufHolds` a raw frame only ends a hold; in both the connections are one after the
other, which `OneClientPerDisplay` of `ClientSessions` justifies: a display's next client
starts after `EndClientLocked` of the one before. `FlexDisplay` and `Gamepads` share the
controller with each other, but not the part of it they use (the resize slot, the
queue), so they are apart.

Abstractions.

- A frame is its number and its payload size; pixels are the number of the frame they
  come from, or `Torn` while they are being written. Header fields, formats, timestamps'
  values, logging and the recycling of buffers are left out.
- A socket is a queue; a send to a socket that stays full may fail at any time
  (`SendFails`), as may the connection. The client's messages are read one at a time
  where the code drains the socket; the thread goes on only once nothing is left, as in
  the code. In the notices of `RawFrames` the fields `map` and `pix` are not on the real
  wire: no action depends on them but through the slots, the properties compare them
  with what the console finds.
- Time is abstract. In `FlexDisplay` a deadline has passed or has not, and passes at any
  moment after it is set; a timer may fire early. In `Gamepads` a tick may find any
  amount of ramp done.
- Android's calls are reliable in `FlexDisplay`: a forced size, or the resize of a virtual
  display, takes effect and an event comes. `checkReady` confirms and calls the listener
  in one step. A size is one number, since the code treats width and height alike: the
  display of a video has the multiple of the alignment below the window's size, or the
  limit (`Size.constrain`), and a frame matches a request up to
  `SC_FLEX_MAX_ALIGNMENT`. Of the virtual display these are left out: rotation, changes of
  its size nobody asked for, the expiry of the tracker's entries after some seconds, and
  the encoder's errors with the capabilities and limits it then falls back to.
- In `Gamepads` the control socket is collapsed into the queue (both are first in, first
  out, one reader each), a trigger is a button, and the axes of real gamepads are left
  out, since their events take the way of the buttons. Deflections are small numbers.

Definitions whose name is the other form of a definition next to it (`NextSlot` for
`FirstFree`, `TimerKept` for `TimerTaken`, ...) are the mutants of `PROJECT.json`:
replacing the definition by that form breaks the property named there.

## 3. Runs

Run in this directory: `tlc -workers 4 -config X.cfg M`. `CHECK_DEADLOCK FALSE`
everywhere: frames, connections and window changes are bounded, and a system
nobody uses rests.

| Run | Instance | Shows |
|---|---|---|
| `raw_frames` | 2 slots, sizes 1 and 2, 3 frames, 2 connections, 4 pauses, late hellos (4.3 million states) | `SlotsStable`, `SlotsAccounted`, `NoticeMeansItsSlots`, `ShownIntact` (what the window shows is the frame it was told about, whole), `NeverBackwards` |
| `raw_live` | 3 slots, 1 size, 4 frames, 1 connection, 1 window change, 2 pauses | `LatestShown`, and `ImplementsFrameChannel`, both under fairness |
| `dmabuf_buffers` | 2 buffers, 1 hold, 2 frames, 1 raw frame, 2 connections, 1 window change, timestamps (500,000 states) | `BuffersComeBack`, `NoHoldOutlivesRelease`, `ReleasedOnce`, `HoldsAccounted`, and `HoldsEnd` under fairness |
| `dmabuf_stale` | | violation, section 5 |
| `sessions_safety` | 3 consoles, 2 of one display, 2 connections, late hellos, errors in the source, consoles of a display symmetric | `OneClientPerDisplay`, `RegisteredFdsOpen`, `ServedItsDisplay` |
| `sessions_live` | two consoles of one display, 3 connections | `WaitersGetIn`, `StopEnds`, `ImplementsDisplayLock` under fairness, and `ReleaseFailsOnceDisconnected` |
| `sessions_abandoned` | errors in the source | violation, section 5 |
| `flex_follows` | sizes 3, 4 and 6, the 3 kinds of window, 2 resizes, 2 frames to settle; videos of even sizes up to 5 (670,000 states) | `ShownAtWindowSize`, `NoWorkForgotten`; `DisplayFollows` and `HoldEnds` under fairness |
| `flex_hold` | 2 sizes, raw windows, 3 resizes | violation, section 5 |
| `flex_back` | 2 sizes, raw windows, 2 resizes | violation, section 5 |
| `gamepads_safety` | room for 2 gamepads, queue of 2, 2 keys down at once, full deflection 3 and walk 1; setups: buttons, stick and mouse, stick and wheel, real gamepads with and without the keyboard's (800,000 states) | `NothingStuck`, `SlotShowsKeys`, `NeverTwoWays`, `SlotsFollowFocus`, `DeviceFollows`, `WorkIsTimed` |
| `gamepads_wheel` | walk on the wheel | violation, section 5 |

Why the bounds are enough. Two slots (the code has 6) are the least with which one
slot is shown while another is written, so every conflict between two users of slots
happens, and running out of slots is frequent. Liveness needs a third: one shown, one
pending and one to write; with two the wait is for a newer frame only the free slot
could bring. Two sizes and three frames give a remap while a frame is copied, one is
latest and one is shown. Two connections give releases and frames that outlive a
session. One hold for two buffers gives overflows with the second frame, a buffer that is
attached again and one destroyed while it is held; the safety properties of that run are
proved for all bounds. In `sessions_safety` two of three
consoles contend for a display, or two displays are served at once; three connections
of two consoles, in `sessions_live`, give a client, a waiter and a reconnection. Waiters
of two displays at once need four connections, which is beyond TLC here; the theorems
of section 6 have no such bound. Two resizes give a resize during a hold, a request
that replaces one not taken, and two confirmations on their way; the display starts at
any size, so that the window may ask for the size it has. Of the three sizes, the video
has one as it is (4), one aligned (3, to 2) and one above the limit (6, to 4), so that two
windows' sizes may give the same display. `MaxEvents` only caps counts:
more queued timer events are as many. A queue of 2 is full after one handler, room for
2 gamepads is short by one.

What the properties leave out.

- `ShownIntact` leaves out windows that were ever sent frames as a client whose hello
  came late (`HellosInTime`). Such a client gets slots it does not release; the thread
  reuses them in turn, and `DetachLatestFrameFromShmLocked` (`ika_stream.cpp:450`), which
  copies the latest frame for the next client, may copy pixels that are not that
  frame's.
- `HoldsAccounted` and `HoldsEnd` leave out the frames in `lost`: when `SendTimestamps`
  fails (`ika_stream.cpp:858`), the hold of the frame in hand is neither released there
  nor by `EndClientLocked`, since the latest frame is marked taken. It lasts until holds
  overflow or the surface goes.
- `ReleaseFailsOnceDisconnected` holds without errors on the console's own side; with
  them it is the finding `sessions_abandoned`.
- `HoldEnds`, and what `ShownAtWindowSize` says of the display, leave out a window that
  comes back to a size it, or the display, had before (`repeated`). Confirmations name only
  a size, so that one of the first request is then taken for the second. For the hold,
  the rest is the finding `flex_hold`.
- `DisplayFollows` leaves out only the behaviors whose last request found the display at
  its size while another one was about to take effect (`overtaken`): that is the finding
  `flex_back`. Windows that come back in any other way are in, and videos are too.
- `WorkIsTimed` is checked with walk on a key; on the wheel, see `gamepads_wheel`.
- `DeviceFollows` leaves out slots whose last report was dropped by a full queue, which
  the code accepts for reports.

## 4. Fairness

Weak fairness of each thread: a thread that is not waiting is scheduled, and a poll or
condition variable that was signalled returns. The client thread of `RawFrames` and
`DmabufHolds` is one process, its fairness is of the disjunction of its steps. A send
to a client that left fails at last (`conn = "left"`); a send timeout, a departure, a
new frame, a window change, a pause, an error and the destructor are never assumed to
happen. `UpdateFrame` is fair: the UI thread handles its `SC_EVENT_NEW_FRAME`. The
console's source is fair to connect again and say hello, as `run_cf_source` does in
its loop. In `FlexDisplay` time passes, timers fire, queued events are handled, and
Android applies a forced size; the device's control thread, the monitor's thread, the
debouncer's and the encoder's run when they have something to do (each is one process,
its fairness is of the disjunction of its steps); the window need not be resized and the guest need not
draw a frame, nor need an app be missing.

`FrameChannel` and `DisplayLock` have a fairness condition of their own (a visible window
catches up, a free display is granted); the refinement runs show it follows from that
of the threads.

## 5. Disagreements between code and comments

- `dmabuf_stale`: `in_use` is one flag; the release of an earlier commit of a buffer
  that was not held can arrive after the buffer was flipped to again and held.
- `sessions_abandoned`: after an error of its own the source closes its descriptor, but
  duplicates kept by frames on screen keep the connection open. The release sent
  by such a frame does not fail, and the server keeps streaming to the old connection
  while the console's next one waits for the display.
- `flex_hold`: a window taken to another size and back before the request is due has
  nothing to ask for, so no `DISPLAY_READY` ends the hold that the first resize began;
  the window stays blurred until the next resize.
- `flex_back`: a display at size B is asked for A and then for B again. If A is forced but
  has not taken effect when `PrimaryDisplayResizer.resize` handles the second request, it
  finds the display at B, confirms B and forces nothing. Then A takes effect, and the
  display keeps it while the window has size B, until the next resize. `flex.h:24-25` says
  that the display follows the window's size so that it is shown 1:1.
- `gamepads_wheel`: the tick that releases a wheel's notch looks at ramping sticks before
  it does. If the notch holds walk, the release starts a ramp while the ticks are being
  stopped, and the stick stays short of its target.

Also seen while modelling, without a run: a confirmation of an earlier request of the
same size ends a hold before the display has that size again (`repeated` above); the two
exceptions of `ShownIntact` and
`HoldsAccounted` above; `OnFrame` drops the frame it copied when the slots were remade
meanwhile (as its comment says), so a guest that draws nothing more stays one frame
behind; the release of a real gamepad's button during a pause is dropped.

## 6. Proofs

All constants are arbitrary, with the named assumptions of the modules (at least one
slot; sizes are positive; bounds are naturals; display 0 exists; each console shows a
display; a window's size is positive and not below the largest alignment; each key is a key, a button or a notch of the wheel and has
one control; the sticks are among left and right; `NoPad` is neither a gamepad nor a
report). Check with `tlapm RawFramesProofs.tla` and so on.

`RawFramesProofs`: `TypeCorrect` (`TypeOK`) and `NoticesMeanTheirSlots`
(`NoticeMeansItsSlots`) for any number of slots, sizes, frames and connections. Neither
is inductive. A notice at the head of the wire is right because the notices before it
and the announcement it follows are in order, so the invariant `IInv` has

- `WireOrder`: announcements ascend, a notice comes after the
  announcement of its memory and before the next one;
- `ServerAnnounced`: the memory the server uses is the one announced last (between
  `SendShmInit` and the critical section after it, the one just made), so that a new
  notice keeps the order;
- `ServerMapped`, `ThreadMapped`, `LinkState`, `ConsoleMapped`: which memories the server,
  `OnFrame`, the client thread and the console refer to, that they exist, and that
  nothing is left on the wire of a connection that is gone. `TypeOK` itself needs them:
  a pixel read from a memory that does not exist has no type.

`FirstFreeIsFree`, the search for a free slot, needs that a nonempty set of
distances has a least one, from the well-foundedness of the naturals.

`RawSlotsProofs`: `NoSlotIsLost` (`SlotsAccounted`) and `SlotsAreStable` (`SlotsStable`). The
argument is ownership. `Has(k, i, m, s)` says that a holder of kind `k` (the copy of
`OnFrame`, the latest frame before it is sent, the client thread, the notice at place
`i` of the wire, one of the console's three frames, the `IKAR` at place `i`) has slot `s`
of memory `m`. The invariant `SlotInv` adds to `IInv`

- `Exclusive`: no slot of any memory, current or not, has two holders. This is what is
  hard: a step hands a slot from one holder to the next, and two of them at once would
  free it twice;
- `Covered` and `Accounted`: the busy slots of the current memory are the ones with a
  holder, the second only while the console lives. Together they are `SlotsAccounted`;
- `Generations`: the generations of a connection tell its memories apart, so that a late
  `IKAR` of an earlier memory, or of an earlier connection, frees nothing of this one;
- `Unused`, `LatestInSlot`: a memory about to be announced is free, and a latest frame in
  a slot that was sent is not sent again.

`SlotsStable` then follows with `PixKept`: a slot that a notice, a frame of the console
or the latest frame has is not written, since who writes is another holder of it.

`RawShownProofs`: `WindowShowsWholeFrames` (`ShownIntact`), `WindowNeverGoesBack`
(`NeverBackwards`, an action property) and `StreamIsFrameChannel`. The invariant `WayInv`
adds to `SlotInv`

- `WholeInTime`: at every stage of its way the pixels that go with a frame's number are
  those of that frame, as long as hellos came in time;
- `LatestKept`: the latest frame, once sent in a slot, is the last one on its way, and the
  console has not released it. `DetachLatestFrameFromShmLocked` may copy it from its slot
  at any time, long after it was handed over; without this it might copy another frame.
  It is the part that fails for late hellos;
- `Numbered` and `InOrder`: no stage has a later frame than the stage before it, and a
  frame kept through a pause is not older than the one on screen;
- `ThreadFrame`, `ForeignKnown`, `ResumeKept`, `HelloRead`: what the thread carries, which
  memories were made for late hellos, that nothing is kept while not paused, and that
  without late hellos there are none of those.

`StreamIsFrameChannel` is `Spec => Channel!Spec` for `~LateHello`: every step is a step of
`FrameChannel` or changes nothing it sees. It is the safety part of
`ImplementsFrameChannel`. The hypothesis is a switch of the model that `raw_live` sets the
same way; `ShownIntact` and `NeverBackwards` are proved without it.

The proofs of `WayInv` found that two arms of the `CASE` in `TakeLatestFrame` overlapped
(a latest frame in a slot, when new slots are needed too). TLC took the first of them,
which is the code's order; the arms now exclude each other.

`DmabufHoldsProofs`: `HoldTypes` (`TypeOK`), `HoldsAreAccounted` (`HoldsAccounted`),
`ReleasesEndHolds` (`NoHoldOutlivesRelease`), `InUseBuffersComeBack` (`BuffersComeBack`) and
`ReleasesAreSingle` (`ReleasedOnce`, an action property), for any buffers, limit of holds,
frames and connections. The invariant `HoldInv` adds `HoldersApart` (the latest frame, the
client thread and the client never have the same hold, which is why none is released
twice), `HoldsOfFrames` (a hold is of a frame answered `kHeld`, one per frame, and the
one in the gap before `HoldDmabufBuffer` is not recorded yet), `EarlyReleaseWaits` (a
release that overtakes its hold stays in `released_frames_` until the hold is there),
`HandSends` and `FrameRoom`. The loops that erase from `held_` and `released_frames_` are
the recursive function `Only`; what it leaves is the lemma `OnlyElements`, by the least
position at which it would be wrong, since the induction theorems of the library cannot
be used here.

`ClientSessionsProofs`: `SessionsTypeCorrect`, `DisplaysHaveOneClient`
(`OneClientPerDisplay`) and `DestructorShutsDownOpenFds` (`RegisteredFdsOpen`) for any
consoles, displays and connections. The invariant `SInv` adds that the client registered
for a display is the thread that streams it (`DisplayOwned`), that connections in the
backlog are distinct, without thread and not registered (`BacklogFresh`), that the one
being accepted is open and not registered before its critical section (`Accepted`), and
that a thread has left `client_fds_` before it closes (`ThreadsRegistered`). Most steps
are quiet for the displays (`QuietSteps`), and those of a client thread share one
argument for the descriptors (`FdThreadStep`). `DroppedConnectionsAreClosed`
(`ReleaseFailsOnceDisconnected`) assumes `~SourceErrors`, as the run does: with errors of
the console's own it is false (`sessions_abandoned`). It needs that a connection once
closed stays so (`ClosedStays`) and that a source without a connection is off the one its
frames are from (`SourceIdle`).

The same module has `LockRefined`, `Spec => Lock!Spec`: the threads implement the safety
part of `DisplayLock`, for any consoles, displays and connections. Under `SInv`, the hello
or its timeout is `Ask` (`DisplayOwned` shows that the client holds nothing),
`WaitForDisplay` is `Grant`, `GiveUp` or a stutter, `EndStream` is `Release`, and every
other step leaves the same clients waiting, since a wakeup only moves a sleeper to
where it looks again. `ClientsGetTheirDisplay` (`ServedItsDisplay`) needs one more
invariant, `HelloBinds`: who waits with its hello read waits for the display it named.

`FlexDisplayProofs`: `FlexTypeCorrect`, `UnheldWindowShowsItsSize` (`ShownAtWindowSize`) and
`TimerIsNeverForgotten` (`NoWorkForgotten`) for any sizes, kinds of window, alignment, limit
and bounds. The invariant `FlexInv` adds `FiredIsQueued` (a timer that has fired has its
event still queued, which is what lets `sc_flex_schedule` skip setting one) and
`NoFadeInHold` (a hold ends a fade, so that its end leaves none without a timer).

That the display has the size of an unheld window takes the whole way of a request:
the slot, the socket, `resize()`, the forced size, the display, and back the kept and the
sent confirmations. `WayInv` says of a raw window that came back to no earlier size

- `SizesAreOld`: everything on the way is of a size known before the one that is yet to be
  asked for, so that a new request differs from all of it;
- `NewestIsAsked`: the last request is the newest on the way and the only one of its size,
  and once nothing is left on the way (`Arrived`) the display has it;
- `AskedAlready`: only the first request may be for the size the display has, and then
  nothing else is under way that could replace it. This is what fails in `flex_back`;
- `ToldTheTruth`: if the window is not held, has been told that the display is ready, or
  such a message is on its way for the last request, then the request has arrived. It is
  where the check of `sc_flex_on_display_ready` (`flex.c:558`) is needed;
- `NothingAsked`: before the first request nothing is on the way.

`KeyboardGamepadProofs` has lemmas, no theorem of its own: what each operator of
`KeyboardGamepad` does to a gamepad, for every set of keys and controls. Two notions
carry them.

- `KInv(g)`: no key is held twice, every pad points where its held keys push it
  (`PadPoints`), and each stick is `StickOk`: what was sent of it last is its position, and
  one that neither ramps nor rests is at its target.
- `Shows(r, q, t)`: the events of `q`, taken one by one, turn the report `r` into `t`, and
  no report between them points the D-pad two ways. A handler sends only what it
  changed, so its correctness is a statement about this history, not about its last
  event. `Follows(r, g, h)` says it of a handler that takes the gamepad from `g` to `h`.

The handlers loop over keys, sticks and gamepads. The loops over both sticks and both
axes are unrolled in the model; the others are recursive functions. `Iterates` shows that a
loop has its values, and `PrefixInduction` what holds after each round; both come from the
well-foundedness of the naturals, since the library's induction theorems take an operator.
With them `ReleaseKeysDoes` and `TickDoes` say what a tick, or a lost focus, does with any
number of keys held.

`GamepadsProofs`: `TypeCorrect` (`TypeOK`), `ReleasesAreNotLost` (`NothingStuck`),
`ReportsAddUp` (`SlotShowsKeys`), `OneWayOnly` (`NeverTwoWays`), `FocusDecides`
(`SlotsFollowFocus`) and `DeviceCatchesUp` (`DeviceFollows`), for any keys, controls,
gamepads, slots, deflections and queue limit, from `Invariance`: `Spec => []Inv`. `Inv` is

- `WindowInv` and `PadsInv`: the types of the window's state; every known gamepad is known
  once, the keyboard's from the start if there is one. With `Len(pads) <= MaxGamepads` this
  is why a gamepad that is added finds a free slot (`SomeFree`, by counting);
- `PathInv`: the known gamepads own one slot each while the window has the focus (`Own`),
  and `PathOk`: the messages of the queue, taken one by one, lead the device (`Reaches`) to
  the gamepads of the slots with their reports, except where one was lost (`Agrees`).
  `DeviceFollows` speaks only of an empty queue and is not inductive: what the device will
  be is what each push keeps in step with the slots. The keyboard gamepad's slot reports
  what was sent of it (`KbShows`);
- `KeysInv`: `KInv`, and `HoldsWith`: what is held, notches aside, is down; without the focus
  nothing is held; without the mouse nothing of the mouse is held, nor is the stick off
  by it. The last two are why a release that goes elsewhere is never missed: the change
  that redirected it had let everything go before.

`NextInv` has one lemma per action (`PressKeeps` to `DeviceTakesKeeps`), and the handlers of
the keyboard gamepad share `HandlerKeeps`.

`TicksCome` (`WorkIsTimed`) and `SticksArrive` (`StickReachesTarget`) assume `QuietWheel`: no
key of the wheel holds walk or a direction of a stick with neutral SOCD. The instance of
`gamepads_safety` satisfies it. Without it both are false: a notch that ends in a tick
then starts a ramp after the tick has looked for ramps, which is the finding
`gamepads_wheel`. The proof shows that these two kinds of control are the only ones with
that effect: the release of any other key starts no ramp that was not under way
(`NoNewRamp`).

Only model-checked: the liveness properties (`LatestShown`, `HoldsEnd`, `WaitersGetIn`,
`StopEnds`, `DisplayFollows`, `HoldEnds`) and the fairness of both refinements, which, like
ENABLED, are out of this prover's reach. With them goes what the device does for a video,
of which only `DisplayFollows` and the types speak. Every invariant and every action
property of the passing runs is proved, and the safety part of both refinements. No
RECURSIVE operator is used.

## 7. Not modelled

Most of the repository is vendored or upstream code: Cuttlefish's launcher, image tools
and webrtc frontend, build files and headers of third-party projects, scrcpy's media
pipeline and the rest of its server. The models are of the core that is Ika's own, a few
thousand lines of it. Also left out: calls into PulseAudio and PipeWire, drawing, shell
scripts and patches of third-party code. Of the modelled parts: validation of headers,
the fallback when a dma-buf cannot be delivered or duplicated (`ika_stream.cpp:503-511`) or
there is no event loop to release it in (`wayland_surfaces.cpp:116-122`), the frame kept
while paused in `DmabufHolds` (`screen.c:1502-1516`; `RawFrames` has it), a missing eventfd
(the thread then polls), the wrap of frame ids after 2^32 frames, the timestamps' values, the
preview and blur textures and the recognition of late frames by their pixels, failing
calls into Android (`setForcedDisplaySize`, `PrimaryDisplayResizer.java:106-110`; the `open()`
of `UhidManager`), failing calls into SDL (`SDL_AddTimer` at `flex.c:83` and
`keyboard_gamepad_timer.c:30-35`, the push of a timer's event at `flex.c:64-65`: a hold, a
ramp or a notch would then stay until the next event), gamepads without a window, which
follow no focus, the parser of a keyboard gamepad's spec (it has unit tests), shortcuts,
touch and text input.

## 8. Plan

1. Done: `RawFrames`, `DmabufHolds`, `ClientSessions`, `FlexDisplay`, `KeyboardGamepad` and
   `Gamepads`, the abstract specifications `FrameChannel` and `DisplayLock` with their
   refinements, the theorems of section 6.
2. Proofs: every safety property of the passing runs is proved. `TicksCome` and
   `SticksArrive` can lose their hypothesis once the tick looks at the sticks after it has
   released the notches.
3. Next to model: the audio handler's streams and the mixer thread; the stop of the
   controller with messages queued; the source's own descriptor when `sc_cf_open_conn`
   fails.
