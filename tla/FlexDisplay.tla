---------------------------- MODULE FlexDisplay ----------------------------
(* A display that follows the size of its window (flex display): the window  *)
(* asks for its size once it settles, the device resizes the display and     *)
(* confirms it, and the window, which holds a stretched and blurred picture  *)
(* in the meantime, shows the display again once it is drawn.                *)
(*                                                                           *)
(* The console's UI thread (struct sc_flex, driven by one-shot SDL timers)   *)
(* and its control thread take steps here, and on the device the control     *)
(* thread, the display monitor's thread, the thread that starts the window's *)
(* app, and for a video the debouncer and the encoder.  Time is abstract: a  *)
(* deadline has passed or has not.  A timer may fire before the deadline it  *)
(* was set for (its delay is rounded down to milliseconds), and is then set  *)
(* again.                                                                    *)
(*                                                                           *)
(* Modes: "raw" (the frames of a Cuttlefish display), "app" (raw, and the    *)
(* window waits for its app), "video" (a new virtual display, encoded).      *)
(* A size is one number: the code treats width and height alike.             *)
EXTENDS Integers, Sequences, FiniteSetsExt

CONSTANTS
    Sizes,       \* window sizes, at least the minimum size
    Modes,       \* the kinds of window there are
    MinFrames,   \* SC_FLEX_MIN_FRAMES, 2 in the code
    MaxAlignment, \* SC_FLEX_MAX_ALIGNMENT, 16 in the code
    Alignment,   \* VideoConstraints: sizes of the video are multiples of it,
    MaxSize,     \* and at most this (0: no limit)
    MaxResizes,  \* bound: sizes the window takes
    MaxEvents    \* bound: timers and timer events; more count as that many

ASSUME SizesAssumption == Sizes \subseteq Nat \ {0}
ASSUME VideoAssumption == /\ Alignment \in Nat \ {0}
                          /\ MaxSize \in Nat
                          /\ MaxAlignment \in Nat \ {0}
                          /\ \A s \in Sizes : s >= MaxAlignment
ASSUME ModesAssumption == Modes \subseteq {"raw", "app", "video"}
ASSUME FlexBoundsAssumption == /\ MinFrames \in Nat
                               /\ MaxResizes \in Nat
                               /\ MaxEvents \in Nat \ {0}

VARIABLES
    mode,       \* flex->raw and flex->app_window
    flex,       \* struct sc_flex
    timer,      \* flex->timer, the SDL timers, the FLEX_TIMER events queued
    slot,       \* controller->resize_display
    ctl,        \* the control thread: awake, or asleep on msg_cond
    toDevice,   \* the control socket, console to device: RESIZE_DISPLAY
    resizer,    \* the device's control thread in resize(), and pendingSize
    disp,       \* Android: the display's size
    forced,     \* Android: a size that is yet to take effect
    monitor,    \* DisplayMonitor: the size seen last, an event is due, and its
                \* thread is about to call its listener
    start,      \* the thread that starts the app
    video,      \* a new virtual display: the debouncer (request, due, taken),
                \* the tracker (pending), the capture control (reset), and
                \* the sizes of the video on its way to the console (stream)
    toConsole,  \* DISPLAY_READY messages, device to console
    resizes,    \* sizes of the window so far
    seen,       \* history: the sizes the window and the display had
    repeated,   \* history: the window came back to one of them
    overtaken   \* history: the request read last was taken for done while the
                \* display was about to get another size

console == <<flex, timer, slot, ctl>>
window == <<resizes, seen, repeated>>
device == <<resizer, disp, forced, monitor, start, video, overtaken>>
vars == <<mode, flex, timer, slot, ctl, toDevice, resizer, disp, forced,
          monitor, start, video, toConsole, resizes, seen, repeated, overtaken>>

Raw == mode # "video"
NoSize == 0
SizesOrNone == Sizes \cup {NoSize}

(* Size.constrain: a size the encoder can have.                              *)
Align(n) == (n \div Alignment) * Alignment
Constrain(s) ==
    LET w == IF MaxSize > 0 /\ s > MaxSize THEN MaxSize ELSE s
    IN  IF Align(w) < Alignment THEN Alignment ELSE Align(w)

(* sc_flex_frame_matches: a frame of the size requested, up to the alignment. *)
FrameMatches(frame, requested) ==
    frame <= requested /\ requested - frame < MaxAlignment

(* sc_flex_init: what a raw window has to show is not known yet.             *)
InitialFlex ==
    [pending |-> NoSize, due |-> FALSE, requested |-> NoSize, shown |-> NoSize,
     ready |-> FALSE, unchanged |-> FALSE, settled |-> FALSE, idle |-> TRUE,
     frames |-> 0, drawn |-> FALSE, holding |-> Raw, revealed |-> ~Raw,
     fadeIn |-> FALSE, fade |-> "none"]

Init ==
    /\ mode \in Modes
    /\ flex = InitialFlex
    /\ timer = [id |-> "none", forgotten |-> 0, events |-> 0]
    /\ slot = NoSize /\ ctl = "awake"
    /\ toDevice = << >> /\ toConsole = << >>
    /\ resizer = [pc |-> "idle", size |-> NoSize, pendingSize |-> NoSize]
    /\ disp \in IF Raw THEN Sizes ELSE {Constrain(s) : s \in Sizes}
    /\ forced = NoSize
    /\ monitor = [size |-> disp, due |-> FALSE, changed |-> FALSE]
    /\ start = [pc |-> IF mode = "app" THEN "find" ELSE "done",
                resized |-> FALSE, held |-> NoSize]
    /\ video = [request |-> NoSize, due |-> FALSE, taken |-> NoSize,
                pending |-> << >>, reset |-> FALSE, stream |-> <<disp>>]
    /\ resizes = 0 /\ seen = {disp} /\ repeated = FALSE /\ overtaken = FALSE
-----------------------------------------------------------------------------
(* The timers.                                                               *)

(* sc_flex_schedule: what it may make of the timers.  A timer that is set,   *)
(* or has just fired, may be early enough; it is replaced otherwise.         *)
Schedule(t) == IF t.id = "none" THEN {[t EXCEPT !.id = "armed"]}
                                ELSE {t, [t EXCEPT !.id = "armed"]}

OneMore(n) == IF n < MaxEvents THEN n + 1 ELSE n

(* sc_flex_timer_cb pushes FLEX_TIMER: the timer flex->timer stands for...   *)
TimerFires ==
    /\ timer.id = "armed"
    /\ timer' = [timer EXCEPT !.id = "fired", !.events = OneMore(@)]
    /\ UNCHANGED <<mode, flex, slot, ctl, toDevice, device, toConsole, window>>

(* ... or one that sc_flex_on_timer has forgotten, set since the event it    *)
(* handled was queued.                                                       *)
ForgottenTimerFires ==
    /\ timer.forgotten > 0
    /\ timer' = [timer EXCEPT !.forgotten = @ - 1, !.events = OneMore(@)]
    /\ UNCHANGED <<mode, flex, slot, ctl, toDevice, device, toConsole, window>>

(* FLEX_TIMER is taken from the queue, and sc_flex_on_timer sets flex->timer *)
(* to 0.                                                                     *)
TimerKept == [timer EXCEPT !.events = @ - 1]
TimerTaken ==
    [id |-> "none", events |-> timer.events - 1,
     forgotten |-> IF timer.id = "armed" THEN OneMore(timer.forgotten)
                                         ELSE timer.forgotten]
-----------------------------------------------------------------------------
(* The window, on the console's UI thread.                                   *)

(* A request that is over, or was not confirmed yet.                         *)
NotReady(f) == [f EXCEPT !.ready = FALSE, !.settled = FALSE, !.drawn = FALSE]

(* sc_flex_start_hold.  There may be nothing to animate: no preview, or the  *)
(* blur of the previous hold is still on.                                    *)
StartHold(f, fadeIn) ==
    [NotReady(f) EXCEPT !.holding = TRUE, !.fade = "none", !.fadeIn = fadeIn]

(* sc_flex_release                                                           *)
Release(f) ==
    [NotReady(f) EXCEPT !.holding = FALSE, !.fadeIn = FALSE,
                        !.shown = IF Raw THEN f.requested ELSE @,
                        !.fade = "running", !.revealed = TRUE]

StartsHold(s) == /\ Raw \/ flex.shown # NoSize
                 /\ ~flex.holding /\ s # flex.shown

(* sc_flex_on_window_size: the first size is asked for at once.              *)
OnWindowSize(s) ==
    /\ resizes < MaxResizes
    /\ s # flex.pending
    /\ \E fadeIn \in BOOLEAN :
         flex' = [(IF StartsHold(s) THEN StartHold(flex, fadeIn) ELSE flex)
                      EXCEPT !.pending = s, !.due = (flex.requested = NoSize)]
    /\ timer' \in Schedule(timer)
    /\ resizes' = resizes + 1
    /\ seen' = seen \cup {s}
    /\ repeated' = (repeated \/ (flex.pending # NoSize /\ s \in seen))
    /\ UNCHANGED <<mode, slot, ctl, toDevice, device, toConsole>>

(* sc_flex_on_display_ready: one about another size is obsolete.             *)
ConfirmsAnything(s) == Raw
Confirms(s) == Raw /\ s = flex.requested

OnDisplayReady ==
    /\ toConsole # << >>
    /\ toConsole' = Tail(toConsole)
    /\ LET s == Head(toConsole) IN
       \/ /\ Confirms(s)
          /\ flex' = [NotReady(flex) EXCEPT !.ready = TRUE,
                                            !.unchanged = (s = flex.shown)]
          /\ timer' \in Schedule(timer)
       \/ /\ ~Confirms(s)
          /\ UNCHANGED <<flex, timer>>
    /\ UNCHANGED <<mode, slot, ctl, toDevice, device, window>>

(* sc_flex_on_frame, raw: the guest has presented a frame.                   *)
OnRawFrame ==
    /\ Raw
    /\ flex' = [flex EXCEPT !.idle = FALSE, !.drawn = flex.ready,
                            !.frames = IF @ < MinFrames THEN @ + 1 ELSE @]
    /\ \/ flex.holding /\ flex.ready /\ timer' \in Schedule(timer)
       \/ ~(flex.holding /\ flex.ready) /\ UNCHANGED timer
    /\ UNCHANGED <<mode, slot, ctl, toDevice, device, toConsole, window>>

(* sc_flex_on_frame, video: the frame has the size the display had when the  *)
(* encoder was started.                                                      *)
OnVideoFrame ==
    LET s == Head(video.stream)
        f == [flex EXCEPT !.shown = s, !.idle = FALSE, !.drawn = flex.ready]
        atWindowSize == /\ flex.holding /\ flex.ready
                        /\ flex.pending = flex.requested
                        /\ FrameMatches(s, flex.requested)
    IN
    /\ ~Raw
    /\ \/ atWindowSize /\ flex' = Release(f) /\ timer' \in Schedule(timer)
       \/ ~atWindowSize /\ flex' = f /\ UNCHANGED timer
    /\ UNCHANGED <<mode, slot, ctl, toDevice, device, toConsole, window>>
-----------------------------------------------------------------------------
(* sc_flex_on_timer, in three parts: what each makes of sc_flex, and whether *)
(* it wants the timer again.                                                 *)

Unsent(f) == f.pending # NoSize /\ f.pending # f.requested
Sends(f) == Unsent(f) /\ f.due

(* The request, once the window is quiet.  Nobody confirms it for video.     *)
AfterRequest(f) ==
    IF Sends(f)
    THEN [NotReady(f) EXCEPT !.requested = f.pending, !.frames = 0,
                             !.ready = ~Raw,
                             !.unchanged = IF Raw THEN @
                                           ELSE FrameMatches(f.shown, f.pending)]
    ELSE f

(* The device has drawn the size it was asked for, or has had the time to.   *)
Drawn(f) ==
    \/ f.unchanged
    \/ Raw /\ f.frames >= MinFrames /\ f.idle
    \/ mode = "app" /\ ~f.revealed /\ f.drawn
    \/ f.settled
Settling(f) == f.holding /\ f.ready

(* The hold ends, or goes on with the content drawn meanwhile.               *)
AfterSettling(f) ==
    IF Settling(f) /\ Drawn(f)
    THEN IF f.pending = f.requested THEN Release(f)
         ELSE [NotReady(f) EXCEPT !.shown = IF Raw THEN f.requested ELSE @]
    ELSE f

Animating(f) == (f.holding /\ f.fadeIn) \/ f.fade = "running"

(* The end of the fade is rendered.                                          *)
AfterAnimations(f) ==
    IF f.fade = "over" /\ ~f.holding THEN [f EXCEPT !.fade = "none"] ELSE f

(* Whether the timer is set again, at some deadline.                         *)
TimerWanted(f) == Unsent(f) \/ Settling(f) \/ Animating(f)

(* sc_controller_resize_display: a request not taken yet is replaced; the    *)
(* control thread is signalled if there was none.                            *)
ResizeDisplayUnsignalled(s) == slot' = s /\ UNCHANGED ctl
ResizeDisplay(s) ==
    /\ slot' = s
    /\ ctl' = IF slot = NoSize THEN "awake" ELSE ctl

OnTimer ==
    LET f1 == AfterRequest(flex)
        f2 == AfterSettling(f1) IN
    /\ timer.events > 0
    /\ flex' = AfterAnimations(f2)
    /\ timer' \in IF TimerWanted(f2) THEN Schedule(TimerTaken) ELSE {TimerTaken}
    /\ \/ Sends(flex) /\ ResizeDisplay(flex.pending)
       \/ ~Sends(flex) /\ UNCHANGED <<slot, ctl>>
    /\ UNCHANGED <<mode, toDevice, device, toConsole, window>>

(* Time passes: the window is quiet for SC_FLEX_DRAG_DELAY or                *)
(* SC_FLEX_DISCRETE_DELAY, SC_FLEX_MAX_SETTLE and SC_FLEX_GUEST_IDLE are     *)
(* over, a fade ends.                                                        *)
Elapse(guard, f) ==
    /\ guard
    /\ flex' = f
    /\ UNCHANGED <<mode, timer, slot, ctl, toDevice, device, toConsole, window>>

QuietElapses == Elapse(~flex.due, [flex EXCEPT !.due = TRUE])
SettleElapses == Elapse(flex.ready /\ ~flex.settled,
                        [flex EXCEPT !.settled = TRUE])
IdleElapses == Elapse(~flex.idle, [flex EXCEPT !.idle = TRUE])
FadeInElapses == Elapse(flex.fadeIn, [flex EXCEPT !.fadeIn = FALSE])
FadeOutElapses == Elapse(flex.fade = "running", [flex EXCEPT !.fade = "over"])
-----------------------------------------------------------------------------
(* run_controller, the console's control thread: it sends the request, or    *)
(* waits for one.                                                            *)
ControllerSends ==
    /\ ctl = "awake"
    /\ slot # NoSize
    /\ toDevice' = Append(toDevice, slot)
    /\ slot' = NoSize
    /\ UNCHANGED <<mode, flex, timer, ctl, device, toConsole, window>>

ControllerWaits ==
    /\ ctl = "awake"
    /\ slot = NoSize
    /\ ctl' = "asleep"
    /\ UNCHANGED <<mode, flex, timer, slot, toDevice, device, toConsole, window>>
-----------------------------------------------------------------------------
(* The device.                                                               *)

(* The listener of PrimaryDisplayResizer: while the app start waits for the  *)
(* size, the message is kept for it, and it is woken up.                     *)
ListenerForgets(s) ==
    /\ start' = [start EXCEPT !.resized = TRUE]
    /\ toConsole' = IF start.pc = "wait" THEN toConsole ELSE Append(toConsole, s)
OnReady(s) ==
    \/ /\ start.pc = "wait"
       /\ start' = [start EXCEPT !.resized = TRUE, !.held = s]
       /\ UNCHANGED toConsole
    \/ /\ start.pc # "wait"
       /\ start' = [start EXCEPT !.resized = TRUE]
       /\ toConsole' = Append(toConsole, s)

(* PrimaryDisplayResizer.resize reads the size of the display: it may        *)
(* already be the one asked for, although another one is about to replace it. *)
ResizeReadsInfo ==
    /\ Raw
    /\ resizer.pc = "idle"
    /\ toDevice # << >>
    /\ toDevice' = Tail(toDevice)
    /\ LET s == Head(toDevice) IN
       /\ overtaken' = (s = disp /\ forced \notin {NoSize, s})
       /\ \/ /\ s = disp
             /\ resizer' = [resizer EXCEPT !.pendingSize = NoSize]
             /\ OnReady(s)
          \/ /\ s # disp
             /\ resizer' = [resizer EXCEPT !.pc = "pending", !.size = s]
             /\ UNCHANGED <<start, toConsole>>
    /\ UNCHANGED <<mode, console, disp, forced, monitor, video, window>>

(* ... records what the client waits for ...                                 *)
ResizeSetsPending ==
    /\ resizer.pc = "pending"
    /\ resizer' = [resizer EXCEPT !.pc = "force", !.pendingSize = resizer.size]
    /\ UNCHANGED <<mode, console, toDevice, disp, forced, monitor, start, video,
                   overtaken, toConsole, window>>

(* ... and forces the size.                                                  *)
ResizeForces ==
    /\ resizer.pc = "force"
    /\ forced' = resizer.size
    /\ resizer' = [resizer EXCEPT !.pc = "idle", !.size = NoSize]
    /\ UNCHANGED <<mode, console, toDevice, disp, monitor, start, video,
                   overtaken, toConsole, window>>

(* Android applies the forced size, and has an event for its listeners.      *)
DisplayResized ==
    /\ forced # NoSize
    /\ disp' = forced
    /\ forced' = NoSize
    /\ monitor' = [monitor EXCEPT !.due = (@ \/ forced # disp)]
    /\ UNCHANGED <<mode, console, toDevice, resizer, start, video, overtaken,
                   toConsole, window>>

(* DisplayMonitor.checkDisplayPropertiesChanged: if the size is not the one   *)
(* seen last ...                                                             *)
MonitorChecks ==
    /\ monitor.due /\ ~monitor.changed
    /\ monitor' = [size |-> disp, due |-> FALSE, changed |-> (disp # monitor.size)]
    /\ UNCHANGED <<mode, console, toDevice, resizer, disp, forced, start, video,
                   overtaken, toConsole, window>>

(* ... PrimaryDisplayResizer.checkReady reads it again: the size the client  *)
(* waits for is confirmed.                                                   *)
CheckReady ==
    /\ Raw
    /\ monitor.changed
    /\ monitor' = [monitor EXCEPT !.changed = FALSE]
    /\ \/ /\ disp = resizer.pendingSize
          /\ resizer' = [resizer EXCEPT !.pendingSize = NoSize]
          /\ OnReady(disp)
       \/ /\ disp # resizer.pendingSize
          /\ UNCHANGED <<resizer, start, toConsole>>
    /\ UNCHANGED <<mode, console, toDevice, disp, forced, video, overtaken,
                   window>>

(* startApp: no such app, or waitForInitialSize begins.                      *)
AppNotFound ==
    /\ start.pc = "find"
    /\ start' = [start EXCEPT !.pc = "done"]
    /\ UNCHANGED <<mode, console, toDevice, resizer, disp, forced, monitor,
                   video, overtaken, toConsole, window>>

WaitForInitialSize ==
    /\ start.pc = "find"
    /\ start' = [start EXCEPT !.pc = "wait"]
    /\ UNCHANGED <<mode, console, toDevice, resizer, disp, forced, monitor,
                   video, overtaken, toConsole, window>>

(* It ends when the display is resized, or after INITIAL_SIZE_TIMEOUT_MS,    *)
(* and the app is started.                                                   *)
LaunchApp ==
    /\ start.pc = "wait"
    /\ start' = [start EXCEPT !.pc = "launched"]
    /\ UNCHANGED <<mode, console, toDevice, resizer, disp, forced, monitor,
                   video, overtaken, toConsole, window>>

(* sendHeldDisplayReady                                                      *)
HeldUnchecked == <<start.held>>
HeldReady == IF start.held # NoSize THEN <<start.held>> ELSE << >>

SendHeldDisplayReady ==
    /\ start.pc = "launched"
    /\ toConsole' = toConsole \o HeldReady
    /\ start' = [start EXCEPT !.pc = "done", !.held = NoSize]
    /\ UNCHANGED <<mode, console, toDevice, resizer, disp, forced, monitor,
                   video, overtaken, window>>
-----------------------------------------------------------------------------
(* The device, for a new virtual display (video).                            *)

VideoStep(guard, v) ==
    /\ ~Raw /\ guard
    /\ video' = v
    /\ UNCHANGED <<mode, console, resizer, disp, start, overtaken, toConsole,
                   window>>

(* NewDisplayCapture.requestResize, on the control thread: a request that is *)
(* not taken yet is replaced and keeps its deadline.                         *)
RequestResize ==
    /\ VideoStep(toDevice # << >>,
                 [video EXCEPT !.request = Constrain(Head(toDevice)),
                               !.due = (@ /\ video.request # NoSize)])
    /\ toDevice' = Tail(toDevice)
    /\ UNCHANGED <<forced, monitor>>

(* DEBOUNCE_DELAY_MS is over.                                                *)
DebounceElapses ==
    /\ VideoStep(video.request # NoSize /\ ~video.due,
                 [video EXCEPT !.due = TRUE])
    /\ UNCHANGED <<toDevice, forced, monitor>>

(* DisplayResizeDebouncer.debounce takes the request ...                     *)
DebouncerTakes ==
    /\ VideoStep(video.request # NoSize /\ video.due /\ video.taken = NoSize,
                 [video EXCEPT !.taken = video.request, !.request = NoSize,
                               !.due = FALSE])
    /\ UNCHANGED <<toDevice, forced, monitor>>

(* ... and NewDisplayCapture.triggerResize tells the tracker of it, and      *)
(* resizes the virtual display.                                              *)
TriggerResize ==
    LET s == Constrain(video.taken) IN
    /\ VideoStep(video.taken # NoSize,
                 [video EXCEPT !.taken = NoSize, !.pending = Append(@, s)])
    /\ forced' = s
    /\ UNCHANGED <<toDevice, monitor>>

(* DisplayPropertiesTracker.onChanged: a change the client asked for ends    *)
(* that request and the ones before; any other cancels what is left to do.   *)
OnChanged(v, s) ==
    LET places == {i \in 1 .. Len(v.pending) : v.pending[i] = s} IN
    IF places = {} THEN [v EXCEPT !.request = NoSize, !.due = FALSE]
    ELSE [v EXCEPT !.pending = SubSeq(@, Min(places) + 1, Len(@))]

(* The display monitor's listener of NewDisplayCapture.startNew: the capture *)
(* is to be reset.                                                           *)
CaptureReset ==
    /\ VideoStep(monitor.changed,
                 [OnChanged(video, monitor.size) EXCEPT !.reset = TRUE])
    /\ monitor' = [monitor EXCEPT !.changed = FALSE]
    /\ UNCHANGED <<toDevice, forced>>

(* SurfaceEncoder.streamCapture: the encoder is started again, with the size *)
(* that NewDisplayCapture.prepare makes of the display's.                    *)
EncoderRestarts ==
    /\ VideoStep(video.reset,
                 [video EXCEPT !.reset = FALSE,
                               !.stream = Append(@, Constrain(disp))])
    /\ UNCHANGED <<toDevice, forced, monitor>>

(* The console has got all frames of a size: the next ones have the next.    *)
StreamGoesOn ==
    /\ VideoStep(Len(video.stream) > 1, [video EXCEPT !.stream = Tail(@)])
    /\ UNCHANGED <<toDevice, forced, monitor>>
-----------------------------------------------------------------------------
Time == \/ QuietElapses \/ SettleElapses \/ IdleElapses
        \/ FadeInElapses \/ FadeOutElapses

Ui == \/ OnTimer \/ OnDisplayReady \/ OnRawFrame \/ OnVideoFrame
      \/ \E s \in Sizes : OnWindowSize(s)

ControlThread == ControllerSends \/ ControllerWaits

Device == \/ ResizeReadsInfo \/ ResizeSetsPending \/ ResizeForces
          \/ DisplayResized \/ MonitorChecks \/ CheckReady
          \/ AppNotFound \/ WaitForInitialSize \/ LaunchApp
          \/ SendHeldDisplayReady

VideoDevice == \/ RequestResize \/ DebounceElapses \/ DebouncerTakes
               \/ TriggerResize \/ CaptureReset \/ EncoderRestarts
               \/ StreamGoesOn

Next == \/ TimerFires \/ ForgottenTimerFires \/ Time \/ Ui \/ ControlThread
        \/ Device \/ VideoDevice

(* Time passes, timers fire, threads that can run do, events that are queued *)
(* are handled.  The window need not be resized, the guest need not draw.    *)
Fairness ==
    /\ WF_vars(TimerFires) /\ WF_vars(ForgottenTimerFires)
    /\ WF_vars(QuietElapses) /\ WF_vars(SettleElapses) /\ WF_vars(IdleElapses)
    /\ WF_vars(FadeInElapses) /\ WF_vars(FadeOutElapses)
    /\ WF_vars(OnTimer) /\ WF_vars(OnDisplayReady)
    /\ WF_vars(ControlThread)
    /\ WF_vars(ResizeReadsInfo \/ ResizeSetsPending \/ ResizeForces)
    /\ WF_vars(DisplayResized)
    /\ WF_vars(MonitorChecks \/ CheckReady \/ CaptureReset)
    /\ WF_vars(RequestResize) /\ WF_vars(DebounceElapses)
    /\ WF_vars(DebouncerTakes \/ TriggerResize) /\ WF_vars(EncoderRestarts)
    /\ WF_vars(WaitForInitialSize \/ LaunchApp \/ SendHeldDisplayReady)

Spec == Init /\ [][Next]_vars
FairSpec == Spec /\ Fairness
-----------------------------------------------------------------------------
FlexStates ==
    [pending : SizesOrNone, due : BOOLEAN, requested : SizesOrNone,
     shown : Nat, ready : BOOLEAN, unchanged : BOOLEAN,
     settled : BOOLEAN, idle : BOOLEAN, frames : 0 .. MinFrames,
     drawn : BOOLEAN, holding : BOOLEAN, revealed : BOOLEAN,
     fadeIn : BOOLEAN, fade : {"none", "running", "over"}]

DisplaySizes == Nat \ {0}

Timers == [id : {"none", "armed", "fired"}, forgotten : 0 .. MaxEvents,
           events : 0 .. MaxEvents]

Videos == [request : Nat, due : BOOLEAN, taken : Nat,
           pending : Seq(DisplaySizes), reset : BOOLEAN,
           stream : Seq(DisplaySizes) \ {<< >>}]

(* The type invariant.                                                       *)
TypeOK ==
    /\ mode \in Modes
    /\ flex \in FlexStates
    /\ timer \in Timers
    /\ slot \in SizesOrNone
    /\ ctl \in {"awake", "asleep"}
    /\ toDevice \in Seq(Sizes)
    /\ resizer \in [pc : {"idle", "pending", "force"}, size : SizesOrNone,
                    pendingSize : SizesOrNone]
    /\ disp \in DisplaySizes
    /\ forced \in Nat
    /\ monitor \in [size : DisplaySizes, due : BOOLEAN, changed : BOOLEAN]
    /\ start \in [pc : {"find", "wait", "launched", "done"},
                  resized : BOOLEAN, held : Nat]
    /\ video \in Videos
    /\ toConsole \in Seq(DisplaySizes)
    /\ resizes \in 0 .. MaxResizes
    /\ seen \subseteq DisplaySizes
    /\ repeated \in BOOLEAN /\ overtaken \in BOOLEAN

(* What is left for the timer: a size to ask for, a hold to end, a fade.     *)
TimerWork == TimerWanted(flex) \/ flex.fade # "none"

(* A FLEX_TIMER event is queued, or a timer will queue one.                  *)
TimerComes == timer.id = "armed" \/ timer.forgotten > 0 \/ timer.events > 0

(* Nothing is forgotten: as long as there is work for it, a timer event      *)
(* comes, although sc_flex_schedule sets no timer when there is an earlier   *)
(* one and sc_flex_on_timer drops a timer it did not wait for.               *)
NoWorkForgotten == TimerWork => TimerComes

(* A raw window that is not held shows what it asked for last, that is its   *)
(* own size, and the display has that size too, so that it is shown 1:1:     *)
(* confirmations of earlier requests that come late end no hold.  A window   *)
(* that came back to an earlier size is left out of the part about the       *)
(* display: a confirmation of the first request is taken for the second.     *)
ShownAtWindowSize ==
    Raw /\ ~flex.holding
        => /\ flex.shown = flex.pending /\ flex.requested = flex.pending
           /\ disp = flex.pending \/ repeated

(* The size of the display for a size of the window.                         *)
DisplayFor(s) == IF Raw THEN s ELSE Constrain(s)
Following == flex.pending = NoSize \/ disp = DisplayFor(flex.pending)

(* The display ends up with the size the window ends up with, through the    *)
(* resize slot, the control thread, the debouncer and the tracker, unless    *)
(* the last request was taken for done too early (see DisplayAlwaysFollows). *)
DisplayFollows == <>[](Following \/ overtaken)

(* As flex.h has it: the display follows the window's size.                  *)
DisplayAlwaysFollows == <>[]Following

(* A hold ends, as long as the window does not come back to an earlier size: *)
(* the request is sent, no confirmation is lost between resizer, monitor and *)
(* app start, and the guest need not draw.                                   *)
HoldEnds ==
    flex.holding /\ flex.pending # NoSize ~> ~flex.holding \/ repeated

(* As flex.h has it: the window holds until the device has drawn its size.   *)
HoldAlwaysEnds == flex.holding /\ flex.pending # NoSize ~> ~flex.holding
=============================================================================
