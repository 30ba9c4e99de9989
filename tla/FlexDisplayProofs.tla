------------------------- MODULE FlexDisplayProofs -------------------------
(* Theorems of FlexDisplay, for all sizes, kinds of window and bounds: the   *)
(* display of a raw window that is not held has the window's size, unless    *)
(* the window came back to an earlier one, and no work for its timer is      *)
(* forgotten.                                                                *)
EXTENDS FlexDisplay, WellFoundedInduction, SequenceTheorems, TLAPS

(* A timer that has fired has left its event in the queue, until it is       *)
(* handled: sc_flex_schedule may rely on it.                                 *)
FiredIsQueued == timer.id = "fired" => timer.events > 0

(* sc_flex_start_hold ends a fade, and none starts during a hold.            *)
NoFadeInHold == flex.holding => flex.fade = "none"

(* A raw window that is not held has asked for its size, and shows it.       *)
ShownIsAsked ==
    Raw /\ ~flex.holding
        => flex.shown = flex.pending /\ flex.requested = flex.pending

(* The way of a request of a raw window: the resize slot, the socket, the    *)
(* resizer, Android, the display.  Sizes on it tell requests apart as long   *)
(* as the window comes back to none.                                         *)
Asked == flex.requested
NothingSent == slot = NoSize /\ toDevice = << >>
AllRead == NothingSent /\ resizer.pc = "idle"
Arrived == AllRead /\ forced = NoSize

(* The sizes known apart from one that is yet to be asked for, which is new. *)
OldSizes == IF Unsent(flex) /\ Asked # NoSize THEN seen \ {flex.pending} ELSE seen

SizesAreOld ==
    /\ slot \in OldSizes \cup {NoSize} /\ resizer.size \in OldSizes \cup {NoSize}
    /\ resizer.pendingSize \in OldSizes \cup {NoSize}
    /\ forced \in OldSizes \cup {NoSize} /\ start.held \in OldSizes \cup {NoSize}
    /\ Asked \in OldSizes \cup {NoSize} /\ disp \in OldSizes
    /\ \A i \in 1 .. Len(toDevice) : toDevice[i] \in OldSizes
    /\ \A i \in 1 .. Len(toConsole) : toConsole[i] \in OldSizes
    /\ flex.pending \in seen \cup {NoSize}
    /\ flex.pending = NoSize => Asked = NoSize

(* Before the first request nothing is on its way.                           *)
NothingAsked ==
    Asked = NoSize =>
        /\ Arrived /\ resizer.pendingSize = NoSize /\ toConsole = << >>
        /\ start.held = NoSize /\ ~flex.ready /\ flex.holding

(* The last request is the newest on its way, and the only one of its size.  *)
NewestIsAsked ==
    Asked # NoSize =>
        /\ slot \in {NoSize, Asked}
        /\ \A i \in 1 .. Len(toDevice) :
              toDevice[i] = Asked <=> slot = NoSize /\ i = Len(toDevice)
        /\ resizer.pc # "idle" => (resizer.size = Asked <=> NothingSent)
        /\ ~AllRead => forced # Asked
        /\ AllRead => forced \in {NoSize, Asked}
        /\ Arrived => disp = Asked

(* Only the first request may be for the size the display has, and then      *)
(* there is no other on its way.                                             *)
AskedAlready ==
    disp = Asked /\ ~Arrived =>
        /\ ~NothingSent /\ resizer.pc = "idle" /\ forced = NoSize
        /\ resizer.pendingSize # Asked
        /\ \A i \in 1 .. Len(toDevice) : toDevice[i] = Asked

(* Who has been told that the request is done is told the truth.             *)
Told == \/ flex.ready \/ ~flex.holding \/ start.held = Asked
        \/ \E i \in 1 .. Len(toConsole) : toConsole[i] = Asked
ToldTheTruth == Asked # NoSize /\ Told => Arrived

WayInv == Raw /\ ~repeated => /\ SizesAreOld /\ NothingAsked /\ NewestIsAsked
                              /\ AskedAlready /\ ToldTheTruth

(* The inductive invariant.                                                  *)
FlexInv == /\ TypeOK
           /\ ShownIsAsked /\ WayInv
           /\ FiredIsQueued
           /\ NoFadeInHold
           /\ NoWorkForgotten
-----------------------------------------------------------------------------
(* A size of the window is a size a display may have.                        *)
LEMMA SizesAreNumbers ==
    SizesOrNone \subseteq Nat /\ Sizes \subseteq DisplaySizes
BY SizesAssumption DEF SizesOrNone, NoSize, DisplaySizes

(* Size.constrain always leaves a size.                                      *)
LEMMA ConstrainedSize ==
    ASSUME NEW s \in Nat
    PROVE  Constrain(s) \in DisplaySizes
<1> DEFINE w == IF MaxSize > 0 /\ s > MaxSize THEN MaxSize ELSE s
<1>1. w \in Nat
  BY VideoAssumption
<1> HIDE DEF w
<1>2. Align(w) \in Int
  BY <1>1, VideoAssumption DEF Align
<1>3. Constrain(s) = IF Align(w) < Alignment THEN Alignment ELSE Align(w)
  BY DEF Constrain, w
<1> QED BY <1>2, <1>3, VideoAssumption DEF DisplaySizes

(* A set of numbers that is not empty has a least one.                       *)
LEMMA SomeLeast ==
    ASSUME NEW S \in SUBSET Nat, S # {}
    PROVE  \E x \in S : \A y \in S : x <= y
<1> DEFINE Below == {p \in Nat \X Nat : p[1] < p[2]}
<1>1. IsWellFoundedOn(Below, Nat)
  <2>1. Below = OpToRel(<, Nat)
    BY Zenon DEF OpToRel
  <2> QED BY <2>1, NatLessThanWellFounded, Zenon
<1>2. \A x, y \in Nat : y < x => <<y, x>> \in Below
  OBVIOUS
<1> HIDE DEF Below
<1>3. PICK x \in S : \A y \in S : ~(<<y, x>> \in Below)
  BY <1>1, WFMin
<1>4. \A y \in S : ~(y < x)
  BY <1>2, <1>3
<1> QED BY <1>3, <1>4

(* sc_flex_schedule: whatever it does, a timer event comes.                  *)
LEMMA ScheduleComes ==
    ASSUME NEW t \in Timers, NEW u \in Schedule(t),
           t.id = "fired" => t.events > 0
    PROVE  /\ u \in Timers
           /\ u.id = "fired" => u.events > 0
           /\ u.id = "armed" \/ u.forgotten > 0 \/ u.events > 0
BY DEF Timers, Schedule

(* Counting a timer or an event, up to the bound.                            *)
LEMMA OneMoreCounts ==
    ASSUME NEW n \in 0 .. MaxEvents
    PROVE  OneMore(n) \in 0 .. MaxEvents /\ OneMore(n) > 0
BY FlexBoundsAssumption DEF OneMore

(* The timers once a FLEX_TIMER is taken.                                    *)
LEMMA TakenTimers ==
    ASSUME timer \in Timers, timer.events > 0
    PROVE  TimerTaken \in Timers /\ TimerTaken.id = "none"
BY FlexBoundsAssumption DEF Timers, TimerTaken, OneMore

(* The parts of struct sc_flex a request, a release and a hold change.       *)
LEMMA FlexSteps ==
    ASSUME NEW f \in FlexStates, mode \in Modes
    PROVE  /\ NotReady(f) \in FlexStates
           /\ \A b \in BOOLEAN : StartHold(f, b) \in FlexStates
           /\ Release(f) \in FlexStates
           /\ AfterRequest(f) \in FlexStates
           /\ AfterSettling(f) \in FlexStates
           /\ AfterAnimations(f) \in FlexStates
<1>1. NotReady(f) \in FlexStates
  BY DEF FlexStates, NotReady
<1>2. \A b \in BOOLEAN : StartHold(f, b) \in FlexStates
  BY DEF FlexStates, NotReady, StartHold
<1>3. Release(f) \in FlexStates
  BY SizesAreNumbers DEF FlexStates, NotReady, Release
<1>4. AfterRequest(f) \in FlexStates
  <2>1. CASE ~Sends(f)
    BY <2>1 DEF AfterRequest
  <2>2. CASE Sends(f) /\ Raw
    <3>1. AfterRequest(f) = [NotReady(f) EXCEPT !.requested = f.pending,
                                               !.frames = 0, !.ready = FALSE]
      BY <2>2 DEF AfterRequest, FlexStates, NotReady
    <3>2. 0 \in 0 .. MinFrames
      BY FlexBoundsAssumption
    <3>3. f.pending \in SizesOrNone
      BY DEF FlexStates
    <3> QED BY <1>1, <3>1, <3>2, <3>3 DEF FlexStates
  <2>3. CASE Sends(f) /\ ~Raw
    <3>1. PICK b \in BOOLEAN : b = FrameMatches(f.shown, f.pending)
      BY DEF FrameMatches
    <3>2. AfterRequest(f) = [NotReady(f) EXCEPT !.requested = f.pending,
                                               !.frames = 0, !.ready = TRUE,
                                               !.unchanged = b]
      BY <2>3, <3>1 DEF AfterRequest, FlexStates, NotReady
    <3>3. 0 \in 0 .. MinFrames
      BY FlexBoundsAssumption
    <3>4. f.pending \in SizesOrNone
      BY DEF FlexStates
    <3> QED BY <1>1, <3>1, <3>2, <3>3, <3>4 DEF FlexStates
  <2> QED BY <2>1, <2>2, <2>3
<1>5. AfterSettling(f) \in FlexStates
  <2>1. [NotReady(f) EXCEPT !.shown = IF Raw THEN f.requested ELSE @]
            \in FlexStates
    BY SizesAreNumbers DEF FlexStates, NotReady
  <2> QED BY <1>3, <2>1 DEF AfterSettling
<1>6. AfterAnimations(f) \in FlexStates
  BY DEF FlexStates, AfterAnimations
<1> QED BY <1>1, <1>2, <1>3, <1>4, <1>5, <1>6

(* Sending a confirmation, or keeping it for the app start.                  *)
LEMMA ReadyTypes ==
    ASSUME TypeOK, NEW s \in DisplaySizes, OnReady(s)
    PROVE  /\ start' \in [pc : {"find", "wait", "launched", "done"},
                          resized : BOOLEAN, held : Nat]
           /\ toConsole' \in Seq(DisplaySizes)
<1>1. CASE start.pc = "wait"
  BY <1>1 DEF TypeOK, OnReady, DisplaySizes
<1>2. CASE start.pc # "wait"
  <2>1. /\ start' = [start EXCEPT !.resized = TRUE]
        /\ toConsole' = Append(toConsole, s)
    BY <1>2 DEF OnReady
  <2>2. toConsole' \in Seq(DisplaySizes)
    BY <2>1 DEF TypeOK
  <2> QED BY <2>1, <2>2 DEF TypeOK
<1> QED BY <1>1, <1>2
-----------------------------------------------------------------------------
(* Type correctness.                                                         *)
LEMMA InitType == Init => TypeOK
<1> SUFFICES ASSUME Init PROVE TypeOK
  OBVIOUS
<1>0. disp \in DisplaySizes
  BY SizesAreNumbers, ConstrainedSize DEF Init, DisplaySizes
<1>1. flex \in FlexStates
  BY FlexBoundsAssumption
  DEF Init, InitialFlex, FlexStates, SizesOrNone, NoSize, Raw
<1>2. timer \in Timers
  BY FlexBoundsAssumption DEF Init, Timers
<1>3. start \in [pc : {"find", "wait", "launched", "done"},
                 resized : BOOLEAN, held : Nat]
  BY DEF Init, NoSize
<1>4. /\ resizer \in [pc : {"idle", "pending", "force"}, size : SizesOrNone,
                      pendingSize : SizesOrNone]
      /\ monitor \in [size : DisplaySizes, due : BOOLEAN, changed : BOOLEAN]
  BY <1>0 DEF Init, SizesOrNone
<1>5. toDevice \in Seq(Sizes) /\ toConsole \in Seq(DisplaySizes)
  BY DEF Init
<1>6. video \in Videos
  <2>1. << >> \in Seq(DisplaySizes) /\ <<disp>> \in Seq(DisplaySizes) \ {<< >>}
    BY <1>0
  <2> QED BY <2>1 DEF Init, Videos, NoSize
<1>7. /\ slot \in SizesOrNone /\ forced \in Nat
      /\ ctl \in {"awake", "asleep"} /\ seen \subseteq DisplaySizes
      /\ mode \in Modes /\ repeated \in BOOLEAN /\ overtaken \in BOOLEAN
  BY <1>0 DEF Init, SizesOrNone, NoSize
<1>8. resizes \in 0 .. MaxResizes
  BY FlexBoundsAssumption DEF Init
<1> QED BY <1>0, <1>1, <1>2, <1>3, <1>4, <1>5, <1>6, <1>7, <1>8
        DEF TypeOK

(* Time passing.                                                             *)
LEMMA TimeTypes == TypeOK /\ Time => TypeOK'
<1> SUFFICES ASSUME TypeOK, Time PROVE TypeOK'
  OBVIOUS
<1>0. flex \in FlexStates
  BY DEF TypeOK
<1>1. /\ [flex EXCEPT !.due = TRUE] \in FlexStates
      /\ [flex EXCEPT !.settled = TRUE] \in FlexStates
      /\ [flex EXCEPT !.idle = TRUE] \in FlexStates
      /\ [flex EXCEPT !.fadeIn = FALSE] \in FlexStates
      /\ [flex EXCEPT !.fade = "over"] \in FlexStates
  BY <1>0 DEF FlexStates
<1>2. flex' \in FlexStates
  BY <1>1 DEF Time, Elapse, QuietElapses, SettleElapses, IdleElapses,
              FadeInElapses, FadeOutElapses
<1>3. UNCHANGED <<mode, timer, slot, ctl, toDevice, device, toConsole, window>>
  BY DEF Time, Elapse, QuietElapses, SettleElapses, IdleElapses,
         FadeInElapses, FadeOutElapses
<1> QED BY <1>2, <1>3 DEF TypeOK, device, window

(* A new window size.                                                        *)
LEMMA WindowTypes ==
    ASSUME TypeOK, NEW s \in Sizes, OnWindowSize(s)
    PROVE  TypeOK'
<1>1. flex \in FlexStates /\ timer \in Timers /\ mode \in Modes
  BY DEF TypeOK
<1>2. PICK b \in BOOLEAN :
        flex' = [(IF StartsHold(s) THEN StartHold(flex, b) ELSE flex)
                     EXCEPT !.pending = s, !.due = (flex.requested = NoSize)]
  BY DEF OnWindowSize
<1>3. (IF StartsHold(s) THEN StartHold(flex, b) ELSE flex) \in FlexStates
  BY <1>1, FlexSteps
<1>4. PICK d \in BOOLEAN : d = (flex.requested = NoSize)
  OBVIOUS
<1>5. flex' \in FlexStates
  <2>1. s \in SizesOrNone
    BY DEF SizesOrNone
  <2> QED BY <1>2, <1>3, <1>4, <2>1 DEF FlexStates
<1>6. timer' \in Timers
  BY <1>1 DEF OnWindowSize, Schedule, Timers
<1>7. resizes' \in 0 .. MaxResizes /\ seen' \subseteq DisplaySizes
  BY FlexBoundsAssumption, SizesAreNumbers DEF OnWindowSize, TypeOK
<1>8. repeated' \in BOOLEAN
  BY DEF OnWindowSize, TypeOK
<1> QED BY <1>5, <1>6, <1>7, <1>8 DEF OnWindowSize, TypeOK, device

(* A confirmation.                                                           *)
LEMMA DisplayReadyTypes == TypeOK /\ OnDisplayReady => TypeOK'
<1> SUFFICES ASSUME TypeOK, OnDisplayReady PROVE TypeOK'
  OBVIOUS
<1>1. flex \in FlexStates /\ timer \in Timers /\ mode \in Modes
  BY DEF TypeOK
<1>2. toConsole' \in Seq(DisplaySizes)
  BY DEF OnDisplayReady, TypeOK
<1>3. flex' \in FlexStates /\ timer' \in Timers
  <2>1. CASE UNCHANGED <<flex, timer>>
    BY <1>1, <2>1
  <2>2. CASE /\ flex' = [NotReady(flex) EXCEPT !.ready = TRUE,
                           !.unchanged = (Head(toConsole) = flex.shown)]
             /\ timer' \in Schedule(timer)
    <3>1. PICK b \in BOOLEAN : b = (Head(toConsole) = flex.shown)
      OBVIOUS
    <3>2. NotReady(flex) \in FlexStates
      BY <1>1, FlexSteps
    <3>3. flex' = [NotReady(flex) EXCEPT !.ready = TRUE, !.unchanged = b]
      BY <2>2, <3>1
    <3>4. flex' \in FlexStates
      BY <3>2, <3>3 DEF FlexStates
    <3> QED BY <1>1, <2>2, <3>4 DEF Schedule, Timers
  <2> QED BY <2>1, <2>2 DEF OnDisplayReady
<1> QED BY <1>2, <1>3 DEF OnDisplayReady, TypeOK, device, window

(* A frame.                                                                  *)
LEMMA FrameTypes == TypeOK /\ (OnRawFrame \/ OnVideoFrame) => TypeOK'
<1> SUFFICES ASSUME TypeOK, OnRawFrame \/ OnVideoFrame PROVE TypeOK'
  OBVIOUS
<1>1. flex \in FlexStates /\ timer \in Timers /\ mode \in Modes
  BY DEF TypeOK
<1>2. flex' \in FlexStates
  <2>1. CASE OnRawFrame
    <3>1. (IF flex.frames < MinFrames THEN flex.frames + 1 ELSE flex.frames)
              \in 0 .. MinFrames
      BY <1>1, FlexBoundsAssumption DEF FlexStates
    <3> DEFINE n == IF flex.frames < MinFrames THEN flex.frames + 1
                    ELSE flex.frames
    <3>2. flex' = [flex EXCEPT !.idle = FALSE, !.drawn = flex.ready,
                               !.frames = n]
      BY <2>1 DEF OnRawFrame
    <3> HIDE DEF n
    <3> QED BY <1>1, <3>1, <3>2 DEF FlexStates, n
  <2>2. CASE OnVideoFrame
    <3> DEFINE f == [flex EXCEPT !.shown = Head(video.stream), !.idle = FALSE,
                                 !.drawn = flex.ready]
    <3>1. f \in FlexStates
      <4>1. Head(video.stream) \in Nat
        BY DEF TypeOK, Videos, DisplaySizes
      <4> QED BY <1>1, <4>1 DEF FlexStates
    <3>2. flex' = f \/ flex' = Release(f)
      BY <2>2 DEF OnVideoFrame
    <3> QED BY <1>1, <3>1, <3>2, FlexSteps
  <2> QED BY <2>1, <2>2
<1>3. timer' \in Timers
  BY <1>1 DEF OnRawFrame, OnVideoFrame, Schedule, Timers
<1> QED BY <1>2, <1>3 DEF OnRawFrame, OnVideoFrame, TypeOK, device, window

(* A FLEX_TIMER.                                                             *)
LEMMA OnTimerTypes == TypeOK /\ OnTimer => TypeOK'
<1> SUFFICES ASSUME TypeOK, OnTimer PROVE TypeOK'
  OBVIOUS
<1>1. flex \in FlexStates /\ timer \in Timers /\ mode \in Modes
  BY DEF TypeOK
<1>2. flex' \in FlexStates
  BY <1>1, FlexSteps DEF OnTimer
<1>3. TimerTaken \in Timers
  BY <1>1, TakenTimers DEF OnTimer
<1>4. timer' \in Timers
  BY <1>3 DEF OnTimer, Schedule, Timers
<1>5. slot' \in SizesOrNone /\ ctl' \in {"awake", "asleep"}
  BY <1>1 DEF OnTimer, ResizeDisplay, TypeOK, FlexStates
<1> QED BY <1>2, <1>4, <1>5 DEF OnTimer, TypeOK, device, window

(* The timers and the control thread.                                        *)
LEMMA OtherConsoleTypes ==
    TypeOK /\ (TimerFires \/ ForgottenTimerFires \/ ControlThread) => TypeOK'
<1> SUFFICES ASSUME TypeOK, TimerFires \/ ForgottenTimerFires \/ ControlThread
             PROVE  TypeOK'
  OBVIOUS
<1>0. timer \in Timers
  BY DEF TypeOK
<1>1. CASE TimerFires
  <2>1. timer' \in Timers
    BY <1>0, <1>1, OneMoreCounts DEF TimerFires, Timers
  <2> QED BY <1>1, <2>1 DEF TimerFires, TypeOK, device, window
<1>2. CASE ForgottenTimerFires
  <2>1. /\ timer.forgotten - 1 \in 0 .. MaxEvents
        /\ OneMore(timer.events) \in 0 .. MaxEvents
    BY <1>0, <1>2, OneMoreCounts, FlexBoundsAssumption
    DEF ForgottenTimerFires, Timers
  <2>2. timer' \in Timers
    BY <1>0, <1>2, <2>1 DEF ForgottenTimerFires, Timers
  <2> QED BY <1>2, <2>2 DEF ForgottenTimerFires, TypeOK, device, window
<1>3. CASE ControllerSends
  <2>1. toDevice' \in Seq(Sizes) /\ slot' \in SizesOrNone
    BY <1>3 DEF ControllerSends, TypeOK, SizesOrNone
  <2> QED BY <1>3, <2>1 DEF ControllerSends, TypeOK, device, window
<1>4. CASE ControllerWaits
  BY <1>4 DEF ControllerWaits, TypeOK, device, window
<1> QED BY <1>1, <1>2, <1>3, <1>4 DEF ControlThread

(* The device, for a raw window.                                             *)
LEMMA DeviceTypes == TypeOK /\ Device => TypeOK'
<1> SUFFICES ASSUME TypeOK, Device PROVE TypeOK'
  OBVIOUS
<1> DEFINE Resizers == [pc : {"idle", "pending", "force"}, size : SizesOrNone,
                        pendingSize : SizesOrNone]
           Starts == [pc : {"find", "wait", "launched", "done"},
                      resized : BOOLEAN, held : Nat]
<1>0. /\ resizer \in Resizers /\ start \in Starts
      /\ toDevice \in Seq(Sizes) /\ toConsole \in Seq(DisplaySizes)
      /\ NoSize \in SizesOrNone /\ Sizes \subseteq SizesOrNone
      /\ Sizes \subseteq DisplaySizes
  BY SizesAreNumbers DEF TypeOK, SizesOrNone
<1>1. CASE ResizeReadsInfo
  <2>1. /\ toDevice' \in Seq(Sizes)
        /\ Head(toDevice) \in Sizes
    BY <1>0, <1>1 DEF ResizeReadsInfo
  <2>2. resizer' \in Resizers /\ overtaken' \in BOOLEAN
    BY <1>0, <1>1, <2>1 DEF ResizeReadsInfo
  <2>3. start' \in Starts /\ toConsole' \in Seq(DisplaySizes)
    <3>1. CASE UNCHANGED <<start, toConsole>>
      BY <1>0, <3>1
    <3>2. CASE OnReady(Head(toDevice))
      BY <1>0, <2>1, <3>2, ReadyTypes
    <3> QED BY <1>1, <3>1, <3>2 DEF ResizeReadsInfo
  <2> QED BY <1>1, <2>1, <2>2, <2>3
          DEF ResizeReadsInfo, TypeOK, console, window
<1>2. CASE ResizeSetsPending
  <2>1. resizer' \in Resizers
    BY <1>0, <1>2 DEF ResizeSetsPending
  <2> QED BY <1>2, <2>1 DEF ResizeSetsPending, TypeOK, console, window
<1>3. CASE ResizeForces
  <2>1. resizer' \in Resizers /\ forced' \in Nat
    BY <1>0, <1>3, SizesAreNumbers DEF ResizeForces
  <2> QED BY <1>3, <2>1 DEF ResizeForces, TypeOK, console, window
<1>4. CASE DisplayResized
  <2>1. disp' \in DisplaySizes /\ forced' \in Nat
    BY <1>4 DEF DisplayResized, TypeOK, NoSize, DisplaySizes
  <2>2. PICK b \in BOOLEAN : b = (monitor.due \/ forced # disp)
    OBVIOUS
  <2>3. monitor' = [monitor EXCEPT !.due = b]
    BY <1>4, <2>2 DEF DisplayResized
  <2>4. monitor' \in [size : DisplaySizes, due : BOOLEAN, changed : BOOLEAN]
    BY <2>3 DEF TypeOK
  <2> QED BY <1>4, <2>1, <2>4 DEF DisplayResized, TypeOK, console, window
<1>5. CASE MonitorChecks
  <2>1. PICK b \in BOOLEAN : b = (disp # monitor.size)
    OBVIOUS
  <2>2. monitor' = [size |-> disp, due |-> FALSE, changed |-> b]
    BY <1>5, <2>1 DEF MonitorChecks
  <2>3. monitor' \in [size : DisplaySizes, due : BOOLEAN, changed : BOOLEAN]
    BY <2>2 DEF TypeOK
  <2> QED BY <1>5, <2>3 DEF MonitorChecks, TypeOK, console, window
<1>6. CASE CheckReady
  <2>1. monitor' \in [size : DisplaySizes, due : BOOLEAN, changed : BOOLEAN]
    BY <1>6 DEF CheckReady, TypeOK
  <2>2. resizer' \in Resizers
    BY <1>0, <1>6 DEF CheckReady
  <2>3. start' \in Starts /\ toConsole' \in Seq(DisplaySizes)
    <3>1. CASE UNCHANGED <<start, toConsole>>
      BY <1>0, <3>1
    <3>2. CASE OnReady(disp)
      BY <3>2, ReadyTypes DEF TypeOK
    <3> QED BY <1>6, <3>1, <3>2 DEF CheckReady
  <2> QED BY <1>6, <2>1, <2>2, <2>3 DEF CheckReady, TypeOK, console, window
<1>7. CASE AppNotFound \/ WaitForInitialSize \/ LaunchApp
  <2>1. start' \in Starts
    BY <1>0, <1>7 DEF AppNotFound, WaitForInitialSize, LaunchApp
  <2> QED BY <1>7, <2>1
          DEF AppNotFound, WaitForInitialSize, LaunchApp, TypeOK, console, window
<1>8. CASE SendHeldDisplayReady
  <2>1. start' \in Starts
    BY <1>0, <1>8 DEF SendHeldDisplayReady, NoSize
  <2>2. HeldReady \in Seq(DisplaySizes)
    <3>1. start.held # NoSize => start.held \in DisplaySizes
      BY <1>0 DEF NoSize, DisplaySizes
    <3> QED BY <3>1 DEF HeldReady
  <2>3. toConsole' \in Seq(DisplaySizes)
    BY <1>0, <1>8, <2>2 DEF SendHeldDisplayReady
  <2> QED BY <1>8, <2>1, <2>3 DEF SendHeldDisplayReady, TypeOK, console, window
<1> QED BY <1>1, <1>2, <1>3, <1>4, <1>5, <1>6, <1>7, <1>8 DEF Device

(* What is left of the tracker's requests once one is found.                 *)
LEMMA TrackedTypes ==
    ASSUME NEW v \in Videos, NEW s
    PROVE  OnChanged(v, s) \in Videos
<1> DEFINE places == {i \in 1 .. Len(v.pending) : v.pending[i] = s}
<1>0. v.pending \in Seq(DisplaySizes) /\ Len(v.pending) \in Nat
  BY DEF Videos
<1>1. CASE places = {}
  <2>1. OnChanged(v, s) = [v EXCEPT !.request = NoSize, !.due = FALSE]
    BY <1>1 DEF OnChanged
  <2>2. NoSize \in Nat
    BY DEF NoSize
  <2> QED BY <2>1, <2>2 DEF Videos
<1>2. CASE places # {}
  <2>1. places \in SUBSET Nat
    BY <1>0
  <2>2. \E x \in places : \A y \in places : x <= y
    BY <1>2, <2>1, SomeLeast
  <2>3. Min(places) \in places
    BY <2>2 DEF Min
  <2>4. Min(places) \in 1 .. Len(v.pending)
    BY <2>3
  <2> DEFINE m == Min(places)
             q == SubSeq(v.pending, m + 1, Len(v.pending))
  <2>5. OnChanged(v, s) = [v EXCEPT !.pending = q]
    BY <1>2 DEF OnChanged
  <2> HIDE DEF m
  <2>6. q \in Seq(DisplaySizes)
    <3>1. m \in 1 .. Len(v.pending)
      BY <2>4 DEF m
    <3> QED BY <1>0, <3>1
  <2> HIDE DEF q
  <2> QED BY <2>5, <2>6 DEF Videos
<1> QED BY <1>1, <1>2

(* The device, for a new virtual display.                                    *)
LEMMA VideoTypes == TypeOK /\ VideoDevice => TypeOK'
<1> SUFFICES ASSUME TypeOK, VideoDevice PROVE TypeOK'
  OBVIOUS
<1>0. /\ video \in Videos /\ toDevice \in Seq(Sizes)
      /\ disp \in DisplaySizes /\ NoSize \in Nat
      /\ DisplaySizes \subseteq Nat
  BY DEF TypeOK, NoSize, DisplaySizes
<1>1. UNCHANGED <<mode, console, resizer, disp, start, overtaken, toConsole,
                  window>>
  BY DEF VideoDevice, VideoStep, RequestResize, DebounceElapses, DebouncerTakes,
         TriggerResize, CaptureReset, EncoderRestarts, StreamGoesOn
<1>2. ASSUME video' \in Videos, toDevice' \in Seq(Sizes), forced' \in Nat,
             monitor' \in [size : DisplaySizes, due : BOOLEAN, changed : BOOLEAN]
      PROVE  TypeOK'
  BY <1>1, <1>2 DEF TypeOK, console, window
<1>3. CASE RequestResize
  <2>1. Head(toDevice) \in Sizes /\ toDevice' \in Seq(Sizes)
    BY <1>0, <1>3 DEF RequestResize, VideoStep
  <2>2. Constrain(Head(toDevice)) \in Nat
    BY <1>0, <2>1, SizesAreNumbers, ConstrainedSize
  <2>3. PICK b \in BOOLEAN : b = (video.due /\ video.request # NoSize)
    OBVIOUS
  <2>4. video' = [video EXCEPT !.request = Constrain(Head(toDevice)), !.due = b]
    BY <1>3, <2>3 DEF RequestResize, VideoStep
  <2>5. video' \in Videos
    BY <1>0, <2>2, <2>4 DEF Videos
  <2> QED BY <1>2, <1>3, <2>1, <2>5 DEF RequestResize, TypeOK
<1>4. CASE DebounceElapses \/ DebouncerTakes
  <2>1. video' \in Videos
    BY <1>0, <1>4 DEF DebounceElapses, DebouncerTakes, VideoStep, Videos
  <2> QED BY <1>2, <1>4, <2>1 DEF DebounceElapses, DebouncerTakes, TypeOK
<1>5. CASE TriggerResize
  <2> DEFINE s == Constrain(video.taken)
  <2>1. s \in DisplaySizes
    BY <1>0, ConstrainedSize DEF Videos
  <2>2. video' = [video EXCEPT !.taken = NoSize, !.pending = Append(@, s)]
    BY <1>5 DEF TriggerResize, VideoStep
  <2>3. forced' = s /\ UNCHANGED <<toDevice, monitor>>
    BY <1>5 DEF TriggerResize
  <2> HIDE DEF s
  <2>4. Append(video.pending, s) \in Seq(DisplaySizes)
    BY <1>0, <2>1 DEF Videos
  <2>5. video' \in Videos
    BY <1>0, <2>2, <2>4 DEF Videos
  <2> QED BY <1>0, <1>2, <2>1, <2>3, <2>5 DEF TypeOK
<1>6. CASE CaptureReset
  <2>1. video' = [OnChanged(video, monitor.size) EXCEPT !.reset = TRUE]
    BY <1>6 DEF CaptureReset, VideoStep
  <2>2. video' \in Videos
    BY <1>0, <2>1, TrackedTypes DEF Videos
  <2>3. monitor' \in [size : DisplaySizes, due : BOOLEAN, changed : BOOLEAN]
    BY <1>6 DEF CaptureReset, TypeOK
  <2> QED BY <1>2, <1>6, <2>2, <2>3 DEF CaptureReset, TypeOK
<1>7. CASE EncoderRestarts
  <2> DEFINE s == Constrain(disp)
  <2>1. s \in DisplaySizes
    BY <1>0, ConstrainedSize
  <2>2. video' = [video EXCEPT !.reset = FALSE, !.stream = Append(@, s)]
    BY <1>7 DEF EncoderRestarts, VideoStep
  <2> HIDE DEF s
  <2>3. Append(video.stream, s) \in Seq(DisplaySizes) \ {<< >>}
    BY <1>0, <2>1 DEF Videos
  <2>4. video' \in Videos
    BY <1>0, <2>2, <2>3 DEF Videos
  <2> QED BY <1>2, <1>7, <2>4 DEF EncoderRestarts, TypeOK
<1>8. CASE StreamGoesOn
  <2>1. video' = [video EXCEPT !.stream = Tail(@)] /\ Len(video.stream) > 1
    BY <1>8 DEF StreamGoesOn, VideoStep
  <2>2. Tail(video.stream) \in Seq(DisplaySizes) \ {<< >>}
    <3> DEFINE n == Len(video.stream)
               q == Tail(video.stream)
    <3>1. video.stream \in Seq(DisplaySizes) /\ video.stream # << >>
      BY <1>0 DEF Videos
    <3>2. n \in Nat
      BY <3>1, LenProperties
    <3>3. q \in Seq(DisplaySizes) /\ Len(q) = n - 1
      BY <3>1, HeadTailProperties
    <3>4. n > 1
      BY <2>1
    <3> HIDE DEF n, q
    <3>5. Len(q) # 0
      BY <3>2, <3>3, <3>4
    <3>6. q # << >>
      BY <3>5, EmptySeq
    <3> QED BY <3>3, <3>6 DEF q
  <2>3. video' \in Videos
    BY <1>0, <2>1, <2>2 DEF Videos
  <2> QED BY <1>2, <1>8, <2>3 DEF StreamGoesOn, TypeOK
<1> QED BY <1>3, <1>4, <1>5, <1>6, <1>7, <1>8 DEF VideoDevice

(* Every step.                                                               *)
LEMMA TypeStep == TypeOK /\ [Next]_vars => TypeOK'
<1>1. TypeOK /\ UNCHANGED vars => TypeOK'
  BY DEF TypeOK, vars
<1> QED BY <1>1, TimeTypes, WindowTypes, DisplayReadyTypes, FrameTypes,
           OnTimerTypes, OtherConsoleTypes, DeviceTypes, VideoTypes
        DEF Next, Ui
-----------------------------------------------------------------------------
(* The window's size.                                                        *)

(* Only these change what is shown, asked for, held or faded.                *)
LEMMA QuietFlex ==
    ASSUME TypeOK, UNCHANGED mode,
           flex' = flex \/ Time \/ OnRawFrame
    PROVE  /\ ShownIsAsked => ShownIsAsked'
           /\ NoFadeInHold => NoFadeInHold'
           /\ TimerWork' => TimerWork
<1>1. flex \in FlexStates
  BY DEF TypeOK
<1>2. /\ flex'.pending = flex.pending /\ flex'.requested = flex.requested
      /\ flex'.shown = flex.shown /\ flex'.holding = flex.holding
      /\ flex'.ready = flex.ready
      /\ flex'.fadeIn => flex.fadeIn
      /\ flex'.fade # flex.fade => flex.fade = "running"
      /\ flex'.fade = "running" => flex.fade = "running"
  BY <1>1 DEF FlexStates, Time, Elapse, QuietElapses, SettleElapses,
              IdleElapses, FadeInElapses, FadeOutElapses, OnRawFrame
<1> QED BY <1>1, <1>2
        DEF ShownIsAsked, NoFadeInHold, TimerWork, TimerWanted, Unsent,
            Settling, Animating, Raw

(* A resized window is held, unless it has the size that is shown.           *)
LEMMA WindowKeepsSize ==
    ASSUME TypeOK, NEW s \in Sizes, OnWindowSize(s)
    PROVE  /\ ShownIsAsked => ShownIsAsked'
           /\ NoFadeInHold => NoFadeInHold'
<1>1. flex \in FlexStates
  BY DEF TypeOK
<1>2. PICK b \in BOOLEAN :
        flex' = [(IF StartsHold(s) THEN StartHold(flex, b) ELSE flex)
                     EXCEPT !.pending = s, !.due = (flex.requested = NoSize)]
  BY DEF OnWindowSize
<1>3. CASE StartsHold(s)
  <2>1. flex'.holding /\ flex'.fade = "none"
    BY <1>1, <1>2, <1>3 DEF StartHold, NotReady, FlexStates
  <2> QED BY <2>1 DEF ShownIsAsked, NoFadeInHold
<1>4. CASE ~StartsHold(s)
  <2>1. /\ flex'.holding = flex.holding /\ flex'.fade = flex.fade
    BY <1>1, <1>2, <1>4 DEF FlexStates
  <2>2. Raw /\ ShownIsAsked => flex.holding
    BY <1>4 DEF StartsHold, ShownIsAsked, OnWindowSize
  <2> QED BY <2>1, <2>2 DEF ShownIsAsked, NoFadeInHold, Raw, OnWindowSize
<1> QED BY <1>3, <1>4

(* What a FLEX_TIMER makes of a raw window that is not held, and of a hold.  *)
LEMMA OnTimerKeepsSize ==
    ASSUME TypeOK, OnTimer, ShownIsAsked, NoFadeInHold
    PROVE  ShownIsAsked' /\ NoFadeInHold'
<1> DEFINE f1 == AfterRequest(flex)
           f2 == AfterSettling(f1)
<1>1. flex \in FlexStates /\ mode \in Modes
  BY DEF TypeOK
<1>2. f1 \in FlexStates /\ f2 \in FlexStates
  BY <1>1, FlexSteps
<1>3. /\ f1.holding = flex.holding /\ f1.fade = flex.fade
      /\ f1.shown = flex.shown /\ f1.pending = flex.pending
      /\ f1.requested = flex.requested \/ f1.requested = flex.pending
  BY <1>1 DEF AfterRequest, NotReady, FlexStates
<1>4. Raw /\ ~f1.holding => f1.shown = f1.pending /\ f1.requested = f1.pending
  BY <1>3 DEF ShownIsAsked
<1>5. f1.holding => f1.fade = "none"
  BY <1>3 DEF NoFadeInHold
<1> HIDE DEF f1
<1>6. /\ Raw /\ ~f2.holding => f2.shown = f2.pending /\ f2.requested = f2.pending
      /\ f2.holding => f2.fade = "none"
  <2>1. CASE f2 = f1
    BY <1>4, <1>5, <2>1
  <2>2. CASE f2 = Release(f1) /\ f1.pending = f1.requested
    BY <1>2, <2>2 DEF Release, NotReady, FlexStates
  <2>3. CASE f1.holding /\ f2 = [NotReady(f1) EXCEPT
                                   !.shown = IF Raw THEN f1.requested ELSE @]
    BY <1>2, <1>5, <2>3 DEF NotReady, FlexStates
  <2> QED BY <2>1, <2>2, <2>3 DEF AfterSettling, Settling
<1> HIDE DEF f2
<1>7. /\ flex'.holding = f2.holding /\ flex'.pending = f2.pending
      /\ flex'.requested = f2.requested /\ flex'.shown = f2.shown
      /\ flex'.fade = f2.fade \/ flex'.fade = "none"
  <2>1. flex' = AfterAnimations(f2)
    BY DEF OnTimer, f1, f2
  <2> QED BY <1>2, <2>1 DEF AfterAnimations, FlexStates
<1>8. mode' = mode
  BY DEF OnTimer
<1> QED BY <1>6, <1>7, <1>8 DEF ShownIsAsked, NoFadeInHold, Raw

(* A confirmation and a frame of a video leave the sizes of a raw window     *)
(* alone.                                                                    *)
LEMMA ReadyAndVideoKeepSize ==
    ASSUME TypeOK, OnDisplayReady \/ OnVideoFrame,
           ShownIsAsked, NoFadeInHold
    PROVE  ShownIsAsked' /\ NoFadeInHold'
<1>1. flex \in FlexStates
  BY DEF TypeOK
<1>2. CASE OnDisplayReady
  <2>1. /\ flex'.pending = flex.pending /\ flex'.requested = flex.requested
        /\ flex'.shown = flex.shown /\ flex'.holding = flex.holding
        /\ flex'.fade = flex.fade /\ mode' = mode
    BY <1>1, <1>2 DEF OnDisplayReady, Confirms, NotReady, FlexStates
  <2> QED BY <2>1 DEF ShownIsAsked, NoFadeInHold, Raw
<1>3. CASE OnVideoFrame
  <2> DEFINE f == [flex EXCEPT !.shown = Head(video.stream), !.idle = FALSE,
                               !.drawn = flex.ready]
  <2>1. f \in FlexStates /\ f.holding = flex.holding /\ f.fade = flex.fade
    <3>1. Head(video.stream) \in Nat
      BY DEF TypeOK, Videos, DisplaySizes
    <3> HIDE DEF FlexStates
    <3> QED BY <1>1, <3>1 DEF FlexStates
  <2>2. flex' = f \/ flex' = Release(f)
    BY <1>3 DEF OnVideoFrame
  <2> HIDE DEF f
  <2>3. NoFadeInHold'
    BY <2>1, <2>2 DEF NoFadeInHold, Release, NotReady, FlexStates
  <2>4. ~Raw /\ mode' = mode
    BY <1>3 DEF OnVideoFrame
  <2> QED BY <2>3, <2>4 DEF ShownIsAsked, Raw
<1> QED BY <1>2, <1>3
-----------------------------------------------------------------------------
(* The way of a request.                                                     *)

(* What WayInv says of, and what a step leaves of it.                        *)
LEMMA WaySteady ==
    ASSUME WayInv, UNCHANGED <<mode, slot, toDevice, resizer, disp, forced,
                               toConsole, seen, repeated>>,
           start'.held = start.held,
           flex'.pending = flex.pending, flex'.requested = flex.requested,
           flex'.ready => flex.ready, flex'.holding = flex.holding
    PROVE  WayInv'
<1> SUFFICES ASSUME Raw', ~repeated'
             PROVE  (/\ SizesAreOld /\ NothingAsked /\ NewestIsAsked
                     /\ AskedAlready /\ ToldTheTruth)'
  BY DEF WayInv
<1>1. /\ SizesAreOld /\ NothingAsked /\ NewestIsAsked
      /\ AskedAlready /\ ToldTheTruth
  BY DEF WayInv, Raw
<1>2. UNCHANGED <<Asked, NothingSent, AllRead, Arrived, OldSizes>>
  BY DEF Asked, NothingSent, AllRead, Arrived, OldSizes, Unsent
<1>3. SizesAreOld'
  BY <1>1, <1>2 DEF SizesAreOld
<1>4. NothingAsked' /\ ToldTheTruth'
  BY <1>1, <1>2 DEF NothingAsked, ToldTheTruth, Told
<1>5. NewestIsAsked' /\ AskedAlready'
  BY <1>1, <1>2 DEF NewestIsAsked, AskedAlready
<1> QED BY <1>3, <1>4, <1>5

(* A new size of the window is a new size, or comes before the first request. *)
LEMMA WindowKeepsWay ==
    ASSUME TypeOK, ShownIsAsked, WayInv, NEW s \in Sizes, OnWindowSize(s)
    PROVE  WayInv'
<1> SUFFICES ASSUME Raw', ~repeated'
             PROVE  (/\ SizesAreOld /\ NothingAsked /\ NewestIsAsked
                     /\ AskedAlready /\ ToldTheTruth)'
  BY DEF WayInv
<1>0. /\ UNCHANGED <<mode, slot, toDevice, resizer, disp, forced, start,
                     toConsole>>
      /\ ~repeated /\ seen' = seen \cup {s}
      /\ flex.pending # NoSize => s \notin seen
      /\ s # NoSize /\ s # flex.pending /\ Raw
  BY SizesAssumption DEF OnWindowSize, device, NoSize, Raw
<1>1. /\ SizesAreOld /\ NothingAsked /\ NewestIsAsked
      /\ AskedAlready /\ ToldTheTruth
  BY <1>0 DEF WayInv
<1>2. flex \in FlexStates
  BY DEF TypeOK
<1>3. PICK b \in BOOLEAN :
        flex' = [(IF StartsHold(s) THEN StartHold(flex, b) ELSE flex)
                     EXCEPT !.pending = s, !.due = (flex.requested = NoSize)]
  BY DEF OnWindowSize
<1>4. /\ flex'.pending = s /\ flex'.requested = flex.requested
      /\ flex'.ready => flex.ready
      /\ flex.holding => flex'.holding
      /\ ~StartsHold(s) => flex'.holding = flex.holding
      /\ StartsHold(s) => flex'.holding /\ ~flex'.ready
  BY <1>2, <1>3 DEF StartHold, NotReady, FlexStates
<1>5. flex'.holding
  BY <1>0, <1>4 DEF StartsHold, ShownIsAsked
<1>6. UNCHANGED <<Asked, NothingSent, AllRead, Arrived>>
  BY <1>0, <1>4 DEF Asked, NothingSent, AllRead, Arrived
<1>7. OldSizes \subseteq OldSizes'
  <2>1. CASE Asked = NoSize
    BY <1>0, <1>6, <2>1 DEF OldSizes
  <2>2. CASE Asked # NoSize
    <3>1. s \notin seen /\ Asked \in seen
      BY <1>0, <1>1, <2>2 DEF SizesAreOld, OldSizes
    <3>2. OldSizes' = seen
      BY <1>0, <1>4, <1>6, <2>2, <3>1 DEF OldSizes, Unsent, Asked
    <3> QED BY <3>2 DEF OldSizes
  <2> QED BY <2>1, <2>2
<1>8. SizesAreOld'
  BY <1>0, <1>1, <1>4, <1>6, <1>7 DEF SizesAreOld
<1>9. NothingAsked' /\ ToldTheTruth'
  BY <1>0, <1>1, <1>4, <1>5, <1>6 DEF NothingAsked, ToldTheTruth, Told
<1>10. NewestIsAsked' /\ AskedAlready'
  BY <1>0, <1>1, <1>6 DEF NewestIsAsked, AskedAlready
<1> QED BY <1>8, <1>9, <1>10

(* What a FLEX_TIMER sends is new; it ends a hold only if the request has    *)
(* been confirmed.                                                           *)
LEMMA OnTimerKeepsWay ==
    ASSUME TypeOK, ShownIsAsked, WayInv, OnTimer
    PROVE  WayInv'
<1> SUFFICES ASSUME Raw', ~repeated'
             PROVE  (/\ SizesAreOld /\ NothingAsked /\ NewestIsAsked
                     /\ AskedAlready /\ ToldTheTruth)'
  BY DEF WayInv
<1>0. /\ UNCHANGED <<mode, toDevice, resizer, disp, forced, start, toConsole,
                     seen, repeated>>
      /\ Raw /\ ~repeated
  BY DEF OnTimer, device, window, Raw
<1>1. /\ SizesAreOld /\ NothingAsked /\ NewestIsAsked
      /\ AskedAlready /\ ToldTheTruth
  BY <1>0 DEF WayInv
<1> DEFINE f1 == AfterRequest(flex)
           f2 == AfterSettling(f1)
<1>2. flex \in FlexStates /\ f1 \in FlexStates /\ f2 \in FlexStates
  BY FlexSteps DEF TypeOK
<1>3. /\ f1.pending = flex.pending /\ f1.holding = flex.holding
      /\ Sends(flex) => f1.requested = flex.pending /\ ~f1.ready
      /\ ~Sends(flex) => f1 = flex
  <2>1. CASE Sends(flex)
    <3>1. f1 = [NotReady(flex) EXCEPT !.requested = flex.pending, !.frames = 0,
                                      !.ready = FALSE,
                                      !.unchanged = flex.unchanged]
      BY <1>0, <1>2, <2>1 DEF AfterRequest, NotReady, FlexStates
    <3> QED BY <1>2, <2>1, <3>1 DEF NotReady, FlexStates
  <2>2. CASE ~Sends(flex)
    BY <2>2 DEF AfterRequest
  <2> QED BY <2>1, <2>2
<1>4. flex' = AfterAnimations(f2)
  BY DEF OnTimer
<1> HIDE DEF f1
<1>5. /\ f2.pending = f1.pending /\ f2.requested = f1.requested
      /\ f2.ready => f1.ready
      /\ ~f2.holding => ~f1.holding \/ f1.ready
  BY <1>2 DEF AfterSettling, Settling, Release, NotReady, FlexStates
<1> HIDE DEF f2
<1>6. /\ flex'.pending = f2.pending /\ flex'.requested = f2.requested
      /\ flex'.ready = f2.ready /\ flex'.holding = f2.holding
  BY <1>2, <1>4 DEF AfterAnimations, FlexStates
<1>7. CASE ~Sends(flex)
  <2>1. /\ flex'.pending = flex.pending /\ flex'.requested = flex.requested
        /\ flex'.ready => flex.ready
        /\ ~flex'.holding => ~flex.holding \/ flex.ready
        /\ slot' = slot
    BY <1>3, <1>5, <1>6, <1>7 DEF OnTimer
  <2>2. UNCHANGED <<Asked, NothingSent, AllRead, Arrived, OldSizes>>
    BY <1>0, <2>1 DEF Asked, NothingSent, AllRead, Arrived, OldSizes, Unsent
  <2>3. SizesAreOld'
    BY <1>0, <1>1, <2>1, <2>2 DEF SizesAreOld
  <2>4. NothingAsked' /\ ToldTheTruth'
    BY <1>0, <1>1, <2>1, <2>2 DEF NothingAsked, ToldTheTruth, Told
  <2>5. NewestIsAsked' /\ AskedAlready'
    BY <1>0, <1>1, <2>1, <2>2 DEF NewestIsAsked, AskedAlready
  <2> QED BY <2>3, <2>4, <2>5
<1>8. CASE Sends(flex)
  <2> DEFINE s == flex.pending
  <2>1. /\ flex'.pending = s /\ flex'.requested = s /\ slot' = s
        /\ ~flex'.ready /\ s # NoSize /\ s # flex.requested
    BY <1>3, <1>5, <1>6, <1>8 DEF OnTimer, ResizeDisplay, Sends, Unsent
  <2>2. flex'.holding
    BY <1>0, <1>3, <1>5, <1>6, <1>8, <2>1 DEF ShownIsAsked, Sends, Unsent
  <2>3. /\ Asked' = s /\ Asked # s /\ Asked' # NoSize
        /\ ~NothingSent' /\ ~AllRead' /\ ~Arrived' /\ OldSizes' = seen
    BY <1>0, <2>1 DEF Asked, NothingSent, AllRead, Arrived, OldSizes, Unsent
  <2>4. s \in seen /\ OldSizes \subseteq seen
    BY <1>1, <2>1 DEF SizesAreOld, OldSizes
  <2>5. SizesAreOld'
    BY <1>0, <1>1, <2>1, <2>3, <2>4 DEF SizesAreOld
  <2>6. NothingAsked'
    BY <2>3 DEF NothingAsked
  <2>7. CASE Asked = NoSize
    <3>1. /\ toDevice = << >> /\ resizer.pc = "idle" /\ forced = NoSize
          /\ resizer.pendingSize = NoSize /\ toConsole = << >>
          /\ start.held = NoSize
      BY <1>1, <2>7 DEF NothingAsked, Arrived, AllRead, NothingSent
    <3>2. NewestIsAsked'
      BY <1>0, <2>1, <2>3, <3>1 DEF NewestIsAsked
    <3>3. AskedAlready'
      BY <1>0, <2>1, <2>3, <3>1 DEF AskedAlready
    <3>4. ToldTheTruth'
      BY <1>0, <2>1, <2>2, <2>3, <3>1 DEF ToldTheTruth, Told
    <3> QED BY <2>5, <2>6, <3>2, <3>3, <3>4
  <2>8. CASE Asked # NoSize
    <3>1. s \notin OldSizes
      BY <1>8, <2>8 DEF OldSizes, Sends
    <3>2. NewestIsAsked'
      BY <1>0, <1>1, <2>1, <2>3, <3>1 DEF NewestIsAsked, SizesAreOld
    <3>3. AskedAlready'
      BY <1>0, <1>1, <2>3, <3>1 DEF AskedAlready, SizesAreOld
    <3>4. ToldTheTruth'
      BY <1>0, <1>1, <2>1, <2>2, <2>3, <3>1 DEF ToldTheTruth, Told, SizesAreOld
    <3> QED BY <2>5, <2>6, <3>2, <3>3, <3>4
  <2> QED BY <2>7, <2>8
<1> QED BY <1>7, <1>8

(* A confirmation of the request comes after it has arrived.                 *)
LEMMA DisplayReadyKeepsWay ==
    ASSUME TypeOK, WayInv, OnDisplayReady
    PROVE  WayInv'
<1> SUFFICES ASSUME Raw', ~repeated'
             PROVE  (/\ SizesAreOld /\ NothingAsked /\ NewestIsAsked
                     /\ AskedAlready /\ ToldTheTruth)'
  BY DEF WayInv
<1>0. /\ UNCHANGED <<mode, slot, toDevice, resizer, disp, forced, start, seen,
                     repeated>>
      /\ Raw /\ ~repeated
  BY DEF OnDisplayReady, device, window, Raw
<1>1. /\ SizesAreOld /\ NothingAsked /\ NewestIsAsked
      /\ AskedAlready /\ ToldTheTruth
  BY <1>0 DEF WayInv
<1>2. flex \in FlexStates
  BY DEF TypeOK
<1>3. /\ flex'.pending = flex.pending /\ flex'.requested = flex.requested
      /\ flex'.holding = flex.holding
      /\ flex'.ready => flex.ready \/ Head(toConsole) = flex.requested
  BY <1>2 DEF OnDisplayReady, Confirms, NotReady, FlexStates
<1>4. /\ toConsole \in Seq(DisplaySizes) /\ toConsole # << >>
      /\ toConsole' = Tail(toConsole)
  BY DEF TypeOK, OnDisplayReady
<1>5. /\ 1 \in 1 .. Len(toConsole) /\ Head(toConsole) = toConsole[1]
      /\ \A i \in 1 .. Len(toConsole') :
            i + 1 \in 1 .. Len(toConsole) /\ toConsole'[i] = toConsole[i + 1]
  BY <1>4
<1>6. UNCHANGED <<Asked, NothingSent, AllRead, Arrived, OldSizes>>
  BY <1>0, <1>3 DEF Asked, NothingSent, AllRead, Arrived, OldSizes, Unsent
<1>7. SizesAreOld'
  BY <1>0, <1>1, <1>3, <1>5, <1>6 DEF SizesAreOld
<1>8. Told' => Told
  BY <1>0, <1>3, <1>5, <1>6 DEF Told, Asked
<1>9. NothingAsked'
  BY <1>1, <1>4, <1>6 DEF NothingAsked
<1>10. ToldTheTruth'
  BY <1>1, <1>6, <1>8 DEF ToldTheTruth
<1>11. NewestIsAsked' /\ AskedAlready'
  BY <1>0, <1>1, <1>6 DEF NewestIsAsked, AskedAlready
<1> QED BY <1>7, <1>9, <1>10, <1>11

(* The control thread takes the request from the slot.                       *)
LEMMA ControllerKeepsWay ==
    ASSUME TypeOK, WayInv, ControllerSends
    PROVE  WayInv'
<1> SUFFICES ASSUME Raw', ~repeated'
             PROVE  (/\ SizesAreOld /\ NothingAsked /\ NewestIsAsked
                     /\ AskedAlready /\ ToldTheTruth)'
  BY DEF WayInv
<1>0. /\ UNCHANGED <<mode, flex, resizer, disp, forced, start, toConsole, seen,
                     repeated>>
      /\ Raw /\ ~repeated
      /\ slot # NoSize /\ slot' = NoSize /\ toDevice' = Append(toDevice, slot)
  BY DEF ControllerSends, device, window, Raw
<1>1. /\ SizesAreOld /\ NothingAsked /\ NewestIsAsked
      /\ AskedAlready /\ ToldTheTruth
  BY <1>0 DEF WayInv
<1>2. toDevice \in Seq(Sizes) /\ slot \in Sizes
  BY <1>0 DEF TypeOK, SizesOrNone
<1>3. /\ Len(toDevice') = Len(toDevice) + 1 /\ Len(toDevice) \in Nat
      /\ toDevice'[Len(toDevice')] = slot
      /\ \A i \in 1 .. Len(toDevice) : toDevice'[i] = toDevice[i]
  BY <1>0, <1>2
<1>4. Asked # NoSize /\ slot = Asked
  BY <1>0, <1>1 DEF NothingAsked, NewestIsAsked, Arrived, AllRead, NothingSent
<1>5. /\ UNCHANGED <<Asked, OldSizes>> /\ toDevice' # << >>
      /\ ~NothingSent /\ ~AllRead /\ ~Arrived
      /\ ~NothingSent' /\ ~AllRead' /\ ~Arrived'
  BY <1>0, <1>2, <1>3 DEF Asked, NothingSent, AllRead, Arrived, OldSizes
<1>6. \A i \in 1 .. Len(toDevice) : toDevice[i] # Asked
  BY <1>0, <1>1, <1>4 DEF NewestIsAsked
<1>7. SizesAreOld'
  BY <1>0, <1>1, <1>3, <1>5 DEF SizesAreOld
<1>8. NothingAsked' /\ ToldTheTruth'
  BY <1>0, <1>1, <1>4, <1>5 DEF NothingAsked, ToldTheTruth, Told
<1>9. NewestIsAsked'
  BY <1>0, <1>1, <1>3, <1>4, <1>5, <1>6 DEF NewestIsAsked
<1>10. AskedAlready'
  BY <1>0, <1>1, <1>3, <1>4, <1>5 DEF AskedAlready
<1> QED BY <1>7, <1>8, <1>9, <1>10

(* Telling the console, or the app start, of a size.                         *)
LEMMA OnReadyTells ==
    ASSUME TypeOK, NEW s \in DisplaySizes, OnReady(s), UNCHANGED flex
    PROVE  /\ Told' => Told \/ s = Asked
           /\ start'.held \in {start.held, s}
           /\ \A i \in 1 .. Len(toConsole') :
                 toConsole'[i] = s \/ (i \in 1 .. Len(toConsole)
                                       /\ toConsole'[i] = toConsole[i])
<1>1. toConsole \in Seq(DisplaySizes)
  BY DEF TypeOK
<1>2. start'.held \in {start.held, s}
  BY DEF OnReady, TypeOK
<1>3. \A i \in 1 .. Len(toConsole') :
        toConsole'[i] = s \/ (i \in 1 .. Len(toConsole)
                              /\ toConsole'[i] = toConsole[i])
  BY <1>1 DEF OnReady
<1> QED BY <1>2, <1>3 DEF Told, Asked

(* resize() reads the last request only once everything before it is done.   *)
LEMMA ReadsInfoKeepsWay ==
    ASSUME TypeOK, WayInv, ResizeReadsInfo
    PROVE  WayInv'
<1> SUFFICES ASSUME Raw', ~repeated'
             PROVE  (/\ SizesAreOld /\ NothingAsked /\ NewestIsAsked
                     /\ AskedAlready /\ ToldTheTruth)'
  BY DEF WayInv
<1> DEFINE s == Head(toDevice)
<1>0. /\ UNCHANGED <<mode, flex, slot, disp, forced, seen, repeated>>
      /\ Raw /\ ~repeated /\ resizer.pc = "idle"
      /\ toDevice # << >> /\ toDevice' = Tail(toDevice)
  BY DEF ResizeReadsInfo, console, window, Raw
<1>1. /\ SizesAreOld /\ NothingAsked /\ NewestIsAsked
      /\ AskedAlready /\ ToldTheTruth
  BY <1>0 DEF WayInv
<1>2. /\ toDevice \in Seq(Sizes) /\ s \in Sizes /\ s \in DisplaySizes
      /\ resizer \in [pc : {"idle", "pending", "force"}, size : SizesOrNone,
                      pendingSize : SizesOrNone]
  BY <1>0, SizesAreNumbers DEF TypeOK
<1>3. /\ Len(toDevice') = Len(toDevice) - 1
      /\ Len(toDevice) \in Nat \ {0} /\ s = toDevice[1]
      /\ \A i \in 1 .. Len(toDevice') : toDevice'[i] = toDevice[i + 1]
      /\ toDevice' = << >> <=> Len(toDevice) = 1
  <2>1. /\ toDevice' \in Seq(Sizes) /\ Len(toDevice') = Len(toDevice) - 1
        /\ Len(toDevice) \in Nat \ {0} /\ s = toDevice[1]
    BY <1>0, <1>2
  <2>2. \A i \in 1 .. Len(toDevice') : toDevice'[i] = toDevice[i + 1]
    BY <1>0, <1>2
  <2>3. toDevice' = << >> <=> Len(toDevice') = 0
    BY <2>1, EmptySeq
  <2> QED BY <2>1, <2>2, <2>3
<1>4. Asked # NoSize
  BY <1>0, <1>1 DEF NothingAsked, Arrived, AllRead, NothingSent
<1>5. /\ UNCHANGED <<Asked, OldSizes>>
      /\ ~NothingSent /\ ~AllRead /\ ~Arrived
  <2>1. ~NothingSent /\ ~AllRead /\ ~Arrived
    BY <1>0 DEF NothingSent, AllRead, Arrived
  <2>2. UNCHANGED <<Asked, OldSizes>>
    BY <1>0 DEF Asked, OldSizes, Unsent
  <2> QED BY <2>1, <2>2
<1>6. /\ NothingSent' <=> slot = NoSize /\ Len(toDevice) = 1
      /\ s = Asked <=> NothingSent'
  <2>1. NothingSent' <=> slot = NoSize /\ Len(toDevice) = 1
    BY <1>0, <1>3 DEF NothingSent
  <2>2. 1 \in 1 .. Len(toDevice)
    BY <1>3
  <2>3. toDevice[1] = Asked <=> slot = NoSize /\ 1 = Len(toDevice)
    BY <1>1, <1>4, <2>2 DEF NewestIsAsked
  <2> HIDE DEF s
  <2> QED BY <1>3, <2>1, <2>3
<1>7. ~Told /\ forced # Asked
  BY <1>1, <1>4, <1>5 DEF ToldTheTruth, NewestIsAsked
<1>8. s \in OldSizes
  BY <1>1, <1>3 DEF SizesAreOld
<1>9. \A i \in 1 .. Len(toDevice') :
        /\ toDevice'[i] \in OldSizes
        /\ toDevice'[i] = Asked <=> slot = NoSize /\ i = Len(toDevice')
  BY <1>1, <1>3, <1>4 DEF SizesAreOld, NewestIsAsked
<1> HIDE DEF s
<1>10. CASE s = disp
  <2>1. OnReady(s) /\ resizer' = [resizer EXCEPT !.pendingSize = NoSize]
    BY <1>0, <1>10 DEF ResizeReadsInfo, s
  <2>2. /\ Told' => Told \/ s = Asked
        /\ start'.held \in {start.held, s}
        /\ \A i \in 1 .. Len(toConsole') :
              toConsole'[i] = s \/ (i \in 1 .. Len(toConsole)
                                    /\ toConsole'[i] = toConsole[i])
    BY <1>0, <1>2, <2>1, OnReadyTells
  <2>3. /\ resizer'.pc = "idle" /\ resizer'.size = resizer.size
        /\ resizer'.pendingSize = NoSize
    BY <1>0, <1>2, <2>1
  <2>4. SizesAreOld'
    BY <1>0, <1>1, <1>5, <1>8, <1>9, <2>2, <2>3 DEF SizesAreOld
  <2>5. NothingAsked'
    BY <1>4, <1>5 DEF NothingAsked
  <2>6. s = Asked => forced = NoSize /\ Arrived'
    BY <1>0, <1>1, <1>5, <1>6, <1>10, <2>3
    DEF AskedAlready, Arrived, AllRead
  <2>7. s # Asked => ~NothingSent' /\ ~AllRead' /\ ~Arrived'
    BY <1>6 DEF Arrived, AllRead
  <2>8. NewestIsAsked'
    BY <1>0, <1>1, <1>4, <1>5, <1>6, <1>7, <1>9, <1>10, <2>3, <2>6, <2>7
    DEF NewestIsAsked
  <2>9. AskedAlready'
    BY <1>0, <1>5, <1>10, <2>6 DEF AskedAlready
  <2>10. ToldTheTruth'
    BY <1>5, <1>7, <2>2, <2>6 DEF ToldTheTruth
  <2> QED BY <2>4, <2>5, <2>8, <2>9, <2>10
<1>11. CASE s # disp
  <2>1. /\ resizer' = [resizer EXCEPT !.pc = "pending", !.size = s]
        /\ UNCHANGED <<start, toConsole>>
    BY <1>0, <1>11 DEF ResizeReadsInfo, s
  <2>2. /\ resizer'.pc = "pending" /\ resizer'.size = s
        /\ resizer'.pendingSize = resizer.pendingSize
    BY <1>2, <2>1
  <2>3. ~AllRead' /\ ~Arrived'
    BY <2>2 DEF AllRead, Arrived
  <2>4. SizesAreOld'
    BY <1>0, <1>1, <1>5, <1>8, <1>9, <2>1, <2>2 DEF SizesAreOld
  <2>5. NothingAsked'
    BY <1>4, <1>5 DEF NothingAsked
  <2>6. NewestIsAsked'
    BY <1>0, <1>1, <1>4, <1>5, <1>6, <1>7, <1>9, <2>2, <2>3 DEF NewestIsAsked
  <2>7. disp # Asked
    BY <1>1, <1>3, <1>5, <1>11 DEF AskedAlready
  <2>8. AskedAlready'
    BY <1>0, <1>5, <2>7 DEF AskedAlready
  <2>9. ToldTheTruth'
    BY <1>0, <1>5, <1>7, <2>1 DEF ToldTheTruth, Told
  <2> QED BY <2>4, <2>5, <2>6, <2>8, <2>9
<1> QED BY <1>10, <1>11

(* resize() records and forces the size it has read, and Android applies it. *)
LEMMA ForcingKeepsWay ==
    ASSUME TypeOK, WayInv, ResizeSetsPending \/ ResizeForces \/ DisplayResized
    PROVE  WayInv'
<1> SUFFICES ASSUME Raw', ~repeated'
             PROVE  (/\ SizesAreOld /\ NothingAsked /\ NewestIsAsked
                     /\ AskedAlready /\ ToldTheTruth)'
  BY DEF WayInv
<1>0. /\ UNCHANGED <<mode, flex, slot, toDevice, start, toConsole, seen,
                     repeated>>
      /\ Raw /\ ~repeated
  BY DEF ResizeSetsPending, ResizeForces, DisplayResized, console, window, Raw
<1>1. /\ SizesAreOld /\ NothingAsked /\ NewestIsAsked
      /\ AskedAlready /\ ToldTheTruth
  BY <1>0 DEF WayInv
<1>2. resizer \in [pc : {"idle", "pending", "force"}, size : SizesOrNone,
                   pendingSize : SizesOrNone]
  BY DEF TypeOK
<1>3. /\ UNCHANGED <<Asked, OldSizes, NothingSent, Told>>
  BY <1>0 DEF Asked, OldSizes, NothingSent, Told
<1>4. ~Arrived /\ Asked # NoSize
  BY <1>1, <1>2 DEF NothingAsked, Arrived, AllRead, ResizeSetsPending,
                    ResizeForces, DisplayResized
<1>5. ~Told
  BY <1>1, <1>4 DEF ToldTheTruth
<1>6. NothingAsked' /\ ToldTheTruth'
  BY <1>3, <1>4, <1>5 DEF NothingAsked, ToldTheTruth
<1>7. CASE ResizeSetsPending
  <2>1. /\ resizer.pc = "pending" /\ resizer'.pc = "force"
        /\ resizer'.size = resizer.size /\ resizer'.pendingSize = resizer.size
        /\ UNCHANGED <<disp, forced>>
    BY <1>2, <1>7 DEF ResizeSetsPending
  <2>2. ~AllRead /\ ~AllRead' /\ ~Arrived'
    BY <2>1 DEF AllRead, Arrived
  <2>3. disp # Asked
    BY <1>1, <1>4, <2>1 DEF AskedAlready
  <2>4. SizesAreOld'
    BY <1>0, <1>1, <1>3, <2>1 DEF SizesAreOld
  <2>5. NewestIsAsked' /\ AskedAlready'
    BY <1>0, <1>1, <1>3, <1>4, <2>1, <2>2, <2>3 DEF NewestIsAsked, AskedAlready
  <2> QED BY <1>6, <2>4, <2>5
<1>8. CASE ResizeForces
  <2>1. /\ resizer.pc = "force" /\ resizer'.pc = "idle"
        /\ resizer'.size = NoSize /\ resizer'.pendingSize = resizer.pendingSize
        /\ forced' = resizer.size /\ UNCHANGED disp
    BY <1>2, <1>8 DEF ResizeForces
  <2>2. /\ ~AllRead /\ AllRead' <=> NothingSent
        /\ NothingSent => forced' = Asked
        /\ ~NothingSent => forced' # Asked /\ ~AllRead' /\ ~Arrived'
    BY <1>1, <1>3, <1>4, <2>1 DEF AllRead, Arrived, NewestIsAsked
  <2>3. ~Arrived'
    BY <1>4, <2>2 DEF Arrived
  <2>4. disp # Asked
    BY <1>1, <1>4, <2>1 DEF AskedAlready
  <2>5. SizesAreOld'
    BY <1>0, <1>1, <1>3, <2>1 DEF SizesAreOld
  <2>6. NewestIsAsked' /\ AskedAlready'
    BY <1>0, <1>1, <1>3, <1>4, <2>1, <2>2, <2>3, <2>4
    DEF NewestIsAsked, AskedAlready
  <2> QED BY <1>6, <2>5, <2>6
<1>9. CASE DisplayResized
  <2>1. /\ forced # NoSize /\ disp' = forced /\ forced' = NoSize
        /\ UNCHANGED resizer
    BY <1>9 DEF DisplayResized
  <2>2. UNCHANGED AllRead /\ (Arrived' <=> AllRead)
    BY <1>3, <2>1 DEF AllRead, Arrived
  <2>3. disp' = Asked <=> AllRead
    BY <1>1, <1>4, <2>1 DEF NewestIsAsked
  <2>4. SizesAreOld'
    BY <1>0, <1>1, <1>3, <2>1 DEF SizesAreOld
  <2>5. NewestIsAsked' /\ AskedAlready'
    BY <1>0, <1>1, <1>3, <1>4, <2>1, <2>2, <2>3 DEF NewestIsAsked, AskedAlready
  <2> QED BY <1>6, <2>4, <2>5
<1> QED BY <1>7, <1>8, <1>9

(* checkReady confirms the last request only if it has arrived.              *)
LEMMA CheckReadyKeepsWay ==
    ASSUME TypeOK, WayInv, CheckReady
    PROVE  WayInv'
<1> SUFFICES ASSUME Raw', ~repeated'
             PROVE  (/\ SizesAreOld /\ NothingAsked /\ NewestIsAsked
                     /\ AskedAlready /\ ToldTheTruth)'
  BY DEF WayInv
<1>0. /\ UNCHANGED <<mode, flex, slot, toDevice, disp, forced, seen, repeated>>
      /\ Raw /\ ~repeated
  BY DEF CheckReady, console, window, Raw
<1>1. /\ SizesAreOld /\ NothingAsked /\ NewestIsAsked
      /\ AskedAlready /\ ToldTheTruth
  BY <1>0 DEF WayInv
<1>2. CASE disp # resizer.pendingSize
  <2>1. UNCHANGED <<resizer, start, toConsole>>
    BY <1>2 DEF CheckReady
  <2> QED BY <1>0, <2>1, WaySteady DEF WayInv
<1>3. CASE disp = resizer.pendingSize
  <2>1. OnReady(disp) /\ resizer' = [resizer EXCEPT !.pendingSize = NoSize]
    BY <1>3 DEF CheckReady
  <2>2. /\ resizer'.pc = resizer.pc /\ resizer'.size = resizer.size
        /\ resizer'.pendingSize = NoSize
        /\ disp \in DisplaySizes /\ disp # NoSize
    BY <2>1 DEF TypeOK, DisplaySizes, NoSize
  <2>3. /\ Told' => Told \/ disp = Asked
        /\ start'.held \in {start.held, disp}
        /\ \A i \in 1 .. Len(toConsole') :
              toConsole'[i] = disp \/ (i \in 1 .. Len(toConsole)
                                       /\ toConsole'[i] = toConsole[i])
    BY <1>0, <2>1, <2>2, OnReadyTells
  <2>4. /\ UNCHANGED <<Asked, OldSizes, NothingSent, AllRead, Arrived>>
    BY <1>0, <2>2 DEF Asked, OldSizes, NothingSent, AllRead, Arrived
  <2>5. Asked # NoSize
    BY <1>1, <1>3, <2>2 DEF NothingAsked
  <2>6. disp = Asked => Arrived
    BY <1>1, <1>3 DEF AskedAlready
  <2>7. SizesAreOld'
    BY <1>0, <1>1, <2>2, <2>3, <2>4 DEF SizesAreOld
  <2>8. NothingAsked' /\ ToldTheTruth'
    BY <1>1, <2>3, <2>4, <2>5, <2>6 DEF NothingAsked, ToldTheTruth
  <2>9. NewestIsAsked'
    BY <1>0, <1>1, <2>2, <2>4 DEF NewestIsAsked
  <2>10. AskedAlready'
    BY <1>0, <2>4, <2>6 DEF AskedAlready
  <2> QED BY <2>7, <2>8, <2>9, <2>10
<1> QED BY <1>2, <1>3

(* The confirmation kept for the app start is sent.                          *)
LEMMA SendHeldKeepsWay ==
    ASSUME TypeOK, WayInv, SendHeldDisplayReady
    PROVE  WayInv'
<1> SUFFICES ASSUME Raw', ~repeated'
             PROVE  (/\ SizesAreOld /\ NothingAsked /\ NewestIsAsked
                     /\ AskedAlready /\ ToldTheTruth)'
  BY DEF WayInv
<1>0. /\ UNCHANGED <<mode, flex, slot, toDevice, resizer, disp, forced, seen,
                     repeated>>
      /\ Raw /\ ~repeated /\ toConsole' = toConsole \o HeldReady
  BY DEF SendHeldDisplayReady, console, window, Raw
<1>1. /\ SizesAreOld /\ NothingAsked /\ NewestIsAsked
      /\ AskedAlready /\ ToldTheTruth
  BY <1>0 DEF WayInv
<1>2. start'.held = NoSize
  BY DEF SendHeldDisplayReady, TypeOK
<1>3. UNCHANGED <<Asked, OldSizes, NothingSent, AllRead, Arrived>>
  BY <1>0 DEF Asked, OldSizes, NothingSent, AllRead, Arrived
<1>4. toConsole \in Seq(DisplaySizes)
  BY DEF TypeOK
<1>5. \A i \in 1 .. Len(toConsole') :
        \/ i \in 1 .. Len(toConsole) /\ toConsole'[i] = toConsole[i]
        \/ start.held # NoSize /\ toConsole'[i] = start.held
  <2>1. CASE start.held = NoSize
    <3>1. toConsole' = toConsole
      BY <1>0, <1>4, <2>1 DEF HeldReady
    <3> QED BY <3>1
  <2>2. CASE start.held # NoSize
    <3>1. toConsole' = toConsole \o <<start.held>>
      BY <1>0, <2>2 DEF HeldReady
    <3>2. start.held \in DisplaySizes
      BY <2>2 DEF TypeOK, DisplaySizes, NoSize
    <3> QED BY <1>4, <2>2, <3>1, <3>2
  <2> QED BY <2>1, <2>2
<1>6. SizesAreOld'
  BY <1>0, <1>1, <1>2, <1>3, <1>5 DEF SizesAreOld
<1>7. NothingAsked'
  <2>1. CASE Asked = NoSize
    <3>1. toConsole = << >> /\ HeldReady = << >>
      BY <1>1, <2>1 DEF NothingAsked, HeldReady
    <3>2. toConsole' = << >>
      BY <1>0, <3>1
    <3> QED BY <1>0, <1>1, <1>2, <1>3, <2>1, <3>2 DEF NothingAsked
  <2>2. CASE Asked # NoSize
    BY <1>3, <2>2 DEF NothingAsked
  <2> QED BY <2>1, <2>2
<1>8. Asked # NoSize /\ Told' => Told
  BY <1>0, <1>2, <1>3, <1>5 DEF Told
<1>9. ToldTheTruth'
  BY <1>1, <1>3, <1>8 DEF ToldTheTruth
<1>10. NewestIsAsked' /\ AskedAlready'
  BY <1>0, <1>1, <1>3 DEF NewestIsAsked, AskedAlready
<1> QED BY <1>6, <1>7, <1>9, <1>10
-----------------------------------------------------------------------------
(* The timer.                                                                *)

(* A step that schedules, or that leaves the timer and adds no work.         *)
LEMMA ScheduledComes ==
    ASSUME TypeOK, FiredIsQueued, NoWorkForgotten,
           \/ timer' \in Schedule(timer)
           \/ timer' = timer /\ (TimerWork' => TimerWork)
    PROVE  FiredIsQueued' /\ NoWorkForgotten'
<1>1. timer \in Timers
  BY DEF TypeOK
<1>2. CASE timer' \in Schedule(timer)
  BY <1>1, <1>2, ScheduleComes DEF FiredIsQueued, NoWorkForgotten, TimerComes
<1>3. CASE timer' = timer /\ (TimerWork' => TimerWork)
  BY <1>3 DEF FiredIsQueued, NoWorkForgotten, TimerComes
<1> QED BY <1>2, <1>3

(* A timer that fires has its event queued.                                  *)
LEMMA FiringComes ==
    ASSUME TypeOK, TimerFires \/ ForgottenTimerFires
    PROVE  FiredIsQueued' /\ NoWorkForgotten'
<1>1. timer \in Timers
  BY DEF TypeOK
<1>2. OneMore(timer.events) > 0
  BY <1>1, OneMoreCounts DEF Timers
<1>3. timer'.events = OneMore(timer.events)
  BY <1>1 DEF TimerFires, ForgottenTimerFires, Timers
<1> QED BY <1>2, <1>3 DEF FiredIsQueued, NoWorkForgotten, TimerComes

(* sc_flex_on_timer sets the timer again if it leaves any work.              *)
LEMMA OnTimerComes ==
    ASSUME TypeOK, OnTimer, NoFadeInHold, NoFadeInHold'
    PROVE  FiredIsQueued' /\ NoWorkForgotten'
<1> DEFINE f2 == AfterSettling(AfterRequest(flex))
<1>1. flex \in FlexStates /\ timer \in Timers /\ mode \in Modes
  BY DEF TypeOK
<1>2. f2 \in FlexStates
  BY <1>1, FlexSteps
<1>3. TimerTaken \in Timers /\ TimerTaken.id = "none"
  BY <1>1, TakenTimers DEF OnTimer
<1>4. /\ flex' = AfterAnimations(f2)
      /\ timer' \in IF TimerWanted(f2) THEN Schedule(TimerTaken)
                                       ELSE {TimerTaken}
  BY DEF OnTimer
<1> HIDE DEF f2
<1>5. FiredIsQueued'
  <2>1. timer'.id \in {"none", "armed"}
    BY <1>3, <1>4 DEF Schedule, Timers
  <2> QED BY <2>1 DEF FiredIsQueued
<1>6. CASE TimerWanted(f2)
  <2>1. timer'.id = "armed"
    BY <1>3, <1>4, <1>6 DEF Schedule, Timers
  <2> QED BY <1>5, <2>1 DEF NoWorkForgotten, TimerComes
<1>7. CASE ~TimerWanted(f2)
  <2>1. /\ flex'.pending = f2.pending /\ flex'.requested = f2.requested
        /\ flex'.holding = f2.holding /\ flex'.ready = f2.ready
        /\ flex'.fadeIn = f2.fadeIn
        /\ flex'.fade = f2.fade \/ flex'.fade = "none"
        /\ ~f2.holding /\ f2.fade = "over" => flex'.fade = "none"
    BY <1>2, <1>4 DEF AfterAnimations, FlexStates
  <2>2. flex'.fade = "none"
    <3>1. f2.fade \in {"none", "over"}
      BY <1>2, <1>7 DEF TimerWanted, Animating, FlexStates
    <3>2. f2.holding => flex'.fade = "none"
      BY <2>1 DEF NoFadeInHold
    <3> QED BY <2>1, <3>1, <3>2
  <2>3. ~TimerWork'
    BY <1>7, <2>1, <2>2
    DEF TimerWork, TimerWanted, Unsent, Settling, Animating
  <2> QED BY <1>5, <2>3 DEF NoWorkForgotten
<1> QED BY <1>6, <1>7
-----------------------------------------------------------------------------
(* The inductive invariant holds initially...                                *)
LEMMA InitFlexInv == Init => FlexInv
<1> SUFFICES ASSUME Init PROVE FlexInv
  OBVIOUS
<1>1. TypeOK
  BY InitType
<1>2. /\ flex.holding = Raw /\ flex.pending = NoSize /\ flex.fade = "none"
      /\ flex.ready = FALSE /\ flex.fadeIn = FALSE /\ timer.id = "none"
  BY DEF Init, InitialFlex
<1>3. WayInv
  <2> SUFFICES ASSUME Raw PROVE /\ SizesAreOld /\ NothingAsked /\ NewestIsAsked
                                /\ AskedAlready /\ ToldTheTruth
    BY DEF WayInv
  <2>1. /\ Asked = NoSize /\ slot = NoSize /\ toDevice = << >>
        /\ toConsole = << >> /\ forced = NoSize /\ seen = {disp}
        /\ start.held = NoSize
        /\ resizer = [pc |-> "idle", size |-> NoSize, pendingSize |-> NoSize]
    BY DEF Init, InitialFlex, Asked
  <2>2. disp # NoSize
    BY <1>1 DEF TypeOK, DisplaySizes, NoSize
  <2>3. SizesAreOld
    BY <1>2, <2>1 DEF SizesAreOld, OldSizes, Unsent
  <2>4. NothingAsked
    BY <1>2, <2>1 DEF NothingAsked, Arrived, AllRead, NothingSent
  <2>5. NewestIsAsked /\ AskedAlready /\ ToldTheTruth
    BY <2>1, <2>2 DEF NewestIsAsked, AskedAlready, ToldTheTruth
  <2> QED BY <2>3, <2>4, <2>5
<1> QED BY <1>1, <1>2, <1>3
        DEF FlexInv, ShownIsAsked, FiredIsQueued, NoFadeInHold,
            NoWorkForgotten, TimerWork, TimerWanted, Unsent, Settling, Animating

(* The way of a request is left alone by the steps of time, of the timers,   *)
(* of frames and of a video, and by the ones of the device that only wait.   *)
LEMMA OthersKeepWay ==
    ASSUME TypeOK, WayInv,
           \/ TimerFires \/ ForgottenTimerFires \/ Time \/ OnRawFrame
           \/ OnVideoFrame \/ ControllerWaits \/ MonitorChecks \/ AppNotFound
           \/ WaitForInitialSize \/ LaunchApp \/ VideoDevice \/ UNCHANGED vars
    PROVE  WayInv'
<1>1. flex \in FlexStates
  BY DEF TypeOK
<1>2. CASE OnVideoFrame \/ VideoDevice
  <2>1. ~Raw /\ mode' = mode
    BY <1>2 DEF OnVideoFrame, VideoDevice, VideoStep, RequestResize,
       DebounceElapses, DebouncerTakes, TriggerResize, CaptureReset,
       EncoderRestarts, StreamGoesOn
  <2> QED BY <2>1 DEF WayInv, Raw
<1>3. CASE Time \/ OnRawFrame
  <2>1. /\ UNCHANGED <<mode, slot, toDevice, resizer, disp, forced, start,
                       toConsole, seen, repeated>>
    BY <1>3 DEF Time, Elapse, QuietElapses, SettleElapses, IdleElapses,
                FadeInElapses, FadeOutElapses, OnRawFrame, device, window
  <2>2. /\ flex'.pending = flex.pending /\ flex'.requested = flex.requested
        /\ flex'.ready = flex.ready /\ flex'.holding = flex.holding
    BY <1>1, <1>3
    DEF Time, Elapse, QuietElapses, SettleElapses, IdleElapses, FadeInElapses,
        FadeOutElapses, OnRawFrame, FlexStates
  <2> QED BY <2>1, <2>2, WaySteady
<1>4. CASE AppNotFound \/ WaitForInitialSize \/ LaunchApp
  <2>1. UNCHANGED <<mode, flex, slot, toDevice, resizer, disp, forced,
                    toConsole, seen, repeated>>
    BY <1>4 DEF AppNotFound, WaitForInitialSize, LaunchApp, console, window
  <2>2. start'.held = start.held
    BY <1>4 DEF AppNotFound, WaitForInitialSize, LaunchApp, TypeOK
  <2> QED BY <2>1, <2>2, WaySteady
<1>5. CASE \/ TimerFires \/ ForgottenTimerFires \/ ControllerWaits
           \/ MonitorChecks \/ UNCHANGED vars
  <2>1. UNCHANGED <<mode, flex, slot, toDevice, resizer, disp, forced, start,
                    toConsole, seen, repeated>>
    BY <1>5 DEF TimerFires, ForgottenTimerFires, ControllerWaits, MonitorChecks,
                console, device, window, vars
  <2> QED BY <2>1, WaySteady
<1> QED BY <1>2, <1>3, <1>4, <1>5

(* ... and every step keeps it, one case per action that changes sc_flex.    *)
LEMMA FlexInvStep == FlexInv /\ [Next]_vars => FlexInv'
<1> SUFFICES ASSUME FlexInv, [Next]_vars PROVE FlexInv'
  OBVIOUS
<1> USE DEF FlexInv
<1>0. TypeOK'
  BY TypeStep
<1>1. CASE OnTimer
  BY <1>0, <1>1, OnTimerKeepsSize, OnTimerKeepsWay, OnTimerComes
<1>2. ASSUME NEW s \in Sizes, OnWindowSize(s) PROVE FlexInv'
  <2>1. timer' \in Schedule(timer)
    BY <1>2 DEF OnWindowSize
  <2> QED BY <1>0, <1>2, <2>1, WindowKeepsSize, WindowKeepsWay, ScheduledComes
<1>3. CASE OnDisplayReady \/ OnVideoFrame
  <2>1. \/ timer' \in Schedule(timer)
        \/ timer' = timer /\ (TimerWork' => TimerWork)
    <3>1. CASE OnDisplayReady
      BY <3>1 DEF OnDisplayReady, TimerWork, TimerWanted, Unsent, Settling,
                  Animating
    <3>2. CASE OnVideoFrame
      <4>1. CASE timer' \in Schedule(timer)
        BY <4>1
      <4>2. CASE /\ timer' = timer
                 /\ flex' = [flex EXCEPT !.shown = Head(video.stream), !.idle = FALSE,
                                         !.drawn = flex.ready]
        BY <4>2 DEF FlexInv, TypeOK, FlexStates, TimerWork, TimerWanted, Unsent,
                    Settling, Animating
      <4> QED BY <3>2, <4>1, <4>2 DEF OnVideoFrame
    <3> QED BY <1>3, <3>1, <3>2
  <2> QED BY <1>0, <1>3, <2>1, ReadyAndVideoKeepSize, DisplayReadyKeepsWay,
             OthersKeepWay, ScheduledComes
<1>4. CASE OnRawFrame
  <2>1. mode' = mode /\ (timer' \in Schedule(timer) \/ timer' = timer)
    BY <1>4 DEF OnRawFrame
  <2> QED BY <1>0, <1>4, <2>1, QuietFlex, OthersKeepWay, ScheduledComes
<1>5. CASE TimerFires \/ ForgottenTimerFires
  <2>1. flex' = flex /\ mode' = mode
    BY <1>5 DEF TimerFires, ForgottenTimerFires
  <2> QED BY <1>0, <1>5, <2>1, QuietFlex, OthersKeepWay, FiringComes
<1>6. CASE Time
  <2>1. timer' = timer /\ mode' = mode
    BY <1>6 DEF Time, Elapse, QuietElapses, SettleElapses, IdleElapses,
                FadeInElapses, FadeOutElapses
  <2> QED BY <1>0, <1>6, <2>1, QuietFlex, OthersKeepWay, ScheduledComes
<1>7. CASE ControlThread \/ Device \/ VideoDevice \/ UNCHANGED vars
  <2>1. timer' = timer /\ mode' = mode /\ flex' = flex
    <3>1. CASE ControlThread \/ Device \/ UNCHANGED vars
      BY <3>1 DEF ControlThread, ControllerSends, ControllerWaits, Device,
                  ResizeReadsInfo, ResizeSetsPending, ResizeForces,
                  DisplayResized, MonitorChecks, CheckReady, AppNotFound,
                  WaitForInitialSize, LaunchApp, SendHeldDisplayReady, vars,
                  console
    <3>2. CASE VideoDevice
      BY <3>2 DEF VideoDevice, VideoStep, RequestResize, DebounceElapses,
                  DebouncerTakes, TriggerResize, CaptureReset, EncoderRestarts,
                  StreamGoesOn, console
    <3> QED BY <1>7, <3>1, <3>2
  <2>2. WayInv'
    <3>1. CASE ControlThread
      BY <3>1, ControllerKeepsWay, OthersKeepWay DEF ControlThread
    <3>2. CASE Device
      BY <3>2, ReadsInfoKeepsWay, ForcingKeepsWay, CheckReadyKeepsWay,
         SendHeldKeepsWay, OthersKeepWay DEF Device
    <3> QED BY <1>7, <3>1, <3>2, OthersKeepWay
  <2> QED BY <1>0, <2>1, <2>2, QuietFlex, ScheduledComes
<1> QED BY <1>1, <1>2, <1>3, <1>4, <1>5, <1>6, <1>7 DEF Next, Ui

(* The inductive invariant holds of every behavior of the specification.     *)
THEOREM FlexInvariant == Spec => []FlexInv
<1>1. FlexInv /\ [Next]_vars => FlexInv'
  BY FlexInvStep
<1> QED BY InitFlexInv, <1>1, PTL DEF Spec

(* struct sc_flex, its timers, the control messages and the device stay      *)
(* within their types, for all sizes, kinds of window and bounds.            *)
THEOREM FlexTypeCorrect == Spec => []TypeOK
<1>1. FlexInv => TypeOK
  BY DEF FlexInv
<1> QED BY <1>1, FlexInvariant, PTL

(* A raw window that sc_flex does not hold has asked for its own size and    *)
(* shows it, whatever resizes, confirmations, frames and timers came before; *)
(* and the display has that size, unless the window came back to an earlier  *)
(* one: sc_flex_on_display_ready takes a confirmation that comes late for    *)
(* nothing else than what it confirms.                                       *)
THEOREM UnheldWindowShowsItsSize == Spec => []ShownAtWindowSize
<1>1. FlexInv => ShownAtWindowSize
  <2> SUFFICES ASSUME FlexInv, Raw, ~flex.holding, ~repeated
               PROVE  disp = flex.pending
    BY DEF FlexInv, ShownIsAsked, ShownAtWindowSize
  <2>1. /\ Asked = flex.pending /\ NothingAsked /\ NewestIsAsked
        /\ ToldTheTruth
    BY DEF FlexInv, ShownIsAsked, WayInv, Asked
  <2>2. Asked # NoSize
    BY <2>1 DEF NothingAsked
  <2> QED BY <2>1, <2>2 DEF ToldTheTruth, Told, NewestIsAsked
<1> QED BY <1>1, FlexInvariant, PTL

(* As long as sc_flex has a size to ask for, a hold to end or a fade to go   *)
(* on with, a FLEX_TIMER event comes, although sc_flex_schedule may set no   *)
(* timer and sc_flex_on_timer forgets the one that is set.                   *)
THEOREM TimerIsNeverForgotten == Spec => []NoWorkForgotten
<1>1. FlexInv => NoWorkForgotten
  BY DEF FlexInv
<1> QED BY <1>1, FlexInvariant, PTL
=============================================================================
