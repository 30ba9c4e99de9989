---------------------------- MODULE FrameChannel ----------------------------
(* What the way of a frame from the guest to the window promises, whatever   *)
(* slots, copies, messages and connections are in between: the window shows  *)
(* whole frames of the display, never an earlier one than before, or         *)
(* nothing; and a window that can be seen catches up with the display.       *)
EXTENDS Integers

CONSTANTS
    Frames,     \* the frames, numbered in the order they are drawn
    NoFrame     \* not a frame, less than every frame

VARIABLES
    last,       \* the display's latest frame
    shown,      \* the frame whose pixels the window shows
    watched     \* the console is connected and its window can be seen

channelVars == <<last, shown, watched>>

Init == last = NoFrame /\ shown = NoFrame /\ watched = FALSE

Draw == /\ last' \in {f \in Frames : f > last}
        /\ UNCHANGED <<shown, watched>>

(* The window shows a later frame, as it comes or as the display resumes.    *)
Show(f) ==
    /\ shown < f /\ f <= last
    /\ shown' = f
    /\ watched' \in BOOLEAN
    /\ UNCHANGED last

(* The console connects or is disconnected, its window is hidden or shown.   *)
Watch == /\ watched' = ~watched
         /\ UNCHANGED <<last, shown>>

(* The console goes, and its window with it.                                 *)
Leave == /\ shown' = NoFrame /\ watched' = FALSE
         /\ UNCHANGED last

Next == \/ Draw \/ Watch \/ Leave
        \/ \E f \in Frames : Show(f)

CatchUp == watched /\ \E f \in Frames : Show(f)

Spec == Init /\ [][Next]_channelVars
FairSpec == Spec /\ WF_channelVars(CatchUp)
=============================================================================
