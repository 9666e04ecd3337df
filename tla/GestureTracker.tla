--------------------------- MODULE GestureTracker ---------------------------
(***************************************************************************)
(* ESP-Mosaico: gesture_tracker.cpp, which turns the detections of single  *)
(* frames into swipes, waves and a held pose.                              *)
(*                                                                         *)
(* A hand moves along one axis: x counts units of 0.15 of the image, so a  *)
(* step of one is motion that is still tracked, a step of two is a jump,   *)
(* two units are a swipe and one is a leg of a wave.  Times are ages in    *)
(* ticks of 150 ms, counted up to the limit they are compared with.        *)
(***************************************************************************)
EXTENDS Integers, FiniteSets

CONSTANTS
    Width,      \* x is in 0..Width
    Jumps,      \* whether the hand may move by more than one unit in a frame
    Gap,        \* kMaxSampleGapMs: a longer gap ends the tracking
    Settle,     \* kSettleMs
    Return,     \* kReturnStrokeMs
    Hold,       \* kOkHoldMs
    Absence,    \* how long no hand must be seen to release
    Since,      \* ... and how long after the last action
    Stroke      \* the longest a swipe may take

VARIABLES
    t,        \* the tracker
    issued,   \* what update() returned for the last frame, and what held then
    hand,     \* the hand as the camera saw it: where, how long ago, last frame
    past      \* history of what the hand really did

vars == <<t, issued, hand, past>>

Swipes == {"SwipeLeft", "SwipeRight"}

Opposite(a) ==
    CASE a = "SwipeLeft"  -> "SwipeRight"
      [] a = "SwipeRight" -> "SwipeLeft"
      [] OTHER            -> "None"

Least(a, b) == IF a < b THEN a ELSE b
Abs(n)      == IF n < 0 THEN -n ELSE n
None        == -1

\* GestureTracker{}: `ok' is how long a pose has been held, `absent' how long no
\* hand has been seen, `sample' the age of the last one.
Fresh ==
    [waiting |-> TRUE, absent |-> None, tracking |-> FALSE, ok |-> None,
     settling |-> FALSE, action |-> Return, motion |-> Settle, swipe |-> "None",
     sample |-> Gap + 1, started |-> 0, samples |-> 0, x |-> 0, start |-> 0,
     path |-> 0, reach |-> 0, leg |-> 0, legs |-> 0, okX |-> 0]

\* Mistake: what settles after a gesture is forgotten when it is accepted.
ForgetsSettling(s, accepted) ==
    IF accepted
    THEN [Fresh EXCEPT !.action = s.action, !.motion = s.motion,
                       !.swipe = s.swipe, !.waiting = s.waiting]
    ELSE Fresh

Reset(s, accepted) ==
    IF accepted
    THEN [Fresh EXCEPT !.action = s.action, !.motion = s.motion,
                       !.swipe = s.swipe, !.waiting = s.waiting,
                       !.settling = s.settling]
    ELSE Fresh

\* Mistake: the sum of two unsigned times is never limited.
NoCap(s, d) == [s EXCEPT !.sample = @ + d, !.started = @ + d, !.action = @ + d, !.motion = @ + d]

\* d ticks pass.
Aged(s, d) ==
    LET On(age, cap) == IF age = None THEN None ELSE Least(age + d, cap)
    IN  [s EXCEPT !.absent  = On(@, Absence),   !.ok     = On(@, Hold),
                  !.action  = On(@, Return),    !.motion = On(@, Settle),
                  !.sample  = On(@, Gap + 1),   !.started = On(@, Stroke + 1)]

BeginStroke(s, x) ==
    [s EXCEPT !.started = 0, !.samples = 1, !.start = x, !.path = 0, !.reach = 0]

SeveralHands(s) ==
    [s EXCEPT !.absent = None, !.tracking = FALSE, !.ok = None, !.waiting = TRUE]

\* Frames without a usable hand: `weak' if there is one, but it is not sure.
Dropout(s, weak) ==
    LET seen == IF weak
                THEN [s EXCEPT !.absent = None, !.motion = 0]
                ELSE LET gone == IF s.absent = None THEN 0 ELSE s.absent
                     IN  [s EXCEPT !.absent = gone,
                                   !.waiting = @ /\ ~(gone >= Absence /\ s.action >= Since)]
    IN  IF s.tracking /\ s.sample > Gap
        THEN [seen EXCEPT !.tracking = FALSE, !.ok = None] ELSE seen

Continuous(s, x) == s.tracking /\ s.sample <= Gap /\ Abs(x - s.x) <= 1

\* One leg of a wave ends when the motion turns round.
WithLeg(s, step) ==
    CASE step = 0             -> s
      [] step * s.leg < 0     -> [s EXCEPT !.legs = Least(@ + 1, 2), !.leg = step]
      [] OTHER                -> [s EXCEPT !.leg = @ + step]

\* The stroke so far, with the hand now at x.
Moved(s, x) ==
    LET continuous == Continuous(s, x)
        step    == IF continuous THEN x - s.x ELSE 0
        motion  == IF step # 0 THEN 0 ELSE s.motion
        rested  == motion >= Settle
        begins  == ~continuous \/ rested
        met     == [s EXCEPT !.absent = None, !.tracking = TRUE, !.x = x, !.sample = 0,
                             !.motion = motion, !.settling = @ /\ ~rested,
                             !.ok = IF continuous THEN @ ELSE None,
                             !.leg = IF begins THEN 0 ELSE @, !.legs = IF begins THEN 0 ELSE @]
        longer  == [met EXCEPT !.samples = Least(@ + 1, 3), !.path = @ + Abs(step),
                               !.reach = IF Abs(x - s.start) > @ THEN Abs(x - s.start) ELSE @]
        stroke  == IF begins \/ longer.reach = 0 THEN BeginStroke(met, x) ELSE longer
    IN  WithLeg(stroke, step)

SwipeOf(s) ==
    LET dx == s.x - s.start
    IN  IF /\ ~s.settling /\ ~s.waiting /\ s.samples >= 3
           /\ s.started >= 1 /\ s.started <= Stroke
           /\ Abs(dx) >= 2 /\ 4 * Abs(dx) >= 3 * s.path
        THEN IF dx < 0 THEN "SwipeLeft" ELSE "SwipeRight"
        ELSE "None"

IsReturn(s) == SwipeOf(s) # "None" /\ SwipeOf(s) = Opposite(s.swipe) /\ s.action < Return

WaveOf(s) ==
    IF ~s.settling /\ s.legs >= 2 /\ Abs(s.leg) >= 1 THEN "Wave" ELSE "None"

\* The pose, held at one place.
Holding(s, pose) ==
    CASE s.waiting \/ ~pose                -> [s EXCEPT !.ok = None]
      [] ~s.waiting /\ pose /\ (s.ok = None \/ s.okX # s.x)
                                           -> [s EXCEPT !.ok = 0, !.okX = s.x]
      [] OTHER                             -> s

\* Mistake: the release that a pose asks for is not remembered.
NoRelease(s, a) ==
    [s EXCEPT !.swipe = IF a = "EnterClock" THEN "None" ELSE a, !.waiting = FALSE,
              !.action = 0, !.motion = 0, !.settling = (a # "EnterClock"),
              !.ok = None, !.leg = 0, !.legs = 0]

After(s, a) ==
    [s EXCEPT !.swipe = IF a = "EnterClock" THEN "None" ELSE a, !.waiting = (a = "EnterClock"),
              !.action = 0, !.motion = 0, !.settling = (a # "EnterClock"),
              !.ok = None, !.leg = 0, !.legs = 0]

\* A usable hand at x, showing the pose or not: <<tracker, action>>.
Usable(s, x, pose) ==
    LET m == Moved(s, x)
    IN  IF IsReturn(m)
        THEN <<[BeginStroke(m, x) EXCEPT !.ok = None], "None">>
        ELSE LET k      == Holding(m, pose)
                 action == CASE k.ok # None /\ k.ok >= Hold -> "EnterClock"
                             [] SwipeOf(m) # "None" /\ ~(k.ok # None /\ k.ok >= Hold) -> SwipeOf(m)
                             [] OTHER -> WaveOf(m)
             IN  CASE action # "None" -> <<After(k, action), action>>
                   [] action = "None" /\ k.started > Stroke -> <<BeginStroke(k, x), "None">>
                   [] OTHER -> <<k, "None">>

(***************************************************************************)
(* What the camera sees, and what the main loop does with the commands.    *)
(***************************************************************************)

Nothing == [action |-> "None", calm |-> TRUE, released |-> TRUE, waved |-> FALSE]

Init ==
    /\ t = Fresh
    /\ issued = Nothing
    /\ hand = [x |-> 0, ago |-> Gap + 1, last |-> "none"]
    /\ past = [burst |-> FALSE, still |-> Settle, gone |-> 0, owed |-> TRUE, waved |-> FALSE]

\* update() returned a.  `still' is how long the hand has really been at rest or
\* out of view, `gone' how long out of view.
Returned(a, still, gone) ==
    /\ issued' = [action |-> a, calm |-> ~past.burst, released |-> ~past.owed, waved |-> past.waved]
    /\ past' = [burst |-> a \in Swipes \cup {"Wave"} \/ (a = "None" /\ past.burst /\ still < Settle),
                still |-> IF a = "None" THEN still ELSE 0,
                gone  |-> gone,
                owed  |-> a = "EnterClock" \/ (past.owed /\ gone < Absence),
                waved |-> a # "EnterClock" /\ (past.waved \/ a = "Wave")]

Rest(d) == Least(past.still + d, Settle)

HandFrame(x, pose, d) ==
    LET seen == hand.ago + d <= Gap
        r    == Usable(Aged(t, d), x, pose)
    IN  /\ seen /\ ~Jumps => Abs(x - hand.x) <= 1
        /\ pose => hand.last = "weak" \/ (hand.last = "hand" /\ x = hand.x)   \* hand_is_steady()
        /\ t' = r[1]
        /\ hand' = [x |-> x, ago |-> 0, last |-> "hand"]
        /\ Returned(r[2], IF seen /\ x # hand.x THEN 0 ELSE Rest(d), 0)

EmptyFrame(d) ==
    /\ t' = Dropout(Aged(t, d), FALSE)
    /\ hand' = [hand EXCEPT !.ago = Least(@ + d, Gap + 1), !.last = "none"]
    /\ Returned("None", Rest(d), Least(past.gone + d, Absence))

WeakFrame(d) ==
    /\ t' = Dropout(Aged(t, d), TRUE)
    /\ hand' = [hand EXCEPT !.ago = Least(@ + d, Gap + 1), !.last = "weak"]
    /\ Returned("None", 0, 0)

CrowdedFrame(d) ==
    /\ t' = SeveralHands(Aged(t, d))
    /\ hand' = [hand EXCEPT !.ago = Gap + 1, !.last = "none"]
    /\ issued' = Nothing
    /\ past' = [past EXCEPT !.burst = @ /\ Rest(d) < Settle, !.still = Rest(d), !.gone = 0,
                            !.owed = TRUE, !.waved = FALSE]

\* The loop followed the command: the worker resets with accepted_gesture.
Accept ==
    /\ issued.action # "None"
    /\ t' = Reset(t, TRUE) /\ issued' = Nothing
    /\ hand' = [hand EXCEPT !.ago = Gap + 1]
    /\ UNCHANGED past

\* A touch, a key or a remote command.
OtherInput ==
    /\ t' = Reset(t, FALSE) /\ issued' = Nothing
    /\ past' = [past EXCEPT !.burst = FALSE, !.still = Settle, !.gone = 0,
                            !.owed = TRUE, !.waved = FALSE]
    /\ hand' = [hand EXCEPT !.ago = Gap + 1]

Next ==
    \/ \E d \in {1, Gap + 1} :
          \/ \E x \in 0..Width, pose \in BOOLEAN : HandFrame(x, pose, d)
          \/ EmptyFrame(d) \/ WeakFrame(d) \/ CrowdedFrame(d)
    \/ Accept
    \/ OtherInput

Spec == Init /\ [][Next]_vars

(***************************************************************************)
(* Properties.                                                             *)
(***************************************************************************)
TypeOK ==
    /\ t \in [waiting : BOOLEAN, absent : None..Absence, tracking : BOOLEAN, ok : None..Hold,
              settling : BOOLEAN, action : 0..Return, motion : 0..Settle,
              swipe : Swipes \cup {"None", "Wave"}, sample : 0..Gap + 1,
              started : 0..Stroke + 1, samples : 0..3, x : 0..Width, start : 0..Width,
              path : 0..Stroke + 1, reach : 0..Width, leg : -Width..Width, legs : 0..2,
              okX : 0..Width]
    /\ issued.action \in Swipes \cup {"None", "Wave", "EnterClock"}

\* After a swipe or wave, motion must cease before the next swipe or wave, or
\* the hand leave the view: the follow-through is no command (kSettleMs).
OneBurstOneCommand == issued.action \in Swipes \cup {"Wave"} => issued.calm

\* The same where a wave, which does not wait, also ends the waiting.
ReleaseOrWaveFirst == issued.action \in Swipes \cup {"EnterClock"} => issued.released \/ issued.waved
=============================================================================
