----------------------------- MODULE TouchKeys -----------------------------
(***************************************************************************)
(* The touch glass of the Read Pico, Board::input() over cst836u_read():   *)
(* a tap on the picture, three keys below it, and a long press of the      *)
(* second.  The controller drops single reports while a finger rests, and  *)
(* a transfer may fail; both look like a finger that was lifted.           *)
(* Times are ages, and stop where they make no more difference.            *)
(***************************************************************************)
EXTENDS Integers, Sequences, FiniteSetsExt

CONSTANTS
    Places,       \* where a finger goes down: a key, 1 to 3, or 0, the picture
    Hold,         \* kHoldMs
    Debounce,     \* kReleaseDebounceMs
    Late          \* the longest time from a poll to the next

VARIABLES
    state,        \* what input() keeps: down, held, place, start, released
    out,          \* what this poll gave: a key, a tap, or nothing
    finger,       \* where the finger is, -1 when it is lifted, and how long
    gave          \* what was given since it went down

vars == <<state, out, finger, gave>>

Nothing == [key |-> 0, tap |-> FALSE]

Up == [down |-> FALSE, held |-> FALSE, place |-> 0, start |-> 0, released |-> -1]

Aged(age, d, bound) == IF age < 0 THEN age ELSE Min({age + d, bound})

\* Mistake: the long press does not end the press.
KeepsKey == FALSE

HeldEnds == state.held

\* A report that is touched.
Touched(place, d) ==
    IF ~state.down THEN <<[Up EXCEPT !.down = TRUE, !.place = place], Nothing>>
    ELSE LET start == Aged(state.start, d, Hold)
             long == ~state.held /\ start >= Hold IN
         <<[state EXCEPT !.start = start, !.released = -1, !.held = @ \/ long],
           IF long /\ state.place = 2 THEN [Nothing EXCEPT !.key = 5] ELSE Nothing>>

\* Mistake: the first report without a finger ends the press.
AtOnce(released) == TRUE

Settled(released) == released >= Debounce

\* A report that is not, or none.
Missing(d) ==
    IF ~state.down THEN <<state, Nothing>>
    ELSE LET released == IF state.released < 0 THEN 0 ELSE Aged(state.released, d, Debounce)
             start == Aged(state.start, d, Hold) IN
         IF ~Settled(released) THEN <<[state EXCEPT !.released = released, !.start = start], Nothing>>
         ELSE <<[state EXCEPT !.down = FALSE, !.released = released, !.start = start],
                IF HeldEnds THEN Nothing ELSE [key |-> state.place, tap |-> state.place = 0]>>

Init == state = Up /\ out = Nothing /\ finger = <<-1, Debounce + Late>> /\ gave = <<>>

\* A poll, d after the last one.  A report may be missing while the finger
\* rests, not two in a row; a finger that moves does not change what was hit.
Poll(d) ==
    /\ \E seen \in BOOLEAN :
        /\ finger[1] = -1 => ~seen
        /\ finger[1] # -1 /\ ~seen => state.released < 0
        /\ LET r == IF seen THEN Touched(finger[1], d) ELSE Missing(d) IN
           state' = r[1] /\ out' = r[2]
    /\ gave' = IF out' = Nothing THEN gave ELSE Append(gave, out')
    /\ finger' = [finger EXCEPT ![2] = Min({@ + d, Hold + Debounce + Late})]

\* The finger goes down again when its lifting was noticed.
FingerDown ==
    /\ finger[1] = -1 /\ ~state.down
    /\ \E place \in Places : finger' = <<place, 0>>
    /\ gave' = <<>> /\ out' = Nothing /\ UNCHANGED state

FingerUp ==
    /\ finger[1] # -1 /\ finger' = <<-1, 0>>
    /\ out' = Nothing /\ UNCHANGED <<state, gave>>

Next == (\E d \in 1..Late : Poll(d)) \/ FingerDown \/ FingerUp

Spec == Init /\ [][Next]_vars

TypeOK ==
    /\ state.place \in Places \cup {0} /\ state.start \in 0..Hold /\ state.released \in -1..Debounce
    /\ out.key \in 0..5 /\ finger[1] \in Places \cup {-1}

(***************************************************************************)
(* Properties.                                                             *)
(***************************************************************************)

\* One press gives one thing at most: a tap, a key, or the long press of the
\* second key; reports that go missing do not make two of it.
OnePressOneKey == Len(gave) <= 1

\* A key is given for a finger that was lifted; the long press alone while it
\* rests, and only after the whole time.
KeysOnRelease ==
    out # Nothing =>
        IF out.key = 5 THEN finger[1] = 2 /\ finger[2] >= Hold ELSE finger[1] = -1
=============================================================================
