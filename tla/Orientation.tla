----------------------------- MODULE Orientation -----------------------------
(***************************************************************************)
(* How the two touch boards turn their picture with the device: the        *)
(* rotation gravity suggests, the debouncing of OrientationTracker         *)
(* (orientation.cpp of both targets), and the axis flags by which panel    *)
(* and touch controller are told of a rotation.                            *)
(***************************************************************************)
EXTENDS Integers

Rotations == 0..3       \* quarter turns
NoRotation == 4
Axes == {"swap", "x", "y"}   \* swap_xy, mirror_x, mirror_y

Magnitude(a) == IF a < 0 THEN -a ELSE a

\* The AMOLED's choice of a rotation for the sign of the dominant axis.
Mounted(horizontal, right, down) ==
    IF horizontal THEN IF right THEN 0 ELSE 2
    ELSE IF down THEN 3 ELSE 1

\* rotation_from_acceleration, in hundredths of g.
Candidate(x, y) ==
    LET horizontal == Magnitude(x) >= Magnitude(y)
        dominant   == IF horizontal THEN Magnitude(x) ELSE Magnitude(y)
        other      == IF horizontal THEN Magnitude(y) ELSE Magnitude(x)
    IN  IF dominant < 65 \/ dominant * 100 < other * 115 THEN NoRotation
        ELSE Mounted(horizontal, x >= 0, y >= 0)

\* OrientationTracker, with three stable samples.
StableSamples == 3

NewTracker == [rotation |-> 0, committed |-> FALSE, pending |-> NoRotation, samples |-> 0]

Streak(t, c) ==
    IF t.pending # c THEN 1
    ELSE IF t.samples < StableSamples THEN t.samples + 1 ELSE t.samples

\* Mistake: an ambiguous sample leaves the streak as it is.
ObserveAcrossMotion(t, c) ==
    IF c = NoRotation THEN t
    ELSE IF Streak(t, c) < StableSamples
    THEN [t EXCEPT !.pending = c, !.samples = Streak(t, c)]
    ELSE [rotation |-> c, committed |-> TRUE, pending |-> NoRotation, samples |-> 0]

Observe(t, c) ==
    IF c = NoRotation THEN [t EXCEPT !.pending = NoRotation, !.samples = 0]
    ELSE IF Streak(t, c) < StableSamples
    THEN [t EXCEPT !.pending = c, !.samples = Streak(t, c)]
    ELSE [rotation |-> c, committed |-> TRUE, pending |-> NoRotation, samples |-> 0]

\* observe() returns whether this sample committed a rotation that is new.
Commits(t, c) ==
    /\ c # NoRotation /\ Streak(t, c) >= StableSamples
    /\ ~t.committed \/ t.rotation # c

\* The flags of a rotation: the same on both boards.
TouchMapping(r) ==
    CASE r = 1 -> {"swap", "x"}
      [] r = 2 -> {"x", "y"}
      [] r = 3 -> {"swap", "y"}
      [] OTHER -> {}

\* After setting the flags `to` over `from` with the setters in `failed` failing.
Written(from, to, failed) ==
    {f \in Axes : IF f \in failed THEN f \in from ELSE f \in to}

(***************************************************************************)
(* The Mosaico composes a rotation with the way the glass is mounted.      *)
(***************************************************************************)

Sign(mirrored) == IF mirrored THEN -1 ELSE 1

\* matrix_from_flags: the logical axes on the axes of the panel.
Matrix(flags) ==
    LET x == Sign("x" \in flags)
        y == Sign("y" \in flags)
    IN  IF "swap" \in flags THEN <<<<0, y>>, <<x, 0>>>> ELSE <<<<x, 0>>, <<0, y>>>>

Times(a, b) ==
    [i \in 1..2 |-> [j \in 1..2 |-> a[i][1] * b[1][j] + a[i][2] * b[2][j]]]

Transposed(a) == [i \in 1..2 |-> [j \in 1..2 |-> a[j][i]]]

Compose(base, r) ==
    LET desired == Times(Matrix(TouchMapping(r)), Matrix(base))
        fits    == {f \in SUBSET Axes : Matrix(f) = desired}
    IN  IF fits = {} THEN base ELSE CHOOSE f \in fits : TRUE

\* The turn a controller makes beyond its mounting.
TurnOf(flags, base) == Times(Matrix(flags), Transposed(Matrix(base)))
=============================================================================
