--------------------------- MODULE AmoledRotation ---------------------------
(***************************************************************************)
(* Rotation on the AMOLED board: the probe at start-up and start_display,  *)
(* the loop's poll of the accelerometer (app_main.cpp), and                *)
(* DisplayUi::set_rotation, which turns picture and touch in two calls and *)
(* rolls back when the second fails.                                       *)
(***************************************************************************)
EXTENDS Orientation, FiniteSets, Sequences

CONSTANTS Accels,   \* magnitudes an axis may read, in hundredths of g
          Samples,  \* ORIENTATION_STARTUP_MAX_SAMPLES
          Faults,   \* bounds the bus calls that fail
          Recall    \* how many polls `recent' keeps

VARIABLES pc,       \* "probe", "start" or "loop"
          probed,   \* samples of the start-up probe
          hand,     \* how the board is held: acceleration of x and y
          tracker, desired, applied,
          rotation, \* DisplayUi::rotation_
          image,    \* the rotation the panel draws in
          touch,    \* the flags of the touch controller
          faults,   \* calls that may still fail
          recent    \* what the last polls said; only properties read it

vars == <<pc, probed, hand, tracker, desired, applied, rotation, image, touch,
          faults, recent>>

Readings == Accels \cup {-a : a \in Accels}

Held == Candidate(hand[1], hand[2])

Init ==
    /\ pc = "probe" /\ probed = 0 /\ tracker = NewTracker
    /\ hand \in Readings \X Readings
    /\ desired = 0 /\ applied = 0 /\ rotation = 0 /\ image = 0 /\ touch = {}
    /\ faults = Faults /\ recent = <<>>

TypeOK ==
    /\ pc \in {"probe", "start", "loop"} /\ probed \in 0..Samples
    /\ tracker.rotation \in Rotations /\ tracker.samples \in 0..StableSamples
    /\ desired \in Rotations /\ applied \in Rotations /\ rotation \in Rotations
    /\ image \in Rotations /\ touch \subseteq Axes /\ faults \in 0..Faults

Turn ==
    /\ hand' \in Readings \X Readings
    /\ UNCHANGED <<pc, probed, tracker, desired, applied, rotation, image, touch, faults, recent>>

Noted(c) ==
    CASE Recall = 0          -> recent
      [] Len(recent) < Recall -> Append(recent, c)
      [] OTHER               -> Append(Tail(recent), c)

\* The probe samples until the tracker commits, a read fails, or it gives up.
Probe ==
    /\ pc = "probe"
    /\ \/ /\ tracker' = Observe(tracker, Held)
          /\ recent' = Noted(Held)
          /\ IF Commits(tracker, Held)
             THEN desired' = Held /\ pc' = "start" /\ probed' = 0
             ELSE /\ UNCHANGED desired
                  /\ IF probed + 1 = Samples THEN pc' = "start" /\ probed' = 0
                     ELSE pc' = pc /\ probed' = probed + 1
          /\ UNCHANGED faults
       \/ /\ faults > 0 /\ faults' = faults - 1
          /\ pc' = "start" /\ probed' = 0 /\ recent' = Noted(NoRotation)
          /\ UNCHANGED <<tracker, desired>>
    /\ UNCHANGED <<hand, applied, rotation, image, touch>>

\* start_display applies the rotation to both; a failure aborts and reboots.
StartDisplay ==
    /\ pc = "start"
    /\ \/ /\ pc' = "loop"
          /\ image' = desired /\ touch' = TouchMapping(desired)
          /\ rotation' = desired /\ applied' = desired
          /\ UNCHANGED <<tracker, desired, recent, faults>>
       \/ /\ faults > 0 /\ faults' = faults - 1
          /\ pc' = "probe" /\ tracker' = NewTracker /\ desired' = 0 /\ recent' = <<>>
          /\ UNCHANGED <<applied, rotation, image, touch>>
    /\ UNCHANGED <<probed, hand>>

\* A failed read is retried a second later; the tracker does not see it.
Poll ==
    /\ pc = "loop"
    /\ \/ /\ tracker' = Observe(tracker, Held)
          /\ recent' = Noted(Held)
          /\ desired' = IF Commits(tracker, Held) THEN Held ELSE desired
          /\ UNCHANGED faults
       \/ /\ faults > 0 /\ faults' = faults - 1
          /\ recent' = Noted(NoRotation)
          /\ UNCHANGED <<tracker, desired>>
    /\ UNCHANGED <<pc, probed, hand, applied, rotation, image, touch>>

\* apply_touch_mapping goes on after a setter that fails: how many do, and the
\* flags it leaves.
TouchApplied(from, to, budget) ==
    {[failed |-> Cardinality(s), flags |-> Written(from, to, s)] :
        s \in {f \in SUBSET Axes : Cardinality(f) <= budget}}

\* Mistake: only the picture is turned back.
RollbackImage(t, budget) == {[image |-> rotation, touch |-> t.flags, failed |-> 0]}

\* The roll back of picture and touch, each of which may fail again.
Rollback(t, budget) ==
    {[image |-> rotation, touch |-> b.flags, failed |-> b.failed] :
        b \in TouchApplied(t.flags, TouchMapping(rotation), budget)}
    \cup {[image |-> desired, touch |-> b.flags, failed |-> b.failed + 1] :
        b \in IF budget = 0 THEN {}
              ELSE TouchApplied(t.flags, TouchMapping(rotation), budget - 1)}

SetRotation ==
    \/ /\ faults > 0 /\ faults' = faults - 1
       /\ UNCHANGED <<rotation, applied, image, touch>>
    \/ /\ image' = desired /\ touch' = TouchMapping(desired)
       /\ rotation' = desired /\ applied' = desired
       /\ UNCHANGED faults
    \/ \E t \in TouchApplied(touch, TouchMapping(desired), faults) :
        /\ t.failed > 0
        /\ \E r \in Rollback(t, faults - t.failed) :
            /\ image' = r.image /\ touch' = r.touch
            /\ faults' = faults - t.failed - r.failed
        /\ UNCHANGED <<rotation, applied>>

\* Mistake: a rotation is asked for once.
RotateOnce ==
    /\ pc = "loop" /\ desired # applied
    /\ SetRotation \/ (faults > 0 /\ applied' = desired /\ faults' = faults - 1
                       /\ UNCHANGED <<rotation, image, touch>>)
    /\ UNCHANGED <<pc, probed, hand, tracker, desired, recent>>

Rotate ==
    /\ pc = "loop" /\ desired # applied
    /\ IF desired = rotation
       THEN applied' = desired /\ UNCHANGED <<rotation, image, touch, faults>>
       ELSE SetRotation
    /\ UNCHANGED <<pc, probed, hand, tracker, desired, recent>>

Next == Turn \/ Probe \/ StartDisplay \/ Poll \/ Rotate

Spec == Init /\ [][Next]_vars

(***************************************************************************)
(* Properties                                                              *)
(***************************************************************************)

\* "Applies display and touch transforms together for a new rotation": between
\* two turns of the loop a touch lands where the picture shows it.
TransformsAgree == pc = "loop" => touch = TouchMapping(image)

\* The tracker requires \"repeated identical candidates\": while reads succeed,
\* the picture is only asked to turn after three equal samples in a row.
TurnsOnlyWhenSteady ==
    desired' # desired /\ pc = "loop" => recent' = [i \in 1..Recall |-> desired']

\* Picture and touch are those of a rotation.
Upright(r) == image = r /\ touch = TouchMapping(r)
=============================================================================
