----------------------------- MODULE RlcdOutput -----------------------------
(***************************************************************************)
(* What leaves the RLCD board: the frame transfers of St7305 (st7305.cpp)  *)
(* and the tones of Beeper (beeper.cpp), each against the interrupt or the *)
(* task it shares memory with.  A frame is a number; a transfer may miss   *)
(* the tearing signal, and its end may come later than show() waits.       *)
(***************************************************************************)
EXTENDS Integers

CONSTANTS Frames    \* the contents a canvas may have

VARIABLES canvas,      \* what the loop rendered last
          frame,       \* frame_, the memory DMA reads
          displayed,   \* displayed_; 0 until has_frame_
          done,        \* the done_ semaphore
          wire,        \* what the running transfer has read so far, or 0
          glass,       \* what the panel shows
          notified,    \* the beeper task's notification
          play,        \* the beeper task: waiting, playing, drained
          amplifier

screen == <<canvas, frame, displayed, done, wire, glass>>
sound  == <<notified, play, amplifier>>
vars   == <<screen, sound>>

Any == Frames \cup {0}

TypeOK ==
    /\ canvas \in Any /\ frame \in Any /\ displayed \in Any
    /\ wire \in Any /\ glass \in Any
    /\ done \in 0..1
    /\ notified \in BOOLEAN /\ amplifier \in BOOLEAN
    /\ play \in {"waiting", "playing", "drained"}

Init ==
    /\ canvas = 0 /\ frame = 0 /\ displayed = 0 /\ wire = 0 /\ glass = 0
    /\ done = 1
    /\ notified = FALSE /\ play = "waiting" /\ amplifier = FALSE

Render ==
    /\ canvas' \in Frames
    /\ UNCHANGED <<frame, displayed, done, wire, glass, sound>>

\* Mistake: the frame is packed before DMA has released it.
AlwaysMine(d) == TRUE

\* The wait for done_ has been answered.
Released(d) == d = 1

\* Mistake: an unchanged frame keeps the semaphore.
KeepsIt == done' = 0

GivesBack == done' = done

\* show(): without the semaphore the frame is dropped, an unchanged one gives
\* it back, and a new one is handed to DMA in step with the tearing signal
\* or after it failed to come.
Show ==
    /\ canvas # 0
    /\ \/ UNCHANGED <<frame, displayed, done, wire>>    \* the wait ran out
       \/ /\ Released(done)
          /\ frame' = canvas
          /\ IF canvas = displayed
             THEN GivesBack /\ UNCHANGED <<displayed, wire>>
             ELSE /\ displayed' = canvas
                  /\ done' = 0
                  /\ wire' = IF wire = 0 THEN canvas ELSE wire
    /\ UNCHANGED <<canvas, glass, sound>>

\* The end of the transfer is an interrupt.
OnDone ==
    /\ wire # 0
    /\ done' = 1
    /\ glass' = wire
    /\ wire' = 0
    /\ UNCHANGED <<canvas, frame, displayed, sound>>

(***************************************************************************)
(* The tone: a request during playback is folded into the one that plays.  *)
(***************************************************************************)
Alert ==
    /\ notified' = TRUE
    /\ UNCHANGED <<screen, play, amplifier>>

Play ==
    /\ play = "waiting" /\ notified
    /\ notified' = FALSE
    /\ \/ play' = "playing" /\ amplifier' = TRUE
       \/ play' = "drained" /\ UNCHANGED amplifier     \* I2S did not start
    /\ UNCHANGED screen

\* Mistake: a write that came back short returns at once.
ReturnsEarly == amplifier' \in {FALSE, amplifier}

Silences == amplifier' = FALSE

\* The padding is played, or a write came back short.
PlayEnds ==
    /\ play = "playing"
    /\ play' = "drained"
    /\ Silences
    /\ UNCHANGED <<screen, notified>>

Drain ==
    /\ play = "drained"
    /\ play' = "waiting"
    /\ notified' = FALSE
    /\ UNCHANGED <<screen, amplifier>>

Next == Render \/ Show \/ OnDone \/ Alert \/ Play \/ PlayEnds \/ Drain

Spec == Init /\ [][Next]_vars

(***************************************************************************)
(* Properties                                                              *)
(***************************************************************************)

\* The memory of a running transfer is the frame the transfer was given.
DmaOwnsFrame == wire # 0 => frame = wire

\* The amplifier is on only while a tone plays, however playback ends.
AmplifierRests == amplifier => play = "playing"
=============================================================================
