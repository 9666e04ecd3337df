--------------------------- MODULE MosaicoRotation ---------------------------
(***************************************************************************)
(* Rotation on the ESP-Mosaico: bsp_display_set_rotation (display.c)       *)
(* against the LVGL worker it has to pause and the gesture task that draws *)
(* the camera preview, DisplayUi::set_rotation and the loop around it, and *)
(* the tearing effect line that a refresh waits for.                       *)
(***************************************************************************)
EXTENDS Orientation, FiniteSets

CONSTANTS PanelBase, TouchBase, \* BSP_LCD_BASE_*, BSP_TOUCH_BASE_*
          Turns,                \* the rotations the board is held in
          Faults                \* bounds the bus calls that fail

VARIABLES desired, applied, \* of the loop
          app,      \* "panel", "touch", "start", then "loop" and the steps of a turn
          ok,       \* what set_rotation is going to return
          config,   \* s_config.rotation
          panel, touch, \* the flags of panel and touch controller
          worker,   \* "top", "locking", "drawing", "waiting", "flushing", "paused"
          pause,    \* the adapter has been asked to pause
          lock,     \* who holds the LVGL lock
          preview,  \* the gesture task: "idle", "locking" or "copying"
          invalid,  \* the screen must be drawn
          layout,   \* the rotation the frame on the glass was drawn for
          edge,     \* s_te_sem holds an edge
          waited,   \* the wait of this refresh began after the edge
          faults

vars == <<desired, applied, app, ok, config, panel, touch, worker, pause, lock,
          preview, invalid, layout, edge, waited, faults>>
loopVars == <<desired, applied, app, ok, config, panel, touch>>
taskVars == <<worker, preview, invalid, layout, edge, waited>>

\* Before begin(), which brings the panel up at the fixed rotation; the probe
\* after it chooses another.
Init ==
    /\ desired \in Turns /\ applied = 0 /\ config = 0
    /\ app = "panel" /\ ok = TRUE
    /\ panel = {} /\ touch = {}
    /\ worker = "absent" /\ pause = FALSE /\ lock = "none" /\ preview = "idle"
    /\ invalid = TRUE /\ layout = 0 /\ edge = FALSE /\ waited = FALSE
    /\ faults = Faults

TypeOK ==
    /\ desired \in Turns /\ applied \in Rotations /\ config \in Rotations
    /\ app \in {"panel", "touch", "start", "loop", "pausing", "paused", "locking", "resuming"}
    /\ panel \subseteq Axes /\ touch \subseteq Axes
    /\ worker \in {"absent", "top", "locking", "drawing", "waiting", "flushing", "paused"}
    /\ lock \in {"none", "worker", "app", "preview"}
    /\ lock = "worker" <=> worker \in {"drawing", "waiting", "flushing"}
    /\ lock = "preview" <=> preview = "copying"
    /\ layout \in Rotations /\ faults \in 0..Faults

Tilt ==
    /\ desired' \in Turns
    /\ UNCHANGED <<applied, app, ok, config, panel, touch, taskVars, pause, lock, faults>>

(***************************************************************************)
(* Startup: an error leaves begin() with false, which restarts the device. *)
(***************************************************************************)

NewPanel ==
    /\ app = "panel"
    /\ app' = "touch" /\ panel' = Compose(PanelBase, 0) /\ config' = 0
    /\ UNCHANGED <<desired, applied, ok, touch, taskVars, pause, lock, faults>>

NewTouch ==
    /\ app = "touch"
    /\ \/ app' = "start" /\ touch' = Compose(TouchBase, config) /\ UNCHANGED <<panel, faults>>
       \/ app' = "panel" /\ panel' = {} /\ faults > 0 /\ faults' = faults - 1 /\ UNCHANGED touch
    /\ UNCHANGED <<desired, applied, ok, config, taskVars, pause, lock>>

\* esp_lv_adapter_start: the first refresh will wait for an edge.
StartAdapter ==
    /\ app = "start" /\ app' = "loop"
    /\ worker' = "top"
    /\ UNCHANGED <<desired, applied, ok, config, panel, touch, preview,
                   invalid, layout, edge, waited, pause, lock, faults>>

(***************************************************************************)
(* The loop: DisplayUi::set_rotation without the lock.                     *)
(***************************************************************************)

\* Mistake: set_rotation is called under the display lock.
BeginLocked ==
    /\ app = "loop" /\ desired # applied /\ lock = "none"
    /\ lock' = "app" /\ pause' = TRUE /\ app' = "pausing"
    /\ UNCHANGED <<desired, applied, ok, config, panel, touch, taskVars, faults>>

Begin ==
    /\ app = "loop" /\ desired # applied
    /\ IF desired = config
       THEN applied' = desired /\ UNCHANGED <<app, pause>>
       ELSE pause' = TRUE /\ app' = "pausing" /\ UNCHANGED applied
    /\ UNCHANGED <<desired, ok, config, panel, touch, taskVars, lock, faults>>

\* Mistake: the panel is turned without waiting for the worker.
PausedAtOnce ==
    /\ app = "pausing"
    /\ app' = "paused"
    /\ UNCHANGED <<desired, applied, ok, config, panel, touch, taskVars, pause, lock, faults>>

Paused ==
    /\ app = "pausing" /\ worker = "paused"
    /\ app' = "paused"
    /\ UNCHANGED <<desired, applied, ok, config, panel, touch, taskVars, pause, lock, faults>>

\* apply_panel_orientation, apply_touch_orientation: the first call that fails
\* ends them.  `n` of the two or three calls were made.
PanelAfter(from, r, n) ==
    LET to == Compose(PanelBase, r)
    IN  CASE n = 0 -> from
          [] n = 1 -> Written(from, to, Axes \ {"swap"})
          [] OTHER -> to

TouchAfter(from, r, n) ==
    LET to == Compose(TouchBase, r)
    IN  CASE n = 0 -> from
          [] n = 1 -> Written(from, to, Axes \ {"swap"})
          [] n = 2 -> Written(from, to, {"y"})
          [] OTHER -> to

\* Mistake: only the touch is turned back.
UndoTouch(p, t, n, m) == <<PanelAfter(p, config, 0), TouchAfter(t, config, m)>>

\* Both are turned back, and errors of that ignored.
Undo(p, t, n, m) == <<PanelAfter(p, config, n), TouchAfter(t, config, m)>>

\* The orientation all tasks are to see; LVGL is paused.
Orient ==
    /\ app = "paused"
    /\ \/ /\ panel' = PanelAfter(panel, desired, 2) /\ touch' = TouchAfter(touch, desired, 3)
          /\ config' = desired /\ ok' = TRUE /\ app' = "locking"
          /\ UNCHANGED faults
       \/ \E i \in 0..2, j \in 0..3, n \in 0..2, m \in 0..3 :
          LET failures == 1 + (IF n < 2 THEN 1 ELSE 0) + (IF m < 3 THEN 1 ELSE 0)
          IN  /\ (i < 2 /\ j = 0) \/ (i = 2 /\ j < 3)
              /\ failures <= faults /\ faults' = faults - failures
              /\ \E back \in {Undo(PanelAfter(panel, desired, i),
                                   TouchAfter(touch, desired, j), n, m)} :
                   panel' = back[1] /\ touch' = back[2]
              /\ ok' = FALSE /\ app' = "resuming"
              /\ UNCHANGED config
    /\ UNCHANGED <<desired, applied, taskVars, pause, lock>>

\* Mistake: the frame buffers are left as they are.
KeepPixels ==
    /\ app = "locking" /\ app' = "resuming"
    /\ UNCHANGED <<desired, applied, ok, config, panel, touch, worker, preview,
                   invalid, layout, edge, waited, pause, lock, faults>>

Invalidate ==
    /\ app = "locking" /\ lock = "none"
    /\ invalid' = TRUE /\ app' = "resuming"
    /\ UNCHANGED <<desired, applied, ok, config, panel, touch, worker, preview,
                   layout, edge, waited, pause, lock, faults>>

Resume ==
    /\ app = "resuming"
    /\ pause' = FALSE /\ app' = "loop"
    /\ applied' = IF ok THEN config ELSE applied
    /\ UNCHANGED <<desired, ok, config, panel, touch, taskVars, lock, faults>>

(***************************************************************************)
(* The worker of the LVGL adapter: it acknowledges a pause only at the top *)
(* of its loop.                                                            *)
(***************************************************************************)

WorkerPauses ==
    /\ worker = "top" /\ pause /\ worker' = "paused"
    /\ UNCHANGED <<loopVars, preview, invalid, layout, edge, waited, pause, lock, faults>>

WorkerResumes ==
    /\ worker = "paused" /\ ~pause /\ worker' = "top"
    /\ UNCHANGED <<loopVars, preview, invalid, layout, edge, waited, pause, lock, faults>>

WorkerStarts ==
    /\ worker = "top" /\ ~pause /\ worker' = "locking"
    /\ UNCHANGED <<loopVars, preview, invalid, layout, edge, waited, pause, lock, faults>>

\* LV_EVENT_REFR_START: the first area of the refresh will wait for an edge.
WorkerLocks ==
    /\ worker = "locking" /\ lock = "none"
    /\ IF invalid
       THEN lock' = "worker" /\ worker' = "drawing" /\ invalid' = FALSE
       ELSE worker' = "top" /\ UNCHANGED <<lock, invalid>>
    /\ UNCHANGED <<loopVars, preview, layout, edge, waited, pause, faults>>

\* Mistake: an edge from before the wait will do.
AnyEdge ==
    /\ worker = "drawing"
    /\ worker' = "waiting" /\ waited' = FALSE /\ UNCHANGED edge
    /\ UNCHANGED <<loopVars, preview, invalid, layout, pause, lock, faults>>

\* display_draw_partial: "discard idle-time edges".
WaitForEdge ==
    /\ worker = "drawing"
    /\ worker' = "waiting" /\ waited' = FALSE /\ edge' = FALSE
    /\ UNCHANGED <<loopVars, preview, invalid, layout, pause, lock, faults>>

\* An edge, or 25 ms without one; then every area of the refresh is sent.
Flush(ready) ==
    /\ worker = "waiting" /\ (ready => edge)
    /\ worker' = "flushing"
    /\ edge' = (edge /\ ~ready)
    /\ UNCHANGED <<loopVars, preview, invalid, layout, waited, pause, lock, faults>>

Flushed ==
    /\ worker = "flushing"
    /\ worker' = "top" /\ lock' = "none" /\ layout' = config
    /\ UNCHANGED <<loopVars, preview, invalid, edge, waited, pause, faults>>

\* display_te_isr, at the vertical blanking of the panel.
TeEdge ==
    /\ worker # "absent"
    /\ edge' = TRUE /\ waited' = TRUE
    /\ UNCHANGED <<loopVars, worker, preview, invalid, layout, pause, lock, faults>>

(***************************************************************************)
(* show_camera_preview on the gesture task, and other changes of widgets.  *)
(***************************************************************************)

PreviewWaits ==
    /\ worker # "absent" /\ preview = "idle" /\ preview' = "locking"
    /\ UNCHANGED <<loopVars, worker, invalid, layout, edge, waited, pause, lock, faults>>

\* Mistake: the camera frame is copied without the lock.
PreviewUnlocked ==
    /\ preview = "locking" /\ preview' = "copying"
    /\ UNCHANGED <<loopVars, worker, invalid, layout, edge, waited, pause, lock, faults>>

PreviewLocks ==
    /\ preview = "locking" /\ lock = "none"
    /\ preview' = "copying" /\ lock' = "preview"
    /\ UNCHANGED <<loopVars, worker, invalid, layout, edge, waited, pause, faults>>

PreviewDone ==
    /\ preview = "copying"
    /\ preview' = "idle" /\ lock' = "none" /\ invalid' = TRUE
    /\ UNCHANGED <<loopVars, worker, layout, edge, waited, pause, faults>>

Worker ==
    \/ WorkerPauses \/ WorkerResumes \/ WorkerStarts \/ WorkerLocks
    \/ WaitForEdge \/ (\E ready \in BOOLEAN : Flush(ready)) \/ Flushed

Startup == NewPanel \/ NewTouch \/ StartAdapter

Loop == Begin \/ Paused \/ Orient \/ Invalidate \/ Resume

Next ==
    Tilt \/ Startup \/ Loop \/ Worker \/ TeEdge \/ PreviewWaits \/ PreviewLocks \/ PreviewDone

Spec == Init /\ [][Next]_vars

(***************************************************************************)
(* Properties                                                              *)
(***************************************************************************)

\* "Pausing drains the worker, so no flush can be mid-CASET/RASET/RAMWR while
\* MADCTL changes".
NoFlushMidTurn ==
    panel' # panel => worker \notin {"drawing", "waiting", "flushing"}

\* "An offset applied to only one of those two sets desynchronises touch from
\* the image": between turns both make the turn of the configuration.
TouchFollowsImage ==
    app = "loop" =>
        /\ TurnOf(panel, PanelBase) = Matrix(TouchMapping(config))
        /\ TurnOf(touch, TouchBase) = Matrix(TouchMapping(config))

\* "Frame buffers still hold pixels laid out for the previous orientation":
\* unless a drawing is due or under way, the glass shows the present one.
OldPixelsAreReplaced ==
    app = "loop" /\ layout # config =>
        invalid \/ worker \in {"drawing", "waiting", "flushing"}

\* "All areas in this refresh share one fresh TE edge": a refresh that found an
\* edge found one that came after it began to wait.
EdgeIsFresh == worker = "waiting" /\ edge => waited

=============================================================================
