---------------------------- MODULE GestureInput ----------------------------
(***************************************************************************)
(* ESP-Mosaico: the vision worker of gesture_input.cpp with its camera     *)
(* (gesture_camera.cpp), and the part of the main loop that tells it what  *)
(* is on the screen and follows the gestures it reports.                   *)
(*                                                                         *)
(* The two tasks share a context word, a queue of one event and a status.  *)
(* The worker loads the context once per turn and works with that copy     *)
(* until its frame is done; the loop changes it at any time.  What the     *)
(* tracker makes of the frames (GestureTracker) is a number of frames that *)
(* a gesture takes.                                                        *)
(***************************************************************************)
EXTENDS Integers, Sequences

CONSTANTS Pages,        \* how many pages there are
          Attempts,     \* kCameraStartAttempts
          Failures,     \* failed captures that end the capture
          Frames,       \* frames that make a gesture
          MaxAge,       \* how old an event may be when it is taken
          MaxGen,       \* generations the model counts
          Stages        \* that start() takes and stop() gives back in turn: pins,
                        \* video driver, device, buffers and stream

ConstantsOK ==
    /\ Pages \in Nat \ {0}
    /\ {Attempts, Failures, Frames, MaxAge, MaxGen, Stages} \subseteq Nat

VARIABLES
    screen,    \* what the loop shows: [page, asleep], and what it lets in
    loop,      \* where the loop is in its turn, and the last effect
    context,   \* context_
    queue,     \* queue_, of length one
    status,    \* status_
    w,         \* the worker's locals
    cam        \* GestureCamera: stages held, and whether a stop failed

vars == <<screen, loop, context, queue, status, w, cam>>

Statuses == {"Off", "Starting", "Ready", "Paused", "CameraError", "MemoryError", "Fault"}

NextPage(p) == (p + 1) % Pages

Contexts == [gen : 0..MaxGen, accepted : BOOLEAN, enabled : BOOLEAN, allowed : BOOLEAN,
             asleep : BOOLEAN, page : 0..Pages - 1]

Shown == [inputs |-> screen.inputs, asleep |-> screen.asleep, page |-> screen.page]

Init ==
    /\ screen = [page |-> 0, asleep |-> FALSE, camera |-> TRUE, blocked |-> FALSE,
                 inputs |-> 0]
    /\ loop = [at |-> "inputs", quiet |-> TRUE, effect |-> "None", seen |-> Shown, then |-> Shown]
    /\ context = [gen |-> 0, accepted |-> FALSE, enabled |-> FALSE, allowed |-> FALSE,
                  asleep |-> FALSE, page |-> 0]
    /\ queue = << >>
    /\ status = "Off"
    /\ w = [pc |-> "poll", ctx |-> context, active |-> FALSE, rgb |-> FALSE, fault |-> FALSE,
            fatal |-> FALSE, attempt |-> 0, failures |-> 0, warm |-> FALSE,
            frames |-> 0, from |-> Shown, event |-> << >>]
    /\ cam = [held |-> 0, broken |-> FALSE]

(***************************************************************************)
(* The main loop.                                                          *)
(***************************************************************************)

Allowed == ~screen.blocked

Configured(c, accepted) ==
    LET changed == \/ c.enabled # screen'.camera \/ c.allowed # ~screen'.blocked
                   \/ c.asleep # screen'.asleep  \/ c.page # screen'.page
    IN  IF changed \/ accepted
        THEN [gen |-> c.gen + 1, accepted |-> accepted, enabled |-> screen'.camera,
              allowed |-> ~screen'.blocked, asleep |-> screen'.asleep, page |-> screen'.page]
        ELSE c

Invalidated(c) == [c EXCEPT !.gen = @ + 1, !.accepted = FALSE]

\* A touch, the AI button, a page request, a link event, a shake: the pending
\* recognition is cancelled; a sleeping screen wakes, an awake one may turn.
Input ==
    /\ loop.at = "inputs" /\ context.gen < MaxGen
    /\ context' = Invalidated(context)
    /\ \E p \in {screen.page, NextPage(screen.page)} :
          screen' = [screen EXCEPT !.asleep = FALSE, !.inputs = @ + 1,
                                   !.page = IF screen.asleep \/ screen.blocked THEN @ ELSE p]
    /\ loop' = [loop EXCEPT !.quiet = FALSE]
    /\ UNCHANGED <<queue, status, w, cam>>

\* Settings, a pairing code, an update or a rotation comes up or is over; SAVE
\* commits the camera setting.  None of this calls invalidate().
Protect ==
    /\ loop.at = "inputs" /\ context.gen < MaxGen
    /\ \E camera \in {screen.camera} \cup (IF screen.blocked THEN BOOLEAN ELSE {}) :
          screen' = [screen EXCEPT !.blocked = ~@, !.asleep = FALSE, !.camera = camera]
    /\ loop' = [loop EXCEPT !.quiet = FALSE]
    /\ UNCHANGED <<context, queue, status, w, cam>>

\* screensaver.update(), which no input may have kept awake in this turn, and
\* gestures.configure().
Configure ==
    /\ loop.at = "inputs" /\ context.gen < MaxGen
    /\ \E idle \in BOOLEAN :
          screen' = [screen EXCEPT !.asleep = @ \/ (idle /\ loop.quiet /\ ~screen.blocked)]
    /\ context' = Configured(context, FALSE)
    /\ loop' = [loop EXCEPT !.at = "take", !.effect = "None"]
    /\ UNCHANGED <<queue, status, w, cam>>

Effect(a, asleep) ==
    CASE a = "EnterClock" /\ ~asleep -> "Clock"
      [] a = "EnterClock" /\ asleep  -> "None"
      [] a # "EnterClock" /\ asleep  -> "Wake"
      [] OTHER                       -> "Next"

\* take(): the event leaves the queue whether it still counts or not.
Accepts(e) == e.ctx = context /\ context.enabled /\ context.allowed /\ e.age <= MaxAge

Take ==
    /\ loop.at = "take" /\ queue # << >>
    /\ queue' = << >>
    /\ LET e  == Head(queue)
           do == IF Accepts(e) /\ Allowed THEN Effect(e.action, screen.asleep) ELSE "None"
       IN  /\ screen' = CASE do = "Wake"  -> [screen EXCEPT !.asleep = FALSE]
                          [] do = "Clock" -> [screen EXCEPT !.asleep = TRUE]
                          [] do = "Next"  -> [screen EXCEPT !.page = NextPage(@)]
                          [] OTHER        -> screen
           /\ context' = IF do = "None" THEN context ELSE Configured(context, TRUE)
           /\ loop' = [at |-> "inputs", quiet |-> TRUE, effect |-> do, seen |-> e.from, then |-> Shown]
           /\ do # "None" => context.gen < MaxGen
    /\ UNCHANGED <<status, w, cam>>

TakeNothing ==
    /\ loop.at = "take" /\ queue = << >>
    /\ loop' = [loop EXCEPT !.at = "inputs", !.quiet = TRUE]
    /\ UNCHANGED <<screen, context, queue, status, w, cam>>

(***************************************************************************)
(* The worker.                                                             *)
(***************************************************************************)

\* Mistake: only a change of the flags resets the tracker.
FlagsOnly(ctx, previous) == [ctx EXCEPT !.gen = 0] # [previous EXCEPT !.gen = 0]

Changes(ctx, previous) == ctx # previous

\* The top of the loop: the copy of the context, and the tracker.
Loaded == [w EXCEPT !.ctx = context,
                    !.frames = IF Changes(context, w.ctx) THEN 0 ELSE @]

\* Mistake: what was allocated before the models failed is forgotten.
ActiveOnly(s) == s.active

HoldsCamera(s) == s.active \/ s.rgb

\* Mistake: a cleanup that succeeds later makes the camera usable again.
ClearsReleased(s) == ~s.ctx.enabled /\ (~s.fatal \/ cam.held = 0)

ClearsFault(s) == ~s.ctx.enabled /\ ~s.fatal

\* stop(): releases stage after stage until one fails.
Stop(left) == cam' = [held |-> left, broken |-> cam.broken \/ left > 0]

\* Mistake: capture goes on while it is only paused.
OffOnly(s) == ~s.ctx.enabled \/ s.fault

IsIdle(s) == ~s.ctx.enabled \/ ~s.ctx.allowed \/ s.fault

PollIdle ==
    /\ w.pc = "poll" /\ IsIdle(Loaded)
    /\ \E left \in IF HoldsCamera(Loaded) THEN 0..cam.held ELSE {cam.held} :
          LET stops == HoldsCamera(Loaded)
              s == IF stops
                   THEN [Loaded EXCEPT !.active = FALSE, !.rgb = FALSE, !.fatal = @ \/ left > 0,
                                       !.fault = @ \/ left > 0]
                   ELSE Loaded
          IN  /\ IF stops THEN Stop(left) ELSE UNCHANGED cam
              /\ w' = IF ClearsFault(s) THEN [s EXCEPT !.fault = FALSE, !.fatal = FALSE] ELSE s
              /\ status' = CASE ClearsFault(s)                         -> "Off"
                             [] ~ClearsFault(s) /\ s.fatal             -> "Fault"
                             [] ~ClearsFault(s) /\ ~s.fatal /\ ~s.fault -> "Paused"
                             [] OTHER                                  -> status
    /\ UNCHANGED <<screen, loop, context, queue>>

\* The memory is checked and the frame buffer allocated.
PollStart ==
    /\ w.pc = "poll" /\ ~IsIdle(Loaded) /\ ~w.active
    /\ \/ /\ w' = [Loaded EXCEPT !.pc = "start", !.rgb = TRUE, !.attempt = 1]
          /\ status' = "Starting"
       \/ /\ w' = [Loaded EXCEPT !.fault = TRUE]
          /\ status' = "MemoryError"
    /\ UNCHANGED <<screen, loop, context, queue, cam>>

\* start() refuses while stages are held; otherwise it gets as far as it gets.
StartCamera ==
    /\ w.pc = "start"
    /\ \E n \in 0..Stages, ok \in BOOLEAN :
          /\ ok => n = Stages
          /\ cam.held > 0 => ~ok /\ n = cam.held
          /\ cam' = [cam EXCEPT !.held = n]
          /\ w' = [w EXCEPT !.pc = IF ok THEN "models" ELSE "cleanup"]
    /\ UNCHANGED <<screen, loop, context, queue, status>>

CleanUp ==
    /\ w.pc = "cleanup"
    /\ \E left \in 0..cam.held :
          /\ Stop(left)
          /\ \/ /\ left = 0 /\ w.attempt < Attempts
                /\ w' = [w EXCEPT !.pc = "start", !.attempt = @ + 1]
                /\ UNCHANGED status
             \/ /\ left > 0 \/ w.attempt = Attempts
                /\ w' = [w EXCEPT !.pc = "poll", !.fault = TRUE, !.fatal = @ \/ left > 0]
                /\ status' = IF w'.fatal THEN "Fault" ELSE "CameraError"
    /\ UNCHANGED <<screen, loop, context, queue>>

LoadModels ==
    /\ w.pc = "models"
    /\ \/ /\ w' = [w EXCEPT !.pc = "read", !.active = TRUE, !.failures = 0, !.warm = TRUE,
                            !.frames = 0]
          /\ status' = "Ready"
       \/ /\ w' = [w EXCEPT !.pc = "poll", !.fault = TRUE]
          /\ status' = "MemoryError"
    /\ UNCHANGED <<screen, loop, context, queue, cam>>

PollRead ==
    /\ w.pc = "poll" /\ ~IsIdle(Loaded) /\ w.active
    /\ w' = [Loaded EXCEPT !.pc = "read", !.from = IF Loaded.frames = 0 THEN Shown ELSE @]
    /\ UNCHANGED <<screen, loop, context, queue, status, cam>>

ReadFails ==
    /\ w.pc = "read"
    /\ LET dead == w.failures + 1 >= Failures
       IN  /\ w' = [w EXCEPT !.pc = "poll", !.frames = 0, !.failures = @ + 1, !.fault = dead]
           /\ status' = IF dead THEN "CameraError" ELSE status
    /\ UNCHANGED <<screen, loop, context, queue, cam>>

\* The first frames only warm up.
ReadFrame ==
    /\ w.pc = "read"
    /\ w' = [w EXCEPT !.pc = IF w.warm THEN "poll" ELSE "infer", !.failures = 0, !.warm = FALSE]
    /\ UNCHANGED <<screen, loop, context, queue, status, cam>>

\* Detection and tracking; a pose is not looked for while the screen sleeps.
Infer ==
    /\ w.pc = "infer"
    /\ \E hand \in BOOLEAN, a \in {"Swipe"} \cup (IF w.ctx.asleep THEN {} ELSE {"EnterClock"}) :
          LET stale  == context # w.ctx
              frames == CASE stale -> w.frames [] ~stale /\ hand -> w.frames + 1 [] OTHER -> 0
          IN  w' = IF frames >= Frames
                   THEN [w EXCEPT !.pc = "send", !.frames = 0,
                                  !.event = <<[action |-> a, ctx |-> w.ctx, age |-> 0, from |-> w.from]>>]
                   ELSE [w EXCEPT !.pc = "poll", !.frames = frames]
    /\ UNCHANGED <<screen, loop, context, queue, status, cam>>

\* Mistake: the queue has no bound.
Unbounded(q, e) == q \o e

\* xQueueSend() with no waiting: an event still in the queue wins.
Queued(q, e) == IF q = << >> THEN e ELSE q

Send ==
    /\ w.pc = "send"
    /\ queue' = Queued(queue, w.event)
    /\ w' = [w EXCEPT !.pc = "poll", !.event = << >>]
    /\ UNCHANGED <<screen, loop, context, status, cam>>

Older(q) == [i \in DOMAIN q |-> [q[i] EXCEPT !.age = IF @ > MaxAge THEN @ ELSE @ + 1]]

Tick ==
    /\ queue # Older(queue) \/ w.event # Older(w.event)
    /\ queue' = Older(queue) /\ w' = [w EXCEPT !.event = Older(@)]
    /\ UNCHANGED <<screen, loop, context, status, cam>>

Worker == \/ PollIdle \/ PollStart \/ StartCamera \/ CleanUp \/ LoadModels
          \/ PollRead \/ ReadFails \/ ReadFrame \/ Infer \/ Send

Loop == Input \/ Protect \/ Configure \/ Take \/ TakeNothing

Next == Worker \/ Loop \/ Tick

Spec == Init /\ [][Next]_vars

(***************************************************************************)
(* Properties.                                                             *)
(***************************************************************************)
TypeOK ==
    /\ screen \in [page : 0..Pages - 1, asleep : BOOLEAN, camera : BOOLEAN,
                   blocked : BOOLEAN, inputs : 0..MaxGen]
    /\ loop.at \in {"inputs", "take"} /\ loop.effect \in {"None", "Wake", "Clock", "Next"}
    /\ context \in Contexts /\ w.ctx \in Contexts /\ Len(queue) <= 1 /\ status \in Statuses
    /\ w.pc \in {"poll", "start", "cleanup", "models", "read", "infer", "send"}
    /\ cam.held \in 0..Stages

\* A gesture is followed only on the screen it was made for: nothing the user
\* did, and nothing the screen did, came between its first frame and its effect.
ActsOnWhatWasShown == loop.effect # "None" => loop.seen = loop.then

\* "Returns false if resources cannot be safely released; do not restart
\* afterward" (gesture_camera.hpp): stages are taken from none, and never again
\* after a stop that failed.
NoRestartAfterFailure == cam'.held > cam.held => cam.held = 0 /\ ~cam.broken

\* A screen that says the camera is off is right.
OffMeansReleased == status = "Off" => cam.held = 0

\* The two sides of CameraIsReleased (module MCParts): capture is wanted, and
\* the camera is released, or cannot be.
MayCapture == context.enabled /\ context.allowed
Released   == cam.held = 0 \/ w.fatal
=============================================================================
