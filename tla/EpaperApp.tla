------------------------------ MODULE EpaperApp ------------------------------
(***************************************************************************)
(* The main loop of the ePaper 3.97 board (app_main.cpp), one iteration at *)
(* a time: the update session's snapshot, one event of the BLE queue, one  *)
(* key, the orientation, the idle timeout, one diagnostic command, and the *)
(* frame that is drawn at the end.  The session moves on its own task, and *)
(* once while the iteration runs; the panel refreshes on a task of its own *)
(* (module EpaperRefresh).  Both services count as one.                    *)
(***************************************************************************)
EXTENDS Naturals

CONSTANTS Events,      \* the BLE events of the run
          Keys,        \* 1 up, 2 press, 3 down, 4 BOOT, 5 hold
          Commands,    \* diagnostic commands of the run
          Tilts,       \* what the accelerometer may say
          Used,        \* published percentages
          Banner, Idle, Final, \* durations, in units of the clock
          Failures,    \* bounds the failures of a behaviour
          Aborts       \* whether a Bridge may give its update up

ConstantsOK ==
    /\ Banner \in Nat /\ Idle \in Nat /\ Final \in Nat /\ Failures \in Nat
    /\ Aborts \in BOOLEAN

Pages  == {"home", "trend", "clock", "settings"}
Phases == {"idle", "confirming", "receiving", "rebooting"}
Errors == {"none", "rejected", "lost"}

VARIABLES ota,      \* the update session
          view,     \* the view and the loop's own variables
          frame,    \* the frame submitted last
          settled,  \* the panel has refreshed it: DisplayUi::idle
          boots     \* restarts, modulo 2

vars == <<ota, view, frame, settled, boots>>

NoOta == [phase |-> "idle", error |-> "none", failures |-> 0]

Boot(rotation, idle) ==
    [page |-> "home", clockReturn |-> "home", returnPage |-> "home",
     focus |-> 0, saveError |-> FALSE, rotation |-> rotation, idle |-> idle,
     upright |-> rotation = 2, candidate |-> rotation = 2, held |-> 0,
     passkey |-> FALSE, warning |-> 0, ota |-> NoOta, banner |-> 0,
     reboot |-> Final + 1, quiet |-> 0, demo |-> FALSE, diagnostic |-> FALSE,
     force |-> TRUE]

BannerVisible(v) == v.ota.error # "none" /\ v.banner > 0 /\ v.ota.phase = "idle"

\* DisplayUi::render: what the frame shows, of what the properties tell apart.
Frame(v) ==
    [scene   |-> IF v.ota.phase # "idle" THEN v.ota.phase
                 ELSE IF v.passkey THEN "pairing" ELSE v.page,
     upright |-> v.upright, warning |-> v.warning,
     rows    |-> IF v.page = "settings"
                 THEN <<v.focus, v.idle, v.rotation, v.saveError>> ELSE <<>>]

NoFrame == [scene |-> "none"]
Foreign == [scene |-> "diagnostic"]

Init ==
    \E rotation \in 0..2, idle \in 0..1 :
        /\ view = Boot(rotation, idle)
        /\ ota = NoOta /\ frame = NoFrame /\ settled = TRUE /\ boots = 0

TypeOK ==
    /\ ota \in [phase : Phases, error : Errors, failures : 0..Failures]
    /\ view.page \in Pages /\ view.returnPage \in Pages \ {"settings"}
    /\ view.clockReturn \in {"home", "trend"}
    /\ view.banner \in 0..Banner /\ view.reboot \in 0..(Final + 1)
    /\ view.quiet \in 0..Idle

(***************************************************************************)
(* The update session, as the loop meets it (module OtaSession).           *)
(***************************************************************************)

Fail(o) == {[phase |-> "idle", error |-> e, failures |-> o.failures + 1] :
            e \in IF o.failures < Failures THEN Errors \ {"none"} ELSE {}}

\* An update that is given up ends without an error and is not counted.
Given(o) == IF Aborts THEN {[o EXCEPT !.phase = "idle", !.error = "none"]} ELSE {}

Moved(o) ==
    CASE o.phase = "idle" ->
           {[o EXCEPT !.phase = "confirming", !.error = "none"]} \cup Fail(o)
      [] o.phase = "confirming" -> Fail(o) \cup Given(o)
      [] o.phase = "receiving"  ->
           {[o EXCEPT !.phase = "rebooting"]} \cup Fail(o) \cup Given(o)
      [] OTHER -> {}

OtaMoves ==
    /\ ota' \in Moved(ota)
    /\ UNCHANGED <<view, frame, settled, boots>>

(***************************************************************************)
(* The steps of an iteration.                                              *)
(***************************************************************************)

Less(n, d) == IF n > d THEN n - d ELSE 0
Least(n, m) == IF n < m THEN n ELSE m

Waited(v, dt) ==
    [v EXCEPT !.banner = Less(@, dt), !.quiet = Least(Idle, @ + dt),
              !.held = Least(1, @ + dt),
              !.reboot = IF @ > Final THEN @ ELSE Less(@, dt)]

\* A new error starts the banner, and leaves the clock for it.
NewError(v) ==
    LET w == [v EXCEPT !.ota = ota, !.force = TRUE, !.banner = Banner]
    IN  IF ota.error # "none" /\ v.page = "clock"
        THEN [w EXCEPT !.page = v.clockReturn, !.quiet = 0] ELSE w

\* Mistake: only errors are worth a frame.
ErrorsOnly(v) == IF ota.error # v.ota.error THEN NewError(v) ELSE [v EXCEPT !.ota = ota]

Snapshot(v) ==
    LET w == [v EXCEPT !.force = @ \/ ota.phase # v.ota.phase]
    IN  IF ota.error # v.ota.error THEN NewError(w) ELSE [w EXCEPT !.ota = ota]

Free(v, o) == o.phase = "idle" /\ ~v.passkey

\* Mistake: settings is a page like any other.
AnyPage(v) == v.page

Left(v) == IF v.page = "settings" THEN "home" ELSE v.page

Received(v, e, o) ==
    CASE e \in {"passkey", "paired"} ->
           [v EXCEPT !.passkey = e = "passkey", !.force = TRUE]
      [] e = "time" -> [v EXCEPT !.force = TRUE]
      [] e \in {"toggle", "page"} /\ Free(v, o) ->
           LET left == IF v.page = "clock" THEN v.clockReturn ELSE v.page
               to == CASE e = "page" -> IF ~v.upright /\ left # "trend"
                                        THEN "trend" ELSE "home"
                       [] e # "page" /\ v.page = "clock" -> left
                       [] OTHER -> "clock"
           IN  [v EXCEPT !.page = to, !.force = TRUE, !.quiet = 0,
                         !.clockReturn = CASE e = "page" \/ v.page = "clock" -> @
                                           [] OTHER -> Left(v)]
      [] OTHER -> v

Warning(old, used) ==
    CASE used >= 95 \/ (old = 2 /\ used >= 93) -> 2
      [] OTHER -> IF used >= 80 \/ (old >= 1 /\ used >= 78) THEN 1 ELSE 0

\* Mistake: a warning waits for the next regular redraw.
WarnedLater(v, used) == [v EXCEPT !.warning = Warning(@, used)]

Warned(v, used) ==
    LET level == Warning(v.warning, used)
    IN  [v EXCEPT !.warning = level, !.force = @ \/ level # v.warning]

\* Settings: the focus moves, a value changes and is saved, or the page closes.
InSettings(v, k, saved) ==
    CASE k = 1 -> [v EXCEPT !.focus = (@ + 2) % 3]
      [] k = 3 -> [v EXCEPT !.focus = (@ + 1) % 3]
      [] k = 5 -> [v EXCEPT !.page = v.returnPage]
      [] OTHER -> LET w == [v EXCEPT !.saveError = ~saved]
                  IN  CASE v.focus = 1 -> [w EXCEPT !.idle = (@ + 1) % 2]
                        [] v.focus = 2 -> [w EXCEPT !.rotation = (@ + 1) % 3]
                        [] OTHER -> w

OnPage(v, k) ==
    CASE k = 5 -> [v EXCEPT !.returnPage = v.page, !.page = "settings"]
      [] k # 5 /\ v.page \in {"clock", "trend"} -> [v EXCEPT !.page = "home"]
      [] k = 1 /\ v.page = "home" /\ ~v.upright -> [v EXCEPT !.page = "trend"]
      [] k = 3 /\ v.page = "home" ->
           [v EXCEPT !.clockReturn = v.page, !.page = "clock"]
      [] OTHER -> v

DemoKey(v, k, o) == v.demo /\ Free(v, o)

\* Outside the demos every key counts, whatever it does.
Keyed(v, k, saved, o) ==
    IF k = 0 THEN v
    ELSE IF DemoKey(v, k, o)
    THEN IF k = 5 THEN [v EXCEPT !.demo = FALSE, !.diagnostic = FALSE, !.force = TRUE]
         ELSE v
    ELSE LET w == [v EXCEPT !.quiet = 0, !.diagnostic = FALSE, !.force = TRUE]
         IN  CASE v.ota.phase = "confirming" \/ ~Free(v, o) \/ k = 4 -> w
               [] OTHER -> IF v.page = "settings" THEN InSettings(w, k, saved)
                           ELSE OnPage(w, k)

\* The session after the key: a press confirms, a hold denies.
Answered(o, v, k) ==
    IF v.ota.phase = "confirming" /\ o.phase = "confirming"
    THEN CASE k = 2 -> {[o EXCEPT !.phase = "receiving"]}
           [] k = 5 -> Fail(o)
           [] OTHER -> {o}
    ELSE {o}

\* A fixed rotation wins; a measured one must hold for 1.5 s.
Turned(v, tilt, o) ==
    IF v.rotation # 0
    THEN [v EXCEPT !.upright = v.rotation = 2,
                   !.force = @ \/ v.upright # (v.rotation = 2)]
    ELSE IF ~Free(v, o) THEN v
    ELSE IF tilt = "flat" THEN [v EXCEPT !.held = 0]
    ELSE LET p == tilt = "port"
         IN  IF v.candidate # p THEN [v EXCEPT !.candidate = p, !.held = 0]
             ELSE IF v.held > 0 /\ p # v.upright
             THEN [v EXCEPT !.upright = p, !.force = TRUE] ELSE v

NoUprightTrend(v) ==
    IF v.upright /\ v.page = "trend"
    THEN [v EXCEPT !.page = "home", !.force = TRUE] ELSE v

OpenClock(v) == [v EXCEPT !.clockReturn = v.page, !.page = "clock", !.force = TRUE]

TimedOut(v, o) ==
    IF /\ Free(v, o) /\ v.idle = 1 /\ v.quiet >= Idle
       /\ v.page \notin {"settings", "clock"}
    THEN OpenClock(v) ELSE v

Commanded(v, c, o) ==
    IF o.phase # "idle" THEN v
    ELSE CASE c = "partial" /\ ~v.passkey ->
                IF settled
                THEN [v EXCEPT !.demo = TRUE, !.diagnostic = TRUE]
                ELSE [v EXCEPT !.diagnostic = v.demo]
           [] c = "frame" -> [v EXCEPT !.demo = FALSE, !.diagnostic = TRUE]
           [] c = "live"  ->
                [v EXCEPT !.demo = FALSE, !.diagnostic = FALSE, !.force = TRUE]
           [] OTHER -> v

\* A demo waits for an idle panel; a diagnostic frame does not.
DiagnosticFrame(v, k, c, asked) ==
    asked.diagnostic /\ (c \in {"partial", "frame"} \/ (v.demo /\ k # 0))

\* Mistake: a diagnostic goes on.
GoesOn(v, o) == v

\* A prompt ends a diagnostic.
Prompted(v, o) ==
    IF v.diagnostic /\ ~Free(v, o)
    THEN [v EXCEPT !.demo = FALSE, !.diagnostic = FALSE, !.force = TRUE] ELSE v

(***************************************************************************)
(* One iteration of the loop, from the snapshot to the frame.              *)
(***************************************************************************)

\* Mistake: the first rebooting iteration may already restart.
AnyIteration(v, idle) == v.ota.phase = "rebooting" /\ (idle \/ v.reboot = 0)

\* The first rebooting iteration only sets the deadline.
Restarts(v, idle) ==
    v.ota.phase = "rebooting" /\ v.reboot <= Final /\ (idle \/ v.reboot = 0)

Armed(v) ==
    IF v.ota.phase = "rebooting" /\ v.reboot > Final
    THEN [v EXCEPT !.reboot = Final] ELSE v

\* Saving the settings may fail.
Saves(v) == IF v.page = "settings" THEN BOOLEAN ELSE {TRUE}

Iteration ==
    \E dt \in 0..1, late \in {ota} \cup Moved(ota) :
    \E begun \in {Snapshot(Waited(view, dt))} :
    /\ ~Restarts(begun, settled)
    /\ \E armed \in {Armed(begun)}, event \in Events \cup {"none"}, used \in Used :
       \E heard \in {Warned(Received(armed, event, late), used)} :
       \E key \in Keys \cup {0}, saved \in Saves(armed), tilt \in Tilts \cup {"flat"},
          command \in Commands \cup {"none"} :
       /\ ota' \in Answered(late, heard, key)
       /\ \E keyed \in {Keyed(heard, key, saved, late)} :
          \E turned \in {NoUprightTrend(Turned(keyed, tilt, ota'))} :
          \E asked \in {Commanded(TimedOut(turned, ota'), command, ota')} :
          \E done \in {Prompted(asked, ota')} :
          /\ \/ /\ ~done.diagnostic
                /\ frame' = Frame(done)
                /\ settled' = (settled /\ ~done.force /\ frame = Frame(done))
                /\ view' = [done EXCEPT !.force = FALSE, !.demo = FALSE]
             \/ /\ done.diagnostic \/ ~done.force
                /\ \/ /\ DiagnosticFrame(heard, key, command, asked)
                      /\ frame' = Foreign /\ settled' = FALSE
                   \/ UNCHANGED <<frame, settled>>
                /\ view' = done
          /\ UNCHANGED boots

\* esp_restart: the new firmware starts from the saved settings.
Restart ==
    /\ \E dt \in 0..1 : Restarts(Snapshot(Waited(view, dt)), settled)
    /\ boots' = 1 - boots
    /\ view' = Boot(view.rotation, view.idle)
    /\ ota' = NoOta /\ frame' = NoFrame /\ settled' = TRUE

Refresh ==
    /\ ~settled
    /\ settled' = TRUE
    /\ UNCHANGED <<ota, view, frame, boots>>

Next == OtaMoves \/ Iteration \/ Restart \/ Refresh

Spec == Init /\ [][Next]_vars

(***************************************************************************)
(* Properties                                                              *)
(***************************************************************************)

\* "Page changes, security prompts and physical refresh requests bypass this
\* interval": outside diagnostics the frame submitted last is the one of the
\* present page, prompt, orientation and warning.
SceneIsDrawn == ~view.diagnostic /\ frame \notin {NoFrame, Foreign} => frame = Frame(view)

\* Diagnostics hide neither the passkey nor the update prompt: an iteration
\* that ends under one of them has drawn it.
PromptsAreSeen ==
    view' # view /\ (view'.passkey \/ (view'.ota.phase # "idle" /\ ota'.phase # "idle"))
        => ~view'.diagnostic /\ frame' # Foreign

\* "The device restarts once the RESTARTING frame has finished refreshing, or
\* after 20 seconds".
FinalFrameIsSeen ==
    boots' # boots => (settled /\ frame.scene = "rebooting") \/ view.reboot <= 1

=============================================================================
