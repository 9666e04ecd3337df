------------------------------ MODULE PicoPanel ------------------------------
(***************************************************************************)
(* The main loop of the Read Pico (app_main.cpp), one iteration at a time, *)
(* and DisplayUi::render (display_ui.cpp), which it calls and which blocks *)
(* until the electronic paper has been driven: the mode of a refresh, the  *)
(* frame it starts from, and what is left on the glass when it fails.      *)
(***************************************************************************)
EXTENDS Naturals

CONSTANTS Events,   \* the BLE events of the run
          Keys,     \* "side", "middle" (key 2), "hold" (the middle one held, key 5)
          Options,  \* settings a tap can choose
          Commands, \* "r", or the demonstrations "2" and "6"
          Used,     \* published percentages; Missing without a window
          Outcomes, \* how a refresh ends: "ok", "norails", "starved", "failed"
          Soft,     \* kSoftRefreshesPerBaseline
          Failures  \* bounds the failed updates of a behaviour

VARIABLES ota,   \* the update session
          view,  \* the view and the loop's own variables
          ui,    \* rendered_scene_, rendered_orientation_, soft_refreshes_, back_fb
          glass, \* what the paper shows
          boots  \* restarts, modulo 2

vars == <<ota, view, ui, glass, boots>>

Missing == 255

ConstantsOK ==
    /\ Used \subseteq 0..100 \cup {Missing} /\ Commands \subseteq {"r", "2", "6"}
    /\ Outcomes \subseteq {"ok", "norails", "starved", "failed"}
    /\ Soft \in Nat \ {0} /\ Failures \in Nat

Phases == {"idle", "confirming", "receiving", "rebooting"}

Boot(rotation, idle, upright) ==
    [page |-> "home", returnPage |-> "home", idleClock |-> FALSE, rotation |-> rotation,
     idle |-> idle, upright |-> upright, candidate |-> upright, held |-> 0,
     passkey |-> FALSE, online |-> FALSE, warning |-> 0, used |-> Missing, shown |-> Missing,
     phase |-> "idle", seen |-> 0, banner |-> 0, quiet |-> 0,
     force |-> TRUE, baseline |-> FALSE, diagnostic |-> FALSE, rebootDrawn |-> FALSE,
     gap |-> FALSE]       \* history: see BarsAreClean

NoOta == [phase |-> "idle", failures |-> 0]

\* rendered_scene_ is -1 and the paper may show anything.
Blank(what) == [scene |-> what, upright |-> FALSE, banner |-> FALSE, content |-> [online |-> FALSE]]
Paper(f) == [frame |-> f, ghosts |-> 0, inked |-> 0]
NothingDrawn == [scene |-> "none", upright |-> FALSE, soft |-> 0, back |-> Blank("white")]

Init ==
    \E rotation \in 0..2, idle \in 0..1, measured \in BOOLEAN :
        /\ rotation # 0 => measured = (rotation = 1)
        /\ view = Boot(rotation, idle, measured)
        /\ ota = NoOta /\ ui = NothingDrawn /\ glass = Paper(Blank("unknown")) /\ boots = 0

TypeOK ==
    /\ ota.phase \in Phases /\ ota.failures \in 0..Failures
    /\ view.page \in {"home", "clock", "settings"} /\ view.returnPage \in {"home", "clock"}
    /\ view.quiet \in 0..2 /\ view.banner \in 0..1 /\ view.warning \in 0..2
    /\ ui.soft \in 0..Soft /\ glass.ghosts \in 0..Soft

(***************************************************************************)
(* The frame, of what the properties tell apart.                           *)
(***************************************************************************)

\* scene_of.
Scene(v) ==
    IF v.phase # "idle" THEN v.phase ELSE IF v.passkey THEN "pairing" ELSE v.page

\* summarize, window_column: the bar of a window that is there; a dash if not.
HomeFrame(v) == [bar |-> v.used, warning |-> v.warning, online |-> v.online]
ClockFrame(v) == [bar |-> v.used, warning |-> v.warning, online |-> v.online]
SettingsFrame(v) == [idle |-> v.idle, rotation |-> v.rotation, online |-> v.online]

\* pairing, ota: the code or the transfer's phase, which the scene names.
PromptFrame(v) == [online |-> v.online]

\* DisplayUi::render, to the error line at the foot.
Frame(v) ==
    [scene |-> Scene(v), upright |-> v.upright, banner |-> v.banner > 0 /\ v.phase = "idle",
     content |-> CASE Scene(v) = "home"     -> HomeFrame(v)
                   [] Scene(v) = "clock"    -> ClockFrame(v)
                   [] Scene(v) = "settings" -> SettingsFrame(v)
                   [] OTHER                 -> PromptFrame(v)]

Bar(used) == IF used = Missing THEN 0 ELSE used

Ink(f) == IF f.scene \in {"home", "clock"} THEN Bar(f.content.bar) ELSE 0

\* demo_view: the view shown in place of the live one, always upright and
\* without its prompts; "6" shows a transfer.
Demo(v, c) ==
    Frame([v EXCEPT !.phase = IF c = "6" THEN "receiving" ELSE "idle", !.passkey = FALSE,
                    !.page = "home", !.used = 96, !.warning = 2, !.online = TRUE,
                    !.banner = 0, !.upright = TRUE])

(***************************************************************************)
(* A refresh.                                                              *)
(***************************************************************************)

White == Paper(Blank("white"))
Torn  == Paper(Blank("torn"))

More(n, m) == IF n > m THEN n ELSE m

\* A waveform drives each pixel from what back_fb has it at to the frame.  GC16
\* leaves no trace of what it was; a soft one lets a shrinking bar shine through.
Driven(paper, from, f, soft) ==
    CASE paper.frame # from -> Torn
      [] paper.frame = from /\ soft ->
           [frame |-> f, ghosts |-> paper.ghosts + 1, inked |-> More(paper.inked, Ink(f))]
      [] OTHER -> [frame |-> f, ghosts |-> 0, inked |-> Ink(f)]

Full(u, f, baseline) == baseline \/ f.scene # u.scene \/ f.upright # u.upright

\* Mistake: the limit is noticed one refresh late.
LimitPassed(u) == u.soft >= Soft

LimitReached(u) == u.soft + 1 >= Soft

\* Mistake: a failed refresh keeps its scene.
KeepsScene(u) == u

\* A refresh that failed will be repeated from a known white.
Failed(u) == [u EXCEPT !.scene = "none"]

\* The next states <<ui, glass>> of a render.
Rendered(u, g, f, baseline, outcome) ==
    LET first == u.scene = "none"
        full  == Full(u, f, baseline)
        soft  == ~first /\ ~full /\ ~LimitReached(u)
        drawn == [scene |-> f.scene, upright |-> f.upright, back |-> f,
                  soft |-> IF soft /\ outcome # "starved" THEN u.soft + 1 ELSE 0]
    IN  IF ~full /\ f = u.back THEN <<u, g>>
        ELSE CASE outcome = "norails" -> <<Failed(u), g>>
               [] outcome = "failed"  ->
                    <<[Failed(u) EXCEPT !.back = f, !.soft = drawn.soft], Torn>>
               [] outcome = "starved" \/ (outcome = "ok" /\ first) ->
                    <<drawn, Driven(White, White.frame, f, FALSE)>>
               [] OTHER -> <<drawn, Driven(g, u.back, f, soft)>>

(***************************************************************************)
(* The update session, as the loop meets it (module OtaSession).           *)
(***************************************************************************)

Fail(o) ==
    IF o.failures < Failures THEN {[phase |-> "idle", failures |-> o.failures + 1]} ELSE {}

\* An update that is given up ends without being counted as failed.
Given(o) == [o EXCEPT !.phase = "idle"]

Moved(o) ==
    CASE o.phase = "idle"       -> {[o EXCEPT !.phase = "confirming"]} \cup Fail(o)
      [] o.phase = "confirming" -> {Given(o)} \cup Fail(o)
      [] o.phase = "receiving"  -> {[o EXCEPT !.phase = "rebooting"], Given(o)} \cup Fail(o)
      [] OTHER -> {}

OtaMoves == "update" \in Events /\ ota' \in Moved(ota) /\ UNCHANGED <<view, ui, glass, boots>>

(***************************************************************************)
(* The steps of an iteration.                                              *)
(***************************************************************************)

Less(n, d) == IF n > d THEN n - d ELSE 0
Least(n, m) == IF n < m THEN n ELSE m

\* The clock, the retained failure and the phase.
Snapshot(v, dt) ==
    LET fresh  == ota.failures # v.seen
        banner == IF fresh THEN 1 ELSE Less(v.banner, dt)
    IN  [v EXCEPT !.quiet = Least(2, @ + dt), !.held = Least(1, @ + dt),
                  !.banner = banner, !.seen = ota.failures, !.phase = ota.phase,
                  !.force = @ \/ fresh \/ (banner > 0) # (v.banner > 0) \/ ota.phase # v.phase]

Busy(o) == o.phase # "idle"

Toggled(v) ==
    [v EXCEPT !.page = IF @ = "clock" THEN "home" ELSE "clock", !.idleClock = FALSE]

Received(v, e, o) ==
    CASE e \in {"passkey", "paired"} -> [v EXCEPT !.passkey = e = "passkey", !.force = TRUE]
      [] e \in {"link", "lost"} ->
           [v EXCEPT !.online = e = "link", !.force = TRUE,
                     !.baseline = @ \/ v.online # (e = "link")]
      [] e = "toggle" /\ ~Busy(o) /\ ~v.passkey ->
           [Toggled(v) EXCEPT !.force = TRUE, !.quiet = 0]
      [] OTHER -> v

Warning(old, used) ==
    IF used >= 95 \/ (old = 2 /\ used >= 93) THEN 2
    ELSE IF used >= 80 \/ (old >= 1 /\ used >= 78) THEN 1 ELSE 0

\* Mistake: a shrinking bar is redrawn like any other.
NeverShrinks(v, used) == FALSE

Shrinks(v, used) == v.shown # Missing /\ used < v.shown

Published(v, used) ==
    LET level == Warning(v.warning, IF used = Missing THEN 0 ELSE used)
    IN  [v EXCEPT !.used = used, !.shown = used, !.warning = level,
                  !.force = @ \/ level # v.warning,
                  !.baseline = @ \/ level # v.warning \/ Shrinks(v, used),
                  !.gap = @ \/ (v.shown # Missing /\ used = Missing)]

\* DisplayUi::hit: the controls a tap can meet are those of the view, drawn or not.
Targets(v) ==
    CASE Scene(v) = "confirming" -> {"confirm", "deny", "elsewhere"}
      [] Scene(v) = "settings"   -> {"done", "elsewhere"} \cup Options
      [] OTHER                   -> {"elsewhere"}

Chosen(v, o) ==
    CASE o = "idle"     -> [v EXCEPT !.idle = 1 - @]
      [] o = "rotation" -> [v EXCEPT !.rotation = (@ + 1) % 3]
      [] OTHER          -> v

\* `input` is a key, a target, or "none".
Touched(v, input, o) ==
    LET w == [v EXCEPT !.quiet = 0, !.diagnostic = FALSE, !.force = TRUE, !.gap = @ \/ v.diagnostic]
    IN  CASE input = "none" -> v
          [] input # "none" /\ (v.phase = "confirming" \/ Busy(o) \/ v.passkey) -> w
          [] OTHER ->
               IF v.page = "settings"
               THEN CASE input \in {"hold", "done"} -> [w EXCEPT !.page = v.returnPage]
                      [] input = "middle"      -> [w EXCEPT !.baseline = TRUE]
                      [] OTHER                 -> Chosen(w, input)
               ELSE CASE input = "hold" -> [w EXCEPT !.returnPage = v.page, !.page = "settings"]
                      [] input = "middle" -> [w EXCEPT !.baseline = TRUE]
                      [] input = "side" \/ (input = "elsewhere" /\ v.page = "clock") -> Toggled(w)
                      [] OTHER     -> w

\* The session after it: confirm() and deny() of one that is still asking.
Answered(v, input, o) ==
    CASE v.phase = "confirming" /\ o.phase = "confirming" /\ input \in {"middle", "confirm"} ->
           {[o EXCEPT !.phase = "receiving"]}
      [] v.phase = "confirming" /\ o.phase = "confirming" /\ input \in {"hold", "deny"} -> Fail(o)
      [] OTHER -> {o}

\* A fixed rotation wins; a measured one must hold for 1.5 s.
Turned(v, tilt, o) ==
    CASE v.rotation # 0 ->
           [v EXCEPT !.upright = v.rotation = 1,
                     !.force = @ \/ v.upright # (v.rotation = 1)]
      [] v.rotation = 0 /\ (Busy(o) \/ v.passkey \/ tilt = "flat") -> [v EXCEPT !.held = 0]
      [] OTHER ->
           LET p == tilt = "upright"
           IN  IF v.candidate # p THEN [v EXCEPT !.candidate = p, !.held = 0]
               ELSE IF v.held > 0 /\ p # v.upright
               THEN [v EXCEPT !.upright = p, !.force = TRUE] ELSE v

\* Picking the device up leaves the idle clock; a clock opened by key stays.
PickedUp(v, moved) ==
    IF moved /\ v.idleClock /\ v.page = "clock"
    THEN [v EXCEPT !.page = "home", !.idleClock = FALSE, !.force = TRUE, !.quiet = 0] ELSE v

TimedOut(v, o) ==
    IF ~Busy(o) /\ ~v.passkey /\ v.page = "home" /\ v.idle = 1 /\ v.quiet = 2
    THEN [v EXCEPT !.page = "clock", !.idleClock = TRUE, !.force = TRUE] ELSE v

Commanded(v, c, o) ==
    CASE Busy(o) \/ c = "none" -> v
      [] ~Busy(o) /\ c = "r"   ->
           [v EXCEPT !.diagnostic = FALSE, !.force = TRUE, !.baseline = TRUE]
      [] OTHER -> [v EXCEPT !.diagnostic = TRUE]

\* Mistake: a demonstration goes on.
GoesOn(v, o) == v

\* A prompt ends a demonstration.
Prompted(v, o) ==
    IF v.diagnostic /\ (Busy(o) \/ v.passkey)
    THEN [v EXCEPT !.diagnostic = FALSE, !.force = TRUE, !.baseline = TRUE] ELSE v

\* Mistake: the frame that could not be driven counts.
AnyReboot(u, v) == v.phase = "rebooting"

RebootDrawn(u, v) == u.scene # "none" /\ v.phase = "rebooting"

Restarts(v) == v.phase = "rebooting" /\ v.rebootDrawn

\* The paper after a demonstration that a command asked for.
Demonstrated(asked, command) ==
    IF command \notin {"none", "r"} /\ ~Busy(ota')
    THEN {Rendered(ui, glass, Demo(asked, command), TRUE, outcome) : outcome \in Outcomes}
    ELSE {<<ui, glass>>}

\* The frame is due, at the latest when its interval is over.
Draws(done, u, g) ==
    /\ ~done.diagnostic
    /\ \E last \in {Rendered(u, g, Frame(done), done.baseline, outcome) : outcome \in Outcomes} :
       /\ ui' = last[1] /\ glass' = last[2]
       /\ view' = [done EXCEPT !.force = FALSE, !.baseline = FALSE,
                              !.rebootDrawn = RebootDrawn(last[1], done),
                              !.gap = @ /\ last[2].ghosts # 0]

Waits(done, u, g) == (done.diagnostic \/ ~done.force) /\ ui' = u /\ glass' = g /\ view' = done

Tilts == {"flat", "upright", "across"}

\* From the input on, when the queue and the usage have been read.
Reacts(heard, event, late) ==
    \E input \in Keys \cup {"none"} \cup (IF Options = {} THEN {} ELSE Targets(heard)),
       tilt \in IF "tilt" \in Events THEN Tilts ELSE {"flat"},
       command \in Commands \cup {"none"} :
    /\ ota' \in Answered(heard, input, late)
    /\ \E turned \in {PickedUp(Turned(Touched(heard, input, late), tilt, ota'), event = "tilt")} :
       \E asked \in {Commanded(TimedOut(turned, ota'), command, ota')} :
       \E demo \in Demonstrated(asked, command), done \in {Prompted(asked, ota')} :
       Draws(done, demo[1], demo[2]) \/ Waits(done, demo[1], demo[2])

Iteration ==
    /\ \E dt \in 0..1, late \in {ota} \cup (IF "update" \in Events THEN Moved(ota) ELSE {}) :
       \E begun \in {Snapshot(view, dt)} :
       /\ ~Restarts(begun)
       /\ \E event \in Events \cup {"none"}, used \in Used :
          \E heard \in {Published(Received(begun, event, late), used)} : Reacts(heard, event, late)
    /\ UNCHANGED boots

\* esp_restart: the new firmware starts from the saved settings.
Restart ==
    /\ Restarts(Snapshot(view, 0))
    /\ boots' = 1 - boots
    /\ view' = Boot(view.rotation, view.idle, view.upright)
    /\ ota' = NoOta /\ ui' = NothingDrawn /\ UNCHANGED glass

Next == OtaMoves \/ Iteration \/ Restart

Spec == Init /\ [][Next]_vars

(***************************************************************************)
(* Properties                                                              *)
(***************************************************************************)

\* Whatever of page, prompt, link, warning, orientation and failure changed is
\* on the paper when the iteration ends, unless a demonstration or a failed
\* refresh is.
SceneIsDrawn ==
    ~view.diagnostic /\ ui.scene # "none" =>
        LET f == Frame(view)
        IN  /\ glass.frame.scene = f.scene /\ glass.frame.upright = f.upright
            /\ glass.frame.banner = f.banner /\ glass.frame.content.online = view.online
            /\ f.scene \in {"home", "clock"} => glass.frame.content.warning = view.warning

\* "The frame must not count as displayed": what the driver takes for the frame
\* on the paper is there, however refreshes fail.
GlassIsFrame == ui.scene # "none" => glass.frame = ui.back

\* "DU and GL16 updates accumulate ghosting; a GC16 refresh renews the optical
\* baseline."
GhostsBounded == glass.ghosts < Soft

\* "A shrinking bar exposes track gray, which only a GC16 refresh restores
\* cleanly."  The loop asks for none when the window goes missing, or a key leaves
\* a demonstration; until the next one something may shine through.
BarsAreClean ==
    ui.scene # "none" => view.gap \/ glass.inked = Ink(ui.back)

\* A demonstration hides neither the passkey nor the update prompt.
PromptsAreSeen ==
    view' # view /\ (view'.passkey \/ (view'.phase # "idle" /\ Busy(ota'))) => ~view'.diagnostic

\* "The RESTARTING frame is drawn synchronously one iteration before the
\* restart."
FinalFrameIsSeen == boots' # boots => glass.frame.scene = "rebooting"

=============================================================================
