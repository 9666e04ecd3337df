----------------------------- MODULE TouchPanel -----------------------------
(***************************************************************************)
(* The Waveshare AMOLED target: the main loop of app_main.cpp and the LVGL *)
(* task that runs the callbacks of display_ui.cpp.                         *)
(*                                                                         *)
(* The callbacks only set latches (atomics) that the loop takes one after  *)
(* the other; the loop tells the callbacks what to accept when it renders. *)
(* Each access of the loop to the latches is a step of its own, so that a  *)
(* callback can fall between any two.  Rendering and apply_settings() run  *)
(* under the LVGL lock, which the callbacks hold too.                      *)
(*                                                                         *)
(* apply_settings() first sends a changed brightness to the panel and does *)
(* nothing more if the panel refuses it.  The loop takes a refused choice  *)
(* of the settings page back; where it closes the page it ignores the      *)
(* result, and the page stays in front (`refused').                        *)
(*                                                                         *)
(* The loop samples the clock once per turn; time passes while it sleeps,  *)
(* in units of which `SecondTicks' make a second.                          *)
(***************************************************************************)
EXTENDS Screensaver, Sequences, FiniteSets

CONSTANTS
    Inputs,          \* what happens to this panel (see Next)
    LongPress,       \* lv_indev_set_long_press_time
    SecondTicks,     \* time units in a second
    FailureTicks,    \* how long a failed update stays on the screen
    Brightness,      \* brightness percentages, a range of numbers
    DefaultBrightness,
    QueueLength,     \* events the model lets wait for the loop
    MaxOffers        \* how many updates are offered

\* Times and bounds are numbers, and the clock has a second to count to.
ConstantsOK ==
    /\ {TouchGuard, WakeGuard, IdleCap, LongPress, FailureTicks, QueueLength, MaxOffers} \subseteq Nat
    /\ SecondTicks \in Nat \ {0} /\ DefaultBrightness \in Brightness

VARIABLES
    pc,        \* where the loop is
    saver,     \* its screensaver
    loop,      \* its other locals
    queue,     \* app events from the BLE task
    ui,        \* DisplayUi: latches, gates and what is in front
    finger,    \* the touch in progress
    ota,       \* the update session, shared with the BLE task
    clock      \* position inside the second

vars == <<pc, saver, loop, queue, ui, finger, ota, clock>>

PageAfterSwipe(p, previous) ==
    CASE p = "overview" -> IF previous THEN "claude" ELSE "codex"
      [] p = "codex"    -> IF previous THEN "overview" ELSE "claude"
      [] p = "claude"   -> IF previous THEN "codex" ELSE "overview"

Settings == [brightness : Brightness, delay : {0, IdleCap}]
Actions  == {"Open", "Dimmer", "Brighter", "TimeoutOff", "Timeout", "Save", "Cancel"}
Layers   == {"page", "clock", "settings", "pairing", "ota"}
Offers   == 0..MaxOffers

TypeOK ==
    /\ pc \in {"ota", "touch", "settings", "page", "events", "sensors", "update", "render", "sleep"}
    /\ saver \in Savers
    /\ loop \in [page : Pages, status : Pages, set : Settings, saved : Settings,
                 open : BOOLEAN, passkey : BOOLEAN, phase : {"Idle", "Confirming", "Receiving"},
                 offer : Offers, last : {"Idle", "Confirming", "Receiving"} \X Offers, window : 0..FailureTicks,
                 count : 0..MaxOffers, dirty : BOOLEAN, key : Pages \X BOOLEAN \X BOOLEAN,
                 second : BOOLEAN]
    /\ queue \in Seq({"toggle", "next", "previous", "pairing", "paired"}) /\ Len(queue) <= QueueLength
    /\ ui \in [requested : Pages, down : BOOLEAN, action : Actions \cup {"None"},
               confirm : Offers, deny : Offers, input : BOOLEAN, active : BOOLEAN,
               confirming : BOOLEAN, shown : Offers, visible : BOOLEAN,
               refused : BOOLEAN, brightness : Brightness, layer : Layers]
    /\ finger \in [on : Layers \cup {"none", "released"}, age : 0..LongPress, held : BOOLEAN]
    /\ ota \in [phase : {"Idle", "Confirming", "Receiving"}, offer : Offers,
                failed : BOOLEAN, count : 0..MaxOffers]
    /\ clock \in 0..SecondTicks - 1

Default == [brightness |-> DefaultBrightness, delay |-> IdleCap]

Init ==
    /\ pc = "ota"
    /\ saver = Reset("overview")
    /\ loop = [page |-> "overview", status |-> "overview", set |-> Default, saved |-> Default,
               open |-> FALSE, passkey |-> FALSE, phase |-> "Idle", offer |-> 0, last |-> <<"Idle", 0>>,
               window |-> 0, count |-> 0, dirty |-> TRUE, key |-> <<"overview", FALSE, FALSE>>,
               second |-> TRUE]
    /\ queue = << >>
    /\ ui = [requested |-> "overview", down |-> FALSE, action |-> "None", confirm |-> 0,
             deny |-> 0, input |-> TRUE, active |-> FALSE, confirming |-> FALSE, shown |-> 0,
             visible |-> FALSE, refused |-> FALSE, brightness |-> DefaultBrightness,
             layer |-> "page"]
    /\ finger = [on |-> "none", age |-> 0, held |-> FALSE]
    /\ ota = [phase |-> "Idle", offer |-> 0, failed |-> FALSE, count |-> 0]
    /\ clock = 0

(***************************************************************************)
(* DisplayUi.                                                              *)
(***************************************************************************)

\* The panel may refuse a brightness that is not the one it has.
Refusable(u, s) == "refuse" \in Inputs /\ s.brightness # u.brightness

\* apply_settings() that the panel does not refuse: brightness, the latch the
\* callbacks look at, and the settings panel itself.
ApplySettings(u, s, visible) ==
    [u EXCEPT !.brightness = s.brightness, !.visible = visible, !.refused = FALSE,
              !.layer = CASE visible /\ ~u.visible     -> "settings"
                          [] ~visible /\ @ = "settings" -> "page"
                          [] OTHER                      -> @]

\* What render() puts in front.
LayerFor(active, passkey, otaVisible, visible) ==
    CASE otaVisible                                    -> "ota"
      [] ~otaVisible /\ visible /\ ~passkey            -> "settings"
      [] ~otaVisible /\ ~visible /\ active /\ ~passkey -> "clock"
      [] ~otaVisible /\ passkey                        -> "pairing"
      [] OTHER                                         -> "page"

Rendered(u, inputEnabled, active, passkey, phase, offer, failure) ==
    [u EXCEPT !.input = inputEnabled /\ ~passkey,
              !.active = (phase # "Idle"),
              !.confirming = (phase = "Confirming"),
              !.shown = IF phase = "Confirming" THEN offer ELSE 0,
              !.layer = LayerFor(active, passkey, phase # "Idle" \/ failure, u.visible)]

(***************************************************************************)
(* The LVGL task: callbacks of one finger.                                 *)
(***************************************************************************)

\* A press goes to what is in front; touch_down_event runs whatever that is.
Press ==
    /\ "touch" \in Inputs
    /\ finger.on = "none"
    /\ finger' = [on |-> ui.layer, age |-> 0, held |-> FALSE]
    /\ ui' = [ui EXCEPT !.down = TRUE]
    /\ UNCHANGED <<pc, saver, loop, queue, ota, clock>>

AcceptsNavigation == ~ui.visible /\ ~ui.active /\ ui.input

TabEvent(p) ==
    ui' = IF AcceptsNavigation THEN [ui EXCEPT !.requested = p] ELSE ui

GestureEvent(previous) ==
    ui' = IF AcceptsNavigation
          THEN [ui EXCEPT !.requested = PageAfterSwipe(@, previous)] ELSE ui

SettingsEvent(a) == ui' = IF ui.visible THEN [ui EXCEPT !.action = a] ELSE ui

OtaConfirmEvent == ui' = IF ui.confirming THEN [ui EXCEPT !.confirm = ui.shown] ELSE ui
OtaDenyEvent    == ui' = IF ui.confirming THEN [ui EXCEPT !.deny = ui.shown] ELSE ui

\* Which callbacks a click on each object runs.
ClickPage ==
    \/ \E p \in Pages : TabEvent(p)
    \/ \E previous \in BOOLEAN : GestureEvent(previous)
ClickSettings == \E a \in Actions \ {"Open"} : SettingsEvent(a)
ClickOta      == OtaConfirmEvent \/ OtaDenyEvent

\* The finger lifts: LVGL clicks the object that was pressed, unless it was
\* told to wait for the release.
Release ==
    /\ finger.on # "none"
    /\ finger' = [on |-> "none", age |-> 0, held |-> FALSE]
    /\ \/ finger.on = "page" /\ "tabs" \in Inputs /\ ClickPage
       \/ finger.on = "settings" /\ ClickSettings
       \/ finger.on = "ota" /\ ClickOta
       \/ UNCHANGED ui
    /\ UNCHANGED <<pc, saver, loop, queue, ota, clock>>

LongPressEvent ==
    /\ "hold" \in Inputs
    /\ finger.on \notin {"none", "released"} /\ ~finger.held /\ finger.age = LongPress
    /\ IF AcceptsNavigation
       THEN /\ ui' = [ui EXCEPT !.action = "Open"]
            /\ finger' = [finger EXCEPT !.on = "released", !.held = TRUE]
       ELSE /\ UNCHANGED ui
            /\ finger' = [finger EXCEPT !.held = TRUE]
    /\ UNCHANGED <<pc, saver, loop, queue, ota, clock>>

(***************************************************************************)
(* The BLE task: events for the loop, and the update session.              *)
(***************************************************************************)

Send(e) == Len(queue) < QueueLength /\ queue' = Append(queue, e)

Peer ==
    /\ \/ "toggle" \in Inputs /\ Send("toggle")
       \/ "page" \in Inputs /\ (Send("next") \/ Send("previous"))
       \/ "passkey" \in Inputs /\ (Send("pairing") \/ Send("paired"))
    /\ UNCHANGED <<pc, saver, loop, ui, finger, ota, clock>>

OtaOffer ==
    /\ "ota" \in Inputs /\ ota.phase = "Idle" /\ ota.offer < MaxOffers
    /\ ota' = [ota EXCEPT !.phase = "Confirming", !.offer = @ + 1, !.failed = FALSE]
    /\ UNCHANGED <<pc, saver, loop, queue, ui, finger, clock>>

\* An update times out, is aborted, or breaks off.
OtaFail ==
    /\ ota.phase # "Idle"
    /\ ota' = [ota EXCEPT !.phase = "Idle", !.failed = TRUE, !.count = @ + 1]
    /\ UNCHANGED <<pc, saver, loop, queue, ui, finger, clock>>

(***************************************************************************)
(* The main loop, one turn from `ota' to `sleep'.                          *)
(***************************************************************************)

\* route_touch() looks at the phase the loop has read, confirm() at the
\* session's.
Confirms(u) == u.confirm # 0 /\ ota.phase = "Confirming"
Denies(u)   == u.deny # 0 /\ ~Confirms(u) /\ ota.phase = "Confirming"

TakeOta ==
    /\ pc = "ota"
    /\ ota' = CASE Confirms(ui) -> [ota EXCEPT !.phase = "Receiving"]
                [] Denies(ui)   -> [ota EXCEPT !.phase = "Idle", !.failed = TRUE, !.count = @ + 1]
                [] OTHER        -> ota
    /\ ui' = [ui EXCEPT !.confirm = 0, !.deny = 0]
    /\ loop' = [loop EXCEPT !.phase = ota'.phase, !.offer = ota'.offer,
                            !.dirty = @ \/ Confirms(ui) \/ Denies(ui)]
    /\ pc' = "touch"
    /\ UNCHANGED <<saver, queue, finger, clock>>

\* Mistake: the page is restored but not reported.
RestoresSilently(l) == IF saver.active THEN [l EXCEPT !.page = saver.restore] ELSE l

\* A wake gives back the page the clock was entered from.
Restored(l) == IF saver.active THEN [l EXCEPT !.page = saver.restore, !.status = saver.restore] ELSE l

\* retain_ota_failure() opens the window of a failure not shown before.
TakeTouch ==
    /\ pc = "touch"
    /\ LET fresh == ota.failed /\ ota.count # loop.count
           l == IF ui.down THEN [Restored(loop) EXCEPT !.dirty = TRUE] ELSE loop
       IN  loop' = IF fresh THEN [l EXCEPT !.window = FailureTicks, !.count = ota.count, !.dirty = TRUE]
                            ELSE l
    /\ saver' = IF ui.down THEN NoteTouchDown(saver) ELSE saver
    /\ ui' = [ui EXCEPT !.down = FALSE]
    /\ pc' = "settings"
    /\ UNCHANGED <<queue, finger, ota, clock>>

Blocked == loop.passkey \/ loop.phase # "Idle"

\* The settings page closes in the loop, and what it previewed is undone.
Closed(l) == [l EXCEPT !.set = l.saved, !.open = FALSE, !.dirty = TRUE]

\* Mistake: an interrupted preview keeps its brightness.
HidesPreview(u, l) == ui' = ApplySettings(u, [l.saved EXCEPT !.brightness = u.brightness], FALSE)

\* It closes on the panel, too, unless the panel refuses the saved brightness:
\* the loop does not look at the result.
UndoesPreview(u, l) ==
    \/ ui' = ApplySettings(u, l.saved, FALSE)
    \/ Refusable(u, l.saved) /\ ui' = [u EXCEPT !.refused = TRUE]

Lower(b)  == IF b - 1 \in Brightness THEN b - 1 ELSE b
Higher(b) == IF b + 1 \in Brightness THEN b + 1 ELSE b

\* One action of the open settings page; save_display_settings() may fail.
Acted(l, a, written) ==
    CASE a = "Dimmer"   -> [l EXCEPT !.set.brightness = Lower(@)]
      [] a = "Brighter" -> [l EXCEPT !.set.brightness = Higher(@)]
      [] a = "TimeoutOff" -> [l EXCEPT !.set.delay = 0]
      [] a = "Timeout"  -> [l EXCEPT !.set.delay = IdleCap]
      [] a = "Save"     -> IF written THEN [l EXCEPT !.saved = l.set, !.open = FALSE] ELSE l
      [] a = "Cancel"   -> [l EXCEPT !.set = l.saved, !.open = FALSE]

\* What an action of the settings page, or the long press that opens it, makes
\* of the loop's locals.
Chosen(l, a, written) ==
    CASE a = "Open" -> [l EXCEPT !.open = TRUE, !.dirty = TRUE]
      [] a # "Open" /\ l.open -> [Acted(l, a, written) EXCEPT !.dirty = TRUE]
      [] OTHER -> [l EXCEPT !.dirty = TRUE]

\* Mistake: a choice that the panel refuses stays in the loop.
KeepsChoice(l, before) == l

\* A choice that the panel refuses is taken back; what is stored stays stored.
TakenBack(l, before) == [l EXCEPT !.set = before.set, !.open = before.open]

\* The loop applies a choice and looks at the result.
Tries(u, l) ==
    \/ loop' = l /\ ui' = ApplySettings(u, l.set, l.open)
    \/ Refusable(u, l.set) /\ loop' = TakenBack(l, loop) /\ ui' = u

TakeSettings ==
    /\ pc = "settings"
    /\ LET a == ui.action
           u == [ui EXCEPT !.action = "None"]
       IN  \/ /\ Blocked /\ loop.open
              /\ loop' = Closed(loop) /\ UndoesPreview(u, loop)
              /\ saver' = Reset(loop.page)
           \/ /\ ~Blocked /\ a # "None"
              /\ \E written \in BOOLEAN : Tries(u, Chosen(loop, a, written))
              /\ saver' = Reset(loop.page)
           \/ /\ IF Blocked THEN ~loop.open ELSE a = "None"
              /\ ui' = u /\ UNCHANGED <<loop, saver>>
    /\ pc' = "page"
    /\ UNCHANGED <<queue, finger, ota, clock>>

Requested == ui.requested # loop.page

TakePage ==
    /\ pc = "page"
    /\ loop' = IF Requested
               THEN [loop EXCEPT !.page = ui.requested, !.status = ui.requested, !.dirty = TRUE]
               ELSE loop
    /\ pc' = "events"
    /\ UNCHANGED <<saver, queue, ui, finger, ota, clock>>

OnLink(passkey) ==
    /\ loop' = [loop EXCEPT !.passkey = passkey, !.dirty = TRUE]
    /\ UNCHANGED <<saver, ui>>

OnScreenPage(previous) ==
    IF Blocked
    THEN loop' = [loop EXCEPT !.dirty = TRUE] /\ UNCHANGED <<saver, ui>>
    ELSE LET p == PageAfterSwipe(IF saver.active THEN saver.restore ELSE loop.page, previous)
         IN  /\ loop' = Closed([loop EXCEPT !.page = p, !.status = p])
             /\ UndoesPreview([ui EXCEPT !.requested = p], loop)
             /\ saver' = Reset(p)

OnScreenToggle ==
    /\ loop' = Closed(Restored(loop))
    /\ UndoesPreview(ui, loop)
    /\ saver' = NoteRemoteToggle(saver, loop.page)

ReceiveEvent ==
    /\ pc = "events" /\ queue # << >>
    /\ queue' = Tail(queue)
    /\ CASE Head(queue) = "toggle"   -> OnScreenToggle
         [] Head(queue) = "next"     -> OnScreenPage(FALSE)
         [] Head(queue) = "previous" -> OnScreenPage(TRUE)
         [] Head(queue) = "pairing"  -> OnLink(TRUE)
         [] Head(queue) = "paired"   -> OnLink(FALSE)
    /\ UNCHANGED <<pc, finger, ota, clock>>

EventsDone ==
    /\ pc = "events" /\ queue = << >>
    /\ pc' = "sensors"
    /\ UNCHANGED <<saver, loop, queue, ui, finger, ota, clock>>

\* The power key's latch and the motion sensor are polled.
Sensors ==
    /\ pc = "sensors"
    /\ \/ /\ "power" \in Inputs /\ ~loop.open
          /\ saver' = NotePowerKey(saver, loop.page)
          /\ loop' = [Restored(loop) EXCEPT !.dirty = TRUE]
       \/ /\ "shake" \in Inputs
          /\ saver' = NoteShake(saver)
          /\ loop' = [loop EXCEPT !.dirty = TRUE]
       \/ UNCHANGED <<saver, loop>>
    /\ pc' = "update"
    /\ UNCHANGED <<queue, ui, finger, ota, clock>>

Failure == loop.window > 0

\* Mistake: another offer in the same phase does not redraw.
NotesPhaseOnly(l) ==
    [l EXCEPT !.last = <<l.phase, 0>>, !.dirty = @ \/ l.phase # l.last[1]]

\* The loop compares what the session says with what it last drew.
NotesPhase(l) ==
    LET now == <<l.phase, l.offer>>
    IN  [l EXCEPT !.last = now, !.dirty = @ \/ now # l.last]

UpdateSaver ==
    /\ pc = "update"
    /\ loop' = NotesPhase(loop)
    /\ saver' = Update(saver, loop.page, loop.set.delay,
                       loop.passkey \/ loop.phase # "Idle" \/ Failure \/ loop.open)
    /\ pc' = "render"
    /\ UNCHANGED <<queue, ui, finger, ota, clock>>

Key == <<loop.page, saver.active, Consumes(saver)>>

OtaVisible == loop.phase # "Idle" \/ Failure

\* Mistake: only a changed key redraws.
RendersOnKey == Key # loop.key \/ (OtaVisible /\ loop.second)

Renders == loop.dirty \/ Key # loop.key \/ (OtaVisible /\ loop.second)

Render ==
    /\ pc = "render"
    /\ IF Renders
       THEN /\ ui' = Rendered(ui, ~saver.active /\ TouchAllowed(saver), saver.active, loop.passkey,
                              loop.phase, loop.offer, Failure)
            /\ loop' = [loop EXCEPT !.key = Key, !.dirty = FALSE, !.second = FALSE]
       ELSE UNCHANGED ui /\ loop' = [loop EXCEPT !.second = FALSE]
    /\ pc' = "sleep"
    /\ UNCHANGED <<saver, queue, finger, ota, clock>>

\* The loop sleeps for 20 ms; now and then a time unit has passed.
Sleep ==
    /\ pc = "sleep"
    /\ pc' = "ota"
    /\ UNCHANGED <<saver, loop, queue, ui, finger, ota, clock>>

Tick ==
    /\ pc = "sleep"
    /\ pc' = "ota"
    /\ saver' = Aged(saver)
    /\ clock' = (clock + 1) % SecondTicks
    /\ loop' = [loop EXCEPT !.window = Elapsed(@), !.second = @ \/ clock' = 0]
    /\ finger' = IF finger.on = "none" \/ finger.age = LongPress THEN finger
                 ELSE [finger EXCEPT !.age = @ + 1]
    /\ UNCHANGED <<queue, ui, ota>>

Turn == TakeOta \/ TakeTouch \/ TakeSettings \/ TakePage \/ ReceiveEvent \/ EventsDone
        \/ Sensors \/ UpdateSaver \/ Render \/ Sleep \/ Tick

Next == Turn \/ Press \/ Release \/ LongPressEvent \/ Peer \/ OtaOffer \/ OtaFail

Spec == Init /\ [][Next]_vars

(***************************************************************************)
(* Properties.                                                             *)
(***************************************************************************)

\* When the loop goes to sleep, what is in front is what its state calls
\* for: every way the state can change (a wake, a lock, a pairing code, an
\* offered or failed update, the settings page) reaches the screen although
\* the loop draws only on demand.  Two things outstay their time: a settings
\* page whose closing the panel refused, until a call succeeds, and the overlay
\* of a failed update, until something else draws.
ScreenIsCurrent ==
    pc = "sleep" =>
        \/ ui.layer = LayerFor(saver.active, loop.passkey, OtaVisible, loop.open \/ ui.refused)
        \/ ui.layer = "ota" /\ loop.count # 0

\* Pairing and updates keep the panel awake, whatever locks it: the clock
\* never covers a pairing code or an update when the loop sleeps.
AwakeWhenNeeded ==
    pc = "sleep" /\ (loop.passkey \/ loop.phase # "Idle") => ~saver.active

\* The settings page and the panel agree, and outside the page the loop runs on
\* the saved settings: whichever of a save, a cancellation, a pairing, an
\* update, a remote page or a remote toggle closed the page, nothing of its
\* preview is left.  Refused choices are taken back.  A refused closing leaves
\* the whole preview on the panel, never half of it: the page, so that a touch
\* of it tries again, and a brightness that the next try will send.
PreviewIsUndone ==
    pc = "sleep" =>
        /\ ~loop.open => loop.set = loop.saved
        /\ IF ui.refused
           THEN ~loop.open /\ ui.visible /\ ui.brightness # loop.saved.brightness
           ELSE ui.visible = loop.open /\ ui.brightness = loop.set.brightness

\* While an update is under way it is what the panel shows, and the version
\* to confirm is the one the session would start.
UpdateIsShown ==
    pc = "sleep" /\ loop.phase # "Idle" =>
        /\ ui.layer = "ota"
        /\ loop.phase = "Confirming" => ui.shown = loop.offer

\* The page the device reports to the Bridge is the page it is on.
StatusIsPage == pc = "sleep" => loop.status = loop.page

=============================================================================
