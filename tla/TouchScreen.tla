---------------------------- MODULE TouchScreen ----------------------------
(***************************************************************************)
(* The screen of the two touch panels, display_ui.cpp of the AMOLED and    *)
(* the Mosaico target, which share their layout and their drawing code.    *)
(*                                                                         *)
(* The objects are built once.  render() and apply_settings() then hide    *)
(* and show them, raise panels to the front and rewrite labels, and return *)
(* early when what they would write next is covered.  What a label said    *)
(* before stays in it.  Between them LVGL refreshes the display and runs   *)
(* its animations, and the camera's worker draws its preview.  Everything  *)
(* runs under LVGL's lock, a call at a time, except the preview's check.   *)
(*                                                                         *)
(* Both providers have the same usage here, and one window each.  A label  *)
(* holds a word and a number; colours follow the words.                    *)
(***************************************************************************)
EXTENDS Integers, Sequences, TLC

CONSTANTS
    Drawings,     \* arguments of render(), see Arguments
    Choices,      \* arguments of apply_settings()
    Brightest,    \* brightness goes from 1 to this
    Fails,        \* whether the panel may refuse a brightness
    HasCamera      \* whether there is a camera preview (Mosaico)

VARIABLES
    s,            \* the objects
    light,        \* brightness: on the glass, wanted, and on its way
    preview,      \* the camera's preview
    args, chosen, \* what the screen was last drawn from
    drawn         \* whether the last call was render()

vars == <<s, light, preview, args, chosen, drawn>>

Arguments ==
    [page : {"overview", "codex", "claude"}, linked : BOOLEAN, code : 0..9,
     phase : {"Idle", "Confirming", "Receiving", "Verifying", "Rebooting"}, error : BOOLEAN,
     saver : BOOLEAN, state : {"NO DATA", "OFFLINE", "PARTIAL", "ONLINE"}, number : 0..9,
     clock : BOOLEAN, battery : {"none", "low", "good", "charging"}]

(***************************************************************************)
(* The objects: panels in the order they are built, and what is in them.   *)
(***************************************************************************)
BuildOrder ==
    <<"header", "overview", "codex", "claude", "nav", "saver", "settings", "pairing", "ota">>
Pages == {"overview", "codex", "claude"}

HeaderParts   == {"clock", "link", "battery"}
OverviewParts == {"status", "value"}
ProviderParts == {"status", "value", "reset"}
NavParts      == {"underline"}
SaverParts    == {"time", "date", "fill", "percent", "bar", "hint", "low"}
SettingsParts == {"brightness", "buttons", "timeout", "warning"}
PairingParts  == {"code"}
OtaParts      == {"card", "countdown", "note", "progress", "advice", "confirm", "deny", "title", "detail",
                  "failure"}

Cells ==
    ({"header"} \X HeaderParts) \cup ({"overview"} \X OverviewParts)
    \cup ({"codex", "claude"} \X ProviderParts) \cup ({"nav"} \X NavParts)
    \cup ({"saver"} \X SaverParts) \cup ({"settings"} \X SettingsParts)
    \cup ({"pairing"} \X PairingParts) \cup ({"ota"} \X OtaParts)

Built ==
    [up     |-> {"header", "overview", "nav"},
     order  |-> BuildOrder,
     hidden |-> {"saver"} \X {"fill", "percent", "low"},
     open   |-> FALSE,
     says   |-> [c \in Cells |-> <<"", 0>>]]

Hide(u, P)  == [u EXCEPT !.up = @ \ P]
Raise(u, p) == [u EXCEPT !.up = @ \cup {p},
                         !.order = Append(SelectSeq(@, LAMBDA q : q # p), p)]
Say(u, p, texts) ==
    [u EXCEPT !.says = [c \in {p} \X DOMAIN texts |-> texts[c[2]]] @@ @]
Only(u, p, all, parts) ==
    [u EXCEPT !.hidden = (@ \ ({p} \X parts)) \cup ({p} \X (all \ parts))]

(***************************************************************************)
(* render(), each of its endings.                                          *)
(***************************************************************************)
Live(a)       == a.state \in {"ONLINE", "PARTIAL"}
OtaVisible(a) == a.phase # "Idle" \/ a.error
SaverVisible(a) == a.saver /\ a.code = 0 /\ ~OtaVisible(a)

\* Mistake: what the last phase showed stays.
AddsOta(u, parts) == [u EXCEPT !.hidden = @ \ ({"ota"} \X parts)]

OtaOnly(u, parts) == Only(u, "ota", OtaParts, parts)

ShowOta(u, a) ==
    LET v == Raise(Hide(u, {"saver"}), "ota") IN
    CASE a.error ->
           Say(OtaOnly(v, {"failure", "detail"}), "ota",
               [failure |-> <<"failed", a.number>>, detail |-> <<"reason", a.number>>])
      [] ~a.error /\ a.phase = "Confirming" ->
           Say(OtaOnly(v, {"card", "countdown", "note", "confirm", "deny"}), "ota",
               [card |-> <<"new version", a.number>>, countdown |-> <<"seconds", a.number>>])
      [] ~a.error /\ a.phase = "Receiving" ->
           Say(OtaOnly(v, {"card", "progress", "advice"}), "ota",
               [card |-> <<"updating", a.number>>, progress |-> <<"percent", a.number>>])
      [] OTHER ->
           Say(OtaOnly(v, {"title", "detail"}), "ota",
               [title |-> <<a.phase, 0>>, detail |-> <<"wait", 0>>])

ShowHeader(u, a, settings) ==
    Say(Hide(u, {"ota"}), "header",
        [clock |-> IF settings THEN <<"display", 0>> ELSE IF a.clock THEN <<"time", a.number>> ELSE <<"--", 0>>,
         battery |-> <<a.battery, IF a.battery = "none" THEN 0 ELSE a.number>>])

LinkText(a) == IF a.linked THEN <<"linked", 0>> ELSE <<"waiting", 0>>

ShowSettings(u, a) == Say(Hide(u, {"saver", "pairing"}), "header", [link |-> LinkText(a)])

\* Usage on the clock: a bar as long as the number, the number itself when it
\* is high, which moves the bar aside.
Alert(a) == Live(a) /\ a.number > 1
SaverUsage(u, a) ==
    Say([u EXCEPT !.hidden = (@ \ ({"saver"} \X {"fill", "percent"}))
                             \cup (IF Live(a) THEN {} ELSE {<<"saver", "fill">>})
                             \cup (IF Alert(a) THEN {} ELSE {<<"saver", "percent">>})],
        "saver", [bar |-> <<"at", IF Alert(a) THEN 1 ELSE 0>>]
                 @@ (IF Live(a) THEN [fill |-> <<"width", a.number>>] ELSE << >>)
                 @@ (IF Alert(a) THEN [percent |-> <<"percent", a.number>>] ELSE << >>))

SaverLow(u, a) ==
    IF a.battery = "low"
    THEN Say([u EXCEPT !.hidden = @ \ {<<"saver", "low">>}], "saver", [low |-> <<"band", a.number>>])
    ELSE [u EXCEPT !.hidden = @ \cup {<<"saver", "low">>}]

ShowSaver(u, a) ==
    LET v == SaverLow(SaverUsage(u, a), a)
    IN  Say(Raise(Hide(v, {"pairing"}), "saver"), "saver",
            [time |-> IF a.clock THEN <<"time", a.number>> ELSE <<"--", 0>>,
             date |-> IF a.clock THEN <<"date", a.number>> ELSE <<"--", 0>>,
             hint |-> IF Live(a) THEN <<"tap to wake", 0>>
                      ELSE IF a.linked THEN <<"unavailable", 0>> ELSE <<"offline", 0>>])

ShowPage(u, a) ==
    Say([u EXCEPT !.up = (@ \ Pages) \cup {a.page}], "nav", [underline |-> <<a.page, 0>>])

Metric(a) == IF a.state = "NO DATA" THEN <<"--", 0>> ELSE <<a.state, a.number>>

\* Mistake: a countdown stays when its data is gone.
KeepsReset(u, a, p) ==
    IF p = "overview" \/ a.state = "NO DATA" THEN Say(u, p, [value |-> Metric(a)])
    ELSE Say(u, p, [value |-> Metric(a), reset |-> <<"reset", a.number>>])

UpdateMetric(u, a, p) ==
    IF p = "overview" THEN Say(u, p, [value |-> Metric(a)])
    ELSE Say(u, p, [value |-> Metric(a),
                    reset |-> IF a.state = "NO DATA" THEN <<"", 0>> ELSE <<"reset", a.number>>])

UpdateProvider(u, a, p) ==
    Say(UpdateMetric(u, a, p), p,
        [status |-> IF a.state # "ONLINE" THEN <<a.state, 0>>
                    ELSE IF p = "overview" THEN <<"short reset", a.number>> ELSE <<"last ago", a.number>>])

ShowPairing(u, a) ==
    IF a.code # 0
    THEN Say(Say(Raise(u, "pairing"), "pairing", [code |-> <<"code", a.code>>]),
             "header", [link |-> <<"pairing", 0>>])
    ELSE Say(Hide(u, {"pairing"}), "header", [link |-> LinkText(a)])

ShowPages(u, a) ==
    LET v == ShowPage(Hide(u, {"saver"}), a)
    IN  ShowPairing(UpdateProvider(UpdateProvider(UpdateProvider(v, a, "overview"), a, "codex"),
                                   a, "claude"), a)

Rendered(u, a) ==
    LET settings == u.open /\ a.code = 0
        v == ShowHeader(u, a, settings)
    IN  CASE OtaVisible(a)                                    -> ShowOta(u, a)
          [] ~OtaVisible(a) /\ settings                       -> ShowSettings(v, a)
          [] ~OtaVisible(a) /\ ~settings /\ SaverVisible(a)   -> ShowSaver(v, a)
          [] OTHER                                            -> ShowPages(v, a)

(***************************************************************************)
(* apply_settings().                                                       *)
(***************************************************************************)
Applied(u, x) ==
    LET v == Say([u EXCEPT !.open = x.visible], "settings",
                 [brightness |-> <<"percent", x.brightness>>,
                  buttons    |-> <<IF x.error THEN "save" ELSE "", x.brightness>>,
                  timeout    |-> <<"after idle", x.delay>>,
                  warning    |-> <<IF x.error THEN "save failed" ELSE "", 0>>])
    IN  CASE x.visible /\ ~u.open -> Raise(v, "settings")
          [] x.visible /\ u.open  -> v
          [] ~x.visible           -> Hide(v, {"settings"})

(***************************************************************************)
(* Brightness.  A change between clock and pages goes dark, waits for the  *)
(* display to be refreshed, and fades in.                                  *)
(***************************************************************************)
Goes(l, level) == [l EXCEPT !.level = level, !.failed = FALSE]
Refuses(l)     == [l EXCEPT !.failed = TRUE]

\* lv_anim_delete() of the fade, then set_transition_brightness(0).
Darkens(l) ==
    {Goes([l EXCEPT !.fade = 0, !.pending = TRUE], 0)}
    \cup (IF Fails THEN {Refuses([l EXCEPT !.fade = 0, !.pending = FALSE])} ELSE {})

\* Mistake: a fade goes on to the brightness it started with.
KeepsFade(l, b) == IF l.pending THEN [l EXCEPT !.percent = b] ELSE [Goes(l, b) EXCEPT !.percent = b]

\* apply_settings() with another brightness: at once, or by the fade to come.
Brightens(l, b) ==
    IF l.pending THEN [l EXCEPT !.fade = 0, !.percent = b]
    ELSE [Goes(l, b) EXCEPT !.fade = 0, !.percent = b]

\* transition_refresh_ready(): the fade starts, from darkness.
Refresh ==
    /\ light.pending
    /\ light' = [light EXCEPT !.pending = FALSE, !.fade = light.percent, !.level = 0]
    /\ UNCHANGED <<s, preview, args, chosen, drawn>>

\* A step of the fade, whose last one reaches its end.
Fade ==
    /\ light.fade # 0
    /\ LET end == light.level + 1 >= light.fade
           l == [light EXCEPT !.fade = IF end THEN 0 ELSE @]
       IN  light' \in {Goes(l, IF end THEN light.fade ELSE light.level + 1)} \cup (IF Fails /\ end THEN {Refuses(l)} ELSE {})
    /\ UNCHANGED <<s, preview, args, chosen, drawn>>

WasSaver(u) == "saver" \in u.up

Render ==
    \E a \in Drawings :
        /\ s' = Rendered(s, a)
        /\ IF SaverVisible(a) # WasSaver(s) THEN light' \in Darkens(light) ELSE UNCHANGED light
        /\ args' = a /\ drawn' = TRUE
        /\ UNCHANGED <<preview, chosen>>

Apply ==
    \E x \in Choices :
        /\ s' = Applied(s, x)
        /\ light' = IF x.brightness # light.percent THEN Brightens(light, x.brightness) ELSE light
        /\ chosen' = x /\ drawn' = FALSE
        /\ UNCHANGED <<preview, args>>

\* The panel refuses the brightness: the rest is not done, the fade is gone.
ApplyFails ==
    /\ Fails /\ ~light.pending
    /\ \E x \in Choices : x.brightness # light.percent
    /\ light' = Refuses([light EXCEPT !.fade = 0])
    /\ UNCHANGED <<s, preview, args, chosen, drawn>>

(***************************************************************************)
(* The camera's preview (Mosaico): the loop says whether it may be shown,  *)
(* a tap switches it, and the worker looks at both before it waits for the *)
(* lock.                                                                   *)
(***************************************************************************)
CameraState ==
    /\ HasCamera
    /\ \E available \in BOOLEAN :
          preview' = [preview EXCEPT !.available = available, !.hidden = ~available \/ ~preview.enabled]
    /\ UNCHANGED <<s, light, args, chosen, drawn>>

PreviewToggle ==
    /\ HasCamera /\ preview.available
    /\ preview' = [preview EXCEPT !.enabled = ~@, !.hidden = preview.enabled]
    /\ UNCHANGED <<s, light, args, chosen, drawn>>

PreviewFrame ==
    /\ HasCamera /\ ~preview.waits /\ preview.enabled /\ preview.available
    /\ preview' = [preview EXCEPT !.waits = TRUE]
    /\ UNCHANGED <<s, light, args, chosen, drawn>>

\* Mistake: what was read before the lock is relied on.
DrawsAnyway(p) == TRUE

Draws(p) == ~p.hidden

PreviewDraw ==
    /\ preview.waits
    /\ preview' = [preview EXCEPT !.waits = FALSE,
                                  !.frames = IF Draws(preview) THEN 1 - @ ELSE @]
    /\ UNCHANGED <<s, light, args, chosen, drawn>>

Init ==
    /\ \E a \in Drawings, x \in Choices :
          /\ ~x.visible /\ x.brightness = Brightest
          /\ args = a /\ chosen = x
          /\ s = Rendered(Applied(Built, x), a)
          /\ light = [level |-> IF SaverVisible(a) THEN 0 ELSE Brightest, percent |-> Brightest,
                      pending |-> SaverVisible(a), fade |-> 0, failed |-> FALSE]
    /\ preview = [enabled |-> FALSE, available |-> FALSE, hidden |-> TRUE, waits |-> FALSE, frames |-> 0]
    /\ drawn = TRUE

Next == Render \/ Apply \/ ApplyFails \/ Refresh \/ Fade
        \/ CameraState \/ PreviewToggle \/ PreviewFrame \/ PreviewDraw

Spec == Init /\ [][Next]_vars

TypeOK ==
    /\ s.up \subseteq {BuildOrder[i] : i \in 1..Len(BuildOrder)} /\ Len(s.order) = Len(BuildOrder)
    /\ s.hidden \subseteq Cells /\ DOMAIN s.says = Cells /\ s.open \in BOOLEAN
    /\ light \in [level : 0..Brightest, percent : 1..Brightest, pending : BOOLEAN, fade : 0..Brightest,
                  failed : BOOLEAN]
    /\ preview \in [enabled : BOOLEAN, available : BOOLEAN, hidden : BOOLEAN, waits : BOOLEAN, frames : 0..1]
    /\ args \in Arguments /\ chosen \in Choices /\ drawn \in BOOLEAN

(***************************************************************************)
(* Properties.                                                             *)
(***************************************************************************)

\* Which panels cover which when they are above them.
Covers(p) == CASE p \in {"saver", "ota"} -> {BuildOrder[i] : i \in 1..Len(BuildOrder)}
               [] p = "settings"         -> Pages \cup {"nav", "pairing"}
               [] p = "pairing"          -> Pages
               [] OTHER                  -> {}

Place(u, p) == CHOOSE i \in 1..Len(u.order) : u.order[i] = p

Seen(u) ==
    LET panels == {p \in u.up : ~\E q \in u.up : Place(u, q) > Place(u, p) /\ p \in Covers(q)}
    IN  {<<c, u.says[c]>> : c \in {d \in Cells \ u.hidden : d[1] \in panels}}

\* What is seen after a call of render() does not depend on what was shown
\* before it: every object that an early return leaves alone is covered, and
\* every label, bar and button that is uncovered again has been rewritten.
ShowsOnlyWhatIsRendered ==
    drawn => Seen(s) = Seen(Rendered(Applied(Built, chosen), args))

\* The glass gets its brightness back: it is dark, or halfway, only while a
\* refresh is owed or a fade is running, however settings, clock and fade
\* cross, unless the panel refused a command.
DarknessEnds ==
    light.level = light.percent \/ light.pending \/ light.fade # 0 \/ light.failed

\* Frames of the camera are drawn only while their preview is on the screen.
PreviewOnlyWhenShown == preview'.frames # preview.frames => preview.available /\ preview.enabled
=============================================================================
