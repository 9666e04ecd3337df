------------------------------ MODULE RlcdPanel ------------------------------
(***************************************************************************)
(* The reflective LCD board: its main loop (app_main.cpp), the Navigator   *)
(* of its two keys (panel_logic.cpp) and what a frame shows (screens.cpp). *)
(*                                                                         *)
(* An iteration is one step: it receives events, derives the warnings and  *)
(* the alert, handles one key, advances the ring, and renders.  The view   *)
(* is a record and each of these is an operator on it, in the loop's       *)
(* order.  A provider's use is 0 (below 93 %), 1 (93 to 94 %) or 2 (95 %   *)
(* and above), and only level 2 of its warning matters to the alert.       *)
(***************************************************************************)
EXTENDS Integers, Sequences

CONSTANTS Providers,     \* "codex" and "claude", or one of them
          Keys,          \* the inputs of board.key() that are pressed
          Events,        \* the events of the queue that occur
          Settable,      \* the settings that vary
          Interval,      \* ticks of the auto cycle
          Banner         \* ticks an update's failure is shown

None == "none"

\* Settings has a row; no provider and no key is called like none of them.
ConstantsOK ==
    /\ None \notin Providers
    /\ Keys \subseteq {"key", "hold", "boot"}
    /\ Settable \cap {"cycle", "alert", "rotation"} # {}
    /\ Interval \in Nat /\ Banner \in Nat

Landscape == <<"overview", "codex", "claude", "trend", "clock">>
Portrait  == <<"overview", "clock">>
Pages == {"overview", "codex", "claude", "trend", "clock", "settings"}
\* The rows of Settings; SECONDS only changes a format.
Row(r) == IF r \in Settable THEN <<r>> ELSE << >>
Rows == Row("cycle") \o Row("alert") \o Row("rotation")
SettingsRange == [cycle : BOOLEAN, alert : {"off", "page", "beep"},
                  portrait : BOOLEAN]

VARIABLES v,        \* the view, and the Navigator's members
          stored,   \* the settings in NVS
          tone,     \* the provider this iteration's tone is for
          toned     \* hot providers that had their tone; a property reads it

vars == <<v, stored, tone, toned>>

Views == [page : Pages, back : Pages, clockBack : Pages,
          settings : SettingsRange, focus : 1..Len(Rows), saveError : BOOLEAN,
          use : [Providers -> 0..2], latest : [Providers -> BOOLEAN],
          hot : [Providers -> BOOLEAN], link : {"off", "passkey", "on"},
          alert : Providers \cup {None}, dismissed : SUBSET Providers,
          announced : SUBSET Providers, phase : {"Idle", "Confirming", "Busy"},
          banner : 0..Banner, step : 0..Interval]

TypeOK ==
    /\ v \in Views
    /\ stored \in SettingsRange
    /\ tone \in Providers \cup {None}
    /\ toned \subseteq Providers

Init ==
    \E s \in SettingsRange :
        /\ "cycle" \in Settable \/ ~s.cycle
        /\ "alert" \in Settable \/ s.alert = "beep"
        /\ "rotation" \in Settable \/ ~s.portrait
        /\ v = [page |-> "overview", back |-> "overview",
                clockBack |-> "overview", settings |-> s, focus |-> 1,
                saveError |-> FALSE, use |-> [p \in Providers |-> 0],
                latest |-> [p \in Providers |-> FALSE],
                hot |-> [p \in Providers |-> FALSE], link |-> "off",
                alert |-> None, dismissed |-> {}, announced |-> {},
                phase |-> "Idle", banner |-> 0, step |-> 0]
        /\ stored = s
        /\ tone = None
        /\ toned = {}

(***************************************************************************)
(* The ring of pages.                                                      *)
(***************************************************************************)
Ring(w) == IF w.settings.portrait THEN Portrait ELSE Landscape
InRing(w, p) == \E i \in DOMAIN Ring(w) : Ring(w)[i] = p

\* The neighbour of a page; a page outside the ring leads to Home.
NextPage(w, p) ==
    LET r == Ring(w)
    IN  IF \E i \in 1..Len(r) - 1 : r[i] = p
        THEN r[1 + CHOOSE i \in 1..Len(r) - 1 : r[i] = p]
        ELSE "overview"

\* In portrait every page but Home itself leads to Home.
NextOf(w, p) ==
    IF w.settings.portrait /\ p # "overview" THEN "overview" ELSE NextPage(w, p)

PreviousOf(w, p) ==
    IF InRing(w, p)
    THEN CHOOSE q \in {Ring(w)[i] : i \in DOMAIN Ring(w)} : NextOf(w, q) = p
    ELSE "overview"

\* Mistake: the page is kept although portrait has no such page.
KeepsPage(w) == w

Normalized(w) ==
    IF w.settings.portrait /\ w.page \in {"codex", "claude", "trend"}
    THEN [w EXCEPT !.page = "overview"] ELSE w

(***************************************************************************)
(* Events.  A publication without a short window keeps the last value.     *)
(***************************************************************************)
Calm(w) == w.phase = "Idle" /\ w.link # "passkey"

Toggled(w) ==
    CASE ~Calm(w) -> w
      [] Calm(w) /\ w.page = "clock" ->
            Normalized([w EXCEPT !.page = w.clockBack])
      [] OTHER ->
            Normalized([w EXCEPT !.page = "clock", !.clockBack =
                IF w.page = "settings" THEN "overview" ELSE w.page])

Stepped(w, previous) ==
    IF Calm(w) /\ w.page # "settings"
    THEN [w EXCEPT !.page = IF previous THEN PreviousOf(w, w.page)
                                        ELSE NextOf(w, w.page)]
    ELSE w

Published(w, p) ==
    {[w EXCEPT !.use[p] = u, !.latest[p] = TRUE] : u \in 0..2}
        \cup {[w EXCEPT !.latest[p] = FALSE]}

Received(w, e) ==
    CASE e = "usage" -> UNION {Published(w, p) : p \in Providers}
      [] e = "link" -> {[w EXCEPT !.link = l] : l \in {"off", "passkey", "on"}}
      [] e = "toggle" -> {Toggled(w)}
      [] e = "page" -> {Stepped(w, b) : b \in BOOLEAN}
      [] OTHER -> {w}

(***************************************************************************)
(* Warnings with hysteresis, and the alert page of the worst provider.     *)
(***************************************************************************)
Present(w, p) == w.latest[p] \/ w.link # "on"

Warned(w) ==
    [w EXCEPT !.hot = [p \in Providers |->
        Present(w, p) /\ (w.use[p] = 2 \/ (w.hot[p] /\ w.use[p] = 1))]]

\* Mistake: a lost link arms the tone again.
ArmsOffline(w) == {p \in Providers : w.hot[p] /\ w.link = "on"}

\* The providers whose dismissal and announcement still stand.
StillHot(w) == {p \in Providers : w.hot[p]}

Alerts(w) ==
    LET due == {p \in StillHot(w) \ w.dismissed : w.link = "on"}
    IN  IF due = {} \/ w.settings.alert = "off" THEN {None}
        ELSE {p \in due : \A q \in due : w.use[q] <= w.use[p]}

Alerted(w, a) ==
    [w EXCEPT !.dismissed = w.dismissed \cap StillHot(w), !.alert = a,
              !.announced = (w.announced \cap StillHot(w))
                                \cup (Providers \cap {a})]

Raises(w, a) == a # None /\ a \notin w.announced \cap StillHot(w)

(***************************************************************************)
(* Keys.  A page that was left for Settings is shown again only if the     *)
(* orientation still has it.                                               *)
(***************************************************************************)
Changed(s, row) ==
    CASE row = "cycle"    -> [s EXCEPT !.cycle = ~@]
      [] row = "alert"    -> [s EXCEPT !.alert =
            CASE @ = "off" -> "page" [] @ = "page" -> "beep" [] OTHER -> "off"]
      [] row = "rotation" -> [s EXCEPT !.portrait = ~@]

\* Mistake: the footer's retry is forgotten with the next value.
ForgetsError(w, k, ok) ==
    IF k # "boot" THEN w
    ELSE [w EXCEPT !.settings = Changed(@, Rows[w.focus])]

\* Mistake: the focus does not wrap.
NoWrap(w, k, ok) ==
    IF k = "key" THEN [w EXCEPT !.focus = @ + 1] ELSE w

InSettings(w, k, ok) ==
    CASE k = "key"  -> [w EXCEPT !.focus = (@ % Len(Rows)) + 1]
      [] k = "hold" -> Normalized([w EXCEPT !.page = w.back])
      [] k = "boot" -> [w EXCEPT !.saveError = ~ok, !.settings =
            IF w.saveError THEN @ ELSE Changed(@, Rows[w.focus])]

Navigated(w, k, ok) ==
    CASE w.alert # None /\ w.page # "settings" ->
            IF k = "key" THEN [w EXCEPT !.dismissed = @ \cup {w.alert},
                                        !.alert = None] ELSE w
      [] w.page = "settings" -> InSettings(w, k, ok)
      [] OTHER ->
            CASE k = "hold" -> [w EXCEPT !.back = w.page, !.page = "settings",
                                         !.focus = 1]
              [] k = "key"  -> [w EXCEPT !.page = PreviousOf(w, @)]
              [] k = "boot" -> [w EXCEPT !.page = NextOf(w, @)]

\* An update takes the keys, then pairing, then the Navigator.
Keyed(w, k, ok) ==
    CASE k = None -> w
      [] k # None /\ w.phase = "Confirming" ->
            [w EXCEPT !.phase = CASE k = "key"  -> "Busy"
                                  [] k = "hold" -> "Idle"
                                  [] OTHER      -> @]
      [] k # None /\ ~Calm(w) /\ w.phase # "Confirming" -> w
      [] OTHER -> [Navigated(w, k, ok) EXCEPT !.step = 0]

Saves(w, k) == k = "boot" /\ Calm(w) /\ w.page = "settings"

Cycled(w) ==
    CASE ~Calm(w) -> w
      [] Calm(w) /\ (~w.settings.cycle \/ w.page = "settings" \/ w.alert # None)
            -> [w EXCEPT !.step = 0]
      [] OTHER -> IF w.step < Interval THEN w
                  ELSE [w EXCEPT !.step = 0, !.page = NextOf(w, @)]

\* What the frame shows.  A failed update hides the alert for a while.
Shown(w) ==
    CASE w.phase # "Idle" -> "ota"
      [] w.phase = "Idle" /\ w.link = "passkey" -> "pairing"
      [] Calm(w) /\ w.alert # None /\ w.banner = 0 /\ w.page # "settings"
            -> w.alert
      [] Calm(w) /\ w.banner > 0 -> "failure"
      [] OTHER -> w.page

(***************************************************************************)
(* One iteration, and what happens between two.                            *)
(***************************************************************************)
Remember(w) ==
    toned' = {p \in Providers : w.hot[p] /\ (p \in toned \/ p = tone')}

\* Only BOOT saves, and a save may fail.
SaveResults(k) ==
    IF k = "boot" /\ v.page = "settings" THEN BOOLEAN ELSE {TRUE}

Loop ==
    \E e \in {None} \cup Events, k \in {None} \cup Keys :
      \E ok \in SaveResults(k), r \in Received(v, e) :
        LET w == Warned(r) IN
        \E a \in Alerts(w) :
            LET x == Keyed(Alerted(w, a), k, ok) IN
            /\ v' = Cycled(x)
            /\ stored' = IF Saves(Alerted(w, a), k) /\ ok
                         THEN x.settings ELSE stored
            /\ tone' = IF Raises(w, a) /\ w.settings.alert = "beep"
                       THEN a ELSE None
            /\ Remember(w)

\* The session's steps: an offer, and its end with or without a failure.
Update ==
    /\ "update" \in Events
    /\ \/ /\ v.phase = "Idle"
          /\ v' = [v EXCEPT !.phase = "Confirming"]
       \/ /\ v.phase # "Idle"
          /\ \E b \in {v.banner, Banner} :
                 v' = [v EXCEPT !.phase = "Idle", !.banner = b]
    /\ tone' = None
    /\ UNCHANGED <<stored, toned>>

Less(n) == IF n = 0 THEN 0 ELSE n - 1
More(n) == IF n = Interval THEN n ELSE n + 1

Tick ==
    /\ v' = [v EXCEPT !.banner = Less(@), !.step = More(@)]
    /\ tone' = None
    /\ UNCHANGED <<stored, toned>>

Next == Loop \/ Update \/ Tick

Spec == Init /\ [][Next]_vars

(***************************************************************************)
(* Properties                                                              *)
(***************************************************************************)

\* Whatever was rotated in Settings and wherever the keys, the cycle or the
\* Bridge return to, the page is one that the orientation has.
PageInRing == v.page = "settings" \/ InRing(v, v.page)

\* Settings that are shown are the stored ones, or the footer says so.
UnsavedIsFlagged == v.settings = stored \/ v.saveError

\* A tone is not repeated while its provider stays hot: not by a reconnect,
\* a dismissal, another provider's alert or a change of the alert mode.
OneTonePerRaise == 
    \A p \in Providers : tone' = p /\ p \in toned => ~v'.hot[p]

=============================================================================
