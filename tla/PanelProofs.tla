----------------------------- MODULE PanelProofs -----------------------------
(***************************************************************************)
(* The loops of two panels that draw on demand: the reflective LCD         *)
(* (RlcdPanel), and in the second part the AMOLED (TouchPanel).            *)
(*                                                                         *)
(* An iteration of the first is a chain of operators on the view.  Each of *)
(* them keeps the view's type and its place in the ring (Placed), and says *)
(* which of its other parts it leaves alone (Same); the step of the loop   *)
(* is their composition.                                                   *)
(***************************************************************************)
EXTENDS RlcdPanel, TLAPS

RowNames == {"cycle", "alert", "rotation"}

\* The page is Settings, or one that the orientation has.
Placed(w) == w.page = "settings" \/ InRing(w, w.page)

\* What only events, the alert and Settings change.
Same(u, w) ==
    /\ u.settings = w.settings /\ u.saveError = w.saveError
    /\ u.hot = w.hot /\ u.announced = w.announced /\ u.alert = w.alert

\* A provider that had its tone is announced.
TonesAreAnnounced == toned \subseteq v.announced

RlcdInv == TypeOK /\ PageInRing /\ UnsavedIsFlagged /\ TonesAreAnnounced

\* Settings has a first row, and every row is one of the three.
LEMMA RowsFacts ==
    ASSUME ConstantsOK
    PROVE  /\ Len(Rows) \in Nat /\ Len(Rows) >= 1
           /\ \A i \in 1..Len(Rows) : Rows[i] \in RowNames
  <1> DEFINE a == Row("cycle")
             b == Row("alert")
             c == Row("rotation")
  <1>0. \A r \in RowNames : Row(r) \in Seq(RowNames)
    <2> SUFFICES ASSUME NEW r \in RowNames PROVE Row(r) \in Seq(RowNames)
      OBVIOUS
    <2>1. << >> \in Seq(RowNames) /\ <<r>> \in Seq(RowNames)
      OBVIOUS
    <2> QED BY <2>1 DEF Row
  <1>1. /\ a \in Seq(RowNames) /\ b \in Seq(RowNames) /\ c \in Seq(RowNames)
        /\ Len(a) \in Nat /\ Len(b) \in Nat /\ Len(c) \in Nat
    BY <1>0 DEF RowNames
  <1>2. Len(a) + Len(b) + Len(c) >= 1
    <2>1. CASE "cycle" \in Settable
      BY <1>1, <2>1 DEF Row
    <2>2. CASE "alert" \in Settable
      BY <1>1, <2>2 DEF Row
    <2>3. CASE "rotation" \in Settable
      BY <1>1, <2>3 DEF Row
    <2> QED BY <2>1, <2>2, <2>3 DEF ConstantsOK
  <1> HIDE DEF a, b, c
  <1>3. Rows = (a \o b) \o c
    BY DEF Rows, a, b, c
  <1>4. /\ a \o b \in Seq(RowNames) /\ Len(a \o b) = Len(a) + Len(b)
        /\ Rows \in Seq(RowNames) /\ Len(Rows) = Len(a) + Len(b) + Len(c)
    BY <1>1, <1>3
  <1>5. \A i \in 1..Len(Rows) : Rows[i] \in RowNames
    BY <1>4
  <1> QED BY <1>1, <1>2, <1>4, <1>5

-----------------------------------------------------------------------------
(***************************************************************************)
(* The ring.                                                               *)
(***************************************************************************)

Following(p) ==
    CASE p = "overview" -> "codex"
      [] p = "codex"    -> "claude"
      [] p = "claude"   -> "trend"
      [] p = "trend"    -> "clock"
      [] p \in {"clock", "settings"} -> "overview"

\* The pages of the orientation, and which of them follows a page.
LEMMA RingFacts ==
    ASSUME NEW w \in Views
    PROVE  \A p \in Pages :
             /\ InRing(w, p) <=> p \in IF w.settings.portrait THEN {"overview", "clock"}
                                       ELSE Pages \ {"settings"}
             /\ NextOf(w, p) = IF w.settings.portrait
                               THEN IF p = "overview" THEN "clock" ELSE "overview"
                               ELSE Following(p)
  <1>1. w.settings.portrait \in BOOLEAN
    BY DEF Views, SettingsRange
  <1>2. CASE w.settings.portrait
    <2>1. Ring(w) = <<"overview", "clock">>
      BY <1>2 DEF Ring, Portrait
    <2>2. \A p \in Pages : InRing(w, p) <=> p \in {"overview", "clock"}
      BY <2>1 DEF InRing, Pages
    <2>3. \A i \in 1..(Len(Ring(w)) - 1) : i = 1
      BY <2>1
    <2>4. 1 \in 1..(Len(Ring(w)) - 1) /\ Ring(w)[1] = "overview" /\ Ring(w)[2] = "clock"
      BY <2>1
    <2>5. (CHOOSE i \in 1..(Len(Ring(w)) - 1) : Ring(w)[i] = "overview") = 1
      BY <2>3, <2>4
    <2>6. NextPage(w, "overview") = "clock"
      <3>1. \E i \in 1..Len(Ring(w)) - 1 : Ring(w)[i] = "overview"
        BY <2>4
      <3>2. Ring(w)[1 + 1] = "clock"
        BY <2>4
      <3> QED BY <2>5, <3>1, <3>2 DEF NextPage
    <2>7. \A p \in Pages : NextOf(w, p) = IF p = "overview" THEN "clock" ELSE "overview"
      BY <1>2, <2>6 DEF NextOf
    <2> QED BY <1>2, <2>2, <2>7
  <1>3. CASE ~w.settings.portrait
    <2>1. Ring(w) = <<"overview", "codex", "claude", "trend", "clock">>
      BY <1>3 DEF Ring, Landscape
    <2>2. \A p \in Pages : InRing(w, p) <=> p \in Pages \ {"settings"}
      BY <2>1 DEF InRing, Pages
    <2>3. /\ Len(Ring(w)) = 5 /\ Ring(w)[1] = "overview" /\ Ring(w)[2] = "codex"
          /\ Ring(w)[3] = "claude" /\ Ring(w)[4] = "trend" /\ Ring(w)[5] = "clock"
      BY <2>1
    <2>4. \A k \in 1..4 : NextPage(w, Ring(w)[k]) = Ring(w)[k + 1]
      <3> SUFFICES ASSUME NEW k \in 1..4 PROVE NextPage(w, Ring(w)[k]) = Ring(w)[k + 1]
        OBVIOUS
      <3>1. \A i, j \in 1..4 : Ring(w)[i] = Ring(w)[j] => i = j
        BY <2>3
      <3>2. (CHOOSE i \in 1..4 : Ring(w)[i] = Ring(w)[k]) = k
        BY <3>1
      <3>3. Len(Ring(w)) - 1 = 4 /\ 1 + k = k + 1
        BY <2>3
      <3>4. \E i \in 1..Len(Ring(w)) - 1 : Ring(w)[i] = Ring(w)[k]
        BY <3>3
      <3> QED BY <3>2, <3>3, <3>4 DEF NextPage
    <2>5. NextPage(w, "clock") = "overview" /\ NextPage(w, "settings") = "overview"
      <3>1. \A i \in 1..(Len(Ring(w)) - 1) : Ring(w)[i] # "clock" /\ Ring(w)[i] # "settings"
        BY <2>3
      <3> QED BY <3>1 DEF NextPage
    <2>6. /\ NextPage(w, "overview") = "codex" /\ NextPage(w, "codex") = "claude"
          /\ NextPage(w, "claude") = "trend" /\ NextPage(w, "trend") = "clock"
      BY <2>3, <2>4
    <2>7. \A p \in Pages : NextOf(w, p) = NextPage(w, p)
      BY <1>3 DEF NextOf
    <2>8. /\ NextOf(w, "overview") = "codex" /\ NextOf(w, "codex") = "claude"
          /\ NextOf(w, "claude") = "trend" /\ NextOf(w, "trend") = "clock"
          /\ NextOf(w, "clock") = "overview" /\ NextOf(w, "settings") = "overview"
      BY <2>5, <2>6, <2>7 DEF Pages
    <2> SUFFICES ASSUME NEW p \in Pages
                 PROVE  /\ InRing(w, p) <=> p \in Pages \ {"settings"}
                        /\ NextOf(w, p) = Following(p)
      BY <1>3
    <2>9. NextOf(w, p) = Following(p)
      BY <2>8 DEF Pages, Following
    <2> QED BY <2>2, <2>9
  <1> QED BY <1>1, <1>2, <1>3

\* A step around the ring ends in it.
LEMMA StepFacts ==
    ASSUME NEW w \in Views, NEW p \in Pages
    PROVE  /\ NextOf(w, p) \in Pages \ {"settings"} /\ InRing(w, NextOf(w, p))
           /\ PreviousOf(w, p) \in Pages \ {"settings"} /\ InRing(w, PreviousOf(w, p))
  <1>1. w.settings.portrait \in BOOLEAN
    BY DEF Views, SettingsRange
  <1>2. NextOf(w, p) \in Pages \ {"settings"} /\ InRing(w, NextOf(w, p))
    BY <1>1, RingFacts DEF Pages, Following
  <1>3. "overview" \in Pages \ {"settings"} /\ InRing(w, "overview")
    BY <1>1, RingFacts DEF Pages
  <1>4. CASE InRing(w, p)
    <2> DEFINE R == {Ring(w)[i] : i \in DOMAIN Ring(w)}
    <2>1. \A q : q \in R <=> InRing(w, q)
      BY DEF InRing
    <2>2. R \subseteq Pages
      BY DEF Ring, Portrait, Landscape, Pages
    <2>3. \E q \in R : NextOf(w, q) = p
      <3>1. CASE w.settings.portrait
        BY <1>4, <2>1, <2>2, <3>1, RingFacts DEF Pages
      <3>2. CASE ~w.settings.portrait
        <4> DEFINE Before == CASE p = "overview" -> "clock"
                               [] p = "codex"    -> "overview"
                               [] p = "claude"   -> "codex"
                               [] p = "trend"    -> "claude"
                               [] p = "clock"    -> "trend"
        <4>1. p \in Pages \ {"settings"}
          BY <1>4, <3>2, RingFacts
        <4>2. Before \in Pages \ {"settings"} /\ Following(Before) = p
          BY <4>1 DEF Pages, Following
        <4> HIDE DEF Before
        <4>3. Before \in R /\ NextOf(w, Before) = p
          BY <2>1, <3>2, <4>2, RingFacts
        <4> QED BY <4>3
      <3> QED BY <1>1, <3>1, <3>2
    <2>4. PreviousOf(w, p) \in R
      BY <1>4, <2>3 DEF PreviousOf
    <2>5. PreviousOf(w, p) # "settings"
      BY <1>1, <2>1, <2>2, <2>4, RingFacts
    <2> QED BY <1>2, <2>1, <2>2, <2>4, <2>5
  <1>5. CASE ~InRing(w, p)
    BY <1>2, <1>3, <1>5 DEF PreviousOf
  <1> QED BY <1>4, <1>5

-----------------------------------------------------------------------------
(***************************************************************************)
(* The operators on the view.                                              *)
(***************************************************************************)

\* One part of the view is replaced by another of its type.
LEMMA Typed ==
    ASSUME NEW w \in Views
    PROVE  /\ \A p \in Pages : [w EXCEPT !.page = p] \in Views
           /\ \A p \in Pages : [w EXCEPT !.back = p] \in Views
           /\ \A p \in Pages : [w EXCEPT !.clockBack = p] \in Views
           /\ \A s \in SettingsRange : [w EXCEPT !.settings = s] \in Views
           /\ \A i \in 1..Len(Rows) : [w EXCEPT !.focus = i] \in Views
           /\ \A b \in BOOLEAN : [w EXCEPT !.saveError = b] \in Views
           /\ \A f \in [Providers -> 0..2] : [w EXCEPT !.use = f] \in Views
           /\ \A f \in [Providers -> BOOLEAN] : [w EXCEPT !.latest = f] \in Views
           /\ \A f \in [Providers -> BOOLEAN] : [w EXCEPT !.hot = f] \in Views
           /\ \A l \in {"off", "passkey", "on"} : [w EXCEPT !.link = l] \in Views
           /\ \A a \in Providers \cup {None} : [w EXCEPT !.alert = a] \in Views
           /\ \A d \in SUBSET Providers : [w EXCEPT !.dismissed = d] \in Views
           /\ \A d \in SUBSET Providers : [w EXCEPT !.announced = d] \in Views
           /\ \A f \in {"Idle", "Confirming", "Busy"} : [w EXCEPT !.phase = f] \in Views
           /\ \A n \in 0..Banner : [w EXCEPT !.banner = n] \in Views
           /\ \A n \in 0..Interval : [w EXCEPT !.step = n] \in Views
  BY DEF Views


\* The place depends on page and orientation only.
LEMMA Stays ==
    ASSUME NEW w \in Views, NEW u \in Views, Placed(w), u.page = w.page, u.settings = w.settings
    PROVE  Placed(u)
  BY DEF Placed, InRing, Ring

\* The page is chosen from the ring, or is Settings.
LEMMA Turned ==
    ASSUME NEW w \in Views, NEW p \in Pages, p = "settings" \/ InRing(w, p)
    PROVE  LET u == [w EXCEPT !.page = p]
           IN  u \in Views /\ u.page = p /\ Placed(u) /\ Same(u, w)
  <1> DEFINE u == [w EXCEPT !.page = p]
  <1>1. u \in Views
    BY Typed
  <1>2. u.page = p /\ u.settings = w.settings /\ Same(u, w)
    BY DEF Views, Same
  <1> HIDE DEF u
  <1>3. Placed(u)
    BY <1>2 DEF Placed, InRing, Ring
  <1> QED BY <1>1, <1>2, <1>3 DEF u

LEMMA NormalizedFacts ==
    ASSUME NEW w \in Views
    PROVE  /\ Normalized(w) \in Views /\ Placed(Normalized(w)) /\ Same(Normalized(w), w)
           /\ Normalized(w).page = w.page \/ Normalized(w).page = "overview"
  <1>1. w.page \in Pages /\ w.settings.portrait \in BOOLEAN
    BY DEF Views, SettingsRange
  <1>2. CASE w.settings.portrait /\ w.page \in {"codex", "claude", "trend"}
    <2>1. "overview" \in Pages /\ InRing(w, "overview")
      BY <1>1, RingFacts DEF Pages
    <2> QED BY <1>2, <2>1, Turned DEF Normalized
  <1>3. CASE ~(w.settings.portrait /\ w.page \in {"codex", "claude", "trend"})
    <2>1. Placed(w)
      BY <1>1, <1>3, RingFacts DEF Placed, Pages
    <2> QED BY <1>3, <2>1 DEF Normalized, Same
  <1> QED BY <1>2, <1>3

\* What an event does to the view.
LEMMA ReceivedFacts ==
    ASSUME NEW w \in Views, Placed(w), NEW e, NEW r \in Received(w, e)
    PROVE  r \in Views /\ Placed(r) /\ Same(r, w)
  <1>0. w.page \in Pages /\ w.clockBack \in Pages /\ w.use \in [Providers -> 0..2]
        /\ w.latest \in [Providers -> BOOLEAN]
    BY DEF Views
  <1>1. CASE e = "usage"
    <2>3. PICK q \in Providers : r \in Published(w, q)
      BY <1>1 DEF Received
    <2>1. CASE \E p \in Providers : \E u \in 0..2 :
                  r = [w EXCEPT !.use[p] = u, !.latest[p] = TRUE]
      <3>8. PICK p \in Providers :
                 \E u \in 0..2 : r = [w EXCEPT !.use[p] = u, !.latest[p] = TRUE]
        BY <2>1
      <3>1. PICK u \in 0..2 : r = [w EXCEPT !.use[p] = u, !.latest[p] = TRUE]
        BY <3>8
      <3> DEFINE f == [w.use EXCEPT ![p] = u]
                 g == [w.latest EXCEPT ![p] = TRUE]
                 x == [w EXCEPT !.use = f]
      <3>2. f \in [Providers -> 0..2] /\ g \in [Providers -> BOOLEAN]
        BY <1>0
      <3>3. x \in Views
        BY <3>2, Typed
      <3>7. x.latest = w.latest
        BY DEF Views
      <3>4. r = [x EXCEPT !.latest = g]
        BY <3>1, <3>7
      <3> HIDE DEF f, g
      <3>5. r \in Views
        BY <3>2, <3>3, <3>4, Typed
      <3>6. r.page = w.page /\ r.settings = w.settings /\ Same(r, w)
        BY <3>1 DEF Views, Same
      <3> QED BY <3>5, <3>6, Stays
    <2>2. CASE \E p \in Providers : r = [w EXCEPT !.latest[p] = FALSE]
      <3>1. PICK p \in Providers : r = [w EXCEPT !.latest[p] = FALSE]
        BY <2>2
      <3> DEFINE g == [w.latest EXCEPT ![p] = FALSE]
      <3>2. g \in [Providers -> BOOLEAN] /\ r = [w EXCEPT !.latest = g]
        BY <1>0, <3>1
      <3> HIDE DEF g
      <3>3. r \in Views
        BY <3>2, Typed
      <3>4. r.page = w.page /\ r.settings = w.settings /\ Same(r, w)
        BY <3>1 DEF Views, Same
      <3> QED BY <3>3, <3>4, Stays
    <2> QED BY <2>1, <2>2, <2>3 DEF Published
  <1>2. CASE e = "link"
    <2>1. PICK l \in {"off", "passkey", "on"} : r = [w EXCEPT !.link = l]
      BY <1>2 DEF Received
    <2>2. r \in Views
      BY <2>1, Typed
    <2>3. r.page = w.page /\ r.settings = w.settings /\ Same(r, w)
      BY <2>1 DEF Views, Same
    <2> QED BY <2>2, <2>3, Stays
  <1>3. CASE e = "toggle"
    <2>1. r = Toggled(w)
      BY <1>3 DEF Received
    <2>2. CASE ~Calm(w)
      BY <2>1, <2>2 DEF Toggled, Same
    <2>3. CASE Calm(w) /\ w.page = "clock"
      <3> DEFINE x == [w EXCEPT !.page = w.clockBack]
      <3>1. x \in Views /\ Same(x, w)
        <4>1. x \in Views
          BY <1>0, Typed
        <4>2. Same(x, w)
          BY DEF Views, Same
        <4> QED BY <4>1, <4>2
      <3>2. r = Normalized(x)
        BY <2>1, <2>3 DEF Toggled
      <3> HIDE DEF x
      <3> QED BY <3>1, <3>2, NormalizedFacts DEF Same
    <2>4. CASE Calm(w) /\ w.page # "clock"
      <3> DEFINE b == IF w.page = "settings" THEN "overview" ELSE w.page
                 x == [w EXCEPT !.page = "clock", !.clockBack = b]
                 y == [w EXCEPT !.page = "clock"]
      <3>1. b \in Pages /\ "clock" \in Pages
        BY <1>0 DEF Pages
      <3>2. y \in Views
        BY <3>1, Typed
      <3>5. x = [y EXCEPT !.clockBack = b]
        OBVIOUS
      <3>6. Same(x, w)
        BY DEF Views, Same
      <3>3. r = Normalized(x)
        BY <2>1, <2>4 DEF Toggled
      <3> HIDE DEF x, y, b
      <3>4. x \in Views
        BY <3>1, <3>2, <3>5, Typed
      <3> QED BY <3>3, <3>4, <3>6, NormalizedFacts DEF Same
    <2> QED BY <2>2, <2>3, <2>4
  <1>4. CASE e = "page"
    <2>1. PICK b \in BOOLEAN : r = Stepped(w, b)
      BY <1>4 DEF Received
    <2>2. CASE Calm(w) /\ w.page # "settings"
      <3> DEFINE p == IF b THEN PreviousOf(w, w.page) ELSE NextOf(w, w.page)
      <3>1. p \in Pages /\ InRing(w, p)
        BY <1>0, StepFacts
      <3>2. r = [w EXCEPT !.page = p]
        BY <2>1, <2>2 DEF Stepped
      <3> HIDE DEF p
      <3> QED BY <3>1, <3>2, Turned
    <2>3. CASE ~(Calm(w) /\ w.page # "settings")
      BY <2>1, <2>3 DEF Stepped, Same
    <2> QED BY <2>2, <2>3
  <1>5. CASE e \notin {"usage", "link", "toggle", "page"}
    <2>1. Received(w, e) = {w}
      BY <1>5 DEF Received
    <2>2. r = w
      BY <2>1
    <2> QED BY <2>2 DEF Same
  <1> QED BY <1>1, <1>2, <1>3, <1>4, <1>5

\* The warnings are derived from the use; the place and the rest stay.
LEMMA WarnedFacts ==
    ASSUME NEW w \in Views, Placed(w)
    PROVE  LET x == Warned(w)
           IN  /\ x \in Views /\ Placed(x)
               /\ x.settings = w.settings /\ x.saveError = w.saveError
               /\ x.announced = w.announced
  <1> DEFINE h == [p \in Providers |->
                     Present(w, p) /\ (w.use[p] = 2 \/ (w.hot[p] /\ w.use[p] = 1))]
             x == [w EXCEPT !.hot = h]
  <1>1. h \in [Providers -> BOOLEAN]
    <2>1. \A p \in Providers :
            (Present(w, p) /\ (w.use[p] = 2 \/ (w.hot[p] /\ w.use[p] = 1))) \in BOOLEAN
      OBVIOUS
    <2> HIDE DEF Present
    <2> QED BY <2>1
  <1>2. x.page = w.page /\ x.settings = w.settings /\ x.saveError = w.saveError
        /\ x.announced = w.announced
    BY DEF Views
  <1>3. Warned(w) = x
    BY DEF Warned
  <1> HIDE DEF h
  <1>4. x \in Views
    BY <1>1, Typed
  <1> QED BY <1>2, <1>3, <1>4, Stays

\* The alert is one of the hot providers, or none.
LEMMA AlertsFacts ==
    ASSUME NEW w \in Views, NEW a \in Alerts(w)
    PROVE  a \in Providers \cup {None} /\ (a # None => a \in StillHot(w))
  BY DEF Alerts, StillHot

\* The alert replaces the announcements that no longer stand.
LEMMA AlertedFacts ==
    ASSUME NEW w \in Views, Placed(w), NEW a \in Providers \cup {None}
    PROVE  LET x == Alerted(w, a)
           IN  /\ x \in Views /\ Placed(x)
               /\ x.settings = w.settings /\ x.saveError = w.saveError
               /\ x.hot = w.hot
               /\ x.announced = (w.announced \cap StillHot(w)) \cup (Providers \cap {a})
  <1> DEFINE d == w.dismissed \cap StillHot(w)
             n == (w.announced \cap StillHot(w)) \cup (Providers \cap {a})
             y == [w EXCEPT !.dismissed = d]
             z == [y EXCEPT !.alert = a]
             x == [z EXCEPT !.announced = n]
  <1>1. d \in SUBSET Providers /\ n \in SUBSET Providers
    BY DEF StillHot
  <1>2. /\ y.page = w.page /\ y.settings = w.settings /\ y.saveError = w.saveError
        /\ y.hot = w.hot
    BY DEF Views
  <1> HIDE DEF d, n
  <1>3. y \in Views
    BY <1>1, Typed
  <1>4. z \in Views
    BY <1>3, Typed
  <1>5. x \in Views
    BY <1>1, <1>4, Typed
  <1>6. /\ x.page = w.page /\ x.settings = w.settings /\ x.saveError = w.saveError
        /\ x.hot = w.hot /\ x.announced = n
    BY DEF Views
  <1>7. Alerted(w, a) = x
    BY DEF Alerted, d, n
  <1> HIDE DEF x
  <1> QED BY <1>5, <1>6, <1>7, Stays DEF n

-----------------------------------------------------------------------------
(***************************************************************************)
(* Keys and the auto cycle.                                                *)
(***************************************************************************)

\* A row changes a setting to another of its values.
LEMMA ChangedTyped ==
    ASSUME NEW s \in SettingsRange, NEW row \in RowNames
    PROVE  Changed(s, row) \in SettingsRange
  <1>1. s.cycle \in BOOLEAN /\ s.alert \in {"off", "page", "beep"} /\ s.portrait \in BOOLEAN
    BY DEF SettingsRange
  <1>2. CASE row = "cycle"
    <2>1. Changed(s, row) = [s EXCEPT !.cycle = ~@]
      BY <1>2 DEF Changed
    <2> QED BY <2>1 DEF SettingsRange
  <1>3. CASE row = "alert"
    <2> DEFINE a == CASE s.alert = "off" -> "page" [] s.alert = "page" -> "beep"
                      [] OTHER -> "off"
    <2>1. a \in {"off", "page", "beep"}
      OBVIOUS
    <2>2. Changed(s, row) = [s EXCEPT !.alert = a]
      BY <1>3 DEF Changed
    <2> HIDE DEF a
    <2> QED BY <2>1, <2>2 DEF SettingsRange
  <1>4. CASE row = "rotation"
    <2>1. Changed(s, row) = [s EXCEPT !.portrait = ~@]
      BY <1>4 DEF Changed
    <2> QED BY <2>1 DEF SettingsRange
  <1> QED BY <1>2, <1>3, <1>4 DEF RowNames

\* What a key may do: the settings change only where they are saved, and a
\* value that is not stored raises the error.
Kept(x, w) == x.hot = w.hot /\ x.announced = w.announced

Flagged(x, w, saved, ok) ==
    IF saved THEN x.saveError = ~ok
    ELSE x.settings = w.settings /\ x.saveError = w.saveError

\* Settings keeps its place; only BOOT changes a value.
LEMMA InSettingsFacts ==
    ASSUME ConstantsOK, NEW w \in Views, w.page = "settings", NEW k \in Keys, NEW ok \in BOOLEAN
    PROVE  LET x == InSettings(w, k, ok)
           IN  x \in Views /\ Placed(x) /\ Kept(x, w) /\ Flagged(x, w, k = "boot", ok)
  <1>0. /\ w.focus \in 1..Len(Rows) /\ w.back \in Pages /\ w.settings \in SettingsRange
        /\ Len(Rows) \in Nat /\ Len(Rows) >= 1
    BY RowsFacts DEF Views
  <1>1. CASE k = "key"
    <2> DEFINE i == (w.focus % Len(Rows)) + 1
    <2>1. i \in 1..Len(Rows)
      BY <1>0
    <2>2. InSettings(w, k, ok) = [w EXCEPT !.focus = i]
      BY <1>1 DEF InSettings
    <2> HIDE DEF i
    <2> DEFINE x == [w EXCEPT !.focus = i]
    <2>3. x \in Views
      BY <2>1, Typed
    <2>4. /\ x.page = w.page /\ x.settings = w.settings /\ x.saveError = w.saveError
          /\ Kept(x, w)
      BY DEF Views, Kept
    <2> HIDE DEF x
    <2>5. Placed(x)
      BY <2>4 DEF Placed
    <2> QED BY <1>1, <2>2, <2>3, <2>4, <2>5 DEF Flagged, x
  <1>2. CASE k = "hold"
    <2> DEFINE x == [w EXCEPT !.page = w.back]
    <2>1. InSettings(w, k, ok) = Normalized(x)
      BY <1>2 DEF InSettings
    <2>2. x \in Views
      BY <1>0, Typed
    <2>3. Same(x, w)
      BY DEF Views, Same
    <2> HIDE DEF x
    <2> QED BY <1>2, <2>1, <2>2, <2>3, NormalizedFacts DEF Same, Kept, Flagged
  <1>3. CASE k = "boot"
    <2> DEFINE s == IF w.saveError THEN w.settings ELSE Changed(w.settings, Rows[w.focus])
               y == [w EXCEPT !.saveError = ~ok]
               x == [y EXCEPT !.settings = s]
    <2>1. s \in SettingsRange
      BY <1>0, RowsFacts, ChangedTyped
    <2>2. InSettings(w, k, ok) = x
      BY <1>3 DEF InSettings
    <2> HIDE DEF s
    <2>3. y \in Views
      BY Typed
    <2>4. x \in Views
      BY <2>1, <2>3, Typed
    <2>5. x.page = w.page /\ x.saveError = ~ok /\ Kept(x, w)
      BY DEF Views, Kept
    <2> HIDE DEF x
    <2>6. Placed(x)
      BY <2>5 DEF Placed
    <2> QED BY <1>3, <2>2, <2>4, <2>5, <2>6 DEF Flagged
  <1> QED BY <1>1, <1>2, <1>3 DEF ConstantsOK

\* The Navigator takes a key outside Settings.
LEMMA OutsideFacts ==
    ASSUME ConstantsOK, NEW w \in Views, Placed(w), w.page # "settings",
           NEW k \in Keys, NEW ok \in BOOLEAN
    PROVE  LET x == Navigated(w, k, ok)
           IN  x \in Views /\ Placed(x) /\ Kept(x, w) /\ Flagged(x, w, FALSE, ok)
  <1>0. /\ w.page \in Pages /\ w.alert \in Providers \cup {None}
        /\ w.dismissed \in SUBSET Providers /\ "settings" \in Pages
        /\ 1 \in 1..Len(Rows)
    BY RowsFacts DEF Views, Pages
  <1>1. CASE w.alert # None /\ k = "key"
    <2> DEFINE d == w.dismissed \cup {w.alert}
               y == [w EXCEPT !.dismissed = d]
               x == [y EXCEPT !.alert = None]
    <2>1. d \in SUBSET Providers
      BY <1>0, <1>1
    <2>2. Navigated(w, k, ok) = x
      BY <1>1 DEF Navigated
    <2> HIDE DEF d
    <2>3. y \in Views
      BY <2>1, Typed
    <2>4. x \in Views
      BY <2>3, Typed
    <2>5. /\ x.page = w.page /\ x.settings = w.settings /\ x.saveError = w.saveError
          /\ Kept(x, w)
      BY DEF Views, Kept
    <2> HIDE DEF x
    <2> QED BY <2>2, <2>4, <2>5, Stays DEF Flagged
  <1>2. CASE w.alert # None /\ k # "key"
    <2>1. Navigated(w, k, ok) = w
      BY <1>2 DEF Navigated
    <2> QED BY <2>1 DEF Kept, Flagged
  <1>3. CASE w.alert = None /\ k = "hold"
    <2> DEFINE z == [w EXCEPT !.back = w.page]
               y == [z EXCEPT !.page = "settings"]
               x == [y EXCEPT !.focus = 1]
    <2>1. Navigated(w, k, ok) = x
      BY <1>3 DEF Navigated
    <2>2. z \in Views
      BY <1>0, Typed
    <2>3. y \in Views
      BY <1>0, <2>2, Typed
    <2>4. x \in Views
      BY <1>0, <2>3, Typed
    <2>5. /\ x.page = "settings" /\ x.settings = w.settings
          /\ x.saveError = w.saveError /\ Kept(x, w)
      BY DEF Views, Kept
    <2> HIDE DEF x
    <2> QED BY <2>1, <2>4, <2>5 DEF Flagged, Placed
  <1>4. CASE w.alert = None /\ k # "hold"
    <2> DEFINE p == IF k = "key" THEN PreviousOf(w, w.page) ELSE NextOf(w, w.page)
    <2>1. p \in Pages /\ InRing(w, p)
      BY <1>0, StepFacts
    <2>2. Navigated(w, k, ok) = [w EXCEPT !.page = p]
      BY <1>4 DEF Navigated, ConstantsOK
    <2> HIDE DEF p
    <2> QED BY <2>1, <2>2, Turned DEF Same, Kept, Flagged
  <1> QED BY <1>1, <1>2, <1>3, <1>4

\* A key, whoever takes it.
LEMMA KeyedFacts ==
    ASSUME ConstantsOK, NEW w \in Views, Placed(w), NEW k \in {None} \cup Keys,
           NEW ok \in BOOLEAN
    PROVE  LET x == Keyed(w, k, ok)
           IN  x \in Views /\ Placed(x) /\ Kept(x, w) /\ Flagged(x, w, Saves(w, k), ok)
  <1>0. w.phase \in {"Idle", "Confirming", "Busy"}
    BY DEF Views
  <1>1. CASE k = None
    <2>1. Keyed(w, k, ok) = w /\ ~Saves(w, k)
      BY <1>1 DEF Keyed, Saves, None
    <2> QED BY <2>1 DEF Kept, Flagged
  <1>2. CASE k # None /\ w.phase = "Confirming"
    <2> DEFINE f == CASE k = "key" -> "Busy" [] k = "hold" -> "Idle" [] OTHER -> w.phase
               x == [w EXCEPT !.phase = f]
    <2>1. f \in {"Idle", "Confirming", "Busy"}
      BY <1>0
    <2>2. Keyed(w, k, ok) = x /\ ~Saves(w, k)
      BY <1>2 DEF Keyed, Saves, Calm
    <2> HIDE DEF f
    <2>3. x \in Views
      BY <2>1, Typed
    <2>4. /\ x.page = w.page /\ x.settings = w.settings /\ x.saveError = w.saveError
          /\ Kept(x, w)
      BY DEF Views, Kept
    <2> HIDE DEF x
    <2> QED BY <2>2, <2>3, <2>4, Stays DEF Flagged
  <1>3. CASE k # None /\ ~Calm(w) /\ w.phase # "Confirming"
    <2>1. Keyed(w, k, ok) = w /\ ~Saves(w, k)
      BY <1>3 DEF Keyed, Saves
    <2> QED BY <2>1 DEF Kept, Flagged
  <1>4. CASE k # None /\ Calm(w)
    <2> DEFINE n == Navigated(w, k, ok)
               x == [n EXCEPT !.step = 0]
    <2>1. Keyed(w, k, ok) = x /\ k \in Keys
      BY <1>4 DEF Keyed, Calm
    <2>2. n \in Views /\ Placed(n) /\ Kept(n, w) /\ Flagged(n, w, Saves(w, k), ok)
      <3>1. CASE w.page = "settings"
        <4>1. n = InSettings(w, k, ok) /\ (Saves(w, k) <=> k = "boot")
          BY <1>4, <3>1 DEF Navigated, Saves
        <4> QED BY <2>1, <3>1, <4>1, InSettingsFacts DEF Flagged
      <3>2. CASE w.page # "settings"
        <4>1. ~Saves(w, k)
          BY <3>2 DEF Saves
        <4> QED BY <2>1, <3>2, <4>1, OutsideFacts DEF Flagged
      <3> QED BY <3>1, <3>2
    <2> HIDE DEF n
    <2>5. 0 \in 0..Interval
      BY DEF ConstantsOK
    <2>3. x \in Views
      BY <2>2, <2>5, Typed
    <2>4. /\ x.page = n.page /\ x.settings = n.settings /\ x.saveError = n.saveError
          /\ Kept(x, n)
      BY <2>2 DEF Views, Kept
    <2> HIDE DEF x
    <2> QED BY <2>1, <2>2, <2>3, <2>4, Stays DEF Kept, Flagged
  <1> QED BY <1>1, <1>2, <1>3, <1>4

\* The auto cycle turns the page, and nothing else.
LEMMA CycledFacts ==
    ASSUME ConstantsOK, NEW w \in Views, Placed(w)
    PROVE  Cycled(w) \in Views /\ Placed(Cycled(w)) /\ Same(Cycled(w), w)
  <1>0. w.page \in Pages /\ 0 \in 0..Interval
    BY DEF Views, ConstantsOK
  <1> DEFINE y == [w EXCEPT !.step = 0]
  <1>1. y \in Views
    BY <1>0, Typed
  <1>2. y.page = w.page /\ y.settings = w.settings /\ Same(y, w)
    BY DEF Views, Same
  <1>3. Placed(y)
    BY <1>1, <1>2, Stays
  <1>4. CASE Cycled(w) = w
    BY <1>4 DEF Same
  <1>5. CASE Cycled(w) = y
    BY <1>1, <1>2, <1>3, <1>5
  <1>6. CASE Cycled(w) = [y EXCEPT !.page = NextOf(w, w.page)]
    <2> DEFINE p == NextOf(w, w.page)
    <2>1. p \in Pages /\ InRing(w, p)
      BY <1>0, StepFacts
    <2>2. InRing(y, p)
      BY <1>2, <2>1 DEF InRing, Ring
    <2> HIDE DEF y, p
    <2>3. [y EXCEPT !.page = p] \in Views /\ Placed([y EXCEPT !.page = p])
          /\ Same([y EXCEPT !.page = p], y)
      BY <1>1, <2>1, <2>2, Turned
    <2> QED BY <1>2, <1>6, <2>3 DEF Same, p
  <1> QED BY <1>4, <1>5, <1>6 DEF Cycled

-----------------------------------------------------------------------------
(***************************************************************************)
(* The specification.                                                      *)
(***************************************************************************)

\* An iteration of the loop, part by part.
LEMMA LoopFacts ==
    ASSUME ConstantsOK, RlcdInv, Loop
    PROVE  /\ RlcdInv'
           /\ OneTonePerRaise
  <1>0. /\ v \in Views /\ Placed(v) /\ stored \in SettingsRange
        /\ toned \subseteq v.announced
    BY DEF RlcdInv, TypeOK, PageInRing, Placed, TonesAreAnnounced
  <1>1. PICK e \in {None} \cup Events, k \in {None} \cup Keys :
          \E ok \in SaveResults(k), r \in Received(v, e) :
            LET w == Warned(r) IN
            \E a \in Alerts(w) :
                LET x == Keyed(Alerted(w, a), k, ok) IN
                /\ v' = Cycled(x)
                /\ stored' = IF Saves(Alerted(w, a), k) /\ ok
                             THEN x.settings ELSE stored
                /\ tone' = IF Raises(w, a) /\ w.settings.alert = "beep"
                           THEN a ELSE None
                /\ Remember(w)
    BY DEF Loop
  <1>2. PICK ok \in SaveResults(k), r \in Received(v, e) :
            \E a \in Alerts(Warned(r)) :
                LET w == Warned(r)
                    x == Keyed(Alerted(w, a), k, ok) IN
                /\ v' = Cycled(x)
                /\ stored' = IF Saves(Alerted(w, a), k) /\ ok
                             THEN x.settings ELSE stored
                /\ tone' = IF Raises(w, a) /\ w.settings.alert = "beep"
                           THEN a ELSE None
                /\ Remember(w)
    BY <1>1
  <1> DEFINE w == Warned(r)
  <1>3. PICK a \in Alerts(w) :
                LET x == Keyed(Alerted(w, a), k, ok) IN
                /\ v' = Cycled(x)
                /\ stored' = IF Saves(Alerted(w, a), k) /\ ok
                             THEN x.settings ELSE stored
                /\ tone' = IF Raises(w, a) /\ w.settings.alert = "beep"
                           THEN a ELSE None
                /\ Remember(w)
    BY <1>2
  <1> DEFINE y == Alerted(w, a)
             x == Keyed(y, k, ok)
  <1>4. ok \in BOOLEAN
    BY DEF SaveResults
  <1>5. /\ r \in Views /\ Placed(r) /\ r.settings = v.settings
        /\ r.saveError = v.saveError /\ r.announced = v.announced
    BY <1>0, ReceivedFacts DEF Same
  <1>6. /\ w \in Views /\ Placed(w) /\ w.settings = v.settings
        /\ w.saveError = v.saveError /\ w.announced = v.announced
    BY <1>5, WarnedFacts
  <1> HIDE DEF w
  <1>7. a \in Providers \cup {None}
    BY <1>6, AlertsFacts
  <1>8. /\ y \in Views /\ Placed(y) /\ y.settings = v.settings
        /\ y.saveError = v.saveError /\ y.hot = w.hot
        /\ y.announced = (v.announced \cap StillHot(w)) \cup (Providers \cap {a})
    BY <1>6, <1>7, AlertedFacts
  <1>9. /\ v' = Cycled(x)
        /\ stored' = IF Saves(y, k) /\ ok THEN x.settings ELSE stored
        /\ tone' = IF Raises(w, a) /\ w.settings.alert = "beep" THEN a ELSE None
        /\ toned' = {p \in Providers : w.hot[p] /\ (p \in toned \/ p = tone')}
    BY <1>3 DEF Remember
  <1> HIDE DEF y
  <1>10. x \in Views /\ Placed(x) /\ Kept(x, y) /\ Flagged(x, y, Saves(y, k), ok)
    BY <1>4, <1>8, KeyedFacts
  <1> HIDE DEF x
  <1>11. v' \in Views /\ Placed(v') /\ Same(v', x)
    BY <1>9, <1>10, CycledFacts
  <1>12. /\ v'.hot = w.hot
         /\ v'.announced = (v.announced \cap StillHot(w)) \cup (Providers \cap {a})
    BY <1>8, <1>10, <1>11 DEF Kept, Same
  <1>13. x.settings \in SettingsRange
    BY <1>10 DEF Views
  <1>14. TypeOK'
    <2>1. stored' \in SettingsRange
      BY <1>0, <1>9, <1>13
    <2>2. tone' \in Providers \cup {None}
      BY <1>7, <1>9
    <2>3. toned' \subseteq Providers
      BY <1>9
    <2> QED BY <1>11, <2>1, <2>2, <2>3 DEF TypeOK
  <1>15. PageInRing'
    BY <1>11 DEF PageInRing, Placed, InRing, Ring
  <1>16. UnsavedIsFlagged'
    <2>1. v'.settings = x.settings /\ v'.saveError = x.saveError
      BY <1>11 DEF Same
    <2>2. CASE Saves(y, k) /\ ok
      BY <1>9, <2>1, <2>2 DEF UnsavedIsFlagged
    <2>3. CASE Saves(y, k) /\ ~ok
      BY <1>10, <2>1, <2>3 DEF UnsavedIsFlagged, Flagged
    <2>4. CASE ~Saves(y, k)
      <3>1. x.settings = v.settings /\ x.saveError = v.saveError /\ stored' = stored
        BY <1>8, <1>9, <1>10, <2>4 DEF Flagged
      <3> QED BY <2>1, <3>1 DEF UnsavedIsFlagged, RlcdInv
    <2> QED BY <2>2, <2>3, <2>4
  <1>17. \A p \in Providers : tone' = p => p = a /\ Raises(w, a)
    BY <1>9 DEF ConstantsOK
  <1>18. TonesAreAnnounced'
    <2> SUFFICES ASSUME NEW p \in toned' PROVE p \in v'.announced
      BY DEF TonesAreAnnounced
    <2>1. p \in Providers /\ w.hot[p] /\ (p \in toned \/ p = tone')
      BY <1>9
    <2>2. CASE p \in toned
      BY <1>0, <1>12, <2>1, <2>2 DEF StillHot
    <2>3. CASE p = tone'
      BY <1>12, <1>17, <2>1, <2>3
    <2> QED BY <2>1, <2>2, <2>3
  <1>19. OneTonePerRaise
    <2> SUFFICES ASSUME NEW p \in Providers, tone' = p, p \in toned PROVE ~v'.hot[p]
      BY DEF OneTonePerRaise
    <2>1. p \notin v.announced \cap StillHot(w)
      BY <1>6, <1>17 DEF Raises
    <2>2. p \notin StillHot(w)
      BY <1>0, <2>1
    <2> QED BY <1>12, <2>2 DEF StillHot
  <1> QED BY <1>14, <1>15, <1>16, <1>18, <1>19 DEF RlcdInv

\* Between two iterations only the phase, the banner and the time change.
LEMMA BetweenFacts ==
    ASSUME ConstantsOK, RlcdInv, Update \/ Tick
    PROVE  RlcdInv' /\ OneTonePerRaise
  <1>0. /\ v \in Views /\ Placed(v) /\ stored \in SettingsRange
        /\ toned \subseteq v.announced /\ toned \subseteq Providers
    BY DEF RlcdInv, TypeOK, PageInRing, Placed, TonesAreAnnounced
  <1>1. v' \in Views /\ v'.page = v.page /\ Same(v', v)
    <2>1. CASE v' = [v EXCEPT !.phase = "Confirming"]
      <3>1. v' \in Views
        BY <1>0, <2>1, Typed
      <3> QED BY <1>0, <2>1, <3>1 DEF Views, Same
    <2>2. CASE \E b \in {v.banner, Banner} : v' = [v EXCEPT !.phase = "Idle", !.banner = b]
      <3>1. PICK b \in {v.banner, Banner} : v' = [v EXCEPT !.phase = "Idle", !.banner = b]
        BY <2>2
      <3> DEFINE y == [v EXCEPT !.phase = "Idle"]
      <3>2. b \in 0..Banner /\ v' = [y EXCEPT !.banner = b]
        BY <1>0, <3>1 DEF Views, ConstantsOK
      <3>3. y \in Views
        BY <1>0, Typed
      <3> HIDE DEF y
      <3>4. v' \in Views
        BY <3>2, <3>3, Typed
      <3> QED BY <1>0, <3>1, <3>4 DEF Views, Same
    <2>3. CASE v' = [v EXCEPT !.banner = Less(@), !.step = More(@)]
      <3> DEFINE n == Less(v.banner)
                 m == More(v.step)
                 y == [v EXCEPT !.banner = n]
      <3>1. n \in 0..Banner /\ m \in 0..Interval
        BY <1>0 DEF Views, Less, More, ConstantsOK
      <3>2. v' = [y EXCEPT !.step = m]
        BY <1>0, <2>3 DEF Views
      <3> HIDE DEF n, m
      <3>3. y \in Views
        BY <1>0, <3>1, Typed
      <3> HIDE DEF y
      <3>4. v' \in Views
        BY <3>1, <3>2, <3>3, Typed
      <3> QED BY <1>0, <2>3, <3>4 DEF Views, Same
    <2> QED BY <2>1, <2>2, <2>3 DEF Update, Tick
  <1>2. v'.settings = v.settings
    BY <1>1 DEF Same
  <1>3. Placed(v')
    BY <1>0, <1>1, <1>2, Stays
  <1>4. stored' = stored /\ toned' = toned /\ tone' = None
    BY DEF Update, Tick
  <1>5. TypeOK' /\ PageInRing' /\ UnsavedIsFlagged' /\ TonesAreAnnounced'
    BY <1>0, <1>1, <1>3, <1>4
       DEF RlcdInv, TypeOK, PageInRing, Placed, InRing, Ring, UnsavedIsFlagged,
           TonesAreAnnounced, Same
  <1>6. OneTonePerRaise
    BY <1>4 DEF OneTonePerRaise, ConstantsOK
  <1> QED BY <1>5, <1>6 DEF RlcdInv

\* A board starts with the stored settings, on a page that it has.
LEMMA RlcdStarts ==
    ASSUME ConstantsOK, Init
    PROVE  RlcdInv
  <1>1. PICK s \in SettingsRange :
            /\ v = [page |-> "overview", back |-> "overview",
                    clockBack |-> "overview", settings |-> s, focus |-> 1,
                    saveError |-> FALSE, use |-> [p \in Providers |-> 0],
                    latest |-> [p \in Providers |-> FALSE],
                    hot |-> [p \in Providers |-> FALSE], link |-> "off",
                    alert |-> None, dismissed |-> {}, announced |-> {},
                    phase |-> "Idle", banner |-> 0, step |-> 0]
            /\ stored = s /\ tone = None /\ toned = {}
    BY DEF Init
  <1>2. 1 \in 1..Len(Rows) /\ 0 \in 0..Banner /\ 0 \in 0..Interval
    BY RowsFacts DEF ConstantsOK
  <1>3. v \in Views
    BY <1>1, <1>2 DEF Views, Pages
  <1>4. v.page = "overview" /\ "overview" \in Pages /\ v.settings.portrait \in BOOLEAN
    BY <1>1 DEF Pages, SettingsRange
  <1>5. PageInRing
    BY <1>3, <1>4, RingFacts DEF PageInRing, Pages
  <1> QED BY <1>1, <1>3, <1>5 DEF RlcdInv, TypeOK, UnsavedIsFlagged, TonesAreAnnounced

\* Every step keeps the invariant.
LEMMA RlcdSteps ==
    ASSUME ConstantsOK, RlcdInv, [Next]_vars
    PROVE  RlcdInv'
  <1>1. CASE UNCHANGED vars
    BY <1>1 DEF vars, RlcdInv, TypeOK, PageInRing, InRing, Ring, UnsavedIsFlagged,
                TonesAreAnnounced
  <1> QED BY <1>1, LoopFacts, BetweenFacts DEF Next

\* The view keeps its type, the page its ring, an unsaved setting its flag
\* and a tone its announcement, in every state of the board.
THEOREM RlcdInvariant ==
    ASSUME ConstantsOK
    PROVE  Spec => []RlcdInv
  <1>1. Init => RlcdInv
    BY RlcdStarts
  <1>2. RlcdInv /\ [Next]_vars => RlcdInv'
    BY RlcdSteps
  <1> QED BY <1>1, <1>2, PTL DEF Spec

\* Page, settings, focus, banners and tones of the RLCD stay in their ranges.
THEOREM RlcdTypes ==
    ASSUME ConstantsOK
    PROVE  Spec => []TypeOK
  <1>1. RlcdInv => TypeOK
    BY DEF RlcdInv
  <1> QED BY <1>1, RlcdInvariant, PTL

\* Wherever rotation, the keys, the cycle or the Bridge lead to, the page
\* is one that the orientation has (Navigator and normalize_page).
THEOREM RlcdPageInRing ==
    ASSUME ConstantsOK
    PROVE  Spec => []PageInRing
  <1>1. RlcdInv => PageInRing
    BY DEF RlcdInv
  <1> QED BY <1>1, RlcdInvariant, PTL

\* Settings that are shown are the stored ones, or the footer's error says
\* that the last save failed.
THEOREM RlcdUnsavedIsFlagged ==
    ASSUME ConstantsOK
    PROVE  Spec => []UnsavedIsFlagged
  <1>1. RlcdInv => UnsavedIsFlagged
    BY DEF RlcdInv
  <1> QED BY <1>1, RlcdInvariant, PTL

\* A provider's tone is not repeated while it stays hot.
THEOREM RlcdOneTone ==
    ASSUME ConstantsOK
    PROVE  Spec => [][OneTonePerRaise]_vars
  <1>1. RlcdInv /\ [Next]_vars => [OneTonePerRaise]_vars
    BY LoopFacts, BetweenFacts DEF Next
  <1> QED BY <1>1, RlcdInvariant, PTL DEF Spec

-----------------------------------------------------------------------------
(***************************************************************************)
(* The AMOLED's loop and the callbacks of its LVGL task (TouchPanel).      *)
(*                                                                         *)
(* Between two renderings the screen may lag behind the loop's state, but  *)
(* never without a redraw being due (Drawn): every step that changes what  *)
(* the screen depends on raises `dirty', or leaves all of it alone         *)
(* (Quiet).  The settings page is the exception that needs its own         *)
(* invariant, for apply_settings() touches the panel at once, or not at    *)
(* all when the panel refuses its brightness (Preview).                    *)
(***************************************************************************)
CONSTANTS Inputs, LongPress, SecondTicks, FailureTicks, Brightness, DefaultBrightness,
          QueueLength, MaxOffers, TouchGuard, WakeGuard, IdleCap
VARIABLES pc, saver, loop, queue, ui, finger, ota, clock

Amoled == INSTANCE TouchPanel

SessionPhases == {"Idle", "Confirming", "Receiving"}

Loops == [page : Amoled!Pages, status : Amoled!Pages, set : Amoled!Settings, saved : Amoled!Settings,
          open : BOOLEAN, passkey : BOOLEAN, phase : SessionPhases,
          offer : Amoled!Offers, last : SessionPhases \X Amoled!Offers, window : 0..FailureTicks,
          count : 0..MaxOffers, dirty : BOOLEAN, key : Amoled!Pages \X BOOLEAN \X BOOLEAN,
          second : BOOLEAN]

Uis == [requested : Amoled!Pages, down : BOOLEAN, action : Amoled!Actions \cup {"None"},
        confirm : Amoled!Offers, deny : Amoled!Offers, input : BOOLEAN, active : BOOLEAN,
        confirming : BOOLEAN, shown : Amoled!Offers, visible : BOOLEAN,
        refused : BOOLEAN, brightness : Brightness, layer : Amoled!Layers]

\* The callbacks' latches aside, what the panel shows.
SameFront(u, w) ==
    /\ u.visible = w.visible /\ u.refused = w.refused /\ u.brightness = w.brightness
    /\ u.layer = w.layer /\ u.shown = w.shown

\* The settings page runs on the loop's settings, and leaves none behind, but
\* for a closing that the panel refused: that leaves the whole page, under a
\* brightness the next try will send.
Preview(l, u) ==
    /\ ~l.open => l.set = l.saved
    /\ u.refused =>
         ~l.open /\ u.visible /\ u.brightness # l.saved.brightness /\ "refuse" \in Inputs
    /\ ~u.refused => u.visible = l.open /\ u.brightness = l.set.brightness

\* What is in front is what was drawn last, or the next turn draws.
Fits(l, u) ==
    /\ l.last[1] # "Idle" =>
         u.layer = "ota" /\ (l.last[1] = "Confirming" => u.shown = l.last[2])
    /\ \/ u.layer = Amoled!LayerFor(l.key[2], l.passkey, l.last[1] # "Idle" \/ l.window > 0,
                                   l.open \/ u.refused)
       \/ u.layer = "ota" /\ l.count # 0
Drawn(l, u) == l.dirty \/ Fits(l, u)

\* The turn has noted the session, and does not sleep over a change.
Noted == pc \in {"render", "sleep"} => loop.last = <<loop.phase, loop.offer>>
Rested == pc = "sleep" => ~loop.dirty /\ loop.key[2] = saver.active

Awake ==
    pc \in {"render", "sleep"} /\ (loop.passkey \/ loop.phase # "Idle" \/ Amoled!Failure \/ loop.open)
        => ~saver.active

\* Failures are counted, and none without an offer.
Sessioned(o) ==
    /\ o.count <= o.offer /\ (o.phase # "Idle" => o.count < o.offer)
    /\ o.failed => o.count # 0
    /\ "ota" \notin Inputs => o.phase = "Idle" /\ ~o.failed
Failed(l) ==
    /\ l.window > 0 => l.count # 0
    /\ "ota" \notin Inputs => l.count = 0

TouchInv ==
    /\ Amoled!TypeOK /\ Preview(loop, ui) /\ loop.status = loop.page /\ Drawn(loop, ui)
    /\ Noted /\ Rested /\ Awake /\ Sessioned(ota) /\ Failed(loop)

\* A field of the right type keeps the record's.
LEMMA LoopTyped ==
    ASSUME NEW l \in Loops
    PROVE  /\ \A x \in Amoled!Pages : [l EXCEPT !.page = x] \in Loops
           /\ \A x \in Amoled!Pages : [l EXCEPT !.status = x] \in Loops
           /\ \A x \in Amoled!Settings : [l EXCEPT !.set = x] \in Loops
           /\ \A x \in Amoled!Settings : [l EXCEPT !.saved = x] \in Loops
           /\ \A x \in BOOLEAN : [l EXCEPT !.open = x] \in Loops
           /\ \A x \in BOOLEAN : [l EXCEPT !.passkey = x] \in Loops
           /\ \A x \in SessionPhases : [l EXCEPT !.phase = x] \in Loops
           /\ \A x \in Amoled!Offers : [l EXCEPT !.offer = x] \in Loops
           /\ \A x \in SessionPhases \X Amoled!Offers : [l EXCEPT !.last = x] \in Loops
           /\ \A x \in 0..FailureTicks : [l EXCEPT !.window = x] \in Loops
           /\ \A x \in 0..MaxOffers : [l EXCEPT !.count = x] \in Loops
           /\ \A x \in BOOLEAN : [l EXCEPT !.dirty = x] \in Loops
           /\ \A x \in Amoled!Pages \X BOOLEAN \X BOOLEAN : [l EXCEPT !.key = x] \in Loops
           /\ \A x \in BOOLEAN : [l EXCEPT !.second = x] \in Loops
  BY DEF Loops

\* The same for what the callbacks and render() write.
LEMMA UiTyped ==
    ASSUME NEW u \in Uis
    PROVE  /\ \A x \in Amoled!Pages : [u EXCEPT !.requested = x] \in Uis
           /\ \A x \in BOOLEAN : [u EXCEPT !.down = x] \in Uis
           /\ \A x \in Amoled!Actions \cup {"None"} : [u EXCEPT !.action = x] \in Uis
           /\ \A x \in Amoled!Offers : [u EXCEPT !.confirm = x] \in Uis
           /\ \A x \in Amoled!Offers : [u EXCEPT !.deny = x] \in Uis
           /\ \A x \in BOOLEAN : [u EXCEPT !.input = x] \in Uis
           /\ \A x \in BOOLEAN : [u EXCEPT !.active = x] \in Uis
           /\ \A x \in BOOLEAN : [u EXCEPT !.confirming = x] \in Uis
           /\ \A x \in Amoled!Offers : [u EXCEPT !.shown = x] \in Uis
           /\ \A x \in BOOLEAN : [u EXCEPT !.visible = x] \in Uis
           /\ \A x \in BOOLEAN : [u EXCEPT !.refused = x] \in Uis
           /\ \A x \in Brightness : [u EXCEPT !.brightness = x] \in Uis
           /\ \A x \in Amoled!Layers : [u EXCEPT !.layer = x] \in Uis
  BY DEF Uis

\* The latches are not what the panel shows.
LEMMA LatchFacts ==
    ASSUME NEW u \in Uis
    PROVE  /\ \A x \in Amoled!Pages : LET w == [u EXCEPT !.requested = x]
                               IN  w \in Uis /\ SameFront(w, u)
           /\ \A x \in BOOLEAN : LET w == [u EXCEPT !.down = x]
                                 IN  w \in Uis /\ SameFront(w, u)
           /\ \A x \in Amoled!Actions \cup {"None"} : LET w == [u EXCEPT !.action = x]
                                               IN  w \in Uis /\ SameFront(w, u)
           /\ \A x \in Amoled!Offers : LET w == [u EXCEPT !.confirm = x]
                                IN  w \in Uis /\ SameFront(w, u)
           /\ \A x \in Amoled!Offers : LET w == [u EXCEPT !.deny = x]
                                IN  w \in Uis /\ SameFront(w, u)
  <1>1. \A x : /\ SameFront([u EXCEPT !.requested = x], u) /\ SameFront([u EXCEPT !.down = x], u)
               /\ SameFront([u EXCEPT !.action = x], u) /\ SameFront([u EXCEPT !.confirm = x], u)
               /\ SameFront([u EXCEPT !.deny = x], u)
    BY DEF SameFront, Uis
  <1> QED BY <1>1, UiTyped

-----------------------------------------------------------------------------
(***************************************************************************)
(* The screensaver.                                                        *)
(***************************************************************************)

\* A field of the right type keeps the saver's.
LEMMA SaverTyped ==
    ASSUME NEW s \in Amoled!Savers
    PROVE  /\ \A x \in BOOLEAN : [s EXCEPT !.active = x] \in Amoled!Savers
           /\ \A x \in BOOLEAN : [s EXCEPT !.consume = x] \in Amoled!Savers
           /\ \A x \in 0..TouchGuard : [s EXCEPT !.guard = x] \in Amoled!Savers
           /\ \A x \in 0..WakeGuard : [s EXCEPT !.lock = x] \in Amoled!Savers
           /\ \A x \in 0..IdleCap : [s EXCEPT !.idle = x] \in Amoled!Savers
           /\ \A x \in Amoled!Pages : [s EXCEPT !.restore = x] \in Amoled!Savers
  BY DEF Amoled!Savers

\* reset() wakes the panel.
LEMMA ResetTyped ==
    ASSUME Amoled!ConstantsOK, NEW p \in Amoled!Pages
    PROVE  Amoled!Reset(p) \in Amoled!Savers /\ ~Amoled!Reset(p).active
  BY DEF Amoled!ConstantsOK, Amoled!Reset, Amoled!Savers

\* enter() keeps the saver in its types.
LEMMA EnterTyped ==
    ASSUME Amoled!ConstantsOK, NEW s \in Amoled!Savers, NEW p \in Amoled!Pages
    PROVE  Amoled!Enter(s, p) \in Amoled!Savers
  <1> DEFINE a == [s EXCEPT !.active = TRUE]
             b == [a EXCEPT !.restore = p]
             c == [b EXCEPT !.consume = FALSE]
             d == [c EXCEPT !.lock = 0]
  <1>0. 0 \in 0..WakeGuard
    BY DEF Amoled!ConstantsOK
  <1>1. a \in Amoled!Savers
    BY SaverTyped
  <1>2. b \in Amoled!Savers
    BY <1>1, SaverTyped
  <1>3. c \in Amoled!Savers
    BY <1>2, SaverTyped
  <1>4. d \in Amoled!Savers
    BY <1>0, <1>3, SaverTyped
  <1>5. Amoled!Enter(s, p) = d
    BY DEF Amoled!Enter
  <1> QED BY <1>4, <1>5

\* exit() wakes the panel.
LEMMA ExitTyped ==
    ASSUME Amoled!ConstantsOK, NEW s \in Amoled!Savers
    PROVE  Amoled!Exit(s) \in Amoled!Savers /\ ~Amoled!Exit(s).active
  <1> DEFINE a == [s EXCEPT !.active = FALSE]
             b == [a EXCEPT !.idle = 0]
  <1>0. 0 \in 0..IdleCap
    BY DEF Amoled!ConstantsOK
  <1>1. a \in Amoled!Savers
    BY SaverTyped
  <1>2. b \in Amoled!Savers
    BY <1>0, <1>1, SaverTyped
  <1>3. ~b.active
    BY DEF Amoled!Savers
  <1>4. Amoled!Exit(s) = b
    BY DEF Amoled!Exit
  <1> QED BY <1>2, <1>3, <1>4

\* What note_*() and the passing of time leave is a saver.
LEMMA SaverNotes ==
    ASSUME Amoled!ConstantsOK, NEW s \in Amoled!Savers, NEW p \in Amoled!Pages
    PROVE  /\ Amoled!NoteRemoteToggle(s, p) \in Amoled!Savers
           /\ Amoled!NotePowerKey(s, p) \in Amoled!Savers
           /\ Amoled!NoteTouchDown(s) \in Amoled!Savers /\ Amoled!NoteShake(s) \in Amoled!Savers
           /\ Amoled!Aged(s) \in Amoled!Savers
  <1>0. /\ 0 \in 0..IdleCap /\ 0 \in 0..WakeGuard /\ WakeGuard \in 0..WakeGuard
        /\ TouchGuard \in 0..TouchGuard
    BY DEF Amoled!ConstantsOK
  <1>1. Amoled!NoteRemoteToggle(s, p) \in Amoled!Savers
    BY EnterTyped, ExitTyped DEF Amoled!NoteRemoteToggle
  <1>2. Amoled!NotePowerKey(s, p) \in Amoled!Savers
    <2> DEFINE t == Amoled!NoteRemoteToggle(s, p)
    <2> HIDE DEF t
    <2>1. t \in Amoled!Savers
      BY <1>1 DEF t
    <2>2. [t EXCEPT !.lock = WakeGuard] \in Amoled!Savers
      BY <1>0, <2>1, SaverTyped
    <2>3. Amoled!NotePowerKey(s, p) = IF t.active THEN [t EXCEPT !.lock = WakeGuard] ELSE t
      BY DEF Amoled!NotePowerKey, t
    <2> QED BY <2>1, <2>2, <2>3
  <1>3. Amoled!NoteTouchDown(s) \in Amoled!Savers
    <2> DEFINE e == Amoled!Exit(s)
               a == [e EXCEPT !.consume = TRUE]
               b == [a EXCEPT !.guard = TouchGuard]
               c == [s EXCEPT !.consume = TRUE]
               d == [s EXCEPT !.consume = FALSE]
               f == [d EXCEPT !.idle = 0]
    <2>1. Amoled!NoteTouchDown(s) \in {s, b, c, f}
      BY DEF Amoled!NoteTouchDown, Amoled!Savers
    <2>2. e \in Amoled!Savers
      BY ExitTyped
    <2> HIDE DEF e
    <2>3. a \in Amoled!Savers
      BY <2>2, SaverTyped
    <2>4. c \in Amoled!Savers
      BY SaverTyped
    <2>5. d \in Amoled!Savers
      BY SaverTyped
    <2> HIDE DEF a, d
    <2>6. b \in Amoled!Savers
      BY <1>0, <2>3, SaverTyped
    <2>7. f \in Amoled!Savers
      BY <1>0, <2>5, SaverTyped
    <2> HIDE DEF b, c, f
    <2> QED BY <2>1, <2>4, <2>6, <2>7
  <1>4. Amoled!NoteShake(s) \in Amoled!Savers
    <2>1. Amoled!NoteShake(s) \in {s, Amoled!Exit(s), [s EXCEPT !.idle = 0]}
      BY DEF Amoled!NoteShake, Amoled!Savers
    <2>2. [s EXCEPT !.idle = 0] \in Amoled!Savers
      BY <1>0, SaverTyped
    <2> QED BY <2>1, <2>2, ExitTyped
  <1>5. Amoled!Aged(s) \in Amoled!Savers
    <2> DEFINE g == Amoled!Elapsed(s.guard)
               k == Amoled!Elapsed(s.lock)
               i == IF s.idle < IdleCap THEN s.idle + 1 ELSE s.idle
               a == [s EXCEPT !.guard = g]
               b == [a EXCEPT !.lock = k]
               c == [b EXCEPT !.idle = i]
    <2>1. g \in 0..TouchGuard /\ k \in 0..WakeGuard /\ i \in 0..IdleCap
      BY DEF Amoled!Savers, Amoled!Elapsed, Amoled!ConstantsOK
    <2>2. Amoled!Aged(s) = c
      BY DEF Amoled!Aged, Amoled!Savers
    <2> HIDE DEF g, k, i
    <2>3. a \in Amoled!Savers
      BY <2>1, SaverTyped
    <2>4. b \in Amoled!Savers
      BY <2>1, <2>3, SaverTyped
    <2>5. c \in Amoled!Savers
      BY <2>1, <2>4, SaverTyped
    <2> QED BY <2>2, <2>5
  <1> QED BY <1>1, <1>2, <1>3, <1>4, <1>5

\* An occasion to stay awake ends the clock, whatever locked it.
LEMMA UpdateFacts ==
    ASSUME Amoled!ConstantsOK, NEW s \in Amoled!Savers, NEW p \in Amoled!Pages,
           NEW delay, NEW awake \in BOOLEAN
    PROVE  /\ Amoled!Update(s, p, delay, awake) \in Amoled!Savers
           /\ awake => ~Amoled!Update(s, p, delay, awake).active
  <1>0. 0 \in 0..IdleCap
    BY DEF Amoled!ConstantsOK
  <1>1. CASE awake
    <2> DEFINE e == IF s.active THEN Amoled!Exit(s) ELSE s
               a == [e EXCEPT !.idle = 0]
               b == [a EXCEPT !.consume = FALSE]
    <2>1. e \in Amoled!Savers /\ ~e.active
      BY ExitTyped DEF Amoled!Savers
    <2> HIDE DEF e
    <2>2. a \in Amoled!Savers
      BY <1>0, <2>1, SaverTyped
    <2>3. b \in Amoled!Savers
      BY <2>2, SaverTyped
    <2>4. ~b.active
      BY <2>1 DEF Amoled!Savers
    <2>5. Amoled!Update(s, p, delay, awake) = b
      BY <1>1 DEF Amoled!Update, e
    <2> QED BY <2>3, <2>4, <2>5
  <1>2. CASE ~awake
    <2>1. Amoled!Update(s, p, delay, awake) \in {s, Amoled!Enter(s, p)}
      BY <1>2 DEF Amoled!Update
    <2> QED BY <1>2, <2>1, EnterTyped
  <1> QED BY <1>1, <1>2

Sessions == [phase : SessionPhases, offer : Amoled!Offers, failed : BOOLEAN, count : 0..MaxOffers]
Fingers  == [on : Amoled!Layers \cup {"none", "released"}, age : 0..LongPress, held : BOOLEAN]
Told     == {"toggle", "next", "previous", "pairing", "paired"}
Points   == {"ota", "touch", "settings", "page", "events", "sensors", "update", "render", "sleep"}

\* The type invariant, with its records named.
LEMMA TouchTypes ==
    Amoled!TypeOK <=> /\ pc \in Points /\ saver \in Amoled!Savers /\ loop \in Loops
               /\ queue \in Seq(Told) /\ Len(queue) <= QueueLength
               /\ ui \in Uis /\ finger \in Fingers /\ ota \in Sessions
               /\ clock \in 0..SecondTicks - 1
  BY DEF Amoled!TypeOK, Points, Loops, Uis, SessionPhases, Told, Fingers, Sessions

\* Nothing of what was drawn is lost without a redraw being asked for.
Quiet(l, m) ==
    \/ m.dirty
    \/ /\ m.dirty = l.dirty /\ m.last = l.last /\ m.key = l.key /\ m.passkey = l.passkey
       /\ m.window = l.window /\ m.count = l.count /\ m.open = l.open

\* A change that is quiet, or has a redraw due, leaves the screen drawn.
LEMMA DrawnKept ==
    ASSUME NEW l, NEW m, NEW u, NEW w, Drawn(l, u), Quiet(l, m),
           m.dirty \/ SameFront(w, u)
    PROVE  Drawn(m, w)
  <1>1. CASE m.dirty
    BY <1>1 DEF Drawn
  <1>2. CASE ~m.dirty
    BY <1>2 DEF Quiet, Drawn, Fits, SameFront
  <1> QED BY <1>1, <1>2

\* The preview is the loop's and the panel's settings, whatever else changes.
LEMMA PreviewKept ==
    ASSUME NEW l, NEW m, NEW u, NEW w, Preview(l, u), SameFront(w, u),
           m.open = l.open, m.set = l.set, m.saved = l.saved
    PROVE  Preview(m, w)
  BY DEF Preview, SameFront

\* The types of the loop's locals, one by one.
LEMMA LoopBooleans ==
    ASSUME NEW l \in Loops
    PROVE  /\ l.open \in BOOLEAN /\ l.passkey \in BOOLEAN /\ l.dirty \in BOOLEAN
           /\ l.second \in BOOLEAN /\ l.page \in Amoled!Pages /\ l.status \in Amoled!Pages
           /\ l.set \in Amoled!Settings /\ l.saved \in Amoled!Settings /\ l.phase \in SessionPhases
           /\ l.offer \in Amoled!Offers /\ l.last \in SessionPhases \X Amoled!Offers
           /\ l.window \in 0..FailureTicks /\ l.count \in 0..MaxOffers
           /\ l.key \in Amoled!Pages \X BOOLEAN \X BOOLEAN
  BY DEF Loops

\* The session as the update actions leave it.
LEMMA SessionSteps ==
    ASSUME Amoled!ConstantsOK, NEW o \in Sessions, Sessioned(o)
    PROVE  /\ o.phase = "Confirming" =>
                LET r == [o EXCEPT !.phase = "Receiving"] IN r \in Sessions /\ Sessioned(r)
           /\ o.phase # "Idle" =>
                LET r == [o EXCEPT !.phase = "Idle", !.failed = TRUE, !.count = @ + 1]
                IN  r \in Sessions /\ Sessioned(r)
           /\ "ota" \in Inputs /\ o.phase = "Idle" /\ o.offer < MaxOffers =>
                LET r == [o EXCEPT !.phase = "Confirming", !.offer = @ + 1, !.failed = FALSE]
                IN  r \in Sessions /\ Sessioned(r)
  <1>0. /\ o.phase \in SessionPhases /\ o.offer \in 0..MaxOffers /\ o.failed \in BOOLEAN
        /\ o.count \in 0..MaxOffers
    BY DEF Sessions, Amoled!Offers
  <1>1. ASSUME o.phase = "Confirming"
        PROVE  LET r == [o EXCEPT !.phase = "Receiving"] IN r \in Sessions /\ Sessioned(r)
    <2> DEFINE r == [o EXCEPT !.phase = "Receiving"]
    <2>1. r \in Sessions
      BY DEF Sessions, SessionPhases
    <2>2. r.phase = "Receiving" /\ r.offer = o.offer /\ r.failed = o.failed /\ r.count = o.count
      BY DEF Sessions
    <2> HIDE DEF r
    <2>3. Sessioned(r)
      BY <1>1, <2>2 DEF Sessioned
    <2> QED BY <2>1, <2>3 DEF r
  <1>2. ASSUME o.phase # "Idle"
        PROVE  LET r == [o EXCEPT !.phase = "Idle", !.failed = TRUE, !.count = @ + 1]
               IN  r \in Sessions /\ Sessioned(r)
    <2> DEFINE a == [o EXCEPT !.phase = "Idle"]
               b == [a EXCEPT !.failed = TRUE]
               r == [b EXCEPT !.count = o.count + 1]
    <2>1. o.count + 1 \in 0..MaxOffers
      BY <1>0, <1>2 DEF Sessioned, Amoled!ConstantsOK
    <2>2. r = [o EXCEPT !.phase = "Idle", !.failed = TRUE, !.count = @ + 1]
      BY DEF Sessions
    <2>3. a \in Sessions
      BY DEF Sessions, SessionPhases
    <2>4. b \in Sessions
      BY <2>3 DEF Sessions
    <2>5. r \in Sessions
      BY <2>1, <2>4 DEF Sessions
    <2>6. r.phase = "Idle" /\ r.offer = o.offer /\ r.failed = TRUE /\ r.count = o.count + 1
      BY DEF Sessions
    <2> HIDE DEF r
    <2>7. Sessioned(r)
      BY <1>0, <1>2, <2>6 DEF Sessioned
    <2> QED BY <2>2, <2>5, <2>7
  <1>3. ASSUME "ota" \in Inputs, o.phase = "Idle", o.offer < MaxOffers
        PROVE  LET r == [o EXCEPT !.phase = "Confirming", !.offer = @ + 1, !.failed = FALSE]
               IN  r \in Sessions /\ Sessioned(r)
    <2> DEFINE a == [o EXCEPT !.phase = "Confirming"]
               b == [a EXCEPT !.offer = o.offer + 1]
               r == [b EXCEPT !.failed = FALSE]
    <2>1. o.offer + 1 \in Amoled!Offers
      BY <1>0, <1>3 DEF Amoled!ConstantsOK, Amoled!Offers
    <2>2. r = [o EXCEPT !.phase = "Confirming", !.offer = @ + 1, !.failed = FALSE]
      BY DEF Sessions
    <2>3. a \in Sessions
      BY DEF Sessions, SessionPhases
    <2>4. b \in Sessions
      BY <2>1, <2>3 DEF Sessions
    <2>5. r \in Sessions
      BY <2>4 DEF Sessions
    <2>6. r.phase = "Confirming" /\ r.offer = o.offer + 1 /\ r.failed = FALSE /\ r.count = o.count
      BY DEF Sessions
    <2> HIDE DEF r
    <2>7. Sessioned(r)
      BY <1>0, <1>3, <2>6 DEF Sessioned
    <2> QED BY <2>2, <2>5, <2>7
  <1> QED BY <1>1, <1>2, <1>3

-----------------------------------------------------------------------------
(***************************************************************************)
(* The settings page.                                                      *)
(***************************************************************************)

\* apply_settings() that is not refused makes the page and the panel those of
\* the settings.
LEMMA AppliedFacts ==
    ASSUME NEW u \in Uis, NEW s \in Amoled!Settings, NEW open \in BOOLEAN
    PROVE  LET w == Amoled!ApplySettings(u, s, open)
           IN  w \in Uis /\ w.visible = open /\ w.brightness = s.brightness /\ ~w.refused
  <1> DEFINE x == CASE open /\ ~u.visible -> "settings"
                    [] ~open /\ u.layer = "settings" -> "page"
                    [] OTHER -> u.layer
             a == [u EXCEPT !.brightness = s.brightness]
             b == [a EXCEPT !.visible = open]
             c == [b EXCEPT !.refused = FALSE]
             w == [c EXCEPT !.layer = x]
  <1>1. x \in Amoled!Layers
    BY DEF Amoled!Layers, Uis
  <1>2. Amoled!ApplySettings(u, s, open) = w
    <2>1. c.layer = u.layer
      BY DEF Uis
    <2>2. Amoled!ApplySettings(u, s, open)
          = [c EXCEPT !.layer = CASE open /\ ~u.visible -> "settings"
                                  [] ~open /\ c.layer = "settings" -> "page"
                                  [] OTHER -> c.layer]
      BY Zenon DEF Amoled!ApplySettings
    <2> QED BY <2>1, <2>2, Zenon
  <1>3. w.visible = open /\ w.brightness = s.brightness /\ ~w.refused
    BY DEF Uis
  <1> HIDE DEF x
  <1>4. s.brightness \in Brightness
    BY DEF Amoled!Settings
  <1>5. a \in Uis
    BY <1>4, UiTyped
  <1>6. b \in Uis
    BY <1>5, UiTyped
  <1>7. c \in Uis
    BY <1>6, UiTyped
  <1>8. w \in Uis
    BY <1>1, <1>7, UiTyped
  <1> QED BY <1>2, <1>3, <1>8

\* Closing the settings page goes back to the saved settings, and redraws.
LEMMA ClosedFacts ==
    ASSUME NEW l \in Loops
    PROVE  LET m == Amoled!Closed(l)
           IN  /\ m \in Loops /\ m.set = l.saved /\ m.saved = l.saved /\ ~m.open /\ m.dirty
               /\ m.page = l.page /\ m.status = l.status /\ m.window = l.window
               /\ m.count = l.count
  <1> DEFINE a == [l EXCEPT !.set = l.saved]
             b == [a EXCEPT !.open = FALSE]
             c == [b EXCEPT !.dirty = TRUE]
  <1>1. Amoled!Closed(l) = c
    BY DEF Amoled!Closed
  <1>2. /\ c.set = l.saved /\ c.saved = l.saved /\ ~c.open /\ c.dirty
        /\ c.page = l.page /\ c.status = l.status /\ c.window = l.window
        /\ c.count = l.count
    BY DEF Loops
  <1>3. a \in Loops
    BY LoopTyped, LoopBooleans
  <1>4. b \in Loops
    BY <1>3, LoopTyped
  <1>5. c \in Loops
    BY <1>4, LoopTyped
  <1> QED BY <1>1, <1>2, <1>5

\* A settings page that has closed previews nothing, or stays as it was: the
\* panel refuses only a brightness it was previewing.
LEMMA UndoneFacts ==
    ASSUME NEW l \in Loops, NEW k \in Loops, NEW u \in Uis, k.saved = l.saved, Preview(k, u),
           Amoled!UndoesPreview(u, k)
    PROVE  ui' \in Uis /\ Preview(Amoled!Closed(l), ui')
  <1> DEFINE w == Amoled!ApplySettings(u, k.saved, FALSE)
             r == [u EXCEPT !.refused = TRUE]
             m == Amoled!Closed(l)
  <1>1. k.saved \in Amoled!Settings /\ FALSE \in BOOLEAN
    BY LoopBooleans
  <1>2. w \in Uis /\ w.visible = FALSE /\ w.brightness = k.saved.brightness /\ ~w.refused
    BY <1>1, AppliedFacts
  <1>3. m.set = l.saved /\ m.saved = l.saved /\ m.open = FALSE
    BY ClosedFacts, LoopBooleans
  <1>4. ui' = w \/ (Amoled!Refusable(u, k.saved) /\ ui' = r)
    BY DEF Amoled!UndoesPreview
  <1>5. r \in Uis /\ r.visible = u.visible /\ r.brightness = u.brightness /\ r.refused
    <2>1. r \in Uis
      BY UiTyped
    <2> QED BY <2>1 DEF Uis
  <1> HIDE DEF w, m, r
  <1>6. CASE ui' = w
    <2>1. Preview(m, w)
      BY <1>2, <1>3 DEF Preview
    <2> QED BY <1>2, <1>6, <2>1 DEF m
  <1>7. CASE Amoled!Refusable(u, k.saved) /\ ui' = r
    <2>1. u.brightness # k.saved.brightness /\ "refuse" \in Inputs
      BY <1>7 DEF Amoled!Refusable
    <2>2. u.visible
      BY <2>1 DEF Preview, Uis
    <2>3. Preview(m, r)
      BY <1>3, <1>5, <2>1, <2>2 DEF Preview
    <2> QED BY <1>5, <1>7, <2>3 DEF m
  <1> QED BY <1>4, <1>6, <1>7

\* A wake restores the page and its report, and nothing else.
LEMMA RestoredFacts ==
    ASSUME NEW l \in Loops, saver \in Amoled!Savers, l.page = l.status
    PROVE  LET m == Amoled!Restored(l)
           IN  /\ m \in Loops /\ m.set = l.set /\ m.saved = l.saved /\ m.open = l.open
               /\ m.page = m.status /\ m.window = l.window /\ m.count = l.count
               /\ m.dirty = l.dirty /\ m.last = l.last /\ m.key = l.key
               /\ m.passkey = l.passkey /\ m.phase = l.phase /\ m.offer = l.offer
  <1> DEFINE a == [l EXCEPT !.page = saver.restore]
             b == [a EXCEPT !.status = saver.restore]
  <1>1. Amoled!Restored(l) = IF saver.active THEN b ELSE l
    BY DEF Amoled!Restored
  <1>2. /\ b.set = l.set /\ b.saved = l.saved /\ b.open = l.open
        /\ b.page = b.status /\ b.window = l.window /\ b.count = l.count
        /\ b.dirty = l.dirty /\ b.last = l.last /\ b.key = l.key
        /\ b.passkey = l.passkey /\ b.phase = l.phase /\ b.offer = l.offer
    BY DEF Loops
  <1>3. saver.restore \in Amoled!Pages
    BY DEF Amoled!Savers
  <1>4. a \in Loops
    BY <1>3, LoopTyped
  <1>5. b \in Loops
    BY <1>3, <1>4, LoopTyped
  <1> QED BY <1>1, <1>2, <1>5

\* An action of the settings page closes it only with the settings saved.
LEMMA ActedFacts ==
    ASSUME NEW l \in Loops, NEW a \in Amoled!Actions \ {"Open"}, NEW written \in BOOLEAN, l.open
    PROVE  LET m == Amoled!Acted(l, a, written)
           IN  /\ m \in Loops /\ (~m.open => m.set = m.saved)
               /\ m.page = l.page /\ m.status = l.status /\ m.window = l.window
               /\ m.count = l.count
  <1> DEFINE bright == [l EXCEPT !.set.brightness = Amoled!Higher(@)]
             dim    == [l EXCEPT !.set.brightness = Amoled!Lower(@)]
             off    == [l EXCEPT !.set.delay = 0]
             timed  == [l EXCEPT !.set.delay = IdleCap]
             saved  == [l EXCEPT !.saved = l.set]
             kept   == [saved EXCEPT !.open = FALSE]
             back   == [l EXCEPT !.set = l.saved]
             left   == [back EXCEPT !.open = FALSE]
             m == Amoled!Acted(l, a, written)
  <1>0. /\ l.set.brightness \in Brightness /\ l.set.delay \in {0, IdleCap}
        /\ l.set \in Amoled!Settings /\ l.saved \in Amoled!Settings
    BY DEF Loops, Amoled!Settings
  <1>1. ASSUME NEW s \in Amoled!Settings
        PROVE  LET n == [l EXCEPT !.set = s]
               IN  n \in Loops /\ n.open /\ n.page = l.page /\ n.status = l.status
                   /\ n.window = l.window /\ n.count = l.count
    <2>1. [l EXCEPT !.set = s] \in Loops
      BY LoopTyped
    <2> QED BY <2>1 DEF Loops
  <1>2. \A b \in Brightness : [l.set EXCEPT !.brightness = b] \in Amoled!Settings
    BY <1>0 DEF Amoled!Settings
  <1>3. \A d \in {0, IdleCap} : [l.set EXCEPT !.delay = d] \in Amoled!Settings
    BY <1>0 DEF Amoled!Settings
  <1>4. Amoled!Lower(l.set.brightness) \in Brightness /\ Amoled!Higher(l.set.brightness) \in Brightness
    BY <1>0 DEF Amoled!Lower, Amoled!Higher
  <1>5. /\ dim = [l EXCEPT !.set = [l.set EXCEPT !.brightness = Amoled!Lower(l.set.brightness)]]
        /\ bright = [l EXCEPT !.set = [l.set EXCEPT !.brightness = Amoled!Higher(l.set.brightness)]]
        /\ off = [l EXCEPT !.set = [l.set EXCEPT !.delay = 0]]
        /\ timed = [l EXCEPT !.set = [l.set EXCEPT !.delay = IdleCap]]
    BY DEF Loops, Amoled!Settings
  <1>6. CASE a = "Dimmer"
    <2>1. m = dim
      BY <1>6 DEF Amoled!Acted
    <2> QED BY <1>1, <1>2, <1>4, <1>5, <2>1
  <1>7. CASE a = "Brighter"
    <2>1. m = bright
      BY <1>7 DEF Amoled!Acted
    <2> QED BY <1>1, <1>2, <1>4, <1>5, <2>1
  <1>8. CASE a = "TimeoutOff"
    <2>1. m = off
      BY <1>8 DEF Amoled!Acted
    <2> QED BY <1>1, <1>3, <1>5, <2>1
  <1>9. CASE a = "Timeout"
    <2>1. m = timed
      BY <1>9 DEF Amoled!Acted
    <2> QED BY <1>1, <1>3, <1>5, <2>1
  <1>10. CASE a = "Save"
    <2>1. m = IF written THEN kept ELSE l
      BY <1>10 DEF Amoled!Acted
    <2>2. saved \in Loops
      BY <1>0, LoopTyped
    <2>3. kept \in Loops
      BY <2>2, LoopTyped
    <2>4. /\ kept.set = kept.saved /\ kept.page = l.page /\ kept.status = l.status
          /\ kept.window = l.window /\ kept.count = l.count
      BY DEF Loops
    <2> QED BY <2>1, <2>3, <2>4
  <1>11. CASE a = "Cancel"
    <2>1. m = left
      BY <1>11 DEF Amoled!Acted
    <2>2. back \in Loops
      BY <1>0, LoopTyped
    <2>3. left \in Loops
      BY <2>2, LoopTyped
    <2>4. /\ left.set = left.saved /\ left.page = l.page /\ left.status = l.status
          /\ left.window = l.window /\ left.count = l.count
      BY DEF Loops
    <2> QED BY <2>1, <2>3, <2>4
  <1> QED BY <1>6, <1>7, <1>8, <1>9, <1>10, <1>11 DEF Amoled!Actions

-----------------------------------------------------------------------------
(***************************************************************************)
(* The callbacks and the BLE task: the loop is left alone.                 *)
(***************************************************************************)

\* What the loop's state says is kept when the loop is left alone and the
\* panel shows what it showed.
LEMMA AloneKept ==
    ASSUME TouchInv, UNCHANGED <<pc, saver, loop>>, Amoled!TypeOK', SameFront(ui', ui), Sessioned(ota)'
    PROVE  TouchInv'
  <1>1. Preview(loop', ui')
    BY PreviewKept DEF TouchInv
  <1>2. Quiet(loop, loop')
    BY DEF Quiet
  <1>3. Drawn(loop', ui')
    BY <1>2, DrawnKept DEF TouchInv
  <1>4. /\ loop'.status = loop'.page /\ Noted' /\ Rested' /\ Awake' /\ Failed(loop')
    BY DEF TouchInv, Noted, Rested, Awake, Failed, Amoled!Failure
  <1> QED BY <1>1, <1>3, <1>4 DEF TouchInv

\* A callback sets one latch.
Latched(u, w) ==
    \/ w = u
    \/ \E p \in Amoled!Pages : w = [u EXCEPT !.requested = p]
    \/ \E d \in BOOLEAN : w = [u EXCEPT !.down = d]
    \/ \E a \in Amoled!Actions \cup {"None"} : w = [u EXCEPT !.action = a]
    \/ \E o \in Amoled!Offers : w = [u EXCEPT !.confirm = o]
    \/ \E o \in Amoled!Offers : w = [u EXCEPT !.deny = o]

\* The types of the latches.
LEMMA LatchedFacts ==
    ASSUME NEW u \in Uis, NEW w, Latched(u, w)
    PROVE  w \in Uis /\ SameFront(w, u)
  <1>1. CASE w = u
    BY <1>1 DEF SameFront
  <1>2. CASE \E p \in Amoled!Pages : w = [u EXCEPT !.requested = p]
    BY <1>2, LatchFacts
  <1>3. CASE \E d \in BOOLEAN : w = [u EXCEPT !.down = d]
    BY <1>3, LatchFacts
  <1>4. CASE \E a \in Amoled!Actions \cup {"None"} : w = [u EXCEPT !.action = a]
    BY <1>4, LatchFacts
  <1>5. CASE \E o \in Amoled!Offers : w = [u EXCEPT !.confirm = o]
    BY <1>5, LatchFacts
  <1>6. CASE \E o \in Amoled!Offers : w = [u EXCEPT !.deny = o]
    BY <1>6, LatchFacts
  <1> QED BY <1>1, <1>2, <1>3, <1>4, <1>5, <1>6 DEF Latched

\* touch_down_event sets its latch.
LEMMA PressKept ==
    ASSUME Amoled!ConstantsOK, TouchInv, Amoled!Press
    PROVE  TouchInv'
  <1>0. Amoled!TypeOK
    BY DEF TouchInv
  <1>1. ui \in Uis /\ ui.layer \in Amoled!Layers
    BY <1>0, TouchTypes DEF Uis
  <1>2. ui' \in Uis /\ SameFront(ui', ui)
    BY <1>1, LatchFacts DEF Amoled!Press
  <1>3. finger' \in Fingers
    BY <1>1 DEF Amoled!Press, Fingers, Amoled!ConstantsOK
  <1>4. Amoled!TypeOK'
    BY <1>0, <1>2, <1>3 DEF Amoled!Press, Amoled!TypeOK, Points, Loops, Uis, SessionPhases, Told,
       Fingers, Sessions
  <1> QED BY <1>2, <1>4, AloneKept DEF Amoled!Press, TouchInv, Sessioned

\* A click sets a latch, if its object accepts it.
LEMMA ReleaseKept ==
    ASSUME Amoled!ConstantsOK, TouchInv, Amoled!Release
    PROVE  TouchInv'
  <1>0. Amoled!TypeOK
    BY DEF TouchInv
  <1>1. ui \in Uis /\ ui.shown \in Amoled!Offers /\ ui.requested \in Amoled!Pages
    BY <1>0, TouchTypes DEF Uis
  <1>2. Latched(ui, ui')
    <2>1. \A previous \in BOOLEAN : Amoled!PageAfterSwipe(ui.requested, previous) \in Amoled!Pages
      BY <1>1 DEF Amoled!PageAfterSwipe, Amoled!Pages
    <2>2. CASE Amoled!ClickPage
      <3>1. CASE \E p \in Amoled!Pages : Amoled!TabEvent(p)
        BY <3>1 DEF Amoled!TabEvent, Latched
      <3>2. CASE \E previous \in BOOLEAN : Amoled!GestureEvent(previous)
        BY <2>1, <3>2 DEF Amoled!GestureEvent, Latched
      <3> QED BY <2>2, <3>1, <3>2 DEF Amoled!ClickPage
    <2>3. CASE Amoled!ClickSettings
      BY <2>3 DEF Amoled!ClickSettings, Amoled!SettingsEvent, Latched
    <2>4. CASE Amoled!ClickOta
      BY <1>1, <2>4 DEF Amoled!ClickOta, Amoled!OtaConfirmEvent, Amoled!OtaDenyEvent, Latched
    <2>5. CASE ui' = ui
      BY <2>5 DEF Latched
    <2> QED BY <2>2, <2>3, <2>4, <2>5 DEF Amoled!Release
  <1>3. ui' \in Uis /\ SameFront(ui', ui)
    BY <1>1, <1>2, LatchedFacts
  <1>4. finger' \in Fingers
    BY DEF Amoled!Release, Fingers, Amoled!ConstantsOK
  <1>5. Amoled!TypeOK'
    BY <1>0, <1>3, <1>4 DEF Amoled!Release, Amoled!TypeOK, Points, Loops, Uis, SessionPhases, Told,
       Fingers, Sessions
  <1> QED BY <1>3, <1>5, AloneKept DEF Amoled!Release, TouchInv, Sessioned

\* A long press asks for the settings page.
LEMMA LongPressKept ==
    ASSUME Amoled!ConstantsOK, TouchInv, Amoled!LongPressEvent
    PROVE  TouchInv'
  <1>0. Amoled!TypeOK
    BY DEF TouchInv
  <1>1. ui \in Uis /\ finger \in Fingers
    BY <1>0, TouchTypes
  <1>2. Latched(ui, ui')
    BY DEF Amoled!LongPressEvent, Latched, Amoled!Actions
  <1>3. ui' \in Uis /\ SameFront(ui', ui)
    BY <1>1, <1>2, LatchedFacts
  <1>4. finger' \in Fingers
    BY <1>1 DEF Amoled!LongPressEvent, Fingers
  <1>5. Amoled!TypeOK'
    BY <1>0, <1>3, <1>4 DEF Amoled!LongPressEvent, Amoled!TypeOK, Points, Loops, Uis, SessionPhases,
       Told, Fingers, Sessions
  <1> QED BY <1>3, <1>5, AloneKept DEF Amoled!LongPressEvent, TouchInv, Sessioned

\* The BLE task posts an event.
LEMMA PeerKept ==
    ASSUME Amoled!ConstantsOK, TouchInv, Amoled!Peer
    PROVE  TouchInv'
  <1>0. Amoled!TypeOK
    BY DEF TouchInv
  <1>1. queue \in Seq(Told) /\ Len(queue) <= QueueLength
    BY <1>0, TouchTypes
  <1>2. \E e \in Told : Amoled!Send(e)
    BY DEF Amoled!Peer, Told
  <1>3. queue' \in Seq(Told) /\ Len(queue') <= QueueLength
    BY <1>1, <1>2 DEF Amoled!Send, Amoled!ConstantsOK
  <1>4. Amoled!TypeOK'
    BY <1>0, <1>3 DEF Amoled!Peer, Amoled!TypeOK, Told
  <1> QED BY <1>4, AloneKept DEF Amoled!Peer, TouchInv, Sessioned, SameFront

\* An update is offered, or fails.
LEMMA SessionKept ==
    ASSUME Amoled!ConstantsOK, TouchInv, Amoled!OtaOffer \/ Amoled!OtaFail
    PROVE  TouchInv'
  <1>0. Amoled!TypeOK /\ Sessioned(ota)
    BY DEF TouchInv
  <1>1. ota \in Sessions
    BY <1>0, TouchTypes
  <1>2. ota' \in Sessions /\ Sessioned(ota')
    BY <1>0, <1>1, SessionSteps DEF Amoled!OtaOffer, Amoled!OtaFail
  <1>3. UNCHANGED <<pc, saver, loop, queue, ui, finger, clock>>
    BY DEF Amoled!OtaOffer, Amoled!OtaFail
  <1>4. Amoled!TypeOK'
    BY <1>0, <1>2, <1>3 DEF Amoled!TypeOK, Sessions, SessionPhases
  <1>5. Sessioned(ota)'
    BY <1>2 DEF Sessioned
  <1> QED BY <1>3, <1>4, <1>5, AloneKept DEF SameFront

-----------------------------------------------------------------------------
(***************************************************************************)
(* A turn of the loop.                                                     *)
(***************************************************************************)

\* Until the turn has noted the session, nothing else is said of it.
LEMMA TurnKept ==
    ASSUME Amoled!TypeOK', Preview(loop', ui'), loop'.status = loop'.page, Drawn(loop', ui'),
           pc' \notin {"render", "sleep"}, Sessioned(ota'), Failed(loop')
    PROVE  TouchInv'
  BY DEF TouchInv, Noted, Rested, Awake

\* route_touch() hands the confirmation to the session and reads its phase.
LEMMA TakeOtaKept ==
    ASSUME Amoled!ConstantsOK, TouchInv, Amoled!TakeOta
    PROVE  TouchInv'
  <1> DEFINE dirty == loop.dirty \/ Amoled!Confirms(ui) \/ Amoled!Denies(ui)
             a == [loop EXCEPT !.phase = ota'.phase]
             b == [a EXCEPT !.offer = ota'.offer]
             c == [b EXCEPT !.dirty = dirty]
             u == [ui EXCEPT !.confirm = 0]
             w == [u EXCEPT !.deny = 0]
  <1>0. Amoled!TypeOK /\ Sessioned(ota) /\ 0 \in Amoled!Offers
    BY DEF TouchInv, Amoled!ConstantsOK, Amoled!Offers
  <1>1. loop \in Loops /\ ui \in Uis /\ ota \in Sessions
    BY <1>0, TouchTypes
  <1>2. ota' \in Sessions /\ Sessioned(ota')
    <2>1. CASE Amoled!Confirms(ui)
      BY <1>0, <1>1, <2>1, SessionSteps DEF Amoled!TakeOta, Amoled!Confirms
    <2>2. CASE Amoled!Denies(ui)
      <3>1. ota.phase # "Idle" /\ ~Amoled!Confirms(ui)
        BY <2>2 DEF Amoled!Denies
      <3> QED BY <1>0, <1>1, <2>2, <3>1, SessionSteps DEF Amoled!TakeOta
    <2>3. CASE ~Amoled!Confirms(ui) /\ ~Amoled!Denies(ui)
      BY <1>0, <1>1, <2>3 DEF Amoled!TakeOta
    <2> QED BY <2>1, <2>2, <2>3
  <1>3. ota'.phase \in SessionPhases /\ ota'.offer \in Amoled!Offers
    BY <1>2 DEF Sessions
  <1>4. dirty \in BOOLEAN
    BY <1>1, LoopBooleans DEF Amoled!Confirms, Amoled!Denies
  <1>5. loop' = c
    BY DEF Amoled!TakeOta
  <1>6. /\ c.dirty = dirty /\ c.last = loop.last /\ c.key = loop.key
        /\ c.passkey = loop.passkey /\ c.window = loop.window /\ c.count = loop.count
        /\ c.open = loop.open /\ c.set = loop.set /\ c.saved = loop.saved
        /\ c.page = loop.page /\ c.status = loop.status
    BY <1>1 DEF Loops
  <1>7. c \in Loops
    <2> HIDE DEF dirty
    <2>1. a \in Loops
      BY <1>1, <1>3, LoopTyped
    <2>2. b \in Loops
      BY <1>3, <2>1, LoopTyped
    <2> QED BY <1>4, <2>2, LoopTyped
  <1>8. ui' = w /\ w \in Uis /\ SameFront(w, ui)
    <2>1. u \in Uis /\ SameFront(u, ui)
      BY <1>0, <1>1, LatchFacts
    <2> HIDE DEF u
    <2>2. w \in Uis /\ SameFront(w, u)
      BY <1>0, <2>1, LatchFacts
    <2>3. SameFront(w, ui)
      BY <2>1, <2>2 DEF SameFront
    <2>4. ui' = w
      BY DEF Amoled!TakeOta, u
    <2> QED BY <2>2, <2>3, <2>4
  <1>9. Preview(loop', ui')
    <2> HIDE DEF c, w
    <2> QED BY <1>5, <1>6, <1>8, PreviewKept DEF TouchInv
  <1>10. Quiet(loop, c)
    <2> HIDE DEF c
    <2>1. CASE dirty
      BY <1>6, <2>1 DEF Quiet
    <2>2. CASE ~dirty
      <3>1. loop.dirty = dirty
        BY <1>1, <2>2, LoopBooleans
      <3> QED BY <1>6, <3>1 DEF Quiet
    <2> QED BY <2>1, <2>2
  <1>11. Drawn(loop', ui')
    <2> HIDE DEF c, w
    <2> QED BY <1>5, <1>8, <1>10, DrawnKept DEF TouchInv
  <1>12. loop'.status = loop'.page /\ Failed(loop')
    <2> HIDE DEF c
    <2> QED BY <1>5, <1>6 DEF TouchInv, Failed
  <1>13. Amoled!TypeOK'
    <2> HIDE DEF c, w
    <2>1. loop' \in Loops /\ ui' \in Uis /\ pc' \in Points
      BY <1>5, <1>7, <1>8 DEF Amoled!TakeOta, Points
    <2> QED BY <1>0, <1>2, <2>1
         DEF Amoled!TakeOta, Amoled!TypeOK, Points, Loops, Uis, SessionPhases, Sessions
  <1> QED BY <1>2, <1>9, <1>11, <1>12, <1>13, TurnKept DEF Amoled!TakeOta

\* A touch wakes the panel, and a failure opens its window: both redraw.
LEMMA TakeTouchKept ==
    ASSUME Amoled!ConstantsOK, TouchInv, Amoled!TakeTouch
    PROVE  TouchInv'
  <1> DEFINE fresh == ota.failed /\ ota.count # loop.count
             r == Amoled!Restored(loop)
             d == [r EXCEPT !.dirty = TRUE]
             l == IF ui.down THEN d ELSE loop
             a == [l EXCEPT !.window = FailureTicks]
             b == [a EXCEPT !.count = ota.count]
             c == [b EXCEPT !.dirty = TRUE]
             w == [ui EXCEPT !.down = FALSE]
  <1>0. Amoled!TypeOK /\ Sessioned(ota) /\ FailureTicks \in 0..FailureTicks
    BY DEF TouchInv, Amoled!ConstantsOK
  <1>1. /\ loop \in Loops /\ ui \in Uis /\ ota \in Sessions /\ saver \in Amoled!Savers
        /\ loop.status = loop.page /\ ota.count \in 0..MaxOffers
    BY <1>0, TouchTypes DEF TouchInv, Sessions
  <1>2. loop' = IF fresh THEN c ELSE l
    BY DEF Amoled!TakeTouch
  <1>3. /\ l \in Loops /\ l.set = loop.set /\ l.saved = loop.saved /\ l.open = loop.open
        /\ l.page = l.status /\ l.window = loop.window /\ l.count = loop.count /\ Quiet(loop, l)
    <2>1. CASE ui.down
      <3>1. /\ r \in Loops /\ r.set = loop.set /\ r.saved = loop.saved /\ r.open = loop.open
            /\ r.page = r.status /\ r.window = loop.window /\ r.count = loop.count
        BY <1>1, RestoredFacts
      <3> HIDE DEF r
      <3>2. d \in Loops
        BY <3>1, LoopTyped
      <3>3. /\ d.set = loop.set /\ d.saved = loop.saved /\ d.open = loop.open
            /\ d.page = d.status /\ d.window = loop.window /\ d.count = loop.count /\ d.dirty
        BY <3>1 DEF Loops
      <3> HIDE DEF d
      <3>4. l = d
        BY <2>1
      <3> HIDE DEF l
      <3> QED BY <3>2, <3>3, <3>4 DEF Quiet
    <2>2. CASE ~ui.down
      <3>1. l = loop
        BY <2>2
      <3> HIDE DEF l
      <3> QED BY <1>1, <3>1 DEF Quiet
    <2> QED BY <2>1, <2>2
  <1> HIDE DEF l
  <1>4. /\ c \in Loops /\ c.set = loop.set /\ c.saved = loop.saved /\ c.open = loop.open
        /\ c.page = c.status /\ c.count = ota.count /\ c.dirty
    <2>1. a \in Loops
      BY <1>0, <1>3, LoopTyped
    <2>2. b \in Loops
      BY <1>1, <2>1, LoopTyped
    <2>3. c \in Loops
      BY <2>2, LoopTyped
    <2> QED BY <1>3, <2>3 DEF Loops
  <1> HIDE DEF c
  <1>5. Quiet(loop, c)
    BY <1>4 DEF Quiet
  <1>6. fresh => Failed(c)
    <2>1. ota.failed => ota.count # 0 /\ "ota" \in Inputs
      BY <1>0 DEF Sessioned
    <2> QED BY <1>4, <2>1 DEF Failed
  <1>7. ui' = w /\ w \in Uis /\ SameFront(w, ui)
    BY <1>1, LatchFacts DEF Amoled!TakeTouch
  <1> HIDE DEF w
  <1>8. Failed(l)
    BY <1>3 DEF TouchInv, Failed
  <1>9. /\ loop' \in Loops /\ loop'.set = loop.set /\ loop'.saved = loop.saved
        /\ loop'.open = loop.open /\ loop'.page = loop'.status /\ Quiet(loop, loop')
        /\ Failed(loop')
    <2>1. CASE fresh
      BY <1>2, <1>4, <1>5, <1>6, <2>1
    <2>2. CASE ~fresh
      BY <1>2, <1>3, <1>8, <2>2
    <2> QED BY <2>1, <2>2
  <1>10. saver' \in Amoled!Savers
    <2>1. loop.page \in Amoled!Pages
      BY <1>1, LoopBooleans
    <2> QED BY <1>1, <2>1, SaverNotes DEF Amoled!TakeTouch
  <1>11. Amoled!TypeOK'
    BY <1>0, <1>7, <1>9, <1>10 DEF Amoled!TakeTouch, Amoled!TypeOK, Points, Loops, Uis, SessionPhases
  <1>12. Preview(loop', ui')
    BY <1>7, <1>9, PreviewKept DEF TouchInv
  <1>13. Drawn(loop', ui')
    BY <1>7, <1>9, DrawnKept DEF TouchInv
  <1>14. Sessioned(ota') /\ pc' = "settings"
    BY <1>0 DEF Amoled!TakeTouch
  <1> QED BY <1>9, <1>11, <1>12, <1>13, <1>14, TurnKept

\* What a choice makes of the loop's locals: a closed page has the settings
\* saved, and only an open one saves.
LEMMA ChosenFacts ==
    ASSUME NEW k \in Loops, NEW a \in Amoled!Actions, NEW written \in BOOLEAN,
           ~k.open => k.set = k.saved
    PROVE  LET l == Amoled!Chosen(k, a, written)
           IN  /\ l \in Loops /\ (~l.open => l.set = l.saved) /\ (~k.open => l.saved = k.saved)
               /\ l.dirty /\ l.page = k.page /\ l.status = k.status /\ l.window = k.window
               /\ l.count = k.count
  <1> DEFINE l == Amoled!Chosen(k, a, written)
  <1>1. CASE a = "Open"
    <2> DEFINE o == [k EXCEPT !.open = TRUE]
               p == [o EXCEPT !.dirty = TRUE]
    <2>1. l = p
      BY <1>1 DEF Amoled!Chosen
    <2>2. o \in Loops
      BY LoopTyped
    <2>3. p \in Loops
      BY <2>2, LoopTyped
    <2>4. /\ p.open /\ p.dirty /\ p.page = k.page /\ p.saved = k.saved
          /\ p.status = k.status /\ p.window = k.window /\ p.count = k.count
      BY DEF Loops
    <2> HIDE DEF l, p
    <2>5. /\ l \in Loops /\ (~l.open => l.set = l.saved) /\ (~k.open => l.saved = k.saved)
          /\ l.dirty /\ l.page = k.page /\ l.status = k.status /\ l.window = k.window
          /\ l.count = k.count
      BY <2>1, <2>3, <2>4
    <2> QED BY <2>5 DEF l
  <1>2. CASE a # "Open" /\ k.open
    <2> DEFINE o == Amoled!Acted(k, a, written)
               p == [o EXCEPT !.dirty = TRUE]
    <2>1. l = p
      BY <1>2 DEF Amoled!Chosen
    <2>2. /\ o \in Loops /\ (~o.open => o.set = o.saved)
          /\ o.page = k.page /\ o.status = k.status /\ o.window = k.window
          /\ o.count = k.count
      BY <1>2, ActedFacts
    <2> HIDE DEF o
    <2>3. p \in Loops
      BY <2>2, LoopTyped
    <2>4. /\ p.open = o.open /\ p.set = o.set /\ p.saved = o.saved /\ p.dirty /\ p.page = o.page
          /\ p.status = o.status /\ p.window = o.window /\ p.count = o.count
      BY <2>2 DEF Loops
    <2> HIDE DEF l, p
    <2>5. /\ l \in Loops /\ (~l.open => l.set = l.saved)
          /\ l.dirty /\ l.page = k.page /\ l.status = k.status /\ l.window = k.window
          /\ l.count = k.count
      BY <2>1, <2>2, <2>3, <2>4
    <2> QED BY <1>2, <2>5 DEF l
  <1>3. CASE a # "Open" /\ ~k.open
    <2> DEFINE p == [k EXCEPT !.dirty = TRUE]
    <2>1. l = p
      BY <1>3 DEF Amoled!Chosen
    <2>2. p \in Loops
      BY LoopTyped
    <2>3. /\ p.open = k.open /\ p.set = k.set /\ p.saved = k.saved /\ p.dirty
          /\ p.page = k.page /\ p.status = k.status /\ p.window = k.window
          /\ p.count = k.count
      BY DEF Loops
    <2> HIDE DEF l, p
    <2>4. /\ l \in Loops /\ (~l.open => l.set = l.saved) /\ (~k.open => l.saved = k.saved)
          /\ l.dirty /\ l.page = k.page /\ l.status = k.status /\ l.window = k.window
          /\ l.count = k.count
      BY <1>3, <2>1, <2>2, <2>3
    <2> QED BY <2>4 DEF l
  <1> QED BY <1>1, <1>2, <1>3

\* A choice taken back leaves the settings and the page as they were.
LEMMA TakenBackFacts ==
    ASSUME NEW l \in Loops, NEW k \in Loops
    PROVE  LET m == Amoled!TakenBack(l, k)
           IN  /\ m \in Loops /\ m.set = k.set /\ m.open = k.open /\ m.saved = l.saved
               /\ m.dirty = l.dirty /\ m.page = l.page /\ m.status = l.status
               /\ m.window = l.window /\ m.count = l.count
  <1> DEFINE a == [l EXCEPT !.set = k.set]
             m == [a EXCEPT !.open = k.open]
  <1>1. Amoled!TakenBack(l, k) = m
    BY DEF Amoled!TakenBack
  <1>2. k.set \in Amoled!Settings /\ k.open \in BOOLEAN
    BY LoopBooleans
  <1>3. a \in Loops
    BY <1>2, LoopTyped
  <1>4. m \in Loops
    BY <1>2, <1>3, LoopTyped
  <1>5. /\ m.set = k.set /\ m.open = k.open /\ m.saved = l.saved
        /\ m.dirty = l.dirty /\ m.page = l.page /\ m.status = l.status
        /\ m.window = l.window /\ m.count = l.count
    BY DEF Loops
  <1> HIDE DEF m
  <1> QED BY <1>1, <1>4, <1>5


\* A settings action is applied to the panel with the redraw it needs, or taken
\* back.
LEMMA TakeSettingsKept ==
    ASSUME Amoled!ConstantsOK, TouchInv, Amoled!TakeSettings
    PROVE  TouchInv'
  <1> DEFINE a == ui.action
             u == [ui EXCEPT !.action = "None"]
  <1>0. Amoled!TypeOK /\ Sessioned(ota) /\ Sessioned(ota') /\ pc' = "page"
    BY DEF TouchInv, Amoled!TakeSettings
  <1>1. /\ loop \in Loops /\ ui \in Uis /\ saver \in Amoled!Savers /\ loop.page \in Amoled!Pages
        /\ loop.status = loop.page /\ loop.open \in BOOLEAN /\ a \in Amoled!Actions \cup {"None"}
    BY <1>0, TouchTypes DEF TouchInv, Loops, Uis
  <1>2. u \in Uis /\ SameFront(u, ui)
    BY <1>1, LatchFacts
  <1> HIDE DEF u
  <1>3. Amoled!Reset(loop.page) \in Amoled!Savers
    BY <1>1, ResetTyped
  <1>4. Preview(loop, u)
    BY <1>2, PreviewKept DEF TouchInv
  <1>5. SUFFICES ASSUME (Amoled!Blocked /\ loop.open) \/ (~Amoled!Blocked /\ a # "None")
                 PROVE  /\ loop' \in Loops /\ loop'.dirty /\ loop'.status = loop'.page
                        /\ loop'.window = loop.window /\ loop'.count = loop.count
                        /\ ui' \in Uis /\ Preview(loop', ui') /\ saver' = Amoled!Reset(loop.page)
    <2>1. CASE (Amoled!Blocked /\ loop.open) \/ (~Amoled!Blocked /\ a # "None")
      <3>1. /\ loop' \in Loops /\ loop'.dirty /\ loop'.status = loop'.page
            /\ loop'.window = loop.window /\ loop'.count = loop.count
            /\ ui' \in Uis /\ Preview(loop', ui') /\ saver' = Amoled!Reset(loop.page)
        BY <1>5, <2>1
      <3>2. Failed(loop') /\ Drawn(loop', ui')
        BY <3>1 DEF Failed, Drawn, TouchInv
      <3>3. Amoled!TypeOK'
        BY <1>0, <1>3, <3>1
           DEF Amoled!TakeSettings, Amoled!TypeOK, Points, Loops, Uis, SessionPhases
      <3> QED BY <1>0, <3>1, <3>2, <3>3, TurnKept
    <2>2. CASE ~((Amoled!Blocked /\ loop.open) \/ (~Amoled!Blocked /\ a # "None"))
      <3>1. ui' = u /\ loop' = loop /\ saver' = saver
        BY <2>2 DEF Amoled!TakeSettings, u
      <3>2. Amoled!TypeOK'
        BY <1>0, <1>2, <3>1 DEF Amoled!TakeSettings, Amoled!TypeOK, Points, Uis
      <3>3. Drawn(loop', ui')
        BY <1>2, <3>1, DrawnKept DEF TouchInv, Quiet
      <3>4. Failed(loop') /\ Preview(loop', ui')
        BY <1>4, <3>1 DEF TouchInv
      <3> QED BY <1>0, <1>1, <3>1, <3>2, <3>3, <3>4, TurnKept
    <2> QED BY <2>1, <2>2
  <1>6. CASE Amoled!Blocked /\ loop.open
    <2> DEFINE m == Amoled!Closed(loop)
    <2>1. loop' = m /\ Amoled!UndoesPreview(u, loop) /\ saver' = Amoled!Reset(loop.page)
      BY <1>6 DEF Amoled!TakeSettings, u
    <2>2. m \in Loops /\ m.dirty /\ m.page = loop.page /\ m.status = loop.status
          /\ m.window = loop.window /\ m.count = loop.count
      BY <1>1, ClosedFacts
    <2>3. ui' \in Uis /\ Preview(m, ui')
      BY <1>1, <1>2, <1>4, <2>1, UndoneFacts
    <2> HIDE DEF m
    <2> QED BY <1>1, <2>1, <2>2, <2>3
  <1>7. CASE ~Amoled!Blocked /\ a # "None"
    <2>1. PICK written \in BOOLEAN : Amoled!Tries(u, Amoled!Chosen(loop, a, written))
      BY <1>7 DEF Amoled!TakeSettings, u
    <2>2. saver' = Amoled!Reset(loop.page)
      BY <1>7 DEF Amoled!TakeSettings
    <2> DEFINE l == Amoled!Chosen(loop, a, written)
               m == Amoled!TakenBack(l, loop)
               w == Amoled!ApplySettings(u, l.set, l.open)
    <2>3. a \in Amoled!Actions /\ (~loop.open => loop.set = loop.saved)
      BY <1>1, <1>4, <1>7 DEF Preview
    <2>4. /\ l \in Loops /\ (~l.open => l.set = l.saved) /\ (~loop.open => l.saved = loop.saved)
          /\ l.dirty /\ l.page = loop.page /\ l.status = loop.status /\ l.window = loop.window
          /\ l.count = loop.count
      <3> HIDE DEF a
      <3> QED BY <1>1, <2>3, ChosenFacts
    <2>5. (loop' = l /\ ui' = w) \/ (loop' = m /\ ui' = u)
      BY <2>1 DEF Amoled!Tries
    <2> HIDE DEF l, a
    <2>6. /\ m \in Loops /\ m.set = loop.set /\ m.open = loop.open /\ m.saved = l.saved /\ m.dirty
          /\ m.page = loop.page /\ m.status = loop.status /\ m.window = loop.window
          /\ m.count = loop.count
      BY <1>1, <2>4, TakenBackFacts
    <2>7. l.set \in Amoled!Settings /\ l.open \in BOOLEAN
      BY <2>4, LoopBooleans
    <2>8. w \in Uis /\ w.visible = l.open /\ w.brightness = l.set.brightness /\ ~w.refused
      BY <1>2, <2>7, AppliedFacts
    <2> HIDE DEF m, w
    <2>9. Preview(l, w)
      BY <2>4, <2>8 DEF Preview
    <2>10. Preview(m, u)
      BY <1>4, <2>4, <2>6 DEF Preview
    <2>11. CASE loop' = l /\ ui' = w
      BY <1>1, <2>2, <2>4, <2>8, <2>9, <2>11
    <2>12. CASE loop' = m /\ ui' = u
      BY <1>1, <1>2, <2>2, <2>6, <2>10, <2>12
    <2> QED BY <2>5, <2>11, <2>12
  <1> QED BY <1>5, <1>6, <1>7

\* A requested page is shown and reported.
LEMMA TakePageKept ==
    ASSUME Amoled!ConstantsOK, TouchInv, Amoled!TakePage
    PROVE  TouchInv'
  <1> DEFINE a == [loop EXCEPT !.page = ui.requested]
             b == [a EXCEPT !.status = ui.requested]
             c == [b EXCEPT !.dirty = TRUE]
  <1>0. Amoled!TypeOK /\ Sessioned(ota) /\ Sessioned(ota') /\ pc' = "events"
    BY DEF TouchInv, Amoled!TakePage
  <1>1. loop \in Loops /\ ui \in Uis /\ ui.requested \in Amoled!Pages /\ loop.status = loop.page
    BY <1>0, TouchTypes DEF TouchInv, Uis
  <1>2. loop' = c \/ loop' = loop
    BY DEF Amoled!TakePage
  <1>3. c \in Loops
    <2>1. a \in Loops
      BY <1>1, LoopTyped
    <2>2. b \in Loops
      BY <1>1, <2>1, LoopTyped
    <2> QED BY <2>2, LoopTyped
  <1>4. /\ c.page = c.status /\ c.dirty /\ c.open = loop.open /\ c.set = loop.set
        /\ c.saved = loop.saved /\ c.window = loop.window /\ c.count = loop.count
    BY <1>1 DEF Loops
  <1> HIDE DEF c
  <1>5. /\ loop' \in Loops /\ loop'.page = loop'.status /\ loop'.open = loop.open
        /\ loop'.set = loop.set /\ loop'.saved = loop.saved /\ loop'.window = loop.window
        /\ loop'.count = loop.count /\ Quiet(loop, loop')
    BY <1>1, <1>2, <1>3, <1>4 DEF Quiet
  <1>6. Amoled!TypeOK'
    BY <1>0, <1>5 DEF Amoled!TakePage, Amoled!TypeOK, Points, Loops, SessionPhases
  <1>7. ui' = ui
    BY DEF Amoled!TakePage
  <1>8. Preview(loop', ui') /\ Drawn(loop', ui') /\ Failed(loop')
    BY <1>5, <1>7, PreviewKept, DrawnKept DEF TouchInv, SameFront, Failed
  <1> QED BY <1>0, <1>5, <1>6, <1>8, TurnKept

\* Every event redraws; the remote ones close the settings page.
LEMMA ReceiveEventKept ==
    ASSUME Amoled!ConstantsOK, TouchInv, Amoled!ReceiveEvent
    PROVE  TouchInv'
  <1>0. Amoled!TypeOK /\ Sessioned(ota) /\ Sessioned(ota') /\ pc' = "events"
    BY DEF TouchInv, Amoled!ReceiveEvent
  <1>1. /\ loop \in Loops /\ ui \in Uis /\ saver \in Amoled!Savers /\ loop.page \in Amoled!Pages
        /\ loop.status = loop.page /\ queue \in Seq(Told) /\ Len(queue) <= QueueLength
    BY <1>0, TouchTypes DEF TouchInv, Loops
  <1>2. queue' \in Seq(Told) /\ Len(queue') <= QueueLength /\ Head(queue) \in Told
    BY <1>1 DEF Amoled!ReceiveEvent, Amoled!ConstantsOK
  <1>3. SUFFICES /\ loop' \in Loops /\ loop'.status = loop'.page /\ loop'.dirty
                 /\ loop'.window = loop.window /\ loop'.count = loop.count
                 /\ ui' \in Uis /\ Preview(loop', ui') /\ saver' \in Amoled!Savers
    <2>1. Failed(loop') /\ Drawn(loop', ui')
      BY <1>3 DEF TouchInv, Failed, Drawn
    <2>2. Amoled!TypeOK'
      BY <1>0, <1>2, <1>3 DEF Amoled!ReceiveEvent, Amoled!TypeOK, Points, Loops, Uis, SessionPhases, Told
    <2> QED BY <1>0, <1>3, <2>1, <2>2, TurnKept
  <1>4. CASE Amoled!OnScreenToggle
    <2> DEFINE r == Amoled!Restored(loop)
    <2>1. /\ r \in Loops /\ r.saved = loop.saved /\ r.page = r.status
          /\ r.window = loop.window /\ r.count = loop.count
      BY <1>1, RestoredFacts
    <2>2. loop' = Amoled!Closed(r) /\ Amoled!UndoesPreview(ui, loop)
          /\ saver' = Amoled!NoteRemoteToggle(saver, loop.page)
      BY <1>4 DEF Amoled!OnScreenToggle
    <2> HIDE DEF r
    <2> DEFINE m == Amoled!Closed(r)
    <2>3. /\ m \in Loops /\ m.dirty /\ m.page = r.page /\ m.status = r.status
          /\ m.window = r.window /\ m.count = r.count
      BY <2>1, ClosedFacts
    <2>4. ui' \in Uis /\ Preview(m, ui')
      BY <1>1, <2>1, <2>2, UndoneFacts DEF TouchInv
    <2>5. saver' \in Amoled!Savers
      BY <1>1, <2>2, SaverNotes
    <2> HIDE DEF m
    <2>6. loop' = m
      BY <2>2 DEF m
    <2> QED BY <2>1, <2>3, <2>4, <2>5, <2>6
  <1>5. ASSUME NEW previous \in BOOLEAN, Amoled!OnScreenPage(previous)
        PROVE  /\ loop' \in Loops /\ loop'.status = loop'.page /\ loop'.dirty
               /\ loop'.window = loop.window /\ loop'.count = loop.count
               /\ ui' \in Uis /\ Preview(loop', ui') /\ saver' \in Amoled!Savers
    <2>1. CASE Amoled!Blocked
      <3> DEFINE d == [loop EXCEPT !.dirty = TRUE]
      <3>1. loop' = d /\ ui' = ui /\ saver' = saver
        BY <1>5, <2>1 DEF Amoled!OnScreenPage
      <3>2. d \in Loops
        BY <1>1, LoopTyped
      <3>3. /\ d.dirty /\ d.page = loop.page /\ d.status = loop.status /\ d.open = loop.open
            /\ d.set = loop.set /\ d.saved = loop.saved /\ d.window = loop.window
            /\ d.count = loop.count
        BY <1>1 DEF Loops
      <3> HIDE DEF d
      <3>4. Preview(loop', ui')
        BY <3>1, <3>3, PreviewKept DEF TouchInv, SameFront
      <3> QED BY <1>1, <3>1, <3>2, <3>3, <3>4
    <2>2. CASE ~Amoled!Blocked
      <3> DEFINE from == IF saver.active THEN saver.restore ELSE loop.page
                 p == Amoled!PageAfterSwipe(from, previous)
                 a == [loop EXCEPT !.page = p]
                 b == [a EXCEPT !.status = p]
                 w == [ui EXCEPT !.requested = p]
                 m == Amoled!Closed(b)
      <3>1. loop' = m /\ Amoled!UndoesPreview(w, loop) /\ saver' = Amoled!Reset(p)
        BY <1>5, <2>2 DEF Amoled!OnScreenPage
      <3>2. p \in Amoled!Pages
        <4>1. from \in Amoled!Pages
          BY <1>1 DEF Amoled!Savers
        <4> HIDE DEF from
        <4> QED BY <4>1 DEF Amoled!PageAfterSwipe, Amoled!Pages
      <3> HIDE DEF p
      <3>3. a \in Loops
        BY <1>1, <3>2, LoopTyped
      <3>4. b \in Loops
        BY <3>2, <3>3, LoopTyped
      <3>5. /\ b.page = b.status /\ b.saved = loop.saved /\ b.window = loop.window
            /\ b.count = loop.count
        BY <1>1 DEF Loops
      <3> HIDE DEF b
      <3>6. w \in Uis /\ SameFront(w, ui)
        BY <1>1, <3>2, LatchFacts
      <3> HIDE DEF w
      <3>7. /\ m \in Loops /\ m.dirty /\ m.page = b.page /\ m.status = b.status
            /\ m.window = b.window /\ m.count = b.count
        BY <3>4, ClosedFacts
      <3>8. ui' \in Uis /\ Preview(m, ui')
        <4>1. Preview(loop, w)
          BY <3>6, PreviewKept DEF TouchInv
        <4> QED BY <1>1, <3>1, <3>4, <3>5, <3>6, <4>1, UndoneFacts
      <3>9. saver' \in Amoled!Savers
        BY <3>1, <3>2, ResetTyped
      <3> HIDE DEF m
      <3> QED BY <3>1, <3>5, <3>7, <3>8, <3>9
    <2> QED BY <2>1, <2>2
  <1>6. ASSUME NEW passkey \in BOOLEAN, Amoled!OnLink(passkey)
        PROVE  /\ loop' \in Loops /\ loop'.status = loop'.page /\ loop'.dirty
               /\ loop'.window = loop.window /\ loop'.count = loop.count
               /\ ui' \in Uis /\ Preview(loop', ui') /\ saver' \in Amoled!Savers
    <2> DEFINE k == [loop EXCEPT !.passkey = passkey]
               d == [k EXCEPT !.dirty = TRUE]
    <2>1. loop' = d /\ ui' = ui /\ saver' = saver
      BY <1>6 DEF Amoled!OnLink
    <2>2. k \in Loops
      BY <1>1, LoopTyped
    <2>3. d \in Loops
      BY <2>2, LoopTyped
    <2>4. /\ d.dirty /\ d.page = loop.page /\ d.status = loop.status /\ d.open = loop.open
          /\ d.set = loop.set /\ d.saved = loop.saved /\ d.window = loop.window
          /\ d.count = loop.count
      BY <1>1 DEF Loops
    <2> HIDE DEF d
    <2>5. Preview(loop', ui')
      BY <2>1, <2>4, PreviewKept DEF TouchInv, SameFront
    <2> QED BY <1>1, <2>1, <2>3, <2>4, <2>5
  <1>7. CASE Head(queue) = "toggle"
    BY <1>4, <1>7 DEF Amoled!ReceiveEvent
  <1>8. CASE Head(queue) = "next"
    BY <1>5, <1>8 DEF Amoled!ReceiveEvent
  <1>9. CASE Head(queue) = "previous"
    BY <1>5, <1>9 DEF Amoled!ReceiveEvent
  <1>10. CASE Head(queue) = "pairing"
    BY <1>6, <1>10 DEF Amoled!ReceiveEvent
  <1>11. CASE Head(queue) = "paired"
    BY <1>6, <1>11 DEF Amoled!ReceiveEvent
  <1> QED BY <1>2, <1>7, <1>8, <1>9, <1>10, <1>11 DEF Told

\* The steps of a turn that find nothing to do.
LEMMA IdleTurnKept ==
    ASSUME Amoled!ConstantsOK, TouchInv, Amoled!EventsDone \/ Amoled!Sleep
    PROVE  TouchInv'
  <1>1. /\ UNCHANGED <<saver, loop, queue, ui, finger, ota, clock>>
        /\ pc' \in {"sensors", "ota"}
    BY DEF Amoled!EventsDone, Amoled!Sleep
  <1>2. Amoled!TypeOK'
    BY <1>1 DEF TouchInv, Amoled!TypeOK
  <1>3. Drawn(loop', ui') /\ Preview(loop', ui') /\ loop'.status = loop'.page
        /\ Sessioned(ota') /\ Failed(loop')
    BY <1>1 DEF TouchInv
  <1> QED BY <1>1, <1>2, <1>3, TurnKept

\* The power key and the motion sensor lock or wake, and redraw.
LEMMA SensorsKept ==
    ASSUME Amoled!ConstantsOK, TouchInv, Amoled!Sensors
    PROVE  TouchInv'
  <1> DEFINE r == Amoled!Restored(loop)
             c == [r EXCEPT !.dirty = TRUE]
             d == [loop EXCEPT !.dirty = TRUE]
  <1>0. Amoled!TypeOK /\ Sessioned(ota) /\ Sessioned(ota') /\ pc' = "update" /\ ui' = ui
    BY DEF TouchInv, Amoled!Sensors
  <1>1. /\ loop \in Loops /\ saver \in Amoled!Savers /\ loop.page \in Amoled!Pages
        /\ loop.status = loop.page
    BY <1>0, TouchTypes DEF TouchInv, Loops
  <1>2. /\ loop' \in {c, d, loop}
        /\ saver' \in {Amoled!NotePowerKey(saver, loop.page), Amoled!NoteShake(saver), saver}
    BY DEF Amoled!Sensors
  <1>3. saver' \in Amoled!Savers
    BY <1>1, <1>2, SaverNotes
  <1>4. /\ d \in Loops /\ d.dirty /\ d.page = loop.page /\ d.status = loop.status
        /\ d.open = loop.open /\ d.set = loop.set /\ d.saved = loop.saved
        /\ d.window = loop.window /\ d.count = loop.count
    <2>1. d \in Loops
      BY <1>1, LoopTyped
    <2> QED BY <1>1, <2>1 DEF Loops
  <1>5. /\ r \in Loops /\ r.page = r.status
        /\ r.open = loop.open /\ r.set = loop.set /\ r.saved = loop.saved
        /\ r.window = loop.window /\ r.count = loop.count
    BY <1>1, RestoredFacts
  <1> HIDE DEF d, r
  <1>6. /\ c \in Loops /\ c.dirty /\ c.page = c.status /\ c.open = loop.open
        /\ c.set = loop.set /\ c.saved = loop.saved
        /\ c.window = loop.window /\ c.count = loop.count
    <2>1. c \in Loops
      BY <1>5, LoopTyped
    <2> QED BY <1>5, <2>1 DEF Loops
  <1> HIDE DEF c
  <1>7. /\ loop' \in Loops /\ loop'.page = loop'.status /\ loop'.open = loop.open
        /\ loop'.set = loop.set /\ loop'.saved = loop.saved /\ loop'.window = loop.window
        /\ loop'.count = loop.count /\ Quiet(loop, loop')
    BY <1>1, <1>2, <1>4, <1>6 DEF Quiet
  <1>8. Amoled!TypeOK'
    BY <1>0, <1>3, <1>7 DEF Amoled!Sensors, Amoled!TypeOK, Points, Loops, SessionPhases
  <1>9. Preview(loop', ui') /\ Drawn(loop', ui') /\ Failed(loop')
    BY <1>0, <1>7, PreviewKept, DrawnKept DEF TouchInv, SameFront, Failed
  <1> QED BY <1>0, <1>7, <1>8, <1>9, TurnKept

\* update() ends the clock for a prompt, and the session is noted.
LEMMA UpdateSaverKept ==
    ASSUME Amoled!ConstantsOK, TouchInv, Amoled!UpdateSaver
    PROVE  TouchInv'
  <1> DEFINE now == <<loop.phase, loop.offer>>
             d == loop.dirty \/ now # loop.last
             a == [loop EXCEPT !.last = now]
             c == [a EXCEPT !.dirty = d]
             awake == loop.passkey \/ loop.phase # "Idle" \/ Amoled!Failure \/ loop.open
  <1>0. Amoled!TypeOK /\ Sessioned(ota) /\ Sessioned(ota') /\ pc' = "render" /\ ui' = ui
    BY DEF TouchInv, Amoled!UpdateSaver
  <1>1. /\ loop \in Loops /\ saver \in Amoled!Savers /\ loop.page \in Amoled!Pages
        /\ loop.status = loop.page /\ now \in SessionPhases \X Amoled!Offers
        /\ loop.dirty \in BOOLEAN /\ loop.passkey \in BOOLEAN /\ loop.open \in BOOLEAN
    BY <1>0, TouchTypes DEF TouchInv, Loops
  <1>2. loop' = c
    BY <1>1 DEF Amoled!UpdateSaver, Amoled!NotesPhase
  <1>3. c \in Loops
    <2> HIDE DEF now
    <2>1. a \in Loops
      BY <1>1, LoopTyped
    <2>2. d \in BOOLEAN
      BY <1>1
    <2> HIDE DEF d, a
    <2> QED BY <2>1, <2>2, LoopTyped
  <1>4. /\ c.dirty = d /\ c.last = now /\ c.key = loop.key /\ c.passkey = loop.passkey
        /\ c.window = loop.window /\ c.count = loop.count /\ c.open = loop.open
        /\ c.set = loop.set /\ c.saved = loop.saved /\ c.page = loop.page
        /\ c.status = loop.status /\ c.phase = loop.phase /\ c.offer = loop.offer
    BY <1>1 DEF Loops
  <1> HIDE DEF c
  <1>5. Quiet(loop, c)
    <2>1. CASE d
      BY <1>4, <2>1 DEF Quiet
    <2>2. CASE ~d
      <3>1. loop.dirty = d /\ loop.last = now
        BY <1>1, <2>2
      <3> HIDE DEF d, now
      <3> QED BY <1>4, <3>1 DEF Quiet
    <2> QED BY <2>1, <2>2
  <1>6. Preview(loop', ui') /\ Drawn(loop', ui') /\ Failed(loop')
    <2> HIDE DEF d, now
    <2> QED BY <1>0, <1>2, <1>4, <1>5, PreviewKept, DrawnKept DEF TouchInv, SameFront, Failed
  <1>7. saver' = Amoled!Update(saver, loop.page, loop.set.delay, awake) /\ awake \in BOOLEAN
    BY DEF Amoled!UpdateSaver
  <1>8. saver' \in Amoled!Savers /\ (awake => ~saver'.active)
    <2> HIDE DEF awake
    <2> QED BY <1>1, <1>7, UpdateFacts
  <1>9. Amoled!TypeOK'
    BY <1>0, <1>2, <1>3, <1>8 DEF Amoled!UpdateSaver, Amoled!TypeOK, Points, Loops, SessionPhases
  <1>10. Noted' /\ Rested'
    BY <1>0, <1>2, <1>4 DEF Noted, Rested
  <1>11. Awake'
    BY <1>2, <1>4, <1>8 DEF Awake, Amoled!Failure
  <1>12. loop'.status = loop'.page
    BY <1>1, <1>2, <1>4
  <1> QED BY <1>0, <1>6, <1>9, <1>10, <1>11, <1>12 DEF TouchInv

\* render() draws what the loop's state calls for, or it is drawn already.
LEMMA RenderKept ==
    ASSUME Amoled!ConstantsOK, TouchInv, Amoled!Render
    PROVE  TouchInv'
  <1> DEFINE k == [loop EXCEPT !.key = Amoled!Key]
             d == [k EXCEPT !.dirty = FALSE]
             c == [d EXCEPT !.second = FALSE]
             e == [loop EXCEPT !.second = FALSE]
             now == <<loop.phase, loop.offer>>
  <1>0. /\ Amoled!TypeOK /\ Sessioned(ota) /\ Sessioned(ota') /\ pc = "render" /\ pc' = "sleep"
        /\ saver' = saver /\ loop.last = now
    BY DEF TouchInv, Amoled!Render, Noted
  <1>1. /\ loop \in Loops /\ ui \in Uis /\ saver \in Amoled!Savers /\ loop.status = loop.page
    BY <1>0, TouchTypes DEF TouchInv
  <1>2. Amoled!Key \in Amoled!Pages \X BOOLEAN \X BOOLEAN
    BY <1>1, LoopBooleans DEF Amoled!Key, Amoled!Consumes, Amoled!Savers
  <1>3. /\ c \in Loops /\ ~c.dirty /\ c.key = Amoled!Key /\ c.last = loop.last
        /\ c.passkey = loop.passkey /\ c.window = loop.window /\ c.count = loop.count
        /\ c.open = loop.open /\ c.set = loop.set /\ c.saved = loop.saved
        /\ c.page = loop.page /\ c.status = loop.status /\ c.phase = loop.phase
        /\ c.offer = loop.offer
    <2>1. k \in Loops
      BY <1>1, <1>2, LoopTyped
    <2>2. d \in Loops
      BY <2>1, LoopTyped
    <2>3. c \in Loops
      BY <2>2, LoopTyped
    <2> QED BY <1>1, <2>3 DEF Loops
  <1>4. /\ e \in Loops /\ e.dirty = loop.dirty /\ e.key = loop.key /\ e.last = loop.last
        /\ e.passkey = loop.passkey /\ e.window = loop.window /\ e.count = loop.count
        /\ e.open = loop.open /\ e.set = loop.set /\ e.saved = loop.saved
        /\ e.page = loop.page /\ e.status = loop.status /\ e.phase = loop.phase
        /\ e.offer = loop.offer
    <2>1. e \in Loops
      BY <1>1, LoopTyped
    <2> QED BY <1>1, <2>1 DEF Loops
  <1>5. Amoled!Key[2] = saver.active
    BY DEF Amoled!Key
  <1>6. /\ loop' \in Loops /\ ui' \in Uis /\ ~loop'.dirty /\ loop'.key[2] = saver.active
        /\ loop'.last = now /\ loop'.phase = loop.phase /\ loop'.offer = loop.offer
        /\ loop'.passkey = loop.passkey /\ loop'.window = loop.window
        /\ loop'.count = loop.count /\ loop'.open = loop.open /\ loop'.set = loop.set
        /\ loop'.saved = loop.saved /\ loop'.status = loop'.page
        /\ ui'.visible = ui.visible /\ ui'.refused = ui.refused
        /\ ui'.brightness = ui.brightness /\ Fits(loop', ui')
    <2>1. CASE Amoled!Renders
      <3> DEFINE w == Amoled!Rendered(ui, ~saver.active /\ Amoled!TouchAllowed(saver), saver.active,
                               loop.passkey, loop.phase, loop.offer, Amoled!Failure)
                 input == (~saver.active /\ Amoled!TouchAllowed(saver)) /\ ~loop.passkey
                 shown == IF loop.phase = "Confirming" THEN loop.offer ELSE 0
                 layer == Amoled!LayerFor(saver.active, loop.passkey, loop.phase # "Idle" \/ Amoled!Failure,
                                   ui.visible)
                 u1 == [ui EXCEPT !.input = input]
                 u2 == [u1 EXCEPT !.active = (loop.phase # "Idle")]
                 u3 == [u2 EXCEPT !.confirming = (loop.phase = "Confirming")]
                 u4 == [u3 EXCEPT !.shown = shown]
                 u5 == [u4 EXCEPT !.layer = layer]
      <3>1. loop' = c /\ ui' = w
        BY <2>1 DEF Amoled!Render
      <3>2. w = u5
        BY DEF Amoled!Rendered
      <3>3. input \in BOOLEAN /\ shown \in Amoled!Offers /\ layer \in Amoled!Layers
        BY <1>1, LoopBooleans DEF Amoled!Offers, Amoled!ConstantsOK, Amoled!LayerFor, Amoled!Layers
      <3>4. /\ u5.visible = ui.visible /\ u5.refused = ui.refused
            /\ u5.brightness = ui.brightness /\ u5.shown = shown /\ u5.layer = layer
        <4> HIDE DEF input, shown, layer
        <4> QED BY <1>1 DEF Uis
      <3>5. u5 \in Uis
        <4> HIDE DEF input, shown, layer
        <4>1. u1 \in Uis
          BY <1>1, <3>3, UiTyped
        <4>2. u2 \in Uis
          BY <4>1, UiTyped
        <4>3. u3 \in Uis
          BY <4>2, UiTyped
        <4>4. u4 \in Uis
          BY <3>3, <4>3, UiTyped
        <4> QED BY <3>3, <4>4, UiTyped
      <3> HIDE DEF c, u5, w
      <3>6. ui.visible = (loop.open \/ ui.refused)
        BY <1>1, LoopBooleans DEF TouchInv, Preview, Uis
      <3>7. c.last[1] = loop.phase /\ c.last[2] = loop.offer
        BY <1>0, <1>3
      <3>8. layer = Amoled!LayerFor(c.key[2], c.passkey, c.last[1] # "Idle" \/ c.window > 0,
                                      c.open \/ ui.refused)
        BY <1>3, <1>5, <3>6, <3>7 DEF Amoled!Failure
      <3>9. loop.phase # "Idle" => layer = "ota"
        BY DEF Amoled!LayerFor
      <3>10. loop.phase = "Confirming" => shown = loop.offer
        OBVIOUS
      <3> HIDE DEF layer, shown
      <3>11. Fits(c, u5)
        BY <3>4, <3>7, <3>8, <3>9, <3>10 DEF Fits
      <3> QED BY <1>0, <1>1, <1>3, <1>5, <3>1, <3>2, <3>4, <3>5, <3>11
    <2>2. CASE ~Amoled!Renders
      <3>1. loop' = e /\ ui' = ui
        BY <2>2 DEF Amoled!Render
      <3>2. ~loop.dirty /\ loop.key = Amoled!Key
        BY <2>2 DEF Amoled!Renders
      <3> HIDE DEF e
      <3>3. Fits(e, ui)
        BY <1>4, <3>2 DEF TouchInv, Drawn, Fits
      <3> QED BY <1>0, <1>1, <1>4, <1>5, <3>1, <3>2, <3>3
    <2> QED BY <2>1, <2>2
  <1>7. Amoled!TypeOK'
    BY <1>0, <1>6 DEF Amoled!Render, Amoled!TypeOK, Points, Loops, Uis, SessionPhases
  <1>8. Preview(loop', ui')
    BY <1>6 DEF TouchInv, Preview
  <1>9. Drawn(loop', ui') /\ Noted' /\ Rested' /\ Failed(loop')
    BY <1>0, <1>6 DEF Drawn, Noted, Rested, Failed, TouchInv
  <1>10. Awake'
    BY <1>0, <1>6 DEF Awake, TouchInv, Amoled!Failure
  <1> QED BY <1>0, <1>6, <1>7, <1>8, <1>9, <1>10 DEF TouchInv

\* Time passes: a failure's window may close, which draws nothing.
LEMMA TickKept ==
    ASSUME Amoled!ConstantsOK, TouchInv, Amoled!Tick
    PROVE  TouchInv'
  <1> DEFINE n == Amoled!Elapsed(loop.window)
             s == loop.second \/ clock' = 0
             a == [loop EXCEPT !.window = n]
             c == [a EXCEPT !.second = s]
  <1>0. /\ Amoled!TypeOK /\ Sessioned(ota) /\ Sessioned(ota') /\ pc = "sleep" /\ pc' = "ota"
        /\ ui' = ui /\ ~loop.dirty
    BY DEF TouchInv, Amoled!Tick, Rested
  <1>1. /\ loop \in Loops /\ ui \in Uis /\ saver \in Amoled!Savers /\ loop.status = loop.page
        /\ loop.second \in BOOLEAN /\ loop.window \in 0..FailureTicks /\ finger \in Fingers
        /\ clock \in 0..SecondTicks - 1
    BY <1>0, TouchTypes DEF TouchInv, Loops
  <1>2. n \in 0..FailureTicks /\ s \in BOOLEAN /\ (loop.window = 0 => n = 0)
        /\ (n > 0 => loop.window > 0)
    BY <1>1 DEF Amoled!Elapsed, Amoled!ConstantsOK
  <1>3. loop' = c
    BY DEF Amoled!Tick
  <1> HIDE DEF n, s
  <1>4. /\ c \in Loops /\ c.dirty = loop.dirty /\ c.key = loop.key /\ c.last = loop.last
        /\ c.passkey = loop.passkey /\ c.window = n /\ c.count = loop.count
        /\ c.open = loop.open /\ c.set = loop.set /\ c.saved = loop.saved
        /\ c.page = loop.page /\ c.status = loop.status
    <2>1. a \in Loops
      BY <1>1, <1>2, LoopTyped
    <2>2. c \in Loops
      BY <1>2, <2>1, LoopTyped
    <2> QED BY <1>1, <2>2 DEF Loops
  <1> HIDE DEF c
  <1>5. Fits(loop, ui)
    BY <1>0 DEF TouchInv, Drawn
  <1>6. Fits(c, ui)
    <2>1. CASE (n > 0) = (loop.window > 0)
      BY <1>4, <1>5, <2>1 DEF Fits
    <2>2. CASE ~(n > 0) /\ loop.window > 0
      <3>1. Amoled!LayerFor(loop.key[2], loop.passkey, loop.last[1] # "Idle" \/ loop.window > 0,
                     loop.open \/ ui.refused) = "ota"
        BY <2>2 DEF Amoled!LayerFor
      <3>2. loop.count # 0
        BY <2>2 DEF TouchInv, Failed
      <3> QED BY <1>4, <1>5, <3>1, <3>2 DEF Fits
    <2> QED BY <1>2, <2>1, <2>2
  <1>7. Drawn(loop', ui') /\ Failed(loop') /\ loop'.status = loop'.page
    BY <1>0, <1>1, <1>2, <1>3, <1>4, <1>6 DEF Drawn, Failed, TouchInv
  <1>8. Preview(loop', ui')
    BY <1>0, <1>3, <1>4, PreviewKept DEF TouchInv, SameFront
  <1>9. finger' \in Fingers
    <2>1. CASE finger.on = "none" \/ finger.age = LongPress
      BY <1>1, <2>1 DEF Amoled!Tick
    <2>2. CASE ~(finger.on = "none" \/ finger.age = LongPress)
      <3>1. finger' = [finger EXCEPT !.age = finger.age + 1]
        BY <1>1, <2>2 DEF Amoled!Tick
      <3>2. finger.age + 1 \in 0..LongPress
        BY <1>1, <2>2 DEF Fingers, Amoled!ConstantsOK
      <3> QED BY <1>1, <3>1, <3>2 DEF Fingers
    <2> QED BY <2>1, <2>2
  <1>10. clock' \in 0..SecondTicks - 1
    BY <1>1 DEF Amoled!Tick, Amoled!ConstantsOK
  <1>11. saver' \in Amoled!Savers
    <2>1. loop.page \in Amoled!Pages
      BY <1>1, LoopBooleans
    <2> QED BY <1>1, <2>1, SaverNotes DEF Amoled!Tick
  <1>12. Amoled!TypeOK'
    BY <1>0, <1>3, <1>4, <1>9, <1>10, <1>11
       DEF Amoled!Tick, Amoled!TypeOK, Points, Loops, SessionPhases, Fingers
  <1> QED BY <1>0, <1>7, <1>8, <1>12, TurnKept

-----------------------------------------------------------------------------

\* The state app_main() starts from.
LEMMA TouchInitial ==
    ASSUME Amoled!ConstantsOK, Amoled!Init
    PROVE  TouchInv
  <1>1. 0 \in 0..FailureTicks /\ 0 \in 0..LongPress /\ 0 \in 0..SecondTicks - 1
        /\ 0 \in 0..MaxOffers /\ 0 \in Amoled!Offers
    BY DEF Amoled!ConstantsOK, Amoled!Offers
  <1>2. Amoled!Default \in Amoled!Settings
    BY DEF Amoled!Default, Amoled!Settings, Amoled!ConstantsOK
  <1>3. loop \in Loops
    BY <1>1, <1>2 DEF Amoled!Init, Loops, Amoled!Pages, SessionPhases
  <1>4. ui \in Uis
    BY <1>1 DEF Amoled!Init, Uis, Amoled!Pages, Amoled!Actions, Amoled!Layers, Amoled!ConstantsOK
  <1>5. saver \in Amoled!Savers
    BY ResetTyped DEF Amoled!Init, Amoled!Pages
  <1>6. finger \in Fingers /\ ota \in Sessions /\ clock \in 0..SecondTicks - 1
    BY <1>1 DEF Amoled!Init, Fingers, Sessions, SessionPhases
  <1>7. queue \in Seq(Told) /\ Len(queue) <= QueueLength /\ pc \in Points
    BY DEF Amoled!Init, Points, Amoled!ConstantsOK
  <1>8. Amoled!TypeOK
    BY <1>3, <1>4, <1>5, <1>6, <1>7, TouchTypes
  <1>9. Preview(loop, ui) /\ loop.status = loop.page /\ Drawn(loop, ui) /\ Failed(loop)
    BY DEF Amoled!Init, Preview, Amoled!Default, Drawn, Failed
  <1>10. Noted /\ Rested /\ Awake /\ Sessioned(ota)
    BY DEF Amoled!Init, Noted, Rested, Awake, Sessioned
  <1> QED BY <1>8, <1>9, <1>10 DEF TouchInv

\* The inductive invariant of the AMOLED panel.
THEOREM TouchInvariant ==
    ASSUME Amoled!ConstantsOK
    PROVE  Amoled!Spec => []TouchInv
  <1>1. Amoled!Init => TouchInv
    BY TouchInitial
  <1>2. TouchInv /\ [Amoled!Next]_(Amoled!vars) => TouchInv'
    <2> SUFFICES ASSUME TouchInv, [Amoled!Next]_(Amoled!vars) PROVE TouchInv'
      OBVIOUS
    <2>1. CASE Amoled!Turn
      BY <2>1, TakeOtaKept, TakeTouchKept, TakeSettingsKept, TakePageKept, ReceiveEventKept,
         IdleTurnKept, SensorsKept, UpdateSaverKept, RenderKept, TickKept DEF Amoled!Turn
    <2>2. CASE Amoled!Press \/ Amoled!Release \/ Amoled!LongPressEvent
             \/ Amoled!Peer \/ Amoled!OtaOffer \/ Amoled!OtaFail
      BY <2>2, PressKept, ReleaseKept, LongPressKept, PeerKept, SessionKept
    <2>3. CASE UNCHANGED Amoled!vars
      <3>1. UNCHANGED <<pc, saver, loop, queue, ui, finger, ota, clock>>
        BY <2>3 DEF Amoled!vars
      <3>2. Amoled!TypeOK'
        BY <3>1 DEF TouchInv, Amoled!TypeOK
      <3> QED BY <3>1, <3>2, AloneKept DEF TouchInv, SameFront, Sessioned
    <2> QED BY <2>1, <2>2, <2>3 DEF Amoled!Next
  <1> QED BY <1>1, <1>2, PTL DEF Amoled!Spec

\* The AMOLED's variables stay in their ranges.
THEOREM TouchTypeOK ==
    ASSUME Amoled!ConstantsOK
    PROVE  Amoled!Spec => []Amoled!TypeOK
  <1>1. TouchInv => Amoled!TypeOK
    BY DEF TouchInv
  <1> QED BY <1>1, TouchInvariant, PTL

\* The page the AMOLED reports to the Bridge is the page it is on.
THEOREM TouchStatusIsPage ==
    ASSUME Amoled!ConstantsOK
    PROVE  Amoled!Spec => []Amoled!StatusIsPage
  <1>1. TouchInv => Amoled!StatusIsPage
    BY DEF TouchInv, Amoled!StatusIsPage
  <1> QED BY <1>1, TouchInvariant, PTL

\* Whatever locks the AMOLED, a pairing code and an update wake it (update()).
THEOREM TouchAwakeWhenNeeded ==
    ASSUME Amoled!ConstantsOK
    PROVE  Amoled!Spec => []Amoled!AwakeWhenNeeded
  <1>1. TouchInv => Amoled!AwakeWhenNeeded
    BY DEF TouchInv, Amoled!AwakeWhenNeeded, Awake
  <1> QED BY <1>1, TouchInvariant, PTL

\* Whatever closes the settings page leaves nothing of its preview, in the
\* loop or on the panel; a closing whose brightness the panel refuses leaves
\* all of it on the panel, none in the loop (apply_settings()).
THEOREM TouchPreviewIsUndone ==
    ASSUME Amoled!ConstantsOK
    PROVE  Amoled!Spec => []Amoled!PreviewIsUndone
  <1>1. TouchInv => Amoled!PreviewIsUndone
    <2> SUFFICES ASSUME TouchInv
                 PROVE  /\ ~loop.open => loop.set = loop.saved
                        /\ IF ui.refused
                           THEN ~loop.open /\ ui.visible /\ ui.brightness # loop.saved.brightness
                           ELSE ui.visible = loop.open /\ ui.brightness = loop.set.brightness
      BY DEF Amoled!PreviewIsUndone
    <2> QED BY DEF TouchInv, Preview
  <1> QED BY <1>1, TouchInvariant, PTL

\* An update under way is in front, with the version the session would start.
THEOREM TouchUpdateIsShown ==
    ASSUME Amoled!ConstantsOK
    PROVE  Amoled!Spec => []Amoled!UpdateIsShown
  <1>1. TouchInv => Amoled!UpdateIsShown
    <2> SUFFICES ASSUME TouchInv, pc = "sleep", loop.phase # "Idle"
                 PROVE  ui.layer = "ota" /\ (loop.phase = "Confirming" => ui.shown = loop.offer)
      BY DEF Amoled!UpdateIsShown
    <2>1. Fits(loop, ui) /\ loop.last = <<loop.phase, loop.offer>>
      BY DEF TouchInv, Rested, Drawn, Noted
    <2> QED BY <2>1 DEF Fits
  <1> QED BY <1>1, TouchInvariant, PTL

\* What the invariant says of the screen when the loop sleeps.
LEMMA ScreenFollows ==
    ASSUME TouchInv
    PROVE  Amoled!ScreenIsCurrent
  <1> SUFFICES ASSUME pc = "sleep"
               PROVE  \/ ui.layer = Amoled!LayerFor(saver.active, loop.passkey, Amoled!OtaVisible,
                                                     loop.open \/ ui.refused)
                      \/ ui.layer = "ota" /\ loop.count # 0
    BY DEF Amoled!ScreenIsCurrent
  <1>1. Fits(loop, ui) /\ loop.last = <<loop.phase, loop.offer>> /\ loop.key[2] = saver.active
    BY DEF TouchInv, Rested, Drawn, Noted
  <1>2. loop.last[1] = loop.phase
    BY <1>1
  <1> QED BY <1>1, <1>2 DEF Fits, Amoled!OtaVisible, Amoled!Failure

\* The AMOLED draws on demand, and misses no change but the end of a failed
\* update's window and a closing that the panel refuses.
THEOREM TouchScreenIsCurrent ==
    ASSUME Amoled!ConstantsOK
    PROVE  Amoled!Spec => []Amoled!ScreenIsCurrent
  <1>1. TouchInv => Amoled!ScreenIsCurrent
    BY ScreenFollows
  <1> QED BY <1>1, TouchInvariant, PTL

\* The screen is what the loop's state calls for, without exception.
ScreenIsExact ==
    pc = "sleep" =>
        ui.layer = Amoled!LayerFor(saver.active, loop.passkey, Amoled!OtaVisible, loop.open)

\* Those two are the only exceptions: a panel that obeys, and is offered no
\* update, shows at the end of every turn exactly what the loop calls for.
THEOREM TouchScreen ==
    ASSUME Amoled!ConstantsOK, "ota" \notin Inputs, "refuse" \notin Inputs
    PROVE  Amoled!Spec => []ScreenIsExact
  <1>1. TouchInv => ScreenIsExact
    <2> SUFFICES ASSUME TouchInv, pc = "sleep"
                 PROVE  ui.layer = Amoled!LayerFor(saver.active, loop.passkey, Amoled!OtaVisible,
                                                   loop.open)
      BY DEF ScreenIsExact
    <2>1. loop.count = 0 /\ ~ui.refused
      BY DEF TouchInv, Failed, Preview
    <2>2. ui.layer = Amoled!LayerFor(saver.active, loop.passkey, Amoled!OtaVisible,
                                     loop.open \/ ui.refused)
      BY <2>1, ScreenFollows DEF Amoled!ScreenIsCurrent
    <2>3. (loop.open \/ ui.refused) = loop.open
      BY <2>1, TouchTypes, LoopBooleans DEF TouchInv
    <2> QED BY <2>2, <2>3
  <1> QED BY <1>1, TouchInvariant, PTL

=============================================================================
