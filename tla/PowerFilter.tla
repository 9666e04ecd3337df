---------------------------- MODULE PowerFilter ----------------------------
(***************************************************************************)
(* The battery on a touch panel: the poll of the power source, the filter  *)
(* of what is shown (panel_state.cpp) and the word that is published for   *)
(* the OTA power gate (power_gate.hpp), which the Bluetooth task reads.    *)
(* Times are ages, in units of one poll period.                            *)
(***************************************************************************)
EXTENDS Integers, FiniteSetsExt

CONSTANTS
    Samples,      \* what a poll may find, see Sample
    Enter,        \* at which a band of 2, 3 and 4 segments is entered
    Margin,       \* kBandHysteresisPoints
    Holdover,     \* kInvalidHoldoverMs
    Confirm,      \* kFullConfirmMs
    Late          \* the longest time from a poll to the next

VARIABLES
    f,            \* PowerStateFilter
    view,         \* battery_view
    word,         \* what AtomicPowerSource holds
    seen,         \* what was true: since the last reading of a battery, its
    turn          \* percentage, since when it is full; and the last new band

vars == <<f, view, word, seen, turn>>

None == [available |-> FALSE, band |-> 0, charging |-> FALSE, full |-> FALSE, low |-> FALSE, percent |-> 0]

\* RawPowerSample.
Sample(x) ==
    /\ {x.valid, x.present, x.vbus, x.charging, x.done} \subseteq BOOLEAN
    /\ x.percent \in 0..255

\* Mistake: a band is left where it was entered.
NoMargin(band, percent) == {b \in {1} \cup DOMAIN Enter : b = 1 \/ percent >= Enter[b]}

\* The bands a percentage belongs to: an entered one is kept Margin longer.
Bands(band, percent) ==
    {b \in {1} \cup DOMAIN Enter :
        b = 1 \/ percent >= Enter[b] \/ (band >= b /\ percent >= Enter[b] - Margin)}

BandFor(band, percent) == Max(Bands(band, percent))

\* Mistake: a reading that failed keeps the candidate.
KeepsCandidate(g) == g

DropsCandidate(g) == [g EXCEPT !.candidate = -1]

\* Mistake: the last good reading is given as long as there is one.
AnyAge(g) == g.good >= 0

HoldsOver(g) == g.good \in 0..Holdover

Forgets(g) == [DropsCandidate(g) EXCEPT !.good = -1, !.band = 0, !.full = FALSE]

\* The new filter for a good reading of a battery.
Full(g, sample) ==
    IF ~(sample.vbus /\ sample.done) THEN [g EXCEPT !.full = FALSE, !.candidate = -1]
    ELSE IF g.full THEN [g EXCEPT !.candidate = -1]
    ELSE IF g.candidate = -1 THEN [g EXCEPT !.candidate = 0]
    ELSE IF g.candidate >= Confirm THEN [g EXCEPT !.full = TRUE, !.candidate = -1]
    ELSE g

ViewOf(g, sample) ==
    LET full == Full(g, sample).full
        charging == sample.vbus /\ (sample.charging \/ sample.done) IN
    [available |-> TRUE, band |-> IF full THEN 4 ELSE BandFor(g.band, sample.percent),
     charging |-> charging, full |-> full, low |-> sample.percent < Enter[2] /\ ~charging,
     percent |-> sample.percent]

\* PowerStateFilter::update(): the new filter and the view.
Update(g, sample) ==
    IF ~sample.valid \/ sample.percent > 100
    THEN IF HoldsOver(g) THEN <<DropsCandidate(g), g.last>> ELSE <<Forgets(g), None>>
    ELSE IF ~sample.present THEN <<Forgets(g), None>>
    ELSE LET v == ViewOf(g, sample) IN
         <<[Full(g, sample) EXCEPT !.band = v.band, !.last = v, !.good = 0], v>>

\* derive_power_reading(): external power comes from the sample itself.
Reading(v, sample) ==
    LET external == sample.valid /\ sample.vbus IN
    [valid |-> v.available \/ external, external |-> external, percent |-> v.percent]

\* Ages grow, and stop where they make no more difference.
Aged(age, d, bound) == IF age < 0 THEN age ELSE Min({age + d, bound + 1})

Init ==
    /\ f = [good |-> -1, last |-> None, band |-> 0, full |-> FALSE, candidate |-> -1]
    /\ view = None /\ word = [valid |-> FALSE, external |-> FALSE, percent |-> 0]
    /\ seen = [age |-> -1, percent |-> 0, done |-> -1] /\ turn = <<0, 0, 0>>

(***************************************************************************)
(* A poll, d after the last one.                                           *)
(***************************************************************************)
Battery(sample) == sample.valid /\ sample.percent <= 100 /\ sample.present

Poll(sample, d) ==
    LET g == [f EXCEPT !.good = Aged(@, d, Holdover), !.candidate = Aged(@, d, Confirm)]
        u == Update(g, sample) IN
    /\ f' = u[1] /\ view' = u[2] /\ word' = Reading(u[2], sample)
    /\ seen' =
        [age |-> IF Battery(sample) THEN 0 ELSE IF sample.valid /\ sample.percent <= 100 THEN -1 ELSE Aged(seen.age, d, Holdover),
         percent |-> IF Battery(sample) THEN sample.percent ELSE seen.percent,
         done |-> IF ~(Battery(sample) /\ sample.vbus /\ sample.done) THEN -1
                  ELSE IF seen.done < 0 THEN 0 ELSE Aged(seen.done, d, Confirm)]
    /\ turn' = IF u[2].band # view.band
               THEN <<view.band, u[2].band, IF view.full \/ u[2].full THEN 0 ELSE u[2].percent>> ELSE turn

Next == \E sample \in Samples, d \in 1..Late : Poll(sample, d)

Spec == Init /\ [][Next]_vars

TypeOK ==
    /\ \A x \in Samples : Sample(x)
    /\ f.good \in -1..(Holdover + 1) /\ f.candidate \in -1..(Confirm + 1)
    /\ f.band \in 0..4 /\ f.full \in BOOLEAN
    /\ word.percent \in 0..100 /\ view.percent \in 0..100

(***************************************************************************)
(* Properties.                                                             *)
(***************************************************************************)

\* A battery is shown, and an update let in on its charge, only on a reading of
\* it that is not older than the holdover, and for that reading's percentage.
PowerIsRecent ==
    view.available \/ (word.valid /\ ~word.external) =>
        /\ seen.age \in 0..Holdover
        /\ view.percent = seen.percent /\ word.percent = seen.percent

\* FULL comes up only when every poll for the confirmation time said so.
FullIsConfirmed == view'.full /\ ~view.full => seen'.done >= Confirm

\* The segments do not flicker: a band that was just left is entered again only
\* when the percentage has moved by more than the margin.  (FULL forces four.)
NoFlicker ==
    /\ view'.band # view.band /\ turn[1] = view'.band /\ turn[2] = view.band
    /\ {view.band, view'.band} \subseteq 1..4 /\ ~view.full /\ ~view'.full /\ turn[3] \in 1..100
    => view'.percent - turn[3] > Margin \/ turn[3] - view'.percent > Margin
=============================================================================
