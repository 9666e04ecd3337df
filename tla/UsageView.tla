----------------------------- MODULE UsageView -----------------------------
(***************************************************************************)
(* What a touch panel knows of the usage of both providers and when it     *)
(* redraws it: usage_command.cpp, usage_state.cpp, render_schedule.cpp and *)
(* the part of display_ui.cpp that shows it.                               *)
(*                                                                         *)
(* The Bridge publishes a provider's usage with its own time; the panel    *)
(* has no other clock and counts on from there.  It draws when something   *)
(* happened, or when what would be drawn differs in the render key.        *)
(* A window is << >>, or <<percent, reset>> where reset 0 stands for none. *)
(***************************************************************************)
EXTENDS Integers, Sequences

CONSTANTS
    Commands,     \* what arrives, see Command
    MaxSkew,      \* kMaxInverseClockSkewSeconds
    Minute,       \* seconds of a minute
    MaxDelay,     \* how long a command travels
    Pages,        \* the pages the user turns to
    MaxTime       \* bounds the clock

VARIABLES
    now,          \* esp_timer_get_time()
    flight,       \* commands under way, at most one, and its age
    model,        \* UsageModel: a snapshot per provider
    linked, page, saver,
    dirty, key,   \* the loop's
    shown,        \* what is on the screen
    turned,       \* whether the loop's turn is over
    published     \* the last valid windows that were received, per provider

vars == <<now, flight, model, linked, page, saver, dirty, key, shown, turned, published>>

Providers == {"codex", "claude"}
Epoch == 100      \* the Bridge's time when the panel starts

Command(c) ==
    /\ c.provider \in Providers
    /\ c.state \in {"ok", "partial", "unavailable"}
    /\ c.short \in {<< >>} \cup ((0..101) \X Nat) /\ c.week \in {<< >>} \cup ((0..101) \X Nat)
    /\ c.sampled \in Int

Present(c) == {w \in {"short", "week"} : c[w] # << >>}

\* parse_usage_command(), then the same again in UsageModel::apply().
Valid(c) ==
    /\ c.sampled <= MaxSkew
    /\ \A w \in Present(c) : c[w][1] <= 100
    /\ CASE c.state = "ok"          -> Present(c) = {"short", "week"}
         [] c.state = "partial"     -> Present(c) \in {{"short"}, {"week"}}
         [] c.state = "unavailable" -> Present(c) = {}

\* Mistake: a window that is missing now counts as published.
KeepsLatest(item, c) == item.latest \cup Present(c)

Latest(item, c) == Present(c)

\* UsageModel::apply(); `sent' is the Bridge's time when it was sent.
Applied(item, c, sent) ==
    LET anchored == [item EXCEPT !.sent = sent, !.received = now] IN
    IF c.state = "unavailable" THEN anchored
    ELSE [anchored EXCEPT
            !.state = c.state, !.latest = Latest(item, c), !.data = TRUE,
            !.short = IF c.short # << >> THEN c.short ELSE @,
            !.week  = IF c.week # << >> THEN c.week ELSE @]

Nothing == [sent |-> 0, received |-> 0, state |-> "ok", latest |-> {}, data |-> FALSE,
            short |-> << >>, week |-> << >>]

EstimatedEpoch(p) ==
    IF model[p].sent = 0 THEN 0 ELSE model[p].sent + (now - model[p].received)

DisplayState(p) ==
    IF ~model[p].data THEN "NO DATA" ELSE IF ~linked THEN "OFFLINE"
    ELSE IF model[p].state = "partial" THEN "PARTIAL" ELSE "ONLINE"

\* format_countdown(), in minutes rounded up; -1 is "--".
Countdown(window, epoch) ==
    IF window = << >> THEN -1
    ELSE IF window[2] = 0 THEN -1
    ELSE IF window[2] <= epoch THEN 0 ELSE (window[2] - epoch + Minute - 1) \div Minute

(***************************************************************************)
(* What is drawn, but for the age of the sample.                           *)
(***************************************************************************)
HasMetric(p, w) ==
    model[p].data /\ model[p][w] # << >> /\ (model[p].state = "partial" => w \in model[p].latest)

\* The percentage of a window, whether it is fresh, and its countdown.
Metric(p, w, countdown) ==
    IF ~HasMetric(p, w) THEN <<"--">>
    ELSE <<model[p][w][1], DisplayState(p) \in {"ONLINE", "PARTIAL"},
           IF countdown THEN Countdown(model[p][w], EstimatedEpoch(p)) ELSE -1>>

OverviewOf(p) ==
    <<DisplayState(p),
      IF DisplayState(p) = "ONLINE" THEN Countdown(model[p].short, EstimatedEpoch(p)) ELSE -1,
      Metric(p, "short", FALSE), Metric(p, "week", FALSE)>>

DetailOf(p) == <<DisplayState(p), -1, Metric(p, "short", TRUE), Metric(p, "week", TRUE)>>

\* make_screensaver_usage_row(): the short window, or the week's.
SaverOf(p) ==
    LET w == IF "short" \in model[p].latest THEN "short" ELSE "week" IN
    IF DisplayState(p) \in {"ONLINE", "PARTIAL"} /\ model[p].latest # {} THEN <<model[p][w][1]>> ELSE << >>

View ==
    CASE saver                          -> <<"saver", SaverOf("codex"), SaverOf("claude")>>
      [] ~saver /\ page = "overview"    -> <<"overview", OverviewOf("codex"), OverviewOf("claude")>>
      [] OTHER                          -> <<page, DetailOf(page), << >> >>

(***************************************************************************)
(* make_timed_render_key().                                                *)
(***************************************************************************)
OnlineCountdown(p) ==
    IF DisplayState(p) = "ONLINE" THEN Countdown(model[p].short, EstimatedEpoch(p)) ELSE -1

\* Mistake: the overview counts down for the first provider only.
FirstCountdown == <<OnlineCountdown("codex"), -1>>

OverviewCountdowns == <<OnlineCountdown("codex"), OnlineCountdown("claude")>>

\* Mistake: a page counts down its short window only.
ShortCountdown(p) ==
    IF ~model[p].data THEN <<-1, -1>>
    ELSE <<Countdown(model[p].short, EstimatedEpoch(p)), -1>>

DetailCountdowns(p) ==
    IF ~model[p].data THEN <<-1, -1>>
    ELSE <<Countdown(model[p].short, EstimatedEpoch(p)), Countdown(model[p].week, EstimatedEpoch(p))>>

Key ==
    IF page = "overview" \/ saver
    THEN <<page, saver, DisplayState("codex"), DisplayState("claude"),
           IF saver THEN <<-1, -1>> ELSE OverviewCountdowns>>
    ELSE <<page, saver, DisplayState(page), "NO DATA", DetailCountdowns(page)>>

(***************************************************************************)
(* Steps.                                                                  *)
(***************************************************************************)
Init ==
    /\ now = 0 /\ flight = << >> /\ model = [p \in Providers |-> Nothing]
    /\ linked = FALSE /\ page = "overview" /\ saver = FALSE
    /\ dirty = TRUE /\ key = << >> /\ shown = << >> /\ turned = FALSE
    /\ published = [p \in Providers |-> [short |-> << >>, week |-> << >>]]

Send ==
    /\ linked /\ flight = << >>
    /\ \E c \in Commands : flight' = <<c, Epoch + now, 0>>
    /\ UNCHANGED <<now, model, linked, page, saver, dirty, key, shown, turned, published>>

\* usage.v1 reaches the loop; one that is refused changes nothing.
Receive ==
    /\ flight # << >>
    /\ LET c == flight[1] IN
       IF Valid(c)
       THEN /\ model' = [model EXCEPT ![c.provider] = Applied(@, c, flight[2])]
            /\ published' = IF c.state = "unavailable" THEN published
                            ELSE [published EXCEPT ![c.provider] = [short |-> c.short, week |-> c.week]]
            /\ dirty' = TRUE /\ turned' = FALSE
       ELSE UNCHANGED <<model, published, dirty, turned>>
    /\ flight' = << >>
    /\ UNCHANGED <<now, linked, page, saver, key, shown>>

\* The link comes or goes, with what was under way; the user turns a page, or
\* the clock comes up or is dismissed.
Link ==
    /\ linked' = ~linked /\ flight' = << >> /\ dirty' = TRUE /\ turned' = FALSE
    /\ UNCHANGED <<now, model, page, saver, key, shown, published>>
Turns ==
    /\ page' \in Pages /\ saver' \in BOOLEAN
    /\ dirty' = (dirty \/ page' # page) /\ turned' = FALSE
    /\ UNCHANGED <<now, flight, model, linked, key, shown, published>>

\* A turn of the loop, some time after the last one.
Loop ==
    /\ IF dirty \/ key # Key
       THEN shown' = View /\ key' = Key
       ELSE UNCHANGED <<shown, key>>
    /\ dirty' = FALSE /\ turned' = TRUE
    /\ UNCHANGED <<now, flight, model, linked, page, saver, published>>

Tick ==
    /\ now < MaxTime /\ now' = now + 1 /\ turned' = FALSE
    /\ flight # << >> => flight[3] < MaxDelay
    /\ flight' = IF flight = << >> THEN flight ELSE [flight EXCEPT ![3] = @ + 1]
    /\ UNCHANGED <<model, linked, page, saver, dirty, key, shown, published>>

Next == Send \/ Receive \/ Link \/ Turns \/ Loop \/ Tick

Spec == Init /\ [][Next]_vars

TypeOK ==
    /\ now \in 0..MaxTime /\ \A c \in Commands : Command(c)
    /\ flight # << >> => flight[1] \in Commands /\ flight[3] \in 0..MaxDelay
    /\ \A p \in Providers : model[p].latest \subseteq {"short", "week"} /\ model[p].received <= now
    /\ {linked, saver, dirty, turned} \subseteq BOOLEAN /\ page \in Pages

(***************************************************************************)
(* Properties.                                                             *)
(***************************************************************************)

\* After a turn of the loop the screen shows what would be drawn now: every
\* percentage, state and countdown that time or the link can change is part of
\* the render key of the page that shows it.  (The age of the sample is not.)
ShownIsTimely == turned => shown = View

\* A percentage is shown only if the last valid publication of its provider
\* had it: a window that is missing from it is not filled from an older one.
MissingIsNotShown ==
    \A p \in Providers, w \in {"short", "week"} :
        IF HasMetric(p, w) THEN published[p][w] # << >> /\ published[p][w] = model[p][w]
        ELSE published[p][w] = << >>

\* The panel's idea of the Bridge's clock is never ahead of it, and behind by
\* no more than a command travels, whichever kind of publication anchored it.
ClockIsTheBridges ==
    \A p \in Providers :
        model[p].sent # 0 => EstimatedEpoch(p) \in (Epoch + now - MaxDelay)..(Epoch + now)
=============================================================================
