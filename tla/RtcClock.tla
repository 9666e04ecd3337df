------------------------------ MODULE RtcClock ------------------------------
(***************************************************************************)
(* The clock of a touch panel with a PCF85063A: rtc_clock.cpp, the codec's *)
(* checks, and the polls and corrections of its main loop.  The chip is on *)
(* I2C, where every transfer may fail, and goes on counting between any    *)
(* two of them.  A time is <<minute, second>>.                             *)
(***************************************************************************)
EXTENDS Integers

CONSTANTS
    Minutes,      \* minutes until the count starts over
    Seconds,      \* seconds of a minute
    Faults        \* bounds the failed transfers and restarts

VARIABLES
    chip,         \* the RTC: time, whether stopped, whether its time was lost
    op,           \* the transfer the loop is at, what it writes and found
    poll,         \* next_clock_poll_ms - now_ms, in seconds
    calendar,     \* what is shown; << >> when not available
    faults,
    due,          \* the time since the last write that succeeded
    doubt         \* transfers that failed since: of a write, of its calendar

vars == <<chip, op, poll, calendar, faults, due, doubt>>

Times == (0..(Minutes - 1)) \X (0..(Seconds - 1))

After(t) ==
    IF t[2] < Seconds - 1 THEN <<t[1], t[2] + 1>> ELSE <<(t[1] + 1) % Minutes, 0>>

Idle == [at |-> "idle", time |-> << >>, written |-> TRUE]

\* Every transfer may fail, having been carried out or not.
Transfer(Outcome(_)) ==
    \/ Outcome(TRUE) /\ UNCHANGED faults
    \/ faults > 0 /\ Outcome(FALSE) /\ faults' = faults - 1

\* decode_calendar(): a chip that lost its time says so, and is not believed.
Decoded == IF chip.lost THEN << >> ELSE chip.time

ToNextMinute(t) == Seconds - t[2]

Init ==
    /\ chip \in [time : {<<0, 0>>}, stopped : {FALSE}, lost : BOOLEAN]
    /\ op = Idle /\ poll = 0 /\ calendar = << >> /\ faults = Faults
    /\ due = << >> /\ doubt = {}

(***************************************************************************)
(* RtcClock::read() in the loop's poll: one transfer for all fields.       *)
(***************************************************************************)
\* Mistake: the fields are read one by one, and the seconds first.
Piecemeal == {<<m, chip.time[2]>> : m \in {chip.time[1], After(chip.time)[1]}}

Fields == {Decoded}

Poll ==
    /\ op.at = "idle" /\ poll = 0
    /\ \E found \in Fields :
       Transfer(LAMBDA ok :
        /\ calendar' = IF ok THEN found ELSE << >>
        /\ poll' = IF calendar' = << >> THEN 1 ELSE ToNextMinute(calendar'))
    /\ doubt' = doubt \ {"calendar"}
    /\ UNCHANGED <<chip, op, due>>

(***************************************************************************)
(* RtcClock::write(): the bridge's time, read from its clock.              *)
(***************************************************************************)
Sync(time) ==
    /\ op.at = "idle"
    /\ op' = [at |-> "control", time |-> time, written |-> TRUE]
    /\ UNCHANGED <<chip, poll, calendar, faults, due, doubt>>

Gives == op' = Idle /\ UNCHANGED <<poll, calendar, due>>

ReadControl ==
    /\ op.at = "control"
    /\ Transfer(LAMBDA ok :
        IF ok THEN op' = [op EXCEPT !.at = "stop"] /\ UNCHANGED <<poll, calendar, due>> ELSE Gives)
    /\ UNCHANGED <<chip, doubt>>

\* Mistake: the chip counts on while it is written.
CountsOn(carried) == chip

Stops(carried) == [chip EXCEPT !.stopped = @ \/ carried]

\* A failed stop ends the write, and may have stopped the chip.
Stop ==
    /\ op.at = "stop"
    /\ Transfer(LAMBDA ok :
        /\ IF ok THEN op' = [op EXCEPT !.at = "seconds"] /\ UNCHANGED <<poll, calendar, due>> ELSE Gives
        /\ \E carried \in {TRUE, ok} : chip' = Stops(carried)
        /\ doubt' = IF ok THEN doubt ELSE doubt \cup {"stop"})

\* The calendar's registers go in one after the other; a transfer that fails
\* may end between them.  Whatever becomes of it, the chip is started again.
WriteSeconds ==
    /\ op.at = "seconds"
    /\ \E carried \in BOOLEAN :
        /\ carried \/ faults > 0
        /\ chip' = [chip EXCEPT !.time[2] = IF carried THEN op.time[2] ELSE @,
                                !.lost = @ /\ ~carried]
        /\ IF carried THEN op' = [op EXCEPT !.at = "minutes"] /\ UNCHANGED <<faults, doubt>>
           ELSE /\ op' = [op EXCEPT !.at = "resume", !.written = FALSE]
                /\ faults' = faults - 1 /\ doubt' = doubt \cup {"time", "calendar"}
    /\ UNCHANGED <<poll, calendar, due>>

\* Mistake: a calendar that could not be written ends the write.
ReturnsEarly == "idle"

ThenResumes == "resume"

WriteMinutes ==
    /\ op.at = "minutes"
    /\ Transfer(LAMBDA ok :
        /\ op' = [op EXCEPT !.written = ok, !.at = IF ok THEN "resume" ELSE ThenResumes]
        /\ \E carried \in {TRUE, ok} :
              chip' = [chip EXCEPT !.time[1] = IF carried THEN op.time[1] ELSE @]
        /\ doubt' = IF ok THEN doubt ELSE doubt \cup {"time", "calendar"})
    /\ UNCHANGED <<poll, calendar, due>>

\* A write that succeeded is what the loop shows, without reading it back.
Resume ==
    /\ op.at = "resume"
    /\ Transfer(LAMBDA ok :
        /\ \E carried \in {TRUE, ok} : chip' = [chip EXCEPT !.stopped = @ /\ ~carried]
        /\ IF ok /\ op.written
           THEN /\ calendar' = op.time /\ due' = op.time /\ doubt' = {}
                /\ poll' = ToNextMinute(op.time)
           ELSE /\ doubt' = IF ok THEN doubt \ {"stop"} ELSE doubt \cup {"stop", "time", "calendar"}
                /\ UNCHANGED <<calendar, due, poll>>)
    /\ op' = Idle

(***************************************************************************)
(* Time passes: a second for everyone.  The loop's poll is not late.       *)
(***************************************************************************)
Second ==
    /\ ~(op.at = "idle" /\ poll = 0)
    /\ poll' = IF poll = 0 THEN 0 ELSE poll - 1
    /\ chip' = IF chip.stopped THEN chip ELSE [chip EXCEPT !.time = After(@)]
    /\ due' = IF due = << >> \/ chip.stopped THEN due ELSE After(due)
    /\ UNCHANGED <<op, calendar, faults, doubt>>

\* The panel is switched off and on; begin() starts the chip.  Without power
\* the chip loses its time, and knows it.
Restart ==
    /\ faults > 0 /\ faults' = faults - 1
    /\ op' = Idle /\ poll' = 0 /\ calendar' = << >>
    /\ \E lost \in BOOLEAN : chip' = [chip EXCEPT !.stopped = FALSE, !.lost = @ \/ lost]
    /\ doubt' = IF op.at \in {"seconds", "minutes"} THEN {"time"}
                ELSE IF op.at = "resume" THEN (doubt \cup {"time"}) \ {"stop"} ELSE doubt \ {"stop", "calendar"}
    /\ UNCHANGED due

Next ==
    Poll \/ (\E time \in Times : Sync(time)) \/ ReadControl \/ Stop \/ WriteSeconds \/ WriteMinutes
    \/ Resume \/ Second \/ Restart

Spec == Init /\ [][Next]_vars

TypeOK ==
    /\ chip.time \in Times /\ chip.stopped \in BOOLEAN /\ chip.lost \in BOOLEAN
    /\ op.at \in {"idle", "control", "stop", "seconds", "minutes", "resume"}
    /\ calendar # << >> => calendar \in Times
    /\ poll \in 0..Seconds /\ faults \in 0..Faults

(***************************************************************************)
(* Properties.                                                             *)
(***************************************************************************)

\* Between writes the chip counts, unless the transfer that stopped it or that
\* should have started it failed: a calendar that was not written stops nothing.
ClockRuns == op.at = "idle" /\ chip.stopped => "stop" \in doubt

\* After a write that succeeded the chip has the bridge's time, and not a
\* mixture with its own, until a later write breaks off.
TimeIsWhole == op.at = "idle" /\ due # << >> /\ doubt = {} /\ ~chip.lost => chip.time = due

\* The minute that is shown is the chip's, once the loop had its turn, unless a
\* write broke off since the last poll.
MinuteIsShown ==
    op.at = "idle" /\ poll > 0 /\ calendar # << >> /\ "calendar" \notin doubt =>
        calendar[1] = chip.time[1]
=============================================================================
