------------------------------ MODULE MCBoards ------------------------------
(***************************************************************************)
(* The hardware below the panel programs, and the code that drives it, for *)
(* TLC: gestures and camera, the history on the card, outputs and papers.  *)
(***************************************************************************)
EXTENDS MCRegisters

\* The situations of the history on the card, and of its mounting.
CONSTANTS TrendIn, CardIn

(***************************************************************************)
(* Mosaico, the tracker of gestures.                                       *)
(***************************************************************************)
Hand ==
    INSTANCE GestureTracker WITH
        Width <- 2, Jumps <- FALSE, Gap <- 1, Settle <- 2, Return <- 3, Hold <- 2, Absence <- 1,
        Since <- 2, Stroke <- 2, t <- r1, issued <- r2, hand <- r3, past <- r4
HandInit == program = "hand" /\ Hand!Init /\ Clear5
HandNext ==
    \/ \E d \in {1, 2}, x \in 0..2, pose \in BOOLEAN :
          Runs("hand", Hand!HandFrame(x, pose, d) /\ UNCHANGED From5)
    \/ \E d \in {1, 2} : Runs("hand", Hand!EmptyFrame(d) /\ UNCHANGED From5)
    \/ \E d \in {1, 2} : Runs("hand", Hand!WeakFrame(d) /\ UNCHANGED From5)
    \/ \E d \in {1, 2} : Runs("hand", Hand!CrowdedFrame(d) /\ UNCHANGED From5)
    \/ Runs("hand", Hand!Accept /\ UNCHANGED From5)
    \/ Runs("hand", Hand!OtherInput /\ UNCHANGED From5)

(***************************************************************************)
(* Mosaico, the camera's worker and the loop: pages, attempts to start,    *)
(* failed captures, frames of a gesture, generations of the context.       *)
(***************************************************************************)
CameraIn ==
    [context |-> <<1, 1, 1, 2, 3, 1>>, camera |-> <<1, 2, 1, 1, 2, 5>>, capture |-> <<2, 1, 1, 1, 2, 1>>]
Cameras == DOMAIN CameraIn
Camera(p) ==
    INSTANCE GestureInput WITH
        Pages <- CameraIn[p][1], Attempts <- CameraIn[p][2], Failures <- CameraIn[p][3],
        Frames <- CameraIn[p][4], MaxGen <- CameraIn[p][5], Stages <- CameraIn[p][6], MaxAge <- 1,
        screen <- r1, loop <- r2, context <- r3, queue <- r4, status <- r5, w <- r6, cam <- r7
CameraInit == \E p \in Cameras : program = p /\ Camera(p)!Init /\ Clear8
CameraNext ==
    \/ \E p \in Cameras : Runs(p, Camera(p)!Worker /\ UNCHANGED From8)
    \/ \E p \in Cameras : Runs(p, Camera(p)!Loop /\ UNCHANGED From8)
    \/ \E p \in Cameras : Runs(p, Camera(p)!Tick /\ UNCHANGED From8)

(***************************************************************************)
(* The history on the card, on two boards: half hours, exchanged cards.    *)
(***************************************************************************)
MCTrendIn == [pico |-> <<"read_pico", 4, 1>>, rlcd |-> <<"rlcd", 4, 0>>]
Trends == {"pico", "rlcd"}
Trend(which) ==
    INSTANCE TrendStore WITH
        Board <- TrendIn[which][1], Buckets <- TrendIn[which][2], MaxSwaps <- TrendIn[which][3],
        files <- r1, trend <- r2, loaded <- r3, bucket <- r4, pc <- r5, card <- r6
TrendInit == \E p \in Trends : program = p /\ Trend(p)!Init /\ Clear7
TrendNext ==
    \/ \E p \in Trends : Runs(p, Trend(p)!Time /\ UNCHANGED From7)
    \/ \E p \in Trends : Runs(p, Trend(p)!Load /\ UNCHANGED From7)
    \/ \E p \in Trends : Runs(p, Trend(p)!Sample /\ UNCHANGED From7)
    \/ \E p \in Trends : Runs(p, Trend(p)!Write /\ UNCHANGED From7)
    \/ \E p \in Trends : Runs(p, Trend(p)!Stat /\ UNCHANGED From7)
    \/ \E p \in Trends : Runs(p, Trend(p)!Remove /\ UNCHANGED From7)
    \/ \E p \in Trends : Runs(p, Trend(p)!Keep /\ UNCHANGED From7)
    \/ \E p \in Trends : Runs(p, Trend(p)!Install /\ UNCHANGED From7)
    \/ \E p \in Trends : Runs(p, Trend(p)!Crash /\ UNCHANGED From7)
    \/ \E p \in Trends : Runs(p, Trend(p)!Swap /\ UNCHANGED From7)

(***************************************************************************)
(* Read Pico, mounting the card: users who wait for a probe, who do not.   *)
(***************************************************************************)
MCCardIn == [waits |-> <<0, TRUE>>, hasty |-> <<1, FALSE>>]
Mounts == {"waits", "hasty"}
Card(which) ==
    INSTANCE SdCard WITH
        Cards <- 1..2, Swaps <- 2, Glitches <- CardIn[which][1], Patient <- CardIn[which][2], slot <- r1,
        card <- r2, state <- r3, probe <- r4, main <- r5, loop <- r6, swaps <- r7, glitches <- r8
CardInit == \E p \in Mounts : program = p /\ Card(p)!Init /\ Clear9
CardNext ==
    \/ \E p \in Mounts : Runs(p, Card(p)!Task /\ UNCHANGED From9)
    \/ \E p \in Mounts : Runs(p, Card(p)!Loop /\ UNCHANGED From9)
    \/ \E p \in Mounts : Runs(p, Card(p)!User /\ UNCHANGED From9)

(***************************************************************************)
(* RLCD, the frame's transfer and the beeper.                              *)
(***************************************************************************)
Output ==
    INSTANCE RlcdOutput WITH
        Frames <- {1, 2, 3}, canvas <- r1, frame <- r2, displayed <- r3, done <- r4, wire <- r5,
        glass <- r6, notified <- r7, play <- r8, amplifier <- r9
OutputInit == program = "output" /\ Output!Init /\ Clear10
OutputNext ==
    \/ Runs("output", Output!Render /\ UNCHANGED From10)
    \/ Runs("output", Output!Show /\ UNCHANGED From10)
    \/ Runs("output", Output!OnDone /\ UNCHANGED From10)
    \/ Runs("output", Output!Alert /\ UNCHANGED From10)
    \/ Runs("output", Output!Play /\ UNCHANGED From10)
    \/ Runs("output", Output!PlayEnds /\ UNCHANGED From10)
    \/ Runs("output", Output!Drain /\ UNCHANGED From10)

(***************************************************************************)
(* ePaper 3.97, the refresh worker: modes, orientations, budget, restarts. *)
(***************************************************************************)
RefreshIn ==
    [mono  |-> <<{"mono", "gray"}, {0}, 1, 0>>,
     clock |-> <<{"mono", "clock"}, {0}, 1, 0>>,
     power |-> <<{"mono"}, {0}, 1, 1>>,
     demo  |-> <<{"mono", "g"}, {0}, 1, 0>>]
Refreshes == DOMAIN RefreshIn
Refresh(p) ==
    INSTANCE EpaperRefresh WITH
        Modes <- RefreshIn[p][1], Orientations <- RefreshIn[p][2], Budget <- RefreshIn[p][3],
        Crashes <- RefreshIn[p][4], pending <- r1, scene <- r2, full <- r3, fresh <- r4, pc <- r5,
        notified <- r6, job <- r7, last <- r8, partials <- r9, setup <- r10, ram <- r11,
        glass <- r12, ghosts <- r13, owed <- r14, crashes <- r15
RefreshInit == \E p \in Refreshes : program = p /\ Refresh(p)!Init /\ Clear16
RefreshNext ==
    \/ \E p \in Refreshes : Runs(p, Refresh(p)!Render /\ UNCHANGED From16)
    \/ \E p \in Refreshes : Runs(p, Refresh(p)!Demo /\ UNCHANGED From16)
    \/ \E p \in Refreshes : Runs(p, Refresh(p)!Notify /\ UNCHANGED From16)
    \/ \E p \in Refreshes : Runs(p, Refresh(p)!Capture /\ UNCHANGED From16)
    \/ \E p \in Refreshes : Runs(p, Refresh(p)!Drive /\ UNCHANGED From16)
    \/ \E p \in Refreshes : Runs(p, Refresh(p)!Crash /\ UNCHANGED From16)

(***************************************************************************)
(* Read Pico, feeding a refresh: where a frame starts, missed interrupts, *)
(* phases.  A queue holds one line here, and at most the last that fits    *)
(* starts the frame; 63 in the firmware, which starts at 32, 64 or 127.    *)
(***************************************************************************)
FeedIn == [feed |-> <<3, 0, 2>>, starved |-> <<2, 1, 1>>, late |-> <<3, 3, 1>>]
Feeds == DOMAIN FeedIn
Feed(p) ==
    INSTANCE LineFeed WITH
        Height <- 3, Lines <- 4, Bounce <- 1, Batch <- 3, Size <- 2, Prefill <- FeedIn[p][1],
        Phases <- FeedIn[p][3], Misses <- FeedIn[p][2], main <- r1, ctx <- r2, queue <- r3, feeder <- r4,
        sem <- r5, lcd <- r6, glass <- r7
FeedInit == \E p \in Feeds : program = p /\ Feed(p)!Init /\ Clear8
FeedNext ==
    \/ \E p \in Feeds : Runs(p, Feed(p)!Update /\ UNCHANGED From8)
    \/ \E p \in Feeds : Runs(p, Feed(p)!Peripheral /\ UNCHANGED From8)
    \/ \E p \in Feeds : Runs(p, Feed(p)!Miss /\ UNCHANGED From8)
    \/ \E p \in Feeds, t \in 0..1 : Runs(p, Feed(p)!Feeds(t) /\ UNCHANGED From8)

(***************************************************************************)
(* The touch panels' screen: pages and the clock; updates; settings over   *)
(* pairing, clock and updates; brightness; the camera's preview.           *)
(***************************************************************************)
Plain == [page |-> "overview", linked |-> TRUE, code |-> 0, phase |-> "Idle", error |-> FALSE,
          saver |-> FALSE, state |-> "ONLINE", number |-> 1, clock |-> TRUE, battery |-> "good"]
DrawPages ==
    {[Plain EXCEPT !.page = p, !.linked = (u \in {"ONLINE", "PARTIAL"}), !.state = u, !.number = n, !.saver = v] :
        p \in {"overview", "codex"}, u \in {"NO DATA", "OFFLINE", "ONLINE"}, n \in 1..2, v \in BOOLEAN}
DrawUpdates ==
    {[Plain EXCEPT !.phase = f, !.error = e, !.number = n] :
        f \in {"Idle", "Confirming", "Receiving", "Verifying", "Rebooting"}, e \in BOOLEAN, n \in 1..2}
DrawOver ==
    {[Plain EXCEPT !.code = c, !.saver = v, !.battery = IF v THEN "low" ELSE "none", !.clock = v, !.phase = f] :
        c \in 0..1, v \in BOOLEAN, f \in {"Idle", "Receiving"}}
DrawDark == {[Plain EXCEPT !.saver = v, !.phase = f] : v \in BOOLEAN, f \in {"Idle", "Verifying"}}
Choose(B, V) == {[brightness |-> b, delay |-> 1, visible |-> v, error |-> FALSE] : b \in B, v \in V}
ScreenIn ==
    [pages    |-> <<DrawPages, Choose({1}, {FALSE}), 1, FALSE, FALSE>>,
     updates  |-> <<DrawUpdates, Choose({1}, {FALSE}), 1, FALSE, FALSE>>,
     settings |-> <<DrawOver, Choose({1}, BOOLEAN), 1, FALSE, FALSE>>,
     dark     |-> <<DrawDark, Choose(1..3, {FALSE}), 3, TRUE, FALSE>>,
     preview  |-> <<{Plain}, Choose({1}, BOOLEAN), 1, FALSE, TRUE>>]
Screens == DOMAIN ScreenIn
Screen(p) ==
    INSTANCE TouchScreen WITH
        Drawings <- ScreenIn[p][1], Choices <- ScreenIn[p][2], Brightest <- ScreenIn[p][3],
        Fails <- ScreenIn[p][4], HasCamera <- ScreenIn[p][5], s <- r1, light <- r2, preview <- r3,
        args <- r4, chosen <- r5, drawn <- r6
ScreenInit == \E p \in Screens : program = p /\ Screen(p)!Init /\ Clear7
ScreenNext ==
    \/ \E p \in Screens : Runs(p, Screen(p)!Render /\ UNCHANGED From7)
    \/ \E p \in Screens : Runs(p, Screen(p)!Apply /\ UNCHANGED From7)
    \/ \E p \in Screens : Runs(p, Screen(p)!ApplyFails /\ UNCHANGED From7)
    \/ \E p \in Screens : Runs(p, Screen(p)!Refresh /\ UNCHANGED From7)
    \/ \E p \in Screens : Runs(p, Screen(p)!Fade /\ UNCHANGED From7)
    \/ \E p \in Screens : Runs(p, Screen(p)!CameraState /\ UNCHANGED From7)
    \/ \E p \in Screens : Runs(p, Screen(p)!PreviewToggle /\ UNCHANGED From7)
    \/ \E p \in Screens : Runs(p, Screen(p)!PreviewFrame /\ UNCHANGED From7)
    \/ \E p \in Screens : Runs(p, Screen(p)!PreviewDraw /\ UNCHANGED From7)

(***************************************************************************)
(* What is on I2C: the battery's filter, the clock chip, the high voltages *)
(* without and with an expander that fails, the touch glass, and the start *)
(* of the Read Pico with four lost transfers, or cut off twice.            *)
(***************************************************************************)
Gauge(percent, vbus, charging, done) ==
    [valid |-> TRUE, present |-> TRUE, vbus |-> vbus, charging |-> charging, done |-> done, percent |-> percent]
Readings ==
    {Gauge(p, FALSE, FALSE, FALSE) : p \in {20, 23, 26, 50}}
    \cup {Gauge(p, TRUE, c, ~c) : p \in {24, 100}, c \in BOOLEAN}
    \cup {[Gauge(255, v, FALSE, FALSE) EXCEPT !.valid = v] : v \in BOOLEAN}
    \cup {[Gauge(0, TRUE, FALSE, FALSE) EXCEPT !.present = FALSE]}
Battery ==
    INSTANCE PowerFilter WITH
        Samples <- Readings, Enter <- [b \in 2..4 |-> (b - 1) * 25], Margin <- 3, Holdover <- 3,
        Confirm <- 2, Late <- 2, f <- r1, view <- r2, word <- r3, seen <- r4, turn <- r5
Rtc ==
    INSTANCE RtcClock WITH
        Minutes <- 2, Seconds <- 3, Faults <- 2, chip <- r1, op <- r2, poll <- r3, calendar <- r4,
        faults <- r5, due <- r6, doubt <- r7
RailsIn == [rails |-> FALSE, expander |-> TRUE]
Rails(p) ==
    INSTANCE PicoRails WITH
        Retry <- 3, Faults <- 5, Expander <- RailsIn[p], pc <- r1, cache <- r2, pins <- r3, chip <- r4,
        awake <- r5, rails <- r6, railsOn <- r7, tries <- r8, faults <- r9, drawn <- r10
Touch ==
    INSTANCE TouchKeys WITH
        Places <- {0, 1, 2}, Hold <- 5, Debounce <- 2, Late <- 2, state <- r1, out <- r2,
        finger <- r3, gave <- r4
StartIn == [start |-> <<4, 1>>, cut |-> <<1, 2>>]
Start(p) ==
    INSTANCE PicoStart WITH
        Faults <- StartIn[p][1], Crashes <- StartIn[p][2], Held <- 9, pc <- r1, step <- r2, again <- r3,
        cache <- r4, port <- r5, chip <- r6, held <- r7, sensor <- r8, hw <- r9, vcom <- r10,
        tries <- r11, faults <- r12, crashes <- r13, lost <- r14
PmuIn == [answer |-> <<1, 2, FALSE>>, slow |-> <<2, 1, TRUE>>]
Pmu(p) ==
    INSTANCE PicoPmu WITH
        Numbers <- 4, Attempts <- 3, Reads <- 2, Times <- 1..2, Faults <- PmuIn[p][1],
        Restarts <- PmuIn[p][2], Slow <- PmuIn[p][3], pmu <- r1, host <- r2, op <- r3, clock <- r4,
        nvs <- r5, last <- r6, faults <- r7, restarts <- r8
WiredInit ==
    \/ \E p \in DOMAIN PmuIn : program = p /\ Pmu(p)!Init /\ Clear9
    \/ program = "battery" /\ Battery!Init /\ Clear6
    \/ program = "rtc" /\ Rtc!Init /\ Clear8
    \/ \E p \in DOMAIN RailsIn : program = p /\ Rails(p)!Init /\ Clear11
    \/ program = "touch" /\ Touch!Init /\ Clear5
    \/ \E p \in DOMAIN StartIn : program = p /\ Start(p)!Init /\ Clear15
WiredNext ==
    \/ Runs("battery", Battery!Next /\ UNCHANGED From6)
    \/ Runs("rtc", Rtc!Poll /\ UNCHANGED From8)
    \/ Runs("rtc", (\E time \in {<<0, 1>>, <<1, 2>>} : Rtc!Sync(time)) /\ UNCHANGED From8)
    \/ Runs("rtc", Rtc!ReadControl /\ UNCHANGED From8)
    \/ Runs("rtc", Rtc!Stop /\ UNCHANGED From8)
    \/ Runs("rtc", Rtc!WriteSeconds /\ UNCHANGED From8)
    \/ Runs("rtc", Rtc!WriteMinutes /\ UNCHANGED From8)
    \/ Runs("rtc", Rtc!Resume /\ UNCHANGED From8)
    \/ Runs("rtc", Rtc!Second /\ UNCHANGED From8)
    \/ Runs("rtc", Rtc!Restart /\ UNCHANGED From8)
    \/ \E p \in DOMAIN RailsIn : Runs(p, Rails(p)!BoardOn /\ UNCHANGED From11)
    \/ \E p \in DOMAIN RailsIn : Runs(p, Rails(p)!BoardOff /\ UNCHANGED From11)
    \/ \E p \in DOMAIN RailsIn : Runs(p, Rails(p)!Draw /\ UNCHANGED From11)
    \/ \E p \in DOMAIN RailsIn : Runs(p, Rails(p)!Again /\ UNCHANGED From11)
    \/ \E d \in 1..2 : Runs("touch", Touch!Poll(d) /\ UNCHANGED From5)
    \/ Runs("touch", Touch!FingerDown /\ UNCHANGED From5)
    \/ Runs("touch", Touch!FingerUp /\ UNCHANGED From5)
    \/ \E p \in DOMAIN StartIn : Runs(p, Start(p)!Recover /\ UNCHANGED From15)
    \/ \E p \in DOMAIN StartIn : Runs(p, Start(p)!SelfTest /\ UNCHANGED From15)
    \/ \E p \in DOMAIN StartIn : Runs(p, Start(p)!ResetTouch /\ UNCHANGED From15)
    \/ \E p \in DOMAIN StartIn : Runs(p, Start(p)!PowerHandle /\ UNCHANGED From15)
    \/ \E p \in DOMAIN StartIn : Runs(p, Start(p)!Lcd /\ UNCHANGED From15)
    \/ \E p \in DOMAIN StartIn : Runs(p, Start(p)!Dma /\ UNCHANGED From15)
    \/ \E p \in DOMAIN StartIn : Runs(p, Start(p)!Control /\ UNCHANGED From15)
    \/ \E p \in DOMAIN StartIn : Runs(p, Start(p)!Render /\ UNCHANGED From15)
    \/ \E p \in DOMAIN StartIn : Runs(p, Start(p)!DefaultVcom /\ UNCHANGED From15)
    \/ \E p \in DOMAIN StartIn : Runs(p, Start(p)!Waveform /\ UNCHANGED From15)
    \/ \E p \in DOMAIN StartIn : Runs(p, Start(p)!Buffers /\ UNCHANGED From15)
    \/ \E p \in DOMAIN StartIn : Runs(p, Start(p)!Sensor /\ UNCHANGED From15)
    \/ \E p \in DOMAIN StartIn : Runs(p, Start(p)!SensorSleep /\ UNCHANGED From15)
    \/ \E p \in DOMAIN StartIn : Runs(p, Start(p)!Pmu /\ UNCHANGED From15)
    \/ \E p \in DOMAIN StartIn : Runs(p, Start(p)!Touch /\ UNCHANGED From15)
    \/ \E p \in DOMAIN StartIn : Runs(p, Start(p)!Vcom /\ UNCHANGED From15)
    \/ \E p \in DOMAIN StartIn : Runs(p, Start(p)!Wake /\ UNCHANGED From15)
    \/ \E p \in DOMAIN StartIn : Runs(p, Start(p)!Frame /\ UNCHANGED From15)
    \/ \E p \in DOMAIN StartIn : Runs(p, Start(p)!Crash /\ UNCHANGED From15)
    \/ \E p \in DOMAIN StartIn : Runs(p, Start(p)!PowerCut /\ UNCHANGED From15)
    \/ \E p \in DOMAIN PmuIn : Runs(p, Pmu(p)!Execute /\ UNCHANGED From9)
    \/ \E p \in DOMAIN PmuIn : Runs(p, Pmu(p)!PmuRestart /\ UNCHANGED From9)
    \/ \E p \in DOMAIN PmuIn : Runs(p, Pmu(p)!Recover /\ UNCHANGED From9)
    \/ \E p \in DOMAIN PmuIn : Runs(p, Pmu(p)!Write /\ UNCHANGED From9)
    \/ \E p \in DOMAIN PmuIn : Runs(p, Pmu(p)!Read /\ UNCHANGED From9)
    \/ \E p \in DOMAIN PmuIn : Runs(p, Pmu(p)!Identity /\ UNCHANGED From9)
    \/ \E p \in DOMAIN PmuIn : Runs(p, Pmu(p)!Ready /\ UNCHANGED From9)
    \/ \E p \in DOMAIN PmuIn : Runs(p, Pmu(p)!Begin /\ UNCHANGED From9)
    \/ \E p \in DOMAIN PmuIn : Runs(p, Pmu(p)!Poll /\ UNCHANGED From9)
    \/ \E p \in DOMAIN PmuIn : Runs(p, Pmu(p)!Store /\ UNCHANGED From9)
    \/ \E p \in DOMAIN PmuIn : Runs(p, Pmu(p)!Restart /\ UNCHANGED From9)
    \/ \E p \in DOMAIN PmuIn, time \in 1..2 : Runs(p, Pmu(p)!Sync(time) /\ UNCHANGED From9)

(***************************************************************************)
(* Read Pico, the buzzer: jobs of every kind called by two tasks, with     *)
(* drivers that fail and a wait that is too long; a score whose writes     *)
(* miss their time; one whose waits all end.                               *)
(***************************************************************************)
BuzzIn ==
    [calls |-> <<{"square", "classic", "bits"}, 1, 1, {"first", "second"}>>,
     song |-> <<{"score"}, 0, 2, {"first"}>>, melody |-> <<{"score"}, 0, 0, {"first"}>>]
Buzzes == DOMAIN BuzzIn
Buzz(p) ==
    INSTANCE Buzzer WITH
        Callers <- BuzzIn[p][4], Kinds <- BuzzIn[p][1], Chunk <- 4, Chunks <- 1, Slots <- 6, Least <- 2,
        Underruns <- 1, MaxFaults <- BuzzIn[p][2], MaxLate <- BuzzIn[p][3],
        lock <- r1, flags <- r2, caller <- r3, job <- r4, pin <- r5, pwm <- r6, count <- r7
BuzzInit == \E p \in Buzzes : program = p /\ Buzz(p)!Init /\ Clear8
BuzzNext ==
    \/ \E p \in Buzzes : Runs(p, Buzz(p)!Job /\ UNCHANGED From8)
    \/ \E p \in Buzzes : Runs(p, Buzz(p)!Tick /\ UNCHANGED From8)
    \/ \E p \in Buzzes : Runs(p, (\E c \in BuzzIn[p][4] : Buzz(p)!Call(c)) /\ UNCHANGED From8)

\* The instances are among those the theorems of the programs are about.
ASSUME BoardsAssumption ==
    /\ \A p \in Cameras : Camera(p)!ConstantsOK
    /\ \A p \in Trends : Trend(p)!ConstantsOK
    /\ \A p \in Mounts : Card(p)!ConstantsOK
    /\ \A p \in Refreshes : Refresh(p)!ConstantsOK
    /\ \A p \in DOMAIN RailsIn : Rails(p)!ConstantsOK
    /\ \A p \in DOMAIN StartIn : Start(p)!ConstantsOK
    /\ \A p \in Buzzes : Buzz(p)!ConstantsOK

BoardsInit ==
    \/ ScreenInit \/ HandInit \/ CameraInit \/ TrendInit \/ OutputInit \/ RefreshInit \/ FeedInit
    \/ CardInit \/ WiredInit \/ BuzzInit
BoardsNext ==
    \/ ScreenNext \/ HandNext \/ CameraNext \/ TrendNext \/ OutputNext \/ RefreshNext \/ FeedNext
    \/ CardNext \/ WiredNext \/ BuzzNext
BoardsSpec == BoardsInit /\ [][BoardsNext]_all

(***************************************************************************)
(* Properties.                                                             *)
(***************************************************************************)

\* Every program's variables stay in their ranges.
BoardTypesOK ==
    /\ On("hand") => Hand!TypeOK
    /\ \A p \in Cameras : On(p) => Camera(p)!TypeOK
    /\ \A p \in Trends : On(p) => Trend(p)!TypeOK
    /\ On("output") => Output!TypeOK
    /\ \A p \in Refreshes : On(p) => Refresh(p)!TypeOK
    /\ \A p \in Feeds : On(p) => Feed(p)!TypeOK
    /\ \A p \in Screens : On(p) => Screen(p)!TypeOK
    /\ On("battery") => Battery!TypeOK
    /\ \A p \in Buzzes : On(p) => Buzz(p)!TypeOK
    /\ On("rtc") => Rtc!TypeOK
    /\ \A p \in DOMAIN RailsIn : On(p) => Rails(p)!TypeOK
    /\ On("touch") => Touch!TypeOK
    /\ \A p \in DOMAIN PmuIn : On(p) => Pmu(p)!TypeOK
    /\ \A p \in Mounts : On(p) => Card(p)!TypeOK
    /\ \A p \in DOMAIN StartIn : On(p) => Start(p)!TypeOK

\* A hand that keeps moving gives one command, which is followed only on the
\* screen it was made for; a press on the glass gives one key, when it ends.
GesturesAreMeant ==
    /\ On("hand") => Hand!OneBurstOneCommand /\ Hand!ReleaseOrWaveFirst
    /\ \A p \in Cameras : On(p) => Camera(p)!ActsOnWhatWasShown
    /\ On("touch") => Touch!OnePressOneKey /\ Touch!KeysOnRelease

\* The half hours of usage on the card outlive failed writes, power cuts and
\* exchanged cards; one that is shown is stored, and read from the card that is
\* mounted, which one task at a time sees to.
HistorySurvives ==
    /\ [](\A p \in Trends : On(p) => Trend(p)!ShownIsStored)
    /\ [][\A p \in Trends : On(p) => Trend(p)!NothingIsForgotten]_all
    /\ [](\A p \in Mounts : On(p) => Card(p)!OneMounter /\ Card(p)!ShownIsMounted
                                     /\ Card(p)!HistoryIsTheCards /\ Card(p)!CardIsTried)

\* The glass of an electronic paper shows the last frame once refreshes end,
\* with no more partial refreshes than the budget, and every full refresh that
\* was asked for.  A refresh of the Read Pico drives every line once, in its
\* place and time, or is reported as starved.
GlassIsFrame ==
    /\ \A p \in Refreshes : On(p) => Refresh(p)!GlassIsFrame /\ Refresh(p)!GhostsBounded
    /\ On("mono") => Refresh("mono")!FullIsNotLost
    /\ \A p \in Feeds :
          On(p) => Feed(p)!TornIsReported /\ Feed(p)!NoStaleLines /\ Feed(p)!ScansOnce
    /\ On("feed") => Feed("feed")!GateCoversData
    /\ \A p \in Screens : On(p) => Screen(p)!ShowsOnlyWhatIsRendered /\ Screen(p)!DarknessEnds

\* What the program holds of the hardware is so: the transfer of a frame, the
\* amplifier and the camera are at rest when they are said to be, and a camera
\* is not started again after a release that failed; the high voltages come
\* and go in their order, off when they are said to be, and down after a start,
\* which leaves out no device that answered; the clock chip has the time it was
\* given and its minute is shown; the battery that is shown, and that lets an
\* update in, was read not long ago; a command that the power unit is said to
\* have carried out was answered, and a time that is kept is kept; the buzzer is
\* silent unless a call or a job plays, and is fed from a ring that is there.
HardwareAgrees ==
    /\ [](On("output") => Output!DmaOwnsFrame /\ Output!AmplifierRests)
    /\ [](\A p \in Cameras : On(p) => Camera(p)!OffMeansReleased)
    /\ [][\A p \in Cameras : On(p) => Camera(p)!NoRestartAfterFailure]_all
    /\ [][\A p \in Screens : On(p) => Screen(p)!PreviewOnlyWhenShown]_all
    /\ [](On("battery") => Battery!PowerIsRecent)
    /\ [][On("battery") => Battery!FullIsConfirmed /\ Battery!NoFlicker]_all
    /\ [](On("rtc") => Rtc!ClockRuns /\ Rtc!TimeIsWhole /\ Rtc!MinuteIsShown)
    /\ [](\A p \in DOMAIN PmuIn : On(p) => Pmu(p)!AnsweredIsMine /\ Pmu(p)!SyncIsKept
                                          /\ Pmu(p)!TimeHasOffset)
    /\ [](On("rails") => Rails("rails")!VoltagesInOrder /\ Rails("rails")!OffMeansOff
                         /\ Rails("rails")!FrameIsDriven)
    /\ [][\A p \in DOMAIN RailsIn : On(p) => Rails(p)!LastWriteHeals]_all
    /\ [](\A p \in DOMAIN StartIn : On(p) => Start(p)!StartsDark /\ Start(p)!BusIsFreed
                                            /\ Start(p)!StartIsWhole)
    /\ [](\A p \in Buzzes : On(p) => Buzz(p)!SilentUnlessPlaying /\ Buzz(p)!RingOutlivesTimer
                                      /\ Buzz(p)!GrantedFits)
=============================================================================
