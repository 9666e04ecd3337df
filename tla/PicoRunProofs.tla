--------------------------- MODULE PicoRunProofs ---------------------------
(***************************************************************************)
(* What is proved of the Read Pico, of the history on the card and of its  *)
(* mounting, carried over to the runs of MCPanels and MCBoards, for any    *)
(* situations that satisfy the assumptions of the programs.                *)
(*                                                                         *)
(* A behaviour of a run is one of a single program, in a single situation. *)
(* For each, the module with the program's proofs is instantiated with the *)
(* situation's constants and the run's registers, one instance for the     *)
(* situations of several programs; `...Same` says that it speaks of the    *)
(* very program the run takes, and `...Holds` carries what it proves over  *)
(* to the run.                                                             *)
(***************************************************************************)
EXTENDS MCBoards, MCPanels, TLAPS

\* A run goes on with the program it has started.
LEMMA PicosStay == [PanelsNext]_all => UNCHANGED program
  BY DEF PanelsNext, AmoledNext, RlcdNext, EpaperNext, PicoNext, Runs, all

LEMMA BoardNames ==
    /\ Cameras = {"context", "camera", "capture"} /\ Refreshes = {"mono", "clock", "power", "demo"}
    /\ Feeds = {"feed", "starved", "late"}
    /\ Screens = {"pages", "updates", "settings", "dark", "preview"}
    /\ DOMAIN RailsIn = {"rails", "expander"} /\ DOMAIN StartIn = {"start", "cut"}
    /\ DOMAIN PmuIn = {"answer", "slow"} /\ Buzzes = {"calls", "song", "melody"}
  <1>1. Cameras = {"context", "camera", "capture"} /\ Refreshes = {"mono", "clock", "power", "demo"}
    BY DEF Cameras, CameraIn, Refreshes, RefreshIn
  <1>2. Feeds = {"feed", "starved", "late"} /\ Buzzes = {"calls", "song", "melody"}
    BY DEF Feeds, FeedIn, Buzzes, BuzzIn
  <1>3. Screens = {"pages", "updates", "settings", "dark", "preview"}
    BY DEF Screens, ScreenIn
  <1>4. /\ DOMAIN RailsIn = {"rails", "expander"} /\ DOMAIN StartIn = {"start", "cut"}
        /\ DOMAIN PmuIn = {"answer", "slow"}
    BY DEF RailsIn, StartIn, PmuIn
  <1> QED BY <1>1, <1>2, <1>3, <1>4

LEMMA BoardsStay == [BoardsNext]_all => UNCHANGED program
  BY DEF BoardsNext, ScreenNext, HandNext, CameraNext, TrendNext, OutputNext, RefreshNext,
      FeedNext, CardNext, WiredNext, BuzzNext, Runs, all

(***************************************************************************)
(* What is proved of each program, and what it gives of the runs'          *)
(* properties.                                                             *)
(***************************************************************************)

TrendSafe(p) ==
    Trend(p)!ShownIsStored

TrendStep(p) == Trend(p)!NothingIsForgotten

TrendsSafe == \A p \in Trends : On(p) => TrendSafe(p)
TrendsStep == \A p \in Trends : On(p) => TrendStep(p)

CardSafe(p) ==
    /\ Card(p)!OneMounter /\ Card(p)!ShownIsMounted
    /\ Card(p)!HistoryIsTheCards /\ Card(p)!CardIsTried

CardsSafe == \A p \in Mounts : On(p) => CardSafe(p)

PicoSafe(p) ==
    /\ Pico(p)!TypeOK /\ Pico(p)!SceneIsDrawn
    /\ Pico(p)!GlassIsFrame /\ Pico(p)!GhostsBounded /\ Pico(p)!BarsAreClean

PicoStep(p) == Pico(p)!PromptsAreSeen /\ Pico(p)!FinalFrameIsSeen

PicosSafe == \A p \in Picos : On(p) => PicoSafe(p)
PicosStep == \A p \in Picos : On(p) => PicoStep(p)

LEMMA TrendParts ==
    /\ TrendsSafe =>
          /\ \A p \in Trends : On(p) => Trend(p)!ShownIsStored
    /\ TrendsStep =>
          /\ \A p \in Trends : On(p) => Trend(p)!NothingIsForgotten
  BY DEF TrendsSafe, TrendSafe, TrendsStep, TrendStep

LEMMA CardParts ==
    CardsSafe =>
          /\ \A p \in Mounts :
                On(p) => Card(p)!OneMounter /\ Card(p)!ShownIsMounted
                         /\ Card(p)!HistoryIsTheCards /\ Card(p)!CardIsTried
  BY DEF CardsSafe, CardSafe

LEMMA PicoParts ==
    /\ PicosSafe =>
          /\ \A p \in Picos : OnPico(p) => Pico(p)!TypeOK
          /\ \A p \in Picos : OnPico(p) => Pico(p)!SceneIsDrawn
          /\ \A p \in Picos :
                OnPico(p) => Pico(p)!GlassIsFrame /\ Pico(p)!GhostsBounded
                             /\ Pico(p)!BarsAreClean
    /\ PicosStep =>
          /\ \A p \in Picos : OnPico(p) => Pico(p)!PromptsAreSeen
          /\ \A p \in Picos : OnPico(p) => Pico(p)!FinalFrameIsSeen
  BY DEF PicosSafe, PicoSafe, PicosStep, PicoStep, OnPico, On

(***************************************************************************)
(* The programs of the history on the card.                                *)
(***************************************************************************)

LEMMA TrendBegins ==
    ASSUME NEW p \in Trends, BoardsInit, On(p)
    PROVE  Trend(p)!Init
  BY BoardNames DEF BoardsInit, On, ScreenInit, HandInit, CameraInit, TrendInit, OutputInit,
      RefreshInit, FeedInit, CardInit, WiredInit, BuzzInit, Trends, Mounts

LEMMA TrendContinues ==
    ASSUME NEW p \in Trends, On(p), [BoardsNext]_all
    PROVE  /\ On(p)' /\ [Trend(p)!Next]_(Trend(p)!vars)
           /\ UNCHANGED Trend(p)!vars => UNCHANGED all
  <1>1. CASE TrendNext
    BY <1>1 DEF TrendNext, Runs, On, Trend!Next, Trend!vars, all,
        From7, From8, From9, From10, From11, From12, From14, From15, From16, From17
  <1>2. CASE UNCHANGED all
    BY <1>2 DEF all, On, Trend!vars
  <1>3. ~(ScreenNext \/ HandNext \/ CameraNext \/ OutputNext \/ RefreshNext \/ FeedNext \/
         CardNext \/ WiredNext \/ BuzzNext)
    BY BoardNames DEF ScreenNext, HandNext, CameraNext, OutputNext, RefreshNext, FeedNext,
        CardNext, WiredNext, BuzzNext, Runs, On, Trends, Mounts
  <1> QED BY <1>1, <1>2, <1>3 DEF BoardsNext

Pico1 ==
    INSTANCE PicoProofs WITH
        Events <- PicoIn["taps"][1], Keys <- PicoIn["taps"][2], Options <- PicoIn["taps"][3],
        Commands <- PicoIn["taps"][4], Used <- PicoIn["taps"][5], Outcomes <- PicoIn["taps"][6],
        Soft <- PicoIn["taps"][7], Failures <- PicoIn["taps"][8], Cards <- 1..2, Swaps <- 2,
        Glitches <- CardIn["waits"][1], Patient <- CardIn["waits"][2],
        Board <- TrendIn["pico"][1], Buckets <- TrendIn["pico"][2],
        MaxSwaps <- TrendIn["pico"][3], Retry <- 1, Faults <- 0, Expander <- FALSE,
        StartFaults <- 0, Crashes <- 0, Held <- 0, ota <- r1, view <- r2, ui <- r3, glass <- r4,
        boots <- r5, files <- r1, trend <- r2, loaded <- r3, bucket <- r4, writes <- r5,
        shelf <- r6, slot <- r1, card <- r2, state <- r3, probe <- r4, main <- r5, loop <- r6,
        swaps <- r7, glitches <- r8, pc <- r1, cache <- r2, pins <- r3, chip <- r4, awake <- r5,
        rails <- r6, railsOn <- r7, tries <- r8, faults <- r9, drawn <- r10, at <- r1,
        step <- r2, again <- r3, output <- r4, port <- r5, converters <- r6, held <- r7,
        sensor <- r8, hw <- r9, vcom <- r10, asks <- r11, left <- r12, crashes <- r13,
        lost <- r14

LEMMA TrendPicoSame ==
    /\ Pico1!Trend!ConstantsOK <=> Trend("pico")!ConstantsOK
    /\ Pico1!Trend!Init <=> Trend("pico")!Init
    /\ Pico1!Trend!Next <=> Trend("pico")!Next
    /\ Pico1!Trend!ShownIsStored <=> Trend("pico")!ShownIsStored
    /\ Pico1!Trend!NothingIsForgotten <=> Trend("pico")!NothingIsForgotten
    /\ UNCHANGED Pico1!Trend!vars <=> UNCHANGED Trend("pico")!vars
  <1>1. /\ Pico1!Trend!ConstantsOK <=> Trend("pico")!ConstantsOK
        /\ Pico1!Trend!Init <=> Trend("pico")!Init
    BY Zenon DEF
      Pico1!Trend!ConstantsOK, Pico1!Trend!Missing, Pico1!Trend!Init,
      Trend!ConstantsOK, Trend!Missing, Trend!Init
  <1>2. /\ UNCHANGED Pico1!Trend!vars <=> UNCHANGED Trend("pico")!vars
        /\ Pico1!Trend!ShownIsStored <=> Trend("pico")!ShownIsStored
        /\ Pico1!Trend!NothingIsForgotten <=> Trend("pico")!NothingIsForgotten
    BY Zenon DEF
      Pico1!Trend!vars, Pico1!Trend!Found, Pico1!Trend!NothingIsForgotten,
      Pico1!Trend!ShownIsStored, Pico1!Trend!Max,
      Trend!vars, Trend!Found, Trend!NothingIsForgotten, Trend!ShownIsStored, Trend!Max
  <1>3. Pico1!Trend!Time <=> Trend("pico")!Time
    BY Zenon DEF
      Pico1!Trend!Time,
      Trend!Time
  <1>4. Pico1!Trend!Load <=> Trend("pico")!Load
    BY Zenon DEF
      Pico1!Trend!Found, Pico1!Trend!Load, Pico1!Trend!Max,
      Trend!Found, Trend!Load, Trend!Max
  <1>5. Pico1!Trend!Sample <=> Trend("pico")!Sample
    BY Zenon DEF
      Pico1!Trend!Sample,
      Trend!Sample
  <1>6. Pico1!Trend!Write <=> Trend("pico")!Write
    BY Zenon DEF
      Pico1!Trend!Write,
      Trend!Write
  <1>7. Pico1!Trend!Stat <=> Trend("pico")!Stat
    BY Zenon DEF
      Pico1!Trend!Missing, Pico1!Trend!Replaces, Pico1!Trend!Stat,
      Trend!Missing, Trend!Replaces, Trend!Stat
  <1>8. Pico1!Trend!Remove <=> Trend("pico")!Remove
    BY Zenon DEF
      Pico1!Trend!Missing, Pico1!Trend!Remove,
      Trend!Missing, Trend!Remove
  <1>9. Pico1!Trend!Keep <=> Trend("pico")!Keep
    BY Zenon DEF
      Pico1!Trend!Missing, Pico1!Trend!Renamed, Pico1!Trend!CanRename, Pico1!Trend!Keep,
      Trend!Missing, Trend!Renamed, Trend!CanRename, Trend!Keep
  <1>10. Pico1!Trend!Install <=> Trend("pico")!Install
    BY Zenon DEF
      Pico1!Trend!Missing, Pico1!Trend!Renamed, Pico1!Trend!CanRename, Pico1!Trend!Commits,
      Pico1!Trend!Install,
      Trend!Missing, Trend!Renamed, Trend!CanRename, Trend!Commits, Trend!Install
  <1>11. Pico1!Trend!Crash <=> Trend("pico")!Crash
    BY Zenon DEF
      Pico1!Trend!Crash,
      Trend!Crash
  <1>12. Pico1!Trend!Swap <=> Trend("pico")!Swap
    BY Zenon DEF
      Pico1!Trend!Missing, Pico1!Trend!Swap,
      Trend!Missing, Trend!Swap
  <1>13. Pico1!Trend!Next <=> Trend("pico")!Next
    BY <1>3, <1>4, <1>5, <1>6, <1>7, <1>8, <1>9, <1>10, <1>11, <1>12, Zenon DEF Pico1!Trend!Next, Trend!Next
  <1> QED BY <1>1, <1>2, <1>13, Zenon

LEMMA TrendPicoHolds ==
    BoardsSpec /\ On("pico") =>
        /\ [](On("pico") /\ TrendSafe("pico"))
        /\ [][TrendStep("pico")]_all
  <1>1. "pico" \in Trends
    BY DEF Trends
  <1>2. Pico1!Trend!ConstantsOK
    BY <1>1, BoardsAssumption, TrendPicoSame
  <1>3. BoardsInit /\ On("pico") => Pico1!Trend!Init
    BY <1>1, TrendBegins, TrendPicoSame
  <1>4. On("pico") /\ [BoardsNext]_all => On("pico")' /\ [Pico1!Trend!Next]_(Pico1!Trend!vars)
    BY <1>1, TrendContinues, TrendPicoSame, Zenon
  <1>5. BoardsSpec /\ On("pico") => []On("pico") /\ Pico1!Trend!Spec
    BY <1>3, <1>4, PTL DEF BoardsSpec, Pico1!Trend!Spec
  <1>6. Pico1!Trend!Spec => []Pico1!Trend!ShownIsStored
    BY <1>2, Pico1!TrendIsStored
  <1>7. Pico1!Trend!Spec => [][Pico1!Trend!NothingIsForgotten]_(Pico1!Trend!vars)
    BY <1>2, Pico1!TrendSurvives
  <1>8. Pico1!Trend!ShownIsStored
        => TrendSafe("pico")
    BY TrendPicoSame DEF TrendSafe
  <1>9. On("pico") /\ [BoardsNext]_all /\ [Pico1!Trend!NothingIsForgotten]_(Pico1!Trend!vars)
        => [TrendStep("pico")]_all
    BY <1>1, TrendContinues, TrendPicoSame, Zenon DEF TrendStep
  <1> QED BY <1>5, <1>6, <1>7, <1>8, <1>9, PTL DEF BoardsSpec

Pico2 ==
    INSTANCE PicoProofs WITH
        Events <- PicoIn["bars"][1], Keys <- PicoIn["bars"][2], Options <- PicoIn["bars"][3],
        Commands <- PicoIn["bars"][4], Used <- PicoIn["bars"][5], Outcomes <- PicoIn["bars"][6],
        Soft <- PicoIn["bars"][7], Failures <- PicoIn["bars"][8], Cards <- 1..2, Swaps <- 2,
        Glitches <- CardIn["hasty"][1], Patient <- CardIn["hasty"][2],
        Board <- TrendIn["rlcd"][1], Buckets <- TrendIn["rlcd"][2],
        MaxSwaps <- TrendIn["rlcd"][3], Retry <- 1, Faults <- 0, Expander <- FALSE,
        StartFaults <- 0, Crashes <- 0, Held <- 0, ota <- r1, view <- r2, ui <- r3, glass <- r4,
        boots <- r5, files <- r1, trend <- r2, loaded <- r3, bucket <- r4, writes <- r5,
        shelf <- r6, slot <- r1, card <- r2, state <- r3, probe <- r4, main <- r5, loop <- r6,
        swaps <- r7, glitches <- r8, pc <- r1, cache <- r2, pins <- r3, chip <- r4, awake <- r5,
        rails <- r6, railsOn <- r7, tries <- r8, faults <- r9, drawn <- r10, at <- r1,
        step <- r2, again <- r3, output <- r4, port <- r5, converters <- r6, held <- r7,
        sensor <- r8, hw <- r9, vcom <- r10, asks <- r11, left <- r12, crashes <- r13,
        lost <- r14

LEMMA TrendRlcdSame ==
    /\ Pico2!Trend!ConstantsOK <=> Trend("rlcd")!ConstantsOK
    /\ Pico2!Trend!Init <=> Trend("rlcd")!Init
    /\ Pico2!Trend!Next <=> Trend("rlcd")!Next
    /\ Pico2!Trend!ShownIsStored <=> Trend("rlcd")!ShownIsStored
    /\ Pico2!Trend!NothingIsForgotten <=> Trend("rlcd")!NothingIsForgotten
    /\ UNCHANGED Pico2!Trend!vars <=> UNCHANGED Trend("rlcd")!vars
  <1>1. /\ Pico2!Trend!ConstantsOK <=> Trend("rlcd")!ConstantsOK
        /\ Pico2!Trend!Init <=> Trend("rlcd")!Init
    BY Zenon DEF
      Pico2!Trend!ConstantsOK, Pico2!Trend!Missing, Pico2!Trend!Init,
      Trend!ConstantsOK, Trend!Missing, Trend!Init
  <1>2. /\ UNCHANGED Pico2!Trend!vars <=> UNCHANGED Trend("rlcd")!vars
        /\ Pico2!Trend!ShownIsStored <=> Trend("rlcd")!ShownIsStored
        /\ Pico2!Trend!NothingIsForgotten <=> Trend("rlcd")!NothingIsForgotten
    BY Zenon DEF
      Pico2!Trend!vars, Pico2!Trend!Found, Pico2!Trend!NothingIsForgotten,
      Pico2!Trend!ShownIsStored, Pico2!Trend!Max,
      Trend!vars, Trend!Found, Trend!NothingIsForgotten, Trend!ShownIsStored, Trend!Max
  <1>3. Pico2!Trend!Time <=> Trend("rlcd")!Time
    BY Zenon DEF
      Pico2!Trend!Time,
      Trend!Time
  <1>4. Pico2!Trend!Load <=> Trend("rlcd")!Load
    BY Zenon DEF
      Pico2!Trend!Found, Pico2!Trend!Load, Pico2!Trend!Max,
      Trend!Found, Trend!Load, Trend!Max
  <1>5. Pico2!Trend!Sample <=> Trend("rlcd")!Sample
    BY Zenon DEF
      Pico2!Trend!Sample,
      Trend!Sample
  <1>6. Pico2!Trend!Write <=> Trend("rlcd")!Write
    BY Zenon DEF
      Pico2!Trend!Write,
      Trend!Write
  <1>7. Pico2!Trend!Stat <=> Trend("rlcd")!Stat
    BY Zenon DEF
      Pico2!Trend!Missing, Pico2!Trend!Replaces, Pico2!Trend!Stat,
      Trend!Missing, Trend!Replaces, Trend!Stat
  <1>8. Pico2!Trend!Remove <=> Trend("rlcd")!Remove
    BY Zenon DEF
      Pico2!Trend!Missing, Pico2!Trend!Remove,
      Trend!Missing, Trend!Remove
  <1>9. Pico2!Trend!Keep <=> Trend("rlcd")!Keep
    BY Zenon DEF
      Pico2!Trend!Missing, Pico2!Trend!Renamed, Pico2!Trend!CanRename, Pico2!Trend!Keep,
      Trend!Missing, Trend!Renamed, Trend!CanRename, Trend!Keep
  <1>10. Pico2!Trend!Install <=> Trend("rlcd")!Install
    BY Zenon DEF
      Pico2!Trend!Missing, Pico2!Trend!Renamed, Pico2!Trend!CanRename, Pico2!Trend!Commits,
      Pico2!Trend!Install,
      Trend!Missing, Trend!Renamed, Trend!CanRename, Trend!Commits, Trend!Install
  <1>11. Pico2!Trend!Crash <=> Trend("rlcd")!Crash
    BY Zenon DEF
      Pico2!Trend!Crash,
      Trend!Crash
  <1>12. Pico2!Trend!Swap <=> Trend("rlcd")!Swap
    BY Zenon DEF
      Pico2!Trend!Missing, Pico2!Trend!Swap,
      Trend!Missing, Trend!Swap
  <1>13. Pico2!Trend!Next <=> Trend("rlcd")!Next
    BY <1>3, <1>4, <1>5, <1>6, <1>7, <1>8, <1>9, <1>10, <1>11, <1>12, Zenon DEF Pico2!Trend!Next, Trend!Next
  <1> QED BY <1>1, <1>2, <1>13, Zenon

LEMMA TrendRlcdHolds ==
    BoardsSpec /\ On("rlcd") =>
        /\ [](On("rlcd") /\ TrendSafe("rlcd"))
        /\ [][TrendStep("rlcd")]_all
  <1>1. "rlcd" \in Trends
    BY DEF Trends
  <1>2. Pico2!Trend!ConstantsOK
    BY <1>1, BoardsAssumption, TrendRlcdSame
  <1>3. BoardsInit /\ On("rlcd") => Pico2!Trend!Init
    BY <1>1, TrendBegins, TrendRlcdSame
  <1>4. On("rlcd") /\ [BoardsNext]_all => On("rlcd")' /\ [Pico2!Trend!Next]_(Pico2!Trend!vars)
    BY <1>1, TrendContinues, TrendRlcdSame, Zenon
  <1>5. BoardsSpec /\ On("rlcd") => []On("rlcd") /\ Pico2!Trend!Spec
    BY <1>3, <1>4, PTL DEF BoardsSpec, Pico2!Trend!Spec
  <1>6. Pico2!Trend!Spec => []Pico2!Trend!ShownIsStored
    BY <1>2, Pico2!TrendIsStored
  <1>7. Pico2!Trend!Spec => [][Pico2!Trend!NothingIsForgotten]_(Pico2!Trend!vars)
    BY <1>2, Pico2!TrendSurvives
  <1>8. Pico2!Trend!ShownIsStored
        => TrendSafe("rlcd")
    BY TrendRlcdSame DEF TrendSafe
  <1>9. On("rlcd") /\ [BoardsNext]_all /\ [Pico2!Trend!NothingIsForgotten]_(Pico2!Trend!vars)
        => [TrendStep("rlcd")]_all
    BY <1>1, TrendContinues, TrendRlcdSame, Zenon DEF TrendStep
  <1> QED BY <1>5, <1>6, <1>7, <1>8, <1>9, PTL DEF BoardsSpec

LEMMA TrendHolds == BoardsSpec => []TrendsSafe /\ [][TrendsStep]_all
  <1> DEFINE Other == \A p \in Trends : ~On(p)
  <1>1. Other /\ [BoardsNext]_all => Other'
    BY BoardsStay DEF On
  <1>2. On("pico") => (TrendSafe("pico") => TrendsSafe) /\ (TrendStep("pico") => TrendsStep)
    BY DEF On, TrendsSafe, TrendsStep
  <1>3. On("rlcd") => (TrendSafe("rlcd") => TrendsSafe) /\ (TrendStep("rlcd") => TrendsStep)
    BY DEF On, TrendsSafe, TrendsStep
  <1>4. Other => TrendsSafe /\ TrendsStep
    BY DEF TrendsSafe, TrendsStep
  <1>5. Other \/ On("pico") \/ On("rlcd")
    BY DEF Trends
  <1> HIDE DEF Other
  <1> QED
    BY <1>1, <1>2, <1>3, <1>4, <1>5,
      TrendPicoHolds, TrendRlcdHolds, PTL DEF BoardsSpec

(***************************************************************************)
(* The programs of the mounting of the card.                               *)
(***************************************************************************)

LEMMA CardBegins ==
    ASSUME NEW p \in Mounts, BoardsInit, On(p)
    PROVE  Card(p)!Init
  BY BoardNames DEF BoardsInit, On, ScreenInit, HandInit, CameraInit, TrendInit, OutputInit,
      RefreshInit, FeedInit, CardInit, WiredInit, BuzzInit, Trends, Mounts

LEMMA CardContinues ==
    ASSUME NEW p \in Mounts, On(p), [BoardsNext]_all
    PROVE  /\ On(p)' /\ [Card(p)!Next]_(Card(p)!vars)
           /\ UNCHANGED Card(p)!vars => UNCHANGED all
  <1>1. CASE CardNext
    BY <1>1 DEF CardNext, Runs, On, Card!Next, Card!vars, all,
        From9, From10, From11, From12, From14, From15, From16, From17
  <1>2. CASE UNCHANGED all
    BY <1>2 DEF all, On, Card!vars
  <1>3. ~(ScreenNext \/ HandNext \/ CameraNext \/ TrendNext \/ OutputNext \/ RefreshNext \/
         FeedNext \/ WiredNext \/ BuzzNext)
    BY BoardNames DEF ScreenNext, HandNext, CameraNext, TrendNext, OutputNext, RefreshNext,
        FeedNext, WiredNext, BuzzNext, Runs, On, Trends, Mounts
  <1> QED BY <1>1, <1>2, <1>3 DEF BoardsNext

LEMMA CardWaitsSame ==
    /\ Pico1!Sd!ConstantsOK <=> Card("waits")!ConstantsOK
    /\ Pico1!Sd!Init <=> Card("waits")!Init
    /\ Pico1!Sd!Next <=> Card("waits")!Next
    /\ Pico1!Sd!OneMounter <=> Card("waits")!OneMounter
    /\ Pico1!Sd!ShownIsMounted <=> Card("waits")!ShownIsMounted
    /\ Pico1!Sd!HistoryIsTheCards <=> Card("waits")!HistoryIsTheCards
    /\ Pico1!Sd!CardIsTried <=> Card("waits")!CardIsTried
    /\ UNCHANGED Pico1!Sd!vars <=> UNCHANGED Card("waits")!vars
  <1>1. /\ Pico1!Sd!ConstantsOK <=> Card("waits")!ConstantsOK
        /\ Pico1!Sd!Init <=> Card("waits")!Init
    BY Zenon DEF
      Pico1!Sd!ConstantsOK, Pico1!Sd!NoInfo, Pico1!Sd!Init,
      Card!ConstantsOK, Card!NoInfo, Card!Init
  <1>2. /\ UNCHANGED Pico1!Sd!vars <=> UNCHANGED Card("waits")!vars
        /\ Pico1!Sd!OneMounter <=> Card("waits")!OneMounter
        /\ Pico1!Sd!ShownIsMounted <=> Card("waits")!ShownIsMounted
        /\ Pico1!Sd!HistoryIsTheCards <=> Card("waits")!HistoryIsTheCards
        /\ Pico1!Sd!CardIsTried <=> Card("waits")!CardIsTried
    BY Zenon DEF
      Pico1!Sd!vars, Pico1!Sd!OneMounter, Pico1!Sd!ShownIsMounted, Pico1!Sd!HistoryIsTheCards,
      Pico1!Sd!CardIsTried,
      Card!vars, Card!OneMounter, Card!ShownIsMounted, Card!HistoryIsTheCards, Card!CardIsTried
  <1>3. Pico1!Sd!Task <=> Card("waits")!Task
    BY Zenon DEF
      Pico1!Sd!MayBeUsed, Pico1!Sd!Observed, Pico1!Sd!Samples, Pico1!Sd!ProbeSample,
      Pico1!Sd!Mount, Pico1!Sd!ProbeInfo, Pico1!Sd!Publish, Pico1!Sd!Task,
      Card!MayBeUsed, Card!Observed, Card!Samples, Card!ProbeSample, Card!Mount, Card!ProbeInfo,
      Card!Publish, Card!Task
  <1>4. Pico1!Sd!Loop <=> Card("waits")!Loop
    BY Zenon DEF
      Pico1!Sd!NoInfo, Pico1!Sd!MayBeUsed, Pico1!Sd!Observed, Pico1!Sd!Samples,
      Pico1!Sd!PollSample, Pico1!Sd!HistoryGone, Pico1!Sd!Get, Pico1!Sd!Ready, Pico1!Sd!Remount,
      Pico1!Sd!Close, Pico1!Sd!Reset, Pico1!Sd!Start, Pico1!Sd!Load, Pico1!Sd!Loop,
      Card!NoInfo, Card!MayBeUsed, Card!Observed, Card!Samples, Card!PollSample,
      Card!HistoryGone, Card!Get, Card!Ready, Card!Remount, Card!Close, Card!Reset, Card!Start,
      Card!Load, Card!Loop
  <1>5. Pico1!Sd!User <=> Card("waits")!User
    BY Zenon DEF
      Pico1!Sd!TakeOut, Pico1!Sd!PutIn, Pico1!Sd!User,
      Card!TakeOut, Card!PutIn, Card!User
  <1>6. Pico1!Sd!Next <=> Card("waits")!Next
    BY <1>3, <1>4, <1>5, Zenon DEF Pico1!Sd!Next, Card!Next
  <1> QED BY <1>1, <1>2, <1>6, Zenon

LEMMA CardWaitsHolds ==
    BoardsSpec /\ On("waits") =>
        /\ [](On("waits") /\ CardSafe("waits"))
  <1>1. "waits" \in Mounts
    BY DEF Mounts
  <1>2. Pico1!Sd!ConstantsOK
    BY <1>1, BoardsAssumption, CardWaitsSame
  <1>3. BoardsInit /\ On("waits") => Pico1!Sd!Init
    BY <1>1, CardBegins, CardWaitsSame
  <1>4. On("waits") /\ [BoardsNext]_all => On("waits")' /\ [Pico1!Sd!Next]_(Pico1!Sd!vars)
    BY <1>1, CardContinues, CardWaitsSame, Zenon
  <1>5. BoardsSpec /\ On("waits") => []On("waits") /\ Pico1!Sd!Spec
    BY <1>3, <1>4, PTL DEF BoardsSpec, Pico1!Sd!Spec
  <1>6. Pico1!Sd!Spec => []Pico1!Sd!OneMounter
    BY <1>2, Pico1!CardOneMounter
  <1>7. Pico1!Sd!Spec => []Pico1!Sd!ShownIsMounted
    BY <1>2, Pico1!CardShown
  <1>8. Pico1!Sd!Spec => []Pico1!Sd!HistoryIsTheCards
    BY <1>2, Pico1!CardHistory
  <1>9. Pico1!Sd!Spec => []Pico1!Sd!CardIsTried
    BY <1>2, Pico1!CardTried
  <1>10. Pico1!Sd!OneMounter /\ Pico1!Sd!ShownIsMounted /\ Pico1!Sd!HistoryIsTheCards /\
        Pico1!Sd!CardIsTried
        => CardSafe("waits")
    BY CardWaitsSame DEF CardSafe
  <1> QED BY <1>5, <1>6, <1>7, <1>8, <1>9, <1>10, PTL DEF BoardsSpec

LEMMA CardHastySame ==
    /\ Pico2!Sd!ConstantsOK <=> Card("hasty")!ConstantsOK
    /\ Pico2!Sd!Init <=> Card("hasty")!Init
    /\ Pico2!Sd!Next <=> Card("hasty")!Next
    /\ Pico2!Sd!OneMounter <=> Card("hasty")!OneMounter
    /\ Pico2!Sd!ShownIsMounted <=> Card("hasty")!ShownIsMounted
    /\ Pico2!Sd!HistoryIsTheCards <=> Card("hasty")!HistoryIsTheCards
    /\ Pico2!Sd!CardIsTried <=> Card("hasty")!CardIsTried
    /\ UNCHANGED Pico2!Sd!vars <=> UNCHANGED Card("hasty")!vars
  <1>1. /\ Pico2!Sd!ConstantsOK <=> Card("hasty")!ConstantsOK
        /\ Pico2!Sd!Init <=> Card("hasty")!Init
    BY Zenon DEF
      Pico2!Sd!ConstantsOK, Pico2!Sd!NoInfo, Pico2!Sd!Init,
      Card!ConstantsOK, Card!NoInfo, Card!Init
  <1>2. /\ UNCHANGED Pico2!Sd!vars <=> UNCHANGED Card("hasty")!vars
        /\ Pico2!Sd!OneMounter <=> Card("hasty")!OneMounter
        /\ Pico2!Sd!ShownIsMounted <=> Card("hasty")!ShownIsMounted
        /\ Pico2!Sd!HistoryIsTheCards <=> Card("hasty")!HistoryIsTheCards
        /\ Pico2!Sd!CardIsTried <=> Card("hasty")!CardIsTried
    BY Zenon DEF
      Pico2!Sd!vars, Pico2!Sd!OneMounter, Pico2!Sd!ShownIsMounted, Pico2!Sd!HistoryIsTheCards,
      Pico2!Sd!CardIsTried,
      Card!vars, Card!OneMounter, Card!ShownIsMounted, Card!HistoryIsTheCards, Card!CardIsTried
  <1>3. Pico2!Sd!Task <=> Card("hasty")!Task
    BY Zenon DEF
      Pico2!Sd!MayBeUsed, Pico2!Sd!Observed, Pico2!Sd!Samples, Pico2!Sd!ProbeSample,
      Pico2!Sd!Mount, Pico2!Sd!ProbeInfo, Pico2!Sd!Publish, Pico2!Sd!Task,
      Card!MayBeUsed, Card!Observed, Card!Samples, Card!ProbeSample, Card!Mount, Card!ProbeInfo,
      Card!Publish, Card!Task
  <1>4. Pico2!Sd!Loop <=> Card("hasty")!Loop
    BY Zenon DEF
      Pico2!Sd!NoInfo, Pico2!Sd!MayBeUsed, Pico2!Sd!Observed, Pico2!Sd!Samples,
      Pico2!Sd!PollSample, Pico2!Sd!HistoryGone, Pico2!Sd!Get, Pico2!Sd!Ready, Pico2!Sd!Remount,
      Pico2!Sd!Close, Pico2!Sd!Reset, Pico2!Sd!Start, Pico2!Sd!Load, Pico2!Sd!Loop,
      Card!NoInfo, Card!MayBeUsed, Card!Observed, Card!Samples, Card!PollSample,
      Card!HistoryGone, Card!Get, Card!Ready, Card!Remount, Card!Close, Card!Reset, Card!Start,
      Card!Load, Card!Loop
  <1>5. Pico2!Sd!User <=> Card("hasty")!User
    BY Zenon DEF
      Pico2!Sd!TakeOut, Pico2!Sd!PutIn, Pico2!Sd!User,
      Card!TakeOut, Card!PutIn, Card!User
  <1>6. Pico2!Sd!Next <=> Card("hasty")!Next
    BY <1>3, <1>4, <1>5, Zenon DEF Pico2!Sd!Next, Card!Next
  <1> QED BY <1>1, <1>2, <1>6, Zenon

LEMMA CardHastyHolds ==
    BoardsSpec /\ On("hasty") =>
        /\ [](On("hasty") /\ CardSafe("hasty"))
  <1>1. "hasty" \in Mounts
    BY DEF Mounts
  <1>2. Pico2!Sd!ConstantsOK
    BY <1>1, BoardsAssumption, CardHastySame
  <1>3. BoardsInit /\ On("hasty") => Pico2!Sd!Init
    BY <1>1, CardBegins, CardHastySame
  <1>4. On("hasty") /\ [BoardsNext]_all => On("hasty")' /\ [Pico2!Sd!Next]_(Pico2!Sd!vars)
    BY <1>1, CardContinues, CardHastySame, Zenon
  <1>5. BoardsSpec /\ On("hasty") => []On("hasty") /\ Pico2!Sd!Spec
    BY <1>3, <1>4, PTL DEF BoardsSpec, Pico2!Sd!Spec
  <1>6. Pico2!Sd!Spec => []Pico2!Sd!OneMounter
    BY <1>2, Pico2!CardOneMounter
  <1>7. Pico2!Sd!Spec => []Pico2!Sd!ShownIsMounted
    BY <1>2, Pico2!CardShown
  <1>8. Pico2!Sd!Spec => []Pico2!Sd!HistoryIsTheCards
    BY <1>2, Pico2!CardHistory
  <1>9. Pico2!Sd!Spec => []Pico2!Sd!CardIsTried
    BY <1>2, Pico2!CardTried
  <1>10. Pico2!Sd!OneMounter /\ Pico2!Sd!ShownIsMounted /\ Pico2!Sd!HistoryIsTheCards /\
        Pico2!Sd!CardIsTried
        => CardSafe("hasty")
    BY CardHastySame DEF CardSafe
  <1> QED BY <1>5, <1>6, <1>7, <1>8, <1>9, <1>10, PTL DEF BoardsSpec

LEMMA CardHolds == BoardsSpec => []CardsSafe
  <1> DEFINE Other == \A p \in Mounts : ~On(p)
  <1>1. Other /\ [BoardsNext]_all => Other'
    BY BoardsStay DEF On
  <1>2. On("waits") => (CardSafe("waits") => CardsSafe)
    BY DEF On, CardsSafe
  <1>3. On("hasty") => (CardSafe("hasty") => CardsSafe)
    BY DEF On, CardsSafe
  <1>4. Other => CardsSafe
    BY DEF CardsSafe
  <1>5. Other \/ On("waits") \/ On("hasty")
    BY DEF Mounts
  <1> HIDE DEF Other
  <1> QED
    BY <1>1, <1>2, <1>3, <1>4, <1>5,
      CardWaitsHolds, CardHastyHolds, PTL DEF BoardsSpec

(***************************************************************************)
(* The programs of the Read Pico.                                          *)
(***************************************************************************)

LEMMA PicoBegins ==
    ASSUME NEW p \in Picos, PanelsInit, On(p)
    PROVE  Pico(p)!Init
  BY DEF PanelsInit, On, AmoledInit, RlcdInit, EpaperInit, PicoInit, Amoleds, Rlcds,
      Epapers, Picos

LEMMA PicoContinues ==
    ASSUME NEW p \in Picos, On(p), [PanelsNext]_all
    PROVE  /\ On(p)' /\ [Pico(p)!Next]_(Pico(p)!vars)
           /\ UNCHANGED Pico(p)!vars => UNCHANGED all
  <1>1. CASE PicoNext
    BY <1>1 DEF PicoNext, Runs, On, Pico!Next, Pico!vars, all,
        From6, From7, From8, From9, From10, From11, From12, From14, From15, From16, From17
  <1>2. CASE UNCHANGED all
    BY <1>2 DEF all, On, Pico!vars
  <1>3. ~(AmoledNext \/ RlcdNext \/ EpaperNext)
    BY DEF AmoledNext, RlcdNext, EpaperNext, Runs, On, Amoleds, Rlcds, Epapers, Picos
  <1> QED BY <1>1, <1>2, <1>3 DEF PanelsNext

LEMMA PicoTapsSame ==
    /\ Pico1!Panel!ConstantsOK <=> Pico("taps")!ConstantsOK
    /\ Pico1!Panel!Init <=> Pico("taps")!Init
    /\ Pico1!Panel!Next <=> Pico("taps")!Next
    /\ Pico1!Panel!TypeOK <=> Pico("taps")!TypeOK
    /\ Pico1!Panel!SceneIsDrawn <=> Pico("taps")!SceneIsDrawn
    /\ Pico1!Panel!GlassIsFrame <=> Pico("taps")!GlassIsFrame
    /\ Pico1!Panel!GhostsBounded <=> Pico("taps")!GhostsBounded
    /\ Pico1!Panel!BarsAreClean <=> Pico("taps")!BarsAreClean
    /\ Pico1!Panel!PromptsAreSeen <=> Pico("taps")!PromptsAreSeen
    /\ Pico1!Panel!FinalFrameIsSeen <=> Pico("taps")!FinalFrameIsSeen
    /\ UNCHANGED Pico1!Panel!vars <=> UNCHANGED Pico("taps")!vars
  <1>1. /\ Pico1!Panel!ConstantsOK <=> Pico("taps")!ConstantsOK
        /\ Pico1!Panel!Init <=> Pico("taps")!Init
    BY Zenon DEF
      Pico1!Panel!Missing, Pico1!Panel!ConstantsOK, Pico1!Panel!Boot, Pico1!Panel!NoOta,
      Pico1!Panel!Blank, Pico1!Panel!Paper, Pico1!Panel!NothingDrawn, Pico1!Panel!Init,
      Pico!Missing, Pico!ConstantsOK, Pico!Boot, Pico!NoOta, Pico!Blank, Pico!Paper,
      Pico!NothingDrawn, Pico!Init
  <1>2. /\ UNCHANGED Pico1!Panel!vars <=> UNCHANGED Pico("taps")!vars
        /\ Pico1!Panel!TypeOK <=> Pico("taps")!TypeOK
        /\ Pico1!Panel!SceneIsDrawn <=> Pico("taps")!SceneIsDrawn
        /\ Pico1!Panel!GlassIsFrame <=> Pico("taps")!GlassIsFrame
        /\ Pico1!Panel!GhostsBounded <=> Pico("taps")!GhostsBounded
        /\ Pico1!Panel!BarsAreClean <=> Pico("taps")!BarsAreClean
        /\ Pico1!Panel!PromptsAreSeen <=> Pico("taps")!PromptsAreSeen
        /\ Pico1!Panel!FinalFrameIsSeen <=> Pico("taps")!FinalFrameIsSeen
    BY Zenon DEF
      Pico1!Panel!vars, Pico1!Panel!Missing, Pico1!Panel!Phases, Pico1!Panel!TypeOK,
      Pico1!Panel!Scene, Pico1!Panel!HomeFrame, Pico1!Panel!ClockFrame,
      Pico1!Panel!SettingsFrame, Pico1!Panel!PromptFrame, Pico1!Panel!Frame, Pico1!Panel!Bar,
      Pico1!Panel!Ink, Pico1!Panel!Busy, Pico1!Panel!SceneIsDrawn, Pico1!Panel!GlassIsFrame,
      Pico1!Panel!GhostsBounded, Pico1!Panel!BarsAreClean, Pico1!Panel!PromptsAreSeen,
      Pico1!Panel!FinalFrameIsSeen,
      Pico!vars, Pico!Missing, Pico!Phases, Pico!TypeOK, Pico!Scene, Pico!HomeFrame,
      Pico!ClockFrame, Pico!SettingsFrame, Pico!PromptFrame, Pico!Frame, Pico!Bar, Pico!Ink,
      Pico!Busy, Pico!SceneIsDrawn, Pico!GlassIsFrame, Pico!GhostsBounded, Pico!BarsAreClean,
      Pico!PromptsAreSeen, Pico!FinalFrameIsSeen
  <1>3. Pico1!Panel!OtaMoves <=> Pico("taps")!OtaMoves
    BY Zenon DEF
      Pico1!Panel!Fail, Pico1!Panel!Given, Pico1!Panel!Moved, Pico1!Panel!OtaMoves,
      Pico!Fail, Pico!Given, Pico!Moved, Pico!OtaMoves
  <1>4. Pico1!Panel!Iteration <=> Pico("taps")!Iteration
    <2>1. ASSUME NEW asked, NEW command
          PROVE  Pico1!Panel!Demonstrated(asked, command)
                    = Pico("taps")!Demonstrated(asked, command)
      BY Zenon DEF
        Pico1!Panel!Missing, Pico1!Panel!Blank, Pico1!Panel!Paper, Pico1!Panel!Scene,
        Pico1!Panel!HomeFrame, Pico1!Panel!ClockFrame, Pico1!Panel!SettingsFrame,
        Pico1!Panel!PromptFrame, Pico1!Panel!Frame, Pico1!Panel!Bar, Pico1!Panel!Ink,
        Pico1!Panel!Demo, Pico1!Panel!White, Pico1!Panel!Torn, Pico1!Panel!More,
        Pico1!Panel!Driven, Pico1!Panel!Full, Pico1!Panel!LimitReached, Pico1!Panel!Failed,
        Pico1!Panel!Rendered, Pico1!Panel!Busy, Pico1!Panel!Demonstrated,
        Pico!Missing, Pico!Blank, Pico!Paper, Pico!Scene, Pico!HomeFrame, Pico!ClockFrame,
        Pico!SettingsFrame, Pico!PromptFrame, Pico!Frame, Pico!Bar, Pico!Ink, Pico!Demo,
        Pico!White, Pico!Torn, Pico!More, Pico!Driven, Pico!Full, Pico!LimitReached,
        Pico!Failed, Pico!Rendered, Pico!Busy, Pico!Demonstrated
    <2>2. ASSUME NEW v, NEW o
          PROVE  Pico1!Panel!Prompted(v, o)
                    = Pico("taps")!Prompted(v, o)
      BY Zenon DEF
        Pico1!Panel!Busy, Pico1!Panel!Prompted,
        Pico!Busy, Pico!Prompted
    <2>3. ASSUME NEW done, NEW u, NEW g
          PROVE  Pico1!Panel!Draws(done, u, g)
                    <=> Pico("taps")!Draws(done, u, g)
      BY Zenon DEF
        Pico1!Panel!Missing, Pico1!Panel!Blank, Pico1!Panel!Paper, Pico1!Panel!Scene,
        Pico1!Panel!HomeFrame, Pico1!Panel!ClockFrame, Pico1!Panel!SettingsFrame,
        Pico1!Panel!PromptFrame, Pico1!Panel!Frame, Pico1!Panel!Bar, Pico1!Panel!Ink,
        Pico1!Panel!White, Pico1!Panel!Torn, Pico1!Panel!More, Pico1!Panel!Driven,
        Pico1!Panel!Full, Pico1!Panel!LimitReached, Pico1!Panel!Failed, Pico1!Panel!Rendered,
        Pico1!Panel!RebootDrawn, Pico1!Panel!Draws,
        Pico!Missing, Pico!Blank, Pico!Paper, Pico!Scene, Pico!HomeFrame, Pico!ClockFrame,
        Pico!SettingsFrame, Pico!PromptFrame, Pico!Frame, Pico!Bar, Pico!Ink, Pico!White,
        Pico!Torn, Pico!More, Pico!Driven, Pico!Full, Pico!LimitReached, Pico!Failed,
        Pico!Rendered, Pico!RebootDrawn, Pico!Draws
    <2>4. ASSUME NEW done, NEW u, NEW g
          PROVE  Pico1!Panel!Waits(done, u, g)
                    <=> Pico("taps")!Waits(done, u, g)
      BY Zenon DEF
        Pico1!Panel!Waits,
        Pico!Waits
    <2>5. ASSUME NEW v, NEW e, NEW o
          PROVE  Pico1!Panel!Received(v, e, o)
                    = Pico("taps")!Received(v, e, o)
      BY Zenon DEF
        Pico1!Panel!Busy, Pico1!Panel!Toggled, Pico1!Panel!Received,
        Pico!Busy, Pico!Toggled, Pico!Received
    <2>6. ASSUME NEW v, NEW used
          PROVE  Pico1!Panel!Published(v, used)
                    = Pico("taps")!Published(v, used)
      BY Zenon DEF
        Pico1!Panel!Missing, Pico1!Panel!Warning, Pico1!Panel!Shrinks, Pico1!Panel!Published,
        Pico!Missing, Pico!Warning, Pico!Shrinks, Pico!Published
    <2>7. ASSUME NEW v
          PROVE  Pico1!Panel!Targets(v)
                    = Pico("taps")!Targets(v)
      BY Zenon DEF
        Pico1!Panel!Scene, Pico1!Panel!Targets,
        Pico!Scene, Pico!Targets
    <2>8. ASSUME NEW v, NEW i, NEW o
          PROVE  Pico1!Panel!Answered(v, i, o)
                    = Pico("taps")!Answered(v, i, o)
      BY Zenon DEF
        Pico1!Panel!Fail, Pico1!Panel!Answered,
        Pico!Fail, Pico!Answered
    <2>9. ASSUME NEW v, NEW i, NEW o
          PROVE  Pico1!Panel!Touched(v, i, o)
                    = Pico("taps")!Touched(v, i, o)
      BY Zenon DEF
        Pico1!Panel!Busy, Pico1!Panel!Toggled, Pico1!Panel!Chosen, Pico1!Panel!Touched,
        Pico!Busy, Pico!Toggled, Pico!Chosen, Pico!Touched
    <2>10. ASSUME NEW v, NEW t, NEW o
          PROVE  Pico1!Panel!Turned(v, t, o)
                    = Pico("taps")!Turned(v, t, o)
      BY Zenon DEF
        Pico1!Panel!Busy, Pico1!Panel!Turned,
        Pico!Busy, Pico!Turned
    <2>11. ASSUME NEW v, NEW moved
          PROVE  Pico1!Panel!PickedUp(v, moved)
                    = Pico("taps")!PickedUp(v, moved)
      BY Zenon DEF
        Pico1!Panel!PickedUp,
        Pico!PickedUp
    <2>12. ASSUME NEW v, NEW o
          PROVE  Pico1!Panel!TimedOut(v, o)
                    = Pico("taps")!TimedOut(v, o)
      BY Zenon DEF
        Pico1!Panel!Busy, Pico1!Panel!TimedOut,
        Pico!Busy, Pico!TimedOut
    <2>13. ASSUME NEW v, NEW c, NEW o
          PROVE  Pico1!Panel!Commanded(v, c, o)
                    = Pico("taps")!Commanded(v, c, o)
      BY Zenon DEF
        Pico1!Panel!Busy, Pico1!Panel!Commanded,
        Pico!Busy, Pico!Commanded
    <2>14. ASSUME NEW o
          PROVE  Pico1!Panel!Moved(o)
                    = Pico("taps")!Moved(o)
      BY Zenon DEF
        Pico1!Panel!Fail, Pico1!Panel!Given, Pico1!Panel!Moved,
        Pico!Fail, Pico!Given, Pico!Moved
    <2>15. ASSUME NEW v, NEW dt
          PROVE  Pico1!Panel!Snapshot(v, dt)
                    = Pico("taps")!Snapshot(v, dt)
      BY Zenon DEF
        Pico1!Panel!Less, Pico1!Panel!Least, Pico1!Panel!Snapshot,
        Pico!Less, Pico!Least, Pico!Snapshot
    <2>16. ASSUME NEW v
          PROVE  Pico1!Panel!Restarts(v)
                    <=> Pico("taps")!Restarts(v)
      BY Zenon DEF
        Pico1!Panel!Restarts,
        Pico!Restarts
    <2> DEFINE One(asked, command) ==
            \E demo \in Pico1!Panel!Demonstrated(asked, command),
                  done \in {Pico1!Panel!Prompted(asked, r1')} :
               Pico1!Panel!Draws(done, demo[1], demo[2]) \/ Pico1!Panel!Waits(done, demo[1], demo[2])
    <2> DEFINE Other(asked, command) ==
            \E demo \in Pico("taps")!Demonstrated(asked, command),
                  done \in {Pico("taps")!Prompted(asked, r1')} :
               Pico("taps")!Draws(done, demo[1], demo[2]) \/ Pico("taps")!Waits(done, demo[1], demo[2])
    <2>17. ASSUME NEW asked, NEW command
           PROVE  One(asked, command) <=> Other(asked, command)
      BY <2>1, <2>2, <2>3, <2>4, Zenon
    <2> HIDE DEF One, Other
    <2> DEFINE OneInputs(h) == PicoIn["taps"][2] \cup {"none"} \cup
                    (IF PicoIn["taps"][3] = {} THEN {} ELSE Pico1!Panel!Targets(h))
               OneTilts == IF "tilt" \in PicoIn["taps"][1] THEN Pico1!Panel!Tilts ELSE {"flat"}
               OneTurned(h, e, l, input, tilt) ==
                    Pico1!Panel!PickedUp(Pico1!Panel!Turned(Pico1!Panel!Touched(h, input, l), tilt, r1'), e = "tilt")
               OneAsked(turned, command) ==
                    Pico1!Panel!Commanded(Pico1!Panel!TimedOut(turned, r1'), command, r1')
               OneStep(h, e, l, input, tilt, command) ==
                    /\ r1' \in Pico1!Panel!Answered(h, input, l)
                    /\ \E turned \in {OneTurned(h, e, l, input, tilt)} :
                       \E asked \in {OneAsked(turned, command)} : One(asked, command)
    <2> DEFINE OtherInputs(h) == PicoIn["taps"][2] \cup {"none"} \cup
                    (IF PicoIn["taps"][3] = {} THEN {} ELSE Pico("taps")!Targets(h))
               OtherTilts == IF "tilt" \in PicoIn["taps"][1] THEN Pico("taps")!Tilts ELSE {"flat"}
               OtherTurned(h, e, l, input, tilt) ==
                    Pico("taps")!PickedUp(Pico("taps")!Turned(Pico("taps")!Touched(h, input, l), tilt, r1'), e = "tilt")
               OtherAsked(turned, command) ==
                    Pico("taps")!Commanded(Pico("taps")!TimedOut(turned, r1'), command, r1')
               OtherStep(h, e, l, input, tilt, command) ==
                    /\ r1' \in Pico("taps")!Answered(h, input, l)
                    /\ \E turned \in {OtherTurned(h, e, l, input, tilt)} :
                       \E asked \in {OtherAsked(turned, command)} : Other(asked, command)
    <2>18. ASSUME NEW h, NEW e, NEW l
           PROVE  Pico1!Panel!Reacts(h, e, l) <=>
                    \E input \in OneInputs(h), tilt \in OneTilts,
                       command \in PicoIn["taps"][4] \cup {"none"} : OneStep(h, e, l, input, tilt, command)
      BY Zenon DEF One, Pico1!Panel!Reacts
    <2>19. ASSUME NEW h, NEW e, NEW l
           PROVE  Pico("taps")!Reacts(h, e, l) <=>
                    \E input \in OtherInputs(h), tilt \in OtherTilts,
                       command \in PicoIn["taps"][4] \cup {"none"} : OtherStep(h, e, l, input, tilt, command)
      BY Zenon DEF Other, Pico!Reacts
    <2>21. ASSUME NEW h
           PROVE  OneInputs(h) = OtherInputs(h) /\ OneTilts = OtherTilts
      BY <2>7, Zenon DEF Pico1!Panel!Tilts, Pico!Tilts
    <2>22. ASSUME NEW h, NEW e, NEW l, NEW input, NEW tilt
           PROVE  OneTurned(h, e, l, input, tilt) = OtherTurned(h, e, l, input, tilt)
      BY <2>9, <2>10, <2>11, Zenon
    <2>23. ASSUME NEW turned, NEW command
           PROVE  OneAsked(turned, command) = OtherAsked(turned, command)
      BY <2>12, <2>13, Zenon
    <2> HIDE DEF OneInputs, OtherInputs, OneTilts, OtherTilts, OneTurned, OtherTurned,
                 OneAsked, OtherAsked
    <2>24. ASSUME NEW h, NEW e, NEW l, NEW input, NEW tilt, NEW command
           PROVE  OneStep(h, e, l, input, tilt, command) <=> OtherStep(h, e, l, input, tilt, command)
      BY <2>8, <2>17, <2>22, <2>23, Zenon
    <2> HIDE DEF OneStep, OtherStep
    <2>20. ASSUME NEW h, NEW e, NEW l
           PROVE  Pico1!Panel!Reacts(h, e, l) <=> Pico("taps")!Reacts(h, e, l)
      BY <2>18, <2>19, <2>21, <2>24, Zenon
    <2> DEFINE OneLates == {r1} \cup (IF "update" \in PicoIn["taps"][1] THEN Pico1!Panel!Moved(r1) ELSE {})
               OneHeard(begun, event, late, used) ==
                    Pico1!Panel!Published(Pico1!Panel!Received(begun, event, late), used)
               OneRest(begun, late) ==
                    /\ ~Pico1!Panel!Restarts(begun)
                    /\ \E event \in PicoIn["taps"][1] \cup {"none"}, used \in PicoIn["taps"][5] :
                       \E heard \in {OneHeard(begun, event, late, used)} : Pico1!Panel!Reacts(heard, event, late)
    <2> DEFINE OtherLates == {r1} \cup (IF "update" \in PicoIn["taps"][1] THEN Pico("taps")!Moved(r1) ELSE {})
               OtherHeard(begun, event, late, used) ==
                    Pico("taps")!Published(Pico("taps")!Received(begun, event, late), used)
               OtherRest(begun, late) ==
                    /\ ~Pico("taps")!Restarts(begun)
                    /\ \E event \in PicoIn["taps"][1] \cup {"none"}, used \in PicoIn["taps"][5] :
                       \E heard \in {OtherHeard(begun, event, late, used)} : Pico("taps")!Reacts(heard, event, late)
    <2>25. Pico1!Panel!Iteration <=>
               /\ \E dt \in 0..1, late \in OneLates :
                  \E begun \in {Pico1!Panel!Snapshot(r2, dt)} : OneRest(begun, late)
               /\ UNCHANGED r5
      BY Zenon DEF Pico1!Panel!Iteration
    <2>26. Pico("taps")!Iteration <=>
               /\ \E dt \in 0..1, late \in OtherLates :
                  \E begun \in {Pico("taps")!Snapshot(r2, dt)} : OtherRest(begun, late)
               /\ UNCHANGED r5
      BY Zenon DEF Pico!Iteration
    <2>27. OneLates = OtherLates
      BY <2>14, Zenon
    <2>28. ASSUME NEW begun, NEW event, NEW late, NEW used
           PROVE  OneHeard(begun, event, late, used) = OtherHeard(begun, event, late, used)
      BY <2>5, <2>6, Zenon
    <2> HIDE DEF OneLates, OtherLates, OneHeard, OtherHeard
    <2>29. ASSUME NEW begun, NEW late
           PROVE  OneRest(begun, late) <=> OtherRest(begun, late)
      BY <2>16, <2>20, <2>28, Zenon
    <2> HIDE DEF OneRest, OtherRest
    <2> QED
      BY <2>15, <2>25, <2>26, <2>27, <2>29, Zenon
  <1>5. Pico1!Panel!Restart <=> Pico("taps")!Restart
    BY Zenon DEF
      Pico1!Panel!Missing, Pico1!Panel!Boot, Pico1!Panel!NoOta, Pico1!Panel!Blank,
      Pico1!Panel!NothingDrawn, Pico1!Panel!Less, Pico1!Panel!Least, Pico1!Panel!Snapshot,
      Pico1!Panel!Restarts, Pico1!Panel!Restart,
      Pico!Missing, Pico!Boot, Pico!NoOta, Pico!Blank, Pico!NothingDrawn, Pico!Less, Pico!Least,
      Pico!Snapshot, Pico!Restarts, Pico!Restart
  <1>6. Pico1!Panel!Next <=> Pico("taps")!Next
    BY <1>3, <1>4, <1>5, Zenon DEF Pico1!Panel!Next, Pico!Next
  <1> QED BY <1>1, <1>2, <1>6, Zenon

LEMMA PicoTapsHolds ==
    PanelsSpec /\ On("taps") =>
        /\ [](On("taps") /\ PicoSafe("taps"))
        /\ [][PicoStep("taps")]_all
  <1>1. "taps" \in Picos
    BY DEF Picos
  <1>2. Pico1!Panel!ConstantsOK
    BY <1>1, PanelsAssumption, PicoTapsSame
  <1>3. PanelsInit /\ On("taps") => Pico1!Panel!Init
    BY <1>1, PicoBegins, PicoTapsSame
  <1>4. On("taps") /\ [PanelsNext]_all => On("taps")' /\ [Pico1!Panel!Next]_(Pico1!Panel!vars)
    BY <1>1, PicoContinues, PicoTapsSame, Zenon
  <1>5. PanelsSpec /\ On("taps") => []On("taps") /\ Pico1!Panel!Spec
    BY <1>3, <1>4, PTL DEF PanelsSpec, Pico1!Panel!Spec
  <1>6. Pico1!Panel!Spec => []Pico1!Panel!TypeOK
    BY <1>2, Pico1!PanelTypes
  <1>7. Pico1!Panel!Spec => []Pico1!Panel!SceneIsDrawn
    BY <1>2, Pico1!PanelScene
  <1>8. Pico1!Panel!Spec => [](Pico1!Panel!GlassIsFrame /\ Pico1!Panel!GhostsBounded /\ Pico1!Panel!BarsAreClean)
    BY <1>2, Pico1!PanelPaper
  <1>9. Pico1!Panel!Spec => [][Pico1!Panel!PromptsAreSeen]_(Pico1!Panel!vars)
    BY <1>2, Pico1!PanelPrompts
  <1>10. Pico1!Panel!Spec => [][Pico1!Panel!FinalFrameIsSeen]_(Pico1!Panel!vars)
    BY <1>2, Pico1!PanelFinal
  <1>11. Pico1!Panel!TypeOK /\ Pico1!Panel!SceneIsDrawn /\ Pico1!Panel!GlassIsFrame /\
        Pico1!Panel!GhostsBounded /\ Pico1!Panel!BarsAreClean
        => PicoSafe("taps")
    BY PicoTapsSame DEF PicoSafe
  <1>12. On("taps") /\ [PanelsNext]_all /\ [Pico1!Panel!PromptsAreSeen]_(Pico1!Panel!vars) /\ [Pico1!Panel!FinalFrameIsSeen]_(Pico1!Panel!vars)
        => [PicoStep("taps")]_all
    BY <1>1, PicoContinues, PicoTapsSame, Zenon DEF PicoStep
  <1> QED BY <1>5, <1>6, <1>7, <1>8, <1>9, <1>10, <1>11, <1>12, PTL DEF PanelsSpec

LEMMA PicoBarsSame ==
    /\ Pico2!Panel!ConstantsOK <=> Pico("bars")!ConstantsOK
    /\ Pico2!Panel!Init <=> Pico("bars")!Init
    /\ Pico2!Panel!Next <=> Pico("bars")!Next
    /\ Pico2!Panel!TypeOK <=> Pico("bars")!TypeOK
    /\ Pico2!Panel!SceneIsDrawn <=> Pico("bars")!SceneIsDrawn
    /\ Pico2!Panel!GlassIsFrame <=> Pico("bars")!GlassIsFrame
    /\ Pico2!Panel!GhostsBounded <=> Pico("bars")!GhostsBounded
    /\ Pico2!Panel!BarsAreClean <=> Pico("bars")!BarsAreClean
    /\ Pico2!Panel!PromptsAreSeen <=> Pico("bars")!PromptsAreSeen
    /\ Pico2!Panel!FinalFrameIsSeen <=> Pico("bars")!FinalFrameIsSeen
    /\ UNCHANGED Pico2!Panel!vars <=> UNCHANGED Pico("bars")!vars
  <1>1. /\ Pico2!Panel!ConstantsOK <=> Pico("bars")!ConstantsOK
        /\ Pico2!Panel!Init <=> Pico("bars")!Init
    BY Zenon DEF
      Pico2!Panel!Missing, Pico2!Panel!ConstantsOK, Pico2!Panel!Boot, Pico2!Panel!NoOta,
      Pico2!Panel!Blank, Pico2!Panel!Paper, Pico2!Panel!NothingDrawn, Pico2!Panel!Init,
      Pico!Missing, Pico!ConstantsOK, Pico!Boot, Pico!NoOta, Pico!Blank, Pico!Paper,
      Pico!NothingDrawn, Pico!Init
  <1>2. /\ UNCHANGED Pico2!Panel!vars <=> UNCHANGED Pico("bars")!vars
        /\ Pico2!Panel!TypeOK <=> Pico("bars")!TypeOK
        /\ Pico2!Panel!SceneIsDrawn <=> Pico("bars")!SceneIsDrawn
        /\ Pico2!Panel!GlassIsFrame <=> Pico("bars")!GlassIsFrame
        /\ Pico2!Panel!GhostsBounded <=> Pico("bars")!GhostsBounded
        /\ Pico2!Panel!BarsAreClean <=> Pico("bars")!BarsAreClean
        /\ Pico2!Panel!PromptsAreSeen <=> Pico("bars")!PromptsAreSeen
        /\ Pico2!Panel!FinalFrameIsSeen <=> Pico("bars")!FinalFrameIsSeen
    BY Zenon DEF
      Pico2!Panel!vars, Pico2!Panel!Missing, Pico2!Panel!Phases, Pico2!Panel!TypeOK,
      Pico2!Panel!Scene, Pico2!Panel!HomeFrame, Pico2!Panel!ClockFrame,
      Pico2!Panel!SettingsFrame, Pico2!Panel!PromptFrame, Pico2!Panel!Frame, Pico2!Panel!Bar,
      Pico2!Panel!Ink, Pico2!Panel!Busy, Pico2!Panel!SceneIsDrawn, Pico2!Panel!GlassIsFrame,
      Pico2!Panel!GhostsBounded, Pico2!Panel!BarsAreClean, Pico2!Panel!PromptsAreSeen,
      Pico2!Panel!FinalFrameIsSeen,
      Pico!vars, Pico!Missing, Pico!Phases, Pico!TypeOK, Pico!Scene, Pico!HomeFrame,
      Pico!ClockFrame, Pico!SettingsFrame, Pico!PromptFrame, Pico!Frame, Pico!Bar, Pico!Ink,
      Pico!Busy, Pico!SceneIsDrawn, Pico!GlassIsFrame, Pico!GhostsBounded, Pico!BarsAreClean,
      Pico!PromptsAreSeen, Pico!FinalFrameIsSeen
  <1>3. Pico2!Panel!OtaMoves <=> Pico("bars")!OtaMoves
    BY Zenon DEF
      Pico2!Panel!Fail, Pico2!Panel!Given, Pico2!Panel!Moved, Pico2!Panel!OtaMoves,
      Pico!Fail, Pico!Given, Pico!Moved, Pico!OtaMoves
  <1>4. Pico2!Panel!Iteration <=> Pico("bars")!Iteration
    <2>1. ASSUME NEW asked, NEW command
          PROVE  Pico2!Panel!Demonstrated(asked, command)
                    = Pico("bars")!Demonstrated(asked, command)
      BY Zenon DEF
        Pico2!Panel!Missing, Pico2!Panel!Blank, Pico2!Panel!Paper, Pico2!Panel!Scene,
        Pico2!Panel!HomeFrame, Pico2!Panel!ClockFrame, Pico2!Panel!SettingsFrame,
        Pico2!Panel!PromptFrame, Pico2!Panel!Frame, Pico2!Panel!Bar, Pico2!Panel!Ink,
        Pico2!Panel!Demo, Pico2!Panel!White, Pico2!Panel!Torn, Pico2!Panel!More,
        Pico2!Panel!Driven, Pico2!Panel!Full, Pico2!Panel!LimitReached, Pico2!Panel!Failed,
        Pico2!Panel!Rendered, Pico2!Panel!Busy, Pico2!Panel!Demonstrated,
        Pico!Missing, Pico!Blank, Pico!Paper, Pico!Scene, Pico!HomeFrame, Pico!ClockFrame,
        Pico!SettingsFrame, Pico!PromptFrame, Pico!Frame, Pico!Bar, Pico!Ink, Pico!Demo,
        Pico!White, Pico!Torn, Pico!More, Pico!Driven, Pico!Full, Pico!LimitReached,
        Pico!Failed, Pico!Rendered, Pico!Busy, Pico!Demonstrated
    <2>2. ASSUME NEW v, NEW o
          PROVE  Pico2!Panel!Prompted(v, o)
                    = Pico("bars")!Prompted(v, o)
      BY Zenon DEF
        Pico2!Panel!Busy, Pico2!Panel!Prompted,
        Pico!Busy, Pico!Prompted
    <2>3. ASSUME NEW done, NEW u, NEW g
          PROVE  Pico2!Panel!Draws(done, u, g)
                    <=> Pico("bars")!Draws(done, u, g)
      BY Zenon DEF
        Pico2!Panel!Missing, Pico2!Panel!Blank, Pico2!Panel!Paper, Pico2!Panel!Scene,
        Pico2!Panel!HomeFrame, Pico2!Panel!ClockFrame, Pico2!Panel!SettingsFrame,
        Pico2!Panel!PromptFrame, Pico2!Panel!Frame, Pico2!Panel!Bar, Pico2!Panel!Ink,
        Pico2!Panel!White, Pico2!Panel!Torn, Pico2!Panel!More, Pico2!Panel!Driven,
        Pico2!Panel!Full, Pico2!Panel!LimitReached, Pico2!Panel!Failed, Pico2!Panel!Rendered,
        Pico2!Panel!RebootDrawn, Pico2!Panel!Draws,
        Pico!Missing, Pico!Blank, Pico!Paper, Pico!Scene, Pico!HomeFrame, Pico!ClockFrame,
        Pico!SettingsFrame, Pico!PromptFrame, Pico!Frame, Pico!Bar, Pico!Ink, Pico!White,
        Pico!Torn, Pico!More, Pico!Driven, Pico!Full, Pico!LimitReached, Pico!Failed,
        Pico!Rendered, Pico!RebootDrawn, Pico!Draws
    <2>4. ASSUME NEW done, NEW u, NEW g
          PROVE  Pico2!Panel!Waits(done, u, g)
                    <=> Pico("bars")!Waits(done, u, g)
      BY Zenon DEF
        Pico2!Panel!Waits,
        Pico!Waits
    <2>5. ASSUME NEW v, NEW e, NEW o
          PROVE  Pico2!Panel!Received(v, e, o)
                    = Pico("bars")!Received(v, e, o)
      BY Zenon DEF
        Pico2!Panel!Busy, Pico2!Panel!Toggled, Pico2!Panel!Received,
        Pico!Busy, Pico!Toggled, Pico!Received
    <2>6. ASSUME NEW v, NEW used
          PROVE  Pico2!Panel!Published(v, used)
                    = Pico("bars")!Published(v, used)
      BY Zenon DEF
        Pico2!Panel!Missing, Pico2!Panel!Warning, Pico2!Panel!Shrinks, Pico2!Panel!Published,
        Pico!Missing, Pico!Warning, Pico!Shrinks, Pico!Published
    <2>7. ASSUME NEW v
          PROVE  Pico2!Panel!Targets(v)
                    = Pico("bars")!Targets(v)
      BY Zenon DEF
        Pico2!Panel!Scene, Pico2!Panel!Targets,
        Pico!Scene, Pico!Targets
    <2>8. ASSUME NEW v, NEW i, NEW o
          PROVE  Pico2!Panel!Answered(v, i, o)
                    = Pico("bars")!Answered(v, i, o)
      BY Zenon DEF
        Pico2!Panel!Fail, Pico2!Panel!Answered,
        Pico!Fail, Pico!Answered
    <2>9. ASSUME NEW v, NEW i, NEW o
          PROVE  Pico2!Panel!Touched(v, i, o)
                    = Pico("bars")!Touched(v, i, o)
      BY Zenon DEF
        Pico2!Panel!Busy, Pico2!Panel!Toggled, Pico2!Panel!Chosen, Pico2!Panel!Touched,
        Pico!Busy, Pico!Toggled, Pico!Chosen, Pico!Touched
    <2>10. ASSUME NEW v, NEW t, NEW o
          PROVE  Pico2!Panel!Turned(v, t, o)
                    = Pico("bars")!Turned(v, t, o)
      BY Zenon DEF
        Pico2!Panel!Busy, Pico2!Panel!Turned,
        Pico!Busy, Pico!Turned
    <2>11. ASSUME NEW v, NEW moved
          PROVE  Pico2!Panel!PickedUp(v, moved)
                    = Pico("bars")!PickedUp(v, moved)
      BY Zenon DEF
        Pico2!Panel!PickedUp,
        Pico!PickedUp
    <2>12. ASSUME NEW v, NEW o
          PROVE  Pico2!Panel!TimedOut(v, o)
                    = Pico("bars")!TimedOut(v, o)
      BY Zenon DEF
        Pico2!Panel!Busy, Pico2!Panel!TimedOut,
        Pico!Busy, Pico!TimedOut
    <2>13. ASSUME NEW v, NEW c, NEW o
          PROVE  Pico2!Panel!Commanded(v, c, o)
                    = Pico("bars")!Commanded(v, c, o)
      BY Zenon DEF
        Pico2!Panel!Busy, Pico2!Panel!Commanded,
        Pico!Busy, Pico!Commanded
    <2>14. ASSUME NEW o
          PROVE  Pico2!Panel!Moved(o)
                    = Pico("bars")!Moved(o)
      BY Zenon DEF
        Pico2!Panel!Fail, Pico2!Panel!Given, Pico2!Panel!Moved,
        Pico!Fail, Pico!Given, Pico!Moved
    <2>15. ASSUME NEW v, NEW dt
          PROVE  Pico2!Panel!Snapshot(v, dt)
                    = Pico("bars")!Snapshot(v, dt)
      BY Zenon DEF
        Pico2!Panel!Less, Pico2!Panel!Least, Pico2!Panel!Snapshot,
        Pico!Less, Pico!Least, Pico!Snapshot
    <2>16. ASSUME NEW v
          PROVE  Pico2!Panel!Restarts(v)
                    <=> Pico("bars")!Restarts(v)
      BY Zenon DEF
        Pico2!Panel!Restarts,
        Pico!Restarts
    <2> DEFINE One(asked, command) ==
            \E demo \in Pico2!Panel!Demonstrated(asked, command),
                  done \in {Pico2!Panel!Prompted(asked, r1')} :
               Pico2!Panel!Draws(done, demo[1], demo[2]) \/ Pico2!Panel!Waits(done, demo[1], demo[2])
    <2> DEFINE Other(asked, command) ==
            \E demo \in Pico("bars")!Demonstrated(asked, command),
                  done \in {Pico("bars")!Prompted(asked, r1')} :
               Pico("bars")!Draws(done, demo[1], demo[2]) \/ Pico("bars")!Waits(done, demo[1], demo[2])
    <2>17. ASSUME NEW asked, NEW command
           PROVE  One(asked, command) <=> Other(asked, command)
      BY <2>1, <2>2, <2>3, <2>4, Zenon
    <2> HIDE DEF One, Other
    <2> DEFINE OneInputs(h) == PicoIn["bars"][2] \cup {"none"} \cup
                    (IF PicoIn["bars"][3] = {} THEN {} ELSE Pico2!Panel!Targets(h))
               OneTilts == IF "tilt" \in PicoIn["bars"][1] THEN Pico2!Panel!Tilts ELSE {"flat"}
               OneTurned(h, e, l, input, tilt) ==
                    Pico2!Panel!PickedUp(Pico2!Panel!Turned(Pico2!Panel!Touched(h, input, l), tilt, r1'), e = "tilt")
               OneAsked(turned, command) ==
                    Pico2!Panel!Commanded(Pico2!Panel!TimedOut(turned, r1'), command, r1')
               OneStep(h, e, l, input, tilt, command) ==
                    /\ r1' \in Pico2!Panel!Answered(h, input, l)
                    /\ \E turned \in {OneTurned(h, e, l, input, tilt)} :
                       \E asked \in {OneAsked(turned, command)} : One(asked, command)
    <2> DEFINE OtherInputs(h) == PicoIn["bars"][2] \cup {"none"} \cup
                    (IF PicoIn["bars"][3] = {} THEN {} ELSE Pico("bars")!Targets(h))
               OtherTilts == IF "tilt" \in PicoIn["bars"][1] THEN Pico("bars")!Tilts ELSE {"flat"}
               OtherTurned(h, e, l, input, tilt) ==
                    Pico("bars")!PickedUp(Pico("bars")!Turned(Pico("bars")!Touched(h, input, l), tilt, r1'), e = "tilt")
               OtherAsked(turned, command) ==
                    Pico("bars")!Commanded(Pico("bars")!TimedOut(turned, r1'), command, r1')
               OtherStep(h, e, l, input, tilt, command) ==
                    /\ r1' \in Pico("bars")!Answered(h, input, l)
                    /\ \E turned \in {OtherTurned(h, e, l, input, tilt)} :
                       \E asked \in {OtherAsked(turned, command)} : Other(asked, command)
    <2>18. ASSUME NEW h, NEW e, NEW l
           PROVE  Pico2!Panel!Reacts(h, e, l) <=>
                    \E input \in OneInputs(h), tilt \in OneTilts,
                       command \in PicoIn["bars"][4] \cup {"none"} : OneStep(h, e, l, input, tilt, command)
      BY Zenon DEF One, Pico2!Panel!Reacts
    <2>19. ASSUME NEW h, NEW e, NEW l
           PROVE  Pico("bars")!Reacts(h, e, l) <=>
                    \E input \in OtherInputs(h), tilt \in OtherTilts,
                       command \in PicoIn["bars"][4] \cup {"none"} : OtherStep(h, e, l, input, tilt, command)
      BY Zenon DEF Other, Pico!Reacts
    <2>21. ASSUME NEW h
           PROVE  OneInputs(h) = OtherInputs(h) /\ OneTilts = OtherTilts
      BY <2>7, Zenon DEF Pico2!Panel!Tilts, Pico!Tilts
    <2>22. ASSUME NEW h, NEW e, NEW l, NEW input, NEW tilt
           PROVE  OneTurned(h, e, l, input, tilt) = OtherTurned(h, e, l, input, tilt)
      BY <2>9, <2>10, <2>11, Zenon
    <2>23. ASSUME NEW turned, NEW command
           PROVE  OneAsked(turned, command) = OtherAsked(turned, command)
      BY <2>12, <2>13, Zenon
    <2> HIDE DEF OneInputs, OtherInputs, OneTilts, OtherTilts, OneTurned, OtherTurned,
                 OneAsked, OtherAsked
    <2>24. ASSUME NEW h, NEW e, NEW l, NEW input, NEW tilt, NEW command
           PROVE  OneStep(h, e, l, input, tilt, command) <=> OtherStep(h, e, l, input, tilt, command)
      BY <2>8, <2>17, <2>22, <2>23, Zenon
    <2> HIDE DEF OneStep, OtherStep
    <2>20. ASSUME NEW h, NEW e, NEW l
           PROVE  Pico2!Panel!Reacts(h, e, l) <=> Pico("bars")!Reacts(h, e, l)
      BY <2>18, <2>19, <2>21, <2>24, Zenon
    <2> DEFINE OneLates == {r1} \cup (IF "update" \in PicoIn["bars"][1] THEN Pico2!Panel!Moved(r1) ELSE {})
               OneHeard(begun, event, late, used) ==
                    Pico2!Panel!Published(Pico2!Panel!Received(begun, event, late), used)
               OneRest(begun, late) ==
                    /\ ~Pico2!Panel!Restarts(begun)
                    /\ \E event \in PicoIn["bars"][1] \cup {"none"}, used \in PicoIn["bars"][5] :
                       \E heard \in {OneHeard(begun, event, late, used)} : Pico2!Panel!Reacts(heard, event, late)
    <2> DEFINE OtherLates == {r1} \cup (IF "update" \in PicoIn["bars"][1] THEN Pico("bars")!Moved(r1) ELSE {})
               OtherHeard(begun, event, late, used) ==
                    Pico("bars")!Published(Pico("bars")!Received(begun, event, late), used)
               OtherRest(begun, late) ==
                    /\ ~Pico("bars")!Restarts(begun)
                    /\ \E event \in PicoIn["bars"][1] \cup {"none"}, used \in PicoIn["bars"][5] :
                       \E heard \in {OtherHeard(begun, event, late, used)} : Pico("bars")!Reacts(heard, event, late)
    <2>25. Pico2!Panel!Iteration <=>
               /\ \E dt \in 0..1, late \in OneLates :
                  \E begun \in {Pico2!Panel!Snapshot(r2, dt)} : OneRest(begun, late)
               /\ UNCHANGED r5
      BY Zenon DEF Pico2!Panel!Iteration
    <2>26. Pico("bars")!Iteration <=>
               /\ \E dt \in 0..1, late \in OtherLates :
                  \E begun \in {Pico("bars")!Snapshot(r2, dt)} : OtherRest(begun, late)
               /\ UNCHANGED r5
      BY Zenon DEF Pico!Iteration
    <2>27. OneLates = OtherLates
      BY <2>14, Zenon
    <2>28. ASSUME NEW begun, NEW event, NEW late, NEW used
           PROVE  OneHeard(begun, event, late, used) = OtherHeard(begun, event, late, used)
      BY <2>5, <2>6, Zenon
    <2> HIDE DEF OneLates, OtherLates, OneHeard, OtherHeard
    <2>29. ASSUME NEW begun, NEW late
           PROVE  OneRest(begun, late) <=> OtherRest(begun, late)
      BY <2>16, <2>20, <2>28, Zenon
    <2> HIDE DEF OneRest, OtherRest
    <2> QED
      BY <2>15, <2>25, <2>26, <2>27, <2>29, Zenon
  <1>5. Pico2!Panel!Restart <=> Pico("bars")!Restart
    BY Zenon DEF
      Pico2!Panel!Missing, Pico2!Panel!Boot, Pico2!Panel!NoOta, Pico2!Panel!Blank,
      Pico2!Panel!NothingDrawn, Pico2!Panel!Less, Pico2!Panel!Least, Pico2!Panel!Snapshot,
      Pico2!Panel!Restarts, Pico2!Panel!Restart,
      Pico!Missing, Pico!Boot, Pico!NoOta, Pico!Blank, Pico!NothingDrawn, Pico!Less, Pico!Least,
      Pico!Snapshot, Pico!Restarts, Pico!Restart
  <1>6. Pico2!Panel!Next <=> Pico("bars")!Next
    BY <1>3, <1>4, <1>5, Zenon DEF Pico2!Panel!Next, Pico!Next
  <1> QED BY <1>1, <1>2, <1>6, Zenon

LEMMA PicoBarsHolds ==
    PanelsSpec /\ On("bars") =>
        /\ [](On("bars") /\ PicoSafe("bars"))
        /\ [][PicoStep("bars")]_all
  <1>1. "bars" \in Picos
    BY DEF Picos
  <1>2. Pico2!Panel!ConstantsOK
    BY <1>1, PanelsAssumption, PicoBarsSame
  <1>3. PanelsInit /\ On("bars") => Pico2!Panel!Init
    BY <1>1, PicoBegins, PicoBarsSame
  <1>4. On("bars") /\ [PanelsNext]_all => On("bars")' /\ [Pico2!Panel!Next]_(Pico2!Panel!vars)
    BY <1>1, PicoContinues, PicoBarsSame, Zenon
  <1>5. PanelsSpec /\ On("bars") => []On("bars") /\ Pico2!Panel!Spec
    BY <1>3, <1>4, PTL DEF PanelsSpec, Pico2!Panel!Spec
  <1>6. Pico2!Panel!Spec => []Pico2!Panel!TypeOK
    BY <1>2, Pico2!PanelTypes
  <1>7. Pico2!Panel!Spec => []Pico2!Panel!SceneIsDrawn
    BY <1>2, Pico2!PanelScene
  <1>8. Pico2!Panel!Spec => [](Pico2!Panel!GlassIsFrame /\ Pico2!Panel!GhostsBounded /\ Pico2!Panel!BarsAreClean)
    BY <1>2, Pico2!PanelPaper
  <1>9. Pico2!Panel!Spec => [][Pico2!Panel!PromptsAreSeen]_(Pico2!Panel!vars)
    BY <1>2, Pico2!PanelPrompts
  <1>10. Pico2!Panel!Spec => [][Pico2!Panel!FinalFrameIsSeen]_(Pico2!Panel!vars)
    BY <1>2, Pico2!PanelFinal
  <1>11. Pico2!Panel!TypeOK /\ Pico2!Panel!SceneIsDrawn /\ Pico2!Panel!GlassIsFrame /\
        Pico2!Panel!GhostsBounded /\ Pico2!Panel!BarsAreClean
        => PicoSafe("bars")
    BY PicoBarsSame DEF PicoSafe
  <1>12. On("bars") /\ [PanelsNext]_all /\ [Pico2!Panel!PromptsAreSeen]_(Pico2!Panel!vars) /\ [Pico2!Panel!FinalFrameIsSeen]_(Pico2!Panel!vars)
        => [PicoStep("bars")]_all
    BY <1>1, PicoContinues, PicoBarsSame, Zenon DEF PicoStep
  <1> QED BY <1>5, <1>6, <1>7, <1>8, <1>9, <1>10, <1>11, <1>12, PTL DEF PanelsSpec

Pico3 ==
    INSTANCE PicoProofs WITH
        Events <- PicoIn["tilts"][1], Keys <- PicoIn["tilts"][2], Options <- PicoIn["tilts"][3],
        Commands <- PicoIn["tilts"][4], Used <- PicoIn["tilts"][5],
        Outcomes <- PicoIn["tilts"][6], Soft <- PicoIn["tilts"][7],
        Failures <- PicoIn["tilts"][8], Cards <- 1..2, Swaps <- 2,
        Glitches <- CardIn["waits"][1], Patient <- CardIn["waits"][2],
        Board <- TrendIn["pico"][1], Buckets <- TrendIn["pico"][2],
        MaxSwaps <- TrendIn["pico"][3], Retry <- 1, Faults <- 0, Expander <- FALSE,
        StartFaults <- 0, Crashes <- 0, Held <- 0, ota <- r1, view <- r2, ui <- r3, glass <- r4,
        boots <- r5, files <- r1, trend <- r2, loaded <- r3, bucket <- r4, writes <- r5,
        shelf <- r6, slot <- r1, card <- r2, state <- r3, probe <- r4, main <- r5, loop <- r6,
        swaps <- r7, glitches <- r8, pc <- r1, cache <- r2, pins <- r3, chip <- r4, awake <- r5,
        rails <- r6, railsOn <- r7, tries <- r8, faults <- r9, drawn <- r10, at <- r1,
        step <- r2, again <- r3, output <- r4, port <- r5, converters <- r6, held <- r7,
        sensor <- r8, hw <- r9, vcom <- r10, asks <- r11, left <- r12, crashes <- r13,
        lost <- r14

LEMMA PicoTiltsSame ==
    /\ Pico3!Panel!ConstantsOK <=> Pico("tilts")!ConstantsOK
    /\ Pico3!Panel!Init <=> Pico("tilts")!Init
    /\ Pico3!Panel!Next <=> Pico("tilts")!Next
    /\ Pico3!Panel!TypeOK <=> Pico("tilts")!TypeOK
    /\ Pico3!Panel!SceneIsDrawn <=> Pico("tilts")!SceneIsDrawn
    /\ Pico3!Panel!GlassIsFrame <=> Pico("tilts")!GlassIsFrame
    /\ Pico3!Panel!GhostsBounded <=> Pico("tilts")!GhostsBounded
    /\ Pico3!Panel!BarsAreClean <=> Pico("tilts")!BarsAreClean
    /\ Pico3!Panel!PromptsAreSeen <=> Pico("tilts")!PromptsAreSeen
    /\ Pico3!Panel!FinalFrameIsSeen <=> Pico("tilts")!FinalFrameIsSeen
    /\ UNCHANGED Pico3!Panel!vars <=> UNCHANGED Pico("tilts")!vars
  <1>1. /\ Pico3!Panel!ConstantsOK <=> Pico("tilts")!ConstantsOK
        /\ Pico3!Panel!Init <=> Pico("tilts")!Init
    BY Zenon DEF
      Pico3!Panel!Missing, Pico3!Panel!ConstantsOK, Pico3!Panel!Boot, Pico3!Panel!NoOta,
      Pico3!Panel!Blank, Pico3!Panel!Paper, Pico3!Panel!NothingDrawn, Pico3!Panel!Init,
      Pico!Missing, Pico!ConstantsOK, Pico!Boot, Pico!NoOta, Pico!Blank, Pico!Paper,
      Pico!NothingDrawn, Pico!Init
  <1>2. /\ UNCHANGED Pico3!Panel!vars <=> UNCHANGED Pico("tilts")!vars
        /\ Pico3!Panel!TypeOK <=> Pico("tilts")!TypeOK
        /\ Pico3!Panel!SceneIsDrawn <=> Pico("tilts")!SceneIsDrawn
        /\ Pico3!Panel!GlassIsFrame <=> Pico("tilts")!GlassIsFrame
        /\ Pico3!Panel!GhostsBounded <=> Pico("tilts")!GhostsBounded
        /\ Pico3!Panel!BarsAreClean <=> Pico("tilts")!BarsAreClean
        /\ Pico3!Panel!PromptsAreSeen <=> Pico("tilts")!PromptsAreSeen
        /\ Pico3!Panel!FinalFrameIsSeen <=> Pico("tilts")!FinalFrameIsSeen
    BY Zenon DEF
      Pico3!Panel!vars, Pico3!Panel!Missing, Pico3!Panel!Phases, Pico3!Panel!TypeOK,
      Pico3!Panel!Scene, Pico3!Panel!HomeFrame, Pico3!Panel!ClockFrame,
      Pico3!Panel!SettingsFrame, Pico3!Panel!PromptFrame, Pico3!Panel!Frame, Pico3!Panel!Bar,
      Pico3!Panel!Ink, Pico3!Panel!Busy, Pico3!Panel!SceneIsDrawn, Pico3!Panel!GlassIsFrame,
      Pico3!Panel!GhostsBounded, Pico3!Panel!BarsAreClean, Pico3!Panel!PromptsAreSeen,
      Pico3!Panel!FinalFrameIsSeen,
      Pico!vars, Pico!Missing, Pico!Phases, Pico!TypeOK, Pico!Scene, Pico!HomeFrame,
      Pico!ClockFrame, Pico!SettingsFrame, Pico!PromptFrame, Pico!Frame, Pico!Bar, Pico!Ink,
      Pico!Busy, Pico!SceneIsDrawn, Pico!GlassIsFrame, Pico!GhostsBounded, Pico!BarsAreClean,
      Pico!PromptsAreSeen, Pico!FinalFrameIsSeen
  <1>3. Pico3!Panel!OtaMoves <=> Pico("tilts")!OtaMoves
    BY Zenon DEF
      Pico3!Panel!Fail, Pico3!Panel!Given, Pico3!Panel!Moved, Pico3!Panel!OtaMoves,
      Pico!Fail, Pico!Given, Pico!Moved, Pico!OtaMoves
  <1>4. Pico3!Panel!Iteration <=> Pico("tilts")!Iteration
    <2>1. ASSUME NEW asked, NEW command
          PROVE  Pico3!Panel!Demonstrated(asked, command)
                    = Pico("tilts")!Demonstrated(asked, command)
      BY Zenon DEF
        Pico3!Panel!Missing, Pico3!Panel!Blank, Pico3!Panel!Paper, Pico3!Panel!Scene,
        Pico3!Panel!HomeFrame, Pico3!Panel!ClockFrame, Pico3!Panel!SettingsFrame,
        Pico3!Panel!PromptFrame, Pico3!Panel!Frame, Pico3!Panel!Bar, Pico3!Panel!Ink,
        Pico3!Panel!Demo, Pico3!Panel!White, Pico3!Panel!Torn, Pico3!Panel!More,
        Pico3!Panel!Driven, Pico3!Panel!Full, Pico3!Panel!LimitReached, Pico3!Panel!Failed,
        Pico3!Panel!Rendered, Pico3!Panel!Busy, Pico3!Panel!Demonstrated,
        Pico!Missing, Pico!Blank, Pico!Paper, Pico!Scene, Pico!HomeFrame, Pico!ClockFrame,
        Pico!SettingsFrame, Pico!PromptFrame, Pico!Frame, Pico!Bar, Pico!Ink, Pico!Demo,
        Pico!White, Pico!Torn, Pico!More, Pico!Driven, Pico!Full, Pico!LimitReached,
        Pico!Failed, Pico!Rendered, Pico!Busy, Pico!Demonstrated
    <2>2. ASSUME NEW v, NEW o
          PROVE  Pico3!Panel!Prompted(v, o)
                    = Pico("tilts")!Prompted(v, o)
      BY Zenon DEF
        Pico3!Panel!Busy, Pico3!Panel!Prompted,
        Pico!Busy, Pico!Prompted
    <2>3. ASSUME NEW done, NEW u, NEW g
          PROVE  Pico3!Panel!Draws(done, u, g)
                    <=> Pico("tilts")!Draws(done, u, g)
      BY Zenon DEF
        Pico3!Panel!Missing, Pico3!Panel!Blank, Pico3!Panel!Paper, Pico3!Panel!Scene,
        Pico3!Panel!HomeFrame, Pico3!Panel!ClockFrame, Pico3!Panel!SettingsFrame,
        Pico3!Panel!PromptFrame, Pico3!Panel!Frame, Pico3!Panel!Bar, Pico3!Panel!Ink,
        Pico3!Panel!White, Pico3!Panel!Torn, Pico3!Panel!More, Pico3!Panel!Driven,
        Pico3!Panel!Full, Pico3!Panel!LimitReached, Pico3!Panel!Failed, Pico3!Panel!Rendered,
        Pico3!Panel!RebootDrawn, Pico3!Panel!Draws,
        Pico!Missing, Pico!Blank, Pico!Paper, Pico!Scene, Pico!HomeFrame, Pico!ClockFrame,
        Pico!SettingsFrame, Pico!PromptFrame, Pico!Frame, Pico!Bar, Pico!Ink, Pico!White,
        Pico!Torn, Pico!More, Pico!Driven, Pico!Full, Pico!LimitReached, Pico!Failed,
        Pico!Rendered, Pico!RebootDrawn, Pico!Draws
    <2>4. ASSUME NEW done, NEW u, NEW g
          PROVE  Pico3!Panel!Waits(done, u, g)
                    <=> Pico("tilts")!Waits(done, u, g)
      BY Zenon DEF
        Pico3!Panel!Waits,
        Pico!Waits
    <2>5. ASSUME NEW v, NEW e, NEW o
          PROVE  Pico3!Panel!Received(v, e, o)
                    = Pico("tilts")!Received(v, e, o)
      BY Zenon DEF
        Pico3!Panel!Busy, Pico3!Panel!Toggled, Pico3!Panel!Received,
        Pico!Busy, Pico!Toggled, Pico!Received
    <2>6. ASSUME NEW v, NEW used
          PROVE  Pico3!Panel!Published(v, used)
                    = Pico("tilts")!Published(v, used)
      BY Zenon DEF
        Pico3!Panel!Missing, Pico3!Panel!Warning, Pico3!Panel!Shrinks, Pico3!Panel!Published,
        Pico!Missing, Pico!Warning, Pico!Shrinks, Pico!Published
    <2>7. ASSUME NEW v
          PROVE  Pico3!Panel!Targets(v)
                    = Pico("tilts")!Targets(v)
      BY Zenon DEF
        Pico3!Panel!Scene, Pico3!Panel!Targets,
        Pico!Scene, Pico!Targets
    <2>8. ASSUME NEW v, NEW i, NEW o
          PROVE  Pico3!Panel!Answered(v, i, o)
                    = Pico("tilts")!Answered(v, i, o)
      BY Zenon DEF
        Pico3!Panel!Fail, Pico3!Panel!Answered,
        Pico!Fail, Pico!Answered
    <2>9. ASSUME NEW v, NEW i, NEW o
          PROVE  Pico3!Panel!Touched(v, i, o)
                    = Pico("tilts")!Touched(v, i, o)
      BY Zenon DEF
        Pico3!Panel!Busy, Pico3!Panel!Toggled, Pico3!Panel!Chosen, Pico3!Panel!Touched,
        Pico!Busy, Pico!Toggled, Pico!Chosen, Pico!Touched
    <2>10. ASSUME NEW v, NEW t, NEW o
          PROVE  Pico3!Panel!Turned(v, t, o)
                    = Pico("tilts")!Turned(v, t, o)
      BY Zenon DEF
        Pico3!Panel!Busy, Pico3!Panel!Turned,
        Pico!Busy, Pico!Turned
    <2>11. ASSUME NEW v, NEW moved
          PROVE  Pico3!Panel!PickedUp(v, moved)
                    = Pico("tilts")!PickedUp(v, moved)
      BY Zenon DEF
        Pico3!Panel!PickedUp,
        Pico!PickedUp
    <2>12. ASSUME NEW v, NEW o
          PROVE  Pico3!Panel!TimedOut(v, o)
                    = Pico("tilts")!TimedOut(v, o)
      BY Zenon DEF
        Pico3!Panel!Busy, Pico3!Panel!TimedOut,
        Pico!Busy, Pico!TimedOut
    <2>13. ASSUME NEW v, NEW c, NEW o
          PROVE  Pico3!Panel!Commanded(v, c, o)
                    = Pico("tilts")!Commanded(v, c, o)
      BY Zenon DEF
        Pico3!Panel!Busy, Pico3!Panel!Commanded,
        Pico!Busy, Pico!Commanded
    <2>14. ASSUME NEW o
          PROVE  Pico3!Panel!Moved(o)
                    = Pico("tilts")!Moved(o)
      BY Zenon DEF
        Pico3!Panel!Fail, Pico3!Panel!Given, Pico3!Panel!Moved,
        Pico!Fail, Pico!Given, Pico!Moved
    <2>15. ASSUME NEW v, NEW dt
          PROVE  Pico3!Panel!Snapshot(v, dt)
                    = Pico("tilts")!Snapshot(v, dt)
      BY Zenon DEF
        Pico3!Panel!Less, Pico3!Panel!Least, Pico3!Panel!Snapshot,
        Pico!Less, Pico!Least, Pico!Snapshot
    <2>16. ASSUME NEW v
          PROVE  Pico3!Panel!Restarts(v)
                    <=> Pico("tilts")!Restarts(v)
      BY Zenon DEF
        Pico3!Panel!Restarts,
        Pico!Restarts
    <2> DEFINE One(asked, command) ==
            \E demo \in Pico3!Panel!Demonstrated(asked, command),
                  done \in {Pico3!Panel!Prompted(asked, r1')} :
               Pico3!Panel!Draws(done, demo[1], demo[2]) \/ Pico3!Panel!Waits(done, demo[1], demo[2])
    <2> DEFINE Other(asked, command) ==
            \E demo \in Pico("tilts")!Demonstrated(asked, command),
                  done \in {Pico("tilts")!Prompted(asked, r1')} :
               Pico("tilts")!Draws(done, demo[1], demo[2]) \/ Pico("tilts")!Waits(done, demo[1], demo[2])
    <2>17. ASSUME NEW asked, NEW command
           PROVE  One(asked, command) <=> Other(asked, command)
      BY <2>1, <2>2, <2>3, <2>4, Zenon
    <2> HIDE DEF One, Other
    <2> DEFINE OneInputs(h) == PicoIn["tilts"][2] \cup {"none"} \cup
                    (IF PicoIn["tilts"][3] = {} THEN {} ELSE Pico3!Panel!Targets(h))
               OneTilts == IF "tilt" \in PicoIn["tilts"][1] THEN Pico3!Panel!Tilts ELSE {"flat"}
               OneTurned(h, e, l, input, tilt) ==
                    Pico3!Panel!PickedUp(Pico3!Panel!Turned(Pico3!Panel!Touched(h, input, l), tilt, r1'), e = "tilt")
               OneAsked(turned, command) ==
                    Pico3!Panel!Commanded(Pico3!Panel!TimedOut(turned, r1'), command, r1')
               OneStep(h, e, l, input, tilt, command) ==
                    /\ r1' \in Pico3!Panel!Answered(h, input, l)
                    /\ \E turned \in {OneTurned(h, e, l, input, tilt)} :
                       \E asked \in {OneAsked(turned, command)} : One(asked, command)
    <2> DEFINE OtherInputs(h) == PicoIn["tilts"][2] \cup {"none"} \cup
                    (IF PicoIn["tilts"][3] = {} THEN {} ELSE Pico("tilts")!Targets(h))
               OtherTilts == IF "tilt" \in PicoIn["tilts"][1] THEN Pico("tilts")!Tilts ELSE {"flat"}
               OtherTurned(h, e, l, input, tilt) ==
                    Pico("tilts")!PickedUp(Pico("tilts")!Turned(Pico("tilts")!Touched(h, input, l), tilt, r1'), e = "tilt")
               OtherAsked(turned, command) ==
                    Pico("tilts")!Commanded(Pico("tilts")!TimedOut(turned, r1'), command, r1')
               OtherStep(h, e, l, input, tilt, command) ==
                    /\ r1' \in Pico("tilts")!Answered(h, input, l)
                    /\ \E turned \in {OtherTurned(h, e, l, input, tilt)} :
                       \E asked \in {OtherAsked(turned, command)} : Other(asked, command)
    <2>18. ASSUME NEW h, NEW e, NEW l
           PROVE  Pico3!Panel!Reacts(h, e, l) <=>
                    \E input \in OneInputs(h), tilt \in OneTilts,
                       command \in PicoIn["tilts"][4] \cup {"none"} : OneStep(h, e, l, input, tilt, command)
      BY Zenon DEF One, Pico3!Panel!Reacts
    <2>19. ASSUME NEW h, NEW e, NEW l
           PROVE  Pico("tilts")!Reacts(h, e, l) <=>
                    \E input \in OtherInputs(h), tilt \in OtherTilts,
                       command \in PicoIn["tilts"][4] \cup {"none"} : OtherStep(h, e, l, input, tilt, command)
      BY Zenon DEF Other, Pico!Reacts
    <2>21. ASSUME NEW h
           PROVE  OneInputs(h) = OtherInputs(h) /\ OneTilts = OtherTilts
      BY <2>7, Zenon DEF Pico3!Panel!Tilts, Pico!Tilts
    <2>22. ASSUME NEW h, NEW e, NEW l, NEW input, NEW tilt
           PROVE  OneTurned(h, e, l, input, tilt) = OtherTurned(h, e, l, input, tilt)
      BY <2>9, <2>10, <2>11, Zenon
    <2>23. ASSUME NEW turned, NEW command
           PROVE  OneAsked(turned, command) = OtherAsked(turned, command)
      BY <2>12, <2>13, Zenon
    <2> HIDE DEF OneInputs, OtherInputs, OneTilts, OtherTilts, OneTurned, OtherTurned,
                 OneAsked, OtherAsked
    <2>24. ASSUME NEW h, NEW e, NEW l, NEW input, NEW tilt, NEW command
           PROVE  OneStep(h, e, l, input, tilt, command) <=> OtherStep(h, e, l, input, tilt, command)
      BY <2>8, <2>17, <2>22, <2>23, Zenon
    <2> HIDE DEF OneStep, OtherStep
    <2>20. ASSUME NEW h, NEW e, NEW l
           PROVE  Pico3!Panel!Reacts(h, e, l) <=> Pico("tilts")!Reacts(h, e, l)
      BY <2>18, <2>19, <2>21, <2>24, Zenon
    <2> DEFINE OneLates == {r1} \cup (IF "update" \in PicoIn["tilts"][1] THEN Pico3!Panel!Moved(r1) ELSE {})
               OneHeard(begun, event, late, used) ==
                    Pico3!Panel!Published(Pico3!Panel!Received(begun, event, late), used)
               OneRest(begun, late) ==
                    /\ ~Pico3!Panel!Restarts(begun)
                    /\ \E event \in PicoIn["tilts"][1] \cup {"none"}, used \in PicoIn["tilts"][5] :
                       \E heard \in {OneHeard(begun, event, late, used)} : Pico3!Panel!Reacts(heard, event, late)
    <2> DEFINE OtherLates == {r1} \cup (IF "update" \in PicoIn["tilts"][1] THEN Pico("tilts")!Moved(r1) ELSE {})
               OtherHeard(begun, event, late, used) ==
                    Pico("tilts")!Published(Pico("tilts")!Received(begun, event, late), used)
               OtherRest(begun, late) ==
                    /\ ~Pico("tilts")!Restarts(begun)
                    /\ \E event \in PicoIn["tilts"][1] \cup {"none"}, used \in PicoIn["tilts"][5] :
                       \E heard \in {OtherHeard(begun, event, late, used)} : Pico("tilts")!Reacts(heard, event, late)
    <2>25. Pico3!Panel!Iteration <=>
               /\ \E dt \in 0..1, late \in OneLates :
                  \E begun \in {Pico3!Panel!Snapshot(r2, dt)} : OneRest(begun, late)
               /\ UNCHANGED r5
      BY Zenon DEF Pico3!Panel!Iteration
    <2>26. Pico("tilts")!Iteration <=>
               /\ \E dt \in 0..1, late \in OtherLates :
                  \E begun \in {Pico("tilts")!Snapshot(r2, dt)} : OtherRest(begun, late)
               /\ UNCHANGED r5
      BY Zenon DEF Pico!Iteration
    <2>27. OneLates = OtherLates
      BY <2>14, Zenon
    <2>28. ASSUME NEW begun, NEW event, NEW late, NEW used
           PROVE  OneHeard(begun, event, late, used) = OtherHeard(begun, event, late, used)
      BY <2>5, <2>6, Zenon
    <2> HIDE DEF OneLates, OtherLates, OneHeard, OtherHeard
    <2>29. ASSUME NEW begun, NEW late
           PROVE  OneRest(begun, late) <=> OtherRest(begun, late)
      BY <2>16, <2>20, <2>28, Zenon
    <2> HIDE DEF OneRest, OtherRest
    <2> QED
      BY <2>15, <2>25, <2>26, <2>27, <2>29, Zenon
  <1>5. Pico3!Panel!Restart <=> Pico("tilts")!Restart
    BY Zenon DEF
      Pico3!Panel!Missing, Pico3!Panel!Boot, Pico3!Panel!NoOta, Pico3!Panel!Blank,
      Pico3!Panel!NothingDrawn, Pico3!Panel!Less, Pico3!Panel!Least, Pico3!Panel!Snapshot,
      Pico3!Panel!Restarts, Pico3!Panel!Restart,
      Pico!Missing, Pico!Boot, Pico!NoOta, Pico!Blank, Pico!NothingDrawn, Pico!Less, Pico!Least,
      Pico!Snapshot, Pico!Restarts, Pico!Restart
  <1>6. Pico3!Panel!Next <=> Pico("tilts")!Next
    BY <1>3, <1>4, <1>5, Zenon DEF Pico3!Panel!Next, Pico!Next
  <1> QED BY <1>1, <1>2, <1>6, Zenon

LEMMA PicoTiltsHolds ==
    PanelsSpec /\ On("tilts") =>
        /\ [](On("tilts") /\ PicoSafe("tilts"))
        /\ [][PicoStep("tilts")]_all
  <1>1. "tilts" \in Picos
    BY DEF Picos
  <1>2. Pico3!Panel!ConstantsOK
    BY <1>1, PanelsAssumption, PicoTiltsSame
  <1>3. PanelsInit /\ On("tilts") => Pico3!Panel!Init
    BY <1>1, PicoBegins, PicoTiltsSame
  <1>4. On("tilts") /\ [PanelsNext]_all => On("tilts")' /\ [Pico3!Panel!Next]_(Pico3!Panel!vars)
    BY <1>1, PicoContinues, PicoTiltsSame, Zenon
  <1>5. PanelsSpec /\ On("tilts") => []On("tilts") /\ Pico3!Panel!Spec
    BY <1>3, <1>4, PTL DEF PanelsSpec, Pico3!Panel!Spec
  <1>6. Pico3!Panel!Spec => []Pico3!Panel!TypeOK
    BY <1>2, Pico3!PanelTypes
  <1>7. Pico3!Panel!Spec => []Pico3!Panel!SceneIsDrawn
    BY <1>2, Pico3!PanelScene
  <1>8. Pico3!Panel!Spec => [](Pico3!Panel!GlassIsFrame /\ Pico3!Panel!GhostsBounded /\ Pico3!Panel!BarsAreClean)
    BY <1>2, Pico3!PanelPaper
  <1>9. Pico3!Panel!Spec => [][Pico3!Panel!PromptsAreSeen]_(Pico3!Panel!vars)
    BY <1>2, Pico3!PanelPrompts
  <1>10. Pico3!Panel!Spec => [][Pico3!Panel!FinalFrameIsSeen]_(Pico3!Panel!vars)
    BY <1>2, Pico3!PanelFinal
  <1>11. Pico3!Panel!TypeOK /\ Pico3!Panel!SceneIsDrawn /\ Pico3!Panel!GlassIsFrame /\
        Pico3!Panel!GhostsBounded /\ Pico3!Panel!BarsAreClean
        => PicoSafe("tilts")
    BY PicoTiltsSame DEF PicoSafe
  <1>12. On("tilts") /\ [PanelsNext]_all /\ [Pico3!Panel!PromptsAreSeen]_(Pico3!Panel!vars) /\ [Pico3!Panel!FinalFrameIsSeen]_(Pico3!Panel!vars)
        => [PicoStep("tilts")]_all
    BY <1>1, PicoContinues, PicoTiltsSame, Zenon DEF PicoStep
  <1> QED BY <1>5, <1>6, <1>7, <1>8, <1>9, <1>10, <1>11, <1>12, PTL DEF PanelsSpec

Pico4 ==
    INSTANCE PicoProofs WITH
        Events <- PicoIn["demos"][1], Keys <- PicoIn["demos"][2], Options <- PicoIn["demos"][3],
        Commands <- PicoIn["demos"][4], Used <- PicoIn["demos"][5],
        Outcomes <- PicoIn["demos"][6], Soft <- PicoIn["demos"][7],
        Failures <- PicoIn["demos"][8], Cards <- 1..2, Swaps <- 2,
        Glitches <- CardIn["waits"][1], Patient <- CardIn["waits"][2],
        Board <- TrendIn["pico"][1], Buckets <- TrendIn["pico"][2],
        MaxSwaps <- TrendIn["pico"][3], Retry <- 1, Faults <- 0, Expander <- FALSE,
        StartFaults <- 0, Crashes <- 0, Held <- 0, ota <- r1, view <- r2, ui <- r3, glass <- r4,
        boots <- r5, files <- r1, trend <- r2, loaded <- r3, bucket <- r4, writes <- r5,
        shelf <- r6, slot <- r1, card <- r2, state <- r3, probe <- r4, main <- r5, loop <- r6,
        swaps <- r7, glitches <- r8, pc <- r1, cache <- r2, pins <- r3, chip <- r4, awake <- r5,
        rails <- r6, railsOn <- r7, tries <- r8, faults <- r9, drawn <- r10, at <- r1,
        step <- r2, again <- r3, output <- r4, port <- r5, converters <- r6, held <- r7,
        sensor <- r8, hw <- r9, vcom <- r10, asks <- r11, left <- r12, crashes <- r13,
        lost <- r14

LEMMA PicoDemosSame ==
    /\ Pico4!Panel!ConstantsOK <=> Pico("demos")!ConstantsOK
    /\ Pico4!Panel!Init <=> Pico("demos")!Init
    /\ Pico4!Panel!Next <=> Pico("demos")!Next
    /\ Pico4!Panel!TypeOK <=> Pico("demos")!TypeOK
    /\ Pico4!Panel!SceneIsDrawn <=> Pico("demos")!SceneIsDrawn
    /\ Pico4!Panel!GlassIsFrame <=> Pico("demos")!GlassIsFrame
    /\ Pico4!Panel!GhostsBounded <=> Pico("demos")!GhostsBounded
    /\ Pico4!Panel!BarsAreClean <=> Pico("demos")!BarsAreClean
    /\ Pico4!Panel!PromptsAreSeen <=> Pico("demos")!PromptsAreSeen
    /\ Pico4!Panel!FinalFrameIsSeen <=> Pico("demos")!FinalFrameIsSeen
    /\ UNCHANGED Pico4!Panel!vars <=> UNCHANGED Pico("demos")!vars
  <1>1. /\ Pico4!Panel!ConstantsOK <=> Pico("demos")!ConstantsOK
        /\ Pico4!Panel!Init <=> Pico("demos")!Init
    BY Zenon DEF
      Pico4!Panel!Missing, Pico4!Panel!ConstantsOK, Pico4!Panel!Boot, Pico4!Panel!NoOta,
      Pico4!Panel!Blank, Pico4!Panel!Paper, Pico4!Panel!NothingDrawn, Pico4!Panel!Init,
      Pico!Missing, Pico!ConstantsOK, Pico!Boot, Pico!NoOta, Pico!Blank, Pico!Paper,
      Pico!NothingDrawn, Pico!Init
  <1>2. /\ UNCHANGED Pico4!Panel!vars <=> UNCHANGED Pico("demos")!vars
        /\ Pico4!Panel!TypeOK <=> Pico("demos")!TypeOK
        /\ Pico4!Panel!SceneIsDrawn <=> Pico("demos")!SceneIsDrawn
        /\ Pico4!Panel!GlassIsFrame <=> Pico("demos")!GlassIsFrame
        /\ Pico4!Panel!GhostsBounded <=> Pico("demos")!GhostsBounded
        /\ Pico4!Panel!BarsAreClean <=> Pico("demos")!BarsAreClean
        /\ Pico4!Panel!PromptsAreSeen <=> Pico("demos")!PromptsAreSeen
        /\ Pico4!Panel!FinalFrameIsSeen <=> Pico("demos")!FinalFrameIsSeen
    BY Zenon DEF
      Pico4!Panel!vars, Pico4!Panel!Missing, Pico4!Panel!Phases, Pico4!Panel!TypeOK,
      Pico4!Panel!Scene, Pico4!Panel!HomeFrame, Pico4!Panel!ClockFrame,
      Pico4!Panel!SettingsFrame, Pico4!Panel!PromptFrame, Pico4!Panel!Frame, Pico4!Panel!Bar,
      Pico4!Panel!Ink, Pico4!Panel!Busy, Pico4!Panel!SceneIsDrawn, Pico4!Panel!GlassIsFrame,
      Pico4!Panel!GhostsBounded, Pico4!Panel!BarsAreClean, Pico4!Panel!PromptsAreSeen,
      Pico4!Panel!FinalFrameIsSeen,
      Pico!vars, Pico!Missing, Pico!Phases, Pico!TypeOK, Pico!Scene, Pico!HomeFrame,
      Pico!ClockFrame, Pico!SettingsFrame, Pico!PromptFrame, Pico!Frame, Pico!Bar, Pico!Ink,
      Pico!Busy, Pico!SceneIsDrawn, Pico!GlassIsFrame, Pico!GhostsBounded, Pico!BarsAreClean,
      Pico!PromptsAreSeen, Pico!FinalFrameIsSeen
  <1>3. Pico4!Panel!OtaMoves <=> Pico("demos")!OtaMoves
    BY Zenon DEF
      Pico4!Panel!Fail, Pico4!Panel!Given, Pico4!Panel!Moved, Pico4!Panel!OtaMoves,
      Pico!Fail, Pico!Given, Pico!Moved, Pico!OtaMoves
  <1>4. Pico4!Panel!Iteration <=> Pico("demos")!Iteration
    <2>1. ASSUME NEW asked, NEW command
          PROVE  Pico4!Panel!Demonstrated(asked, command)
                    = Pico("demos")!Demonstrated(asked, command)
      BY Zenon DEF
        Pico4!Panel!Missing, Pico4!Panel!Blank, Pico4!Panel!Paper, Pico4!Panel!Scene,
        Pico4!Panel!HomeFrame, Pico4!Panel!ClockFrame, Pico4!Panel!SettingsFrame,
        Pico4!Panel!PromptFrame, Pico4!Panel!Frame, Pico4!Panel!Bar, Pico4!Panel!Ink,
        Pico4!Panel!Demo, Pico4!Panel!White, Pico4!Panel!Torn, Pico4!Panel!More,
        Pico4!Panel!Driven, Pico4!Panel!Full, Pico4!Panel!LimitReached, Pico4!Panel!Failed,
        Pico4!Panel!Rendered, Pico4!Panel!Busy, Pico4!Panel!Demonstrated,
        Pico!Missing, Pico!Blank, Pico!Paper, Pico!Scene, Pico!HomeFrame, Pico!ClockFrame,
        Pico!SettingsFrame, Pico!PromptFrame, Pico!Frame, Pico!Bar, Pico!Ink, Pico!Demo,
        Pico!White, Pico!Torn, Pico!More, Pico!Driven, Pico!Full, Pico!LimitReached,
        Pico!Failed, Pico!Rendered, Pico!Busy, Pico!Demonstrated
    <2>2. ASSUME NEW v, NEW o
          PROVE  Pico4!Panel!Prompted(v, o)
                    = Pico("demos")!Prompted(v, o)
      BY Zenon DEF
        Pico4!Panel!Busy, Pico4!Panel!Prompted,
        Pico!Busy, Pico!Prompted
    <2>3. ASSUME NEW done, NEW u, NEW g
          PROVE  Pico4!Panel!Draws(done, u, g)
                    <=> Pico("demos")!Draws(done, u, g)
      BY Zenon DEF
        Pico4!Panel!Missing, Pico4!Panel!Blank, Pico4!Panel!Paper, Pico4!Panel!Scene,
        Pico4!Panel!HomeFrame, Pico4!Panel!ClockFrame, Pico4!Panel!SettingsFrame,
        Pico4!Panel!PromptFrame, Pico4!Panel!Frame, Pico4!Panel!Bar, Pico4!Panel!Ink,
        Pico4!Panel!White, Pico4!Panel!Torn, Pico4!Panel!More, Pico4!Panel!Driven,
        Pico4!Panel!Full, Pico4!Panel!LimitReached, Pico4!Panel!Failed, Pico4!Panel!Rendered,
        Pico4!Panel!RebootDrawn, Pico4!Panel!Draws,
        Pico!Missing, Pico!Blank, Pico!Paper, Pico!Scene, Pico!HomeFrame, Pico!ClockFrame,
        Pico!SettingsFrame, Pico!PromptFrame, Pico!Frame, Pico!Bar, Pico!Ink, Pico!White,
        Pico!Torn, Pico!More, Pico!Driven, Pico!Full, Pico!LimitReached, Pico!Failed,
        Pico!Rendered, Pico!RebootDrawn, Pico!Draws
    <2>4. ASSUME NEW done, NEW u, NEW g
          PROVE  Pico4!Panel!Waits(done, u, g)
                    <=> Pico("demos")!Waits(done, u, g)
      BY Zenon DEF
        Pico4!Panel!Waits,
        Pico!Waits
    <2>5. ASSUME NEW v, NEW e, NEW o
          PROVE  Pico4!Panel!Received(v, e, o)
                    = Pico("demos")!Received(v, e, o)
      BY Zenon DEF
        Pico4!Panel!Busy, Pico4!Panel!Toggled, Pico4!Panel!Received,
        Pico!Busy, Pico!Toggled, Pico!Received
    <2>6. ASSUME NEW v, NEW used
          PROVE  Pico4!Panel!Published(v, used)
                    = Pico("demos")!Published(v, used)
      BY Zenon DEF
        Pico4!Panel!Missing, Pico4!Panel!Warning, Pico4!Panel!Shrinks, Pico4!Panel!Published,
        Pico!Missing, Pico!Warning, Pico!Shrinks, Pico!Published
    <2>7. ASSUME NEW v
          PROVE  Pico4!Panel!Targets(v)
                    = Pico("demos")!Targets(v)
      BY Zenon DEF
        Pico4!Panel!Scene, Pico4!Panel!Targets,
        Pico!Scene, Pico!Targets
    <2>8. ASSUME NEW v, NEW i, NEW o
          PROVE  Pico4!Panel!Answered(v, i, o)
                    = Pico("demos")!Answered(v, i, o)
      BY Zenon DEF
        Pico4!Panel!Fail, Pico4!Panel!Answered,
        Pico!Fail, Pico!Answered
    <2>9. ASSUME NEW v, NEW i, NEW o
          PROVE  Pico4!Panel!Touched(v, i, o)
                    = Pico("demos")!Touched(v, i, o)
      BY Zenon DEF
        Pico4!Panel!Busy, Pico4!Panel!Toggled, Pico4!Panel!Chosen, Pico4!Panel!Touched,
        Pico!Busy, Pico!Toggled, Pico!Chosen, Pico!Touched
    <2>10. ASSUME NEW v, NEW t, NEW o
          PROVE  Pico4!Panel!Turned(v, t, o)
                    = Pico("demos")!Turned(v, t, o)
      BY Zenon DEF
        Pico4!Panel!Busy, Pico4!Panel!Turned,
        Pico!Busy, Pico!Turned
    <2>11. ASSUME NEW v, NEW moved
          PROVE  Pico4!Panel!PickedUp(v, moved)
                    = Pico("demos")!PickedUp(v, moved)
      BY Zenon DEF
        Pico4!Panel!PickedUp,
        Pico!PickedUp
    <2>12. ASSUME NEW v, NEW o
          PROVE  Pico4!Panel!TimedOut(v, o)
                    = Pico("demos")!TimedOut(v, o)
      BY Zenon DEF
        Pico4!Panel!Busy, Pico4!Panel!TimedOut,
        Pico!Busy, Pico!TimedOut
    <2>13. ASSUME NEW v, NEW c, NEW o
          PROVE  Pico4!Panel!Commanded(v, c, o)
                    = Pico("demos")!Commanded(v, c, o)
      BY Zenon DEF
        Pico4!Panel!Busy, Pico4!Panel!Commanded,
        Pico!Busy, Pico!Commanded
    <2>14. ASSUME NEW o
          PROVE  Pico4!Panel!Moved(o)
                    = Pico("demos")!Moved(o)
      BY Zenon DEF
        Pico4!Panel!Fail, Pico4!Panel!Given, Pico4!Panel!Moved,
        Pico!Fail, Pico!Given, Pico!Moved
    <2>15. ASSUME NEW v, NEW dt
          PROVE  Pico4!Panel!Snapshot(v, dt)
                    = Pico("demos")!Snapshot(v, dt)
      BY Zenon DEF
        Pico4!Panel!Less, Pico4!Panel!Least, Pico4!Panel!Snapshot,
        Pico!Less, Pico!Least, Pico!Snapshot
    <2>16. ASSUME NEW v
          PROVE  Pico4!Panel!Restarts(v)
                    <=> Pico("demos")!Restarts(v)
      BY Zenon DEF
        Pico4!Panel!Restarts,
        Pico!Restarts
    <2> DEFINE One(asked, command) ==
            \E demo \in Pico4!Panel!Demonstrated(asked, command),
                  done \in {Pico4!Panel!Prompted(asked, r1')} :
               Pico4!Panel!Draws(done, demo[1], demo[2]) \/ Pico4!Panel!Waits(done, demo[1], demo[2])
    <2> DEFINE Other(asked, command) ==
            \E demo \in Pico("demos")!Demonstrated(asked, command),
                  done \in {Pico("demos")!Prompted(asked, r1')} :
               Pico("demos")!Draws(done, demo[1], demo[2]) \/ Pico("demos")!Waits(done, demo[1], demo[2])
    <2>17. ASSUME NEW asked, NEW command
           PROVE  One(asked, command) <=> Other(asked, command)
      BY <2>1, <2>2, <2>3, <2>4, Zenon
    <2> HIDE DEF One, Other
    <2> DEFINE OneInputs(h) == PicoIn["demos"][2] \cup {"none"} \cup
                    (IF PicoIn["demos"][3] = {} THEN {} ELSE Pico4!Panel!Targets(h))
               OneTilts == IF "tilt" \in PicoIn["demos"][1] THEN Pico4!Panel!Tilts ELSE {"flat"}
               OneTurned(h, e, l, input, tilt) ==
                    Pico4!Panel!PickedUp(Pico4!Panel!Turned(Pico4!Panel!Touched(h, input, l), tilt, r1'), e = "tilt")
               OneAsked(turned, command) ==
                    Pico4!Panel!Commanded(Pico4!Panel!TimedOut(turned, r1'), command, r1')
               OneStep(h, e, l, input, tilt, command) ==
                    /\ r1' \in Pico4!Panel!Answered(h, input, l)
                    /\ \E turned \in {OneTurned(h, e, l, input, tilt)} :
                       \E asked \in {OneAsked(turned, command)} : One(asked, command)
    <2> DEFINE OtherInputs(h) == PicoIn["demos"][2] \cup {"none"} \cup
                    (IF PicoIn["demos"][3] = {} THEN {} ELSE Pico("demos")!Targets(h))
               OtherTilts == IF "tilt" \in PicoIn["demos"][1] THEN Pico("demos")!Tilts ELSE {"flat"}
               OtherTurned(h, e, l, input, tilt) ==
                    Pico("demos")!PickedUp(Pico("demos")!Turned(Pico("demos")!Touched(h, input, l), tilt, r1'), e = "tilt")
               OtherAsked(turned, command) ==
                    Pico("demos")!Commanded(Pico("demos")!TimedOut(turned, r1'), command, r1')
               OtherStep(h, e, l, input, tilt, command) ==
                    /\ r1' \in Pico("demos")!Answered(h, input, l)
                    /\ \E turned \in {OtherTurned(h, e, l, input, tilt)} :
                       \E asked \in {OtherAsked(turned, command)} : Other(asked, command)
    <2>18. ASSUME NEW h, NEW e, NEW l
           PROVE  Pico4!Panel!Reacts(h, e, l) <=>
                    \E input \in OneInputs(h), tilt \in OneTilts,
                       command \in PicoIn["demos"][4] \cup {"none"} : OneStep(h, e, l, input, tilt, command)
      BY Zenon DEF One, Pico4!Panel!Reacts
    <2>19. ASSUME NEW h, NEW e, NEW l
           PROVE  Pico("demos")!Reacts(h, e, l) <=>
                    \E input \in OtherInputs(h), tilt \in OtherTilts,
                       command \in PicoIn["demos"][4] \cup {"none"} : OtherStep(h, e, l, input, tilt, command)
      BY Zenon DEF Other, Pico!Reacts
    <2>21. ASSUME NEW h
           PROVE  OneInputs(h) = OtherInputs(h) /\ OneTilts = OtherTilts
      BY <2>7, Zenon DEF Pico4!Panel!Tilts, Pico!Tilts
    <2>22. ASSUME NEW h, NEW e, NEW l, NEW input, NEW tilt
           PROVE  OneTurned(h, e, l, input, tilt) = OtherTurned(h, e, l, input, tilt)
      BY <2>9, <2>10, <2>11, Zenon
    <2>23. ASSUME NEW turned, NEW command
           PROVE  OneAsked(turned, command) = OtherAsked(turned, command)
      BY <2>12, <2>13, Zenon
    <2> HIDE DEF OneInputs, OtherInputs, OneTilts, OtherTilts, OneTurned, OtherTurned,
                 OneAsked, OtherAsked
    <2>24. ASSUME NEW h, NEW e, NEW l, NEW input, NEW tilt, NEW command
           PROVE  OneStep(h, e, l, input, tilt, command) <=> OtherStep(h, e, l, input, tilt, command)
      BY <2>8, <2>17, <2>22, <2>23, Zenon
    <2> HIDE DEF OneStep, OtherStep
    <2>20. ASSUME NEW h, NEW e, NEW l
           PROVE  Pico4!Panel!Reacts(h, e, l) <=> Pico("demos")!Reacts(h, e, l)
      BY <2>18, <2>19, <2>21, <2>24, Zenon
    <2> DEFINE OneLates == {r1} \cup (IF "update" \in PicoIn["demos"][1] THEN Pico4!Panel!Moved(r1) ELSE {})
               OneHeard(begun, event, late, used) ==
                    Pico4!Panel!Published(Pico4!Panel!Received(begun, event, late), used)
               OneRest(begun, late) ==
                    /\ ~Pico4!Panel!Restarts(begun)
                    /\ \E event \in PicoIn["demos"][1] \cup {"none"}, used \in PicoIn["demos"][5] :
                       \E heard \in {OneHeard(begun, event, late, used)} : Pico4!Panel!Reacts(heard, event, late)
    <2> DEFINE OtherLates == {r1} \cup (IF "update" \in PicoIn["demos"][1] THEN Pico("demos")!Moved(r1) ELSE {})
               OtherHeard(begun, event, late, used) ==
                    Pico("demos")!Published(Pico("demos")!Received(begun, event, late), used)
               OtherRest(begun, late) ==
                    /\ ~Pico("demos")!Restarts(begun)
                    /\ \E event \in PicoIn["demos"][1] \cup {"none"}, used \in PicoIn["demos"][5] :
                       \E heard \in {OtherHeard(begun, event, late, used)} : Pico("demos")!Reacts(heard, event, late)
    <2>25. Pico4!Panel!Iteration <=>
               /\ \E dt \in 0..1, late \in OneLates :
                  \E begun \in {Pico4!Panel!Snapshot(r2, dt)} : OneRest(begun, late)
               /\ UNCHANGED r5
      BY Zenon DEF Pico4!Panel!Iteration
    <2>26. Pico("demos")!Iteration <=>
               /\ \E dt \in 0..1, late \in OtherLates :
                  \E begun \in {Pico("demos")!Snapshot(r2, dt)} : OtherRest(begun, late)
               /\ UNCHANGED r5
      BY Zenon DEF Pico!Iteration
    <2>27. OneLates = OtherLates
      BY <2>14, Zenon
    <2>28. ASSUME NEW begun, NEW event, NEW late, NEW used
           PROVE  OneHeard(begun, event, late, used) = OtherHeard(begun, event, late, used)
      BY <2>5, <2>6, Zenon
    <2> HIDE DEF OneLates, OtherLates, OneHeard, OtherHeard
    <2>29. ASSUME NEW begun, NEW late
           PROVE  OneRest(begun, late) <=> OtherRest(begun, late)
      BY <2>16, <2>20, <2>28, Zenon
    <2> HIDE DEF OneRest, OtherRest
    <2> QED
      BY <2>15, <2>25, <2>26, <2>27, <2>29, Zenon
  <1>5. Pico4!Panel!Restart <=> Pico("demos")!Restart
    BY Zenon DEF
      Pico4!Panel!Missing, Pico4!Panel!Boot, Pico4!Panel!NoOta, Pico4!Panel!Blank,
      Pico4!Panel!NothingDrawn, Pico4!Panel!Less, Pico4!Panel!Least, Pico4!Panel!Snapshot,
      Pico4!Panel!Restarts, Pico4!Panel!Restart,
      Pico!Missing, Pico!Boot, Pico!NoOta, Pico!Blank, Pico!NothingDrawn, Pico!Less, Pico!Least,
      Pico!Snapshot, Pico!Restarts, Pico!Restart
  <1>6. Pico4!Panel!Next <=> Pico("demos")!Next
    BY <1>3, <1>4, <1>5, Zenon DEF Pico4!Panel!Next, Pico!Next
  <1> QED BY <1>1, <1>2, <1>6, Zenon

LEMMA PicoDemosHolds ==
    PanelsSpec /\ On("demos") =>
        /\ [](On("demos") /\ PicoSafe("demos"))
        /\ [][PicoStep("demos")]_all
  <1>1. "demos" \in Picos
    BY DEF Picos
  <1>2. Pico4!Panel!ConstantsOK
    BY <1>1, PanelsAssumption, PicoDemosSame
  <1>3. PanelsInit /\ On("demos") => Pico4!Panel!Init
    BY <1>1, PicoBegins, PicoDemosSame
  <1>4. On("demos") /\ [PanelsNext]_all => On("demos")' /\ [Pico4!Panel!Next]_(Pico4!Panel!vars)
    BY <1>1, PicoContinues, PicoDemosSame, Zenon
  <1>5. PanelsSpec /\ On("demos") => []On("demos") /\ Pico4!Panel!Spec
    BY <1>3, <1>4, PTL DEF PanelsSpec, Pico4!Panel!Spec
  <1>6. Pico4!Panel!Spec => []Pico4!Panel!TypeOK
    BY <1>2, Pico4!PanelTypes
  <1>7. Pico4!Panel!Spec => []Pico4!Panel!SceneIsDrawn
    BY <1>2, Pico4!PanelScene
  <1>8. Pico4!Panel!Spec => [](Pico4!Panel!GlassIsFrame /\ Pico4!Panel!GhostsBounded /\ Pico4!Panel!BarsAreClean)
    BY <1>2, Pico4!PanelPaper
  <1>9. Pico4!Panel!Spec => [][Pico4!Panel!PromptsAreSeen]_(Pico4!Panel!vars)
    BY <1>2, Pico4!PanelPrompts
  <1>10. Pico4!Panel!Spec => [][Pico4!Panel!FinalFrameIsSeen]_(Pico4!Panel!vars)
    BY <1>2, Pico4!PanelFinal
  <1>11. Pico4!Panel!TypeOK /\ Pico4!Panel!SceneIsDrawn /\ Pico4!Panel!GlassIsFrame /\
        Pico4!Panel!GhostsBounded /\ Pico4!Panel!BarsAreClean
        => PicoSafe("demos")
    BY PicoDemosSame DEF PicoSafe
  <1>12. On("demos") /\ [PanelsNext]_all /\ [Pico4!Panel!PromptsAreSeen]_(Pico4!Panel!vars) /\ [Pico4!Panel!FinalFrameIsSeen]_(Pico4!Panel!vars)
        => [PicoStep("demos")]_all
    BY <1>1, PicoContinues, PicoDemosSame, Zenon DEF PicoStep
  <1> QED BY <1>5, <1>6, <1>7, <1>8, <1>9, <1>10, <1>11, <1>12, PTL DEF PanelsSpec

LEMMA PicoHolds == PanelsSpec => []PicosSafe /\ [][PicosStep]_all
  <1> DEFINE Other == \A p \in Picos : ~On(p)
  <1>1. Other /\ [PanelsNext]_all => Other'
    BY PicosStay DEF On
  <1>2. On("taps") => (PicoSafe("taps") => PicosSafe) /\ (PicoStep("taps") => PicosStep)
    BY DEF On, PicosSafe, PicosStep
  <1>3. On("bars") => (PicoSafe("bars") => PicosSafe) /\ (PicoStep("bars") => PicosStep)
    BY DEF On, PicosSafe, PicosStep
  <1>4. On("tilts") => (PicoSafe("tilts") => PicosSafe) /\ (PicoStep("tilts") => PicosStep)
    BY DEF On, PicosSafe, PicosStep
  <1>5. On("demos") => (PicoSafe("demos") => PicosSafe) /\ (PicoStep("demos") => PicosStep)
    BY DEF On, PicosSafe, PicosStep
  <1>6. Other => PicosSafe /\ PicosStep
    BY DEF PicosSafe, PicosStep
  <1>7. Other \/ On("taps") \/ On("bars") \/ On("tilts") \/ On("demos")
    BY DEF Picos
  <1> HIDE DEF Other
  <1> QED
    BY <1>1, <1>2, <1>3, <1>4, <1>5, <1>6, <1>7,
      PicoTapsHolds, PicoBarsHolds, PicoTiltsHolds, PicoDemosHolds, PTL DEF PanelsSpec
=============================================================================
