--------------------------- MODULE PanelRunProofs --------------------------
(***************************************************************************)
(* What is proved of the AMOLED, RLCD and ePaper 3.97 panels, carried over *)
(* to the run of MCPanels, for any situations that satisfy the assumptions *)
(* of their programs.                                                      *)
(*                                                                         *)
(* A behaviour of a run is one of a single program, in a single situation. *)
(* For each, the module with the program's proofs is instantiated with the *)
(* situation's constants and the run's registers, one instance for the     *)
(* situations of several programs; `...Same` says that it speaks of the    *)
(* very program the run takes, and `...Holds` carries what it proves over  *)
(* to the run.                                                             *)
(***************************************************************************)
EXTENDS MCPanels, TLAPS

\* A run goes on with the program it has started.
LEMMA PanelsStay == [PanelsNext]_all => UNCHANGED program
  BY DEF PanelsNext, AmoledNext, RlcdNext, EpaperNext, PicoNext, Runs, all

(***************************************************************************)
(* What is proved of each program, and what it gives of the run's          *)
(* properties.                                                             *)
(***************************************************************************)

EpaperSafe(p) ==
    Epaper(p)!TypeOK /\ Epaper(p)!SceneIsDrawn

EpaperStep(p) == Epaper(p)!PromptsAreSeen /\ Epaper(p)!FinalFrameIsSeen

EpapersSafe == \A p \in Epapers : On(p) => EpaperSafe(p)
EpapersStep == \A p \in Epapers : On(p) => EpaperStep(p)

RlcdSafe(p) ==
    Rlcd(p)!TypeOK /\ Rlcd(p)!PageInRing /\ Rlcd(p)!UnsavedIsFlagged

RlcdStep(p) == Rlcd(p)!OneTonePerRaise

RlcdsSafe == \A p \in Rlcds : On(p) => RlcdSafe(p)
RlcdsStep == \A p \in Rlcds : On(p) => RlcdStep(p)

AmoledSafe(p) ==
    /\ Amoled(p)!TypeOK /\ Amoled(p)!StatusIsPage /\ Amoled(p)!PreviewIsUndone
    /\ Amoled(p)!UpdateIsShown /\ Amoled(p)!AwakeWhenNeeded /\ Amoled(p)!ScreenIsCurrent

AmoledsSafe == \A p \in Amoleds : On(p) => AmoledSafe(p)

LEMMA EpaperParts ==
    /\ EpapersSafe =>
          /\ \A p \in Epapers : OnEpaper(p) => Epaper(p)!TypeOK
          /\ \A p \in Epapers : OnEpaper(p) => Epaper(p)!SceneIsDrawn
    /\ EpapersStep =>
          /\ \A p \in Epapers : OnEpaper(p) => Epaper(p)!PromptsAreSeen
          /\ \A p \in Epapers : OnEpaper(p) => Epaper(p)!FinalFrameIsSeen
  BY DEF EpapersSafe, EpaperSafe, EpapersStep, EpaperStep, OnEpaper, On

LEMMA RlcdParts ==
    /\ RlcdsSafe =>
          /\ \A p \in Rlcds : OnRlcd(p) => Rlcd(p)!TypeOK
          /\ \A p \in Rlcds : OnRlcd(p) => Rlcd(p)!PageInRing
          /\ \A p \in Rlcds : OnRlcd(p) => Rlcd(p)!UnsavedIsFlagged
    /\ RlcdsStep =>
          /\ \A p \in Rlcds : OnRlcd(p) => Rlcd(p)!OneTonePerRaise
  BY DEF RlcdsSafe, RlcdSafe, RlcdsStep, RlcdStep, OnRlcd, On

LEMMA AmoledParts ==
    AmoledsSafe =>
          /\ \A p \in Amoleds : OnAmoled(p) => Amoled(p)!TypeOK
          /\ \A p \in Amoleds :
                OnAmoled(p) => Amoled(p)!StatusIsPage /\ Amoled(p)!ScreenIsCurrent
          /\ \A p \in Amoleds : OnAmoled(p) => Amoled(p)!PreviewIsUndone
          /\ \A p \in Amoleds : OnAmoled(p) => Amoled(p)!UpdateIsShown /\ Amoled(p)!AwakeWhenNeeded
  BY DEF AmoledsSafe, AmoledSafe, OnAmoled, On

(***************************************************************************)
(* The programs of the ePaper 3.97 panel.                                  *)
(***************************************************************************)

LEMMA EpaperBegins ==
    ASSUME NEW p \in Epapers, PanelsInit, On(p)
    PROVE  Epaper(p)!Init
  BY DEF PanelsInit, On, AmoledInit, RlcdInit, EpaperInit, PicoInit, Amoleds, Rlcds,
      Epapers, Picos

LEMMA EpaperContinues ==
    ASSUME NEW p \in Epapers, On(p), [PanelsNext]_all
    PROVE  /\ On(p)' /\ [Epaper(p)!Next]_(Epaper(p)!vars)
           /\ UNCHANGED Epaper(p)!vars => UNCHANGED all
  <1>1. CASE EpaperNext
    BY <1>1 DEF EpaperNext, Runs, On, Epaper!Next, Epaper!vars, all,
        From6, From7, From8, From9, From10, From11, From12, From14, From15, From16, From17
  <1>2. CASE UNCHANGED all
    BY <1>2 DEF all, On, Epaper!vars
  <1>3. ~(AmoledNext \/ RlcdNext \/ PicoNext)
    BY DEF AmoledNext, RlcdNext, PicoNext, Runs, On, Amoleds, Rlcds, Epapers, Picos
  <1> QED BY <1>1, <1>2, <1>3 DEF PanelsNext

Epaper1 ==
    INSTANCE EpaperProofs WITH
        Events <- EpaperIn["dial"][1], Keys <- EpaperIn["dial"][2],
        Commands <- EpaperIn["dial"][3], Tilts <- EpaperIn["dial"][4],
        Used <- EpaperIn["dial"][5], Failures <- EpaperIn["dial"][6],
        Final <- EpaperIn["dial"][7], Aborts <- EpaperIn["dial"][8], Banner <- 1, IdleTime <- 2,
        ota <- r1, view <- r2, frame <- r3, settled <- r4, boots <- r5,
        Modes <- {}, Orientations <- {}, Budget <- 0, Crashes <- 0, pending <- r1, scene <- r2,
        full <- r3, fresh <- r4, pc <- r5, notified <- r6, job <- r7, last <- r8, partials <- r9,
        setup <- r10, ram <- r11, glass <- r12, ghosts <- r13, owed <- r14, crashes <- r15

LEMMA EpaperDialSame ==
    /\ Epaper1!App!ConstantsOK <=> Epaper("dial")!ConstantsOK
    /\ Epaper1!App!Init <=> Epaper("dial")!Init
    /\ Epaper1!App!Next <=> Epaper("dial")!Next
    /\ Epaper1!App!TypeOK <=> Epaper("dial")!TypeOK
    /\ Epaper1!App!SceneIsDrawn <=> Epaper("dial")!SceneIsDrawn
    /\ Epaper1!App!PromptsAreSeen <=> Epaper("dial")!PromptsAreSeen
    /\ Epaper1!App!FinalFrameIsSeen <=> Epaper("dial")!FinalFrameIsSeen
    /\ UNCHANGED Epaper1!App!vars <=> UNCHANGED Epaper("dial")!vars
  <1>1. /\ Epaper1!App!ConstantsOK <=> Epaper("dial")!ConstantsOK
        /\ Epaper1!App!Init <=> Epaper("dial")!Init
    BY Zenon DEF
      Epaper1!App!ConstantsOK, Epaper1!App!NoOta, Epaper1!App!Boot, Epaper1!App!NoFrame,
      Epaper1!App!Init,
      Epaper!ConstantsOK, Epaper!NoOta, Epaper!Boot, Epaper!NoFrame, Epaper!Init
  <1>2. /\ UNCHANGED Epaper1!App!vars <=> UNCHANGED Epaper("dial")!vars
        /\ Epaper1!App!TypeOK <=> Epaper("dial")!TypeOK
        /\ Epaper1!App!SceneIsDrawn <=> Epaper("dial")!SceneIsDrawn
        /\ Epaper1!App!PromptsAreSeen <=> Epaper("dial")!PromptsAreSeen
        /\ Epaper1!App!FinalFrameIsSeen <=> Epaper("dial")!FinalFrameIsSeen
    BY Zenon DEF
      Epaper1!App!Pages, Epaper1!App!Phases, Epaper1!App!Errors, Epaper1!App!vars,
      Epaper1!App!Frame, Epaper1!App!NoFrame, Epaper1!App!Foreign, Epaper1!App!TypeOK,
      Epaper1!App!SceneIsDrawn, Epaper1!App!PromptsAreSeen, Epaper1!App!FinalFrameIsSeen,
      Epaper!Pages, Epaper!Phases, Epaper!Errors, Epaper!vars, Epaper!Frame, Epaper!NoFrame,
      Epaper!Foreign, Epaper!TypeOK, Epaper!SceneIsDrawn, Epaper!PromptsAreSeen,
      Epaper!FinalFrameIsSeen
  <1>3. Epaper1!App!OtaMoves <=> Epaper("dial")!OtaMoves
    BY Zenon DEF
      Epaper1!App!Errors, Epaper1!App!Fail, Epaper1!App!Given, Epaper1!App!Moved,
      Epaper1!App!OtaMoves,
      Epaper!Errors, Epaper!Fail, Epaper!Given, Epaper!Moved, Epaper!OtaMoves
  <1>4. Epaper1!App!Iteration <=> Epaper("dial")!Iteration
    BY Zenon DEF
      Epaper1!App!Errors, Epaper1!App!Frame, Epaper1!App!Foreign, Epaper1!App!Fail,
      Epaper1!App!Given, Epaper1!App!Moved, Epaper1!App!Less, Epaper1!App!Least,
      Epaper1!App!Waited,
      Epaper1!App!NewError, Epaper1!App!Snapshot, Epaper1!App!Free, Epaper1!App!Left,
      Epaper1!App!Received, Epaper1!App!Warning, Epaper1!App!Warned, Epaper1!App!InSettings,
      Epaper1!App!OnPage, Epaper1!App!DemoKey, Epaper1!App!Keyed, Epaper1!App!Answered,
      Epaper1!App!Turned, Epaper1!App!NoUprightTrend, Epaper1!App!OpenClock,
      Epaper1!App!TimedOut, Epaper1!App!Commanded, Epaper1!App!DiagnosticFrame,
      Epaper1!App!Prompted, Epaper1!App!Restarts, Epaper1!App!Armed, Epaper1!App!Saves,
      Epaper1!App!Iteration,
      Epaper!Errors, Epaper!Frame, Epaper!Foreign, Epaper!Fail, Epaper!Given, Epaper!Moved,
      Epaper!Less, Epaper!Least, Epaper!Waited, Epaper!NewError, Epaper!Snapshot, Epaper!Free, Epaper!Left,
      Epaper!Received, Epaper!Warning, Epaper!Warned, Epaper!InSettings, Epaper!OnPage,
      Epaper!DemoKey, Epaper!Keyed, Epaper!Answered, Epaper!Turned, Epaper!NoUprightTrend,
      Epaper!OpenClock, Epaper!TimedOut, Epaper!Commanded, Epaper!DiagnosticFrame,
      Epaper!Prompted, Epaper!Restarts, Epaper!Armed, Epaper!Saves, Epaper!Iteration
  <1>5. Epaper1!App!Restart <=> Epaper("dial")!Restart
    BY Zenon DEF
      Epaper1!App!NoOta, Epaper1!App!Boot, Epaper1!App!NoFrame, Epaper1!App!Less,
      Epaper1!App!Least, Epaper1!App!Waited, Epaper1!App!NewError, Epaper1!App!Snapshot,
      Epaper1!App!Restarts, Epaper1!App!Restart,
      Epaper!NoOta, Epaper!Boot, Epaper!NoFrame, Epaper!Less, Epaper!Least, Epaper!Waited,
      Epaper!NewError, Epaper!Snapshot, Epaper!Restarts, Epaper!Restart
  <1>6. Epaper1!App!Refresh <=> Epaper("dial")!Refresh
    BY Zenon DEF
      Epaper1!App!Refresh,
      Epaper!Refresh
  <1>7. Epaper1!App!Next <=> Epaper("dial")!Next
    BY <1>3, <1>4, <1>5, <1>6, Zenon DEF Epaper1!App!Next, Epaper!Next
  <1> QED BY <1>1, <1>2, <1>7, Zenon

LEMMA EpaperDialHolds ==
    PanelsSpec /\ On("dial") =>
        /\ [](On("dial") /\ EpaperSafe("dial"))
        /\ [][EpaperStep("dial")]_all
  <1>1. "dial" \in Epapers
    BY DEF Epapers
  <1>2. Epaper1!App!ConstantsOK
    BY <1>1, PanelsAssumption, EpaperDialSame
  <1>3. PanelsInit /\ On("dial") => Epaper1!App!Init
    BY <1>1, EpaperBegins, EpaperDialSame
  <1>4. On("dial") /\ [PanelsNext]_all => On("dial")' /\ [Epaper1!App!Next]_(Epaper1!App!vars)
    BY <1>1, EpaperContinues, EpaperDialSame, Zenon
  <1>5. PanelsSpec /\ On("dial") => []On("dial") /\ Epaper1!App!Spec
    BY <1>3, <1>4, PTL DEF PanelsSpec, Epaper1!App!Spec
  <1>6. Epaper1!App!Spec => []Epaper1!App!TypeOK
    BY <1>2, Epaper1!EpaperTypeOK
  <1>7. Epaper1!App!Spec => []Epaper1!App!SceneIsDrawn
    BY <1>2, Epaper1!EpaperSceneIsDrawn
  <1>8. Epaper1!NoPromptIsMissed
    BY <1>1, PanelsAssumption DEF Epaper1!NoPromptIsMissed
  <1>9. Epaper1!App!Spec => [][Epaper1!App!PromptsAreSeen]_(Epaper1!App!vars)
    BY <1>2, <1>8, Epaper1!EpaperPromptsAreSeen
  <1>10. Epaper1!App!Spec => [][Epaper1!App!FinalFrameIsSeen]_(Epaper1!App!vars)
    BY <1>2, Epaper1!EpaperFinalFrame
  <1>11. Epaper1!App!TypeOK /\ Epaper1!App!SceneIsDrawn
        => EpaperSafe("dial")
    BY EpaperDialSame DEF EpaperSafe
  <1>12. On("dial") /\ [PanelsNext]_all /\ [Epaper1!App!PromptsAreSeen]_(Epaper1!App!vars) /\ [Epaper1!App!FinalFrameIsSeen]_(Epaper1!App!vars)
        => [EpaperStep("dial")]_all
    BY <1>1, EpaperContinues, EpaperDialSame, Zenon DEF EpaperStep
  <1> QED BY <1>5, <1>6, <1>7, <1>9, <1>10, <1>11, <1>12, PTL DEF PanelsSpec

Epaper2 ==
    INSTANCE EpaperProofs WITH
        Events <- EpaperIn["turns"][1], Keys <- EpaperIn["turns"][2],
        Commands <- EpaperIn["turns"][3], Tilts <- EpaperIn["turns"][4],
        Used <- EpaperIn["turns"][5], Failures <- EpaperIn["turns"][6],
        Final <- EpaperIn["turns"][7], Aborts <- EpaperIn["turns"][8], Banner <- 1, IdleTime <- 2,
        ota <- r1, view <- r2, frame <- r3, settled <- r4, boots <- r5,
        Modes <- {}, Orientations <- {}, Budget <- 0, Crashes <- 0, pending <- r1, scene <- r2,
        full <- r3, fresh <- r4, pc <- r5, notified <- r6, job <- r7, last <- r8, partials <- r9,
        setup <- r10, ram <- r11, glass <- r12, ghosts <- r13, owed <- r14, crashes <- r15

LEMMA EpaperTurnsSame ==
    /\ Epaper2!App!ConstantsOK <=> Epaper("turns")!ConstantsOK
    /\ Epaper2!App!Init <=> Epaper("turns")!Init
    /\ Epaper2!App!Next <=> Epaper("turns")!Next
    /\ Epaper2!App!TypeOK <=> Epaper("turns")!TypeOK
    /\ Epaper2!App!SceneIsDrawn <=> Epaper("turns")!SceneIsDrawn
    /\ Epaper2!App!PromptsAreSeen <=> Epaper("turns")!PromptsAreSeen
    /\ Epaper2!App!FinalFrameIsSeen <=> Epaper("turns")!FinalFrameIsSeen
    /\ UNCHANGED Epaper2!App!vars <=> UNCHANGED Epaper("turns")!vars
  <1>1. /\ Epaper2!App!ConstantsOK <=> Epaper("turns")!ConstantsOK
        /\ Epaper2!App!Init <=> Epaper("turns")!Init
    BY Zenon DEF
      Epaper2!App!ConstantsOK, Epaper2!App!NoOta, Epaper2!App!Boot, Epaper2!App!NoFrame,
      Epaper2!App!Init,
      Epaper!ConstantsOK, Epaper!NoOta, Epaper!Boot, Epaper!NoFrame, Epaper!Init
  <1>2. /\ UNCHANGED Epaper2!App!vars <=> UNCHANGED Epaper("turns")!vars
        /\ Epaper2!App!TypeOK <=> Epaper("turns")!TypeOK
        /\ Epaper2!App!SceneIsDrawn <=> Epaper("turns")!SceneIsDrawn
        /\ Epaper2!App!PromptsAreSeen <=> Epaper("turns")!PromptsAreSeen
        /\ Epaper2!App!FinalFrameIsSeen <=> Epaper("turns")!FinalFrameIsSeen
    BY Zenon DEF
      Epaper2!App!Pages, Epaper2!App!Phases, Epaper2!App!Errors, Epaper2!App!vars,
      Epaper2!App!Frame, Epaper2!App!NoFrame, Epaper2!App!Foreign, Epaper2!App!TypeOK,
      Epaper2!App!SceneIsDrawn, Epaper2!App!PromptsAreSeen, Epaper2!App!FinalFrameIsSeen,
      Epaper!Pages, Epaper!Phases, Epaper!Errors, Epaper!vars, Epaper!Frame, Epaper!NoFrame,
      Epaper!Foreign, Epaper!TypeOK, Epaper!SceneIsDrawn, Epaper!PromptsAreSeen,
      Epaper!FinalFrameIsSeen
  <1>3. Epaper2!App!OtaMoves <=> Epaper("turns")!OtaMoves
    BY Zenon DEF
      Epaper2!App!Errors, Epaper2!App!Fail, Epaper2!App!Given, Epaper2!App!Moved,
      Epaper2!App!OtaMoves,
      Epaper!Errors, Epaper!Fail, Epaper!Given, Epaper!Moved, Epaper!OtaMoves
  <1>4. Epaper2!App!Iteration <=> Epaper("turns")!Iteration
    BY Zenon DEF
      Epaper2!App!Errors, Epaper2!App!Frame, Epaper2!App!Foreign, Epaper2!App!Fail,
      Epaper2!App!Given, Epaper2!App!Moved, Epaper2!App!Less, Epaper2!App!Least,
      Epaper2!App!Waited,
      Epaper2!App!NewError, Epaper2!App!Snapshot, Epaper2!App!Free, Epaper2!App!Left,
      Epaper2!App!Received, Epaper2!App!Warning, Epaper2!App!Warned, Epaper2!App!InSettings,
      Epaper2!App!OnPage, Epaper2!App!DemoKey, Epaper2!App!Keyed, Epaper2!App!Answered,
      Epaper2!App!Turned, Epaper2!App!NoUprightTrend, Epaper2!App!OpenClock,
      Epaper2!App!TimedOut, Epaper2!App!Commanded, Epaper2!App!DiagnosticFrame,
      Epaper2!App!Prompted, Epaper2!App!Restarts, Epaper2!App!Armed, Epaper2!App!Saves,
      Epaper2!App!Iteration,
      Epaper!Errors, Epaper!Frame, Epaper!Foreign, Epaper!Fail, Epaper!Given, Epaper!Moved,
      Epaper!Less, Epaper!Least, Epaper!Waited, Epaper!NewError, Epaper!Snapshot, Epaper!Free, Epaper!Left,
      Epaper!Received, Epaper!Warning, Epaper!Warned, Epaper!InSettings, Epaper!OnPage,
      Epaper!DemoKey, Epaper!Keyed, Epaper!Answered, Epaper!Turned, Epaper!NoUprightTrend,
      Epaper!OpenClock, Epaper!TimedOut, Epaper!Commanded, Epaper!DiagnosticFrame,
      Epaper!Prompted, Epaper!Restarts, Epaper!Armed, Epaper!Saves, Epaper!Iteration
  <1>5. Epaper2!App!Restart <=> Epaper("turns")!Restart
    BY Zenon DEF
      Epaper2!App!NoOta, Epaper2!App!Boot, Epaper2!App!NoFrame, Epaper2!App!Less,
      Epaper2!App!Least, Epaper2!App!Waited, Epaper2!App!NewError, Epaper2!App!Snapshot,
      Epaper2!App!Restarts, Epaper2!App!Restart,
      Epaper!NoOta, Epaper!Boot, Epaper!NoFrame, Epaper!Less, Epaper!Least, Epaper!Waited,
      Epaper!NewError, Epaper!Snapshot, Epaper!Restarts, Epaper!Restart
  <1>6. Epaper2!App!Refresh <=> Epaper("turns")!Refresh
    BY Zenon DEF
      Epaper2!App!Refresh,
      Epaper!Refresh
  <1>7. Epaper2!App!Next <=> Epaper("turns")!Next
    BY <1>3, <1>4, <1>5, <1>6, Zenon DEF Epaper2!App!Next, Epaper!Next
  <1> QED BY <1>1, <1>2, <1>7, Zenon

LEMMA EpaperTurnsHolds ==
    PanelsSpec /\ On("turns") =>
        /\ [](On("turns") /\ EpaperSafe("turns"))
        /\ [][EpaperStep("turns")]_all
  <1>1. "turns" \in Epapers
    BY DEF Epapers
  <1>2. Epaper2!App!ConstantsOK
    BY <1>1, PanelsAssumption, EpaperTurnsSame
  <1>3. PanelsInit /\ On("turns") => Epaper2!App!Init
    BY <1>1, EpaperBegins, EpaperTurnsSame
  <1>4. On("turns") /\ [PanelsNext]_all => On("turns")' /\ [Epaper2!App!Next]_(Epaper2!App!vars)
    BY <1>1, EpaperContinues, EpaperTurnsSame, Zenon
  <1>5. PanelsSpec /\ On("turns") => []On("turns") /\ Epaper2!App!Spec
    BY <1>3, <1>4, PTL DEF PanelsSpec, Epaper2!App!Spec
  <1>6. Epaper2!App!Spec => []Epaper2!App!TypeOK
    BY <1>2, Epaper2!EpaperTypeOK
  <1>7. Epaper2!App!Spec => []Epaper2!App!SceneIsDrawn
    BY <1>2, Epaper2!EpaperSceneIsDrawn
  <1>8. Epaper2!NoPromptIsMissed
    BY <1>1, PanelsAssumption DEF Epaper2!NoPromptIsMissed
  <1>9. Epaper2!App!Spec => [][Epaper2!App!PromptsAreSeen]_(Epaper2!App!vars)
    BY <1>2, <1>8, Epaper2!EpaperPromptsAreSeen
  <1>10. Epaper2!App!Spec => [][Epaper2!App!FinalFrameIsSeen]_(Epaper2!App!vars)
    BY <1>2, Epaper2!EpaperFinalFrame
  <1>11. Epaper2!App!TypeOK /\ Epaper2!App!SceneIsDrawn
        => EpaperSafe("turns")
    BY EpaperTurnsSame DEF EpaperSafe
  <1>12. On("turns") /\ [PanelsNext]_all /\ [Epaper2!App!PromptsAreSeen]_(Epaper2!App!vars) /\ [Epaper2!App!FinalFrameIsSeen]_(Epaper2!App!vars)
        => [EpaperStep("turns")]_all
    BY <1>1, EpaperContinues, EpaperTurnsSame, Zenon DEF EpaperStep
  <1> QED BY <1>5, <1>6, <1>7, <1>9, <1>10, <1>11, <1>12, PTL DEF PanelsSpec

Epaper3 ==
    INSTANCE EpaperProofs WITH
        Events <- EpaperIn["flashes"][1], Keys <- EpaperIn["flashes"][2],
        Commands <- EpaperIn["flashes"][3], Tilts <- EpaperIn["flashes"][4],
        Used <- EpaperIn["flashes"][5], Failures <- EpaperIn["flashes"][6],
        Final <- EpaperIn["flashes"][7], Aborts <- EpaperIn["flashes"][8], Banner <- 1, IdleTime <- 2,
        ota <- r1, view <- r2, frame <- r3, settled <- r4, boots <- r5,
        Modes <- {}, Orientations <- {}, Budget <- 0, Crashes <- 0, pending <- r1, scene <- r2,
        full <- r3, fresh <- r4, pc <- r5, notified <- r6, job <- r7, last <- r8, partials <- r9,
        setup <- r10, ram <- r11, glass <- r12, ghosts <- r13, owed <- r14, crashes <- r15

LEMMA EpaperFlashesSame ==
    /\ Epaper3!App!ConstantsOK <=> Epaper("flashes")!ConstantsOK
    /\ Epaper3!App!Init <=> Epaper("flashes")!Init
    /\ Epaper3!App!Next <=> Epaper("flashes")!Next
    /\ Epaper3!App!TypeOK <=> Epaper("flashes")!TypeOK
    /\ Epaper3!App!SceneIsDrawn <=> Epaper("flashes")!SceneIsDrawn
    /\ Epaper3!App!PromptsAreSeen <=> Epaper("flashes")!PromptsAreSeen
    /\ Epaper3!App!FinalFrameIsSeen <=> Epaper("flashes")!FinalFrameIsSeen
    /\ UNCHANGED Epaper3!App!vars <=> UNCHANGED Epaper("flashes")!vars
  <1>1. /\ Epaper3!App!ConstantsOK <=> Epaper("flashes")!ConstantsOK
        /\ Epaper3!App!Init <=> Epaper("flashes")!Init
    BY Zenon DEF
      Epaper3!App!ConstantsOK, Epaper3!App!NoOta, Epaper3!App!Boot, Epaper3!App!NoFrame,
      Epaper3!App!Init,
      Epaper!ConstantsOK, Epaper!NoOta, Epaper!Boot, Epaper!NoFrame, Epaper!Init
  <1>2. /\ UNCHANGED Epaper3!App!vars <=> UNCHANGED Epaper("flashes")!vars
        /\ Epaper3!App!TypeOK <=> Epaper("flashes")!TypeOK
        /\ Epaper3!App!SceneIsDrawn <=> Epaper("flashes")!SceneIsDrawn
        /\ Epaper3!App!PromptsAreSeen <=> Epaper("flashes")!PromptsAreSeen
        /\ Epaper3!App!FinalFrameIsSeen <=> Epaper("flashes")!FinalFrameIsSeen
    BY Zenon DEF
      Epaper3!App!Pages, Epaper3!App!Phases, Epaper3!App!Errors, Epaper3!App!vars,
      Epaper3!App!Frame, Epaper3!App!NoFrame, Epaper3!App!Foreign, Epaper3!App!TypeOK,
      Epaper3!App!SceneIsDrawn, Epaper3!App!PromptsAreSeen, Epaper3!App!FinalFrameIsSeen,
      Epaper!Pages, Epaper!Phases, Epaper!Errors, Epaper!vars, Epaper!Frame, Epaper!NoFrame,
      Epaper!Foreign, Epaper!TypeOK, Epaper!SceneIsDrawn, Epaper!PromptsAreSeen,
      Epaper!FinalFrameIsSeen
  <1>3. Epaper3!App!OtaMoves <=> Epaper("flashes")!OtaMoves
    BY Zenon DEF
      Epaper3!App!Errors, Epaper3!App!Fail, Epaper3!App!Given, Epaper3!App!Moved,
      Epaper3!App!OtaMoves,
      Epaper!Errors, Epaper!Fail, Epaper!Given, Epaper!Moved, Epaper!OtaMoves
  <1>4. Epaper3!App!Iteration <=> Epaper("flashes")!Iteration
    BY Zenon DEF
      Epaper3!App!Errors, Epaper3!App!Frame, Epaper3!App!Foreign, Epaper3!App!Fail,
      Epaper3!App!Given, Epaper3!App!Moved, Epaper3!App!Less, Epaper3!App!Least,
      Epaper3!App!Waited,
      Epaper3!App!NewError, Epaper3!App!Snapshot, Epaper3!App!Free, Epaper3!App!Left,
      Epaper3!App!Received, Epaper3!App!Warning, Epaper3!App!Warned, Epaper3!App!InSettings,
      Epaper3!App!OnPage, Epaper3!App!DemoKey, Epaper3!App!Keyed, Epaper3!App!Answered,
      Epaper3!App!Turned, Epaper3!App!NoUprightTrend, Epaper3!App!OpenClock,
      Epaper3!App!TimedOut, Epaper3!App!Commanded, Epaper3!App!DiagnosticFrame,
      Epaper3!App!Prompted, Epaper3!App!Restarts, Epaper3!App!Armed, Epaper3!App!Saves,
      Epaper3!App!Iteration,
      Epaper!Errors, Epaper!Frame, Epaper!Foreign, Epaper!Fail, Epaper!Given, Epaper!Moved,
      Epaper!Less, Epaper!Least, Epaper!Waited, Epaper!NewError, Epaper!Snapshot, Epaper!Free, Epaper!Left,
      Epaper!Received, Epaper!Warning, Epaper!Warned, Epaper!InSettings, Epaper!OnPage,
      Epaper!DemoKey, Epaper!Keyed, Epaper!Answered, Epaper!Turned, Epaper!NoUprightTrend,
      Epaper!OpenClock, Epaper!TimedOut, Epaper!Commanded, Epaper!DiagnosticFrame,
      Epaper!Prompted, Epaper!Restarts, Epaper!Armed, Epaper!Saves, Epaper!Iteration
  <1>5. Epaper3!App!Restart <=> Epaper("flashes")!Restart
    BY Zenon DEF
      Epaper3!App!NoOta, Epaper3!App!Boot, Epaper3!App!NoFrame, Epaper3!App!Less,
      Epaper3!App!Least, Epaper3!App!Waited, Epaper3!App!NewError, Epaper3!App!Snapshot,
      Epaper3!App!Restarts, Epaper3!App!Restart,
      Epaper!NoOta, Epaper!Boot, Epaper!NoFrame, Epaper!Less, Epaper!Least, Epaper!Waited,
      Epaper!NewError, Epaper!Snapshot, Epaper!Restarts, Epaper!Restart
  <1>6. Epaper3!App!Refresh <=> Epaper("flashes")!Refresh
    BY Zenon DEF
      Epaper3!App!Refresh,
      Epaper!Refresh
  <1>7. Epaper3!App!Next <=> Epaper("flashes")!Next
    BY <1>3, <1>4, <1>5, <1>6, Zenon DEF Epaper3!App!Next, Epaper!Next
  <1> QED BY <1>1, <1>2, <1>7, Zenon

LEMMA EpaperFlashesHolds ==
    PanelsSpec /\ On("flashes") =>
        /\ [](On("flashes") /\ EpaperSafe("flashes"))
        /\ [][EpaperStep("flashes")]_all
  <1>1. "flashes" \in Epapers
    BY DEF Epapers
  <1>2. Epaper3!App!ConstantsOK
    BY <1>1, PanelsAssumption, EpaperFlashesSame
  <1>3. PanelsInit /\ On("flashes") => Epaper3!App!Init
    BY <1>1, EpaperBegins, EpaperFlashesSame
  <1>4. On("flashes") /\ [PanelsNext]_all => On("flashes")' /\ [Epaper3!App!Next]_(Epaper3!App!vars)
    BY <1>1, EpaperContinues, EpaperFlashesSame, Zenon
  <1>5. PanelsSpec /\ On("flashes") => []On("flashes") /\ Epaper3!App!Spec
    BY <1>3, <1>4, PTL DEF PanelsSpec, Epaper3!App!Spec
  <1>6. Epaper3!App!Spec => []Epaper3!App!TypeOK
    BY <1>2, Epaper3!EpaperTypeOK
  <1>7. Epaper3!App!Spec => []Epaper3!App!SceneIsDrawn
    BY <1>2, Epaper3!EpaperSceneIsDrawn
  <1>8. Epaper3!NoPromptIsMissed
    BY <1>1, PanelsAssumption DEF Epaper3!NoPromptIsMissed
  <1>9. Epaper3!App!Spec => [][Epaper3!App!PromptsAreSeen]_(Epaper3!App!vars)
    BY <1>2, <1>8, Epaper3!EpaperPromptsAreSeen
  <1>10. Epaper3!App!Spec => [][Epaper3!App!FinalFrameIsSeen]_(Epaper3!App!vars)
    BY <1>2, Epaper3!EpaperFinalFrame
  <1>11. Epaper3!App!TypeOK /\ Epaper3!App!SceneIsDrawn
        => EpaperSafe("flashes")
    BY EpaperFlashesSame DEF EpaperSafe
  <1>12. On("flashes") /\ [PanelsNext]_all /\ [Epaper3!App!PromptsAreSeen]_(Epaper3!App!vars) /\ [Epaper3!App!FinalFrameIsSeen]_(Epaper3!App!vars)
        => [EpaperStep("flashes")]_all
    BY <1>1, EpaperContinues, EpaperFlashesSame, Zenon DEF EpaperStep
  <1> QED BY <1>5, <1>6, <1>7, <1>9, <1>10, <1>11, <1>12, PTL DEF PanelsSpec

Epaper4 ==
    INSTANCE EpaperProofs WITH
        Events <- EpaperIn["prompts"][1], Keys <- EpaperIn["prompts"][2],
        Commands <- EpaperIn["prompts"][3], Tilts <- EpaperIn["prompts"][4],
        Used <- EpaperIn["prompts"][5], Failures <- EpaperIn["prompts"][6],
        Final <- EpaperIn["prompts"][7], Aborts <- EpaperIn["prompts"][8], Banner <- 1, IdleTime <- 2,
        ota <- r1, view <- r2, frame <- r3, settled <- r4, boots <- r5,
        Modes <- {}, Orientations <- {}, Budget <- 0, Crashes <- 0, pending <- r1, scene <- r2,
        full <- r3, fresh <- r4, pc <- r5, notified <- r6, job <- r7, last <- r8, partials <- r9,
        setup <- r10, ram <- r11, glass <- r12, ghosts <- r13, owed <- r14, crashes <- r15

LEMMA EpaperPromptsSame ==
    /\ Epaper4!App!ConstantsOK <=> Epaper("prompts")!ConstantsOK
    /\ Epaper4!App!Init <=> Epaper("prompts")!Init
    /\ Epaper4!App!Next <=> Epaper("prompts")!Next
    /\ Epaper4!App!TypeOK <=> Epaper("prompts")!TypeOK
    /\ Epaper4!App!SceneIsDrawn <=> Epaper("prompts")!SceneIsDrawn
    /\ Epaper4!App!PromptsAreSeen <=> Epaper("prompts")!PromptsAreSeen
    /\ Epaper4!App!FinalFrameIsSeen <=> Epaper("prompts")!FinalFrameIsSeen
    /\ UNCHANGED Epaper4!App!vars <=> UNCHANGED Epaper("prompts")!vars
  <1>1. /\ Epaper4!App!ConstantsOK <=> Epaper("prompts")!ConstantsOK
        /\ Epaper4!App!Init <=> Epaper("prompts")!Init
    BY Zenon DEF
      Epaper4!App!ConstantsOK, Epaper4!App!NoOta, Epaper4!App!Boot, Epaper4!App!NoFrame,
      Epaper4!App!Init,
      Epaper!ConstantsOK, Epaper!NoOta, Epaper!Boot, Epaper!NoFrame, Epaper!Init
  <1>2. /\ UNCHANGED Epaper4!App!vars <=> UNCHANGED Epaper("prompts")!vars
        /\ Epaper4!App!TypeOK <=> Epaper("prompts")!TypeOK
        /\ Epaper4!App!SceneIsDrawn <=> Epaper("prompts")!SceneIsDrawn
        /\ Epaper4!App!PromptsAreSeen <=> Epaper("prompts")!PromptsAreSeen
        /\ Epaper4!App!FinalFrameIsSeen <=> Epaper("prompts")!FinalFrameIsSeen
    BY Zenon DEF
      Epaper4!App!Pages, Epaper4!App!Phases, Epaper4!App!Errors, Epaper4!App!vars,
      Epaper4!App!Frame, Epaper4!App!NoFrame, Epaper4!App!Foreign, Epaper4!App!TypeOK,
      Epaper4!App!SceneIsDrawn, Epaper4!App!PromptsAreSeen, Epaper4!App!FinalFrameIsSeen,
      Epaper!Pages, Epaper!Phases, Epaper!Errors, Epaper!vars, Epaper!Frame, Epaper!NoFrame,
      Epaper!Foreign, Epaper!TypeOK, Epaper!SceneIsDrawn, Epaper!PromptsAreSeen,
      Epaper!FinalFrameIsSeen
  <1>3. Epaper4!App!OtaMoves <=> Epaper("prompts")!OtaMoves
    BY Zenon DEF
      Epaper4!App!Errors, Epaper4!App!Fail, Epaper4!App!Given, Epaper4!App!Moved,
      Epaper4!App!OtaMoves,
      Epaper!Errors, Epaper!Fail, Epaper!Given, Epaper!Moved, Epaper!OtaMoves
  <1>4. Epaper4!App!Iteration <=> Epaper("prompts")!Iteration
    BY Zenon DEF
      Epaper4!App!Errors, Epaper4!App!Frame, Epaper4!App!Foreign, Epaper4!App!Fail,
      Epaper4!App!Given, Epaper4!App!Moved, Epaper4!App!Less, Epaper4!App!Least,
      Epaper4!App!Waited,
      Epaper4!App!NewError, Epaper4!App!Snapshot, Epaper4!App!Free, Epaper4!App!Left,
      Epaper4!App!Received, Epaper4!App!Warning, Epaper4!App!Warned, Epaper4!App!InSettings,
      Epaper4!App!OnPage, Epaper4!App!DemoKey, Epaper4!App!Keyed, Epaper4!App!Answered,
      Epaper4!App!Turned, Epaper4!App!NoUprightTrend, Epaper4!App!OpenClock,
      Epaper4!App!TimedOut, Epaper4!App!Commanded, Epaper4!App!DiagnosticFrame,
      Epaper4!App!Prompted, Epaper4!App!Restarts, Epaper4!App!Armed, Epaper4!App!Saves,
      Epaper4!App!Iteration,
      Epaper!Errors, Epaper!Frame, Epaper!Foreign, Epaper!Fail, Epaper!Given, Epaper!Moved,
      Epaper!Less, Epaper!Least, Epaper!Waited, Epaper!NewError, Epaper!Snapshot, Epaper!Free, Epaper!Left,
      Epaper!Received, Epaper!Warning, Epaper!Warned, Epaper!InSettings, Epaper!OnPage,
      Epaper!DemoKey, Epaper!Keyed, Epaper!Answered, Epaper!Turned, Epaper!NoUprightTrend,
      Epaper!OpenClock, Epaper!TimedOut, Epaper!Commanded, Epaper!DiagnosticFrame,
      Epaper!Prompted, Epaper!Restarts, Epaper!Armed, Epaper!Saves, Epaper!Iteration
  <1>5. Epaper4!App!Restart <=> Epaper("prompts")!Restart
    BY Zenon DEF
      Epaper4!App!NoOta, Epaper4!App!Boot, Epaper4!App!NoFrame, Epaper4!App!Less,
      Epaper4!App!Least, Epaper4!App!Waited, Epaper4!App!NewError, Epaper4!App!Snapshot,
      Epaper4!App!Restarts, Epaper4!App!Restart,
      Epaper!NoOta, Epaper!Boot, Epaper!NoFrame, Epaper!Less, Epaper!Least, Epaper!Waited,
      Epaper!NewError, Epaper!Snapshot, Epaper!Restarts, Epaper!Restart
  <1>6. Epaper4!App!Refresh <=> Epaper("prompts")!Refresh
    BY Zenon DEF
      Epaper4!App!Refresh,
      Epaper!Refresh
  <1>7. Epaper4!App!Next <=> Epaper("prompts")!Next
    BY <1>3, <1>4, <1>5, <1>6, Zenon DEF Epaper4!App!Next, Epaper!Next
  <1> QED BY <1>1, <1>2, <1>7, Zenon

LEMMA EpaperPromptsHolds ==
    PanelsSpec /\ On("prompts") =>
        /\ [](On("prompts") /\ EpaperSafe("prompts"))
        /\ [][EpaperStep("prompts")]_all
  <1>1. "prompts" \in Epapers
    BY DEF Epapers
  <1>2. Epaper4!App!ConstantsOK
    BY <1>1, PanelsAssumption, EpaperPromptsSame
  <1>3. PanelsInit /\ On("prompts") => Epaper4!App!Init
    BY <1>1, EpaperBegins, EpaperPromptsSame
  <1>4. On("prompts") /\ [PanelsNext]_all => On("prompts")' /\ [Epaper4!App!Next]_(Epaper4!App!vars)
    BY <1>1, EpaperContinues, EpaperPromptsSame, Zenon
  <1>5. PanelsSpec /\ On("prompts") => []On("prompts") /\ Epaper4!App!Spec
    BY <1>3, <1>4, PTL DEF PanelsSpec, Epaper4!App!Spec
  <1>6. Epaper4!App!Spec => []Epaper4!App!TypeOK
    BY <1>2, Epaper4!EpaperTypeOK
  <1>7. Epaper4!App!Spec => []Epaper4!App!SceneIsDrawn
    BY <1>2, Epaper4!EpaperSceneIsDrawn
  <1>8. Epaper4!NoPromptIsMissed
    BY <1>1, PanelsAssumption DEF Epaper4!NoPromptIsMissed
  <1>9. Epaper4!App!Spec => [][Epaper4!App!PromptsAreSeen]_(Epaper4!App!vars)
    BY <1>2, <1>8, Epaper4!EpaperPromptsAreSeen
  <1>10. Epaper4!App!Spec => [][Epaper4!App!FinalFrameIsSeen]_(Epaper4!App!vars)
    BY <1>2, Epaper4!EpaperFinalFrame
  <1>11. Epaper4!App!TypeOK /\ Epaper4!App!SceneIsDrawn
        => EpaperSafe("prompts")
    BY EpaperPromptsSame DEF EpaperSafe
  <1>12. On("prompts") /\ [PanelsNext]_all /\ [Epaper4!App!PromptsAreSeen]_(Epaper4!App!vars) /\ [Epaper4!App!FinalFrameIsSeen]_(Epaper4!App!vars)
        => [EpaperStep("prompts")]_all
    BY <1>1, EpaperContinues, EpaperPromptsSame, Zenon DEF EpaperStep
  <1> QED BY <1>5, <1>6, <1>7, <1>9, <1>10, <1>11, <1>12, PTL DEF PanelsSpec

LEMMA EpaperHolds == PanelsSpec => []EpapersSafe /\ [][EpapersStep]_all
  <1> DEFINE Other == \A p \in Epapers : ~On(p)
  <1>1. Other /\ [PanelsNext]_all => Other'
    BY PanelsStay DEF On
  <1>2. On("dial") => (EpaperSafe("dial") => EpapersSafe) /\ (EpaperStep("dial") => EpapersStep)
    BY DEF On, EpapersSafe, EpapersStep
  <1>3. On("turns") => (EpaperSafe("turns") => EpapersSafe) /\ (EpaperStep("turns") => EpapersStep)
    BY DEF On, EpapersSafe, EpapersStep
  <1>4. On("flashes") => (EpaperSafe("flashes") => EpapersSafe) /\ (EpaperStep("flashes") => EpapersStep)
    BY DEF On, EpapersSafe, EpapersStep
  <1>5. On("prompts") => (EpaperSafe("prompts") => EpapersSafe) /\ (EpaperStep("prompts") => EpapersStep)
    BY DEF On, EpapersSafe, EpapersStep
  <1>6. Other => EpapersSafe /\ EpapersStep
    BY DEF EpapersSafe, EpapersStep
  <1>7. Other \/ On("dial") \/ On("turns") \/ On("flashes") \/ On("prompts")
    BY DEF Epapers
  <1> HIDE DEF Other
  <1> QED
    BY <1>1, <1>2, <1>3, <1>4, <1>5, <1>6, <1>7,
      EpaperDialHolds, EpaperTurnsHolds, EpaperFlashesHolds, EpaperPromptsHolds, PTL DEF
      PanelsSpec

(***************************************************************************)
(* The programs of the RLCD panel.                                         *)
(***************************************************************************)

LEMMA RlcdBegins ==
    ASSUME NEW p \in Rlcds, PanelsInit, On(p)
    PROVE  Rlcd(p)!Init
  BY DEF PanelsInit, On, AmoledInit, RlcdInit, EpaperInit, PicoInit, Amoleds, Rlcds,
      Epapers, Picos

LEMMA RlcdContinues ==
    ASSUME NEW p \in Rlcds, On(p), [PanelsNext]_all
    PROVE  /\ On(p)' /\ [Rlcd(p)!Next]_(Rlcd(p)!vars)
           /\ UNCHANGED Rlcd(p)!vars => UNCHANGED all
  <1>1. CASE RlcdNext
    BY <1>1 DEF RlcdNext, Runs, On, Rlcd!Next, Rlcd!vars, all,
        From5, From6, From7, From8, From9, From10, From11, From12, From14, From15, From16,
        From17
  <1>2. CASE UNCHANGED all
    BY <1>2 DEF all, On, Rlcd!vars
  <1>3. ~(AmoledNext \/ EpaperNext \/ PicoNext)
    BY DEF AmoledNext, EpaperNext, PicoNext, Runs, On, Amoleds, Rlcds, Epapers, Picos
  <1> QED BY <1>1, <1>2, <1>3 DEF PanelsNext

Panel1 ==
    INSTANCE PanelProofs WITH
        Inputs <- AmoledIn["screens"][1], LongPress <- AmoledIn["screens"][2],
        SecondTicks <- AmoledIn["screens"][3], FailureTicks <- AmoledIn["screens"][4],
        MaxOffers <- AmoledIn["screens"][5], WakeGuard <- AmoledIn["screens"][6],
        IdleCap <- AmoledIn["screens"][7], TouchGuard <- 1, Brightness <- 1..2,
        DefaultBrightness <- 2, QueueLength <- 1,
        pc <- r1, saver <- r2, loop <- r3, queue <- r4, ui <- r5, finger <- r6, ota <- r7,
        clock <- r8,
        Providers <- RlcdIn["pages"][1], Keys <- RlcdIn["pages"][2], Events <- RlcdIn["pages"][3],
        Settable <- RlcdIn["pages"][4], Interval <- 1, Banner <- 0,
        v <- r1, stored <- r2, tone <- r3, toned <- r4

LEMMA RlcdPagesSame ==
    /\ Panel1!ConstantsOK <=> Rlcd("pages")!ConstantsOK
    /\ Panel1!Init <=> Rlcd("pages")!Init
    /\ Panel1!Next <=> Rlcd("pages")!Next
    /\ Panel1!TypeOK <=> Rlcd("pages")!TypeOK
    /\ Panel1!PageInRing <=> Rlcd("pages")!PageInRing
    /\ Panel1!UnsavedIsFlagged <=> Rlcd("pages")!UnsavedIsFlagged
    /\ Panel1!OneTonePerRaise <=> Rlcd("pages")!OneTonePerRaise
    /\ UNCHANGED Panel1!vars <=> UNCHANGED Rlcd("pages")!vars
  <1>1. /\ Panel1!ConstantsOK <=> Rlcd("pages")!ConstantsOK
        /\ Panel1!Init <=> Rlcd("pages")!Init
    BY Zenon DEF
      Panel1!None, Panel1!ConstantsOK, Panel1!SettingsRange, Panel1!Init,
      Rlcd!None, Rlcd!ConstantsOK, Rlcd!SettingsRange, Rlcd!Init
  <1>2. /\ UNCHANGED Panel1!vars <=> UNCHANGED Rlcd("pages")!vars
        /\ Panel1!TypeOK <=> Rlcd("pages")!TypeOK
        /\ Panel1!PageInRing <=> Rlcd("pages")!PageInRing
        /\ Panel1!UnsavedIsFlagged <=> Rlcd("pages")!UnsavedIsFlagged
        /\ Panel1!OneTonePerRaise <=> Rlcd("pages")!OneTonePerRaise
    BY Zenon DEF
      Panel1!None, Panel1!Landscape, Panel1!Portrait, Panel1!Pages, Panel1!Row, Panel1!Rows,
      Panel1!SettingsRange, Panel1!vars, Panel1!Views, Panel1!TypeOK, Panel1!Ring,
      Panel1!InRing, Panel1!PageInRing, Panel1!UnsavedIsFlagged, Panel1!OneTonePerRaise,
      Rlcd!None, Rlcd!Landscape, Rlcd!Portrait, Rlcd!Pages, Rlcd!Row, Rlcd!Rows,
      Rlcd!SettingsRange, Rlcd!vars, Rlcd!Views, Rlcd!TypeOK, Rlcd!Ring, Rlcd!InRing,
      Rlcd!PageInRing, Rlcd!UnsavedIsFlagged, Rlcd!OneTonePerRaise
  <1>3. Panel1!Loop <=> Rlcd("pages")!Loop
    <2>1. ASSUME NEW w PROVE Panel1!Cycled(w) = Rlcd("pages")!Cycled(w)
      BY Zenon DEF
        Panel1!None, Panel1!Landscape, Panel1!Portrait, Panel1!Ring, Panel1!NextPage,
        Panel1!NextOf, Panel1!Calm, Panel1!Cycled,
        Rlcd!None, Rlcd!Landscape, Rlcd!Portrait, Rlcd!Ring, Rlcd!NextPage, Rlcd!NextOf,
        Rlcd!Calm, Rlcd!Cycled
    <2>2. ASSUME NEW w PROVE Panel1!Warned(w) = Rlcd("pages")!Warned(w)
      BY Zenon DEF
        Panel1!Present, Panel1!Warned,
        Rlcd!Present, Rlcd!Warned
    <2>3. ASSUME NEW w PROVE Panel1!Alerts(w) = Rlcd("pages")!Alerts(w)
      BY Zenon DEF
        Panel1!None, Panel1!StillHot, Panel1!Alerts,
        Rlcd!None, Rlcd!StillHot, Rlcd!Alerts
    <2>4. ASSUME NEW w, NEW a PROVE Panel1!Alerted(w, a) = Rlcd("pages")!Alerted(w, a)
      BY Zenon DEF
        Panel1!StillHot, Panel1!Alerted,
        Rlcd!StillHot, Rlcd!Alerted
    <2>5. ASSUME NEW w, NEW k, NEW ok PROVE Panel1!Keyed(w, k, ok) = Rlcd("pages")!Keyed(w, k, ok)
      BY Zenon DEF
        Panel1!None, Panel1!Landscape, Panel1!Portrait, Panel1!Row, Panel1!Rows, Panel1!Ring,
        Panel1!InRing, Panel1!NextPage, Panel1!NextOf, Panel1!PreviousOf, Panel1!Normalized,
        Panel1!Calm, Panel1!Changed, Panel1!InSettings, Panel1!Navigated, Panel1!Keyed,
        Rlcd!None, Rlcd!Landscape, Rlcd!Portrait, Rlcd!Row, Rlcd!Rows, Rlcd!Ring, Rlcd!InRing,
        Rlcd!NextPage, Rlcd!NextOf, Rlcd!PreviousOf, Rlcd!Normalized, Rlcd!Calm, Rlcd!Changed,
        Rlcd!InSettings, Rlcd!Navigated, Rlcd!Keyed
    <2>6. ASSUME NEW w, NEW e PROVE Panel1!Received(w, e) = Rlcd("pages")!Received(w, e)
      BY Zenon DEF
        Panel1!Landscape, Panel1!Portrait, Panel1!Ring, Panel1!InRing, Panel1!NextPage,
        Panel1!NextOf, Panel1!PreviousOf, Panel1!Normalized, Panel1!Calm, Panel1!Toggled,
        Panel1!Stepped, Panel1!Published, Panel1!Received,
        Rlcd!Landscape, Rlcd!Portrait, Rlcd!Ring, Rlcd!InRing, Rlcd!NextPage, Rlcd!NextOf,
        Rlcd!PreviousOf, Rlcd!Normalized, Rlcd!Calm, Rlcd!Toggled, Rlcd!Stepped, Rlcd!Published,
        Rlcd!Received
    <2>7. ASSUME NEW w, NEW k PROVE Panel1!Saves(w, k) <=> Rlcd("pages")!Saves(w, k)
      BY Zenon DEF
        Panel1!Calm, Panel1!Saves,
        Rlcd!Calm, Rlcd!Saves
    <2>8. ASSUME NEW w, NEW a PROVE Panel1!Raises(w, a) <=> Rlcd("pages")!Raises(w, a)
      BY Zenon DEF
        Panel1!None, Panel1!StillHot, Panel1!Raises,
        Rlcd!None, Rlcd!StillHot, Rlcd!Raises
    <2>9. ASSUME NEW w PROVE Panel1!Remember(w) <=> Rlcd("pages")!Remember(w)
      BY Zenon DEF
        Panel1!Remember,
        Rlcd!Remember
    <2>10. ASSUME NEW k PROVE Panel1!SaveResults(k) = Rlcd("pages")!SaveResults(k)
      BY Zenon DEF
        Panel1!SaveResults,
        Rlcd!SaveResults
    <2> DEFINE One(k, ok, r, a) ==
            LET w == Panel1!Warned(r)
                x == Panel1!Keyed(Panel1!Alerted(w, a), k, ok)
            IN  /\ r1' = Panel1!Cycled(x)
                /\ r2' = IF Panel1!Saves(Panel1!Alerted(w, a), k) /\ ok THEN x.settings ELSE r2
                /\ r3' = IF Panel1!Raises(w, a) /\ w.settings.alert = "beep" THEN a ELSE Panel1!None
                /\ Panel1!Remember(w)
    <2> DEFINE Other(k, ok, r, a) ==
            LET w == Rlcd("pages")!Warned(r)
                x == Rlcd("pages")!Keyed(Rlcd("pages")!Alerted(w, a), k, ok)
            IN  /\ r1' = Rlcd("pages")!Cycled(x)
                /\ r2' = IF Rlcd("pages")!Saves(Rlcd("pages")!Alerted(w, a), k) /\ ok THEN x.settings ELSE r2
                /\ r3' = IF Rlcd("pages")!Raises(w, a) /\ w.settings.alert = "beep" THEN a ELSE Rlcd("pages")!None
                /\ Rlcd("pages")!Remember(w)
    <2>11. ASSUME NEW k, NEW ok, NEW r, NEW a PROVE One(k, ok, r, a) <=> Other(k, ok, r, a)
      BY <2>1, <2>2, <2>4, <2>5, <2>7, <2>8, <2>9, Zenon DEF Panel1!None, Rlcd!None
    <2> HIDE DEF One, Other
    <2>12. Panel1!Loop <=> \E e \in {Panel1!None} \cup RlcdIn["pages"][3], k \in {Panel1!None} \cup RlcdIn["pages"][2] :
          \E ok \in Panel1!SaveResults(k), r \in Panel1!Received(r1, e) :
             \E a \in Panel1!Alerts(Panel1!Warned(r)) : One(k, ok, r, a)
      BY Zenon DEF One, Panel1!Loop
    <2>13. Rlcd("pages")!Loop <=> \E e \in {Rlcd("pages")!None} \cup RlcdIn["pages"][3], k \in {Rlcd("pages")!None} \cup RlcdIn["pages"][2] :
          \E ok \in Rlcd("pages")!SaveResults(k), r \in Rlcd("pages")!Received(r1, e) :
             \E a \in Rlcd("pages")!Alerts(Rlcd("pages")!Warned(r)) : Other(k, ok, r, a)
      BY Zenon DEF Other, Rlcd!Loop
    <2>14. Panel1!None = Rlcd("pages")!None
      BY DEF Panel1!None, Rlcd!None
    <2> QED BY <2>2, <2>3, <2>6, <2>10, <2>11, <2>12, <2>13, <2>14, Zenon
  <1>4. Panel1!Update <=> Rlcd("pages")!Update
    BY Zenon DEF
      Panel1!None, Panel1!Update,
      Rlcd!None, Rlcd!Update
  <1>5. Panel1!Tick <=> Rlcd("pages")!Tick
    BY Zenon DEF
      Panel1!None, Panel1!Less, Panel1!More, Panel1!Tick,
      Rlcd!None, Rlcd!Less, Rlcd!More, Rlcd!Tick
  <1>6. Panel1!Next <=> Rlcd("pages")!Next
    BY <1>3, <1>4, <1>5, Zenon DEF Panel1!Next, Rlcd!Next
  <1> QED BY <1>1, <1>2, <1>6, Zenon

LEMMA RlcdPagesHolds ==
    PanelsSpec /\ On("pages") =>
        /\ [](On("pages") /\ RlcdSafe("pages"))
        /\ [][RlcdStep("pages")]_all
  <1>1. "pages" \in Rlcds
    BY DEF Rlcds
  <1>2. Panel1!ConstantsOK
    BY <1>1, PanelsAssumption, RlcdPagesSame
  <1>3. PanelsInit /\ On("pages") => Panel1!Init
    BY <1>1, RlcdBegins, RlcdPagesSame
  <1>4. On("pages") /\ [PanelsNext]_all => On("pages")' /\ [Panel1!Next]_(Panel1!vars)
    BY <1>1, RlcdContinues, RlcdPagesSame, Zenon
  <1>5. PanelsSpec /\ On("pages") => []On("pages") /\ Panel1!Spec
    BY <1>3, <1>4, PTL DEF PanelsSpec, Panel1!Spec
  <1>6. Panel1!Spec => []Panel1!TypeOK
    BY <1>2, Panel1!RlcdTypes
  <1>7. Panel1!Spec => []Panel1!PageInRing
    BY <1>2, Panel1!RlcdPageInRing
  <1>8. Panel1!Spec => []Panel1!UnsavedIsFlagged
    BY <1>2, Panel1!RlcdUnsavedIsFlagged
  <1>9. Panel1!Spec => [][Panel1!OneTonePerRaise]_(Panel1!vars)
    BY <1>2, Panel1!RlcdOneTone
  <1>10. Panel1!TypeOK /\ Panel1!PageInRing /\ Panel1!UnsavedIsFlagged
        => RlcdSafe("pages")
    BY RlcdPagesSame DEF RlcdSafe
  <1>11. On("pages") /\ [PanelsNext]_all /\ [Panel1!OneTonePerRaise]_(Panel1!vars)
        => [RlcdStep("pages")]_all
    BY <1>1, RlcdContinues, RlcdPagesSame, Zenon DEF RlcdStep
  <1> QED BY <1>5, <1>6, <1>7, <1>8, <1>9, <1>10, <1>11, PTL DEF PanelsSpec

Panel2 ==
    INSTANCE PanelProofs WITH
        Inputs <- AmoledIn["pairings"][1], LongPress <- AmoledIn["pairings"][2],
        SecondTicks <- AmoledIn["pairings"][3], FailureTicks <- AmoledIn["pairings"][4],
        MaxOffers <- AmoledIn["pairings"][5], WakeGuard <- AmoledIn["pairings"][6],
        IdleCap <- AmoledIn["pairings"][7], TouchGuard <- 1, Brightness <- 1..2,
        DefaultBrightness <- 2, QueueLength <- 1,
        pc <- r1, saver <- r2, loop <- r3, queue <- r4, ui <- r5, finger <- r6, ota <- r7,
        clock <- r8,
        Providers <- RlcdIn["alerts"][1], Keys <- RlcdIn["alerts"][2], Events <- RlcdIn["alerts"][3],
        Settable <- RlcdIn["alerts"][4], Interval <- 1, Banner <- 0,
        v <- r1, stored <- r2, tone <- r3, toned <- r4

LEMMA RlcdAlertsSame ==
    /\ Panel2!ConstantsOK <=> Rlcd("alerts")!ConstantsOK
    /\ Panel2!Init <=> Rlcd("alerts")!Init
    /\ Panel2!Next <=> Rlcd("alerts")!Next
    /\ Panel2!TypeOK <=> Rlcd("alerts")!TypeOK
    /\ Panel2!PageInRing <=> Rlcd("alerts")!PageInRing
    /\ Panel2!UnsavedIsFlagged <=> Rlcd("alerts")!UnsavedIsFlagged
    /\ Panel2!OneTonePerRaise <=> Rlcd("alerts")!OneTonePerRaise
    /\ UNCHANGED Panel2!vars <=> UNCHANGED Rlcd("alerts")!vars
  <1>1. /\ Panel2!ConstantsOK <=> Rlcd("alerts")!ConstantsOK
        /\ Panel2!Init <=> Rlcd("alerts")!Init
    BY Zenon DEF
      Panel2!None, Panel2!ConstantsOK, Panel2!SettingsRange, Panel2!Init,
      Rlcd!None, Rlcd!ConstantsOK, Rlcd!SettingsRange, Rlcd!Init
  <1>2. /\ UNCHANGED Panel2!vars <=> UNCHANGED Rlcd("alerts")!vars
        /\ Panel2!TypeOK <=> Rlcd("alerts")!TypeOK
        /\ Panel2!PageInRing <=> Rlcd("alerts")!PageInRing
        /\ Panel2!UnsavedIsFlagged <=> Rlcd("alerts")!UnsavedIsFlagged
        /\ Panel2!OneTonePerRaise <=> Rlcd("alerts")!OneTonePerRaise
    BY Zenon DEF
      Panel2!None, Panel2!Landscape, Panel2!Portrait, Panel2!Pages, Panel2!Row, Panel2!Rows,
      Panel2!SettingsRange, Panel2!vars, Panel2!Views, Panel2!TypeOK, Panel2!Ring,
      Panel2!InRing, Panel2!PageInRing, Panel2!UnsavedIsFlagged, Panel2!OneTonePerRaise,
      Rlcd!None, Rlcd!Landscape, Rlcd!Portrait, Rlcd!Pages, Rlcd!Row, Rlcd!Rows,
      Rlcd!SettingsRange, Rlcd!vars, Rlcd!Views, Rlcd!TypeOK, Rlcd!Ring, Rlcd!InRing,
      Rlcd!PageInRing, Rlcd!UnsavedIsFlagged, Rlcd!OneTonePerRaise
  <1>3. Panel2!Loop <=> Rlcd("alerts")!Loop
    <2>1. ASSUME NEW w PROVE Panel2!Cycled(w) = Rlcd("alerts")!Cycled(w)
      BY Zenon DEF
        Panel2!None, Panel2!Landscape, Panel2!Portrait, Panel2!Ring, Panel2!NextPage,
        Panel2!NextOf, Panel2!Calm, Panel2!Cycled,
        Rlcd!None, Rlcd!Landscape, Rlcd!Portrait, Rlcd!Ring, Rlcd!NextPage, Rlcd!NextOf,
        Rlcd!Calm, Rlcd!Cycled
    <2>2. ASSUME NEW w PROVE Panel2!Warned(w) = Rlcd("alerts")!Warned(w)
      BY Zenon DEF
        Panel2!Present, Panel2!Warned,
        Rlcd!Present, Rlcd!Warned
    <2>3. ASSUME NEW w PROVE Panel2!Alerts(w) = Rlcd("alerts")!Alerts(w)
      BY Zenon DEF
        Panel2!None, Panel2!StillHot, Panel2!Alerts,
        Rlcd!None, Rlcd!StillHot, Rlcd!Alerts
    <2>4. ASSUME NEW w, NEW a PROVE Panel2!Alerted(w, a) = Rlcd("alerts")!Alerted(w, a)
      BY Zenon DEF
        Panel2!StillHot, Panel2!Alerted,
        Rlcd!StillHot, Rlcd!Alerted
    <2>5. ASSUME NEW w, NEW k, NEW ok PROVE Panel2!Keyed(w, k, ok) = Rlcd("alerts")!Keyed(w, k, ok)
      BY Zenon DEF
        Panel2!None, Panel2!Landscape, Panel2!Portrait, Panel2!Row, Panel2!Rows, Panel2!Ring,
        Panel2!InRing, Panel2!NextPage, Panel2!NextOf, Panel2!PreviousOf, Panel2!Normalized,
        Panel2!Calm, Panel2!Changed, Panel2!InSettings, Panel2!Navigated, Panel2!Keyed,
        Rlcd!None, Rlcd!Landscape, Rlcd!Portrait, Rlcd!Row, Rlcd!Rows, Rlcd!Ring, Rlcd!InRing,
        Rlcd!NextPage, Rlcd!NextOf, Rlcd!PreviousOf, Rlcd!Normalized, Rlcd!Calm, Rlcd!Changed,
        Rlcd!InSettings, Rlcd!Navigated, Rlcd!Keyed
    <2>6. ASSUME NEW w, NEW e PROVE Panel2!Received(w, e) = Rlcd("alerts")!Received(w, e)
      BY Zenon DEF
        Panel2!Landscape, Panel2!Portrait, Panel2!Ring, Panel2!InRing, Panel2!NextPage,
        Panel2!NextOf, Panel2!PreviousOf, Panel2!Normalized, Panel2!Calm, Panel2!Toggled,
        Panel2!Stepped, Panel2!Published, Panel2!Received,
        Rlcd!Landscape, Rlcd!Portrait, Rlcd!Ring, Rlcd!InRing, Rlcd!NextPage, Rlcd!NextOf,
        Rlcd!PreviousOf, Rlcd!Normalized, Rlcd!Calm, Rlcd!Toggled, Rlcd!Stepped, Rlcd!Published,
        Rlcd!Received
    <2>7. ASSUME NEW w, NEW k PROVE Panel2!Saves(w, k) <=> Rlcd("alerts")!Saves(w, k)
      BY Zenon DEF
        Panel2!Calm, Panel2!Saves,
        Rlcd!Calm, Rlcd!Saves
    <2>8. ASSUME NEW w, NEW a PROVE Panel2!Raises(w, a) <=> Rlcd("alerts")!Raises(w, a)
      BY Zenon DEF
        Panel2!None, Panel2!StillHot, Panel2!Raises,
        Rlcd!None, Rlcd!StillHot, Rlcd!Raises
    <2>9. ASSUME NEW w PROVE Panel2!Remember(w) <=> Rlcd("alerts")!Remember(w)
      BY Zenon DEF
        Panel2!Remember,
        Rlcd!Remember
    <2>10. ASSUME NEW k PROVE Panel2!SaveResults(k) = Rlcd("alerts")!SaveResults(k)
      BY Zenon DEF
        Panel2!SaveResults,
        Rlcd!SaveResults
    <2> DEFINE One(k, ok, r, a) ==
            LET w == Panel2!Warned(r)
                x == Panel2!Keyed(Panel2!Alerted(w, a), k, ok)
            IN  /\ r1' = Panel2!Cycled(x)
                /\ r2' = IF Panel2!Saves(Panel2!Alerted(w, a), k) /\ ok THEN x.settings ELSE r2
                /\ r3' = IF Panel2!Raises(w, a) /\ w.settings.alert = "beep" THEN a ELSE Panel2!None
                /\ Panel2!Remember(w)
    <2> DEFINE Other(k, ok, r, a) ==
            LET w == Rlcd("alerts")!Warned(r)
                x == Rlcd("alerts")!Keyed(Rlcd("alerts")!Alerted(w, a), k, ok)
            IN  /\ r1' = Rlcd("alerts")!Cycled(x)
                /\ r2' = IF Rlcd("alerts")!Saves(Rlcd("alerts")!Alerted(w, a), k) /\ ok THEN x.settings ELSE r2
                /\ r3' = IF Rlcd("alerts")!Raises(w, a) /\ w.settings.alert = "beep" THEN a ELSE Rlcd("alerts")!None
                /\ Rlcd("alerts")!Remember(w)
    <2>11. ASSUME NEW k, NEW ok, NEW r, NEW a PROVE One(k, ok, r, a) <=> Other(k, ok, r, a)
      BY <2>1, <2>2, <2>4, <2>5, <2>7, <2>8, <2>9, Zenon DEF Panel2!None, Rlcd!None
    <2> HIDE DEF One, Other
    <2>12. Panel2!Loop <=> \E e \in {Panel2!None} \cup RlcdIn["alerts"][3], k \in {Panel2!None} \cup RlcdIn["alerts"][2] :
          \E ok \in Panel2!SaveResults(k), r \in Panel2!Received(r1, e) :
             \E a \in Panel2!Alerts(Panel2!Warned(r)) : One(k, ok, r, a)
      BY Zenon DEF One, Panel2!Loop
    <2>13. Rlcd("alerts")!Loop <=> \E e \in {Rlcd("alerts")!None} \cup RlcdIn["alerts"][3], k \in {Rlcd("alerts")!None} \cup RlcdIn["alerts"][2] :
          \E ok \in Rlcd("alerts")!SaveResults(k), r \in Rlcd("alerts")!Received(r1, e) :
             \E a \in Rlcd("alerts")!Alerts(Rlcd("alerts")!Warned(r)) : Other(k, ok, r, a)
      BY Zenon DEF Other, Rlcd!Loop
    <2>14. Panel2!None = Rlcd("alerts")!None
      BY DEF Panel2!None, Rlcd!None
    <2> QED BY <2>2, <2>3, <2>6, <2>10, <2>11, <2>12, <2>13, <2>14, Zenon
  <1>4. Panel2!Update <=> Rlcd("alerts")!Update
    BY Zenon DEF
      Panel2!None, Panel2!Update,
      Rlcd!None, Rlcd!Update
  <1>5. Panel2!Tick <=> Rlcd("alerts")!Tick
    BY Zenon DEF
      Panel2!None, Panel2!Less, Panel2!More, Panel2!Tick,
      Rlcd!None, Rlcd!Less, Rlcd!More, Rlcd!Tick
  <1>6. Panel2!Next <=> Rlcd("alerts")!Next
    BY <1>3, <1>4, <1>5, Zenon DEF Panel2!Next, Rlcd!Next
  <1> QED BY <1>1, <1>2, <1>6, Zenon

LEMMA RlcdAlertsHolds ==
    PanelsSpec /\ On("alerts") =>
        /\ [](On("alerts") /\ RlcdSafe("alerts"))
        /\ [][RlcdStep("alerts")]_all
  <1>1. "alerts" \in Rlcds
    BY DEF Rlcds
  <1>2. Panel2!ConstantsOK
    BY <1>1, PanelsAssumption, RlcdAlertsSame
  <1>3. PanelsInit /\ On("alerts") => Panel2!Init
    BY <1>1, RlcdBegins, RlcdAlertsSame
  <1>4. On("alerts") /\ [PanelsNext]_all => On("alerts")' /\ [Panel2!Next]_(Panel2!vars)
    BY <1>1, RlcdContinues, RlcdAlertsSame, Zenon
  <1>5. PanelsSpec /\ On("alerts") => []On("alerts") /\ Panel2!Spec
    BY <1>3, <1>4, PTL DEF PanelsSpec, Panel2!Spec
  <1>6. Panel2!Spec => []Panel2!TypeOK
    BY <1>2, Panel2!RlcdTypes
  <1>7. Panel2!Spec => []Panel2!PageInRing
    BY <1>2, Panel2!RlcdPageInRing
  <1>8. Panel2!Spec => []Panel2!UnsavedIsFlagged
    BY <1>2, Panel2!RlcdUnsavedIsFlagged
  <1>9. Panel2!Spec => [][Panel2!OneTonePerRaise]_(Panel2!vars)
    BY <1>2, Panel2!RlcdOneTone
  <1>10. Panel2!TypeOK /\ Panel2!PageInRing /\ Panel2!UnsavedIsFlagged
        => RlcdSafe("alerts")
    BY RlcdAlertsSame DEF RlcdSafe
  <1>11. On("alerts") /\ [PanelsNext]_all /\ [Panel2!OneTonePerRaise]_(Panel2!vars)
        => [RlcdStep("alerts")]_all
    BY <1>1, RlcdContinues, RlcdAlertsSame, Zenon DEF RlcdStep
  <1> QED BY <1>5, <1>6, <1>7, <1>8, <1>9, <1>10, <1>11, PTL DEF PanelsSpec

Panel3 ==
    INSTANCE PanelProofs WITH
        Inputs <- AmoledIn["tabs"][1], LongPress <- AmoledIn["tabs"][2],
        SecondTicks <- AmoledIn["tabs"][3], FailureTicks <- AmoledIn["tabs"][4],
        MaxOffers <- AmoledIn["tabs"][5], WakeGuard <- AmoledIn["tabs"][6],
        IdleCap <- AmoledIn["tabs"][7], TouchGuard <- 1, Brightness <- 1..2,
        DefaultBrightness <- 2, QueueLength <- 1,
        pc <- r1, saver <- r2, loop <- r3, queue <- r4, ui <- r5, finger <- r6, ota <- r7,
        clock <- r8,
        Providers <- RlcdIn["modes"][1], Keys <- RlcdIn["modes"][2], Events <- RlcdIn["modes"][3],
        Settable <- RlcdIn["modes"][4], Interval <- 1, Banner <- 0,
        v <- r1, stored <- r2, tone <- r3, toned <- r4

LEMMA RlcdModesSame ==
    /\ Panel3!ConstantsOK <=> Rlcd("modes")!ConstantsOK
    /\ Panel3!Init <=> Rlcd("modes")!Init
    /\ Panel3!Next <=> Rlcd("modes")!Next
    /\ Panel3!TypeOK <=> Rlcd("modes")!TypeOK
    /\ Panel3!PageInRing <=> Rlcd("modes")!PageInRing
    /\ Panel3!UnsavedIsFlagged <=> Rlcd("modes")!UnsavedIsFlagged
    /\ Panel3!OneTonePerRaise <=> Rlcd("modes")!OneTonePerRaise
    /\ UNCHANGED Panel3!vars <=> UNCHANGED Rlcd("modes")!vars
  <1>1. /\ Panel3!ConstantsOK <=> Rlcd("modes")!ConstantsOK
        /\ Panel3!Init <=> Rlcd("modes")!Init
    BY Zenon DEF
      Panel3!None, Panel3!ConstantsOK, Panel3!SettingsRange, Panel3!Init,
      Rlcd!None, Rlcd!ConstantsOK, Rlcd!SettingsRange, Rlcd!Init
  <1>2. /\ UNCHANGED Panel3!vars <=> UNCHANGED Rlcd("modes")!vars
        /\ Panel3!TypeOK <=> Rlcd("modes")!TypeOK
        /\ Panel3!PageInRing <=> Rlcd("modes")!PageInRing
        /\ Panel3!UnsavedIsFlagged <=> Rlcd("modes")!UnsavedIsFlagged
        /\ Panel3!OneTonePerRaise <=> Rlcd("modes")!OneTonePerRaise
    BY Zenon DEF
      Panel3!None, Panel3!Landscape, Panel3!Portrait, Panel3!Pages, Panel3!Row, Panel3!Rows,
      Panel3!SettingsRange, Panel3!vars, Panel3!Views, Panel3!TypeOK, Panel3!Ring,
      Panel3!InRing, Panel3!PageInRing, Panel3!UnsavedIsFlagged, Panel3!OneTonePerRaise,
      Rlcd!None, Rlcd!Landscape, Rlcd!Portrait, Rlcd!Pages, Rlcd!Row, Rlcd!Rows,
      Rlcd!SettingsRange, Rlcd!vars, Rlcd!Views, Rlcd!TypeOK, Rlcd!Ring, Rlcd!InRing,
      Rlcd!PageInRing, Rlcd!UnsavedIsFlagged, Rlcd!OneTonePerRaise
  <1>3. Panel3!Loop <=> Rlcd("modes")!Loop
    <2>1. ASSUME NEW w PROVE Panel3!Cycled(w) = Rlcd("modes")!Cycled(w)
      BY Zenon DEF
        Panel3!None, Panel3!Landscape, Panel3!Portrait, Panel3!Ring, Panel3!NextPage,
        Panel3!NextOf, Panel3!Calm, Panel3!Cycled,
        Rlcd!None, Rlcd!Landscape, Rlcd!Portrait, Rlcd!Ring, Rlcd!NextPage, Rlcd!NextOf,
        Rlcd!Calm, Rlcd!Cycled
    <2>2. ASSUME NEW w PROVE Panel3!Warned(w) = Rlcd("modes")!Warned(w)
      BY Zenon DEF
        Panel3!Present, Panel3!Warned,
        Rlcd!Present, Rlcd!Warned
    <2>3. ASSUME NEW w PROVE Panel3!Alerts(w) = Rlcd("modes")!Alerts(w)
      BY Zenon DEF
        Panel3!None, Panel3!StillHot, Panel3!Alerts,
        Rlcd!None, Rlcd!StillHot, Rlcd!Alerts
    <2>4. ASSUME NEW w, NEW a PROVE Panel3!Alerted(w, a) = Rlcd("modes")!Alerted(w, a)
      BY Zenon DEF
        Panel3!StillHot, Panel3!Alerted,
        Rlcd!StillHot, Rlcd!Alerted
    <2>5. ASSUME NEW w, NEW k, NEW ok PROVE Panel3!Keyed(w, k, ok) = Rlcd("modes")!Keyed(w, k, ok)
      BY Zenon DEF
        Panel3!None, Panel3!Landscape, Panel3!Portrait, Panel3!Row, Panel3!Rows, Panel3!Ring,
        Panel3!InRing, Panel3!NextPage, Panel3!NextOf, Panel3!PreviousOf, Panel3!Normalized,
        Panel3!Calm, Panel3!Changed, Panel3!InSettings, Panel3!Navigated, Panel3!Keyed,
        Rlcd!None, Rlcd!Landscape, Rlcd!Portrait, Rlcd!Row, Rlcd!Rows, Rlcd!Ring, Rlcd!InRing,
        Rlcd!NextPage, Rlcd!NextOf, Rlcd!PreviousOf, Rlcd!Normalized, Rlcd!Calm, Rlcd!Changed,
        Rlcd!InSettings, Rlcd!Navigated, Rlcd!Keyed
    <2>6. ASSUME NEW w, NEW e PROVE Panel3!Received(w, e) = Rlcd("modes")!Received(w, e)
      BY Zenon DEF
        Panel3!Landscape, Panel3!Portrait, Panel3!Ring, Panel3!InRing, Panel3!NextPage,
        Panel3!NextOf, Panel3!PreviousOf, Panel3!Normalized, Panel3!Calm, Panel3!Toggled,
        Panel3!Stepped, Panel3!Published, Panel3!Received,
        Rlcd!Landscape, Rlcd!Portrait, Rlcd!Ring, Rlcd!InRing, Rlcd!NextPage, Rlcd!NextOf,
        Rlcd!PreviousOf, Rlcd!Normalized, Rlcd!Calm, Rlcd!Toggled, Rlcd!Stepped, Rlcd!Published,
        Rlcd!Received
    <2>7. ASSUME NEW w, NEW k PROVE Panel3!Saves(w, k) <=> Rlcd("modes")!Saves(w, k)
      BY Zenon DEF
        Panel3!Calm, Panel3!Saves,
        Rlcd!Calm, Rlcd!Saves
    <2>8. ASSUME NEW w, NEW a PROVE Panel3!Raises(w, a) <=> Rlcd("modes")!Raises(w, a)
      BY Zenon DEF
        Panel3!None, Panel3!StillHot, Panel3!Raises,
        Rlcd!None, Rlcd!StillHot, Rlcd!Raises
    <2>9. ASSUME NEW w PROVE Panel3!Remember(w) <=> Rlcd("modes")!Remember(w)
      BY Zenon DEF
        Panel3!Remember,
        Rlcd!Remember
    <2>10. ASSUME NEW k PROVE Panel3!SaveResults(k) = Rlcd("modes")!SaveResults(k)
      BY Zenon DEF
        Panel3!SaveResults,
        Rlcd!SaveResults
    <2> DEFINE One(k, ok, r, a) ==
            LET w == Panel3!Warned(r)
                x == Panel3!Keyed(Panel3!Alerted(w, a), k, ok)
            IN  /\ r1' = Panel3!Cycled(x)
                /\ r2' = IF Panel3!Saves(Panel3!Alerted(w, a), k) /\ ok THEN x.settings ELSE r2
                /\ r3' = IF Panel3!Raises(w, a) /\ w.settings.alert = "beep" THEN a ELSE Panel3!None
                /\ Panel3!Remember(w)
    <2> DEFINE Other(k, ok, r, a) ==
            LET w == Rlcd("modes")!Warned(r)
                x == Rlcd("modes")!Keyed(Rlcd("modes")!Alerted(w, a), k, ok)
            IN  /\ r1' = Rlcd("modes")!Cycled(x)
                /\ r2' = IF Rlcd("modes")!Saves(Rlcd("modes")!Alerted(w, a), k) /\ ok THEN x.settings ELSE r2
                /\ r3' = IF Rlcd("modes")!Raises(w, a) /\ w.settings.alert = "beep" THEN a ELSE Rlcd("modes")!None
                /\ Rlcd("modes")!Remember(w)
    <2>11. ASSUME NEW k, NEW ok, NEW r, NEW a PROVE One(k, ok, r, a) <=> Other(k, ok, r, a)
      BY <2>1, <2>2, <2>4, <2>5, <2>7, <2>8, <2>9, Zenon DEF Panel3!None, Rlcd!None
    <2> HIDE DEF One, Other
    <2>12. Panel3!Loop <=> \E e \in {Panel3!None} \cup RlcdIn["modes"][3], k \in {Panel3!None} \cup RlcdIn["modes"][2] :
          \E ok \in Panel3!SaveResults(k), r \in Panel3!Received(r1, e) :
             \E a \in Panel3!Alerts(Panel3!Warned(r)) : One(k, ok, r, a)
      BY Zenon DEF One, Panel3!Loop
    <2>13. Rlcd("modes")!Loop <=> \E e \in {Rlcd("modes")!None} \cup RlcdIn["modes"][3], k \in {Rlcd("modes")!None} \cup RlcdIn["modes"][2] :
          \E ok \in Rlcd("modes")!SaveResults(k), r \in Rlcd("modes")!Received(r1, e) :
             \E a \in Rlcd("modes")!Alerts(Rlcd("modes")!Warned(r)) : Other(k, ok, r, a)
      BY Zenon DEF Other, Rlcd!Loop
    <2>14. Panel3!None = Rlcd("modes")!None
      BY DEF Panel3!None, Rlcd!None
    <2> QED BY <2>2, <2>3, <2>6, <2>10, <2>11, <2>12, <2>13, <2>14, Zenon
  <1>4. Panel3!Update <=> Rlcd("modes")!Update
    BY Zenon DEF
      Panel3!None, Panel3!Update,
      Rlcd!None, Rlcd!Update
  <1>5. Panel3!Tick <=> Rlcd("modes")!Tick
    BY Zenon DEF
      Panel3!None, Panel3!Less, Panel3!More, Panel3!Tick,
      Rlcd!None, Rlcd!Less, Rlcd!More, Rlcd!Tick
  <1>6. Panel3!Next <=> Rlcd("modes")!Next
    BY <1>3, <1>4, <1>5, Zenon DEF Panel3!Next, Rlcd!Next
  <1> QED BY <1>1, <1>2, <1>6, Zenon

LEMMA RlcdModesHolds ==
    PanelsSpec /\ On("modes") =>
        /\ [](On("modes") /\ RlcdSafe("modes"))
        /\ [][RlcdStep("modes")]_all
  <1>1. "modes" \in Rlcds
    BY DEF Rlcds
  <1>2. Panel3!ConstantsOK
    BY <1>1, PanelsAssumption, RlcdModesSame
  <1>3. PanelsInit /\ On("modes") => Panel3!Init
    BY <1>1, RlcdBegins, RlcdModesSame
  <1>4. On("modes") /\ [PanelsNext]_all => On("modes")' /\ [Panel3!Next]_(Panel3!vars)
    BY <1>1, RlcdContinues, RlcdModesSame, Zenon
  <1>5. PanelsSpec /\ On("modes") => []On("modes") /\ Panel3!Spec
    BY <1>3, <1>4, PTL DEF PanelsSpec, Panel3!Spec
  <1>6. Panel3!Spec => []Panel3!TypeOK
    BY <1>2, Panel3!RlcdTypes
  <1>7. Panel3!Spec => []Panel3!PageInRing
    BY <1>2, Panel3!RlcdPageInRing
  <1>8. Panel3!Spec => []Panel3!UnsavedIsFlagged
    BY <1>2, Panel3!RlcdUnsavedIsFlagged
  <1>9. Panel3!Spec => [][Panel3!OneTonePerRaise]_(Panel3!vars)
    BY <1>2, Panel3!RlcdOneTone
  <1>10. Panel3!TypeOK /\ Panel3!PageInRing /\ Panel3!UnsavedIsFlagged
        => RlcdSafe("modes")
    BY RlcdModesSame DEF RlcdSafe
  <1>11. On("modes") /\ [PanelsNext]_all /\ [Panel3!OneTonePerRaise]_(Panel3!vars)
        => [RlcdStep("modes")]_all
    BY <1>1, RlcdContinues, RlcdModesSame, Zenon DEF RlcdStep
  <1> QED BY <1>5, <1>6, <1>7, <1>8, <1>9, <1>10, <1>11, PTL DEF PanelsSpec

LEMMA RlcdHolds == PanelsSpec => []RlcdsSafe /\ [][RlcdsStep]_all
  <1> DEFINE Other == \A p \in Rlcds : ~On(p)
  <1>1. Other /\ [PanelsNext]_all => Other'
    BY PanelsStay DEF On
  <1>2. On("pages") => (RlcdSafe("pages") => RlcdsSafe) /\ (RlcdStep("pages") => RlcdsStep)
    BY DEF On, RlcdsSafe, RlcdsStep
  <1>3. On("alerts") => (RlcdSafe("alerts") => RlcdsSafe) /\ (RlcdStep("alerts") => RlcdsStep)
    BY DEF On, RlcdsSafe, RlcdsStep
  <1>4. On("modes") => (RlcdSafe("modes") => RlcdsSafe) /\ (RlcdStep("modes") => RlcdsStep)
    BY DEF On, RlcdsSafe, RlcdsStep
  <1>5. Other => RlcdsSafe /\ RlcdsStep
    BY DEF RlcdsSafe, RlcdsStep
  <1>6. Other \/ On("pages") \/ On("alerts") \/ On("modes")
    BY DEF Rlcds
  <1> HIDE DEF Other
  <1> QED
    BY <1>1, <1>2, <1>3, <1>4, <1>5, <1>6,
      RlcdPagesHolds, RlcdAlertsHolds, RlcdModesHolds, PTL DEF PanelsSpec

(***************************************************************************)
(* The programs of the AMOLED panel.                                       *)
(***************************************************************************)

LEMMA AmoledBegins ==
    ASSUME NEW p \in Amoleds, PanelsInit, On(p)
    PROVE  Amoled(p)!Init
  BY DEF PanelsInit, On, AmoledInit, RlcdInit, EpaperInit, PicoInit, Amoleds, Rlcds,
      Epapers, Picos

LEMMA AmoledContinues ==
    ASSUME NEW p \in Amoleds, On(p), [PanelsNext]_all
    PROVE  /\ On(p)' /\ [Amoled(p)!Next]_(Amoled(p)!vars)
           /\ UNCHANGED Amoled(p)!vars => UNCHANGED all
  <1>1. CASE AmoledNext
    BY <1>1 DEF AmoledNext, Runs, On, Amoled!Next, Amoled!vars, all,
        From9, From10, From11, From12, From14, From15, From16, From17
  <1>2. CASE UNCHANGED all
    BY <1>2 DEF all, On, Amoled!vars
  <1>3. ~(RlcdNext \/ EpaperNext \/ PicoNext)
    BY DEF RlcdNext, EpaperNext, PicoNext, Runs, On, Amoleds, Rlcds, Epapers, Picos
  <1> QED BY <1>1, <1>2, <1>3 DEF PanelsNext

LEMMA AmoledScreensSame ==
    /\ Panel1!Amoled!ConstantsOK <=> Amoled("screens")!ConstantsOK
    /\ Panel1!Amoled!Init <=> Amoled("screens")!Init
    /\ Panel1!Amoled!Next <=> Amoled("screens")!Next
    /\ Panel1!Amoled!TypeOK <=> Amoled("screens")!TypeOK
    /\ Panel1!Amoled!ScreenIsCurrent <=> Amoled("screens")!ScreenIsCurrent
    /\ Panel1!Amoled!StatusIsPage <=> Amoled("screens")!StatusIsPage
    /\ Panel1!Amoled!PreviewIsUndone <=> Amoled("screens")!PreviewIsUndone
    /\ Panel1!Amoled!UpdateIsShown <=> Amoled("screens")!UpdateIsShown
    /\ Panel1!Amoled!AwakeWhenNeeded <=> Amoled("screens")!AwakeWhenNeeded
    /\ UNCHANGED Panel1!Amoled!vars <=> UNCHANGED Amoled("screens")!vars
  <1>1. /\ Panel1!Amoled!ConstantsOK <=> Amoled("screens")!ConstantsOK
        /\ Panel1!Amoled!Init <=> Amoled("screens")!Init
    BY Zenon DEF
      Panel1!Amoled!Reset, Panel1!Amoled!ConstantsOK, Panel1!Amoled!Default, Panel1!Amoled!Init,
      Amoled!Reset, Amoled!ConstantsOK, Amoled!Default, Amoled!Init
  <1>2. /\ UNCHANGED Panel1!Amoled!vars <=> UNCHANGED Amoled("screens")!vars
        /\ Panel1!Amoled!TypeOK <=> Amoled("screens")!TypeOK
        /\ Panel1!Amoled!ScreenIsCurrent <=> Amoled("screens")!ScreenIsCurrent
        /\ Panel1!Amoled!StatusIsPage <=> Amoled("screens")!StatusIsPage
        /\ Panel1!Amoled!PreviewIsUndone <=> Amoled("screens")!PreviewIsUndone
        /\ Panel1!Amoled!UpdateIsShown <=> Amoled("screens")!UpdateIsShown
        /\ Panel1!Amoled!AwakeWhenNeeded <=> Amoled("screens")!AwakeWhenNeeded
    BY Zenon DEF
      Panel1!Amoled!Pages, Panel1!Amoled!Savers, Panel1!Amoled!vars, Panel1!Amoled!Settings,
      Panel1!Amoled!Actions, Panel1!Amoled!Layers, Panel1!Amoled!Offers, Panel1!Amoled!TypeOK,
      Panel1!Amoled!LayerFor, Panel1!Amoled!Failure, Panel1!Amoled!OtaVisible,
      Panel1!Amoled!ScreenIsCurrent, Panel1!Amoled!AwakeWhenNeeded,
      Panel1!Amoled!PreviewIsUndone, Panel1!Amoled!UpdateIsShown, Panel1!Amoled!StatusIsPage,
      Amoled!Pages, Amoled!Savers, Amoled!vars, Amoled!Settings, Amoled!Actions, Amoled!Layers,
      Amoled!Offers, Amoled!TypeOK, Amoled!LayerFor, Amoled!Failure, Amoled!OtaVisible,
      Amoled!ScreenIsCurrent, Amoled!AwakeWhenNeeded, Amoled!PreviewIsUndone,
      Amoled!UpdateIsShown, Amoled!StatusIsPage
  <1>3. Panel1!Amoled!Turn <=> Amoled("screens")!Turn
    BY Zenon DEF
      Panel1!Amoled!Reset, Panel1!Amoled!Enter, Panel1!Amoled!Exit,
      Panel1!Amoled!NoteRemoteToggle, Panel1!Amoled!NotePowerKey, Panel1!Amoled!NoteTouchDown,
      Panel1!Amoled!NoteShake, Panel1!Amoled!Update, Panel1!Amoled!Consumes,
      Panel1!Amoled!TouchAllowed, Panel1!Amoled!Elapsed, Panel1!Amoled!Aged,
      Panel1!Amoled!PageAfterSwipe, Panel1!Amoled!ApplySettings, Panel1!Amoled!LayerFor,
      Panel1!Amoled!Rendered, Panel1!Amoled!Confirms, Panel1!Amoled!Denies,
      Panel1!Amoled!TakeOta, Panel1!Amoled!Restored, Panel1!Amoled!TakeTouch,
      Panel1!Amoled!Blocked, Panel1!Amoled!Closed, Panel1!Amoled!UndoesPreview,
      Panel1!Amoled!Lower, Panel1!Amoled!Higher, Panel1!Amoled!Acted,
      Panel1!Amoled!Refusable, Panel1!Amoled!Chosen, Panel1!Amoled!TakenBack,
      Panel1!Amoled!Tries,
      Panel1!Amoled!TakeSettings, Panel1!Amoled!Requested, Panel1!Amoled!TakePage,
      Panel1!Amoled!OnLink, Panel1!Amoled!OnScreenPage, Panel1!Amoled!OnScreenToggle,
      Panel1!Amoled!ReceiveEvent, Panel1!Amoled!EventsDone, Panel1!Amoled!Sensors,
      Panel1!Amoled!Failure, Panel1!Amoled!NotesPhase, Panel1!Amoled!UpdateSaver,
      Panel1!Amoled!Key, Panel1!Amoled!OtaVisible, Panel1!Amoled!Renders, Panel1!Amoled!Render,
      Panel1!Amoled!Sleep, Panel1!Amoled!Tick, Panel1!Amoled!Turn,
      Amoled!Reset, Amoled!Enter, Amoled!Exit, Amoled!NoteRemoteToggle, Amoled!NotePowerKey,
      Amoled!NoteTouchDown, Amoled!NoteShake, Amoled!Update, Amoled!Consumes,
      Amoled!TouchAllowed, Amoled!Elapsed, Amoled!Aged, Amoled!PageAfterSwipe,
      Amoled!ApplySettings, Amoled!LayerFor, Amoled!Rendered, Amoled!Confirms, Amoled!Denies,
      Amoled!TakeOta, Amoled!Restored, Amoled!TakeTouch, Amoled!Blocked, Amoled!Closed,
      Amoled!UndoesPreview, Amoled!Lower, Amoled!Higher, Amoled!Acted, Amoled!Refusable,
      Amoled!Chosen, Amoled!TakenBack, Amoled!Tries, Amoled!TakeSettings,
      Amoled!Requested, Amoled!TakePage, Amoled!OnLink, Amoled!OnScreenPage,
      Amoled!OnScreenToggle, Amoled!ReceiveEvent, Amoled!EventsDone, Amoled!Sensors,
      Amoled!Failure, Amoled!NotesPhase, Amoled!UpdateSaver, Amoled!Key, Amoled!OtaVisible,
      Amoled!Renders, Amoled!Render, Amoled!Sleep, Amoled!Tick, Amoled!Turn
  <1>4. Panel1!Amoled!Press <=> Amoled("screens")!Press
    BY Zenon DEF
      Panel1!Amoled!Press,
      Amoled!Press
  <1>5. Panel1!Amoled!Release <=> Amoled("screens")!Release
    BY Zenon DEF
      Panel1!Amoled!Pages, Panel1!Amoled!PageAfterSwipe, Panel1!Amoled!Actions,
      Panel1!Amoled!AcceptsNavigation, Panel1!Amoled!TabEvent, Panel1!Amoled!GestureEvent,
      Panel1!Amoled!SettingsEvent, Panel1!Amoled!OtaConfirmEvent, Panel1!Amoled!OtaDenyEvent,
      Panel1!Amoled!ClickPage, Panel1!Amoled!ClickSettings, Panel1!Amoled!ClickOta,
      Panel1!Amoled!Release,
      Amoled!Pages, Amoled!PageAfterSwipe, Amoled!Actions, Amoled!AcceptsNavigation,
      Amoled!TabEvent, Amoled!GestureEvent, Amoled!SettingsEvent, Amoled!OtaConfirmEvent,
      Amoled!OtaDenyEvent, Amoled!ClickPage, Amoled!ClickSettings, Amoled!ClickOta,
      Amoled!Release
  <1>6. Panel1!Amoled!LongPressEvent <=> Amoled("screens")!LongPressEvent
    BY Zenon DEF
      Panel1!Amoled!AcceptsNavigation, Panel1!Amoled!LongPressEvent,
      Amoled!AcceptsNavigation, Amoled!LongPressEvent
  <1>7. Panel1!Amoled!Peer <=> Amoled("screens")!Peer
    BY Zenon DEF
      Panel1!Amoled!Send, Panel1!Amoled!Peer,
      Amoled!Send, Amoled!Peer
  <1>8. Panel1!Amoled!OtaOffer <=> Amoled("screens")!OtaOffer
    BY Zenon DEF
      Panel1!Amoled!OtaOffer,
      Amoled!OtaOffer
  <1>9. Panel1!Amoled!OtaFail <=> Amoled("screens")!OtaFail
    BY Zenon DEF
      Panel1!Amoled!OtaFail,
      Amoled!OtaFail
  <1>10. Panel1!Amoled!Next <=> Amoled("screens")!Next
    BY <1>3, <1>4, <1>5, <1>6, <1>7, <1>8, <1>9, Zenon DEF Panel1!Amoled!Next, Amoled!Next
  <1> QED BY <1>1, <1>2, <1>10, Zenon

LEMMA AmoledScreensHolds ==
    PanelsSpec /\ On("screens") =>
        /\ [](On("screens") /\ AmoledSafe("screens"))
  <1>1. "screens" \in Amoleds
    BY DEF Amoleds
  <1>2. Panel1!Amoled!ConstantsOK
    BY <1>1, PanelsAssumption, AmoledScreensSame
  <1>3. PanelsInit /\ On("screens") => Panel1!Amoled!Init
    BY <1>1, AmoledBegins, AmoledScreensSame
  <1>4. On("screens") /\ [PanelsNext]_all => On("screens")' /\ [Panel1!Amoled!Next]_(Panel1!Amoled!vars)
    BY <1>1, AmoledContinues, AmoledScreensSame, Zenon
  <1>5. PanelsSpec /\ On("screens") => []On("screens") /\ Panel1!Amoled!Spec
    BY <1>3, <1>4, PTL DEF PanelsSpec, Panel1!Amoled!Spec
  <1>6. Panel1!Amoled!Spec => []Panel1!Amoled!TypeOK
    BY <1>2, Panel1!TouchTypeOK
  <1>7. Panel1!Amoled!Spec => []Panel1!Amoled!StatusIsPage
    BY <1>2, Panel1!TouchStatusIsPage
  <1>8. Panel1!Amoled!Spec => []Panel1!Amoled!PreviewIsUndone
    BY <1>2, Panel1!TouchPreviewIsUndone
  <1>9. Panel1!Amoled!Spec => []Panel1!Amoled!UpdateIsShown
    BY <1>2, Panel1!TouchUpdateIsShown
  <1>10. Panel1!Amoled!Spec => []Panel1!Amoled!AwakeWhenNeeded
    BY <1>2, Panel1!TouchAwakeWhenNeeded
  <1>11. Panel1!Amoled!Spec => []Panel1!Amoled!ScreenIsCurrent
    BY <1>2, Panel1!TouchScreenIsCurrent
  <1>12. Panel1!Amoled!TypeOK /\ Panel1!Amoled!StatusIsPage /\ Panel1!Amoled!PreviewIsUndone /\
        Panel1!Amoled!UpdateIsShown /\ Panel1!Amoled!AwakeWhenNeeded /\
        Panel1!Amoled!ScreenIsCurrent
        => AmoledSafe("screens")
    BY AmoledScreensSame DEF AmoledSafe
  <1> QED BY <1>5, <1>6, <1>7, <1>8, <1>9, <1>10, <1>11, <1>12, PTL DEF PanelsSpec

LEMMA AmoledPairingsSame ==
    /\ Panel2!Amoled!ConstantsOK <=> Amoled("pairings")!ConstantsOK
    /\ Panel2!Amoled!Init <=> Amoled("pairings")!Init
    /\ Panel2!Amoled!Next <=> Amoled("pairings")!Next
    /\ Panel2!Amoled!TypeOK <=> Amoled("pairings")!TypeOK
    /\ Panel2!Amoled!ScreenIsCurrent <=> Amoled("pairings")!ScreenIsCurrent
    /\ Panel2!Amoled!StatusIsPage <=> Amoled("pairings")!StatusIsPage
    /\ Panel2!Amoled!PreviewIsUndone <=> Amoled("pairings")!PreviewIsUndone
    /\ Panel2!Amoled!UpdateIsShown <=> Amoled("pairings")!UpdateIsShown
    /\ Panel2!Amoled!AwakeWhenNeeded <=> Amoled("pairings")!AwakeWhenNeeded
    /\ UNCHANGED Panel2!Amoled!vars <=> UNCHANGED Amoled("pairings")!vars
  <1>1. /\ Panel2!Amoled!ConstantsOK <=> Amoled("pairings")!ConstantsOK
        /\ Panel2!Amoled!Init <=> Amoled("pairings")!Init
    BY Zenon DEF
      Panel2!Amoled!Reset, Panel2!Amoled!ConstantsOK, Panel2!Amoled!Default, Panel2!Amoled!Init,
      Amoled!Reset, Amoled!ConstantsOK, Amoled!Default, Amoled!Init
  <1>2. /\ UNCHANGED Panel2!Amoled!vars <=> UNCHANGED Amoled("pairings")!vars
        /\ Panel2!Amoled!TypeOK <=> Amoled("pairings")!TypeOK
        /\ Panel2!Amoled!ScreenIsCurrent <=> Amoled("pairings")!ScreenIsCurrent
        /\ Panel2!Amoled!StatusIsPage <=> Amoled("pairings")!StatusIsPage
        /\ Panel2!Amoled!PreviewIsUndone <=> Amoled("pairings")!PreviewIsUndone
        /\ Panel2!Amoled!UpdateIsShown <=> Amoled("pairings")!UpdateIsShown
        /\ Panel2!Amoled!AwakeWhenNeeded <=> Amoled("pairings")!AwakeWhenNeeded
    BY Zenon DEF
      Panel2!Amoled!Pages, Panel2!Amoled!Savers, Panel2!Amoled!vars, Panel2!Amoled!Settings,
      Panel2!Amoled!Actions, Panel2!Amoled!Layers, Panel2!Amoled!Offers, Panel2!Amoled!TypeOK,
      Panel2!Amoled!LayerFor, Panel2!Amoled!Failure, Panel2!Amoled!OtaVisible,
      Panel2!Amoled!ScreenIsCurrent, Panel2!Amoled!AwakeWhenNeeded,
      Panel2!Amoled!PreviewIsUndone, Panel2!Amoled!UpdateIsShown, Panel2!Amoled!StatusIsPage,
      Amoled!Pages, Amoled!Savers, Amoled!vars, Amoled!Settings, Amoled!Actions, Amoled!Layers,
      Amoled!Offers, Amoled!TypeOK, Amoled!LayerFor, Amoled!Failure, Amoled!OtaVisible,
      Amoled!ScreenIsCurrent, Amoled!AwakeWhenNeeded, Amoled!PreviewIsUndone,
      Amoled!UpdateIsShown, Amoled!StatusIsPage
  <1>3. Panel2!Amoled!Turn <=> Amoled("pairings")!Turn
    BY Zenon DEF
      Panel2!Amoled!Reset, Panel2!Amoled!Enter, Panel2!Amoled!Exit,
      Panel2!Amoled!NoteRemoteToggle, Panel2!Amoled!NotePowerKey, Panel2!Amoled!NoteTouchDown,
      Panel2!Amoled!NoteShake, Panel2!Amoled!Update, Panel2!Amoled!Consumes,
      Panel2!Amoled!TouchAllowed, Panel2!Amoled!Elapsed, Panel2!Amoled!Aged,
      Panel2!Amoled!PageAfterSwipe, Panel2!Amoled!ApplySettings, Panel2!Amoled!LayerFor,
      Panel2!Amoled!Rendered, Panel2!Amoled!Confirms, Panel2!Amoled!Denies,
      Panel2!Amoled!TakeOta, Panel2!Amoled!Restored, Panel2!Amoled!TakeTouch,
      Panel2!Amoled!Blocked, Panel2!Amoled!Closed, Panel2!Amoled!UndoesPreview,
      Panel2!Amoled!Lower, Panel2!Amoled!Higher, Panel2!Amoled!Acted,
      Panel2!Amoled!Refusable, Panel2!Amoled!Chosen, Panel2!Amoled!TakenBack,
      Panel2!Amoled!Tries,
      Panel2!Amoled!TakeSettings, Panel2!Amoled!Requested, Panel2!Amoled!TakePage,
      Panel2!Amoled!OnLink, Panel2!Amoled!OnScreenPage, Panel2!Amoled!OnScreenToggle,
      Panel2!Amoled!ReceiveEvent, Panel2!Amoled!EventsDone, Panel2!Amoled!Sensors,
      Panel2!Amoled!Failure, Panel2!Amoled!NotesPhase, Panel2!Amoled!UpdateSaver,
      Panel2!Amoled!Key, Panel2!Amoled!OtaVisible, Panel2!Amoled!Renders, Panel2!Amoled!Render,
      Panel2!Amoled!Sleep, Panel2!Amoled!Tick, Panel2!Amoled!Turn,
      Amoled!Reset, Amoled!Enter, Amoled!Exit, Amoled!NoteRemoteToggle, Amoled!NotePowerKey,
      Amoled!NoteTouchDown, Amoled!NoteShake, Amoled!Update, Amoled!Consumes,
      Amoled!TouchAllowed, Amoled!Elapsed, Amoled!Aged, Amoled!PageAfterSwipe,
      Amoled!ApplySettings, Amoled!LayerFor, Amoled!Rendered, Amoled!Confirms, Amoled!Denies,
      Amoled!TakeOta, Amoled!Restored, Amoled!TakeTouch, Amoled!Blocked, Amoled!Closed,
      Amoled!UndoesPreview, Amoled!Lower, Amoled!Higher, Amoled!Acted, Amoled!Refusable,
      Amoled!Chosen, Amoled!TakenBack, Amoled!Tries, Amoled!TakeSettings,
      Amoled!Requested, Amoled!TakePage, Amoled!OnLink, Amoled!OnScreenPage,
      Amoled!OnScreenToggle, Amoled!ReceiveEvent, Amoled!EventsDone, Amoled!Sensors,
      Amoled!Failure, Amoled!NotesPhase, Amoled!UpdateSaver, Amoled!Key, Amoled!OtaVisible,
      Amoled!Renders, Amoled!Render, Amoled!Sleep, Amoled!Tick, Amoled!Turn
  <1>4. Panel2!Amoled!Press <=> Amoled("pairings")!Press
    BY Zenon DEF
      Panel2!Amoled!Press,
      Amoled!Press
  <1>5. Panel2!Amoled!Release <=> Amoled("pairings")!Release
    BY Zenon DEF
      Panel2!Amoled!Pages, Panel2!Amoled!PageAfterSwipe, Panel2!Amoled!Actions,
      Panel2!Amoled!AcceptsNavigation, Panel2!Amoled!TabEvent, Panel2!Amoled!GestureEvent,
      Panel2!Amoled!SettingsEvent, Panel2!Amoled!OtaConfirmEvent, Panel2!Amoled!OtaDenyEvent,
      Panel2!Amoled!ClickPage, Panel2!Amoled!ClickSettings, Panel2!Amoled!ClickOta,
      Panel2!Amoled!Release,
      Amoled!Pages, Amoled!PageAfterSwipe, Amoled!Actions, Amoled!AcceptsNavigation,
      Amoled!TabEvent, Amoled!GestureEvent, Amoled!SettingsEvent, Amoled!OtaConfirmEvent,
      Amoled!OtaDenyEvent, Amoled!ClickPage, Amoled!ClickSettings, Amoled!ClickOta,
      Amoled!Release
  <1>6. Panel2!Amoled!LongPressEvent <=> Amoled("pairings")!LongPressEvent
    BY Zenon DEF
      Panel2!Amoled!AcceptsNavigation, Panel2!Amoled!LongPressEvent,
      Amoled!AcceptsNavigation, Amoled!LongPressEvent
  <1>7. Panel2!Amoled!Peer <=> Amoled("pairings")!Peer
    BY Zenon DEF
      Panel2!Amoled!Send, Panel2!Amoled!Peer,
      Amoled!Send, Amoled!Peer
  <1>8. Panel2!Amoled!OtaOffer <=> Amoled("pairings")!OtaOffer
    BY Zenon DEF
      Panel2!Amoled!OtaOffer,
      Amoled!OtaOffer
  <1>9. Panel2!Amoled!OtaFail <=> Amoled("pairings")!OtaFail
    BY Zenon DEF
      Panel2!Amoled!OtaFail,
      Amoled!OtaFail
  <1>10. Panel2!Amoled!Next <=> Amoled("pairings")!Next
    BY <1>3, <1>4, <1>5, <1>6, <1>7, <1>8, <1>9, Zenon DEF Panel2!Amoled!Next, Amoled!Next
  <1> QED BY <1>1, <1>2, <1>10, Zenon

LEMMA AmoledPairingsHolds ==
    PanelsSpec /\ On("pairings") =>
        /\ [](On("pairings") /\ AmoledSafe("pairings"))
  <1>1. "pairings" \in Amoleds
    BY DEF Amoleds
  <1>2. Panel2!Amoled!ConstantsOK
    BY <1>1, PanelsAssumption, AmoledPairingsSame
  <1>3. PanelsInit /\ On("pairings") => Panel2!Amoled!Init
    BY <1>1, AmoledBegins, AmoledPairingsSame
  <1>4. On("pairings") /\ [PanelsNext]_all => On("pairings")' /\ [Panel2!Amoled!Next]_(Panel2!Amoled!vars)
    BY <1>1, AmoledContinues, AmoledPairingsSame, Zenon
  <1>5. PanelsSpec /\ On("pairings") => []On("pairings") /\ Panel2!Amoled!Spec
    BY <1>3, <1>4, PTL DEF PanelsSpec, Panel2!Amoled!Spec
  <1>6. Panel2!Amoled!Spec => []Panel2!Amoled!TypeOK
    BY <1>2, Panel2!TouchTypeOK
  <1>7. Panel2!Amoled!Spec => []Panel2!Amoled!StatusIsPage
    BY <1>2, Panel2!TouchStatusIsPage
  <1>8. Panel2!Amoled!Spec => []Panel2!Amoled!PreviewIsUndone
    BY <1>2, Panel2!TouchPreviewIsUndone
  <1>9. Panel2!Amoled!Spec => []Panel2!Amoled!UpdateIsShown
    BY <1>2, Panel2!TouchUpdateIsShown
  <1>10. Panel2!Amoled!Spec => []Panel2!Amoled!AwakeWhenNeeded
    BY <1>2, Panel2!TouchAwakeWhenNeeded
  <1>11. Panel2!Amoled!Spec => []Panel2!Amoled!ScreenIsCurrent
    BY <1>2, Panel2!TouchScreenIsCurrent
  <1>12. Panel2!Amoled!TypeOK /\ Panel2!Amoled!StatusIsPage /\ Panel2!Amoled!PreviewIsUndone /\
        Panel2!Amoled!UpdateIsShown /\ Panel2!Amoled!AwakeWhenNeeded /\
        Panel2!Amoled!ScreenIsCurrent
        => AmoledSafe("pairings")
    BY AmoledPairingsSame DEF AmoledSafe
  <1> QED BY <1>5, <1>6, <1>7, <1>8, <1>9, <1>10, <1>11, <1>12, PTL DEF PanelsSpec

LEMMA AmoledTabsSame ==
    /\ Panel3!Amoled!ConstantsOK <=> Amoled("tabs")!ConstantsOK
    /\ Panel3!Amoled!Init <=> Amoled("tabs")!Init
    /\ Panel3!Amoled!Next <=> Amoled("tabs")!Next
    /\ Panel3!Amoled!TypeOK <=> Amoled("tabs")!TypeOK
    /\ Panel3!Amoled!ScreenIsCurrent <=> Amoled("tabs")!ScreenIsCurrent
    /\ Panel3!Amoled!StatusIsPage <=> Amoled("tabs")!StatusIsPage
    /\ Panel3!Amoled!PreviewIsUndone <=> Amoled("tabs")!PreviewIsUndone
    /\ Panel3!Amoled!UpdateIsShown <=> Amoled("tabs")!UpdateIsShown
    /\ Panel3!Amoled!AwakeWhenNeeded <=> Amoled("tabs")!AwakeWhenNeeded
    /\ UNCHANGED Panel3!Amoled!vars <=> UNCHANGED Amoled("tabs")!vars
  <1>1. /\ Panel3!Amoled!ConstantsOK <=> Amoled("tabs")!ConstantsOK
        /\ Panel3!Amoled!Init <=> Amoled("tabs")!Init
    BY Zenon DEF
      Panel3!Amoled!Reset, Panel3!Amoled!ConstantsOK, Panel3!Amoled!Default, Panel3!Amoled!Init,
      Amoled!Reset, Amoled!ConstantsOK, Amoled!Default, Amoled!Init
  <1>2. /\ UNCHANGED Panel3!Amoled!vars <=> UNCHANGED Amoled("tabs")!vars
        /\ Panel3!Amoled!TypeOK <=> Amoled("tabs")!TypeOK
        /\ Panel3!Amoled!ScreenIsCurrent <=> Amoled("tabs")!ScreenIsCurrent
        /\ Panel3!Amoled!StatusIsPage <=> Amoled("tabs")!StatusIsPage
        /\ Panel3!Amoled!PreviewIsUndone <=> Amoled("tabs")!PreviewIsUndone
        /\ Panel3!Amoled!UpdateIsShown <=> Amoled("tabs")!UpdateIsShown
        /\ Panel3!Amoled!AwakeWhenNeeded <=> Amoled("tabs")!AwakeWhenNeeded
    BY Zenon DEF
      Panel3!Amoled!Pages, Panel3!Amoled!Savers, Panel3!Amoled!vars, Panel3!Amoled!Settings,
      Panel3!Amoled!Actions, Panel3!Amoled!Layers, Panel3!Amoled!Offers, Panel3!Amoled!TypeOK,
      Panel3!Amoled!LayerFor, Panel3!Amoled!Failure, Panel3!Amoled!OtaVisible,
      Panel3!Amoled!ScreenIsCurrent, Panel3!Amoled!AwakeWhenNeeded,
      Panel3!Amoled!PreviewIsUndone, Panel3!Amoled!UpdateIsShown, Panel3!Amoled!StatusIsPage,
      Amoled!Pages, Amoled!Savers, Amoled!vars, Amoled!Settings, Amoled!Actions, Amoled!Layers,
      Amoled!Offers, Amoled!TypeOK, Amoled!LayerFor, Amoled!Failure, Amoled!OtaVisible,
      Amoled!ScreenIsCurrent, Amoled!AwakeWhenNeeded, Amoled!PreviewIsUndone,
      Amoled!UpdateIsShown, Amoled!StatusIsPage
  <1>3. Panel3!Amoled!Turn <=> Amoled("tabs")!Turn
    BY Zenon DEF
      Panel3!Amoled!Reset, Panel3!Amoled!Enter, Panel3!Amoled!Exit,
      Panel3!Amoled!NoteRemoteToggle, Panel3!Amoled!NotePowerKey, Panel3!Amoled!NoteTouchDown,
      Panel3!Amoled!NoteShake, Panel3!Amoled!Update, Panel3!Amoled!Consumes,
      Panel3!Amoled!TouchAllowed, Panel3!Amoled!Elapsed, Panel3!Amoled!Aged,
      Panel3!Amoled!PageAfterSwipe, Panel3!Amoled!ApplySettings, Panel3!Amoled!LayerFor,
      Panel3!Amoled!Rendered, Panel3!Amoled!Confirms, Panel3!Amoled!Denies,
      Panel3!Amoled!TakeOta, Panel3!Amoled!Restored, Panel3!Amoled!TakeTouch,
      Panel3!Amoled!Blocked, Panel3!Amoled!Closed, Panel3!Amoled!UndoesPreview,
      Panel3!Amoled!Lower, Panel3!Amoled!Higher, Panel3!Amoled!Acted,
      Panel3!Amoled!Refusable, Panel3!Amoled!Chosen, Panel3!Amoled!TakenBack,
      Panel3!Amoled!Tries,
      Panel3!Amoled!TakeSettings, Panel3!Amoled!Requested, Panel3!Amoled!TakePage,
      Panel3!Amoled!OnLink, Panel3!Amoled!OnScreenPage, Panel3!Amoled!OnScreenToggle,
      Panel3!Amoled!ReceiveEvent, Panel3!Amoled!EventsDone, Panel3!Amoled!Sensors,
      Panel3!Amoled!Failure, Panel3!Amoled!NotesPhase, Panel3!Amoled!UpdateSaver,
      Panel3!Amoled!Key, Panel3!Amoled!OtaVisible, Panel3!Amoled!Renders, Panel3!Amoled!Render,
      Panel3!Amoled!Sleep, Panel3!Amoled!Tick, Panel3!Amoled!Turn,
      Amoled!Reset, Amoled!Enter, Amoled!Exit, Amoled!NoteRemoteToggle, Amoled!NotePowerKey,
      Amoled!NoteTouchDown, Amoled!NoteShake, Amoled!Update, Amoled!Consumes,
      Amoled!TouchAllowed, Amoled!Elapsed, Amoled!Aged, Amoled!PageAfterSwipe,
      Amoled!ApplySettings, Amoled!LayerFor, Amoled!Rendered, Amoled!Confirms, Amoled!Denies,
      Amoled!TakeOta, Amoled!Restored, Amoled!TakeTouch, Amoled!Blocked, Amoled!Closed,
      Amoled!UndoesPreview, Amoled!Lower, Amoled!Higher, Amoled!Acted, Amoled!Refusable,
      Amoled!Chosen, Amoled!TakenBack, Amoled!Tries, Amoled!TakeSettings,
      Amoled!Requested, Amoled!TakePage, Amoled!OnLink, Amoled!OnScreenPage,
      Amoled!OnScreenToggle, Amoled!ReceiveEvent, Amoled!EventsDone, Amoled!Sensors,
      Amoled!Failure, Amoled!NotesPhase, Amoled!UpdateSaver, Amoled!Key, Amoled!OtaVisible,
      Amoled!Renders, Amoled!Render, Amoled!Sleep, Amoled!Tick, Amoled!Turn
  <1>4. Panel3!Amoled!Press <=> Amoled("tabs")!Press
    BY Zenon DEF
      Panel3!Amoled!Press,
      Amoled!Press
  <1>5. Panel3!Amoled!Release <=> Amoled("tabs")!Release
    BY Zenon DEF
      Panel3!Amoled!Pages, Panel3!Amoled!PageAfterSwipe, Panel3!Amoled!Actions,
      Panel3!Amoled!AcceptsNavigation, Panel3!Amoled!TabEvent, Panel3!Amoled!GestureEvent,
      Panel3!Amoled!SettingsEvent, Panel3!Amoled!OtaConfirmEvent, Panel3!Amoled!OtaDenyEvent,
      Panel3!Amoled!ClickPage, Panel3!Amoled!ClickSettings, Panel3!Amoled!ClickOta,
      Panel3!Amoled!Release,
      Amoled!Pages, Amoled!PageAfterSwipe, Amoled!Actions, Amoled!AcceptsNavigation,
      Amoled!TabEvent, Amoled!GestureEvent, Amoled!SettingsEvent, Amoled!OtaConfirmEvent,
      Amoled!OtaDenyEvent, Amoled!ClickPage, Amoled!ClickSettings, Amoled!ClickOta,
      Amoled!Release
  <1>6. Panel3!Amoled!LongPressEvent <=> Amoled("tabs")!LongPressEvent
    BY Zenon DEF
      Panel3!Amoled!AcceptsNavigation, Panel3!Amoled!LongPressEvent,
      Amoled!AcceptsNavigation, Amoled!LongPressEvent
  <1>7. Panel3!Amoled!Peer <=> Amoled("tabs")!Peer
    BY Zenon DEF
      Panel3!Amoled!Send, Panel3!Amoled!Peer,
      Amoled!Send, Amoled!Peer
  <1>8. Panel3!Amoled!OtaOffer <=> Amoled("tabs")!OtaOffer
    BY Zenon DEF
      Panel3!Amoled!OtaOffer,
      Amoled!OtaOffer
  <1>9. Panel3!Amoled!OtaFail <=> Amoled("tabs")!OtaFail
    BY Zenon DEF
      Panel3!Amoled!OtaFail,
      Amoled!OtaFail
  <1>10. Panel3!Amoled!Next <=> Amoled("tabs")!Next
    BY <1>3, <1>4, <1>5, <1>6, <1>7, <1>8, <1>9, Zenon DEF Panel3!Amoled!Next, Amoled!Next
  <1> QED BY <1>1, <1>2, <1>10, Zenon

LEMMA AmoledTabsHolds ==
    PanelsSpec /\ On("tabs") =>
        /\ [](On("tabs") /\ AmoledSafe("tabs"))
  <1>1. "tabs" \in Amoleds
    BY DEF Amoleds
  <1>2. Panel3!Amoled!ConstantsOK
    BY <1>1, PanelsAssumption, AmoledTabsSame
  <1>3. PanelsInit /\ On("tabs") => Panel3!Amoled!Init
    BY <1>1, AmoledBegins, AmoledTabsSame
  <1>4. On("tabs") /\ [PanelsNext]_all => On("tabs")' /\ [Panel3!Amoled!Next]_(Panel3!Amoled!vars)
    BY <1>1, AmoledContinues, AmoledTabsSame, Zenon
  <1>5. PanelsSpec /\ On("tabs") => []On("tabs") /\ Panel3!Amoled!Spec
    BY <1>3, <1>4, PTL DEF PanelsSpec, Panel3!Amoled!Spec
  <1>6. Panel3!Amoled!Spec => []Panel3!Amoled!TypeOK
    BY <1>2, Panel3!TouchTypeOK
  <1>7. Panel3!Amoled!Spec => []Panel3!Amoled!StatusIsPage
    BY <1>2, Panel3!TouchStatusIsPage
  <1>8. Panel3!Amoled!Spec => []Panel3!Amoled!PreviewIsUndone
    BY <1>2, Panel3!TouchPreviewIsUndone
  <1>9. Panel3!Amoled!Spec => []Panel3!Amoled!UpdateIsShown
    BY <1>2, Panel3!TouchUpdateIsShown
  <1>10. Panel3!Amoled!Spec => []Panel3!Amoled!AwakeWhenNeeded
    BY <1>2, Panel3!TouchAwakeWhenNeeded
  <1>11. Panel3!Amoled!Spec => []Panel3!Amoled!ScreenIsCurrent
    BY <1>2, Panel3!TouchScreenIsCurrent
  <1>12. Panel3!Amoled!TypeOK /\ Panel3!Amoled!StatusIsPage /\ Panel3!Amoled!PreviewIsUndone /\
        Panel3!Amoled!UpdateIsShown /\ Panel3!Amoled!AwakeWhenNeeded /\
        Panel3!Amoled!ScreenIsCurrent
        => AmoledSafe("tabs")
    BY AmoledTabsSame DEF AmoledSafe
  <1> QED BY <1>5, <1>6, <1>7, <1>8, <1>9, <1>10, <1>11, <1>12, PTL DEF PanelsSpec

Panel4 ==
    INSTANCE PanelProofs WITH
        Inputs <- AmoledIn["settings"][1], LongPress <- AmoledIn["settings"][2],
        SecondTicks <- AmoledIn["settings"][3], FailureTicks <- AmoledIn["settings"][4],
        MaxOffers <- AmoledIn["settings"][5], WakeGuard <- AmoledIn["settings"][6],
        IdleCap <- AmoledIn["settings"][7], TouchGuard <- 1, Brightness <- 1..2,
        DefaultBrightness <- 2, QueueLength <- 1,
        pc <- r1, saver <- r2, loop <- r3, queue <- r4, ui <- r5, finger <- r6, ota <- r7,
        clock <- r8,
        Providers <- RlcdIn["pages"][1], Keys <- RlcdIn["pages"][2], Events <- RlcdIn["pages"][3],
        Settable <- RlcdIn["pages"][4], Interval <- 1, Banner <- 0,
        v <- r1, stored <- r2, tone <- r3, toned <- r4

LEMMA AmoledSettingsSame ==
    /\ Panel4!Amoled!ConstantsOK <=> Amoled("settings")!ConstantsOK
    /\ Panel4!Amoled!Init <=> Amoled("settings")!Init
    /\ Panel4!Amoled!Next <=> Amoled("settings")!Next
    /\ Panel4!Amoled!TypeOK <=> Amoled("settings")!TypeOK
    /\ Panel4!Amoled!ScreenIsCurrent <=> Amoled("settings")!ScreenIsCurrent
    /\ Panel4!Amoled!StatusIsPage <=> Amoled("settings")!StatusIsPage
    /\ Panel4!Amoled!PreviewIsUndone <=> Amoled("settings")!PreviewIsUndone
    /\ Panel4!Amoled!UpdateIsShown <=> Amoled("settings")!UpdateIsShown
    /\ Panel4!Amoled!AwakeWhenNeeded <=> Amoled("settings")!AwakeWhenNeeded
    /\ UNCHANGED Panel4!Amoled!vars <=> UNCHANGED Amoled("settings")!vars
  <1>1. /\ Panel4!Amoled!ConstantsOK <=> Amoled("settings")!ConstantsOK
        /\ Panel4!Amoled!Init <=> Amoled("settings")!Init
    BY Zenon DEF
      Panel4!Amoled!Reset, Panel4!Amoled!ConstantsOK, Panel4!Amoled!Default, Panel4!Amoled!Init,
      Amoled!Reset, Amoled!ConstantsOK, Amoled!Default, Amoled!Init
  <1>2. /\ UNCHANGED Panel4!Amoled!vars <=> UNCHANGED Amoled("settings")!vars
        /\ Panel4!Amoled!TypeOK <=> Amoled("settings")!TypeOK
        /\ Panel4!Amoled!ScreenIsCurrent <=> Amoled("settings")!ScreenIsCurrent
        /\ Panel4!Amoled!StatusIsPage <=> Amoled("settings")!StatusIsPage
        /\ Panel4!Amoled!PreviewIsUndone <=> Amoled("settings")!PreviewIsUndone
        /\ Panel4!Amoled!UpdateIsShown <=> Amoled("settings")!UpdateIsShown
        /\ Panel4!Amoled!AwakeWhenNeeded <=> Amoled("settings")!AwakeWhenNeeded
    BY Zenon DEF
      Panel4!Amoled!Pages, Panel4!Amoled!Savers, Panel4!Amoled!vars, Panel4!Amoled!Settings,
      Panel4!Amoled!Actions, Panel4!Amoled!Layers, Panel4!Amoled!Offers, Panel4!Amoled!TypeOK,
      Panel4!Amoled!LayerFor, Panel4!Amoled!Failure, Panel4!Amoled!OtaVisible,
      Panel4!Amoled!ScreenIsCurrent, Panel4!Amoled!AwakeWhenNeeded,
      Panel4!Amoled!PreviewIsUndone, Panel4!Amoled!UpdateIsShown, Panel4!Amoled!StatusIsPage,
      Amoled!Pages, Amoled!Savers, Amoled!vars, Amoled!Settings, Amoled!Actions, Amoled!Layers,
      Amoled!Offers, Amoled!TypeOK, Amoled!LayerFor, Amoled!Failure, Amoled!OtaVisible,
      Amoled!ScreenIsCurrent, Amoled!AwakeWhenNeeded, Amoled!PreviewIsUndone,
      Amoled!UpdateIsShown, Amoled!StatusIsPage
  <1>3. Panel4!Amoled!Turn <=> Amoled("settings")!Turn
    BY Zenon DEF
      Panel4!Amoled!Reset, Panel4!Amoled!Enter, Panel4!Amoled!Exit,
      Panel4!Amoled!NoteRemoteToggle, Panel4!Amoled!NotePowerKey, Panel4!Amoled!NoteTouchDown,
      Panel4!Amoled!NoteShake, Panel4!Amoled!Update, Panel4!Amoled!Consumes,
      Panel4!Amoled!TouchAllowed, Panel4!Amoled!Elapsed, Panel4!Amoled!Aged,
      Panel4!Amoled!PageAfterSwipe, Panel4!Amoled!ApplySettings, Panel4!Amoled!LayerFor,
      Panel4!Amoled!Rendered, Panel4!Amoled!Confirms, Panel4!Amoled!Denies,
      Panel4!Amoled!TakeOta, Panel4!Amoled!Restored, Panel4!Amoled!TakeTouch,
      Panel4!Amoled!Blocked, Panel4!Amoled!Closed, Panel4!Amoled!UndoesPreview,
      Panel4!Amoled!Lower, Panel4!Amoled!Higher, Panel4!Amoled!Acted,
      Panel4!Amoled!Refusable, Panel4!Amoled!Chosen, Panel4!Amoled!TakenBack,
      Panel4!Amoled!Tries,
      Panel4!Amoled!TakeSettings, Panel4!Amoled!Requested, Panel4!Amoled!TakePage,
      Panel4!Amoled!OnLink, Panel4!Amoled!OnScreenPage, Panel4!Amoled!OnScreenToggle,
      Panel4!Amoled!ReceiveEvent, Panel4!Amoled!EventsDone, Panel4!Amoled!Sensors,
      Panel4!Amoled!Failure, Panel4!Amoled!NotesPhase, Panel4!Amoled!UpdateSaver,
      Panel4!Amoled!Key, Panel4!Amoled!OtaVisible, Panel4!Amoled!Renders, Panel4!Amoled!Render,
      Panel4!Amoled!Sleep, Panel4!Amoled!Tick, Panel4!Amoled!Turn,
      Amoled!Reset, Amoled!Enter, Amoled!Exit, Amoled!NoteRemoteToggle, Amoled!NotePowerKey,
      Amoled!NoteTouchDown, Amoled!NoteShake, Amoled!Update, Amoled!Consumes,
      Amoled!TouchAllowed, Amoled!Elapsed, Amoled!Aged, Amoled!PageAfterSwipe,
      Amoled!ApplySettings, Amoled!LayerFor, Amoled!Rendered, Amoled!Confirms, Amoled!Denies,
      Amoled!TakeOta, Amoled!Restored, Amoled!TakeTouch, Amoled!Blocked, Amoled!Closed,
      Amoled!UndoesPreview, Amoled!Lower, Amoled!Higher, Amoled!Acted, Amoled!Refusable,
      Amoled!Chosen, Amoled!TakenBack, Amoled!Tries, Amoled!TakeSettings,
      Amoled!Requested, Amoled!TakePage, Amoled!OnLink, Amoled!OnScreenPage,
      Amoled!OnScreenToggle, Amoled!ReceiveEvent, Amoled!EventsDone, Amoled!Sensors,
      Amoled!Failure, Amoled!NotesPhase, Amoled!UpdateSaver, Amoled!Key, Amoled!OtaVisible,
      Amoled!Renders, Amoled!Render, Amoled!Sleep, Amoled!Tick, Amoled!Turn
  <1>4. Panel4!Amoled!Press <=> Amoled("settings")!Press
    BY Zenon DEF
      Panel4!Amoled!Press,
      Amoled!Press
  <1>5. Panel4!Amoled!Release <=> Amoled("settings")!Release
    BY Zenon DEF
      Panel4!Amoled!Pages, Panel4!Amoled!PageAfterSwipe, Panel4!Amoled!Actions,
      Panel4!Amoled!AcceptsNavigation, Panel4!Amoled!TabEvent, Panel4!Amoled!GestureEvent,
      Panel4!Amoled!SettingsEvent, Panel4!Amoled!OtaConfirmEvent, Panel4!Amoled!OtaDenyEvent,
      Panel4!Amoled!ClickPage, Panel4!Amoled!ClickSettings, Panel4!Amoled!ClickOta,
      Panel4!Amoled!Release,
      Amoled!Pages, Amoled!PageAfterSwipe, Amoled!Actions, Amoled!AcceptsNavigation,
      Amoled!TabEvent, Amoled!GestureEvent, Amoled!SettingsEvent, Amoled!OtaConfirmEvent,
      Amoled!OtaDenyEvent, Amoled!ClickPage, Amoled!ClickSettings, Amoled!ClickOta,
      Amoled!Release
  <1>6. Panel4!Amoled!LongPressEvent <=> Amoled("settings")!LongPressEvent
    BY Zenon DEF
      Panel4!Amoled!AcceptsNavigation, Panel4!Amoled!LongPressEvent,
      Amoled!AcceptsNavigation, Amoled!LongPressEvent
  <1>7. Panel4!Amoled!Peer <=> Amoled("settings")!Peer
    BY Zenon DEF
      Panel4!Amoled!Send, Panel4!Amoled!Peer,
      Amoled!Send, Amoled!Peer
  <1>8. Panel4!Amoled!OtaOffer <=> Amoled("settings")!OtaOffer
    BY Zenon DEF
      Panel4!Amoled!OtaOffer,
      Amoled!OtaOffer
  <1>9. Panel4!Amoled!OtaFail <=> Amoled("settings")!OtaFail
    BY Zenon DEF
      Panel4!Amoled!OtaFail,
      Amoled!OtaFail
  <1>10. Panel4!Amoled!Next <=> Amoled("settings")!Next
    BY <1>3, <1>4, <1>5, <1>6, <1>7, <1>8, <1>9, Zenon DEF Panel4!Amoled!Next, Amoled!Next
  <1> QED BY <1>1, <1>2, <1>10, Zenon

LEMMA AmoledSettingsHolds ==
    PanelsSpec /\ On("settings") =>
        /\ [](On("settings") /\ AmoledSafe("settings"))
  <1>1. "settings" \in Amoleds
    BY DEF Amoleds
  <1>2. Panel4!Amoled!ConstantsOK
    BY <1>1, PanelsAssumption, AmoledSettingsSame
  <1>3. PanelsInit /\ On("settings") => Panel4!Amoled!Init
    BY <1>1, AmoledBegins, AmoledSettingsSame
  <1>4. On("settings") /\ [PanelsNext]_all => On("settings")' /\ [Panel4!Amoled!Next]_(Panel4!Amoled!vars)
    BY <1>1, AmoledContinues, AmoledSettingsSame, Zenon
  <1>5. PanelsSpec /\ On("settings") => []On("settings") /\ Panel4!Amoled!Spec
    BY <1>3, <1>4, PTL DEF PanelsSpec, Panel4!Amoled!Spec
  <1>6. Panel4!Amoled!Spec => []Panel4!Amoled!TypeOK
    BY <1>2, Panel4!TouchTypeOK
  <1>7. Panel4!Amoled!Spec => []Panel4!Amoled!StatusIsPage
    BY <1>2, Panel4!TouchStatusIsPage
  <1>8. Panel4!Amoled!Spec => []Panel4!Amoled!PreviewIsUndone
    BY <1>2, Panel4!TouchPreviewIsUndone
  <1>9. Panel4!Amoled!Spec => []Panel4!Amoled!UpdateIsShown
    BY <1>2, Panel4!TouchUpdateIsShown
  <1>10. Panel4!Amoled!Spec => []Panel4!Amoled!AwakeWhenNeeded
    BY <1>2, Panel4!TouchAwakeWhenNeeded
  <1>11. Panel4!Amoled!Spec => []Panel4!Amoled!ScreenIsCurrent
    BY <1>2, Panel4!TouchScreenIsCurrent
  <1>12. Panel4!Amoled!TypeOK /\ Panel4!Amoled!StatusIsPage /\ Panel4!Amoled!PreviewIsUndone /\
        Panel4!Amoled!UpdateIsShown /\ Panel4!Amoled!AwakeWhenNeeded /\
        Panel4!Amoled!ScreenIsCurrent
        => AmoledSafe("settings")
    BY AmoledSettingsSame DEF AmoledSafe
  <1> QED BY <1>5, <1>6, <1>7, <1>8, <1>9, <1>10, <1>11, <1>12, PTL DEF PanelsSpec

Panel5 ==
    INSTANCE PanelProofs WITH
        Inputs <- AmoledIn["updates"][1], LongPress <- AmoledIn["updates"][2],
        SecondTicks <- AmoledIn["updates"][3], FailureTicks <- AmoledIn["updates"][4],
        MaxOffers <- AmoledIn["updates"][5], WakeGuard <- AmoledIn["updates"][6],
        IdleCap <- AmoledIn["updates"][7], TouchGuard <- 1, Brightness <- 1..2,
        DefaultBrightness <- 2, QueueLength <- 1,
        pc <- r1, saver <- r2, loop <- r3, queue <- r4, ui <- r5, finger <- r6, ota <- r7,
        clock <- r8,
        Providers <- RlcdIn["pages"][1], Keys <- RlcdIn["pages"][2], Events <- RlcdIn["pages"][3],
        Settable <- RlcdIn["pages"][4], Interval <- 1, Banner <- 0,
        v <- r1, stored <- r2, tone <- r3, toned <- r4

LEMMA AmoledUpdatesSame ==
    /\ Panel5!Amoled!ConstantsOK <=> Amoled("updates")!ConstantsOK
    /\ Panel5!Amoled!Init <=> Amoled("updates")!Init
    /\ Panel5!Amoled!Next <=> Amoled("updates")!Next
    /\ Panel5!Amoled!TypeOK <=> Amoled("updates")!TypeOK
    /\ Panel5!Amoled!ScreenIsCurrent <=> Amoled("updates")!ScreenIsCurrent
    /\ Panel5!Amoled!StatusIsPage <=> Amoled("updates")!StatusIsPage
    /\ Panel5!Amoled!PreviewIsUndone <=> Amoled("updates")!PreviewIsUndone
    /\ Panel5!Amoled!UpdateIsShown <=> Amoled("updates")!UpdateIsShown
    /\ Panel5!Amoled!AwakeWhenNeeded <=> Amoled("updates")!AwakeWhenNeeded
    /\ UNCHANGED Panel5!Amoled!vars <=> UNCHANGED Amoled("updates")!vars
  <1>1. /\ Panel5!Amoled!ConstantsOK <=> Amoled("updates")!ConstantsOK
        /\ Panel5!Amoled!Init <=> Amoled("updates")!Init
    BY Zenon DEF
      Panel5!Amoled!Reset, Panel5!Amoled!ConstantsOK, Panel5!Amoled!Default, Panel5!Amoled!Init,
      Amoled!Reset, Amoled!ConstantsOK, Amoled!Default, Amoled!Init
  <1>2. /\ UNCHANGED Panel5!Amoled!vars <=> UNCHANGED Amoled("updates")!vars
        /\ Panel5!Amoled!TypeOK <=> Amoled("updates")!TypeOK
        /\ Panel5!Amoled!ScreenIsCurrent <=> Amoled("updates")!ScreenIsCurrent
        /\ Panel5!Amoled!StatusIsPage <=> Amoled("updates")!StatusIsPage
        /\ Panel5!Amoled!PreviewIsUndone <=> Amoled("updates")!PreviewIsUndone
        /\ Panel5!Amoled!UpdateIsShown <=> Amoled("updates")!UpdateIsShown
        /\ Panel5!Amoled!AwakeWhenNeeded <=> Amoled("updates")!AwakeWhenNeeded
    BY Zenon DEF
      Panel5!Amoled!Pages, Panel5!Amoled!Savers, Panel5!Amoled!vars, Panel5!Amoled!Settings,
      Panel5!Amoled!Actions, Panel5!Amoled!Layers, Panel5!Amoled!Offers, Panel5!Amoled!TypeOK,
      Panel5!Amoled!LayerFor, Panel5!Amoled!Failure, Panel5!Amoled!OtaVisible,
      Panel5!Amoled!ScreenIsCurrent, Panel5!Amoled!AwakeWhenNeeded,
      Panel5!Amoled!PreviewIsUndone, Panel5!Amoled!UpdateIsShown, Panel5!Amoled!StatusIsPage,
      Amoled!Pages, Amoled!Savers, Amoled!vars, Amoled!Settings, Amoled!Actions, Amoled!Layers,
      Amoled!Offers, Amoled!TypeOK, Amoled!LayerFor, Amoled!Failure, Amoled!OtaVisible,
      Amoled!ScreenIsCurrent, Amoled!AwakeWhenNeeded, Amoled!PreviewIsUndone,
      Amoled!UpdateIsShown, Amoled!StatusIsPage
  <1>3. Panel5!Amoled!Turn <=> Amoled("updates")!Turn
    BY Zenon DEF
      Panel5!Amoled!Reset, Panel5!Amoled!Enter, Panel5!Amoled!Exit,
      Panel5!Amoled!NoteRemoteToggle, Panel5!Amoled!NotePowerKey, Panel5!Amoled!NoteTouchDown,
      Panel5!Amoled!NoteShake, Panel5!Amoled!Update, Panel5!Amoled!Consumes,
      Panel5!Amoled!TouchAllowed, Panel5!Amoled!Elapsed, Panel5!Amoled!Aged,
      Panel5!Amoled!PageAfterSwipe, Panel5!Amoled!ApplySettings, Panel5!Amoled!LayerFor,
      Panel5!Amoled!Rendered, Panel5!Amoled!Confirms, Panel5!Amoled!Denies,
      Panel5!Amoled!TakeOta, Panel5!Amoled!Restored, Panel5!Amoled!TakeTouch,
      Panel5!Amoled!Blocked, Panel5!Amoled!Closed, Panel5!Amoled!UndoesPreview,
      Panel5!Amoled!Lower, Panel5!Amoled!Higher, Panel5!Amoled!Acted,
      Panel5!Amoled!Refusable, Panel5!Amoled!Chosen, Panel5!Amoled!TakenBack,
      Panel5!Amoled!Tries,
      Panel5!Amoled!TakeSettings, Panel5!Amoled!Requested, Panel5!Amoled!TakePage,
      Panel5!Amoled!OnLink, Panel5!Amoled!OnScreenPage, Panel5!Amoled!OnScreenToggle,
      Panel5!Amoled!ReceiveEvent, Panel5!Amoled!EventsDone, Panel5!Amoled!Sensors,
      Panel5!Amoled!Failure, Panel5!Amoled!NotesPhase, Panel5!Amoled!UpdateSaver,
      Panel5!Amoled!Key, Panel5!Amoled!OtaVisible, Panel5!Amoled!Renders, Panel5!Amoled!Render,
      Panel5!Amoled!Sleep, Panel5!Amoled!Tick, Panel5!Amoled!Turn,
      Amoled!Reset, Amoled!Enter, Amoled!Exit, Amoled!NoteRemoteToggle, Amoled!NotePowerKey,
      Amoled!NoteTouchDown, Amoled!NoteShake, Amoled!Update, Amoled!Consumes,
      Amoled!TouchAllowed, Amoled!Elapsed, Amoled!Aged, Amoled!PageAfterSwipe,
      Amoled!ApplySettings, Amoled!LayerFor, Amoled!Rendered, Amoled!Confirms, Amoled!Denies,
      Amoled!TakeOta, Amoled!Restored, Amoled!TakeTouch, Amoled!Blocked, Amoled!Closed,
      Amoled!UndoesPreview, Amoled!Lower, Amoled!Higher, Amoled!Acted, Amoled!Refusable,
      Amoled!Chosen, Amoled!TakenBack, Amoled!Tries, Amoled!TakeSettings,
      Amoled!Requested, Amoled!TakePage, Amoled!OnLink, Amoled!OnScreenPage,
      Amoled!OnScreenToggle, Amoled!ReceiveEvent, Amoled!EventsDone, Amoled!Sensors,
      Amoled!Failure, Amoled!NotesPhase, Amoled!UpdateSaver, Amoled!Key, Amoled!OtaVisible,
      Amoled!Renders, Amoled!Render, Amoled!Sleep, Amoled!Tick, Amoled!Turn
  <1>4. Panel5!Amoled!Press <=> Amoled("updates")!Press
    BY Zenon DEF
      Panel5!Amoled!Press,
      Amoled!Press
  <1>5. Panel5!Amoled!Release <=> Amoled("updates")!Release
    BY Zenon DEF
      Panel5!Amoled!Pages, Panel5!Amoled!PageAfterSwipe, Panel5!Amoled!Actions,
      Panel5!Amoled!AcceptsNavigation, Panel5!Amoled!TabEvent, Panel5!Amoled!GestureEvent,
      Panel5!Amoled!SettingsEvent, Panel5!Amoled!OtaConfirmEvent, Panel5!Amoled!OtaDenyEvent,
      Panel5!Amoled!ClickPage, Panel5!Amoled!ClickSettings, Panel5!Amoled!ClickOta,
      Panel5!Amoled!Release,
      Amoled!Pages, Amoled!PageAfterSwipe, Amoled!Actions, Amoled!AcceptsNavigation,
      Amoled!TabEvent, Amoled!GestureEvent, Amoled!SettingsEvent, Amoled!OtaConfirmEvent,
      Amoled!OtaDenyEvent, Amoled!ClickPage, Amoled!ClickSettings, Amoled!ClickOta,
      Amoled!Release
  <1>6. Panel5!Amoled!LongPressEvent <=> Amoled("updates")!LongPressEvent
    BY Zenon DEF
      Panel5!Amoled!AcceptsNavigation, Panel5!Amoled!LongPressEvent,
      Amoled!AcceptsNavigation, Amoled!LongPressEvent
  <1>7. Panel5!Amoled!Peer <=> Amoled("updates")!Peer
    BY Zenon DEF
      Panel5!Amoled!Send, Panel5!Amoled!Peer,
      Amoled!Send, Amoled!Peer
  <1>8. Panel5!Amoled!OtaOffer <=> Amoled("updates")!OtaOffer
    BY Zenon DEF
      Panel5!Amoled!OtaOffer,
      Amoled!OtaOffer
  <1>9. Panel5!Amoled!OtaFail <=> Amoled("updates")!OtaFail
    BY Zenon DEF
      Panel5!Amoled!OtaFail,
      Amoled!OtaFail
  <1>10. Panel5!Amoled!Next <=> Amoled("updates")!Next
    BY <1>3, <1>4, <1>5, <1>6, <1>7, <1>8, <1>9, Zenon DEF Panel5!Amoled!Next, Amoled!Next
  <1> QED BY <1>1, <1>2, <1>10, Zenon

LEMMA AmoledUpdatesHolds ==
    PanelsSpec /\ On("updates") =>
        /\ [](On("updates") /\ AmoledSafe("updates"))
  <1>1. "updates" \in Amoleds
    BY DEF Amoleds
  <1>2. Panel5!Amoled!ConstantsOK
    BY <1>1, PanelsAssumption, AmoledUpdatesSame
  <1>3. PanelsInit /\ On("updates") => Panel5!Amoled!Init
    BY <1>1, AmoledBegins, AmoledUpdatesSame
  <1>4. On("updates") /\ [PanelsNext]_all => On("updates")' /\ [Panel5!Amoled!Next]_(Panel5!Amoled!vars)
    BY <1>1, AmoledContinues, AmoledUpdatesSame, Zenon
  <1>5. PanelsSpec /\ On("updates") => []On("updates") /\ Panel5!Amoled!Spec
    BY <1>3, <1>4, PTL DEF PanelsSpec, Panel5!Amoled!Spec
  <1>6. Panel5!Amoled!Spec => []Panel5!Amoled!TypeOK
    BY <1>2, Panel5!TouchTypeOK
  <1>7. Panel5!Amoled!Spec => []Panel5!Amoled!StatusIsPage
    BY <1>2, Panel5!TouchStatusIsPage
  <1>8. Panel5!Amoled!Spec => []Panel5!Amoled!PreviewIsUndone
    BY <1>2, Panel5!TouchPreviewIsUndone
  <1>9. Panel5!Amoled!Spec => []Panel5!Amoled!UpdateIsShown
    BY <1>2, Panel5!TouchUpdateIsShown
  <1>10. Panel5!Amoled!Spec => []Panel5!Amoled!AwakeWhenNeeded
    BY <1>2, Panel5!TouchAwakeWhenNeeded
  <1>11. Panel5!Amoled!Spec => []Panel5!Amoled!ScreenIsCurrent
    BY <1>2, Panel5!TouchScreenIsCurrent
  <1>12. Panel5!Amoled!TypeOK /\ Panel5!Amoled!StatusIsPage /\ Panel5!Amoled!PreviewIsUndone /\
        Panel5!Amoled!UpdateIsShown /\ Panel5!Amoled!AwakeWhenNeeded /\
        Panel5!Amoled!ScreenIsCurrent
        => AmoledSafe("updates")
    BY AmoledUpdatesSame DEF AmoledSafe
  <1> QED BY <1>5, <1>6, <1>7, <1>8, <1>9, <1>10, <1>11, <1>12, PTL DEF PanelsSpec

LEMMA AmoledHolds == PanelsSpec => []AmoledsSafe
  <1> DEFINE Other == \A p \in Amoleds : ~On(p)
  <1>1. Other /\ [PanelsNext]_all => Other'
    BY PanelsStay DEF On
  <1>2. On("screens") => (AmoledSafe("screens") => AmoledsSafe)
    BY DEF On, AmoledsSafe
  <1>3. On("pairings") => (AmoledSafe("pairings") => AmoledsSafe)
    BY DEF On, AmoledsSafe
  <1>4. On("tabs") => (AmoledSafe("tabs") => AmoledsSafe)
    BY DEF On, AmoledsSafe
  <1>5. On("settings") => (AmoledSafe("settings") => AmoledsSafe)
    BY DEF On, AmoledsSafe
  <1>6. On("updates") => (AmoledSafe("updates") => AmoledsSafe)
    BY DEF On, AmoledsSafe
  <1>7. Other => AmoledsSafe
    BY DEF AmoledsSafe
  <1>8. Other \/ On("screens") \/ On("pairings") \/ On("tabs") \/ On("settings") \/ On("updates")
    BY DEF Amoleds
  <1> HIDE DEF Other
  <1> QED
    BY <1>1, <1>2, <1>3, <1>4, <1>5, <1>6, <1>7, <1>8,
      AmoledScreensHolds, AmoledPairingsHolds, AmoledTabsHolds, AmoledSettingsHolds,
      AmoledUpdatesHolds, PTL DEF PanelsSpec
=============================================================================
