------------------------------ MODULE MCPanels ------------------------------
(***************************************************************************)
(* The panel programs of the boards for TLC.  A board runs one program,    *)
(* whose variables are the registers r1 to r8; each program is put in the  *)
(* situations that its properties are about.                               *)
(***************************************************************************)
EXTENDS MCRegisters

\* The situations of the programs, in the order in which each instance below
\* takes its constants; the values TLC gives them stand above the instance.
CONSTANTS AmoledIn, RlcdIn, EpaperIn, PicoIn

(***************************************************************************)
(* AMOLED 2.16: inputs, ticks of the long press, a second and a failure's  *)
(* overlay, offers, ticks of the wake guard and of the idle time.          *)
(***************************************************************************)
MCAmoledIn ==
    [screens  |-> <<{"touch", "page", "passkey", "power"}, 1, 1, 1, 1, 1, 1>>,
     pairings |-> <<{"touch", "hold", "passkey", "refuse"}, 1, 1, 1, 1, 0, 0>>,
     tabs     |-> <<{"touch", "tabs", "toggle", "shake"}, 1, 1, 1, 1, 1, 1>>,
     settings |-> <<{"touch", "hold", "toggle", "refuse"}, 1, 1, 1, 1, 0, 1>>,
     updates  |-> <<{"touch", "ota"}, 1, 1, 2, 2, 1, 1>>]
Amoleds == {"screens", "pairings", "tabs", "settings", "updates"}
Amoled(which) ==
    INSTANCE TouchPanel WITH
        Inputs <- AmoledIn[which][1], LongPress <- AmoledIn[which][2], SecondTicks <- AmoledIn[which][3],
        FailureTicks <- AmoledIn[which][4], MaxOffers <- AmoledIn[which][5],
        WakeGuard <- AmoledIn[which][6], IdleCap <- AmoledIn[which][7], TouchGuard <- 1,
        Brightness <- 1..2, DefaultBrightness <- 2, QueueLength <- 1,
        pc <- r1, saver <- r2, loop <- r3, queue <- r4, ui <- r5, finger <- r6, ota <- r7,
        clock <- r8
AmoledInit == \E p \in Amoleds : program = p /\ Amoled(p)!Init /\ Clear9
AmoledNext ==
    \/ \E p \in Amoleds : Runs(p, Amoled(p)!Turn /\ UNCHANGED From9)
    \/ \E p \in Amoleds : Runs(p, Amoled(p)!Press /\ UNCHANGED From9)
    \/ \E p \in Amoleds : Runs(p, Amoled(p)!Release /\ UNCHANGED From9)
    \/ \E p \in Amoleds : Runs(p, Amoled(p)!LongPressEvent /\ UNCHANGED From9)
    \/ \E p \in Amoleds : Runs(p, Amoled(p)!Peer /\ UNCHANGED From9)
    \/ \E p \in Amoleds : Runs(p, Amoled(p)!OtaOffer /\ UNCHANGED From9)
    \/ \E p \in Amoleds : Runs(p, Amoled(p)!OtaFail /\ UNCHANGED From9)

(***************************************************************************)
(* RLCD: providers, keys, events, settings that vary.                      *)
(***************************************************************************)
MCRlcdIn ==
    [pages  |-> <<{"codex"}, {"key", "hold", "boot"}, {"toggle", "page", "link"},
                  {"cycle", "rotation"}>>,
     alerts |-> <<{"codex", "claude"}, {"key"}, {"usage", "link"}, {"cycle"}>>,
     modes  |-> <<{"codex"}, {"hold", "boot"}, {"usage", "update"}, {"alert"}>>]
Rlcds == {"pages", "alerts", "modes"}
Rlcd(which) ==
    INSTANCE RlcdPanel WITH
        Providers <- RlcdIn[which][1], Keys <- RlcdIn[which][2], Events <- RlcdIn[which][3],
        Settable <- RlcdIn[which][4], Interval <- 1, Banner <- 0,
        v <- r1, stored <- r2, tone <- r3, toned <- r4
RlcdInit == \E p \in Rlcds : program = p /\ Rlcd(p)!Init /\ Clear5
RlcdNext ==
    \/ \E p \in Rlcds : Runs(p, Rlcd(p)!Loop /\ UNCHANGED From5)
    \/ \E p \in Rlcds : Runs(p, Rlcd(p)!Update /\ UNCHANGED From5)
    \/ \E p \in Rlcds : Runs(p, Rlcd(p)!Tick /\ UNCHANGED From5)

(***************************************************************************)
(* ePaper 3.97: events, keys, commands, tilts, percentages, failures,      *)
(* ticks of the restarting frame, and whether updates are given up.        *)
(***************************************************************************)
MCEpaperIn ==
    [dial    |-> <<{"toggle", "page"}, {1, 5}, {}, {}, {50}, 0, 1, FALSE>>,
     turns   |-> <<{"passkey", "page"}, {}, {}, {"land", "port"}, {79, 99}, 0, 2, TRUE>>,
     flashes |-> <<{}, {2, 5}, {}, {}, {50}, 1, 2, FALSE>>,
     prompts |-> <<{"passkey", "paired"}, {3}, {"partial", "live", "frame"}, {}, {50}, 0, 2, FALSE>>]
Epapers == {"dial", "turns", "flashes", "prompts"}
Epaper(which) ==
    INSTANCE EpaperApp WITH
        Events <- EpaperIn[which][1], Keys <- EpaperIn[which][2], Commands <- EpaperIn[which][3],
        Tilts <- EpaperIn[which][4], Used <- EpaperIn[which][5], Failures <- EpaperIn[which][6],
        Final <- EpaperIn[which][7], Aborts <- EpaperIn[which][8], Banner <- 1, Idle <- 2,
        ota <- r1, view <- r2, frame <- r3, settled <- r4, boots <- r5
EpaperInit == \E p \in Epapers : program = p /\ Epaper(p)!Init /\ Clear6
EpaperNext ==
    \/ \E p \in Epapers : Runs(p, Epaper(p)!OtaMoves /\ UNCHANGED From6)
    \/ \E p \in Epapers : Runs(p, Epaper(p)!Iteration /\ UNCHANGED From6)
    \/ \E p \in Epapers : Runs(p, Epaper(p)!Restart /\ UNCHANGED From6)
    \/ \E p \in Epapers : Runs(p, Epaper(p)!Refresh /\ UNCHANGED From6)

(***************************************************************************)
(* Read Pico: events, keys, what taps choose, commands, percentages, ends  *)
(* of a refresh, the limit of soft refreshes, failures.                    *)
(***************************************************************************)
MCPicoIn ==
    [taps  |-> <<{"toggle", "passkey", "paired", "update"}, {"side"}, {"idle"}, {}, {50}, {"ok"}, 2, 1>>,
     bars  |-> <<{"toggle"}, {}, {}, {}, {40, 60, 255}, {"ok", "norails", "starved"}, 3, 0>>,
     tilts |-> <<{"tilt", "link", "lost", "passkey", "paired"}, {}, {"rotation", "idle"}, {"2"}, {50, 99}, {"ok"}, 2, 0>>,
     demos |-> <<{"passkey", "update"}, {"middle"}, {}, {"r", "6"}, {50}, {"ok", "failed"}, 2, 0>>]
Picos == {"taps", "bars", "tilts", "demos"}
Pico(which) ==
    INSTANCE PicoPanel WITH
        Events <- PicoIn[which][1], Keys <- PicoIn[which][2], Options <- PicoIn[which][3],
        Commands <- PicoIn[which][4], Used <- PicoIn[which][5], Outcomes <- PicoIn[which][6],
        Soft <- PicoIn[which][7], Failures <- PicoIn[which][8],
        ota <- r1, view <- r2, ui <- r3, glass <- r4, boots <- r5
PicoInit == \E p \in Picos : program = p /\ Pico(p)!Init /\ Clear6
PicoNext ==
    \/ \E p \in Picos : Runs(p, Pico(p)!OtaMoves /\ UNCHANGED From6)
    \/ \E p \in Picos : Runs(p, Pico(p)!Iteration /\ UNCHANGED From6)
    \/ \E p \in Picos : Runs(p, Pico(p)!Restart /\ UNCHANGED From6)

\* The instances are among those the theorems speak of.  With a probe of the
\* console ("frame") at most one update fails and none is given up: an update
\* that takes the place of another between two snapshots has that one's phase,
\* and draws nothing over the probe (waveshare_epaper_397/main/app_main.cpp:120).
ASSUME PanelsAssumption ==
    /\ \A p \in Amoleds : Amoled(p)!ConstantsOK
    /\ \A p \in Rlcds : Rlcd(p)!ConstantsOK
    /\ \A p \in Epapers :
          Epaper(p)!ConstantsOK /\ ("frame" \in EpaperIn[p][3] => EpaperIn[p][6] <= 1 /\ ~EpaperIn[p][8])
    /\ \A p \in Picos : Pico(p)!ConstantsOK

PanelsInit == AmoledInit \/ RlcdInit \/ EpaperInit \/ PicoInit
PanelsNext == AmoledNext \/ RlcdNext \/ EpaperNext \/ PicoNext
PanelsSpec == PanelsInit /\ [][PanelsNext]_all

(***************************************************************************)
(* Properties.                                                             *)
(***************************************************************************)
OnAmoled(p) == program = p /\ p \in Amoleds
OnRlcd(p)   == program = p /\ p \in Rlcds
OnEpaper(p) == program = p /\ p \in Epapers
OnPico(p)   == program = p /\ p \in Picos

\* Every program's variables stay in their ranges: timers, focus and page
\* indices, queue lengths and failure windows.
TypesOK ==
    /\ \A p \in Amoleds : OnAmoled(p) => Amoled(p)!TypeOK
    /\ \A p \in Rlcds : OnRlcd(p) => Rlcd(p)!TypeOK
    /\ \A p \in Epapers : OnEpaper(p) => Epaper(p)!TypeOK
    /\ \A p \in Picos : OnPico(p) => Pico(p)!TypeOK

\* What is on a panel is what the state of its loop calls for, although each
\* draws only on demand; the page reported to the Bridge is the one the AMOLED
\* is on, and the RLCD's is one that its orientation has, wherever the keys, the
\* cycle or the Bridge return to after a rotation.  The AMOLED's exceptions are
\* stated with its property: the failure of an update stays in front after its
\* window has ended (app_main.cpp:514), a settings page that the panel refused
\* to leave until a later call succeeds.
ScreensAreCurrent ==
    /\ \A p \in Amoleds :
           OnAmoled(p) => Amoled(p)!StatusIsPage /\ Amoled(p)!ScreenIsCurrent
    /\ \A p \in Epapers : OnEpaper(p) => Epaper(p)!SceneIsDrawn
    /\ \A p \in Picos : OnPico(p) => Pico(p)!SceneIsDrawn
    /\ \A p \in Rlcds : OnRlcd(p) => Rlcd(p)!PageInRing

\* Whatever closes the settings page (a save that may fail, a cancellation, a
\* prompt, a remote command), the board runs on the stored settings, or says
\* that they are not saved; the AMOLED's panel has the settings of its loop, or
\* refused the stored brightness and keeps both page and preview.
SettingsAreStored ==
    /\ \A p \in Amoleds : OnAmoled(p) => Amoled(p)!PreviewIsUndone
    /\ \A p \in Rlcds : OnRlcd(p) => Rlcd(p)!UnsavedIsFlagged

\* The RLCD's tone is not repeated while its provider stays hot.
OneTonePerRaise == [][\A p \in Rlcds : OnRlcd(p) => Rlcd(p)!OneTonePerRaise]_all

\* A passkey or an update's prompt is what the panel shows: the AMOLED is awake
\* for it, and the version it asks to confirm is the one it would start; no
\* diagnostic frame of the ePaper board hides it.
PromptsAreSeen ==
    /\ [](\A p \in Amoleds :
            OnAmoled(p) => Amoled(p)!UpdateIsShown /\ Amoled(p)!AwakeWhenNeeded)
    /\ [][\A p \in Epapers : OnEpaper(p) => Epaper(p)!PromptsAreSeen]_all
    /\ [][\A p \in Picos : OnPico(p) => Pico(p)!PromptsAreSeen]_all

\* A restart waits for its last frame, or on the ePaper 3.97 for its deadline.
FinalFrameIsSeen ==
    /\ [][\A p \in Epapers : OnEpaper(p) => Epaper(p)!FinalFrameIsSeen]_all
    /\ [][\A p \in Picos : OnPico(p) => Pico(p)!FinalFrameIsSeen]_all

\* The Read Pico's driver knows what is on the paper, whichever refreshes failed,
\* and what it shows is clean: few soft refreshes since the last thorough one,
\* and no longer bar behind a bar, if the loop can know of it (app_main.cpp:169).
PaperIsClean ==
    \A p \in Picos : OnPico(p) =>
        Pico(p)!GlassIsFrame /\ Pico(p)!GhostsBounded /\ Pico(p)!BarsAreClean
=============================================================================
