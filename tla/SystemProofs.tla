---------------------------- MODULE SystemProofs ---------------------------
(***************************************************************************)
(* What the runs of MCPanels and MCBoards check of every board at once, for*)
(* any situations the boards are put in that satisfy the assumptions of    *)
(* their programs.                                                         *)
(***************************************************************************)
EXTENDS PanelRunProofs, PicoRunProofs

\* Every panel's timers, focus and page indices, queue lengths and failure
\* windows stay in their ranges, in any situation (app_main.cpp of the boards).
THEOREM PanelsTypes == PanelsSpec => []TypesOK
  BY AmoledHolds, AmoledParts, RlcdHolds, RlcdParts, EpaperHolds, EpaperParts,
     PicoHolds, PicoParts, PTL DEF TypesOK

\* Although each loop draws only on demand (its redraw flags and queued frames),
\* what is in front on the AMOLED and on electronic paper is what the state of
\* the loop calls for, on the AMOLED but for a settings page whose closing the
\* panel refused and the overlay of a failed update; the page the Bridge is told
\* is the AMOLED's, and the RLCD's is one its orientation has.
THEOREM PanelsScreens == PanelsSpec => []ScreensAreCurrent
  BY AmoledHolds, AmoledParts, RlcdHolds, RlcdParts, EpaperHolds, EpaperParts,
     PicoHolds, PicoParts, PTL DEF ScreensAreCurrent

\* Whatever closes the settings page, the AMOLED's loop runs on the stored
\* settings (app_main.cpp:291), and so does its panel, unless it refused the
\* brightness: then page and preview both stay on it.  The RLCD runs on them, or
\* says that they are not saved (save_and_close(), retry of the footer).
THEOREM PanelsSettings == PanelsSpec => []SettingsAreStored
  BY AmoledHolds, AmoledParts, RlcdHolds, RlcdParts, PTL DEF SettingsAreStored

\* The Read Pico's driver knows what is on the paper whichever refreshes
\* failed, and what it shows is clean (the limit of soft refreshes, the
\* cleaning of a bar that gets shorter).
THEOREM PanelsPaper == PanelsSpec => []PaperIsClean
  BY PicoHolds, PicoParts, PTL DEF PaperIsClean

\* The RLCD's tone is not repeated while its provider stays hot: not by a
\* reconnection, a dismissal or another provider's alert (AlertManager).
THEOREM PanelsTone == PanelsSpec => OneTonePerRaise
  BY RlcdHolds, RlcdParts, PTL DEF OneTonePerRaise

\* A passkey or an update's prompt is what a panel shows: the AMOLED is awake
\* for it, with the version it would start, and no diagnostic frame of an
\* electronic paper hides it.
THEOREM PanelsPrompts == PanelsSpec => PromptsAreSeen
  BY AmoledHolds, AmoledParts, EpaperHolds, EpaperParts, PicoHolds, PicoParts, PTL
     DEF PromptsAreSeen

\* A board with an electronic paper restarts into an update only once its last
\* frame is on the paper, or at the ePaper 3.97's deadline.
THEOREM PanelsFinalFrame == PanelsSpec => FinalFrameIsSeen
  BY EpaperHolds, EpaperParts, PicoHolds, PicoParts, PTL DEF FinalFrameIsSeen

\* The history on the card outlives failed writes, power cuts and exchanged
\* cards; what is shown is stored, and read from the mounted card, which one
\* task at a time sees to (the trend store and the card's mounting).
THEOREM BoardsHistory == BoardsSpec => HistorySurvives
  BY TrendHolds, TrendParts, CardHolds, CardParts, PTL DEF HistorySurvives
=============================================================================
