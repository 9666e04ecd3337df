------------------------------- MODULE MCParts -------------------------------
(***************************************************************************)
(* Rotation on two boards, and the Bridge's session, for TLC.              *)
(***************************************************************************)
EXTENDS MCRegisters

(***************************************************************************)
(* AMOLED 2.16, the rotation: accelerations, samples, failing calls.       *)
(***************************************************************************)
TurnIn ==
    [steady |-> <<{0, 60, 100}, 2, 0, 3>>, upright |-> <<{0, 100}, 1, 1, 0>>]
Turns == DOMAIN TurnIn
Turn(p) ==
    INSTANCE AmoledRotation WITH
        Accels <- TurnIn[p][1], Samples <- TurnIn[p][2], Faults <- TurnIn[p][3],
        Recall <- TurnIn[p][4],
        pc <- r1, probed <- r2, hand <- r3, tracker <- r4, desired <- r5, applied <- r6,
        rotation <- r7, image <- r8, touch <- r9, faults <- r10, recent <- r11
TurnInit == \E p \in Turns : program = p /\ Turn(p)!Init /\ Clear12
TurnNext ==
    \/ \E p \in Turns : Runs(p, Turn(p)!Turn /\ UNCHANGED From12)
    \/ \E p \in Turns : Runs(p, Turn(p)!Probe /\ UNCHANGED From12)
    \/ \E p \in Turns : Runs(p, Turn(p)!StartDisplay /\ UNCHANGED From12)
    \/ \E p \in Turns : Runs(p, Turn(p)!Poll /\ UNCHANGED From12)
    \/ \E p \in Turns : Runs(p, Turn(p)!Rotate /\ UNCHANGED From12)

(***************************************************************************)
(* Mosaico, the rotation: the offsets of panel and touch controller, the   *)
(* rotations the board is held in, failing calls.                          *)
(***************************************************************************)
MosaicoIn ==
    [offset |-> <<{"swap", "x"}, {"y"}, {0, 1, 3}, 1>>, ends |-> <<{}, {}, {0, 1}, 1>>]
Mosaicos == DOMAIN MosaicoIn
Mosaico(p) ==
    INSTANCE MosaicoRotation WITH
        PanelBase <- MosaicoIn[p][1], TouchBase <- MosaicoIn[p][2], Turns <- MosaicoIn[p][3],
        Faults <- MosaicoIn[p][4], desired <- r1, applied <- r2, app <- r3, ok <- r4,
        config <- r5, panel <- r6, touch <- r7, worker <- r8, pause <- r9, lock <- r10,
        preview <- r11, invalid <- r12, layout <- r13, edge <- r14, waited <- r15, faults <- r16
MosaicoInit == \E p \in Mosaicos : program = p /\ Mosaico(p)!Init /\ Clear17
MosaicoNext ==
    \/ \E p \in Mosaicos : Runs(p, Mosaico(p)!Tilt /\ UNCHANGED From17)
    \/ \E p \in Mosaicos : Runs(p, Mosaico(p)!Startup /\ UNCHANGED From17)
    \/ \E p \in Mosaicos : Runs(p, Mosaico(p)!Loop /\ UNCHANGED From17)
    \/ \E p \in Mosaicos : Runs(p, Mosaico(p)!Worker /\ UNCHANGED From17)
    \/ \E p \in Mosaicos : Runs(p, Mosaico(p)!TeEdge /\ UNCHANGED From17)
    \/ \E p \in Mosaicos : Runs(p, Mosaico(p)!PreviewWaits /\ UNCHANGED From17)
    \/ \E p \in Mosaicos : Runs(p, Mosaico(p)!PreviewLocks /\ UNCHANGED From17)
    \/ \E p \in Mosaicos : Runs(p, Mosaico(p)!PreviewDone /\ UNCHANGED From17)

(***************************************************************************)
(* The Bridge's session with two snapshots to deliver, and a user who      *)
(* clicks, repairs and forgets.  Without an update no more than four       *)
(* transports are referred to.                                             *)
(***************************************************************************)
Session ==
    INSTANCE DeviceSession WITH
        Runner <- "runner", Clock <- "clock", Screen <- "screen", Install <- "install",
        Repair <- "repair", Connections <- 1 .. 4, FaultsBounded <- FALSE, MaxFaults <- 0,
        MaxRequests <- 0, MaxOffers <- 2, Wishes <- {"screen", "repair", "forget"},
        transport <- r1, mclosing <- r2, retry <- r3, cleanupError <- r4, client
        <- r5, call <- r6, kept <- r7, doomed <- r8, interrupted <- r9, faults <-
        r10, job <- r11, lockq <- r12, closing <- r13, linked <- r14, exclusive <-
        r15, wake <- r16, offered <- r17, delivered <- r18, revision <- r19,
        sameStatus <- r20, fate <- r21, owner <- r22, requests <- r23, shown <-
        r24
SessionInit == program = "session" /\ Session!Init
SessionNext == Runs("session", Session!System) \/ Runs("session", Session!Users)

(***************************************************************************)
(* The usage a panel shows: windows that end soon or never, or are missing *)
(* now and then; both providers.                                           *)
(***************************************************************************)
Usage(p, st, sh, wk, age) == [provider |-> p, state |-> st, short |-> sh, week |-> wk, sampled |-> age]
UsageIn ==
    [windows |-> <<{Usage("codex", "ok", <<10, 102>>, <<20, 103>>, 0), Usage("codex", "partial", << >>, <<21, 0>>, 1),
                    Usage("codex", "unavailable", << >>, << >>, 0), Usage("codex", "ok", <<10, 103>>, << >>, 0)},
                   {"overview", "codex"}, 3>>,
     both    |-> <<{Usage("codex", "ok", <<10, 102>>, <<20, 0>>, 0), Usage("claude", "ok", <<10, 103>>, <<20, 0>>, 0),
                    Usage("claude", "ok", <<101, 103>>, <<20, 0>>, 0), Usage("codex", "unavailable", << >>, << >>, 2)},
                   {"overview"}, 3>>]
Usages == DOMAIN UsageIn
Panel(p) ==
    INSTANCE UsageView WITH
        Commands <- UsageIn[p][1], Pages <- UsageIn[p][2], MaxTime <- UsageIn[p][3], MaxSkew <- 1, Minute <- 2,
        MaxDelay <- 1, now <- r1,
        flight <- r2, model <- r3, linked <- r4, page <- r5, saver <- r6, dirty <- r7, key <- r8,
        shown <- r9, turned <- r10, published <- r11
UsageInit == \E p \in Usages : program = p /\ Panel(p)!Init /\ Clear12
UsageNext ==
    \/ \E p \in Usages : Runs(p, Panel(p)!Send /\ UNCHANGED From12)
    \/ \E p \in Usages : Runs(p, Panel(p)!Receive /\ UNCHANGED From12)
    \/ \E p \in Usages : Runs(p, Panel(p)!Link /\ UNCHANGED From12)
    \/ \E p \in Usages : Runs(p, Panel(p)!Turns /\ UNCHANGED From12)
    \/ \E p \in Usages : Runs(p, Panel(p)!Loop /\ UNCHANGED From12)
    \/ \E p \in Usages : Runs(p, Panel(p)!Tick /\ UNCHANGED From12)

(***************************************************************************)
(* The way of commands to the main loop: lines of every length, one after  *)
(* a line too long or without JSON; commands of every kind, some wrong, to *)
(* a queue that is soon full.                                              *)
(***************************************************************************)
Text(k, d, n, cr) == [kind |-> k, defect |-> d, size |-> n, cr |-> cr]
PathIn ==
    [framing |-> <<{Text("usage", "none", n, cr) : n \in 1..4, cr \in BOOLEAN} \cup {Text("usage", "json", 1, FALSE)},
                   2, 8, {}, 3, 3>>,
     routing |-> <<{Text("usage", d, 1, FALSE) : d \in {"none", "type"}} \cup {Text("time_sync", d, 1, FALSE) : d \in {"none", "field"}}
                   \cup {Text(k, "none", 1, FALSE) : k \in {"screen_toggle", "status"}}
                   \cup {Text("screen_page", d, 1, FALSE) : d \in {"none", "seq"}},
                   1, 1, {"time_sync", "screen_page"}, 3, 4>>]
Paths == DOMAIN PathIn
Path(p) ==
    INSTANCE CommandPath WITH
        Lines <- PathIn[p][1], LineMax <- PathIn[p][2], Depth <- PathIn[p][3], Enabled <- PathIn[p][4],
        MaxSends <- PathIn[p][5], MaxChanges <- PathIn[p][6], sent <- r1, pos <- r2, buf <- r3,
        dropping <- r4, acks <- r5, queue <- r6, handled <- r7, link <- r8, shown <- r9, busy <- r10,
        changes <- r11, torn <- r12, missed <- r13
PathInit == \E p \in Paths : program = p /\ Path(p)!Init /\ Clear14
PathNext ==
    \/ \E p \in Paths : Runs(p, Path(p)!Send /\ UNCHANGED From14)
    \/ \E p \in Paths : Runs(p, Path(p)!Feed /\ UNCHANGED From14)
    \/ \E p \in Paths : Runs(p, Path(p)!LinkChanges /\ UNCHANGED From14)
    \/ \E p \in Paths : Runs(p, Path(p)!UpdateChanges /\ UNCHANGED From14)
    \/ \E p \in Paths : Runs(p, Path(p)!Receive /\ UNCHANGED From14)

ASSUME PartsAssumption == \A p \in Paths : Path(p)!ConstantsOK

PartsInit == TurnInit \/ MosaicoInit \/ SessionInit \/ UsageInit \/ PathInit
PartsNext == TurnNext \/ MosaicoNext \/ SessionNext \/ UsageNext \/ PathNext
PartsSpec == PartsInit /\ [][PartsNext]_all

(***************************************************************************)
(* Properties.                                                             *)
(***************************************************************************)

\* Every program's variables stay in their ranges.
PartTypesOK ==
    /\ \A p \in Turns : On(p) => Turn(p)!TypeOK
    /\ \A p \in Mosaicos : On(p) => Mosaico(p)!TypeOK
    /\ \A p \in Usages : On(p) => Panel(p)!TypeOK
    /\ \A p \in Paths : On(p) => Path(p)!TypeOK

\* Between turns a touch lands where the picture shows it, in the panel's and
\* the touch controller's own coordinates, and no pixel is laid out for the
\* last rotation.  The picture turns only for a board held still, and never
\* under a transfer.
TransformsAgree ==
    /\ [](\A p \in Turns : On(p) => Turn(p)!TransformsAgree)
    /\ [](\A p \in Mosaicos :
            On(p) => /\ Mosaico(p)!TouchFollowsImage /\ Mosaico(p)!OldPixelsAreReplaced
                     /\ Mosaico(p)!EdgeIsFresh)
    /\ [][/\ On("steady") => Turn("steady")!TurnsOnlyWhenSteady
          /\ \A p \in Mosaicos : On(p) => Mosaico(p)!NoFlushMidTurn]_all

\* What is recorded as delivered is on the panel, for both providers, however
\* offers, reconnections and lost acknowledgements fall (_publish(), run()).
\* What the panel got is what it shows, at the Bridge's time, until it is old
\* (make_timed_render_key(), UsageModel::apply()).  A command that arrives whole
\* is answered, and one that is accepted is handled, over the link it came by.
DeliveredIsShown ==
    /\ On("session") => Session!DeliveredIsShown
    /\ \A p \in Usages :
          On(p) => Panel(p)!ShownIsTimely /\ Panel(p)!MissingIsNotShown /\ Panel(p)!ClockIsTheBridges
    /\ \A p \in Paths :
          On(p) => Path(p)!WholeLinesAreAnswered /\ Path(p)!AcceptedIsHandled /\ Path(p)!LinkIsShown
=============================================================================
