---------------------------- MODULE EpaperRefresh ----------------------------
(***************************************************************************)
(* How the ePaper 3.97 board refreshes its panel: DisplayUi::submit and    *)
(* the worker task `transfer' (display_ui.cpp), and the controller's RAM   *)
(* as the driver uses it (vendor/epaper_port.c).                           *)
(*                                                                         *)
(* A frame has two regions: the window that partial refreshes may cover    *)
(* and the rest.  A region is black (0), gray (2) or white (3), which is   *)
(* what the refresh modes tell apart.  A partial refresh drives the pixels *)
(* in which the new image and the RAM differ.  The monochrome demos, which *)
(* only add logging to a monochrome frame, are left out.                   *)
(***************************************************************************)
EXTENDS Integers, FiniteSets

CONSTANTS Modes,         \* the modes that are submitted
          Orientations,
          Budget,        \* kPartialsPerBaseline
          Crashes        \* restarts

ConstantsOK ==
    /\ Modes \subseteq {"mono", "clock", "g", "gray"} /\ 0 \in Orientations
    /\ Budget \in Nat /\ Crashes \in Nat

Regions == {"window", "rest"}
Images  == [Regions -> {0, 2, 3}]
Planes  == [Regions -> {0, 3}]
Blank   == [r \in Regions |-> 3]

Mono(i) == [r \in Regions |-> IF i[r] >= 2 THEN 3 ELSE 0]

\* Monochrome frames are quantised, clock frames within their windows.
Frames(mode) ==
    CASE mode = "mono"  -> Planes
      [] mode = "clock" -> {i \in Images : i["window"] # 2 /\ i["rest"] # 3}
      [] mode = "g"     -> {i \in Images : i["window"] # 2 /\ i["rest"] = 2}
      [] mode = "gray"  -> {i \in Images : i["window"] = 2 /\ i["rest"] # 3}

VARIABLES pending,     \* the frame that was submitted last
          scene,       \* rendered_scene_
          full,        \* pending_full
          fresh,       \* it has not been captured (submitted # sequence)
          pc,          \* the submitting task
          notified,    \* the worker's notification
          job,         \* what the worker has captured, or NoJob
          last,        \* what the worker remembers of the last frame
          partials,    \* partial_count
          setup,       \* how the controller is set up
          ram, glass,  \* its RAM, and the panel
          ghosts,      \* partial refreshes since the glass was driven in full
          owed,        \* a full refresh that was "asked" for or "taken", or "no"
          crashes

app    == <<pending, scene, full, fresh, pc>>
worker == <<job, last, partials>>
panel  == <<setup, ram, glass, ghosts, owed>>
vars   == <<app, notified, worker, panel, crashes>>

NoFrame == [img |-> Blank, mode |-> "none", orientation |-> 0]
NoJob   == [img |-> Blank, mode |-> "none", orientation |-> 0, full |-> FALSE]
NoLast  == [mode |-> "none", orientation |-> 0, mono |-> Blank, gray |-> Blank]

Any == Modes \cup {"none"}

TypeOK ==
    /\ pending \in [img : Images, mode : Any, orientation : Orientations]
    /\ scene \in Any /\ pc \in {"run", "notify"}
    /\ full \in BOOLEAN /\ fresh \in BOOLEAN /\ notified \in BOOLEAN
    /\ job \in [img : Images, mode : Any, orientation : Orientations,
                full : BOOLEAN]
    /\ last \in [mode : Any, orientation : Orientations,
                 mono : Images, gray : Images]
    /\ partials \in Nat
    /\ setup \in {"mono", "gray", "asleep"}
    /\ ram \in Planes /\ glass \in Images /\ ghosts \in Nat
    /\ owed \in {"no", "asked", "taken"} /\ crashes \in 0..Crashes

Init ==
    /\ pending = NoFrame /\ scene = "none" /\ full = FALSE /\ fresh = FALSE
    /\ pc = "run" /\ notified = FALSE
    /\ job = NoJob /\ last = NoLast /\ partials = 0
    /\ setup = "asleep" /\ ram \in Planes /\ glass = Blank /\ ghosts = 0 /\ owed = "no"
    /\ crashes = 0

Idle == ~fresh /\ job = NoJob     \* DisplayUi::idle()

(***************************************************************************)
(* The application submits: render(), whose scenes ask for a full refresh  *)
(* when they change; the gray demo, which waits for an idle panel; and the *)
(* probe, a gray frame that is no scene.                                   *)
(***************************************************************************)

\* Mistake: the flag of the frame that is replaced is replaced too.
Overwrites(asks) == asks

Sticky(asks) == full \/ asks

Submit(img, mode, o, asks) ==
    /\ pc = "run"
    /\ pending' = [img |-> img, mode |-> mode, orientation |-> o]
    /\ full' = Sticky(asks)
    /\ fresh' = TRUE
    /\ pc' = "notify"
    /\ owed' = IF asks THEN "asked" ELSE owed
    /\ UNCHANGED <<notified, worker, setup, ram, glass, ghosts, crashes>>

Render ==
    \E mode \in Modes \ {"g"}, o \in Orientations, baseline \in BOOLEAN :
        \E img \in Frames(mode) :
            /\ Submit(img, mode, o, baseline \/ mode # scene)
            /\ scene' = mode

Demo ==
    \E mode \in Modes \cap {"g", "gray"} : \E img \in Frames(mode) :
        /\ mode = "g" => Idle
        /\ \E asks \in BOOLEAN :
              /\ mode = "g" /\ pending.mode # "g" => asks
              /\ mode = "gray" => ~asks
              /\ Submit(img, mode, 0, asks)
        /\ UNCHANGED scene

Notify ==
    /\ pc = "notify"
    /\ pc' = "run"
    /\ notified' = TRUE
    /\ UNCHANGED <<pending, scene, full, fresh, worker, panel, crashes>>

(***************************************************************************)
(* The driver.                                                             *)
(***************************************************************************)

EPD_Init       == setup' = "mono"
EPD_Init_4GRAY == setup' = "gray"

\* EPD_Display_Partial: the RAM differences are driven, then both planes are
\* brought up to the displayed region.
Partial(img, regions) ==
    /\ setup = "mono" => glass' = [r \in Regions |->
           IF r \in regions /\ img[r] # ram[r] THEN img[r] ELSE glass[r]]
    /\ glass' \in Images
    /\ ram' = [r \in Regions |-> IF r \in regions THEN img[r] ELSE ram[r]]
    /\ UNCHANGED <<setup, owed>>

\* The glass is driven in full.
DrivenInFull ==
    /\ ghosts' = 0
    /\ owed' = IF owed = "taken" THEN "no" ELSE owed

FullMono(img) ==
    /\ EPD_Init
    /\ glass' = img /\ ram' = img
    /\ DrivenInFull

\* EPD_Init_4GRAY and EPD_Display_4Gray; what follows sets the RAM and
\* leaves the controller set up, or asleep.
Grayscale(img) ==
    /\ glass' = img
    /\ DrivenInFull

\* Mistake: the gray refresh's planes are taken for a baseline.
LeavesPlanes(img) == EPD_Init_4GRAY /\ ram' \in Planes

PrepareMonoRam(img) == EPD_Init /\ ram' = Mono(img)

\* Deep sleep does not keep the RAM.
Sleep == setup' = "asleep" /\ ram' \in Planes

(***************************************************************************)
(* The worker.                                                             *)
(***************************************************************************)

\* The notification is taken before the frame: one that comes later wakes
\* the worker again, for a frame it may already have.
Capture ==
    /\ job = NoJob /\ notified
    /\ notified' = FALSE
    /\ IF fresh
       THEN /\ job' = [img |-> pending.img, mode |-> pending.mode,
                       orientation |-> pending.orientation, full |-> full]
            /\ full' = FALSE /\ fresh' = FALSE
            /\ owed' = IF owed = "asked" THEN "taken" ELSE owed
       ELSE UNCHANGED <<job, full, fresh, owed>>
    /\ UNCHANGED <<pending, scene, pc, last, partials, setup, ram, glass,
                   ghosts, crashes>>

Turned == job.full \/ job.orientation # last.orientation

\* Mistake: each window alone fits the budget.
OneByOne(n) == partials > Budget

Exceeds(n) == partials + n > Budget

Changed(old) == {r \in Regions : job.img[r] # old[r]}

DriveClock ==
    LET changed == Changed(last.gray)
        baseline == \/ last.mode # "clock" \/ Turned
                    \/ "rest" \in changed
                    \/ \E r \in changed : 2 \in {job.img[r], last.gray[r]}
                    \/ Exceeds(Cardinality(changed))
    IN  /\ IF baseline
           THEN Grayscale(job.img) /\ PrepareMonoRam(job.img) /\ partials' = 0
           ELSE /\ Partial(job.img, changed)
                /\ partials' = partials + Cardinality(changed)
                /\ ghosts' = ghosts + Cardinality(changed)
        /\ last' = [last EXCEPT !.mode = "clock", !.gray = job.img,
                                !.orientation = job.orientation]

DriveMono ==
    LET changed == Changed(last.mono)
        baseline == last.mode # "mono" \/ Turned \/ Exceeds(1)
    IN  /\ CASE baseline -> FullMono(job.img) /\ partials' = 0
             [] ~baseline /\ changed # {} ->
                  /\ Partial(job.img, changed)
                  /\ partials' = partials + 1
                  /\ ghosts' = ghosts + 1
             [] OTHER -> UNCHANGED <<partials, panel>>
        /\ last' = [last EXCEPT !.mode = "mono", !.mono = job.img,
                                !.orientation = job.orientation]

\* Partial refreshes that the worker does not count; the model counts them no
\* further than past the budget.
Further(n) == IF n <= Budget THEN n + 1 ELSE n

DriveDemo ==
    /\ IF job.full \/ last.mode # "g"
       THEN Grayscale(job.img) /\ PrepareMonoRam(job.img)
       ELSE Partial(job.img, {"window"}) /\ ghosts' = Further(ghosts)
    /\ last' = [last EXCEPT !.mode = "g", !.orientation = job.orientation]
    /\ UNCHANGED partials

\* Mistake: the worker still takes the last frame for a baseline.
KeepsMode(m) == last.mode

ModeAfter(m) == m

DriveGray ==
    /\ Grayscale(job.img) /\ Sleep
    /\ last' = [last EXCEPT !.mode = ModeAfter("gray"),
                            !.orientation = job.orientation]
    /\ UNCHANGED partials

\* Mistake: what was notified while the panel refreshed is taken as done.
ClearsLate == FALSE

StillNotified == notified

Drive ==
    /\ CASE job.mode = "clock" -> DriveClock
         [] job.mode = "mono"  -> DriveMono
         [] job.mode = "g"     -> DriveDemo
         [] job.mode = "gray"  -> DriveGray
         [] OTHER              -> FALSE
    /\ job' = NoJob
    /\ notified' = StillNotified
    /\ UNCHANGED <<app, crashes>>

\* A panel that stays busy for 15 s aborts the program, in any step of a
\* refresh; the panel keeps what it shows.
Crash ==
    /\ crashes < Crashes
    /\ crashes' = crashes + 1
    /\ pending' = NoFrame /\ scene' = "none" /\ full' = FALSE
    /\ fresh' = FALSE /\ pc' = "run" /\ notified' = FALSE
    /\ job' = NoJob /\ last' = NoLast /\ partials' = 0 /\ owed' = "no"
    /\ setup' = "asleep"
    /\ ram' \in Planes
    /\ glass' \in IF job = NoJob THEN {glass} ELSE Images
    /\ UNCHANGED ghosts

Next == Render \/ Demo \/ Notify \/ Capture \/ Drive \/ Crash

Spec == Init /\ [][Next]_vars

(***************************************************************************)
(* Properties                                                              *)
(***************************************************************************)

\* Once every frame has been refreshed the glass shows the last of them,
\* whatever mix of full and partial refreshes led to it, although a partial
\* refresh only moves the pixels the controller's RAM says it must.
GlassIsFrame == Idle /\ pending.mode # "none" => glass = pending.img

\* The panel is not refreshed in part more often than the budget before the
\* glass is driven in full, also when a restart forgets their number.  The gray
\* demonstration, which does not count, may exceed the budget, but leaves no
\* ghost under a frame of another mode.
GhostsBounded == ghosts <= Budget \/ ("g" \in Modes /\ last.mode \in {"g", "none"})

\* "A pending full-refresh request is kept when a later frame replaces the
\* queued image": at rest, no full refresh is owed.
FullIsNotLost == Idle => owed = "no"

=============================================================================
