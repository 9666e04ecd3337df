----------------------------- MODULE EpaperProofs -----------------------------
(***************************************************************************)
(* The ePaper 3.97: its refreshes (EpaperRefresh), and in the second part  *)
(* the loop that asks for them (EpaperApp).                                *)
(*                                                                         *)
(* The glass shows the last frame once its refreshes end, for any modes,   *)
(* orientations, budget and restarts.                                      *)
(*                                                                         *)
(* A partial refresh moves only the pixels in which the new image and the  *)
(* controller's RAM differ.  It is right because of what the worker's      *)
(* memory of the last frame says of the RAM and of the glass (Remembered), *)
(* which every refresh, full or partial, has to restore.                   *)
(***************************************************************************)
EXTENDS EpaperRefresh, FiniteSetTheorems, TLAPS

\* A frame that waits, or that the worker has, is a frame of its mode, and
\* the worker has the last one unless another waits.
Captured ==
    /\ fresh => pending.mode \in Modes /\ pending.img \in Frames(pending.mode)
    /\ job # NoJob => job.mode \in Modes /\ job.img \in Frames(job.mode)
    /\ job # NoJob /\ ~fresh => job.img = pending.img

\* What the last frame left in the RAM and on the glass, mode by mode.
RememberedMono ==
    last.mode = "mono" => setup = "mono" /\ ram = last.mono /\ glass = last.mono

RememberedClock ==
    last.mode = "clock" => setup = "mono" /\ ram = Mono(last.gray) /\ glass = last.gray

RememberedDemo ==
    last.mode = "g" => setup = "mono" /\ ram["window"] = glass["window"] /\ glass["rest"] = 2

Remembered == RememberedMono /\ RememberedClock /\ RememberedDemo

\* The partial refreshes are counted from the last full one.
Counted == last.mode \in {"mono", "clock"} => ghosts <= partials

\* A full refresh that was asked for is still flagged, or in the job.
Flagged ==
    /\ owed = "asked" => full /\ fresh
    /\ owed = "taken" => job.full

RefreshInv ==
    /\ TypeOK
    /\ Captured
    /\ Remembered
    /\ GhostsBounded /\ Counted
    /\ Flagged
    /\ GlassIsFrame

-----------------------------------------------------------------------------
\* What a refresh of the worker's job brings about.
Refreshed ==
    /\ last' \in [mode : Any, orientation : Orientations, mono : Images, gray : Images]
    /\ partials' \in Nat /\ ghosts' \in Nat
    /\ setup' \in {"mono", "gray", "asleep"} /\ ram' \in Planes
    /\ glass' = job.img
    /\ Remembered'
    /\ GhostsBounded' /\ Counted'
    /\ owed' = IF owed = "taken" THEN "no" ELSE owed

\* A frame is an image of its mode.
LEMMA FramesAreImages ==
  ASSUME NEW mode \in {"mono", "clock", "g", "gray"}, NEW img \in Frames(mode)
  PROVE  img \in Images
  BY DEF Frames, Planes, Images

\* The two gray levels of an image, as the monochrome RAM holds them.
LEMMA MonoIsPlanes ==
  ASSUME NEW img \in Images
  PROVE  /\ Mono(img) \in Planes
         /\ \A r \in Regions : img[r] # 2 => Mono(img)[r] = img[r]
  BY DEF Images, Planes, Mono

\* The changed regions are counted.
LEMMA ChangedAreCounted ==
  ASSUME NEW old PROVE Changed(old) \subseteq Regions /\ Cardinality(Changed(old)) \in Nat
  <1>1. IsFiniteSet(Regions)
    <2>1. IsFiniteSet({} \cup {"window"})
      BY FS_EmptySet, FS_AddElement
    <2>2. IsFiniteSet(({} \cup {"window"}) \cup {"rest"})
      BY <2>1, FS_AddElement
    <2>3. Regions = ({} \cup {"window"}) \cup {"rest"}
      BY DEF Regions
    <2> QED BY <2>2, <2>3
  <1>2. Changed(old) \subseteq Regions
    BY DEF Changed
  <1>3. IsFiniteSet(Changed(old))
    BY <1>1, <1>2, FS_Subset
  <1> QED BY <1>2, <1>3, FS_CardinalityType

\* The clock: its full refresh leaves no ghost; its partial one draws what is
\* remembered of the last.
LEMMA ClockIsRefreshed ==
  ASSUME ConstantsOK, RefreshInv, job.mode = "clock", job.img \in Images, DriveClock
  PROVE  Refreshed
  <1> DEFINE changed == Changed(last.gray)
             n == Cardinality(changed)
  <1>1. changed \subseteq Regions /\ n \in Nat
    BY ChangedAreCounted
  <1>2. last' = [last EXCEPT !.mode = "clock", !.gray = job.img, !.orientation = job.orientation]
    BY DEF DriveClock
  <1>3. last' \in [mode : Any, orientation : Orientations, mono : Images, gray : Images]
        /\ last'.mode = "clock" /\ last'.gray = job.img
    BY <1>2 DEF RefreshInv, TypeOK, ConstantsOK, Any, Captured, NoJob
  <1>4. CASE Grayscale(job.img) /\ PrepareMonoRam(job.img) /\ partials' = 0
    <2>1. glass' = job.img /\ ghosts' = 0 /\ owed' = (IF owed = "taken" THEN "no" ELSE owed)
          /\ setup' = "mono" /\ ram' = Mono(job.img)
      BY <1>4 DEF Grayscale, DrivenInFull, PrepareMonoRam, EPD_Init
    <2> QED BY <1>3, <1>4, <2>1, MonoIsPlanes
            DEF Refreshed, Remembered, RememberedMono, RememberedClock, RememberedDemo,
                GhostsBounded, Counted, ConstantsOK
  <1>5. CASE /\ last.mode = "clock" /\ ~Turned /\ "rest" \notin changed
             /\ \A r \in changed : 2 \notin {job.img[r], last.gray[r]}
             /\ ~Exceeds(n)
             /\ Partial(job.img, changed)
             /\ partials' = partials + n /\ ghosts' = ghosts + n
    <2>1. glass = last.gray /\ ram = Mono(last.gray) /\ setup = "mono" /\ last.gray \in Images
      BY <1>5 DEF RefreshInv, TypeOK, Remembered, RememberedClock
    <2>2. glass' = [r \in Regions |-> IF r \in changed /\ job.img[r] # ram[r] THEN job.img[r] ELSE glass[r]]
          /\ ram' = [r \in Regions |-> IF r \in changed THEN job.img[r] ELSE ram[r]]
          /\ setup' = "mono" /\ owed' = owed
      BY <1>5, <2>1 DEF Partial
    <2>3. ASSUME NEW r \in Regions
          PROVE  glass'[r] = job.img[r] /\ ram'[r] = Mono(job.img)[r]
      <3>1. CASE r \in changed
        <4>1. job.img[r] # 2 /\ last.gray[r] # 2 /\ job.img[r] # last.gray[r]
          BY <3>1, <1>5 DEF Changed
        <4>2. ram[r] = last.gray[r] /\ Mono(job.img)[r] = job.img[r]
          BY <2>1, <4>1, MonoIsPlanes
        <4> QED BY <2>2, <3>1, <4>1, <4>2
      <3>2. CASE r \notin changed
        <4>1. job.img[r] = last.gray[r]
          BY <3>2 DEF Changed
        <4>2. Mono(job.img)[r] = Mono(last.gray)[r]
          BY <4>1 DEF Mono
        <4> QED BY <2>1, <2>2, <3>2, <4>1, <4>2
      <3> QED BY <3>1, <3>2
    <2>4. glass' = job.img /\ ram' = Mono(job.img)
      BY <2>2, <2>3 DEF Images, Mono
    <2>5. owed # "taken"
      BY <1>5 DEF Turned, RefreshInv, Flagged
    <2>6. ghosts' \in Nat /\ partials' \in Nat /\ ghosts' <= Budget /\ ghosts' <= partials'
      BY <1>1, <1>5 DEF RefreshInv, TypeOK, Counted, Exceeds, ConstantsOK
    <2> QED BY <1>3, <2>2, <2>4, <2>5, <2>6, MonoIsPlanes
            DEF Refreshed, Remembered, RememberedMono, RememberedClock, RememberedDemo,
                GhostsBounded, Counted
  <1> QED BY <1>4, <1>5 DEF DriveClock

\* The view without gray: a partial refresh draws the window alone, over a frame
\* that is known to be on the glass.
LEMMA MonoIsRefreshed ==
  ASSUME ConstantsOK, RefreshInv, job.mode = "mono", job.img \in Planes, DriveMono
  PROVE  Refreshed
  <1> DEFINE changed == Changed(last.mono)
             baseline == last.mode # "mono" \/ Turned \/ Exceeds(1)
  <1>1. job.img \in Images
    BY DEF Planes, Images
  <1>2. last' = [last EXCEPT !.mode = "mono", !.mono = job.img, !.orientation = job.orientation]
    BY DEF DriveMono
  <1>3. last' \in [mode : Any, orientation : Orientations, mono : Images, gray : Images]
        /\ last'.mode = "mono" /\ last'.mono = job.img
    BY <1>1, <1>2 DEF RefreshInv, TypeOK, ConstantsOK, Any, Captured, NoJob
  <1>4. CASE baseline /\ FullMono(job.img) /\ partials' = 0
    <2>1. glass' = job.img /\ ghosts' = 0 /\ owed' = (IF owed = "taken" THEN "no" ELSE owed)
          /\ setup' = "mono" /\ ram' = job.img
      BY <1>4 DEF FullMono, DrivenInFull, EPD_Init
    <2> QED BY <1>3, <1>4, <2>1
            DEF Refreshed, Remembered, RememberedMono, RememberedClock, RememberedDemo,
                GhostsBounded, Counted, ConstantsOK
  <1>5. ASSUME ~baseline
        PROVE  /\ setup = "mono" /\ ram = last.mono /\ glass = last.mono
               /\ owed # "taken" /\ partials + 1 <= Budget /\ ghosts <= partials
    BY <1>5 DEF RefreshInv, TypeOK, Remembered, RememberedMono, Counted, Flagged, Turned, Exceeds, ConstantsOK
  <1>6. CASE ~baseline /\ Partial(job.img, changed) /\ partials' = partials + 1 /\ ghosts' = ghosts + 1
    <2>1. glass' = [r \in Regions |-> IF r \in changed /\ job.img[r] # ram[r] THEN job.img[r] ELSE glass[r]]
          /\ ram' = [r \in Regions |-> IF r \in changed THEN job.img[r] ELSE ram[r]]
          /\ setup' = "mono" /\ owed' = owed
      BY <1>5, <1>6 DEF Partial
    <2>2. \A r \in Regions : glass'[r] = job.img[r] /\ ram'[r] = job.img[r]
      BY <1>5, <1>6, <2>1 DEF Changed
    <2>3. glass' = job.img /\ ram' = job.img
      BY <1>1, <2>1, <2>2 DEF Images
    <2>4. ghosts' \in Nat /\ partials' \in Nat /\ ghosts' <= Budget /\ ghosts' <= partials'
      BY <1>5, <1>6 DEF RefreshInv, TypeOK, ConstantsOK
    <2> QED BY <1>3, <1>5, <1>6, <2>1, <2>3, <2>4
            DEF Refreshed, Remembered, RememberedMono, RememberedClock, RememberedDemo,
                GhostsBounded, Counted
  <1>7. CASE ~baseline /\ changed = {} /\ UNCHANGED <<partials, panel>>
    <2>1. \A r \in Regions : job.img[r] = last.mono[r]
      BY <1>7 DEF Changed
    <2>2. job.img = last.mono
      BY <1>1, <2>1 DEF RefreshInv, TypeOK, Images
    <2> QED BY <1>3, <1>5, <1>7, <2>2
            DEF panel, RefreshInv, TypeOK, Refreshed, Remembered, RememberedMono, RememberedClock,
                RememberedDemo, GhostsBounded, Counted
  <1> QED BY <1>4, <1>6, <1>7 DEF DriveMono

\* The demonstration mode, which shares the planes of the view without gray.
LEMMA DemoIsRefreshed ==
  ASSUME ConstantsOK, RefreshInv, job.mode = "g", job.img \in Frames("g"), DriveDemo
  PROVE  Refreshed
  <1>1. job.img \in Images /\ job.img["window"] # 2 /\ job.img["rest"] = 2
    BY DEF Frames
  <1>2. last' \in [mode : Any, orientation : Orientations, mono : Images, gray : Images]
        /\ last'.mode = "g" /\ partials' = partials /\ "g" \in Modes
    BY DEF DriveDemo, RefreshInv, TypeOK, ConstantsOK, Any, Captured, NoJob
  <1>3. CASE Grayscale(job.img) /\ PrepareMonoRam(job.img)
    <2>1. glass' = job.img /\ ghosts' = 0 /\ owed' = (IF owed = "taken" THEN "no" ELSE owed)
          /\ setup' = "mono" /\ ram' = Mono(job.img)
      BY <1>3 DEF Grayscale, DrivenInFull, PrepareMonoRam, EPD_Init
    <2>2. ram' \in Planes /\ ram'["window"] = glass'["window"]
      BY <1>1, <2>1, MonoIsPlanes DEF Regions
    <2> QED BY <1>1, <1>2, <2>1, <2>2
            DEF Refreshed, Remembered, RememberedMono, RememberedClock, RememberedDemo,
                GhostsBounded, Counted, ConstantsOK, RefreshInv, TypeOK
  <1>4. CASE ~job.full /\ last.mode = "g" /\ Partial(job.img, {"window"}) /\ ghosts' = Further(ghosts)
    <2>1. setup = "mono" /\ ram["window"] = glass["window"] /\ glass["rest"] = 2 /\ owed # "taken"
      BY <1>4 DEF RefreshInv, Remembered, RememberedDemo, Flagged
    <2>2. glass' = [r \in Regions |-> IF r \in {"window"} /\ job.img[r] # ram[r] THEN job.img[r] ELSE glass[r]]
          /\ ram' = [r \in Regions |-> IF r \in {"window"} THEN job.img[r] ELSE ram[r]]
          /\ setup' = "mono" /\ owed' = owed
      BY <1>4, <2>1 DEF Partial
    <2>3. glass'["window"] = job.img["window"] /\ glass'["rest"] = job.img["rest"] /\ ram'["window"] = job.img["window"]
      BY <1>1, <2>1, <2>2 DEF Regions
    <2>4. glass' = job.img
      BY <1>1, <2>2, <2>3 DEF Images, Regions
    <2>5. ram' \in Planes
      BY <1>1, <2>2 DEF RefreshInv, TypeOK, Planes, Images
    <2>6. ghosts' \in Nat
      BY <1>4 DEF Further, RefreshInv, TypeOK
    <2> QED BY <1>1, <1>2, <1>4, <2>1, <2>2, <2>3, <2>4, <2>5, <2>6
            DEF Refreshed, Remembered, RememberedMono, RememberedClock, RememberedDemo,
                GhostsBounded, Counted, RefreshInv, TypeOK
  <1> QED BY <1>3, <1>4 DEF DriveDemo

\* Gray is always drawn in full, and what was remembered is forgotten.
LEMMA GrayIsRefreshed ==
  ASSUME ConstantsOK, RefreshInv, job.mode = "gray", job.img \in Images, DriveGray
  PROVE  Refreshed
  <1>1. last' \in [mode : Any, orientation : Orientations, mono : Images, gray : Images]
        /\ last'.mode = "gray" /\ partials' = partials
    BY DEF DriveGray, ModeAfter, RefreshInv, TypeOK, ConstantsOK, Any, Captured, NoJob
  <1>2. glass' = job.img /\ ghosts' = 0 /\ owed' = (IF owed = "taken" THEN "no" ELSE owed)
        /\ setup' = "asleep" /\ ram' \in Planes
    BY DEF DriveGray, Grayscale, DrivenInFull, Sleep
  <1> QED BY <1>1, <1>2
      DEF Refreshed, Remembered, RememberedMono, RememberedClock, RememberedDemo,
          GhostsBounded, Counted, ConstantsOK, RefreshInv, TypeOK

\* Whatever the mode, a refresh leaves the job's frame on the glass.
LEMMA DriveRefreshes ==
  ASSUME ConstantsOK, RefreshInv, Drive
  PROVE  Refreshed
  <1>1. job.mode \in Modes /\ job.img \in Frames(job.mode)
    BY DEF Drive, RefreshInv, Captured, NoJob
  <1>2. job.img \in Images
    BY <1>1, FramesAreImages DEF ConstantsOK
  <1>3. CASE job.mode = "clock" /\ DriveClock
    BY <1>2, <1>3, ClockIsRefreshed
  <1>4. CASE job.mode = "mono" /\ DriveMono
    BY <1>1, <1>4, MonoIsRefreshed DEF Frames
  <1>5. CASE job.mode = "g" /\ DriveDemo
    BY <1>1, <1>5, DemoIsRefreshed
  <1>6. CASE job.mode = "gray" /\ DriveGray
    BY <1>2, <1>6, GrayIsRefreshed
  <1> QED BY <1>1, <1>3, <1>4, <1>5, <1>6 DEF Drive, ConstantsOK

\* The first state satisfies the invariant.
LEMMA RefreshStarts == ASSUME ConstantsOK, Init PROVE RefreshInv
  <1>1. Blank \in Images /\ Blank \in Planes
    BY DEF Blank, Images, Planes
  <1>2. TypeOK
    <2>1. NoFrame \in [img : Images, mode : Any, orientation : Orientations]
      BY <1>1 DEF NoFrame, Any, ConstantsOK
    <2>2. NoJob \in [img : Images, mode : Any, orientation : Orientations, full : BOOLEAN]
      BY <1>1 DEF NoJob, Any, ConstantsOK
    <2>3. NoLast \in [mode : Any, orientation : Orientations, mono : Images, gray : Images]
      BY <1>1 DEF NoLast, Any, ConstantsOK
    <2>4. scene \in Any /\ crashes \in 0 .. Crashes /\ partials \in Nat /\ ghosts \in Nat
      BY DEF Init, Any, ConstantsOK
    <2>5. pending = NoFrame /\ job = NoJob /\ last = NoLast /\ glass = Blank /\ ram \in Planes
          /\ full = FALSE /\ fresh = FALSE /\ notified = FALSE /\ pc = "run" /\ setup = "asleep"
          /\ owed = "no"
      BY DEF Init
    <2> QED BY <1>1, <2>1, <2>2, <2>3, <2>4, <2>5 DEF TypeOK
  <1> QED BY <1>2 DEF Init, RefreshInv, Captured, Remembered, RememberedMono, RememberedClock,
                      RememberedDemo, GhostsBounded, Counted, Flagged, GlassIsFrame, NoFrame,
                      NoJob, NoLast, ConstantsOK

\* A frame that is submitted waits, with the flag of a full refresh.
LEMMA SubmitKeeps ==
  ASSUME ConstantsOK, RefreshInv,
         NEW mode \in Modes, NEW img \in Frames(mode), NEW o \in Orientations, NEW asks \in BOOLEAN,
         Submit(img, mode, o, asks), scene' \in Any
  PROVE  RefreshInv'
  <1>1. img \in Images
    BY FramesAreImages DEF ConstantsOK
  <1>2. TypeOK'
    BY <1>1 DEF Submit, Sticky, RefreshInv, TypeOK, worker, Any
  <1>3. Captured'
    BY DEF Submit, RefreshInv, Captured, worker, NoJob
  <1>4. Remembered' /\ GhostsBounded' /\ Counted'
    BY DEF Submit, RefreshInv, Remembered, RememberedMono, RememberedClock, RememberedDemo,
           GhostsBounded, Counted, worker
  <1>5. Flagged'
    BY DEF Submit, Sticky, RefreshInv, Flagged, worker
  <1>6. GlassIsFrame'
    BY DEF Submit, GlassIsFrame, Idle
  <1> QED BY <1>2, <1>3, <1>4, <1>5, <1>6 DEF RefreshInv

\* Every step keeps the invariant.
LEMMA RefreshKeeps ==
  ASSUME ConstantsOK, RefreshInv, [Next]_vars
  PROVE  RefreshInv'
  <1>1. CASE Render
    <2>1. PICK mode \in Modes \ {"g"}, o \in Orientations, baseline \in BOOLEAN :
            \E img \in Frames(mode) :
              Submit(img, mode, o, baseline \/ mode # scene) /\ scene' = mode
      BY <1>1 DEF Render
    <2>2. PICK img \in Frames(mode) :
            Submit(img, mode, o, baseline \/ mode # scene) /\ scene' = mode
      BY <2>1
    <2>3. (baseline \/ mode # scene) \in BOOLEAN
      OBVIOUS
    <2> QED BY <2>2, <2>3, SubmitKeeps DEF Any
  <1>2. CASE Demo
    <2>1. PICK mode \in Modes \cap {"g", "gray"} : \E img \in Frames(mode) :
            /\ \E asks \in BOOLEAN : Submit(img, mode, 0, asks)
            /\ UNCHANGED scene
      BY <1>2 DEF Demo
    <2>2. PICK img \in Frames(mode), asks \in BOOLEAN : Submit(img, mode, 0, asks) /\ UNCHANGED scene
      BY <2>1
    <2>3. scene' \in Any /\ 0 \in Orientations
      BY <2>2 DEF RefreshInv, TypeOK, ConstantsOK
    <2> QED BY <2>2, <2>3, SubmitKeeps
  <1>3. CASE Notify
    BY <1>3 DEF Notify, RefreshInv, TypeOK, Captured, Remembered, RememberedMono, RememberedClock,
                RememberedDemo, GhostsBounded, Counted, Flagged, GlassIsFrame, Idle, worker, panel
  <1>4. CASE Capture
    <2>1. TypeOK'
      <3>1. CASE fresh
        <4>1. job' \in [img : Images, mode : Any, orientation : Orientations, full : BOOLEAN]
          BY <1>4, <3>1 DEF Capture, RefreshInv, TypeOK
        <4>2. full' = FALSE /\ fresh' = FALSE /\ notified' = FALSE /\ owed' \in {"no", "asked", "taken"}
          BY <1>4, <3>1 DEF Capture, RefreshInv, TypeOK
        <4> QED BY <1>4, <4>1, <4>2 DEF Capture, RefreshInv, TypeOK
      <3>2. CASE ~fresh
        BY <1>4, <3>2 DEF Capture, RefreshInv, TypeOK
      <3> QED BY <3>1, <3>2
    <2>2. Captured'
      BY <1>4 DEF Capture, RefreshInv, TypeOK, Captured
    <2>3. Remembered' /\ GhostsBounded' /\ Counted'
      BY <1>4 DEF Capture, RefreshInv, Remembered, RememberedMono, RememberedClock, RememberedDemo,
                  GhostsBounded, Counted
    <2>4. Flagged'
      <3>1. owed # "taken"
        BY <1>4 DEF Capture, RefreshInv, Flagged, NoJob
      <3>2. CASE fresh
        <4>1. job'.full = full /\ owed' = (IF owed = "asked" THEN "taken" ELSE owed)
          BY <1>4, <3>2 DEF Capture
        <4> QED BY <3>1, <4>1 DEF RefreshInv, Flagged
      <3>3. CASE ~fresh
        BY <1>4, <3>3 DEF Capture, RefreshInv, Flagged
      <3> QED BY <3>2, <3>3
    <2>5. GlassIsFrame'
      BY <1>4 DEF Capture, RefreshInv, TypeOK, Captured, GlassIsFrame, Idle, NoJob, ConstantsOK
    <2> QED BY <2>1, <2>2, <2>3, <2>4, <2>5 DEF RefreshInv
  <1>5. CASE Drive
    <2>1. Refreshed
      BY <1>5, DriveRefreshes
    <2>2. job' = NoJob /\ notified' = notified /\ UNCHANGED <<app, crashes>>
      BY <1>5 DEF Drive, StillNotified
    <2>3. job # NoJob
      BY <1>5 DEF Drive, NoJob
    <2>4. TypeOK'
      <3>1. NoJob \in [img : Images, mode : Any, orientation : Orientations, full : BOOLEAN]
        BY DEF NoJob, Blank, Images, Any, ConstantsOK
      <3>2. glass' \in Images
        BY <2>1 DEF Refreshed, RefreshInv, TypeOK
      <3> QED BY <2>1, <2>2, <3>1, <3>2 DEF Refreshed, RefreshInv, TypeOK, app
    <2>5. Captured'
      BY <2>2 DEF RefreshInv, Captured, app
    <2>6. Flagged'
      BY <2>1, <2>2 DEF Refreshed, RefreshInv, TypeOK, Flagged, app
    <2>7. GlassIsFrame'
      BY <2>1, <2>2, <2>3 DEF Refreshed, RefreshInv, Captured, GlassIsFrame, Idle, app
    <2> QED BY <2>1, <2>4, <2>5, <2>6, <2>7 DEF Refreshed, RefreshInv
  <1>6. CASE Crash
    <2>1. Blank \in Images
      BY DEF Blank, Images
    <2>2. TypeOK'
      <3>1. glass' \in Images /\ crashes' \in 0 .. Crashes
        BY <1>6 DEF Crash, RefreshInv, TypeOK, ConstantsOK
      <3> QED BY <1>6, <2>1, <3>1 DEF Crash, RefreshInv, TypeOK, NoFrame, NoJob, NoLast, Any, ConstantsOK
    <2>3. Captured' /\ Remembered' /\ GhostsBounded' /\ Counted' /\ Flagged' /\ GlassIsFrame'
      BY <1>6 DEF Crash, RefreshInv, Captured, Remembered, RememberedMono, RememberedClock,
                  RememberedDemo, GhostsBounded, Counted, Flagged, GlassIsFrame, NoFrame, NoJob, NoLast
    <2> QED BY <2>2, <2>3 DEF RefreshInv
  <1>7. CASE UNCHANGED vars
    BY <1>7 DEF vars, app, worker, panel, RefreshInv, TypeOK, Captured, Remembered, RememberedMono,
                RememberedClock, RememberedDemo, GhostsBounded, Counted, Flagged, GlassIsFrame, Idle
  <1> QED BY <1>1, <1>2, <1>3, <1>4, <1>5, <1>6, <1>7 DEF Next

\* The refreshes of the panel keep the invariant.
THEOREM RefreshInvariant == ASSUME ConstantsOK PROVE Spec => []RefreshInv
  <1>1. Init => RefreshInv
    BY RefreshStarts
  <1>2. RefreshInv /\ [Next]_vars => RefreshInv'
    BY RefreshKeeps
  <1> QED BY <1>1, <1>2, PTL DEF Spec

\* Once every frame has been refreshed the glass shows the last of them,
\* whatever mix of full and partial refreshes led to it (transfer()).
THEOREM RefreshShows == ASSUME ConstantsOK PROVE Spec => []GlassIsFrame
  <1>1. RefreshInv => GlassIsFrame
    BY DEF RefreshInv
  <1> QED BY <1>1, RefreshInvariant, PTL

\* No more partial refreshes than the budget between two full ones
\* (kPartialsPerBaseline), also when a restart forgets their number; those that
\* the gray demonstration does not count end with it.
THEOREM RefreshGhosts == ASSUME ConstantsOK PROVE Spec => []GhostsBounded
  <1>1. RefreshInv => GhostsBounded
    BY DEF RefreshInv
  <1> QED BY <1>1, RefreshInvariant, PTL

\* A full refresh that was asked for is not lost to a frame that replaces
\* the one it was asked with (submit()).
THEOREM RefreshOwes == ASSUME ConstantsOK PROVE Spec => []FullIsNotLost
  <1>1. RefreshInv => FullIsNotLost
    BY DEF RefreshInv, TypeOK, Flagged, FullIsNotLost, Idle, NoJob
  <1> QED BY <1>1, RefreshInvariant, PTL

\* Every variable of the worker and of the panel keeps its type.
THEOREM RefreshTypes == ASSUME ConstantsOK PROVE Spec => []TypeOK
  <1>1. RefreshInv => TypeOK
    BY DEF RefreshInv
  <1> QED BY <1>1, RefreshInvariant, PTL

-----------------------------------------------------------------------------
(***************************************************************************)
(* The board's main loop (EpaperApp), which submits the frames: it draws   *)
(* on demand, so that every step of an iteration that changes what a frame *)
(* shows has to ask for one, and none may take that back (Announces).      *)
(***************************************************************************)
CONSTANTS Events, Keys, Commands, Tilts, Used, Banner, IdleTime, Final, Failures,
          Aborts

VARIABLES ota, view, frame, settled, boots

App == INSTANCE EpaperApp WITH Idle <- IdleTime

Sessions == [phase : App!Phases, error : App!Errors, failures : 0..Failures]

LoopViews ==
    [page : App!Pages, clockReturn : {"home", "trend"}, returnPage : App!Pages \ {"settings"},
     focus : 0..2, saveError : BOOLEAN, rotation : 0..2, idle : 0..1,
     upright : BOOLEAN, candidate : BOOLEAN, held : 0..1, passkey : BOOLEAN,
     warning : 0..2, ota : Sessions, banner : 0..Banner, reboot : 0..(Final + 1),
     quiet : 0..IdleTime, demo : BOOLEAN, diagnostic : BOOLEAN, force : BOOLEAN]

\* What a frame shows of the view.
Looks(u, w) ==
    /\ u.page = w.page /\ u.passkey = w.passkey /\ u.ota.phase = w.ota.phase
    /\ u.upright = w.upright /\ u.warning = w.warning /\ u.focus = w.focus
    /\ u.idle = w.idle /\ u.rotation = w.rotation /\ u.saveError = w.saveError

\* A change of it asks for a frame, and nothing takes that back.
Announces(u, w) == u.force \/ (~w.force /\ Looks(u, w))

\* A diagnostic ends with a frame of the loop.
Diagnoses(u, w) ==
    (u.demo = w.demo /\ u.diagnostic = w.diagnostic) \/ (~u.diagnostic /\ u.force)

\* The contract of the steps between the snapshot and the commands.
Goes(u, w) ==
    /\ u \in LoopViews /\ u.ota = w.ota /\ u.reboot = w.reboot
    /\ Announces(u, w) /\ Diagnoses(u, w)

LEMMA ViewTyped ==
    ASSUME NEW w \in LoopViews
    PROVE  /\ \A x \in App!Pages : [w EXCEPT !.page = x] \in LoopViews
           /\ \A x \in {"home", "trend"} : [w EXCEPT !.clockReturn = x] \in LoopViews
           /\ \A x \in App!Pages \ {"settings"} : [w EXCEPT !.returnPage = x] \in LoopViews
           /\ \A x \in 0..2 : [w EXCEPT !.focus = x] \in LoopViews
           /\ \A x \in BOOLEAN : [w EXCEPT !.saveError = x] \in LoopViews
           /\ \A x \in 0..2 : [w EXCEPT !.rotation = x] \in LoopViews
           /\ \A x \in 0..1 : [w EXCEPT !.idle = x] \in LoopViews
           /\ \A x \in BOOLEAN : [w EXCEPT !.upright = x] \in LoopViews
           /\ \A x \in BOOLEAN : [w EXCEPT !.candidate = x] \in LoopViews
           /\ \A x \in 0..1 : [w EXCEPT !.held = x] \in LoopViews
           /\ \A x \in BOOLEAN : [w EXCEPT !.passkey = x] \in LoopViews
           /\ \A x \in 0..2 : [w EXCEPT !.warning = x] \in LoopViews
           /\ \A x \in Sessions : [w EXCEPT !.ota = x] \in LoopViews
           /\ \A x \in 0..Banner : [w EXCEPT !.banner = x] \in LoopViews
           /\ \A x \in 0..(Final + 1) : [w EXCEPT !.reboot = x] \in LoopViews
           /\ \A x \in 0..IdleTime : [w EXCEPT !.quiet = x] \in LoopViews
           /\ \A x \in BOOLEAN : [w EXCEPT !.demo = x] \in LoopViews
           /\ \A x \in BOOLEAN : [w EXCEPT !.diagnostic = x] \in LoopViews
           /\ \A x \in BOOLEAN : [w EXCEPT !.force = x] \in LoopViews
  BY ZenonT(40) DEF LoopViews

\* The parts of a view.
LEMMA ViewParts ==
    ASSUME NEW w \in LoopViews
    PROVE  /\ w.page \in App!Pages /\ w.clockReturn \in {"home", "trend"}
           /\ w.returnPage \in App!Pages \ {"settings"} /\ w.focus \in 0..2
           /\ w.rotation \in 0..2 /\ w.idle \in 0..1 /\ w.held \in 0..1
           /\ w.upright \in BOOLEAN /\ w.passkey \in BOOLEAN /\ w.force \in BOOLEAN
           /\ w.demo \in BOOLEAN /\ w.diagnostic \in BOOLEAN
           /\ w.warning \in 0..2 /\ w.ota \in Sessions /\ w.banner \in 0..Banner
           /\ w.reboot \in 0..(Final + 1) /\ w.quiet \in 0..IdleTime
           /\ w.ota.phase \in App!Phases
  BY DEF LoopViews, Sessions

\* The contracts of two steps make one.
LEMMA GoesOnward ==
    ASSUME NEW u, NEW w, NEW x, Goes(u, w), Goes(x, u)
    PROVE  Goes(x, w)
  BY DEF Goes, Announces, Diagnoses, Looks

\* A step that forces a frame and leaves the session alone keeps the contract.
LEMMA GoesForced ==
    ASSUME NEW u \in LoopViews, NEW w, u.force, u.ota = w.ota, u.reboot = w.reboot,
           ~u.diagnostic \/ (u.demo = w.demo /\ u.diagnostic = w.diagnostic)
    PROVE  Goes(u, w)
  BY DEF Goes, Announces, Diagnoses

LEMMA GoesNowhere ==
    ASSUME NEW w \in LoopViews
    PROVE  Goes(w, w)
  BY DEF Goes, Announces, Diagnoses, Looks

LEMMA WaitedFacts ==
    ASSUME App!ConstantsOK, NEW w \in LoopViews, NEW dt \in 0..1
    PROVE  LET u == App!Waited(w, dt)
           IN  /\ u \in LoopViews /\ Looks(u, w) /\ u.ota = w.ota
               /\ u.force = w.force /\ u.demo = w.demo /\ u.diagnostic = w.diagnostic
               /\ u.reboot = IF w.reboot > Final THEN w.reboot ELSE App!Less(w.reboot, dt)
  <1> DEFINE b == App!Less(w.banner, dt)
             q == App!Least(IdleTime, w.quiet + dt)
             h == App!Least(1, w.held + dt)
             r == IF w.reboot > Final THEN w.reboot ELSE App!Less(w.reboot, dt)
             x == [w EXCEPT !.banner = b]
             y == [x EXCEPT !.quiet = q]
             z == [y EXCEPT !.held = h]
             u == [z EXCEPT !.reboot = r]
  <1>1. b \in 0..Banner /\ q \in 0..IdleTime /\ h \in 0..1 /\ r \in 0..(Final + 1)
    BY ViewParts DEF App!ConstantsOK, App!Less, App!Least
  <1>2. App!Waited(w, dt) = u
    BY DEF App!Waited, LoopViews
  <1>3. /\ Looks(u, w) /\ u.ota = w.ota
        /\ u.force = w.force /\ u.demo = w.demo /\ u.diagnostic = w.diagnostic
        /\ u.reboot = r
    BY DEF LoopViews, Looks
  <1> HIDE DEF b, q, h, r
  <1>4. x \in LoopViews
    BY <1>1, ViewTyped
  <1> HIDE DEF x
  <1>5. y \in LoopViews
    BY <1>1, <1>4, ViewTyped
  <1> HIDE DEF y
  <1>6. z \in LoopViews
    BY <1>1, <1>5, ViewTyped
  <1> HIDE DEF z
  <1>7. u \in LoopViews
    BY <1>1, <1>6, ViewTyped
  <1> QED BY <1>2, <1>3, <1>7 DEF r

\* The snapshot copies the session, and asks for a frame when its phase is new.
LEMMA SnapshotFacts ==
    ASSUME App!ConstantsOK, NEW w \in LoopViews, ota \in Sessions
    PROVE  LET u == App!Snapshot(w)
           IN  /\ u \in LoopViews /\ u.ota.phase = ota.phase /\ u.ota = ota
               /\ Announces(u, w) /\ u.reboot = w.reboot
               /\ u.demo = w.demo /\ u.diagnostic = w.diagnostic
  <1>0. "home" \in App!Pages /\ Banner \in 0..Banner /\ 0 \in 0..IdleTime /\ w.clockReturn \in App!Pages
    BY ViewParts DEF App!Pages, App!ConstantsOK
  <1> DEFINE f == w.force \/ ota.phase # w.ota.phase
             x == [w EXCEPT !.force = f]
  <1>1. f \in BOOLEAN
    OBVIOUS
  <1>2. /\ Looks(x, w) /\ x.ota = w.ota /\ x.page = w.page /\ x.force = f
        /\ x.reboot = w.reboot /\ x.demo = w.demo /\ x.diagnostic = w.diagnostic
        /\ x.clockReturn = w.clockReturn
    BY DEF LoopViews, Looks
  <1>3. x \in LoopViews
    BY <1>1, ViewTyped
  <1>4. App!Snapshot(w) = IF ota.error # w.ota.error THEN App!NewError(x) ELSE [x EXCEPT !.ota = ota]
    BY DEF App!Snapshot
  <1>5. CASE ota.error = w.ota.error
    <2> DEFINE u == [x EXCEPT !.ota = ota]
    <2> HIDE DEF x
    <2>1. u \in LoopViews
      BY <1>3, ViewTyped
    <2>2. /\ u.ota = ota /\ u.force = x.force /\ u.page = x.page /\ u.passkey = x.passkey
          /\ u.upright = x.upright /\ u.warning = x.warning /\ u.focus = x.focus
          /\ u.idle = x.idle /\ u.rotation = x.rotation /\ u.saveError = x.saveError
          /\ u.reboot = x.reboot /\ u.demo = x.demo /\ u.diagnostic = x.diagnostic
      BY <1>3 DEF LoopViews
    <2> HIDE DEF u
    <2>3. Announces(u, w)
      <3>1. CASE f
        BY <1>2, <2>2, <3>1 DEF Announces
      <3>2. CASE ~f
        BY <1>2, <2>2, <3>2 DEF Announces, Looks
      <3> QED BY <3>1, <3>2
    <2> QED BY <1>2, <1>4, <1>5, <2>1, <2>2, <2>3 DEF u
  <1>6. CASE ota.error # w.ota.error
    <2> HIDE DEF x
    <2> DEFINE y == [x EXCEPT !.ota = ota]
               z == [y EXCEPT !.force = TRUE]
               n == [z EXCEPT !.banner = Banner]
               c == [n EXCEPT !.page = x.clockReturn]
               d == [c EXCEPT !.quiet = 0]
    <2>1. y \in LoopViews
      BY <1>3, ViewTyped
    <2>2. z \in LoopViews
      BY <2>1, ViewTyped
    <2>3. n \in LoopViews
      BY <1>0, <2>2, ViewTyped
    <2>4. c \in LoopViews
      BY <1>0, <1>2, <2>3, ViewTyped
    <2>5. d \in LoopViews
      BY <1>0, <2>4, ViewTyped
    <2>6. /\ n.ota = ota /\ n.force /\ n.reboot = x.reboot /\ n.demo = x.demo
          /\ n.diagnostic = x.diagnostic
          /\ d.ota = ota /\ d.force /\ d.reboot = x.reboot /\ d.demo = x.demo
          /\ d.diagnostic = x.diagnostic
      BY <1>3 DEF LoopViews
    <2>7. App!NewError(x) = n \/ App!NewError(x) = d
      BY <1>3 DEF App!NewError, LoopViews
    <2> HIDE DEF y, z, n, c, d
    <2> QED BY <1>2, <1>4, <1>6, <2>3, <2>5, <2>6, <2>7 DEF Announces
  <1> QED BY <1>5, <1>6

LEMMA ArmedFacts ==
    ASSUME App!ConstantsOK, NEW w \in LoopViews
    PROVE  LET u == App!Armed(w)
           IN  /\ u \in LoopViews /\ Looks(u, w) /\ u.ota = w.ota
               /\ u.force = w.force /\ u.demo = w.demo /\ u.diagnostic = w.diagnostic
               /\ u.reboot = IF w.ota.phase = "rebooting" /\ w.reboot > Final
                             THEN Final ELSE w.reboot
  <1> DEFINE x == [w EXCEPT !.reboot = Final]
  <1>1. Final \in 0..(Final + 1)
    BY DEF App!ConstantsOK
  <1>2. x \in LoopViews
    BY <1>1, ViewTyped
  <1>3. /\ Looks(x, w) /\ x.ota = w.ota /\ x.force = w.force /\ x.demo = w.demo
        /\ x.diagnostic = w.diagnostic /\ x.reboot = Final
    BY DEF LoopViews, Looks
  <1> HIDE DEF x
  <1>4. App!Armed(w) = IF w.ota.phase = "rebooting" /\ w.reboot > Final THEN x ELSE w
    BY DEF App!Armed, x
  <1> QED BY <1>2, <1>3, <1>4 DEF Looks

\* One part, and a frame.
LEMMA GoesPaged ==
    ASSUME App!ConstantsOK, NEW w \in LoopViews, NEW p \in App!Pages, NEW c \in {"home", "trend"},
           NEW q \in 0..IdleTime
    PROVE  Goes([w EXCEPT !.page = p, !.force = TRUE, !.quiet = q, !.clockReturn = c], w)
  <1> DEFINE x == [w EXCEPT !.page = p]
             y == [x EXCEPT !.force = TRUE]
             z == [y EXCEPT !.quiet = q]
             u == [z EXCEPT !.clockReturn = c]
  <1>1. x \in LoopViews
    BY ViewTyped
  <1>2. y \in LoopViews
    BY <1>1, ViewTyped
  <1>3. z \in LoopViews
    BY <1>2, ViewTyped
  <1>4. u \in LoopViews
    BY <1>3, ViewTyped
  <1>5. /\ u.force /\ u.ota = w.ota /\ u.reboot = w.reboot /\ u.demo = w.demo
        /\ u.diagnostic = w.diagnostic
    BY DEF LoopViews
  <1>6. u = [w EXCEPT !.page = p, !.force = TRUE, !.quiet = q, !.clockReturn = c]
    OBVIOUS
  <1> HIDE DEF u
  <1>7. Goes(u, w)
    BY <1>4, <1>5, GoesForced
  <1> QED BY <1>6, <1>7

LEMMA ReceivedFacts ==
    ASSUME App!ConstantsOK, NEW w \in LoopViews, NEW e, NEW o
    PROVE  Goes(App!Received(w, e, o), w)
  <1>1. CASE e \in {"passkey", "paired"}
    <2> DEFINE k == e = "passkey"
               x == [w EXCEPT !.passkey = k]
               u == [x EXCEPT !.force = TRUE]
    <2>1. k \in BOOLEAN
      OBVIOUS
    <2> HIDE DEF k
    <2>2. x \in LoopViews
      BY <2>1, ViewTyped
    <2>3. u \in LoopViews
      BY <2>2, ViewTyped
    <2>4. /\ u.force /\ u.ota = w.ota /\ u.reboot = w.reboot /\ u.demo = w.demo
          /\ u.diagnostic = w.diagnostic
      BY DEF LoopViews
    <2>5. App!Received(w, e, o) = u
      BY <1>1 DEF App!Received, k
    <2> HIDE DEF u
    <2> QED BY <2>3, <2>4, <2>5, GoesForced
  <1>2. CASE e = "time"
    <2> DEFINE u == [w EXCEPT !.force = TRUE]
    <2>1. u \in LoopViews
      BY ViewTyped
    <2>2. /\ u.force /\ u.ota = w.ota /\ u.reboot = w.reboot /\ u.demo = w.demo
          /\ u.diagnostic = w.diagnostic
      BY DEF LoopViews
    <2>3. App!Received(w, e, o) = u
      BY <1>2 DEF App!Received
    <2> HIDE DEF u
    <2> QED BY <2>1, <2>2, <2>3, GoesForced
  <1>3. CASE e \in {"toggle", "page"} /\ App!Free(w, o)
    <2> DEFINE left == IF w.page = "clock" THEN w.clockReturn ELSE w.page
               to == CASE e = "page" -> IF ~w.upright /\ left # "trend"
                                        THEN "trend" ELSE "home"
                       [] e # "page" /\ w.page = "clock" -> left
                       [] OTHER -> "clock"
               c == CASE e = "page" \/ w.page = "clock" -> w.clockReturn
                      [] OTHER -> App!Left(w)
    <2>1. to \in App!Pages
      BY <1>3, ViewParts DEF App!Pages
    <2>2. c \in {"home", "trend"}
      BY <1>3, ViewParts DEF App!Pages, App!Left
    <2>3. App!Received(w, e, o) = [w EXCEPT !.page = to, !.force = TRUE, !.quiet = 0,
                                        !.clockReturn = c]
      BY <1>3 DEF App!Received
    <2> HIDE DEF to, c
    <2>4. 0 \in 0..IdleTime
      BY DEF App!ConstantsOK
    <2>5. Goes([w EXCEPT !.page = to, !.force = TRUE, !.quiet = 0, !.clockReturn = c], w)
      BY <2>1, <2>2, <2>4, GoesPaged
    <2> QED BY <2>3, <2>5
  <1>4. CASE /\ e \notin {"passkey", "paired", "time"}
             /\ ~(e \in {"toggle", "page"} /\ App!Free(w, o))
    <2>1. App!Received(w, e, o) = w
      BY <1>4 DEF App!Received
    <2> QED BY <2>1, GoesNowhere
  <1> QED BY <1>1, <1>2, <1>3, <1>4

LEMMA WarnedFacts ==
    ASSUME NEW w \in LoopViews, NEW used
    PROVE  Goes(App!Warned(w, used), w)
  <1> DEFINE n == App!Warning(w.warning, used)
             f == w.force \/ n # w.warning
             x == [w EXCEPT !.warning = n]
             u == [x EXCEPT !.force = f]
  <1>1. n \in 0..2 /\ f \in BOOLEAN
    BY DEF App!Warning
  <1>2. App!Warned(w, used) = u
    BY DEF App!Warned, LoopViews
  <1> HIDE DEF n
  <1>3. x \in LoopViews
    BY <1>1, ViewTyped
  <1>4. u \in LoopViews
    BY <1>1, <1>3, ViewTyped
  <1>5. /\ u.ota = w.ota /\ u.reboot = w.reboot /\ u.demo = w.demo
        /\ u.diagnostic = w.diagnostic /\ u.force = f
        /\ u.page = w.page /\ u.passkey = w.passkey /\ u.upright = w.upright
        /\ u.warning = n /\ u.focus = w.focus /\ u.idle = w.idle
        /\ u.rotation = w.rotation /\ u.saveError = w.saveError
    BY DEF LoopViews
  <1> HIDE DEF u
  <1>6. Announces(u, w)
    <2>1. CASE f
      BY <1>5, <2>1 DEF Announces
    <2>2. CASE ~f
      BY <1>5, <2>2 DEF Announces, Looks
    <2> QED BY <2>1, <2>2
  <1> QED BY <1>2, <1>4, <1>5, <1>6 DEF Goes, Diagnoses

\* A key outside the demos forces a frame, before and after it is handled.
Forced(u, w) ==
    /\ u \in LoopViews /\ u.force /\ u.ota = w.ota /\ u.reboot = w.reboot
    /\ u.demo = w.demo /\ u.diagnostic = w.diagnostic

LEMMA InSettingsFacts ==
    ASSUME NEW w \in LoopViews, w.force, NEW k, NEW saved \in BOOLEAN
    PROVE  Forced(App!InSettings(w, k, saved), w)
  <1>1. CASE k = 1 \/ k = 3
    <2> DEFINE i == IF k = 1 THEN (w.focus + 2) % 3 ELSE (w.focus + 1) % 3
               u == [w EXCEPT !.focus = i]
    <2>1. i \in 0..2
      BY ViewParts
    <2>2. App!InSettings(w, k, saved) = u
      BY <1>1 DEF App!InSettings
    <2> HIDE DEF i
    <2>3. u \in LoopViews
      BY <2>1, ViewTyped
    <2>4. /\ u.force = w.force /\ u.ota = w.ota /\ u.reboot = w.reboot /\ u.demo = w.demo
          /\ u.diagnostic = w.diagnostic
      BY DEF LoopViews
    <2> QED BY <2>2, <2>3, <2>4 DEF Forced
  <1>2. CASE k = 5
    <2> DEFINE u == [w EXCEPT !.page = w.returnPage]
    <2>1. App!InSettings(w, k, saved) = u
      BY <1>2 DEF App!InSettings
    <2>2. u \in LoopViews
      BY ViewParts, ViewTyped
    <2>3. /\ u.force = w.force /\ u.ota = w.ota /\ u.reboot = w.reboot /\ u.demo = w.demo
          /\ u.diagnostic = w.diagnostic
      BY DEF LoopViews
    <2> QED BY <2>1, <2>2, <2>3 DEF Forced
  <1>3. CASE k \notin {1, 3, 5}
    <2> DEFINE e == ~saved
               x == [w EXCEPT !.saveError = e]
               i == (x.idle + 1) % 2
               r == (x.rotation + 1) % 3
               y == [x EXCEPT !.idle = i]
               z == [x EXCEPT !.rotation = r]
    <2>1. App!InSettings(w, k, saved) \in {x, y, z}
      BY <1>3 DEF App!InSettings
    <2>2. x \in LoopViews
      BY ViewTyped
    <2>3. i \in 0..1 /\ r \in 0..2
      BY <2>2, ViewParts
    <2>4. /\ x.force = w.force /\ x.ota = w.ota /\ x.reboot = w.reboot /\ x.demo = w.demo
          /\ x.diagnostic = w.diagnostic
      BY DEF LoopViews
    <2> HIDE DEF x, i, r
    <2>5. y \in LoopViews /\ z \in LoopViews
      BY <2>2, <2>3, ViewTyped
    <2>6. /\ y.force = x.force /\ y.ota = x.ota /\ y.reboot = x.reboot /\ y.demo = x.demo
          /\ y.diagnostic = x.diagnostic
          /\ z.force = x.force /\ z.ota = x.ota /\ z.reboot = x.reboot /\ z.demo = x.demo
          /\ z.diagnostic = x.diagnostic
      BY <2>2 DEF LoopViews
    <2> HIDE DEF y, z
    <2> QED BY <2>1, <2>2, <2>4, <2>5, <2>6 DEF Forced
  <1> QED BY <1>1, <1>2, <1>3

LEMMA OnPageFacts ==
    ASSUME NEW w \in LoopViews, w.force, w.page # "settings", NEW k
    PROVE  Forced(App!OnPage(w, k), w)
  <1>0. w.page \in App!Pages \ {"settings"} /\ Forced(w, w)
    BY ViewParts DEF Forced
  <1> DEFINE x == [w EXCEPT !.returnPage = w.page]
             a == [x EXCEPT !.page = "settings"]
             b == [w EXCEPT !.page = "home"]
             c == [w EXCEPT !.page = "trend"]
             y == [w EXCEPT !.clockReturn = "home"]
             d == [y EXCEPT !.page = "clock"]
  <1>1. x \in LoopViews /\ y \in LoopViews /\ b \in LoopViews /\ c \in LoopViews
    BY <1>0, ViewTyped DEF App!Pages
  <1>2. a \in LoopViews /\ d \in LoopViews
    BY <1>1, ViewTyped DEF App!Pages
  <1>3. \A u \in {a, b, c, d} :
          /\ u.force = w.force /\ u.ota = w.ota /\ u.reboot = w.reboot /\ u.demo = w.demo
          /\ u.diagnostic = w.diagnostic
    BY DEF LoopViews
  <1>4. App!OnPage(w, k) \in {w, a, b, c, d}
    <2>1. CASE k = 5
      BY <2>1 DEF App!OnPage
    <2>2. CASE k # 5 /\ w.page \in {"clock", "trend"}
      BY <2>2 DEF App!OnPage
    <2>3. CASE k # 5 /\ w.page \notin {"clock", "trend"}
      <3>1. w.page = "home"
        BY <1>0, <2>3 DEF App!Pages
      <3> QED BY <2>3, <3>1 DEF App!OnPage
    <2> QED BY <2>1, <2>2, <2>3
  <1> HIDE DEF a, b, c, d
  <1>5. \A u \in {a, b, c, d} : Forced(u, w)
    BY <1>1, <1>2, <1>3 DEF Forced
  <1> QED BY <1>0, <1>4, <1>5

LEMMA KeyedFacts ==
    ASSUME App!ConstantsOK, NEW w \in LoopViews, NEW k, NEW saved \in BOOLEAN, NEW o
    PROVE  Goes(App!Keyed(w, k, saved, o), w)
  <1>1. CASE k = 0
    BY <1>1, GoesNowhere DEF App!Keyed
  <1>2. CASE k # 0 /\ App!DemoKey(w, k, o)
    <2> DEFINE x == [w EXCEPT !.demo = FALSE]
               y == [x EXCEPT !.diagnostic = FALSE]
               u == [y EXCEPT !.force = TRUE]
    <2>1. x \in LoopViews
      BY ViewTyped
    <2>2. y \in LoopViews
      BY <2>1, ViewTyped
    <2>3. u \in LoopViews
      BY <2>2, ViewTyped
    <2>4. u.force /\ u.ota = w.ota /\ u.reboot = w.reboot /\ ~u.diagnostic
      BY DEF LoopViews
    <2>5. App!Keyed(w, k, saved, o) \in {w, u}
      BY <1>2 DEF App!Keyed
    <2> HIDE DEF u
    <2>6. Goes(u, w)
      BY <2>3, <2>4, GoesForced
    <2> QED BY <2>5, <2>6, GoesNowhere
  <1>3. CASE k # 0 /\ ~App!DemoKey(w, k, o)
    <2> DEFINE x == [w EXCEPT !.quiet = 0]
               y == [x EXCEPT !.diagnostic = FALSE]
               u == [y EXCEPT !.force = TRUE]
    <2>0. 0 \in 0..IdleTime
      BY DEF App!ConstantsOK
    <2>1. x \in LoopViews
      BY <2>0, ViewTyped
    <2>2. y \in LoopViews
      BY <2>1, ViewTyped
    <2>3. u \in LoopViews
      BY <2>2, ViewTyped
    <2>4. u.force /\ u.ota = w.ota /\ u.reboot = w.reboot /\ ~u.diagnostic
      BY DEF LoopViews
    <2>5. \/ App!Keyed(w, k, saved, o) = u
          \/ u.page = "settings" /\ App!Keyed(w, k, saved, o) = App!InSettings(u, k, saved)
          \/ u.page # "settings" /\ App!Keyed(w, k, saved, o) = App!OnPage(u, k)
      BY <1>3 DEF App!Keyed, LoopViews
    <2> HIDE DEF u
    <2>6. Forced(u, u)
      BY <2>3, <2>4 DEF Forced
    <2>7. Forced(App!Keyed(w, k, saved, o), u)
      BY <2>3, <2>4, <2>5, <2>6, InSettingsFacts, OnPageFacts
    <2> QED BY <2>4, <2>7, GoesForced DEF Forced
  <1> QED BY <1>1, <1>2, <1>3

LEMMA TurnedFacts ==
    ASSUME NEW w \in LoopViews, NEW tilt, NEW o
    PROVE  Goes(App!Turned(w, tilt, o), w)
  <1>1. CASE w.rotation # 0
    <2> DEFINE p == w.rotation = 2
               f == w.force \/ w.upright # p
               x == [w EXCEPT !.upright = p]
               u == [x EXCEPT !.force = f]
    <2>1. p \in BOOLEAN /\ f \in BOOLEAN
      OBVIOUS
    <2>2. App!Turned(w, tilt, o) = u
      BY <1>1 DEF App!Turned
    <2> HIDE DEF p
    <2>3. x \in LoopViews
      BY <2>1, ViewTyped
    <2>4. u \in LoopViews
      BY <2>1, <2>3, ViewTyped
    <2>5. /\ u.ota = w.ota /\ u.reboot = w.reboot /\ u.demo = w.demo
          /\ u.diagnostic = w.diagnostic /\ u.force = f
          /\ u.page = w.page /\ u.passkey = w.passkey /\ u.upright = p
          /\ u.warning = w.warning /\ u.focus = w.focus /\ u.idle = w.idle
          /\ u.rotation = w.rotation /\ u.saveError = w.saveError
      BY DEF LoopViews
    <2> HIDE DEF u
    <2>6. Announces(u, w)
      <3>1. CASE f
        BY <2>5, <3>1 DEF Announces
      <3>2. CASE ~f
        BY <2>5, <3>2 DEF Announces, Looks
      <3> QED BY <3>1, <3>2
    <2> QED BY <2>2, <2>4, <2>5, <2>6 DEF Goes, Diagnoses
  <1>2. CASE w.rotation = 0
    <2> DEFINE p == tilt = "port"
               x == [w EXCEPT !.held = 0]
               z == [w EXCEPT !.candidate = p]
               y == [z EXCEPT !.held = 0]
               q == [w EXCEPT !.upright = p]
               u == [q EXCEPT !.force = TRUE]
    <2>1. App!Turned(w, tilt, o) \in {w, x, y, u}
      BY <1>2 DEF App!Turned
    <2>2. p \in BOOLEAN
      OBVIOUS
    <2>3. /\ u.force /\ u.ota = w.ota /\ u.reboot = w.reboot /\ u.demo = w.demo
          /\ u.diagnostic = w.diagnostic
      BY DEF LoopViews
    <2>4. \A r \in {x, y} :
            /\ r.ota = w.ota /\ r.reboot = w.reboot /\ r.demo = w.demo
            /\ r.diagnostic = w.diagnostic /\ r.force = w.force /\ Looks(r, w)
      <3> DEFINE Kept(r) ==
            /\ r.ota = w.ota /\ r.reboot = w.reboot /\ r.demo = w.demo
            /\ r.diagnostic = w.diagnostic /\ r.force = w.force /\ Looks(r, w)
      <3> HIDE DEF p
      <3>1. Kept(x)
        BY DEF LoopViews, Looks
      <3>2. Kept(y)
        BY DEF LoopViews, Looks
      <3> HIDE DEF x, y
      <3> QED BY <3>1, <3>2
    <2> HIDE DEF p
    <2>12. 0 \in 0..1
      OBVIOUS
    <2>5. x \in LoopViews
      BY <2>12, ViewTyped
    <2>9. z \in LoopViews
      BY <2>2, ViewTyped
    <2>10. q \in LoopViews
      BY <2>2, ViewTyped
    <2>6. y \in LoopViews
      BY <2>9, <2>12, ViewTyped
    <2>11. u \in LoopViews
      BY <2>10, ViewTyped
    <2> HIDE DEF x, y, u
    <2>7. Goes(u, w)
      BY <2>3, <2>11, GoesForced
    <2>8. Goes(x, w) /\ Goes(y, w)
      BY <2>4, <2>5, <2>6 DEF Goes, Announces, Diagnoses
    <2> QED BY <2>1, <2>7, <2>8, GoesNowhere
  <1> QED BY <1>1, <1>2

LEMMA NoUprightTrendFacts ==
    ASSUME NEW w \in LoopViews
    PROVE  Goes(App!NoUprightTrend(w), w)
  <1> DEFINE x == [w EXCEPT !.page = "home"]
             u == [x EXCEPT !.force = TRUE]
  <1>1. x \in LoopViews
    BY ViewTyped DEF App!Pages
  <1>2. u \in LoopViews
    BY <1>1, ViewTyped
  <1>3. /\ u.force /\ u.ota = w.ota /\ u.reboot = w.reboot /\ u.demo = w.demo
        /\ u.diagnostic = w.diagnostic
    BY DEF LoopViews
  <1>4. App!NoUprightTrend(w) \in {w, u}
    BY DEF App!NoUprightTrend
  <1> HIDE DEF u
  <1> QED BY <1>2, <1>3, <1>4, GoesForced, GoesNowhere

LEMMA TimedOutFacts ==
    ASSUME NEW w \in LoopViews, NEW o
    PROVE  Goes(App!TimedOut(w, o), w)
  <1>1. CASE w.page \in {"home", "trend"}
    <2> DEFINE x == [w EXCEPT !.clockReturn = w.page]
               y == [x EXCEPT !.page = "clock"]
               u == [y EXCEPT !.force = TRUE]
    <2>1. x \in LoopViews
      BY <1>1, ViewTyped
    <2>2. y \in LoopViews
      BY <2>1, ViewTyped DEF App!Pages
    <2>3. u \in LoopViews
      BY <2>2, ViewTyped
    <2>4. /\ u.force /\ u.ota = w.ota /\ u.reboot = w.reboot /\ u.demo = w.demo
          /\ u.diagnostic = w.diagnostic
      BY DEF LoopViews
    <2>5. App!TimedOut(w, o) \in {w, u}
      BY DEF App!TimedOut, App!OpenClock
    <2> HIDE DEF u
    <2> QED BY <2>3, <2>4, <2>5, GoesForced, GoesNowhere
  <1>2. CASE w.page \notin {"home", "trend"}
    <2>1. App!TimedOut(w, o) = w
      BY <1>2, ViewParts DEF App!TimedOut, App!Pages
    <2> QED BY <2>1, GoesNowhere
  <1> QED BY <1>1, <1>2

\* Nothing but a demo that is on, or a session that is not busy, lets a
\* command end a diagnostic without a frame of the loop.
LEMMA CommandedFacts ==
    ASSUME NEW w \in LoopViews, NEW c, NEW o
    PROVE  LET u == App!Commanded(w, c, o)
           IN  /\ u \in LoopViews /\ u.ota = w.ota /\ u.reboot = w.reboot
               /\ Announces(u, w)
               /\ o.phase # "idle" => u = w
               /\ \/ Diagnoses(u, w)
                  \/ u.diagnostic /\ (u.demo \/ c = "frame")
                  \/ ~u.diagnostic /\ ~w.demo /\ ~w.passkey
  <1>1. CASE o.phase # "idle"
    <2>1. App!Commanded(w, c, o) = w
      BY <1>1 DEF App!Commanded
    <2> QED BY <2>1, GoesNowhere DEF Goes
  <1>2. CASE o.phase = "idle" /\ c = "partial" /\ ~w.passkey
    <2> DEFINE x == [w EXCEPT !.demo = TRUE]
               u == [x EXCEPT !.diagnostic = TRUE]
               y == [w EXCEPT !.diagnostic = w.demo]
    <2>1. App!Commanded(w, c, o) = IF settled THEN u ELSE y
      BY <1>2 DEF App!Commanded
    <2>2. x \in LoopViews
      BY ViewTyped
    <2>3. u \in LoopViews
      BY <2>2, ViewTyped
    <2>4. y \in LoopViews
      BY ViewParts, ViewTyped
    <2>5. /\ u.demo /\ u.diagnostic /\ u.ota = w.ota /\ u.reboot = w.reboot
          /\ u.force = w.force /\ Looks(u, w)
      BY DEF LoopViews, Looks
    <2>6. /\ y.demo = w.demo /\ y.diagnostic = w.demo /\ y.ota = w.ota
          /\ y.reboot = w.reboot /\ y.force = w.force /\ Looks(y, w)
      BY DEF LoopViews, Looks
    <2>7. w.demo \in BOOLEAN /\ w.diagnostic \in BOOLEAN /\ w.force \in BOOLEAN
      BY ViewParts
    <2> HIDE DEF u, y
    <2>8. CASE settled
      BY <1>2, <2>1, <2>3, <2>5, <2>7, <2>8 DEF Announces
    <2>9. CASE ~settled
      BY <1>2, <2>1, <2>4, <2>6, <2>7, <2>9 DEF Announces
    <2> QED BY <2>8, <2>9
  <1>3. CASE o.phase = "idle" /\ c = "frame"
    <2> DEFINE x == [w EXCEPT !.demo = FALSE]
               u == [x EXCEPT !.diagnostic = TRUE]
    <2>1. App!Commanded(w, c, o) = u
      BY <1>3 DEF App!Commanded
    <2>2. x \in LoopViews
      BY ViewTyped
    <2>3. u \in LoopViews
      BY <2>2, ViewTyped
    <2>4. /\ u.diagnostic /\ u.ota = w.ota /\ u.reboot = w.reboot
          /\ u.force = w.force /\ Looks(u, w)
      BY DEF LoopViews, Looks
    <2>5. w.force \in BOOLEAN
      BY ViewParts
    <2> HIDE DEF u
    <2> QED BY <1>3, <2>1, <2>3, <2>4, <2>5 DEF Announces
  <1>4. CASE o.phase = "idle" /\ c = "live"
    <2> DEFINE x == [w EXCEPT !.demo = FALSE]
               y == [x EXCEPT !.diagnostic = FALSE]
               u == [y EXCEPT !.force = TRUE]
    <2>1. App!Commanded(w, c, o) = u
      BY <1>4 DEF App!Commanded
    <2>2. x \in LoopViews
      BY ViewTyped
    <2>3. y \in LoopViews
      BY <2>2, ViewTyped
    <2>4. u \in LoopViews
      BY <2>3, ViewTyped
    <2>5. ~u.diagnostic /\ u.force /\ u.ota = w.ota /\ u.reboot = w.reboot
      BY DEF LoopViews
    <2> HIDE DEF u
    <2> QED BY <1>4, <2>1, <2>4, <2>5 DEF Announces, Diagnoses
  <1>5. CASE /\ o.phase = "idle" /\ c \notin {"frame", "live"}
             /\ ~(c = "partial" /\ ~w.passkey)
    <2>1. App!Commanded(w, c, o) = w
      BY <1>5 DEF App!Commanded
    <2> QED BY <1>5, <2>1, GoesNowhere DEF Goes
  <1> QED BY <1>1, <1>2, <1>3, <1>4, <1>5

LEMMA PromptedFacts ==
    ASSUME NEW w \in LoopViews, NEW o
    PROVE  LET u == App!Prompted(w, o)
           IN  /\ Goes(u, w)
               /\ u.diagnostic => u = w /\ App!Free(w, o)
               /\ w.diagnostic /\ ~u.diagnostic => u.force
  <1>1. CASE w.diagnostic /\ ~App!Free(w, o)
    <2> DEFINE x == [w EXCEPT !.demo = FALSE]
               y == [x EXCEPT !.diagnostic = FALSE]
               u == [y EXCEPT !.force = TRUE]
    <2>1. App!Prompted(w, o) = u
      BY <1>1 DEF App!Prompted
    <2>2. x \in LoopViews
      BY ViewTyped
    <2>3. y \in LoopViews
      BY <2>2, ViewTyped
    <2>4. u \in LoopViews
      BY <2>3, ViewTyped
    <2>5. ~u.diagnostic /\ u.force /\ u.ota = w.ota /\ u.reboot = w.reboot
      BY DEF LoopViews
    <2> HIDE DEF u
    <2> QED BY <2>1, <2>4, <2>5, GoesForced
  <1>2. CASE ~(w.diagnostic /\ ~App!Free(w, o))
    <2>1. App!Prompted(w, o) = w
      BY <1>2 DEF App!Prompted
    <2> QED BY <1>2, <2>1, GoesNowhere
  <1> QED BY <1>1, <1>2

\* A session never leaves its restart, and only a failure makes it idle.
Ends(n, o) ==
    /\ n \in Sessions /\ n.failures >= o.failures
    /\ o.phase = "rebooting" => n = o
    /\ o.phase # "idle" /\ n.phase = "idle" => Aborts \/ (n.failures >= 1 /\ o.failures < Failures)

LEMMA FailFacts ==
    ASSUME App!ConstantsOK, NEW o \in Sessions, NEW n \in App!Fail(o)
    PROVE  n \in Sessions /\ n.failures = o.failures + 1 /\ o.failures < Failures
  <1>1. o.failures \in 0..Failures /\ o.failures < Failures
    BY DEF App!Fail, Sessions
  <1>2. PICK e \in App!Errors \ {"none"} :
             n = [phase |-> "idle", error |-> e, failures |-> o.failures + 1]
    BY <1>1 DEF App!Fail
  <1>3. "idle" \in App!Phases /\ o.failures + 1 \in 0..Failures
    BY <1>1 DEF App!Phases, App!ConstantsOK
  <1> QED BY <1>1, <1>2, <1>3 DEF Sessions

LEMMA MovedFacts ==
    ASSUME App!ConstantsOK, NEW o \in Sessions, NEW n \in App!Moved(o)
    PROVE  Ends(n, o)
  <1>0. o.phase \in App!Phases /\ o.failures \in 0..Failures /\ o.error \in App!Errors
    BY DEF Sessions
  <1>1. n \in App!Fail(o) => Ends(n, o)
    BY <1>0, FailFacts DEF Ends, App!Moved, App!Phases, App!Fail
  <1>2. n \in App!Given(o) /\ o.phase # "rebooting" => Ends(n, o)
    <2> DEFINE x == [o EXCEPT !.phase = "idle", !.error = "none"]
    <2>1. n \in App!Given(o) => n = x /\ Aborts
      BY DEF App!Given
    <2>2. x \in Sessions /\ x.failures = o.failures
      BY <1>0 DEF Sessions, App!Phases, App!Errors
    <2> HIDE DEF x
    <2> QED BY <1>0, <2>1, <2>2 DEF Ends
  <1>3. CASE o.phase = "idle"
    <2> DEFINE x == [o EXCEPT !.phase = "confirming", !.error = "none"]
    <2>1. n = x \/ n \in App!Fail(o)
      BY <1>3 DEF App!Moved
    <2>2. x \in Sessions /\ x.failures = o.failures
      BY <1>0 DEF Sessions, App!Phases, App!Errors
    <2> HIDE DEF x
    <2>3. Ends(x, o)
      BY <1>0, <1>3, <2>2 DEF Ends
    <2> QED BY <1>1, <2>1, <2>3
  <1>4. CASE o.phase = "confirming"
    <2>1. n \in App!Fail(o) \/ n \in App!Given(o)
      BY <1>4 DEF App!Moved
    <2> QED BY <1>1, <1>2, <1>4, <2>1
  <1>5. CASE o.phase = "receiving"
    <2> DEFINE x == [o EXCEPT !.phase = "rebooting"]
    <2>1. n = x \/ n \in App!Fail(o) \/ n \in App!Given(o)
      BY <1>5 DEF App!Moved
    <2>2. x \in Sessions /\ x.failures = o.failures /\ x.phase = "rebooting"
      BY <1>0 DEF Sessions, App!Phases
    <2> HIDE DEF x
    <2>3. Ends(x, o)
      BY <1>0, <1>5, <2>2 DEF Ends
    <2> QED BY <1>1, <1>2, <1>5, <2>1, <2>3
  <1>6. CASE o.phase = "rebooting"
    BY <1>6 DEF App!Moved
  <1> QED BY <1>0, <1>3, <1>4, <1>5, <1>6 DEF App!Phases

LEMMA EndsHere ==
    ASSUME App!ConstantsOK, NEW o \in Sessions
    PROVE  Ends(o, o)
  BY DEF Ends, Sessions, App!ConstantsOK

LEMMA AnsweredFacts ==
    ASSUME App!ConstantsOK, NEW o \in Sessions, NEW w, NEW k, NEW n \in App!Answered(o, w, k)
    PROVE  Ends(n, o)
  <1>0. o.phase \in App!Phases /\ o.failures \in 0..Failures /\ Ends(o, o)
    BY EndsHere DEF Sessions
  <1>1. CASE n \in App!Fail(o) /\ o.phase = "confirming"
    BY <1>0, <1>1, FailFacts DEF Ends
  <1>2. CASE n = [o EXCEPT !.phase = "receiving"] /\ o.phase = "confirming"
    <2>1. n \in Sessions /\ n.failures = o.failures /\ n.phase = "receiving"
      BY <1>2 DEF Sessions, App!Phases
    <2> QED BY <1>0, <1>2, <2>1 DEF Ends
  <1>3. CASE n = o
    BY <1>0, <1>3
  <1> QED BY <1>1, <1>2, <1>3 DEF App!Answered

LEMMA EndsOnward ==
    ASSUME App!ConstantsOK, NEW o \in Sessions, NEW n, NEW m, Ends(n, o), Ends(m, n)
    PROVE  Ends(m, o)
  <1>1. /\ o.failures \in 0..Failures /\ n.failures \in 0..Failures
        /\ m.failures \in 0..Failures /\ Failures \in Nat
    BY DEF Ends, Sessions, App!ConstantsOK
  <1>2. m.failures >= n.failures /\ n.failures >= o.failures
    BY DEF Ends
  <1>3. CASE o.phase # "idle" /\ m.phase = "idle" /\ n.phase = "idle"
    BY <1>1, <1>2, <1>3 DEF Ends
  <1>4. CASE o.phase # "idle" /\ m.phase = "idle" /\ n.phase # "idle"
    BY <1>1, <1>2, <1>4 DEF Ends
  <1>5. CASE ~(o.phase # "idle" /\ m.phase = "idle")
    BY <1>1, <1>2, <1>5 DEF Ends
  <1> QED BY <1>3, <1>4, <1>5

-----------------------------------------------------------------------------
(***************************************************************************)
(* The loop.                                                               *)
(***************************************************************************)

EpaperTypes == ota \in Sessions /\ view \in LoopViews

\* The frame is the view's, or the next one is asked for.
FrameFollows == frame \in {App!NoFrame, App!Foreign} \/ view.force \/ frame = App!Frame(view)

\* Without the probe and the sample views, a diagnostic is a demo.
DemosOnly == "frame" \notin Commands => (view.diagnostic => view.demo)

\* A diagnostic went on under an update only when that one ended meanwhile.
Overtaken == view.diagnostic /\ view.ota.phase # "idle" => Aborts \/ ota.failures >= 1

\* A diagnostic frame stays only where there is no prompt.
Discreet ==
    ~view.diagnostic /\ frame = App!Foreign => ~view.passkey /\ view.ota.phase = "idle"

\* The deadline is armed with the frame of the restart.
FinalDrawn ==
    /\ view.reboot <= Final <=> view.ota.phase = "rebooting"
    /\ view.ota.phase = "rebooting" =>
           ota = view.ota /\ ~view.diagnostic /\ frame.scene = "rebooting"

EpaperInv ==
    /\ EpaperTypes /\ FrameFollows /\ App!SceneIsDrawn /\ DemosOnly /\ Overtaken
    /\ FinalDrawn

\* The loop compares phases: with a probe and two failures it can miss that
\* one prompt took another's place.
NoPromptIsMissed == "frame" \in Commands => Failures <= 1 /\ ~Aborts

\* The end of an iteration, and its steps from the keys on.
Draws(heard, key, command, asked, done) ==
    /\ \/ /\ ~done.diagnostic
          /\ frame' = App!Frame(done)
          /\ settled' = (settled /\ ~done.force /\ frame = App!Frame(done))
          /\ view' = [done EXCEPT !.force = FALSE, !.demo = FALSE]
       \/ /\ done.diagnostic \/ ~done.force
          /\ \/ /\ App!DiagnosticFrame(heard, key, command, asked)
                /\ frame' = App!Foreign /\ settled' = FALSE
             \/ UNCHANGED <<frame, settled>>
          /\ view' = done
    /\ UNCHANGED boots

FromKeys(heard, key, saved, tilt, command, late) ==
    /\ ota' \in App!Answered(late, heard, key)
    /\ \E keyed \in {App!Keyed(heard, key, saved, late)} :
       \E turned \in {App!NoUprightTrend(App!Turned(keyed, tilt, ota'))} :
       \E asked \in {App!Commanded(App!TimedOut(turned, ota'), command, ota')} :
       \E done \in {App!Prompted(asked, ota')} :
          Draws(heard, key, command, asked, done)

\* The steps of an iteration before the frame, by their contracts.
Chain(armed, heard, idled, asked, done, command) ==
    /\ armed \in LoopViews /\ armed.ota = ota /\ Announces(armed, view)
    /\ armed.demo = view.demo /\ armed.diagnostic = view.diagnostic
    /\ armed.reboot <= Final <=> (view.reboot <= Final \/ ota.phase = "rebooting")
    /\ Ends(ota', ota)
    /\ Goes(idled, armed)
    /\ asked = App!Commanded(idled, command, ota')
    /\ done = App!Prompted(asked, ota')

LEMMA IterationIs ==
    ASSUME App!ConstantsOK, EpaperTypes, App!Iteration
    PROVE  \E armed, heard, idled, asked, done :
           \E key \in Keys \cup {0}, command \in Commands \cup {"none"} :
               /\ Chain(armed, heard, idled, asked, done, command)
               /\ Draws(heard, key, command, asked, done)
  <1>0. ota \in Sessions /\ view \in LoopViews
    BY Zenon DEF EpaperTypes
  <1>1. PICK dt \in 0..1, late \in {ota} \cup App!Moved(ota) :
        \E begun \in {App!Snapshot(App!Waited(view, dt))} :
        /\ ~App!Restarts(begun, settled)
        /\ \E armed \in {App!Armed(begun)}, event \in Events \cup {"none"}, used \in Used :
           \E heard \in {App!Warned(App!Received(armed, event, late), used)} :
           \E key \in Keys \cup {0}, saved \in App!Saves(armed), tilt \in Tilts \cup {"flat"},
              command \in Commands \cup {"none"} :
              FromKeys(heard, key, saved, tilt, command, late)
    BY ZenonT(40) DEF App!Iteration, FromKeys, Draws
  <1> DEFINE waited == App!Waited(view, dt)
             begun == App!Snapshot(waited)
             armed == App!Armed(begun)
  <1>20. PICK b \in {begun} :
         \E y \in {App!Armed(b)}, event \in Events \cup {"none"}, used \in Used :
         \E heard \in {App!Warned(App!Received(y, event, late), used)} :
         \E key \in Keys \cup {0}, saved \in App!Saves(y), tilt \in Tilts \cup {"flat"},
            command \in Commands \cup {"none"} :
            FromKeys(heard, key, saved, tilt, command, late)
    BY <1>1, Zenon
  <1>21. b = begun
    BY <1>20
  <1>19. \E y \in {armed}, event \in Events \cup {"none"}, used \in Used :
         \E heard \in {App!Warned(App!Received(y, event, late), used)} :
         \E key \in Keys \cup {0}, saved \in App!Saves(y), tilt \in Tilts \cup {"flat"},
            command \in Commands \cup {"none"} :
            FromKeys(heard, key, saved, tilt, command, late)
    BY <1>20, <1>21, Zenon
  <1> HIDE DEF armed
  <1>2. PICK event \in Events \cup {"none"}, used \in Used :
        \E heard \in {App!Warned(App!Received(armed, event, late), used)} :
        \E key \in Keys \cup {0}, saved \in App!Saves(armed), tilt \in Tilts \cup {"flat"},
           command \in Commands \cup {"none"} :
           FromKeys(heard, key, saved, tilt, command, late)
    BY <1>19, SMTT(30)
  <1> USE DEF armed
  <1> DEFINE received == App!Received(armed, event, late)
             heard == App!Warned(received, used)
  <1>3. PICK key \in Keys \cup {0}, saved \in App!Saves(armed), tilt \in Tilts \cup {"flat"},
             command \in Commands \cup {"none"} :
             FromKeys(heard, key, saved, tilt, command, late)
    BY <1>2
  <1> DEFINE keyed == App!Keyed(heard, key, saved, late)
             tilted == App!Turned(keyed, tilt, ota')
             turned == App!NoUprightTrend(tilted)
             idled == App!TimedOut(turned, ota')
             asked == App!Commanded(idled, command, ota')
             done == App!Prompted(asked, ota')
  <1>4. ota' \in App!Answered(late, heard, key) /\ Draws(heard, key, command, asked, done)
    BY <1>3 DEF FromKeys
  <1>5. saved \in BOOLEAN
    BY DEF App!Saves
  <1>6. /\ waited \in LoopViews /\ Looks(waited, view) /\ waited.ota = view.ota
        /\ waited.force = view.force /\ waited.demo = view.demo
        /\ waited.diagnostic = view.diagnostic
        /\ waited.reboot = IF view.reboot > Final THEN view.reboot ELSE App!Less(view.reboot, dt)
    BY <1>0, WaitedFacts
  <1> HIDE DEF waited
  <1>7. /\ begun \in LoopViews /\ begun.ota = ota /\ Announces(begun, waited)
        /\ begun.reboot = waited.reboot /\ begun.demo = waited.demo
        /\ begun.diagnostic = waited.diagnostic
    BY <1>0, <1>6, SnapshotFacts
  <1> HIDE DEF begun
  <1>8. /\ armed \in LoopViews /\ Looks(armed, begun) /\ armed.ota = begun.ota
        /\ armed.force = begun.force /\ armed.demo = begun.demo
        /\ armed.diagnostic = begun.diagnostic
        /\ armed.reboot = IF begun.ota.phase = "rebooting" /\ begun.reboot > Final
                          THEN Final ELSE begun.reboot
    BY <1>7, ArmedFacts
  <1> HIDE DEF armed
  <1>9. Announces(armed, view)
    BY <1>6, <1>7, <1>8 DEF Announces, Looks
  <1>10. armed.reboot <= Final <=> (view.reboot <= Final \/ ota.phase = "rebooting")
    <2>1. view.reboot \in 0..(Final + 1) /\ Final \in Nat
      BY <1>0, ViewParts DEF App!ConstantsOK
    <2>2. waited.reboot \in Nat /\ (waited.reboot <= Final <=> view.reboot <= Final)
      BY <1>6, <2>1 DEF App!Less
    <2> QED BY <1>7, <1>8, <2>1, <2>2
  <1>11. Goes(received, armed)
    BY <1>8, ReceivedFacts
  <1> HIDE DEF received
  <1>12. Goes(heard, armed)
    <2>1. Goes(heard, received)
      BY <1>11, WarnedFacts DEF Goes
    <2> QED BY <1>11, <2>1, GoesOnward
  <1> HIDE DEF heard
  <1>13. Goes(keyed, armed)
    <2>1. Goes(keyed, heard)
      BY <1>5, <1>12, KeyedFacts DEF Goes
    <2> QED BY <1>12, <2>1, GoesOnward
  <1> HIDE DEF keyed
  <1>14. Goes(tilted, armed)
    <2>1. Goes(tilted, keyed)
      BY <1>13, TurnedFacts DEF Goes
    <2> QED BY <1>13, <2>1, GoesOnward
  <1> HIDE DEF tilted
  <1>15. Goes(turned, armed)
    <2>1. Goes(turned, tilted)
      BY <1>14, NoUprightTrendFacts DEF Goes
    <2> QED BY <1>14, <2>1, GoesOnward
  <1> HIDE DEF turned
  <1>16. Goes(idled, armed)
    <2>1. Goes(idled, turned)
      BY <1>15, TimedOutFacts DEF Goes
    <2> QED BY <1>15, <2>1, GoesOnward
  <1> HIDE DEF idled
  <1>17. Ends(ota', ota)
    <2>1. Ends(late, ota)
      BY <1>0, EndsHere, MovedFacts
    <2>2. late \in Sessions
      BY <2>1 DEF Ends
    <2>3. Ends(ota', late)
      BY <1>4, <2>2, AnsweredFacts
    <2> QED BY <1>0, <2>1, <2>3, EndsOnward
  <1>18. Chain(armed, heard, idled, asked, done, command)
    BY <1>6, <1>7, <1>8, <1>9, <1>10, <1>16, <1>17 DEF Chain
  <1> HIDE DEF asked, done
  <1> QED BY <1>4, <1>18

\* What of an iteration the invariant speaks of.
LEMMA IterationFacts ==
    ASSUME App!ConstantsOK, EpaperInv, App!Iteration
    PROVE  /\ EpaperInv' /\ boots' = boots
           /\ NoPromptIsMissed /\ Discreet => Discreet'
           /\ view'.passkey \/ (view'.ota.phase # "idle" /\ ota'.phase # "idle")
                => ~view'.diagnostic
  <1>1. PICK armed, heard, idled, asked, done :
           \E key \in Keys \cup {0}, command \in Commands \cup {"none"} :
               /\ Chain(armed, heard, idled, asked, done, command)
               /\ Draws(heard, key, command, asked, done)
    BY IterationIs DEF EpaperInv
  <1>2. PICK key \in Keys \cup {0}, command \in Commands \cup {"none"} :
               /\ Chain(armed, heard, idled, asked, done, command)
               /\ Draws(heard, key, command, asked, done)
    BY <1>1
  <1>3. /\ armed \in LoopViews /\ armed.ota = ota /\ Announces(armed, view)
        /\ armed.demo = view.demo /\ armed.diagnostic = view.diagnostic
        /\ armed.reboot <= Final <=> (view.reboot <= Final \/ ota.phase = "rebooting")
        /\ Ends(ota', ota) /\ Goes(idled, armed)
    BY <1>2 DEF Chain
  <1>4. /\ asked \in LoopViews /\ asked.ota = idled.ota /\ asked.reboot = idled.reboot
        /\ Announces(asked, idled)
        /\ ota'.phase # "idle" => asked = idled
        /\ \/ Diagnoses(asked, idled)
           \/ asked.diagnostic /\ (asked.demo \/ command = "frame")
           \/ ~asked.diagnostic /\ ~idled.demo /\ ~idled.passkey
    BY <1>2, <1>3, CommandedFacts DEF Chain, Goes
  <1>5. /\ Goes(done, asked)
        /\ done.diagnostic => done = asked /\ App!Free(asked, ota')
        /\ asked.diagnostic /\ ~done.diagnostic => done.force
    BY <1>2, <1>4, PromptedFacts DEF Chain
  <1>6. /\ done \in LoopViews /\ done.ota = ota /\ Announces(done, view)
        /\ done.reboot <= Final <=> (view.reboot <= Final \/ ota.phase = "rebooting")
    BY <1>3, <1>4, <1>5 DEF Goes, Announces, Looks
  <1>7. done.passkey \/ ota'.phase # "idle" => ~done.diagnostic
    BY <1>5 DEF App!Free
  <1>8. \/ /\ ~done.diagnostic /\ frame' = App!Frame(done)
           /\ view' = [done EXCEPT !.force = FALSE, !.demo = FALSE]
        \/ /\ done.diagnostic \/ ~done.force
           /\ \/ asked.diagnostic /\ frame' = App!Foreign
              \/ frame' = frame
           /\ view' = done
    BY <1>2 DEF Draws, App!DiagnosticFrame
  <1>9. /\ view' \in LoopViews /\ Looks(view', done) /\ view'.ota = ota
        /\ view'.reboot = done.reboot /\ view'.diagnostic = done.diagnostic
    <2> DEFINE x == [done EXCEPT !.force = FALSE]
               y == [x EXCEPT !.demo = FALSE]
    <2>1. x \in LoopViews
      BY <1>6, ViewTyped
    <2>2. y \in LoopViews
      BY <2>1, ViewTyped
    <2>3. Looks(y, done) /\ y.ota = done.ota /\ y.reboot = done.reboot
          /\ y.diagnostic = done.diagnostic
      BY <1>6 DEF LoopViews, Looks
    <2> HIDE DEF y
    <2>4. view' = y \/ view' = done
      BY <1>8 DEF y
    <2> QED BY <1>6, <2>2, <2>3, <2>4 DEF Looks
  <1>10. App!Frame(view') = App!Frame(done)
    BY <1>9 DEF App!Frame, Looks
  <1>11. /\ App!Frame(done) # App!Foreign
         /\ done.ota.phase = "rebooting" => App!Frame(done).scene = "rebooting"
    <2>1. App!Frame(done).scene = IF done.ota.phase # "idle" THEN done.ota.phase
                              ELSE IF done.passkey THEN "pairing" ELSE done.page
      BY DEF App!Frame
    <2>2. App!Frame(done).scene # "diagnostic"
      BY <1>6, <2>1, ViewParts DEF App!Phases, App!Pages
    <2>3. App!Foreign.scene = "diagnostic"
      BY DEF App!Foreign
    <2> QED BY <2>1, <2>2, <2>3
  \* Without a new frame the panel keeps one that still fits.
  <1>12. ~done.force => ~view.force /\ Looks(done, view) /\ App!Frame(done) = App!Frame(view)
    BY <1>6 DEF Announces, Looks, App!Frame
  <1>13. ~done.diagnostic /\ ~done.force => ~asked.diagnostic
    BY <1>5
  <1>14. EpaperTypes'
    BY <1>3, <1>9 DEF EpaperTypes, Ends
  <1>15. FrameFollows'
    BY <1>8, <1>10, <1>12 DEF FrameFollows, EpaperInv
  <1>16. App!SceneIsDrawn'
    <2> SUFFICES ASSUME ~view'.diagnostic, frame' \notin {App!NoFrame, App!Foreign}
                 PROVE  frame' = App!Frame(view')
      BY DEF App!SceneIsDrawn, App!NoFrame, App!Foreign
    <2>1. CASE frame' = App!Frame(done)
      BY <1>10, <2>1
    <2>2. CASE frame' # App!Frame(done)
      <3>1. ~done.force /\ frame' = frame
        BY <1>8, <1>9, <2>2
      <3> QED BY <1>10, <1>12, <3>1 DEF EpaperInv, FrameFollows
    <2> QED BY <2>1, <2>2
  <1>17. DemosOnly'
    <2> SUFFICES ASSUME "frame" \notin Commands, view'.diagnostic PROVE view'.demo
      BY DEF DemosOnly
    <2>1. view' = done /\ done = asked /\ asked.diagnostic
      BY <1>5, <1>8, <1>9
    <2>2. command # "frame"
      OBVIOUS
    <2>3. CASE asked.demo = idled.demo /\ asked.diagnostic = idled.diagnostic
      <3>1. armed.diagnostic /\ idled.demo = armed.demo
        BY <1>3, <2>1, <2>3 DEF Goes, Diagnoses
      <3> QED BY <1>3, <2>1, <2>3, <3>1 DEF EpaperInv, DemosOnly
    <2>4. CASE ~(asked.demo = idled.demo /\ asked.diagnostic = idled.diagnostic)
      BY <1>4, <2>1, <2>2, <2>4 DEF Diagnoses
    <2> QED BY <2>3, <2>4
  <1>18. Overtaken'
    <2> SUFFICES ASSUME view'.diagnostic, view'.ota.phase # "idle" PROVE Aborts \/ ota'.failures >= 1
      BY DEF Overtaken
    <2>1. ota'.phase = "idle" /\ ota.phase # "idle"
      BY <1>7, <1>9
    <2> QED BY <1>3, <2>1 DEF Ends
  <1>19. FinalDrawn'
    <2>1. view'.reboot <= Final <=> view'.ota.phase = "rebooting"
      BY <1>6, <1>9 DEF EpaperInv, FinalDrawn
    <2>2. ASSUME view'.ota.phase = "rebooting"
          PROVE  ota' = view'.ota /\ ~view'.diagnostic /\ frame'.scene = "rebooting"
      <3>1. ota.phase = "rebooting" /\ ota' = ota
        BY <1>3, <1>9, <2>2 DEF Ends
      <3>2. ~done.diagnostic
        BY <1>7, <3>1
      <3>3. frame'.scene = "rebooting"
        <4>1. CASE frame' = App!Frame(done)
          BY <1>6, <1>11, <3>1, <4>1
        <4>2. CASE frame' # App!Frame(done)
          <5>1. ~done.force /\ frame' = frame
            BY <1>8, <1>13, <3>2, <4>2
          <5>2. view.ota.phase = "rebooting"
            BY <1>6, <1>12, <3>1, <5>1 DEF Looks
          <5> QED BY <5>1, <5>2 DEF EpaperInv, FinalDrawn
        <4> QED BY <4>1, <4>2
      <3> QED BY <1>9, <3>1, <3>2, <3>3
    <2> QED BY <2>1, <2>2 DEF FinalDrawn
  <1>20. ASSUME NoPromptIsMissed, Discreet PROVE Discreet'
    <2> SUFFICES ASSUME ~view'.diagnostic, frame' = App!Foreign
                 PROVE  ~view'.passkey /\ view'.ota.phase = "idle"
      BY DEF Discreet
    <2>1. ~done.diagnostic /\ ~done.force /\ frame = App!Foreign /\ ~asked.diagnostic
      BY <1>8, <1>9, <1>11, <1>13
    <2>2. /\ view'.passkey = view.passkey /\ view'.ota.phase = view.ota.phase
          /\ done.passkey = view.passkey /\ done.ota.phase = view.ota.phase
      BY <1>9, <1>12, <2>1 DEF Looks
    <2>3. CASE ~view.diagnostic
      BY <1>20, <2>1, <2>2, <2>3 DEF Discreet
    <2>4. CASE view.diagnostic
      <3>1. ~asked.force /\ Looks(done, asked)
        BY <1>5, <2>1 DEF Goes, Announces
      <3>2. ~idled.force /\ Looks(asked, idled)
        BY <1>4, <3>1 DEF Announces
      <3>3. idled.diagnostic = armed.diagnostic /\ idled.demo = armed.demo
        BY <1>3, <3>2 DEF Goes, Diagnoses
      <3>4. ~view.demo /\ ~idled.passkey /\ ota'.phase = "idle"
        BY <1>3, <1>4, <2>1, <2>4, <3>1, <3>3 DEF Diagnoses
      <3>5. ~view'.passkey
        BY <2>2, <3>1, <3>2, <3>4 DEF Looks
      <3>6. Failures <= 1 /\ ~Aborts
        BY <1>20, <2>4, <3>4 DEF EpaperInv, DemosOnly, NoPromptIsMissed
      <3>7. ASSUME view.ota.phase # "idle" PROVE FALSE
        <4>1. ota.failures >= 1
          BY <2>4, <3>6, <3>7 DEF EpaperInv, Overtaken
        <4>2. ota.phase # "idle"
          BY <1>6, <2>2, <3>7
        <4>3. ota.failures < Failures
          BY <1>3, <3>4, <3>6, <4>2 DEF Ends
        <4>4. ota.failures \in Nat /\ Failures \in Nat
          BY DEF EpaperInv, EpaperTypes, Sessions, App!ConstantsOK
        <4> QED BY <3>6, <4>1, <4>3, <4>4
      <3> QED BY <2>2, <3>5, <3>7
    <2> QED BY <2>3, <2>4
  <1>21. view'.passkey \/ (view'.ota.phase # "idle" /\ ota'.phase # "idle")
           => ~view'.diagnostic
    BY <1>7, <1>9 DEF Looks
  <1>22. boots' = boots
    BY <1>2 DEF Draws
  <1> QED BY <1>14, <1>15, <1>16, <1>17, <1>18, <1>19, <1>20, <1>21, <1>22 DEF EpaperInv

LEMMA BootFacts ==
    ASSUME App!ConstantsOK, NEW r \in 0..2, NEW i \in 0..1
    PROVE  LET b == App!Boot(r, i)
           IN  /\ b \in LoopViews /\ ~b.diagnostic /\ b.force /\ ~b.passkey
               /\ b.ota = App!NoOta /\ b.reboot = Final + 1
  <1>1. App!NoOta \in Sessions
    BY DEF App!NoOta, Sessions, App!Phases, App!Errors, App!ConstantsOK
  <1>2. Final + 1 \in 0..(Final + 1) /\ 0 \in 0..Banner /\ 0 \in 0..IdleTime
    BY DEF App!ConstantsOK
  <1>3. (r = 2) \in BOOLEAN
    OBVIOUS
  <1> DEFINE b == App!Boot(r, i)
  <1>4. b \in LoopViews
    BY <1>1, <1>2, <1>3 DEF App!Boot, LoopViews, App!Pages
  <1>5. /\ ~b.diagnostic /\ b.force /\ ~b.passkey /\ b.ota = App!NoOta
        /\ b.reboot = Final + 1
    BY DEF App!Boot
  <1> QED BY <1>4, <1>5

\* A board that boots has drawn nothing.
LEMMA BootInv ==
    ASSUME App!ConstantsOK, NEW r \in 0..2, NEW i \in 0..1,
           view = App!Boot(r, i), ota = App!NoOta, frame = App!NoFrame
    PROVE  EpaperInv /\ Discreet
  <1>1. /\ view \in LoopViews /\ ~view.diagnostic /\ view.force /\ ~view.passkey
        /\ view.ota = App!NoOta /\ view.reboot = Final + 1
    BY BootFacts
  <1>2. App!NoOta.phase = "idle" /\ App!NoFrame.scene = "none" /\ App!Foreign.scene = "diagnostic"
    BY DEF App!NoOta, App!NoFrame, App!Foreign
  <1>3. frame # App!Foreign
    BY <1>2
  <1>4. ota \in Sessions
    BY DEF App!NoOta, Sessions, App!Phases, App!Errors, App!ConstantsOK
  <1>5. ~(view.reboot <= Final)
    BY <1>1 DEF App!ConstantsOK
  <1> QED BY <1>1, <1>2, <1>3, <1>4, <1>5
          DEF EpaperInv, EpaperTypes, FrameFollows, App!SceneIsDrawn, DemosOnly, Overtaken,
              FinalDrawn, Discreet

\* A restart follows the deadline's frame.
LEMMA RestartFacts ==
    ASSUME App!ConstantsOK, EpaperInv, App!Restart
    PROVE  EpaperInv' /\ Discreet' /\ App!FinalFrameIsSeen
  <1>0. view \in LoopViews /\ ota \in Sessions
    BY DEF EpaperInv, EpaperTypes
  <1>1. view.rotation \in 0..2 /\ view.idle \in 0..1 /\ view.reboot \in 0..(Final + 1)
    BY <1>0, ViewParts
  <1>2. EpaperInv' /\ Discreet'
    <2>1. view' = App!Boot(view.rotation, view.idle) /\ ota' = App!NoOta /\ frame' = App!NoFrame
      BY DEF App!Restart
    <2> DEFINE r == view.rotation
               i == view.idle
    <2>2. r \in 0..2 /\ i \in 0..1 /\ view' = App!Boot(r, i)
      BY <1>1, <2>1
    <2> HIDE DEF r, i
    <2>3. /\ view' \in LoopViews /\ ~view'.diagnostic /\ view'.force /\ ~view'.passkey
          /\ view'.ota = App!NoOta /\ view'.reboot = Final + 1
      BY <2>2, BootFacts
    <2>4. App!NoOta.phase = "idle" /\ App!NoFrame.scene = "none" /\ App!Foreign.scene = "diagnostic"
      BY DEF App!NoOta, App!NoFrame, App!Foreign
    <2>5. frame' # App!Foreign
      BY <2>1, <2>4
    <2>6. ota' \in Sessions
      BY <2>1 DEF App!NoOta, Sessions, App!Phases, App!Errors, App!ConstantsOK
    <2>7. ~(view'.reboot <= Final)
      BY <2>3 DEF App!ConstantsOK
    <2> QED BY <2>1, <2>3, <2>4, <2>5, <2>6, <2>7
            DEF EpaperInv, EpaperTypes, FrameFollows, App!SceneIsDrawn, DemosOnly, Overtaken,
                FinalDrawn, Discreet
  <1>3. PICK dt \in 0..1 : App!Restarts(App!Snapshot(App!Waited(view, dt)), settled)
    BY DEF App!Restart
  <1> DEFINE waited == App!Waited(view, dt)
             begun == App!Snapshot(waited)
  <1>4. /\ waited \in LoopViews
        /\ waited.reboot = IF view.reboot > Final THEN view.reboot ELSE App!Less(view.reboot, dt)
    BY <1>0, WaitedFacts
  <1>5. begun.reboot = waited.reboot
    BY <1>0, <1>4, SnapshotFacts
  <1>6. begun.reboot <= Final /\ (settled \/ begun.reboot = 0)
    BY <1>3 DEF App!Restarts
  <1> HIDE DEF waited, begun
  <1>7. view.reboot <= Final /\ (settled \/ view.reboot <= 1)
    BY <1>1, <1>4, <1>5, <1>6 DEF App!Less, App!ConstantsOK
  <1>8. frame.scene = "rebooting"
    BY <1>7 DEF EpaperInv, FinalDrawn
  <1> QED BY <1>2, <1>7, <1>8 DEF App!FinalFrameIsSeen

\* The session moves, and the panel refreshes, between two iterations.
LEMMA MeanwhileFacts ==
    ASSUME App!ConstantsOK, EpaperInv, App!OtaMoves \/ App!Refresh
    PROVE  EpaperInv' /\ (Discreet => Discreet') /\ view' = view /\ boots' = boots
  <1>1. view' = view /\ frame' = frame /\ boots' = boots
    BY DEF App!OtaMoves, App!Refresh
  <1>2. ota \in Sessions /\ view \in LoopViews
    BY DEF EpaperInv, EpaperTypes
  <1>3. Ends(ota', ota)
    <2>1. CASE App!OtaMoves
      BY <1>2, <2>1, MovedFacts DEF App!OtaMoves
    <2>2. CASE App!Refresh
      BY <1>2, <2>2, EndsHere DEF App!Refresh
    <2> QED BY <2>1, <2>2
  <1>4. EpaperTypes' /\ Overtaken' /\ FinalDrawn'
    <2>1. EpaperTypes'
      BY <1>1, <1>2, <1>3 DEF EpaperTypes, Ends
    <2>2. Overtaken'
      <3>1. ota.failures \in Nat /\ ota'.failures \in Nat /\ ota'.failures >= ota.failures
        BY <1>2, <1>3 DEF Ends, Sessions
      <3> QED BY <1>1, <3>1 DEF EpaperInv, Overtaken
    <2>3. FinalDrawn'
      BY <1>1, <1>3 DEF EpaperInv, FinalDrawn, Ends
    <2> QED BY <2>1, <2>2, <2>3
  <1>5. FrameFollows' /\ App!SceneIsDrawn' /\ DemosOnly' /\ (Discreet => Discreet')
    BY <1>1 DEF EpaperInv, FrameFollows, App!SceneIsDrawn, DemosOnly, Discreet, App!Frame
  <1> QED BY <1>1, <1>4, <1>5 DEF EpaperInv

LEMMA EpaperSteps ==
    ASSUME App!ConstantsOK, EpaperInv, [App!Next]_(App!vars)
    PROVE  EpaperInv' /\ (NoPromptIsMissed /\ Discreet => Discreet')
  <1>1. CASE UNCHANGED App!vars
    BY <1>1 DEF App!vars, EpaperInv, EpaperTypes, FrameFollows, App!SceneIsDrawn, DemosOnly,
                Overtaken, FinalDrawn, Discreet, App!Frame
  <1> QED BY <1>1, IterationFacts, RestartFacts, MeanwhileFacts DEF App!Next

LEMMA EpaperStarts ==
    ASSUME App!ConstantsOK, App!Init
    PROVE  EpaperInv /\ Discreet
  <1>1. PICK r \in 0..2, i \in 0..1 : view = App!Boot(r, i) /\ ota = App!NoOta /\ frame = App!NoFrame
    BY DEF App!Init
  <1> QED BY <1>1, BootInv

\* The view keeps its type, every change of it is drawn or asked for, and the
\* deadline of a restart comes with its frame, in every state of the board.
THEOREM EpaperInvariant ==
    ASSUME App!ConstantsOK
    PROVE  App!Spec => []EpaperInv
  <1>1. App!Init => EpaperInv
    BY EpaperStarts
  <1>2. EpaperInv /\ [App!Next]_(App!vars) => EpaperInv'
    BY EpaperSteps
  <1> QED BY <1>1, <1>2, PTL DEF App!Spec

\* Although the board draws on demand, the frame submitted last is the one of
\* the present page, prompt, orientation and warning (`force' in app_main).
THEOREM EpaperSceneIsDrawn ==
    ASSUME App!ConstantsOK
    PROVE  App!Spec => []App!SceneIsDrawn
  <1>1. EpaperInv => App!SceneIsDrawn
    BY DEF EpaperInv
  <1> QED BY <1>1, EpaperInvariant, PTL

\* An iteration that ends under a prompt has drawn it, or drew it before: no
\* diagnostic hides it.
THEOREM EpaperPromptsAreSeen ==
    ASSUME App!ConstantsOK, NoPromptIsMissed
    PROVE  App!Spec => [][App!PromptsAreSeen]_(App!vars)
  <1>1. App!Init => EpaperInv /\ Discreet
    BY EpaperStarts
  <1>2. EpaperInv /\ Discreet /\ [App!Next]_(App!vars) => (EpaperInv /\ Discreet)'
    BY EpaperSteps
  <1>3. EpaperInv /\ Discreet /\ Discreet' /\ [App!Next]_(App!vars) => [App!PromptsAreSeen]_(App!vars)
    <2> SUFFICES ASSUME EpaperInv, Discreet', App!Next PROVE App!PromptsAreSeen
      OBVIOUS
    <2>1. CASE App!Iteration
      <3>1. view'.passkey \/ (view'.ota.phase # "idle" /\ ota'.phase # "idle")
              => ~view'.diagnostic
        BY <2>1, IterationFacts
      <3> QED BY <3>1 DEF App!PromptsAreSeen, Discreet
    <2>2. CASE App!Restart
      <3>1. view' = App!Boot(view.rotation, view.idle)
        BY <2>2 DEF App!Restart
      <3>2. view'.passkey = FALSE /\ view'.ota.phase = "idle"
        BY <3>1 DEF App!Boot, App!NoOta
      <3> QED BY <3>2 DEF App!PromptsAreSeen
    <2>3. CASE App!OtaMoves \/ App!Refresh
      BY <2>3 DEF App!OtaMoves, App!Refresh, App!PromptsAreSeen
    <2> QED BY <2>1, <2>2, <2>3 DEF App!Next
  <1> QED BY <1>1, <1>2, <1>3, PTL DEF App!Spec

\* The device restarts once the RESTARTING frame has been refreshed, or when
\* its deadline is over.
THEOREM EpaperFinalFrame ==
    ASSUME App!ConstantsOK
    PROVE  App!Spec => [][App!FinalFrameIsSeen]_(App!vars)
  <1>1. EpaperInv /\ [App!Next]_(App!vars) => [App!FinalFrameIsSeen]_(App!vars)
    BY IterationFacts, RestartFacts, MeanwhileFacts DEF App!Next, App!FinalFrameIsSeen
  <1> QED BY <1>1, EpaperInvariant, PTL DEF App!Spec

\* The session and the parts of the view keep their ranges.
THEOREM EpaperTypeOK ==
    ASSUME App!ConstantsOK
    PROVE  App!Spec => []App!TypeOK
  <1>1. EpaperInv => App!TypeOK
    BY ViewParts DEF EpaperInv, EpaperTypes, App!TypeOK, Sessions
  <1> QED BY <1>1, EpaperInvariant, PTL

=============================================================================
