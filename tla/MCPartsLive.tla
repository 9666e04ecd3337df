---------------------------- MODULE MCPartsLive ----------------------------
(***************************************************************************)
(* What the parts of MCParts must eventually do, for TLC, each under the   *)
(* fairness of its own tasks.                                              *)
(***************************************************************************)
EXTENDS MCParts, MCBoards

\* FreeRTOS runs the worker at priority 3, and every turn of it ends.
CameraFair == WF_all(Runs("capture", Camera("capture")!Worker /\ UNCHANGED From8))

\* Transfers end, the loop shows a frame every 250 ms, and show() waits long
\* enough to find the semaphore again and again.
OutputFair ==
    /\ WF_all(Runs("output", Output!OnDone /\ UNCHANGED From10))
    /\ SF_all(Runs("output", Output!Show /\ r2' = r1 /\ UNCHANGED From10))

\* The tasks run, and a refresh ends: the driver bounds its wait for BUSY.
RefreshFair ==
    /\ WF_all(Runs("power", Refresh("power")!Notify /\ UNCHANGED From16))
    /\ WF_all(Runs("power", Refresh("power")!Capture /\ UNCHANGED From16))
    /\ WF_all(Runs("power", Refresh("power")!Drive /\ UNCHANGED From16))

\* The tasks and the interrupts run, if late.
FeedFair ==
    /\ WF_all(Runs("late", Feed("late")!Update /\ UNCHANGED From8))
    /\ WF_all(Runs("late", Feed("late")!Peripheral /\ UNCHANGED From8))
    /\ \A t \in 0..1 : WF_all(Runs("late", Feed("late")!Feeds(t) /\ UNCHANGED From8))

\* The loop polls and retries for ever.
TurnFair ==
    /\ WF_all(Runs("upright", Turn("upright")!Probe /\ UNCHANGED From12))
    /\ WF_all(Runs("upright", Turn("upright")!StartDisplay /\ UNCHANGED From12))
    /\ WF_all(Runs("upright", Turn("upright")!Poll /\ UNCHANGED From12))
    /\ SF_all(Runs("upright", Turn("upright")!Rotate /\ UNCHANGED From12))

\* Every task is scheduled; a task waiting for the lock gets it in the end.
MosaicoFair ==
    /\ WF_all(Runs("ends", Mosaico("ends")!Begin /\ UNCHANGED From17))
    /\ WF_all(Runs("ends", Mosaico("ends")!Paused /\ UNCHANGED From17))
    /\ WF_all(Runs("ends", Mosaico("ends")!Orient /\ UNCHANGED From17))
    /\ SF_all(Runs("ends", Mosaico("ends")!Invalidate /\ UNCHANGED From17))
    /\ WF_all(Runs("ends", Mosaico("ends")!Resume /\ UNCHANGED From17))
    /\ WF_all(Runs("ends", Mosaico("ends")!WorkerPauses /\ UNCHANGED From17))
    /\ WF_all(Runs("ends", Mosaico("ends")!WorkerResumes /\ UNCHANGED From17))
    /\ SF_all(Runs("ends", Mosaico("ends")!WorkerLocks /\ UNCHANGED From17))
    /\ WF_all(Runs("ends", Mosaico("ends")!WaitForEdge /\ UNCHANGED From17))
    /\ WF_all(Runs("ends", Mosaico("ends")!Flush(FALSE) /\ UNCHANGED From17))
    /\ WF_all(Runs("ends", Mosaico("ends")!Flushed /\ UNCHANGED From17))
    /\ WF_all(Runs("ends", Mosaico("ends")!WorkerStarts /\ UNCHANGED From17))
    /\ WF_all(Runs("ends", Mosaico("ends")!PreviewDone /\ UNCHANGED From17))

\* The tasks run, and the timer's interrupt comes.
BuzzFair ==
    /\ WF_all(Runs("melody", Buzz("melody")!Job /\ UNCHANGED From8))
    /\ WF_all(Runs("melody", Buzz("melody")!Tick /\ UNCHANGED From8))
    /\ WF_all(Runs("melody", Buzz("melody")!Call("first") /\ UNCHANGED From8))

LiveInit ==
    /\ CameraInit \/ OutputInit \/ RefreshInit \/ FeedInit \/ TurnInit \/ MosaicoInit \/ BuzzInit
    /\ program \in {"capture", "output", "power", "late", "upright", "ends", "melody"}
LiveNext == CameraNext \/ OutputNext \/ RefreshNext \/ FeedNext \/ TurnNext \/ MosaicoNext \/ BuzzNext
FairSpec ==
    /\ LiveInit /\ [][LiveNext]_all
    /\ CameraFair /\ OutputFair /\ RefreshFair /\ FeedFair /\ TurnFair /\ MosaicoFair /\ BuzzFair

(***************************************************************************)
(* Properties.                                                             *)
(***************************************************************************)

\* Once capture is turned off or not allowed, the camera is released, unless it
\* is allowed again before or cannot be released.
CameraIsReleased ==
    (On("capture") /\ ~Camera("capture")!MayCapture) ~>
        (On("capture") /\ (Camera("capture")!MayCapture \/ Camera("capture")!Released))

\* A frame that was handed over is driven, or one that replaced it: no wake-up
\* of the ePaper's task is lost; a frame that stays on the RLCD's canvas reaches
\* the glass, whatever late interrupt or comparison came between; and a refresh
\* of the Read Pico ends: no task waits for a line, a frame or another task for
\* ever, whether the scan outruns the tasks or not.  So do the samples of a job
\* of the buzzer: no wake-up of its writes is lost, and the job ends.
FramesArrive ==
    /\ (On("power") /\ r4) ~> (On("power") /\ ~r4)
    /\ \A f \in {1, 2, 3} : <>[](On("output") /\ r1 = f) => <>[](On("output") /\ r6 = f)
    /\ (On("late") /\ r1.pc # "idle") ~> (On("late") /\ r1.pc = "idle")
    /\ (On("melody") /\ r4.pc # "none") ~> (On("melody") /\ r4.pc = "none")

\* "Holding the lock here strands the worker inside esp_lv_adapter_lock() and
\* both tasks wait forever": every turn of the picture ends, and a board that
\* stays in a rotation ends up with picture and touch upright, whatever calls
\* failed on the way.
TurnsEnd ==
    /\ \A r \in 0..3 :
          <>[](On("upright") /\ Turn("upright")!Held = r) =>
              <>[](On("upright") /\ Turn("upright")!Upright(r))
    /\ (On("ends") /\ r3 = "pausing") ~> (On("ends") /\ r3 = "loop")
=============================================================================
