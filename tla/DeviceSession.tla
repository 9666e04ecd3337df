----------------------------- MODULE DeviceSession -----------------------------
(***************************************************************************)
(* One DeviceSession, its supervisor and the operations of the tray on it  *)
(* (bridge/service/multi_device.py, firmware_install.py, devices.py,       *)
(* ui/app.py).                                                             *)
(*                                                                         *)
(* Five tasks share the session's exclusive lock and its DeviceManager:    *)
(* Runner is the supervisor, which runs DeviceSession.run() again and      *)
(* again; Clock is _sync_time(); Screen is _send_screen_command(); Install *)
(* is install_firmware(); Repair is _repair_async() after the user agreed. *)
(* job[u] says where a task stands outside the calls DeviceLink describes. *)
(***************************************************************************)
EXTENDS DeviceLink, Sequences, SequencesExt

CONSTANTS MaxOffers,    \* snapshots the bridge collects
          Wishes,       \* what the user may ask for
          MaxRequests   \* and how often, where the world is bounded

AllWishes == {"screen", "repair", "install", "cancel", "forget"}
Nobody == "nobody"  \* no task
ASSUME SessionAssumption ==
    /\ MaxOffers \in Nat /\ MaxRequests \in Nat /\ Wishes \subseteq AllWishes
    /\ Nobody \notin Tasks

VARIABLES
    job,        \* per task: its place in the session's code
    lockq,      \* _exclusive_lock: its owner, then its waiters
    closing,    \* DeviceSession._closing
    linked,     \* DeviceSession._connected
    exclusive,  \* _exclusive_task; _exclusive_active is exclusive # Nobody
    wake,       \* _wake, an Event
    offered,    \* _offered_revision; _pending is that snapshot
    delivered,  \* _delivered_revision
    revision,   \* the revision _publish() is sending
    sameStatus, \* the status object Screen read is still the session's
    fate,       \* how run() ends: the supervisor restarts it or stops
    owner,      \* how far TrayDevices.forget() has come
    requests,   \* requests left to the user
    shown       \* the revision the panel shows, per provider

lockVars == <<lockq, exclusive>>
deliveryVars == <<wake, offered, delivered, revision>>
lifeVars == <<closing, linked, fate>>
vars == <<linkVars, job, lockVars, deliveryVars, lifeVars, sameStatus, owner, requests, shown>>

Providers == {"codex", "claude"}
Ended == {"unrun", "gone", "dead"}
RunnerJobs == {"new", "lock0", "connect0", "wait", "tidy", "relock", "reconnect",
               "publock", "pubconnect", "codex", "claude",
               "final1", "final2", "final3", "final4", "delay"} \cup Ended
ClockJobs == {"off", "start", "lock", "sync"}
ScreenJobs == {"off", "start", "lock", "command"}
InstallJobs == {"off", "asking", "deciding", "lock", "preflight", "manifest", "confirm",
                "firmware", "reboot", "rejoin", "report", "abort"}
RepairJobs == {"off", "stopClock", "stopScreen", "lock", "reset"}

\* Every variable has its type, and a transport can always be made.
TypeOK ==
    /\ LinkTypeOK /\ Unused # {}
    /\ job \in [Tasks -> RunnerJobs \cup ClockJobs \cup ScreenJobs \cup InstallJobs \cup RepairJobs]
    /\ job[Runner] \in RunnerJobs /\ job[Clock] \in ClockJobs /\ job[Screen] \in ScreenJobs
    /\ job[Install] \in InstallJobs /\ job[Repair] \in RepairJobs
    /\ lockq \in Seq(Tasks) /\ Len(lockq) <= 5
    /\ closing \in BOOLEAN /\ linked \in BOOLEAN /\ wake \in BOOLEAN /\ sameStatus \in BOOLEAN
    /\ exclusive \in {Nobody, Install, Repair}
    /\ {offered, delivered, revision} \subseteq 0 .. MaxOffers
    /\ fate \in {"restart", "dead", "gone"}
    /\ owner \in {"owned", "stopUpdate", "stopRunner", "stopScreen", "forgotten"}
    /\ requests \in 0 .. MaxRequests
    /\ shown \in [Providers -> 0 .. MaxOffers]

Init ==
    /\ LinkInit
    /\ job = [u \in Tasks |-> IF u = Runner THEN "new" ELSE "off"]
    /\ lockq = <<>> /\ exclusive = Nobody
    /\ closing = FALSE /\ linked = FALSE /\ fate = "restart"
    /\ wake = FALSE /\ offered = 0 /\ delivered = 0 /\ revision = 0
    /\ sameStatus = FALSE /\ owner = "owned"
    /\ requests = MaxRequests
    /\ shown = [p \in Providers |-> 0]

(***************************************************************************)
(* Derived state, and changes several steps make.                          *)
(***************************************************************************)
RunnerTurn == job[Runner] = "final4" /\ At(Runner, {"idle"})
Quiet == Returned = {} /\ ~RunnerTurn  \* no task is between two awaits
Idle(u) == At(u, {"idle"})
Off(u) == job[u] = "off"
Holds(u) == lockq # <<>> /\ Head(lockq) = u
LockJustGranted == lockq # <<>> /\ Idle(Head(lockq))
Without(u) ==
    IF \E i \in DOMAIN lockq : lockq[i] = u
    THEN RemoveAt(lockq, CHOOSE i \in DOMAIN lockq : lockq[i] = u)
    ELSE lockq
SessionConnected == linked /\ Connected
InService == owner \in {"owned", "stopUpdate"}
Connecting == job[Runner] \in {"connect0", "reconnect", "pubconnect"}  \* _connect_task
Request(wish) ==
    /\ wish \in Wishes
    /\ IF FaultsBounded THEN requests > 0 /\ requests' = requests - 1 ELSE UNCHANGED requests

\* Mistake: _cancel() looks for tasks that are done.
IfDone(u) == IF Off(u) THEN {u} ELSE {}

Job(u, j) == job' = [job EXCEPT ![u] = j]
Idles(u) == call' = Goes(u, "none", "idle", None)
Doom(set) == doomed' = doomed \cup set
IfAlive(u) == IF Off(u) THEN {} ELSE {u}
Locks(u) == lockq' = Append(lockq, u)
Unlocks(u) == lockq' = Without(u)
Keeps(u, t) == kept' = [kept EXCEPT ![u] = t]

linkRest == <<managerVars, client, interrupted, faults>>  \* all but call, kept and doomed
sessionRest == <<sameStatus, owner, requests, shown>>

(***************************************************************************)
(* DeviceSession.run() and _supervise_session().                           *)
(***************************************************************************)
\* The finally clause of run() cancels the exclusive operation, the screen
\* command and the time synchronisation, and waits for each that is alive.
StopsFrom(first) ==
    LET alive == [final1 |-> {exclusive} \ {Nobody}, final2 |-> IfAlive(Screen),
                  final3 |-> IfAlive(Clock), final4 |-> {}]
        stages == <<"final1", "final2", "final3", "final4">>
        next == Min({i \in first .. 4 : i = 4 \/ alive[stages[i]] # {}})
    IN  /\ Job(Runner, stages[next])
        /\ doomed' = (doomed \ {Runner}) \cup alive[stages[next]]

\* Leaving run() begins.
Finally(f) ==
    /\ StopsFrom(1)
    /\ closing' = TRUE /\ linked' = FALSE /\ fate' = f
    /\ Idles(Runner) /\ Unlocks(Runner)
    /\ UNCHANGED <<linkRest, kept, exclusive, deliveryVars, sessionRest>>

\* With the lock: connect(), if that is what the lock is for or what
\* publishing needs first; else publish what is pending now.
Captures == revision' = offered
WithLock(j) ==
    \/ /\ j = "lock0" /\ Job(Runner, "connect0")
       /\ Connects(Runner) /\ UNCHANGED revision
    \/ /\ j = "relock" /\ Job(Runner, "reconnect")
       /\ Connects(Runner) /\ UNCHANGED revision
    \/ /\ j = "publock" /\ ~Connected /\ Job(Runner, "pubconnect")
       /\ Connects(Runner) /\ UNCHANGED revision
    \/ /\ j = "publock" /\ Connected /\ Job(Runner, "codex")
       /\ Captures /\ Sends(Runner)

\* A free lock is taken without an await.  lq: the lock as the step leaves it.
TakesLock(j, lq) ==
    /\ lockq' = Append(lq, Runner)
    /\ \/ lq = <<>> /\ WithLock(j)
       \/ /\ lq # <<>> /\ Job(Runner, j) /\ Idles(Runner)
          /\ UNCHANGED <<managerVars, client, cancelVars, revision>>
RunnerGetsLock ==
    /\ Holds(Runner) /\ Idle(Runner) /\ Runner \notin doomed
    /\ WithLock(job[Runner])
    /\ UNCHANGED <<kept, faults, lockVars, wake, offered, delivered, lifeVars, sessionRest>>

\* run() begins, the first time or again.
RunnerStarts ==
    /\ job[Runner] \in {"new", "delay"} /\ Runner \notin doomed
    /\ closing' = FALSE
    /\ TakesLock("lock0", lockq)
    /\ UNCHANGED <<kept, faults, exclusive, wake, offered, delivered, linked, fate, sessionRest>>

\* The end of a wait: clear _wake and, with a snapshot, publish it.
TakesSnapshot(lq) ==
    /\ wake' = FALSE
    /\ \/ /\ offered = 0
          /\ Job(Runner, "wait") /\ Idles(Runner) /\ lockq' = lq
          /\ UNCHANGED <<managerVars, client, cancelVars, revision>>
       \/ offered > 0 /\ TakesLock("publock", lq)
RunnerWakes ==
    /\ job[Runner] = "wait" /\ wake /\ Runner \notin doomed
    /\ TakesSnapshot(lockq)
    /\ UNCHANGED <<kept, faults, exclusive, offered, delivered, lifeVars, sessionRest>>

\* A second without a wake-up finds the link down: stop the time
\* synchronisation, then reconnect.
RunnerTimesOut ==
    /\ job[Runner] = "wait" /\ ~wake /\ Runner \notin doomed
    /\ ~SessionConnected /\ exclusive = Nobody
    /\ \/ /\ ~Off(Clock)
          /\ Job(Runner, "tidy") /\ Doom({Clock})
          /\ UNCHANGED <<managerVars, client, call, interrupted, lockq, revision>>
       \/ Off(Clock) /\ TakesLock("relock", lockq)
    /\ UNCHANGED <<kept, faults, exclusive, wake, offered, delivered, lifeVars, sessionRest>>
RunnerTidied ==
    /\ job[Runner] = "tidy" /\ Off(Clock) /\ Runner \notin doomed
    /\ TakesLock("relock", lockq)
    /\ UNCHANGED <<kept, faults, exclusive, wake, offered, delivered, lifeVars, sessionRest>>

\* TransportReset from _publish(): try again with the newest snapshot.
ResetEndsPublish ==
    /\ wake' = TRUE /\ Job(Runner, "wait")
    /\ Idles(Runner) /\ Unlocks(Runner)
    /\ UNCHANGED <<linkRest, kept, doomed, exclusive, offered, delivered, revision, lifeVars, sessionRest>>

\* Mistake: run() connects again without letting go of the lock.
RetriesInPlace(j) == UNCHANGED lockq /\ WithLock(j)

\* connect() returns to _connect().  Interrupted, run() leaves the lock to
\* whoever waits for it and asks for it again.
Requeues(j) == TakesLock(j, Without(Runner))
RunnerConnected(a) ==
    /\ Connecting
    /\ \/ /\ a = "ok" /\ job[Runner] = "connect0"
          /\ linked' = TRUE /\ Job(Runner, "wait") /\ Idles(Runner) /\ Unlocks(Runner)
          /\ UNCHANGED <<linkRest, kept, doomed, exclusive, deliveryVars, closing, fate, sessionRest>>
       \/ /\ a = "ok" /\ job[Runner] = "reconnect"
          /\ TakesSnapshot(Without(Runner))
          /\ UNCHANGED <<kept, faults, exclusive, offered, delivered, lifeVars, sessionRest>>
       \/ /\ a = "ok" /\ job[Runner] = "pubconnect"
          /\ Captures /\ Sends(Runner) /\ Job(Runner, "codex")
          /\ UNCHANGED <<kept, faults, lockVars, wake, offered, delivered, lifeVars, sessionRest>>
       \/ /\ a = "interrupted" /\ job[Runner] = "connect0"
          /\ Requeues("lock0")
          /\ UNCHANGED <<kept, faults, exclusive, wake, offered, delivered, lifeVars, sessionRest>>
       \/ /\ a = "interrupted" /\ job[Runner] = "reconnect"
          /\ Job(Runner, "wait") /\ Unlocks(Runner) /\ Idles(Runner)
          /\ UNCHANGED <<linkRest, kept, doomed, exclusive, deliveryVars, lifeVars, sessionRest>>
       \/ /\ a = "interrupted" /\ job[Runner] = "pubconnect"
          /\ ResetEndsPublish
       \/ a = "cleanup" /\ Finally("dead")
       \/ a = "cancelled" /\ Finally("gone")

\* Mistakes: what was offered meanwhile counts as delivered, or every
\* publication as a new revision.
RecordsLatest == delivered' = offered
CountsDelivery == delivered' = delivered + 1

\* send_command() returns to _publish(): the second value, the delivery, or
\* the end of run().
RecordsDelivery == delivered' = IF revision > delivered THEN revision ELSE delivered
RunnerSent(a) ==
    \/ /\ a = "ok" /\ job[Runner] = "codex"
       /\ Sends(Runner) /\ Job(Runner, "claude")
       /\ UNCHANGED <<kept, faults, lockVars, deliveryVars, lifeVars, sessionRest>>
    \/ /\ a = "ok" /\ job[Runner] = "claude"
       /\ RecordsDelivery
       /\ job' = [job EXCEPT ![Runner] = "wait", ![Clock] = IF @ = "off" THEN "start" ELSE @]
       /\ Idles(Runner) /\ Unlocks(Runner)
       /\ UNCHANGED <<linkRest, kept, doomed, exclusive, wake, offered, revision, lifeVars, sessionRest>>
    \/ /\ job[Runner] \in {"codex", "claude"}
       /\ \/ a = "reset" /\ ResetEndsPublish
          \/ a \in {"rejected", "crash"} /\ Finally("restart")
          \/ a = "cleanup" /\ Finally("dead")
          \/ a = "cancelled" /\ Finally("gone")

\* One of them has ended; after the last, the manager is closed.
RunnerStops ==
    /\ Runner \notin doomed
    /\ \/ job[Runner] = "final1" /\ exclusive = Nobody /\ StopsFrom(2)
       \/ job[Runner] = "final2" /\ Off(Screen) /\ StopsFrom(3)
       \/ job[Runner] = "final3" /\ Off(Clock) /\ StopsFrom(4)
    /\ UNCHANGED <<linkRest, call, kept, lockVars, deliveryVars, lifeVars, sessionRest>>
RunnerCloses ==
    /\ RunnerTurn
    /\ Closes(Runner)
    /\ UNCHANGED <<kept, faults, job, lockVars, deliveryVars, lifeVars, sessionRest>>

\* Mistake: run() leaves an undelivered snapshot to the next offer.
ForgetsPending == UNCHANGED wake

\* The supervisor waits and restarts run(), or ends.  A snapshot is published
\* again by the next run().
KeepsPending == wake' = (wake \/ offered > 0)
RunnerEnds(a) ==
    /\ job[Runner] = "final4"
    /\ \/ /\ a = "ok"
          /\ KeepsPending
          /\ Job(Runner, IF fate = "restart" THEN "delay" ELSE fate)
       \/ /\ a = "cleanup" /\ Job(Runner, "dead") /\ UNCHANGED wake
       \/ /\ a = "cancelled" /\ Job(Runner, "gone") /\ UNCHANGED wake
    /\ Idles(Runner)
    /\ UNCHANGED <<linkRest, kept, doomed, lockVars, offered, delivered, revision, lifeVars, sessionRest>>

\* The supervisor is cancelled where it is not in a call.  A second
\* cancellation in the finally clause leaves the rest of it out.
RunnerCancelled ==
    /\ Runner \in doomed /\ Idle(Runner)
    /\ \/ /\ job[Runner] \in {"wait", "lock0", "relock", "publock", "tidy"}
          /\ job[Runner] = "tidy" => Off(Clock)
          /\ Finally("gone")
       \/ /\ \/ job[Runner] \in {"new", "delay"}
             \/ job[Runner] = "final1" /\ exclusive = Nobody
             \/ job[Runner] = "final2" /\ Off(Screen)
             \/ job[Runner] = "final3" /\ Off(Clock)
          /\ Job(Runner, IF job[Runner] = "new" THEN "unrun" ELSE "gone")
          /\ doomed' = doomed \ {Runner}
          /\ UNCHANGED <<linkRest, call, kept, lockVars, deliveryVars, lifeVars, sessionRest>>

(***************************************************************************)
(* _sync_time().                                                           *)
(***************************************************************************)
TaskVars == <<deliveryVars, lifeVars, sessionRest>>

TaskEnds(u) ==
    /\ Job(u, "off") /\ Idles(u) /\ Unlocks(u) /\ Keeps(u, None)
    /\ doomed' = doomed \ {u}

\* Before the lock: a device without a status cannot be asked to sync.
ClockStarts ==
    /\ job[Clock] = "start" /\ Clock \notin doomed
    /\ \/ Connected /\ Job(Clock, "lock") /\ Locks(Clock)
       \/ ~Connected /\ Job(Clock, "off") /\ UNCHANGED lockq
    /\ UNCHANGED <<linkVars, exclusive, TaskVars>>

\* Mistake: _closing is not looked at.
ClockYieldsOnce == exclusive # Nobody

\* With the lock: whether a synchronisation is due is left open.
ClockYields == closing \/ exclusive # Nobody
ClockGetsLock ==
    /\ job[Clock] = "lock" /\ Holds(Clock) /\ Clock \notin doomed
    /\ \/ /\ ~ClockYields
          /\ Job(Clock, "sync") /\ Sends(Clock)
          /\ UNCHANGED <<kept, faults, lockq>>
       \/ TaskEnds(Clock) /\ UNCHANGED linkRest
    /\ UNCHANGED <<exclusive, TaskVars>>

\* Every outcome ends the task, as every outcome of a screen command does.
TaskAnswered(u) ==
    /\ u \in Returned
    /\ \/ u = Clock /\ job[u] = "sync"
       \/ u = Screen /\ job[u] = "command"
    /\ TaskEnds(u)
    /\ UNCHANGED <<linkRest, exclusive, TaskVars>>

(***************************************************************************)
(* _schedule_screen_command() and _send_screen_command().                  *)
(***************************************************************************)
ScreenClicked ==
    /\ InService /\ ~closing /\ Off(Screen)
    /\ Request("screen")
    /\ Job(Screen, "start")
    /\ UNCHANGED <<linkVars, lockVars, deliveryVars, lifeVars, sameStatus, owner, shown>>

ScreenStarts ==
    /\ job[Screen] = "start" /\ Screen \notin doomed
    /\ \/ /\ SessionConnected /\ exclusive = Nobody
          /\ Job(Screen, "lock") /\ Locks(Screen)
          /\ Keeps(Screen, transport) /\ sameStatus' = TRUE
       \/ /\ ~(SessionConnected /\ exclusive = Nobody)
          /\ Job(Screen, "off")
          /\ UNCHANGED <<lockq, kept, sameStatus>>
    /\ UNCHANGED <<managerVars, client, call, cancelVars, faults, exclusive,
                   deliveryVars, lifeVars, owner, requests, shown>>

\* Mistake: any connection will do.
StillConnected == SessionConnected /\ exclusive = Nobody

\* Checked again with the lock: the status read above must still be the one.
StillFit == SessionConnected /\ exclusive = Nobody /\ kept[Screen] = transport /\ sameStatus
ScreenGetsLock ==
    /\ job[Screen] = "lock" /\ Holds(Screen) /\ Screen \notin doomed
    /\ \/ /\ StillFit
          /\ Job(Screen, "command") /\ Sends(Screen)
          /\ UNCHANGED <<kept, faults, lockq>>
       \/ ~StillFit /\ TaskEnds(Screen) /\ UNCHANGED linkRest
    /\ UNCHANGED <<exclusive, TaskVars>>

\* Cancelled before it started or while it waits for the lock.
TaskCancelled(u) ==
    /\ u \in {Clock, Screen} /\ u \in doomed
    /\ job[u] \in {"start", "lock"} /\ Idle(u)
    /\ TaskEnds(u)
    /\ UNCHANGED <<linkRest, exclusive, TaskVars>>

(***************************************************************************)
(* run_exclusive() and the two operations that use it.                     *)
(***************************************************************************)
Admits == ~closing /\ exclusive = Nobody
Leaves(u) == exclusive' = Nobody /\ TaskEnds(u)

\* Repair: stop the background tasks that are alive, one after the other,
\* interrupt _connect_task if there is one, and queue for the lock.  A task
\* that is stopped hands the lock on before gather() wakes Repair.
Interrupts == interrupted' = (interrupted \/ Connecting)
StopsOrInterrupts(tasks) ==
    \/ \E u \in tasks :
          /\ ~Off(u) /\ (u = Screen /\ Clock \in tasks => Off(Clock))
          /\ Job(Repair, IF u = Clock THEN "stopClock" ELSE "stopScreen")
          /\ Doom({u})
          /\ UNCHANGED <<interrupted, lockq>>
    \/ /\ \A u \in tasks : Off(u)
       /\ Interrupts
       /\ Job(Repair, "lock") /\ Locks(Repair)
       /\ UNCHANGED doomed
RepairStarts ==
    /\ owner = "owned" /\ Off(Repair) /\ Admits
    /\ Request("repair")
    /\ exclusive' = Repair
    /\ StopsOrInterrupts({Clock, Screen})
    /\ UNCHANGED <<managerVars, client, call, kept, faults,
                   deliveryVars, lifeVars, sameStatus, owner, shown>>
RepairGoesOn ==
    /\ Repair \notin doomed /\ ~LockJustGranted
    /\ \/ job[Repair] = "stopClock" /\ Off(Clock) /\ StopsOrInterrupts({Screen})
       \/ job[Repair] = "stopScreen" /\ Off(Screen) /\ StopsOrInterrupts({})
    /\ UNCHANGED <<managerVars, client, call, kept, faults, exclusive, TaskVars>>
RepairGetsLock ==
    /\ job[Repair] = "lock" /\ Holds(Repair) /\ Repair \notin doomed
    /\ Job(Repair, "reset") /\ Resets(Repair)
    /\ UNCHANGED <<kept, faults, lockVars, TaskVars>>
RepairEnds ==
    /\ \/ job[Repair] = "reset" /\ Repair \in Returned
       \/ /\ Repair \in doomed
          /\ \/ job[Repair] = "stopClock" /\ Off(Clock)
             \/ job[Repair] = "stopScreen" /\ Off(Screen)
             \/ job[Repair] = "lock"
    /\ Leaves(Repair)
    /\ UNCHANGED <<linkRest, TaskVars>>

\* Mistake: any connection will do.
AnyCurrent == owner = "owned" /\ Connected

\* install_firmware(): bind to the connection, ask it for its status, let the
\* user decide, and check before every step that the binding still holds.
Current == owner = "owned" /\ transport = kept[Install] /\ Connected
InstallStarts ==
    /\ owner = "owned" /\ Off(Install) /\ exclusive = Nobody /\ Connected
    /\ Request("install")
    /\ Job(Install, "asking") /\ Queries(Install) /\ Keeps(Install, transport)
    /\ UNCHANGED <<faults, lockVars, deliveryVars, lifeVars, sameStatus, owner, shown>>
InstallAsked(a) ==
    /\ job[Install] = "asking"
    /\ \/ a = "ok" /\ Current /\ Job(Install, "deciding") /\ Idles(Install)
          /\ UNCHANGED <<kept, doomed, lockq>>
       \/ ~(a = "ok" /\ Current) /\ TaskEnds(Install)
    /\ UNCHANGED <<linkRest, exclusive, TaskVars>>
InstallDecided ==
    /\ job[Install] = "deciding" /\ Install \notin doomed
    /\ \/ /\ Current /\ Admits
          /\ exclusive' = Install
          /\ Job(Install, "lock") /\ Locks(Install)
          /\ UNCHANGED <<call, kept, doomed>>
       \/ TaskEnds(Install) /\ UNCHANGED exclusive
    /\ UNCHANGED <<linkRest, TaskVars>>

\* execute(): the same connection, or nothing; then OtaService.upgrade().
InstallGetsLock ==
    /\ job[Install] = "lock" /\ Holds(Install) /\ Install \notin doomed
    /\ \/ /\ Current
          /\ Job(Install, "preflight") /\ Queries(Install)
          /\ UNCHANGED <<kept, faults, lockVars>>
       \/ ~Current /\ Leaves(Install) /\ UNCHANGED linkRest
    /\ UNCHANGED TaskVars

\* upgrade(): after a failure, ask for the retained error and abort if the
\* manager still has a connection.
UpgradeFails ==
    IF Connected
    THEN /\ Job(Install, "report") /\ Queries(Install)
         /\ UNCHANGED <<kept, faults, lockVars>>
    ELSE Leaves(Install) /\ UNCHANGED linkRest

\* Each command is sent once the one before it was acknowledged; many of the
\* same kind are one here.  After a restart the device is looked for again.
UpgradeOrder == [preflight |-> "manifest", manifest |-> "confirm", confirm |-> "firmware",
                 firmware |-> "reboot", rejoin |-> "reboot"]
Upgrades(a) ==
    /\ job[Install] \notin {"asking", "off"}
    /\ \/ /\ a = "ok" /\ job[Install] \in DOMAIN UpgradeOrder
          /\ Job(Install, UpgradeOrder[job[Install]])
          /\ IF job[Install] \in {"preflight", "confirm"} THEN Sends(Install) ELSE Queries(Install)
          /\ UNCHANGED <<kept, faults, lockVars>>
       \/ /\ job[Install] = "reboot" /\ a \in {"reset", "crash", "cleanup"}
          /\ Job(Install, "rejoin") /\ Connects(Install)
          /\ UNCHANGED <<kept, faults, lockVars>>
       \/ /\ a # "ok" /\ job[Install] \in {"manifest", "confirm", "firmware", "rejoin"}
                             \cup (IF a = "cancelled" THEN {"reboot"} ELSE {})
          /\ UpgradeFails
       \/ /\ a # "cancelled" /\ job[Install] = "report" /\ Connected
          /\ Job(Install, "abort") /\ Sends(Install)
          /\ UNCHANGED <<kept, faults, lockVars>>
       \/ /\ \/ a = "ok" /\ job[Install] = "reboot"
             \/ a # "ok" /\ job[Install] = "preflight"
             \/ job[Install] = "report" /\ (a = "cancelled" \/ ~Connected)
             \/ job[Install] = "abort"
          /\ Leaves(Install) /\ UNCHANGED linkRest
    /\ UNCHANGED TaskVars

\* The user cancels the update, or one of its time limits is over.  Within
\* upgrade() the two are one: asyncio's timeouts cancel the task as well.
BeforeUpgrade == {"asking", "deciding", "lock"}
CancelsInstall ==
    /\ Install \notin doomed
    /\ Doom({Install})
    /\ UNCHANGED <<linkRest, call, kept, job, lockVars, deliveryVars, lifeVars, sameStatus, owner, shown>>
InstallCancelled == job[Install] \in BeforeUpgrade /\ Request("cancel") /\ CancelsInstall
InstallTimesOut ==
    /\ job[Install] \notin BeforeUpgrade \cup {"off"}
    /\ CancelsInstall /\ UNCHANGED requests
InstallUnwinds ==
    /\ Install \in doomed /\ Idle(Install)
    /\ \/ job[Install] = "deciding" /\ TaskEnds(Install) /\ UNCHANGED exclusive
       \/ job[Install] = "lock" /\ Leaves(Install)
    /\ UNCHANGED <<linkRest, TaskVars>>

(***************************************************************************)
(* Offers, and TrayDevices.forget() with remove_session() and close().     *)
(***************************************************************************)
Offer ==
    /\ InService /\ offered < MaxOffers
    /\ offered' = offered + 1
    /\ wake' = TRUE
    /\ UNCHANGED <<linkVars, job, lockVars, delivered, revision, lifeVars, sessionRest>>

ForgetVars == <<linkRest, call, kept, job, deliveryVars, fate, sameStatus, requests, shown>>
Forget ==
    /\ owner = "owned" /\ exclusive = Nobody
    /\ "forget" \in Wishes
    /\ owner' = "stopUpdate"
    /\ Doom(IfAlive(Install))
    /\ UNCHANGED <<ForgetVars, lockVars, closing, linked>>
RemoveSession ==
    /\ owner = "stopUpdate" /\ Off(Install)
    /\ owner' = "stopRunner"
    /\ Doom(IF job[Runner] \in Ended THEN {} ELSE {Runner})
    /\ UNCHANGED <<ForgetVars, lockVars, closing, linked>>
\* forget() met no exclusive operation, and nobody starts one on a panel that is
\* not owned any more: the screen command may be alive, _exclusive_task is not.
CloseSession ==
    /\ owner = "stopRunner" /\ job[Runner] \in Ended
    /\ owner' = "stopScreen"
    /\ closing' = TRUE /\ linked' = FALSE
    /\ Doom(IfAlive(Screen))
    /\ UNCHANGED <<ForgetVars, lockVars>>
SessionClosed ==
    /\ owner = "stopScreen" /\ Off(Screen)
    /\ owner' = "forgotten"
    /\ IF job[Runner] = "unrun" THEN mclosing' = TRUE /\ retry' = TRUE
                                ELSE UNCHANGED <<mclosing, retry>>
    /\ UNCHANGED <<transport, cleanupError, client, call, kept, cancelVars, faults, job,
                   lockVars, deliveryVars, lifeVars, sameStatus, requests, shown>>

(***************************************************************************)
(* The link's steps, and what they change here.                            *)
(***************************************************************************)
linkOnly == <<job, lockVars, deliveryVars, lifeVars, owner, requests>>

LinkProceeds(u) ==
    /\ Proceeds(u)
    /\ sameStatus' = (sameStatus /\ ~(call[u].op = "query" /\ At(u, {"accepted"})))
    /\ UNCHANGED <<linkOnly, shown>>

DeviceCarriesOut(u) ==
    /\ CarriesOut(u)
    /\ shown' = IF job[u] \in Providers THEN [shown EXCEPT ![job[u]] = revision] ELSE shown
    /\ UNCHANGED <<linkOnly, sameStatus>>

\* A task that has just been made runs before the radio is heard again.
Radio(u) ==
    /\ \/ Refuses(u) \/ TimesOut(u) \/ ScanEnds(u) \/ NegotiationFails(u)
       \/ Negotiates(u) /\ job[Clock] # "start" /\ job[Screen] # "start"
    /\ UNCHANGED <<linkOnly, sameStatus, shown>>
Client(t) ==
    /\ LinkDrops(t) \/ CleanupEnds(t)
    /\ UNCHANGED <<linkOnly, sameStatus, shown>>

Continues ==
    \/ \E a \in {call[Runner].pc} \cap Answers : RunnerConnected(a) \/ RunnerSent(a) \/ RunnerEnds(a)
    \/ \E a \in {call[Install].pc} \cap Answers : InstallAsked(a) \/ Upgrades(a)
    \/ TaskAnswered(Clock) \/ TaskAnswered(Screen)
    \/ RepairEnds
    \/ RunnerCloses

System ==
    \/ Continues
    \/ /\ Quiet
       /\ \/ RunnerStarts \/ RunnerGetsLock \/ RunnerWakes \/ RunnerTimesOut \/ RunnerTidied
          \/ RunnerStops \/ RunnerCancelled
          \/ ClockStarts \/ ClockGetsLock \/ ScreenStarts \/ ScreenGetsLock
          \/ TaskCancelled(Clock) \/ TaskCancelled(Screen)
          \/ RepairGoesOn \/ RepairGetsLock
          \/ InstallGetsLock \/ InstallTimesOut \/ InstallUnwinds
          \/ RemoveSession \/ CloseSession \/ SessionClosed
          \/ \E u \in Tasks : LinkProceeds(u) \/ DeviceCarriesOut(u) \/ Radio(u)
          \/ \E t \in Connections : Client(t)

Users ==
    /\ Quiet
    /\ \/ Offer \/ ScreenClicked \/ RepairStarts
       \/ InstallStarts \/ InstallDecided \/ InstallCancelled \/ Forget

Next == System \/ Users
Spec == Init /\ [][Next]_vars
FairSpec == Spec /\ WF_vars(System)

(***************************************************************************)
(* Properties.                                                             *)
(***************************************************************************)
\* A panel is never spoken to through two BLE clients: there is a new one
\* only after the last one's cleanup, and none after a cleanup that failed
\* (DeviceManager.connect(), BleakNusTransport.close(), the quarantine).
OneClient == Cardinality({t \in Connections : client[t] # "none"}) <= 1

\* No BLE client is forgotten: whoever has one is the manager, or a call that
\* will close it or hand it over.
NoOrphan ==
    \A t \in Connections :
        client[t] \in {"linking", "up", "lost"} =>
            t = transport \/ \E u \in Tasks : call[u].on = t

\* What is recorded as delivered is on the panel, for both providers, however
\* offers, reconnections and lost acknowledgements fall (_publish(), run()).
DeliveredIsShown == \A p \in Providers : delivered <= shown[p]

\* A click reaches only the connection it was checked against; it is never
\* sent again on a later one ("Relative commands cannot be replayed safely
\* after an unknown outcome", multi_device.py:104).
ClickStaysOnItsLink ==
    job[Screen] = "command" /\ ~At(Screen, Answers \cup {"dropping"}) =>
        call[Screen].on = kept[Screen]

\* The commands of an update go to the connection the user decided on, and
\* nothing else is in flight there meanwhile (install_firmware.execute(),
\* run_exclusive()).
UpdateKeepsItsLink ==
    job[Install] \in {"preflight", "manifest", "confirm", "firmware"}
            /\ ~At(Install, Answers \cup {"dropping"}) =>
        /\ call[Install].on = kept[Install]
        /\ \A u \in {Runner, Clock, Screen, Repair} : Idle(u)

\* Once forget() has returned, nothing of the session speaks to the panel or
\* looks for it again, though the time synchronisation may still wait for the
\* lock (remove_session(), close(), _sync_time()).
ForgottenIsStill ==
    owner = "forgotten" =>
        /\ job[Runner] \in Ended
        /\ \A u \in {Screen, Install, Repair} : Off(u)
        /\ \A u \in Tasks : Idle(u)

\* ... and the panel is not connected any more ("Detach and close one
\* session", multi_device.py:481).
ForgottenIsReleased ==
    owner = "forgotten" => \A t \in Connections : client[t] \in {"none", "stuck"}

\* The loss of a link is reported to the caller as TransportReset, "callers
\* must reconnect" (transports/base.py:15).
LinkLossIsReported == \A u \in Tasks : ~At(u, {"crash"})

\* The newest snapshot reaches the panel once the faults end, unless the user
\* gives the panel up, its client could not be released, or it is paused as
\* incompatible (run(), _supervise_session(), connect()).
GivenUp == owner # "owned" \/ job[Runner] = "dead" \/ At(Runner, {"paused"})
NewestDelivered == offered > delivered ~> offered = delivered \/ GivenUp

\* A repair that has interrupted a negotiation gets the lock and ends, whether
\* the panel never answers or the session is paused (_connect(), run()).
RepairInterrupts == interrupted ~> Off(Repair)

\* Every repair ends: "Recovery operations may interrupt negotiation before
\* acquiring the lock" (run_exclusive(), multi_device.py:144).
RepairFinishes == ~Off(Repair) ~> Off(Repair)

\* Forgetting a panel ends, whatever its session is doing.
ForgetFinishes == owner # "owned" ~> owner = "forgotten"

===============================================================================
