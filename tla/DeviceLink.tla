------------------------------ MODULE DeviceLink ------------------------------
(***************************************************************************)
(* DeviceManager and the BleakNusTransport it owns, as the tasks of one    *)
(* asyncio loop call them (bridge/service/device_manager.py,               *)
(* bridge/transports/bleak_nus.py).                                        *)
(*                                                                         *)
(* A step runs from one suspension point to the next.  call[u] is the call *)
(* task u has open: the method, where it is suspended and the transport it *)
(* holds in a local variable.  A call that has returned shows its outcome  *)
(* in pc until the caller continues, and nothing else runs before that.    *)
(***************************************************************************)
EXTENDS Integers, FiniteSets

CONSTANTS Runner, Clock, Screen, Install, Repair, \* the tasks of a session
          Connections,     \* identities of BleakNusTransport objects
          FaultsBounded,   \* whether the world has a finite number of faults
          MaxFaults        \* and how many

\* At most four transports are referred to at a time: the manager's, that of a
\* call under the lock, and one kept by each of two tasks.  A fifth is new.
ASSUME LinkAssumption ==
    /\ Cardinality({Runner, Clock, Screen, Install, Repair}) = 5
    /\ Connections \subseteq Nat \ {0}
    /\ \A a, b, c, d \in Connections \cup {0} : Connections \ {a, b, c, d} # {}
    /\ FaultsBounded \in BOOLEAN
    /\ MaxFaults \in Nat

Tasks == {Runner, Clock, Screen, Install, Repair}
None == 0

VARIABLES
    transport,     \* DeviceManager._transport
    mclosing,      \* DeviceManager._closing
    retry,         \* DeviceManager._retry, an Event
    cleanupError,  \* DeviceManager.cleanup_error is set
    client,        \* per transport: its BLE client and negotiated status
    call,          \* per task: the method it is in
    kept,          \* per task: a transport it compares with later
    doomed,        \* tasks whose cancel() has not been delivered yet
    interrupted,   \* cancel() of DeviceSession._connect_task, the same
    faults         \* faults left to the world

managerVars == <<transport, mclosing, retry, cleanupError>>
cancelVars == <<doomed, interrupted>>
linkVars == <<managerVars, client, call, kept, cancelVars, faults>>

ClientStates == {"none", "linking", "up", "lost", "cleaning", "stuck"}
Answers == {"ok", "rejected", "reset", "cancelled", "interrupted", "cleanup", "crash"}
Sent == {"waiting", "unheard"}               \* the future is pending
Resolved == {"accepted", "refused", "lost"}  \* the future is done
Undoing == {"undoFailed", "undoIncompatible"}
Points == {"idle", "wire", "shutting", "dropping", "closing", "closeOld",
           "scan", "linking", "backoff", "paused"}
              \cup Sent \cup Resolved \cup Undoing \cup Answers
Methods == {"none", "send", "query", "connect", "reset", "close"}

LinkTypeOK ==
    /\ transport \in Connections \cup {None}
    /\ mclosing \in BOOLEAN /\ retry \in BOOLEAN /\ cleanupError \in BOOLEAN
    /\ client \in [Connections -> ClientStates]
    /\ call \in [Tasks -> [op: Methods, pc: Points, on: Connections \cup {None}]]
    /\ kept \in [Tasks -> Connections \cup {None}]
    /\ doomed \subseteq Tasks /\ interrupted \in BOOLEAN
    /\ faults \in 0 .. MaxFaults

NoCall == [op |-> "none", pc |-> "idle", on |-> None]

LinkInit ==
    /\ transport = None /\ mclosing = FALSE /\ retry = FALSE /\ cleanupError = FALSE
    /\ client = [t \in Connections |-> "none"]
    /\ call = [u \in Tasks |-> NoCall]
    /\ kept = [u \in Tasks |-> None]
    /\ doomed = {} /\ interrupted = FALSE
    /\ faults = MaxFaults

(***************************************************************************)
(* Derived state.                                                          *)
(***************************************************************************)
At(u, points) == call[u].pc \in points
Connected == ~cleanupError /\ transport # None /\ client[transport] = "up"
Returned == {u \in Tasks : At(u, Answers)}
Cancelled(u) == u \in doomed \/ (u = Runner /\ interrupted)
HoldsWire(u) == At(u, Sent \cup Resolved \cup {"shutting"})  \* _send_lock

\* Mistake: a cleanup under way is not waited for.
ClosedAtOnce(t) == t \in Connections
Closed(t) == client[t] # "cleaning"

\* Tasks the event loop would run before it waits for the radio again.
Woken(u) ==
    \/ Cancelled(u)
    \/ At(u, Resolved)
    \/ At(u, {"wire"}) /\ \A v \in Tasks : HoldsWire(v) => call[v].on # call[u].on
    \/ At(u, Undoing \cup {"shutting", "dropping", "closing", "closeOld"})
           /\ Closed(call[u].on)
    \/ At(u, {"paused"}) /\ retry

Fault == IF FaultsBounded THEN faults > 0 /\ faults' = faults - 1 ELSE faults' = faults

\* A transport object nobody refers to any more stands for a new one.
Unused == {t \in Connections :
              /\ client[t] = "none" /\ t # transport
              /\ \A u \in Tasks : call[u].on # t /\ kept[u] # t}

(***************************************************************************)
(* Changes several steps make.                                             *)
(***************************************************************************)
Goes(u, op, pc, t) == [call EXCEPT ![u] = [op |-> op, pc |-> pc, on |-> t]]
Moves(u, pc) == call' = Goes(u, call[u].op, pc, call[u].on)
Return(u, a) == call' = Goes(u, "none", a, None)

\* _fail_pending(): the futures of a transport that closes or drops.
FailPending(calls, t) ==
    [v \in Tasks |-> IF calls[v].on = t /\ calls[v].pc \in Sent
                     THEN [op |-> calls[v].op, pc |-> "lost", on |-> t] ELSE calls[v]]

\* Mistake: the client is dropped without disconnecting it.
StopsListening(u, op, pc, t) ==
    /\ client' = client
    /\ call' = FailPending(Goes(u, op, pc, t), t)

\* BleakNusTransport.close() with a client: one cleanup, shared by its callers.
NeedsClosing(t) == client[t] \in {"linking", "up", "lost", "cleaning"}
StartsClosing(u, op, pc, t) ==
    /\ client' = [client EXCEPT ![t] = "cleaning"]
    /\ call' = FailPending(Goes(u, op, pc, t), t)

\* A cancellation is delivered once, or swallowed by the error it meets.
Delivers(u) ==
    /\ doomed' = doomed \ {u}
    /\ interrupted' = (interrupted /\ u # Runner)

\* CancelledError leaves the call: the task's own, or only _connect_task's.
ReturnCancelled(u) ==
    /\ Return(u, IF u = Runner /\ u \notin doomed THEN "interrupted" ELSE "cancelled")
    /\ Delivers(u)

\* TransportCleanupError passes _close_transport().
ReturnCleanup(u) ==
    /\ Return(u, "cleanup")
    /\ cleanupError' = TRUE
    /\ Delivers(u)

\* The loop of DeviceManager.connect(): forget old signals, make a transport.
ClearsRetry == retry' = FALSE
TriesToConnect(u, op) ==
    /\ Unused # {}
    /\ ClearsRetry
    /\ call' = Goes(u, op, "scan", CHOOSE t \in Unused : TRUE)

\* A failed send_command() takes the transport out of the manager and then
\* closes it; a failed query_status() closes it first.  Either reads
\* _transport again, whatever it has become since the call was made.
ManagerFails(u, op) ==
    LET t == transport
        keeps == op = "query" /\ t # None /\ client[t] # "none"
    IN  /\ transport' = IF keeps THEN t ELSE None
        /\ \/ /\ t = None           \* AttributeError: None has no close()
              /\ Return(u, "crash")
              /\ Delivers(u)
              /\ UNCHANGED <<client, cleanupError>>
           \/ /\ t # None /\ client[t] = "none"
              /\ Return(u, "reset")
              /\ Delivers(u)
              /\ UNCHANGED <<client, cleanupError>>
           \/ /\ t # None /\ client[t] = "stuck"
              /\ ReturnCleanup(u)
              /\ UNCHANGED client
           \/ /\ t # None /\ NeedsClosing(t)
              /\ StartsClosing(u, op, "dropping", t)
              /\ UNCHANGED <<cleanupError, cancelVars>>

\* BleakNusTransport.send_command() or query_status(), up to the first await.
Rivals(u, t) == {v \in Tasks \ {u} : call[v].on = t /\ (HoldsWire(v) \/ At(v, {"wire"}))}
TakesWire(u, op, t) ==
    \/ /\ client[t] = "up"
       /\ call' = Goes(u, op, "waiting", t)
       /\ UNCHANGED <<client, transport, cleanupError, cancelVars>>
    \/ /\ client[t] # "up"
       /\ ManagerFails(u, op)
EntersWire(u, op, t) ==
    \/ /\ Rivals(u, t) # {}
       /\ call' = Goes(u, op, "wire", t)
       /\ UNCHANGED <<client, transport, cleanupError, cancelVars>>
    \/ /\ Rivals(u, t) = {}
       /\ TakesWire(u, op, t)

(***************************************************************************)
(* The methods of DeviceManager, from the call to the first await.         *)
(***************************************************************************)
\* connect() beyond _require_reusable().
EntersConnect(u, op) ==
    /\ mclosing' = FALSE
    /\ \/ /\ Connected
          /\ Return(u, "ok")
          /\ UNCHANGED <<transport, retry, cleanupError, client, cancelVars>>
       \/ /\ ~Connected
          /\ transport' = None
          /\ \/ /\ transport # None /\ NeedsClosing(transport)
                /\ StartsClosing(u, op, "closeOld", transport)
                /\ UNCHANGED <<retry, cleanupError, cancelVars>>
             \/ /\ transport # None /\ client[transport] = "stuck"
                /\ ReturnCleanup(u)
                /\ UNCHANGED <<retry, client>>
             \/ /\ transport # None => client[transport] = "none"
                /\ TriesToConnect(u, op)
                /\ UNCHANGED <<cleanupError, client, cancelVars>>

NotReusable(u) ==
    /\ cleanupError
    /\ Return(u, "cleanup")
    /\ UNCHANGED <<managerVars, client, cancelVars>>

Connects(u) == NotReusable(u) \/ (~cleanupError /\ EntersConnect(u, "connect"))

\* send_command() and query_status(): connect first if there is no transport.
Commands(u, op) ==
    \/ NotReusable(u)
    \/ /\ ~cleanupError /\ transport = None
       /\ EntersConnect(u, op)
    \/ /\ ~cleanupError /\ transport # None
       /\ EntersWire(u, op, transport)
       /\ UNCHANGED <<mclosing, retry>>
Sends(u) == Commands(u, "send")
Queries(u) == Commands(u, "query")

\* The common end of reset() and close().
Releases(u, op) ==
    /\ retry' = TRUE
    /\ \/ /\ transport # None /\ NeedsClosing(transport)
          /\ StartsClosing(u, op, "closing", transport)
          /\ UNCHANGED <<transport, cleanupError, cancelVars>>
       \/ /\ transport # None /\ client[transport] = "stuck"
          /\ ReturnCleanup(u)
          /\ UNCHANGED <<transport, client>>
       \/ /\ transport # None => client[transport] = "none"
          /\ transport' = None
          /\ Return(u, "ok")
          /\ UNCHANGED <<client, cleanupError, cancelVars>>
Resets(u) ==
    \/ NotReusable(u)
    \/ ~cleanupError /\ Releases(u, "reset") /\ UNCHANGED mclosing
Closes(u) == mclosing' = TRUE /\ Releases(u, "close")

(***************************************************************************)
(* The same methods after an await.                                        *)
(***************************************************************************)
ProceedVars == <<kept, faults>>

\* A contender gets _send_lock.
GetsWire(u) ==
    /\ At(u, {"wire"}) /\ ~Cancelled(u)
    /\ \A v \in Tasks : HoldsWire(v) => call[v].on # call[u].on
    /\ TakesWire(u, call[u].op, call[u].on)
    /\ UNCHANGED <<mclosing, retry, ProceedVars>>

\* The acknowledgement has come.
Acknowledged(u) ==
    /\ At(u, {"accepted", "refused"}) /\ ~Cancelled(u)
    /\ Return(u, IF At(u, {"accepted"}) THEN "ok" ELSE "rejected")
    /\ UNCHANGED <<managerVars, client, cancelVars, ProceedVars>>

\* The link was lost or the acknowledgement timed out: close the transport
\* with _send_lock held, then fail in the manager.
LosesCommand(u) ==
    /\ At(u, {"lost"}) /\ ~Cancelled(u)
    /\ IF NeedsClosing(call[u].on)
       THEN /\ StartsClosing(u, call[u].op, "shutting", call[u].on)
            /\ UNCHANGED <<transport, cleanupError, cancelVars>>
       ELSE ManagerFails(u, call[u].op)
    /\ UNCHANGED <<mclosing, retry, ProceedVars>>

\* The transport of a lost or cancelled command is closed.
ShutDown(u) ==
    /\ At(u, {"shutting"}) /\ Closed(call[u].on)
    /\ IF Cancelled(u) /\ client[call[u].on] # "stuck"
       THEN ReturnCancelled(u) /\ UNCHANGED <<transport, client, cleanupError>>
       ELSE ManagerFails(u, call[u].op)
    /\ UNCHANGED <<mclosing, retry, ProceedVars>>

\* The manager's own close() after a failure, a reset or a close ends.
Dropped(u) ==
    LET op == call[u].op  stuck == client[call[u].on] = "stuck"
    IN  /\ At(u, {"dropping", "closing"}) /\ Closed(call[u].on)
        /\ \/ /\ stuck
              /\ ReturnCleanup(u)
              /\ UNCHANGED transport
           \/ /\ ~stuck /\ Cancelled(u)
              /\ ReturnCancelled(u)
              /\ UNCHANGED <<transport, cleanupError>>
           \/ /\ ~stuck /\ ~Cancelled(u)
              /\ transport' = IF op = "send" THEN transport ELSE None
              /\ Return(u, IF op \in {"send", "query"} THEN "reset" ELSE "ok")
              /\ UNCHANGED <<cleanupError, cancelVars>>
        /\ UNCHANGED <<mclosing, retry, client, ProceedVars>>

\* connect(): the previous transport, or the failed one, is closed; go on,
\* pause until reset() or close(), or wait before the next attempt.
Undone(u) ==
    LET stuck == client[call[u].on] = "stuck"
    IN  /\ At(u, Undoing \cup {"closeOld"}) /\ Closed(call[u].on)
        /\ \/ /\ stuck
              /\ ReturnCleanup(u)
              /\ UNCHANGED retry
           \/ /\ ~stuck /\ Cancelled(u)
              /\ ReturnCancelled(u)
              /\ UNCHANGED <<retry, cleanupError>>
           \/ /\ ~stuck /\ ~Cancelled(u) /\ At(u, {"undoIncompatible"})
              /\ Moves(u, "paused")
              /\ UNCHANGED <<retry, cleanupError, cancelVars>>
           \/ /\ ~stuck /\ ~Cancelled(u) /\ At(u, {"undoFailed"})
              /\ Moves(u, "backoff")
              /\ UNCHANGED <<retry, cleanupError, cancelVars>>
           \/ /\ ~stuck /\ ~Cancelled(u) /\ At(u, {"closeOld"})
              /\ TriesToConnect(u, call[u].op)
              /\ UNCHANGED <<cleanupError, cancelVars>>
        /\ UNCHANGED <<transport, mclosing, client, ProceedVars>>

\* The delay is over, or _retry is set: while not self._closing.
TriesAgain(u) ==
    /\ At(u, {"backoff"}) \/ (At(u, {"paused"}) /\ retry)
    /\ ~Cancelled(u)
    /\ IF mclosing
       THEN ReturnCancelled(u) /\ UNCHANGED retry
       ELSE TriesToConnect(u, call[u].op) /\ UNCHANGED cancelVars
    /\ UNCHANGED <<transport, mclosing, cleanupError, client, ProceedVars>>

\* CancelledError is thrown in where the call is suspended.
Unwinds(u) ==
    /\ Cancelled(u)
    /\ \/ /\ At(u, {"wire", "scan", "backoff", "paused"})
          /\ ReturnCancelled(u)
          /\ UNCHANGED <<transport, client, cleanupError>>
       \/ /\ At(u, Sent \cup Resolved) /\ NeedsClosing(call[u].on)
          /\ StartsClosing(u, call[u].op, "shutting", call[u].on)
          /\ UNCHANGED <<transport, cleanupError, cancelVars>>
       \/ /\ At(u, Sent \cup Resolved) /\ client[call[u].on] = "none"
          /\ ReturnCancelled(u)
          /\ UNCHANGED <<transport, client, cleanupError>>
       \/ /\ At(u, Sent \cup Resolved) /\ client[call[u].on] = "stuck"
          /\ ManagerFails(u, call[u].op)
       \/ /\ At(u, {"linking"})
          /\ StartsClosing(u, call[u].op, "undoFailed", call[u].on)
          /\ UNCHANGED <<transport, cleanupError, cancelVars>>
    /\ UNCHANGED <<mclosing, retry, ProceedVars>>

Proceeds(u) ==
    GetsWire(u) \/ Acknowledged(u) \/ LosesCommand(u) \/ ShutDown(u) \/ Dropped(u)
        \/ Undone(u) \/ TriesAgain(u) \/ Unwinds(u)

(***************************************************************************)
(* The radio, the device and the clock.                                    *)
(***************************************************************************)
WorldVars == <<managerVars, kept, cancelVars>>

\* _on_disconnected().
LinkDrops(t) ==
    /\ client[t] = "up"
    /\ Fault
    /\ client' = [client EXCEPT ![t] = "lost"]
    /\ call' = FailPending(call, t)
    /\ UNCHANGED WorldVars

\* _disconnect() succeeds, or fails and quarantines the address.
CleanupEnds(t) ==
    /\ client[t] = "cleaning"
    /\ \/ client' = [client EXCEPT ![t] = "none"] /\ UNCHANGED faults
       \/ client' = [client EXCEPT ![t] = "stuck"] /\ Fault
    /\ UNCHANGED <<WorldVars, call>>

\* The device carries a command out; its acknowledgement arrives or does not.
CarriesOut(u) ==
    /\ At(u, {"waiting"}) /\ client[call[u].on] = "up"
    /\ \/ Moves(u, "accepted") /\ UNCHANGED faults
       \/ Moves(u, "unheard") /\ Fault
    /\ UNCHANGED <<WorldVars, client>>

\* The device answers ok: false.
Refuses(u) ==
    /\ At(u, {"waiting"}) /\ client[call[u].on] = "up" /\ call[u].op = "send"
    /\ Fault
    /\ Moves(u, "refused")
    /\ UNCHANGED <<WorldVars, client>>

\* ack_timeout.
TimesOut(u) ==
    /\ \/ At(u, {"waiting"}) /\ Fault
       \/ At(u, {"unheard"}) /\ UNCHANGED faults
    /\ Moves(u, "lost")
    /\ UNCHANGED <<WorldVars, client>>

\* Scanning and pairing succeed or fail; there is no client yet.
ScanEnds(u) ==
    LET t == call[u].on
    IN  /\ At(u, {"scan"}) /\ ~Cancelled(u)
        /\ \/ /\ Moves(u, "linking")
              /\ client' = [client EXCEPT ![t] = "linking"]
              /\ UNCHANGED faults
           \/ /\ Moves(u, "backoff")
              /\ Fault
              /\ UNCHANGED client
        /\ UNCHANGED WorldVars

\* Connecting, subscribing or the status query fails, or the status is of an
\* incompatible device: connect() closes the client.
NegotiationFails(u) ==
    /\ At(u, {"linking"}) /\ ~Cancelled(u)
    /\ Fault
    /\ \E pc \in Undoing : StartsClosing(u, call[u].op, pc, call[u].on)
    /\ UNCHANGED WorldVars

\* The status arrives and connect() hands the transport to the manager.
\* Negotiation takes many turns of the event loop, so every task that was
\* ready when it began has run.
Negotiates(u) ==
    LET t == call[u].on  op == call[u].op
    IN  /\ At(u, {"linking"})
        /\ \A v \in Tasks : ~Woken(v)
        /\ transport' = t
        /\ client' = [client EXCEPT ![t] = "up"]
        /\ IF op = "connect" THEN Return(u, "ok") ELSE call' = Goes(u, op, "waiting", t)
        /\ UNCHANGED <<mclosing, retry, cleanupError, kept, cancelVars, faults>>

=============================================================================
