-------------------------- MODULE DeviceSessionProofs --------------------------
(***************************************************************************)
(* The safety of a device session, for any number of transport objects,    *)
(* offers, requests and faults, and whatever the user may ask for.         *)
(*                                                                         *)
(* There are two parts, as in the code.  LinkInv is about the manager and  *)
(* its transports alone.  SessionInv adds to it how the session's tasks    *)
(* keep out of each other's way.  The lock's queue holds exactly the tasks *)
(* whose code is between acquire and release (Queued); a task is in a call *)
(* of the manager exactly where its code makes one (Calls), and of such    *)
(* places all but the question before an update need the lock or come      *)
(* after everybody else has stopped (Excluding, Stopping, Owning).  So     *)
(* whoever opens a call finds nobody else in one that could replace the    *)
(* transport, which is what LinkInv asks for.  Bound, Chosen and Delivery  *)
(* say what the safety properties are about: which connection a click and  *)
(* an update are on, and what has reached the panel.                       *)
(*                                                                         *)
(* Each action has a lemma of its own that it keeps SessionInv, one step   *)
(* per part; SessionKeeps puts them together.                              *)
(***************************************************************************)
EXTENDS DeviceSession, TLAPS, FiniteSetTheorems, SequenceTheorems

(***************************************************************************)
(* The first part: DeviceManager and its BleakNusTransport objects,        *)
(* whatever the session's tasks do, for any number of transport objects    *)
(* and of faults.  LinkInv is kept by every step of a call and of the      *)
(* world; a call may be opened by a task that is not in one, provided no   *)
(* other task is in a call that may replace the transport (Alone).  The    *)
(* connection lock of the session sees to that, in the second part.        *)
(*                                                                         *)
(* What a panel's client can be depends on who is at work on it, so        *)
(* LinkInv is about the two together: which calls there may be at a time   *)
(* (Solo), what the transport of each is in (DialAlone, WaitsClosed,       *)
(* SentIsUp), and who answers for a client the manager has let go of       *)
(* (LinkingIsDialed, Detached).                                            *)
(***************************************************************************)

(***************************************************************************)
(* Where a call may be suspended.                                          *)
(***************************************************************************)
\* The task is in no call: idle, or its last one has just returned.
Free == {"idle"} \cup Answers
\* In a command: before, while and after it waits for the answer.
Talking == {"wire"} \cup Sent \cup Resolved
\* In connect(), while an old or a failed transport is closed.
Undialing == {"closeOld"} \cup Undoing
\* Anywhere in connect(), also when a command has called it.
Dialing == {"scan", "linking", "backoff", "paused"} \cup Undialing
\* In a call that waits for a transport to be closed.
Waiting == {"shutting", "dropping", "closing"}
\* What a transport that is being closed may be found in.
Settled == {"cleaning", "none", "stuck"}
\* Task u is in a call.
Busy(u) == ~At(u, Free)
\* The only kind of call that does not hold the connection lock.
Asks(u) == call[u].op = "query" /\ ~At(u, Dialing)

(***************************************************************************)
(* The inductive invariant.                                                *)
(***************************************************************************)
\* Where a task may be suspended in each method, with a transport in hand.
CallShape ==
    \A u \in Tasks :
        /\ At(u, Free) => call[u].op = "none" /\ call[u].on = None
        /\ Busy(u) => call[u].on \in Connections
        /\ At(u, Talking \cup {"shutting", "dropping"}) => call[u].op \in {"send", "query"}
        /\ At(u, {"closing"}) => call[u].op \in {"reset", "close"}
        /\ At(u, Dialing) => call[u].op \in {"connect", "send", "query"}

\* Of two calls at least one is a status query, and not connecting: what the
\* lock is for.
Solo == \A u, v \in Tasks : u # v /\ Busy(u) /\ Busy(v) => Asks(u) \/ Asks(v)

\* There is one BLE client at most.
OneLive == \A s, t \in Connections : client[s] # "none" /\ client[t] # "none" => s = t
\* While the manager has a transport, no other has a client.
OthersNone == transport # None => \A t \in Connections : client[t] # "none" => t = transport
\* A working client is the one of the manager's transport.
UpIsCurrent == \A t \in Connections : client[t] \in {"up", "lost"} => t = transport
\* A client is negotiated with exactly while a call does so.
LinkingIsDialed ==
    /\ \A t \in Connections : client[t] = "linking" => \E u \in Tasks : At(u, {"linking"}) /\ call[u].on = t
    /\ \A u \in Tasks : At(u, {"linking"}) => client[call[u].on] = "linking"
\* An answer is waited for on a working client only.
SentIsUp == \A u \in Tasks : At(u, Sent) => client[call[u].on] = "up"
\* The transport of a command or a closing call is the manager's, or the
\* manager has dropped it meanwhile.
SameTransport ==
    \A u \in Tasks : At(u, Talking \cup Waiting) => transport \in {None, call[u].on}
\* connect() works without a transport in the manager; the only client is the
\* one it is about.
DialAlone ==
    \A u \in Tasks : At(u, Dialing) =>
        /\ transport = None
        /\ \A t \in Connections : client[t] # "none" => t = call[u].on
        /\ At(u, {"scan", "backoff", "paused"}) => client[call[u].on] = "none"
        /\ At(u, Undialing) => client[call[u].on] \in Settled
        /\ At(u, {"scan", "linking"}) => \A v \in Tasks : call[v].on = call[u].on => v = u
\* What is waited for has been started: the cleanup runs, or is over.
WaitsClosed == \A u \in Tasks : At(u, Waiting) => client[call[u].on] \in Settled
\* Task u answers for transport t, which the manager has dropped.
Detaches(u, t) ==
    call[u].on = t /\ (At(u, Undialing) \/ (At(u, {"dropping"}) /\ call[u].op = "send"))
\* A cleanup of a transport the manager has dropped is waited for by a call;
\* after one that failed the manager is in quarantine.
Detached ==
    \A t \in Connections :
        client[t] \in {"cleaning", "stuck"} /\ t # transport =>
            (client[t] = "stuck" /\ cleanupError) \/ \E u \in Tasks : Detaches(u, t)

\* The inductive invariant of the link.
LinkInv == LinkTypeOK /\ CallShape /\ Solo /\ OneLive /\ OthersNone /\ UpIsCurrent
    /\ LinkingIsDialed /\ SentIsUp /\ SameTransport /\ DialAlone /\ WaitsClosed /\ Detached

\* Names for sets of places in the code are seen through everywhere.
USE DEF Free, Talking, Undialing, Dialing, Waiting, Settled, Busy, Asks, At, Answers, Sent, Resolved, Undoing, None

\* None is no transport.
LEMMA NoTransport == 0 \notin Connections
  BY LinkAssumption

(***************************************************************************)
(* Lemmas about the parts of a step.                                       *)
(***************************************************************************)
\* What a step may do to the state LinkInv says little about.
ClientRest == /\ retry' \in BOOLEAN /\ mclosing' \in BOOLEAN /\ doomed' \subseteq Tasks
  /\ interrupted' \in BOOLEAN /\ kept' \in [Tasks -> Connections \cup {None}] /\ faults' \in 0..MaxFaults

\* A call that returns keeps LinkInv if its transport is closed, or the
\* manager has gone into quarantine.
LEMMA Leaving ==
  ASSUME LinkInv, NEW u \in Tasks, NEW a \in Free,
         call' = Goes(u, "none", a, None), client' = client, ClientRest,
         cleanupError' \in BOOLEAN, cleanupError => cleanupError',
         \/ transport' = transport
         \/ transport' = None /\ (transport # None => client[transport] = "none" \/ (client[transport] = "stuck" /\ cleanupError')),
         \A t \in Connections : Detaches(u, t) => client[t] = "none" \/ (client[t] = "stuck" /\ cleanupError'),
         ~At(u, {"linking"})
  PROVE LinkInv'
  <1> USE DEF Goes
  <1>1. LinkTypeOK'
    BY DEF LinkInv, LinkTypeOK, ClientRest, Points, Methods
  <1>2. CallShape' BY DEF LinkInv, LinkTypeOK, CallShape
  <1>3. Solo' BY DEF LinkInv, LinkTypeOK, CallShape, Solo
  <1>4. OneLive' /\ OthersNone' /\ UpIsCurrent'
    BY DEF LinkInv, LinkTypeOK, OneLive, OthersNone, UpIsCurrent
  <1>5. LinkingIsDialed' BY DEF LinkInv, LinkTypeOK, LinkingIsDialed
  <1>6. SentIsUp' /\ SameTransport' BY DEF LinkInv, LinkTypeOK, SentIsUp, SameTransport
  <1>7. DialAlone' BY NoTransport DEF LinkInv, LinkTypeOK, CallShape, DialAlone
  <1>8. WaitsClosed' BY DEF LinkInv, LinkTypeOK, WaitsClosed
  <1>9. Detached' BY DEF LinkInv, LinkTypeOK, Detached, Detaches
  <1> QED BY <1>1, <1>2, <1>3, <1>4, <1>5, <1>6, <1>7, <1>8, <1>9 DEF LinkInv

\* Nobody but u is in a call, status queries excepted.
Alone(u) == \A v \in Tasks \ {u} : Busy(v) => Asks(v)

\* A call that begins to close a transport keeps LinkInv: after a lost
\* command, a failed negotiation, or as reset(), close() and connect() do
\* (BleakNusTransport.close()).
LEMMA Closing ==
  ASSUME LinkInv, NEW u \in Tasks, NEW op \in Methods, NEW pc \in Points, NEW t \in Connections,
         NeedsClosing(t), StartsClosing(u, op, pc, t), ClientRest, cleanupError' = cleanupError,
         \/ /\ pc = "shutting" /\ At(u, Sent \cup Resolved) /\ t = call[u].on /\ op = call[u].op
            /\ transport' = transport
         \/ /\ pc \in Undoing /\ At(u, {"linking"}) /\ t = call[u].on /\ op = call[u].op
            /\ transport' = transport
         \/ /\ pc = "dropping" /\ op = "query" /\ t = transport /\ transport' = transport
         \/ /\ pc = "dropping" /\ op = "send" /\ t = transport /\ transport' = None /\ Alone(u)
         \/ /\ pc = "closeOld" /\ op \in {"connect", "send", "query"} /\ t = transport /\ transport' = None /\ Alone(u)
         \/ /\ pc = "closing" /\ op \in {"reset", "close"} /\ t = transport /\ transport' = transport /\ Alone(u)
  PROVE LinkInv'
  <1> USE NoTransport DEF Goes, StartsClosing, FailPending, NeedsClosing
  <1>1. LinkTypeOK'
    BY DEF LinkInv, LinkTypeOK, CallShape, ClientRest, Points, Methods, ClientStates
  <1>2. CallShape' BY DEF LinkInv, LinkTypeOK, CallShape
  <1>3. Solo' BY DEF LinkInv, LinkTypeOK, CallShape, Solo, Alone
  <1>4. OneLive' /\ OthersNone' /\ UpIsCurrent'
    BY DEF LinkInv, LinkTypeOK, OneLive, OthersNone, UpIsCurrent
  <1>5. LinkingIsDialed' BY DEF LinkInv, LinkTypeOK, LinkingIsDialed, DialAlone
  <1>6. SentIsUp' BY DEF LinkInv, LinkTypeOK, SentIsUp
  <1>10. SameTransport' BY DEF LinkInv, LinkTypeOK, SameTransport
  <1>7. DialAlone' BY DEF LinkInv, LinkTypeOK, CallShape, DialAlone, OthersNone
  <1>8. WaitsClosed' BY DEF LinkInv, LinkTypeOK, WaitsClosed
  <1>9. Detached'
    <2> SUFFICES ASSUME NEW s \in Connections, client'[s] \in {"cleaning", "stuck"}, s # transport'
                 PROVE  (client[s] = "stuck" /\ cleanupError)' \/ \E v \in Tasks : Detaches(v, s)'
      BY DEF Detached
    <2>1. s = t
      BY DEF LinkInv, LinkTypeOK, OneLive
    <2>2. client[t] \in {"cleaning", "linking"} \/ t = transport
      BY DEF LinkInv, UpIsCurrent
    <2>3. CASE pc \in Undialing \/ (pc = "dropping" /\ op = "send")
      <3>1. call'[u] = [op |-> op, pc |-> pc, on |-> t]
        BY <2>3 DEF LinkInv, LinkTypeOK
      <3> QED BY <2>1, <2>3, <3>1 DEF Detaches
    <2>4. CASE pc = "shutting"
      <3>1. t # transport
        BY <2>1, <2>4
      <3>2. client[t] = "cleaning"
        BY <2>2, <2>4, <3>1 DEF LinkInv, LinkingIsDialed, DialAlone, LinkTypeOK
      <3>3. PICK w \in Tasks : Detaches(w, t)
        BY <3>1, <3>2 DEF LinkInv, Detached
      <3>4. w # u /\ call'[w] = call[w]
        BY <2>4, <3>3 DEF Detaches, LinkInv, LinkTypeOK
      <3> QED BY <2>1, <3>3, <3>4 DEF Detaches
    <2> QED BY <2>1, <2>3, <2>4
  <1> QED BY <1>1, <1>2, <1>3, <1>4, <1>5, <1>6, <1>10, <1>7, <1>8, <1>9 DEF LinkInv

\* connect() may make a new transport once every client is gone.
LEMMA Dials ==
  ASSUME LinkInv, NEW u \in Tasks, NEW op \in {"connect", "send", "query"},
         TriesToConnect(u, op), client' = client, ClientRest, cleanupError' \in BOOLEAN,
         transport' = None, Alone(u), \A t \in Connections : client[t] = "none"
  PROVE LinkInv'
  <1> DEFINE t == CHOOSE x \in Unused : TRUE
  <1>0. call' = Goes(u, op, "scan", t) /\ t \in Unused
    BY DEF TriesToConnect
  <1>a. t \in Connections /\ \A v \in Tasks : call[v].on # t
    BY <1>0 DEF Unused
  <1> HIDE DEF t
  <1> USE <1>0, <1>a, NoTransport DEF Goes
  <1>1. LinkTypeOK'
    BY DEF LinkInv, LinkTypeOK, ClientRest, Points, Methods
  <1>2. CallShape' BY DEF LinkInv, LinkTypeOK, CallShape
  <1>3. Solo' BY DEF LinkInv, LinkTypeOK, CallShape, Solo, Alone
  <1>4. OneLive' /\ OthersNone' /\ UpIsCurrent'
    BY DEF LinkInv, LinkTypeOK, OneLive, OthersNone, UpIsCurrent
  <1>5. LinkingIsDialed' BY DEF LinkInv, LinkTypeOK, LinkingIsDialed, DialAlone
  <1>6. SentIsUp' BY DEF LinkInv, LinkTypeOK, SentIsUp
  <1>10. SameTransport' BY DEF LinkInv, LinkTypeOK, SameTransport
  <1>7. DialAlone' BY DEF LinkInv, LinkTypeOK, CallShape, DialAlone, OthersNone
  <1>8. WaitsClosed' BY DEF LinkInv, LinkTypeOK, WaitsClosed
  <1>9. Detached' BY DEF LinkInv, LinkTypeOK, Detached
  <1> QED BY <1>1, <1>2, <1>3, <1>4, <1>5, <1>6, <1>10, <1>7, <1>8, <1>9 DEF LinkInv

\* A command on a working transport keeps LinkInv.
LEMMA Speaks ==
  ASSUME LinkInv, NEW u \in Tasks, NEW op \in {"send", "query"}, NEW pc \in {"wire", "waiting"},
         transport # None, call' = Goes(u, op, pc, transport), client' = client, ClientRest,
         transport' = transport, cleanupError' = cleanupError,
         pc = "waiting" => client[transport] = "up",
         \A t \in Connections : ~Detaches(u, t),
         op = "query" \/ Alone(u)
  PROVE LinkInv'
  <1> USE NoTransport DEF Goes
  <1>1. LinkTypeOK'
    BY DEF LinkInv, LinkTypeOK, ClientRest, Points, Methods
  <1>2. CallShape' BY DEF LinkInv, LinkTypeOK, CallShape
  <1>3. Solo' BY DEF LinkInv, LinkTypeOK, CallShape, Solo, Alone
  <1>4. OneLive' /\ OthersNone' /\ UpIsCurrent'
    BY DEF LinkInv, LinkTypeOK, OneLive, OthersNone, UpIsCurrent
  <1>5. LinkingIsDialed' BY DEF LinkInv, LinkTypeOK, LinkingIsDialed, DialAlone
  <1>6. SentIsUp' BY DEF LinkInv, LinkTypeOK, SentIsUp
  <1>10. SameTransport' BY DEF LinkInv, LinkTypeOK, SameTransport
  <1>7. DialAlone' BY DEF LinkInv, LinkTypeOK, CallShape, DialAlone, OthersNone
  <1>8. WaitsClosed' BY DEF LinkInv, LinkTypeOK, WaitsClosed
  <1>9. Detached' BY DEF LinkInv, LinkTypeOK, Detached, Detaches
  <1> QED BY <1>1, <1>2, <1>3, <1>4, <1>5, <1>6, <1>10, <1>7, <1>8, <1>9 DEF LinkInv

\* A pause after a closed attempt keeps LinkInv.
LEMMA Moving ==
  ASSUME LinkInv, NEW u \in Tasks, NEW pc \in Points, Moves(u, pc), client' = client, ClientRest,
         transport' = transport, cleanupError' = cleanupError,
         \/ At(u, Sent) /\ pc \in {"unheard"} \cup Resolved
         \/ At(u, Undoing \cup {"scan"}) /\ client[call[u].on] = "none" /\ pc \in {"paused", "backoff"}
  PROVE LinkInv'
  <1> USE NoTransport DEF Moves, Goes
  <1>1. LinkTypeOK'
    BY DEF LinkInv, LinkTypeOK, ClientRest, Points, Methods
  <1>2. CallShape' BY DEF LinkInv, LinkTypeOK, CallShape
  <1>3. Solo' BY DEF LinkInv, LinkTypeOK, CallShape, Solo, Alone
  <1>4. OneLive' /\ OthersNone' /\ UpIsCurrent'
    BY DEF LinkInv, LinkTypeOK, OneLive, OthersNone, UpIsCurrent
  <1>5. LinkingIsDialed' BY DEF LinkInv, LinkTypeOK, LinkingIsDialed, DialAlone
  <1>6. SentIsUp' BY DEF LinkInv, LinkTypeOK, SentIsUp
  <1>10. SameTransport' BY DEF LinkInv, LinkTypeOK, SameTransport
  <1>7. DialAlone' BY DEF LinkInv, LinkTypeOK, CallShape, DialAlone, OthersNone
  <1>8. WaitsClosed' BY DEF LinkInv, LinkTypeOK, WaitsClosed
  <1>9. Detached' BY DEF LinkInv, LinkTypeOK, Detached, Detaches
  <1> QED BY <1>1, <1>2, <1>3, <1>4, <1>5, <1>6, <1>10, <1>7, <1>8, <1>9 DEF LinkInv

\* The state a call changes only to a value of its type.
Outside == /\ retry' \in BOOLEAN /\ mclosing' \in BOOLEAN
           /\ kept' \in [Tasks -> Connections \cup {None}] /\ faults' \in 0 .. MaxFaults

\* Delivering a cancellation, or not, is within the types.
LEMMA DeliversType ==
  ASSUME LinkInv, Outside, NEW u \in Tasks, Delivers(u) \/ UNCHANGED cancelVars
  PROVE  ClientRest
  BY DEF Outside, Delivers, ClientRest, LinkInv, LinkTypeOK, cancelVars

\* The manager's part of a failed command keeps LinkInv (send_command(),
\* query_status() of DeviceManager).
LEMMA Fails ==
  ASSUME LinkInv, Outside, NEW u \in Tasks, NEW op \in {"send", "query"}, ManagerFails(u, op),
         ~At(u, Dialing \cup {"dropping"}), op = "query" \/ Alone(u)
  PROVE  LinkInv'
  <1> DEFINE t == transport
             keeps == op = "query" /\ t # None /\ client[t] # "none"
  <1>0. \A s \in Connections : ~Detaches(u, s)
    BY DEF Detaches
  <1>t. transport \in Connections \cup {None} /\ transport' = IF keeps THEN transport ELSE None
    BY DEF LinkInv, LinkTypeOK, ManagerFails
  <1>b. cleanupError \in BOOLEAN
    BY DEF LinkInv, LinkTypeOK
  <1>1. ASSUME t = None, Return(u, "crash"), Delivers(u), UNCHANGED <<client, cleanupError>>
        PROVE  LinkInv'
    BY Leaving, <1>0, <1>1, <1>t, <1>b, DeliversType DEF Return
  <1>2. ASSUME t # None, client[t] = "none", Return(u, "reset"), Delivers(u), UNCHANGED <<client, cleanupError>>
        PROVE  LinkInv'
    BY Leaving, <1>0, <1>2, <1>t, <1>b, DeliversType DEF Return
  <1>3. ASSUME t # None, client[t] = "stuck", ReturnCleanup(u), UNCHANGED client
        PROVE  LinkInv'
    BY Leaving, <1>0, <1>3, <1>t, <1>b, DeliversType DEF Return, ReturnCleanup
  <1>4. ASSUME t # None, NeedsClosing(t), StartsClosing(u, op, "dropping", t), UNCHANGED <<cleanupError, cancelVars>>
        PROVE  LinkInv'
    BY Closing, <1>4, <1>t, DeliversType DEF Points, Methods, NeedsClosing
  <1> QED BY <1>1, <1>2, <1>3, <1>4 DEF ManagerFails

\* A command that has its turn on the wire keeps LinkInv.
LEMMA Takes ==
  ASSUME LinkInv, Outside, NEW u \in Tasks, NEW op \in {"send", "query"}, NEW t \in Connections,
         TakesWire(u, op, t), ~At(u, Dialing \cup {"dropping"}), op = "query" \/ Alone(u)
  PROVE  LinkInv'
  <1>0. \A s \in Connections : ~Detaches(u, s)
    BY DEF Detaches
  <1>1. CASE client[t] = "up"
    <2>1. t = transport /\ t # None
      BY <1>1, NoTransport DEF LinkInv, UpIsCurrent
    <2>2. call' = Goes(u, op, "waiting", t) /\ UNCHANGED <<client, transport, cleanupError, cancelVars>>
      BY <1>1 DEF TakesWire
    <2> QED BY Speaks, DeliversType, <1>0, <1>1, <2>1, <2>2
  <1>2. CASE client[t] # "up"
    BY Fails, <1>2 DEF TakesWire
  <1> QED BY <1>1, <1>2

\* A command that may first wait for its turn keeps LinkInv.
LEMMA Enters ==
  ASSUME LinkInv, Outside, NEW u \in Tasks, NEW op \in {"send", "query"}, transport # None,
         EntersWire(u, op, transport), At(u, Free), op = "query" \/ Alone(u)
  PROVE  LinkInv'
  <1>0. \A s \in Connections : ~Detaches(u, s)
    BY DEF Detaches
  <1>t. transport \in Connections
    BY DEF LinkInv, LinkTypeOK
  <1>1. CASE call' = Goes(u, op, "wire", transport) /\ UNCHANGED <<client, transport, cleanupError, cancelVars>>
    BY Speaks, DeliversType, <1>0, <1>1
  <1>2. CASE TakesWire(u, op, transport)
    BY Takes, <1>2, <1>t
  <1> QED BY <1>1, <1>2 DEF EntersWire

\* When the manager's transport has no client and nobody else is at work,
\* nothing has one: connect() makes no second client.
LEMMA AllClosed ==
  ASSUME LinkInv, NEW u \in Tasks, At(u, Free), Alone(u), ~cleanupError,
         transport # None => client[transport] = "none"
  PROVE  \A t \in Connections : client[t] = "none"
  <1> SUFFICES ASSUME NEW t \in Connections, client[t] # "none" PROVE FALSE
    OBVIOUS
  <1>1. transport = None
    BY DEF LinkInv, OthersNone
  <1>2. client[t] \in {"linking", "cleaning", "stuck"}
    BY <1>1, NoTransport DEF LinkInv, LinkTypeOK, ClientStates, UpIsCurrent
  <1>3. PICK v \in Tasks : (At(v, {"linking"}) /\ call[v].on = t) \/ Detaches(v, t)
    BY <1>1, <1>2, NoTransport DEF LinkInv, LinkingIsDialed, Detached
  <1>4. v # u /\ Busy(v) /\ ~Asks(v)
    BY <1>3 DEF Detaches
  <1> QED BY <1>4 DEF Alone

\* connect() up to its first await keeps LinkInv.
LEMMA EntersConnecting ==
  ASSUME LinkInv, NEW u \in Tasks, NEW op \in {"connect", "send", "query"}, ~cleanupError,
         EntersConnect(u, op), At(u, Free), Alone(u), UNCHANGED <<kept, faults>>
  PROVE  LinkInv'
  <1>0. \A s \in Connections : ~Detaches(u, s)
    BY DEF Detaches
  <1>t. transport \in Connections \cup {None}
    BY DEF LinkInv, LinkTypeOK
  <1>b. cleanupError \in BOOLEAN /\ retry \in BOOLEAN /\ mclosing' \in BOOLEAN
    BY DEF LinkInv, LinkTypeOK, EntersConnect
  <1>k. kept' \in [Tasks -> Connections \cup {None}] /\ faults' \in 0 .. MaxFaults
    BY DEF LinkInv, LinkTypeOK
  <1>1. ASSUME Return(u, "ok"), UNCHANGED <<transport, retry, cleanupError, client, cancelVars>>
        PROVE  LinkInv'
    <2>1. ClientRest
      BY <1>1, <1>b, <1>k, DeliversType DEF Outside
    <2> QED BY Leaving, <1>0, <1>1, <1>b, <2>1 DEF Return
  <1>2. ASSUME transport' = None, transport # None, NeedsClosing(transport),
               StartsClosing(u, op, "closeOld", transport), UNCHANGED <<retry, cleanupError, cancelVars>>
        PROVE  LinkInv'
    <2>1. ClientRest
      BY <1>2, <1>b, <1>k, DeliversType DEF Outside
    <2> QED BY Closing, <1>2, <1>t, <2>1 DEF Points, Methods
  <1>3. ASSUME transport' = None, transport # None, client[transport] = "stuck",
               ReturnCleanup(u), UNCHANGED <<retry, client>>
        PROVE  LinkInv'
    <2>1. ClientRest
      BY <1>3, <1>b, <1>k, DeliversType DEF Outside, ReturnCleanup
    <2> QED BY Leaving, <1>0, <1>3, <1>b, <2>1 DEF Return, ReturnCleanup
  <1>4. ASSUME transport' = None, transport # None => client[transport] = "none",
               TriesToConnect(u, op), UNCHANGED <<cleanupError, client, cancelVars>>
        PROVE  LinkInv'
    <2>1. ClientRest
      BY <1>4, <1>b, <1>k, DeliversType DEF Outside, TriesToConnect, ClearsRetry
    <2>2. \A s \in Connections : client[s] = "none"
      BY <1>4, AllClosed
    <2> QED BY Dials, <1>4, <1>b, <2>1, <2>2
  <1> QED BY <1>1, <1>2, <1>3, <1>4 DEF EntersConnect

\* A manager in quarantine refuses, and LinkInv stays.
LEMMA NotReused ==
  ASSUME LinkInv, NEW u \in Tasks, NotReusable(u), At(u, Free), UNCHANGED <<kept, faults>>
  PROVE  LinkInv'
  <1>0. \A s \in Connections : ~Detaches(u, s)
    BY DEF Detaches
  <1>1. ClientRest
    BY DeliversType DEF Outside, NotReusable, managerVars, LinkInv, LinkTypeOK
  <1>2. transport' = transport /\ client' = client /\ cleanupError' = cleanupError /\ cleanupError \in BOOLEAN
        /\ call' = Goes(u, "none", "cleanup", None)
    BY DEF NotReusable, managerVars, LinkInv, LinkTypeOK, Return
  <1> QED BY Leaving, <1>0, <1>1, <1>2

(***************************************************************************)
(* The methods up to their first await.                                    *)
(***************************************************************************)
\* A call of connect() keeps LinkInv.
LEMMA ConnectsKeeps ==
  ASSUME LinkInv, NEW u \in Tasks, Connects(u), At(u, Free), Alone(u), UNCHANGED <<kept, faults>>
  PROVE  LinkInv'
  BY NotReused, EntersConnecting DEF Connects

\* A call of send_command() or query_status() keeps LinkInv.
LEMMA CommandsKeeps ==
  ASSUME LinkInv, NEW u \in Tasks, NEW op \in {"send", "query"}, Commands(u, op), At(u, Free), Alone(u),
         UNCHANGED <<kept, faults>>
  PROVE  LinkInv'
  <1>1. ASSUME transport # None, EntersWire(u, op, transport), UNCHANGED <<mclosing, retry>>
        PROVE  LinkInv'
    <2>1. Outside
      BY <1>1 DEF Outside, LinkInv, LinkTypeOK
    <2> QED BY <1>1, <2>1, Enters
  <1> QED BY <1>1, NotReused, EntersConnecting DEF Commands

\* A call of reset() or close() keeps LinkInv.
LEMMA ReleasesKeeps ==
  ASSUME LinkInv, NEW u \in Tasks, NEW op \in {"reset", "close"}, Releases(u, op), At(u, Free), Alone(u),
         mclosing' \in BOOLEAN, UNCHANGED <<kept, faults>>
  PROVE  LinkInv'
  <1>0. \A s \in Connections : ~Detaches(u, s)
    BY DEF Detaches
  <1>t. transport \in Connections \cup {None} /\ cleanupError \in BOOLEAN
    BY DEF LinkInv, LinkTypeOK
  <1>o. Outside
    BY DEF Outside, Releases, LinkInv, LinkTypeOK
  <1>1. ASSUME transport # None, NeedsClosing(transport), StartsClosing(u, op, "closing", transport),
               UNCHANGED <<transport, cleanupError, cancelVars>>
        PROVE  LinkInv'
    BY Closing, <1>1, <1>t, <1>o, DeliversType DEF Points, Methods
  <1>2. ASSUME transport # None, client[transport] = "stuck", ReturnCleanup(u), UNCHANGED <<transport, client>>
        PROVE  LinkInv'
    BY Leaving, <1>0, <1>2, <1>t, <1>o, DeliversType DEF Return, ReturnCleanup
  <1>3. ASSUME transport # None => client[transport] = "none", transport' = None, Return(u, "ok"),
               UNCHANGED <<client, cleanupError, cancelVars>>
        PROVE  LinkInv'
    BY Leaving, <1>0, <1>3, <1>t, <1>o, DeliversType DEF Return
  <1> QED BY <1>1, <1>2, <1>3 DEF Releases

\* The rest of LinkInv lets a call that is not a query be alone.

(***************************************************************************)
(* The methods after an await.                                             *)
(***************************************************************************)
\* Any call but a status query is alone.
LEMMA SoloAlone ==
  ASSUME LinkInv, NEW u \in Tasks, Busy(u), ~Asks(u)
  PROVE  Alone(u)
  BY DEF LinkInv, Solo, Alone

\* What a step after an await leaves alone.
LEMMA ProceedOutside ==
  ASSUME LinkInv, UNCHANGED <<mclosing, ProceedVars>>, retry' \in BOOLEAN
  PROVE  Outside
  BY DEF Outside, LinkInv, LinkTypeOK, ProceedVars

\* The next contender for _send_lock keeps LinkInv.
LEMMA GetsWireKeeps ==
  ASSUME LinkInv, NEW u \in Tasks, GetsWire(u)
  PROVE  LinkInv'
  <1>1. call[u].on \in Connections /\ call[u].op \in {"send", "query"}
    BY DEF LinkInv, CallShape, GetsWire
  <1>2. Outside
    BY ProceedOutside DEF GetsWire, LinkInv, LinkTypeOK
  <1>3. call[u].op = "query" \/ Alone(u)
    BY <1>1, SoloAlone DEF GetsWire
  <1> QED BY Takes, <1>1, <1>2, <1>3 DEF GetsWire

\* A command that returns its acknowledgement keeps LinkInv.
LEMMA AcknowledgedKeeps ==
  ASSUME LinkInv, NEW u \in Tasks, Acknowledged(u)
  PROVE  LinkInv'
  <1>1. ClientRest
    BY DeliversType, ProceedOutside DEF Acknowledged, LinkInv, LinkTypeOK, managerVars
  <1>2. \A s \in Connections : ~Detaches(u, s)
    BY DEF Detaches, Acknowledged
  <1>3. \E a \in Free : call' = Goes(u, "none", a, None)
    BY DEF Acknowledged, Return
  <1> QED BY Leaving, <1>1, <1>2, <1>3 DEF Acknowledged, LinkInv, LinkTypeOK, managerVars

\* A command that was lost or timed out keeps LinkInv.
LEMMA LosesCommandKeeps ==
  ASSUME LinkInv, NEW u \in Tasks, LosesCommand(u)
  PROVE  LinkInv'
  <1>1. call[u].on \in Connections /\ call[u].op \in {"send", "query"}
    BY DEF LinkInv, CallShape, LosesCommand
  <1>2. Outside
    BY ProceedOutside DEF LosesCommand, LinkInv, LinkTypeOK
  <1>3. call[u].op = "query" \/ Alone(u)
    BY <1>1, SoloAlone DEF LosesCommand
  <1>4. CASE NeedsClosing(call[u].on)
    BY Closing, DeliversType, <1>1, <1>2, <1>4 DEF LosesCommand, Points, Methods
  <1>5. CASE ~NeedsClosing(call[u].on)
    BY Fails, <1>1, <1>2, <1>3, <1>5 DEF LosesCommand
  <1> QED BY <1>4, <1>5

\* A command whose transport has been closed keeps LinkInv.
LEMMA ShutDownKeeps ==
  ASSUME LinkInv, NEW u \in Tasks, ShutDown(u)
  PROVE  LinkInv'
  <1>1. call[u].on \in Connections /\ call[u].op \in {"send", "query"}
    BY DEF LinkInv, CallShape, ShutDown
  <1>2. Outside
    BY ProceedOutside DEF ShutDown, LinkInv, LinkTypeOK
  <1>3. call[u].op = "query" \/ Alone(u)
    BY <1>1, SoloAlone DEF ShutDown
  <1>0. \A s \in Connections : ~Detaches(u, s)
    BY DEF Detaches, ShutDown
  <1>4. CASE Cancelled(u) /\ client[call[u].on] # "stuck"
    <2>1. ReturnCancelled(u) /\ UNCHANGED <<transport, client, cleanupError>>
      BY <1>4 DEF ShutDown
    <2>2. ClientRest
      BY DeliversType, <1>2, <2>1 DEF ReturnCancelled
    <2>3. \E a \in Free : call' = Goes(u, "none", a, None)
      BY <2>1 DEF ReturnCancelled, Return
    <2> QED BY Leaving, <1>0, <2>1, <2>2, <2>3 DEF ShutDown, LinkInv, LinkTypeOK
  <1>5. CASE ~(Cancelled(u) /\ client[call[u].on] # "stuck")
    BY Fails, <1>1, <1>2, <1>3, <1>5 DEF ShutDown
  <1> QED BY <1>4, <1>5

\* A call that ends by CancelledError keeps LinkInv if it answers for no
\* client.
LEMMA CancelLeaves ==
  ASSUME LinkInv, Outside, NEW u \in Tasks, ReturnCancelled(u), UNCHANGED <<transport, client, cleanupError>>,
         ~At(u, {"linking"}), \A s \in Connections : Detaches(u, s) => client[s] = "none"
  PROVE  LinkInv'
  <1>1. ClientRest
    BY DeliversType DEF ReturnCancelled
  <1>2. \E a \in Free : call' = Goes(u, "none", a, None)
    BY DEF ReturnCancelled, Return
  <1> QED BY Leaving, <1>1, <1>2 DEF LinkInv, LinkTypeOK

\* A call that ends by TransportCleanupError keeps LinkInv: the quarantine
\* answers for the client.
LEMMA CleanupLeaves ==
  ASSUME LinkInv, Outside, NEW u \in Tasks, ReturnCleanup(u), UNCHANGED <<transport, client>>,
         ~At(u, {"linking"}), \A s \in Connections : Detaches(u, s) => client[s] = "stuck"
  PROVE  LinkInv'
  <1>1. ClientRest
    BY DeliversType DEF ReturnCleanup
  <1>2. call' = Goes(u, "none", "cleanup", None)
    BY DEF ReturnCleanup, Return
  <1> QED BY Leaving, <1>1, <1>2 DEF LinkInv, LinkTypeOK, ReturnCleanup

\* The end of the manager's own close() keeps LinkInv.
LEMMA DroppedKeeps ==
  ASSUME LinkInv, NEW u \in Tasks, Dropped(u)
  PROVE  LinkInv'
  <1> DEFINE t == call[u].on
  <1>1. t \in Connections /\ client[t] \in {"none", "stuck"} /\ transport \in {None, t}
    BY DEF LinkInv, LinkTypeOK, CallShape, WaitsClosed, SameTransport, Dropped, Closed
  <1>2. Outside
    BY ProceedOutside DEF Dropped, LinkInv, LinkTypeOK
  <1>3. \A s \in Connections : Detaches(u, s) => s = t
    BY DEF Detaches
  <1>4. ASSUME client[t] = "stuck", ReturnCleanup(u), UNCHANGED <<transport, client>>
        PROVE  LinkInv'
    BY CleanupLeaves, <1>2, <1>3, <1>4 DEF Dropped
  <1>5. ASSUME client[t] # "stuck", ReturnCancelled(u), UNCHANGED <<transport, cleanupError, client>>
        PROVE  LinkInv'
    BY CancelLeaves, <1>1, <1>2, <1>3, <1>5 DEF Dropped
  <1>6. ASSUME client[t] # "stuck", transport' = IF call[u].op = "send" THEN transport ELSE None,
               Return(u, IF call[u].op \in {"send", "query"} THEN "reset" ELSE "ok"),
               UNCHANGED <<cleanupError, cancelVars, client>>
        PROVE  LinkInv'
    <2>1. ClientRest
      BY DeliversType, <1>2, <1>6
    <2>2. \E a \in Free : call' = Goes(u, "none", a, None)
      BY <1>6 DEF Return
    <2> QED BY Leaving, <1>1, <1>3, <1>6, <2>1, <2>2, NoTransport DEF Dropped, LinkInv, LinkTypeOK
  <1> QED BY <1>4, <1>5, <1>6 DEF Dropped

\* connect(), when the old or failed transport is closed, keeps LinkInv.
LEMMA UndoneKeeps ==
  ASSUME LinkInv, NEW u \in Tasks, Undone(u)
  PROVE  LinkInv'
  <1> DEFINE t == call[u].on
  <1>1. /\ t \in Connections /\ client[t] \in {"none", "stuck"} /\ transport = None
        /\ \A s \in Connections : client[s] # "none" => s = t
    BY DEF LinkInv, LinkTypeOK, CallShape, DialAlone, Undone, Closed
  <1>2. retry' \in BOOLEAN /\ Outside
    BY ProceedOutside DEF Undone, LinkInv, LinkTypeOK, TriesToConnect, ClearsRetry
  <1>3. \A s \in Connections : Detaches(u, s) => s = t
    BY DEF Detaches
  <1>4. ASSUME client[t] = "stuck", ReturnCleanup(u), UNCHANGED <<transport, client>>
        PROVE  LinkInv'
    BY CleanupLeaves, <1>2, <1>3, <1>4 DEF Undone
  <1>5. ASSUME client[t] # "stuck", ReturnCancelled(u), UNCHANGED <<transport, cleanupError, client>>
        PROVE  LinkInv'
    BY CancelLeaves, <1>1, <1>2, <1>3, <1>5 DEF Undone
  <1>6. ASSUME client[t] # "stuck", At(u, Undoing), NEW pc \in {"paused", "backoff"}, Moves(u, pc),
               UNCHANGED <<transport, cleanupError, cancelVars, client>>
        PROVE  LinkInv'
    BY Moving, DeliversType, <1>1, <1>2, <1>6 DEF Points
  <1>7. ASSUME client[t] # "stuck", TriesToConnect(u, call[u].op),
               UNCHANGED <<transport, cleanupError, cancelVars, client>>
        PROVE  LinkInv'
    <2>1. Alone(u) /\ call[u].op \in {"connect", "send", "query"}
      BY SoloAlone DEF Undone, LinkInv, CallShape
    <2>2. \A s \in Connections : client[s] = "none"
      BY <1>1, <1>7
    <2> QED BY Dials, DeliversType, <1>1, <1>2, <1>7, <2>1, <2>2 DEF LinkInv, LinkTypeOK
  <1> QED BY <1>4, <1>5, <1>6, <1>7 DEF Undone

\* connect(), at its next attempt, keeps LinkInv.
LEMMA TriesAgainKeeps ==
  ASSUME LinkInv, NEW u \in Tasks, TriesAgain(u)
  PROVE  LinkInv'
  <1>1. /\ transport = None /\ client[call[u].on] = "none" /\ call[u].on \in Connections
        /\ \A s \in Connections : client[s] = "none"
    BY DEF LinkInv, LinkTypeOK, CallShape, DialAlone, TriesAgain
  <1>2. Outside
    BY ProceedOutside DEF TriesAgain, LinkInv, LinkTypeOK, TriesToConnect, ClearsRetry
  <1>3. CASE mclosing
    BY CancelLeaves, <1>1, <1>2, <1>3 DEF TriesAgain
  <1>4. CASE ~mclosing
    <2>1. Alone(u) /\ call[u].op \in {"connect", "send", "query"}
      BY SoloAlone DEF TriesAgain, LinkInv, CallShape
    <2> QED BY Dials, DeliversType, <1>1, <1>2, <1>4, <2>1 DEF TriesAgain, LinkInv, LinkTypeOK
  <1> QED BY <1>3, <1>4

\* A cancellation thrown into a suspended call keeps LinkInv.
LEMMA UnwindsKeeps ==
  ASSUME LinkInv, NEW u \in Tasks, Unwinds(u)
  PROVE  LinkInv'
  <1>1. call[u].on \in Connections
    BY DEF LinkInv, CallShape, Unwinds
  <1>2. Outside
    BY ProceedOutside DEF Unwinds, LinkInv, LinkTypeOK
  <1>3. ASSUME At(u, {"wire", "scan", "backoff", "paused"} \cup Sent \cup Resolved),
               ReturnCancelled(u), UNCHANGED <<transport, client, cleanupError>>
        PROVE  LinkInv'
    BY CancelLeaves, <1>2, <1>3 DEF Detaches
  <1>4. ASSUME At(u, Sent \cup Resolved), NeedsClosing(call[u].on),
               StartsClosing(u, call[u].op, "shutting", call[u].on),
               UNCHANGED <<transport, cleanupError, cancelVars>>
        PROVE  LinkInv'
    <2>1. call[u].op \in Methods /\ "shutting" \in Points
      BY DEF LinkInv, LinkTypeOK, Points
    <2>2. ClientRest
      BY DeliversType, <1>2, <1>4
    <2> QED BY Closing, <1>1, <1>4, <2>1, <2>2
  <1>5. ASSUME At(u, Sent \cup Resolved), ManagerFails(u, call[u].op)
        PROVE  LinkInv'
    <2>1. call[u].op \in {"send", "query"} /\ (call[u].op = "query" \/ Alone(u))
      BY <1>5, SoloAlone DEF LinkInv, CallShape
    <2> QED BY Fails, <1>2, <1>5, <2>1
  <1>6. ASSUME At(u, {"linking"}), StartsClosing(u, call[u].op, "undoFailed", call[u].on),
               UNCHANGED <<transport, cleanupError, cancelVars>>
        PROVE  LinkInv'
    <2>1. NeedsClosing(call[u].on) /\ call[u].op \in Methods
      BY <1>6 DEF NeedsClosing, LinkInv, LinkingIsDialed, CallShape, Methods
    <2> QED BY Closing, DeliversType, <1>1, <1>2, <1>6, <2>1 DEF Points
  <1> QED BY <1>3, <1>4, <1>5, <1>6 DEF Unwinds

\* Every step of a call after an await keeps LinkInv.
LEMMA ProceedsKeeps ==
  ASSUME LinkInv, NEW u \in Tasks, Proceeds(u)
  PROVE  LinkInv'
  BY GetsWireKeeps, AcknowledgedKeeps, LosesCommandKeeps, ShutDownKeeps, DroppedKeeps, UndoneKeeps,
     TriesAgainKeeps, UnwindsKeeps DEF Proceeds

(***************************************************************************)
(* The world, and the start.                                               *)
(***************************************************************************)
\* A fault leaves their number within its bound.
LEMMA FaultCounts ==
  ASSUME LinkInv, Fault \/ UNCHANGED faults
  PROVE  faults' \in 0 .. MaxFaults
  BY LinkAssumption DEF Fault, LinkInv, LinkTypeOK

\* A link that drops keeps LinkInv: no command is left waiting on it.
LEMMA LinkDropsKeeps ==
  ASSUME LinkInv, NEW t \in Connections, LinkDrops(t)
  PROVE  LinkInv'
  <1> USE NoTransport DEF LinkDrops, FailPending, WorldVars, managerVars, cancelVars
  <1>1. LinkTypeOK'
    BY FaultCounts DEF LinkInv, LinkTypeOK, CallShape, Points, Methods, ClientStates
  <1>2. CallShape' BY DEF LinkInv, LinkTypeOK, CallShape
  <1>3. Solo' BY DEF LinkInv, LinkTypeOK, CallShape, Solo
  <1>4. OneLive' /\ OthersNone' /\ UpIsCurrent'
    BY DEF LinkInv, LinkTypeOK, OneLive, OthersNone, UpIsCurrent
  <1>5. LinkingIsDialed' BY DEF LinkInv, LinkTypeOK, LinkingIsDialed
  <1>6. SentIsUp' BY DEF LinkInv, LinkTypeOK, SentIsUp
  <1>7. SameTransport' BY DEF LinkInv, LinkTypeOK, SameTransport
  <1>8. DialAlone' BY DEF LinkInv, LinkTypeOK, CallShape, DialAlone, UpIsCurrent
  <1>9. WaitsClosed' BY DEF LinkInv, LinkTypeOK, WaitsClosed
  <1>10. Detached' BY DEF LinkInv, LinkTypeOK, Detached, Detaches
  <1> QED BY <1>1, <1>2, <1>3, <1>4, <1>5, <1>6, <1>7, <1>8, <1>9, <1>10 DEF LinkInv

\* The end of a cleanup keeps LinkInv.
LEMMA CleanupEndsKeeps ==
  ASSUME LinkInv, NEW t \in Connections, CleanupEnds(t)
  PROVE  LinkInv'
  <1>0. PICK end \in {"none", "stuck"} : client' = [client EXCEPT ![t] = end]
    BY DEF CleanupEnds
  <1>a. client[t] = "cleaning" /\ UNCHANGED <<WorldVars, call>> /\ faults' \in 0 .. MaxFaults
    BY FaultCounts DEF CleanupEnds
  <1> USE <1>0, <1>a, NoTransport DEF WorldVars, managerVars, cancelVars
  <1>1. LinkTypeOK'
    BY DEF LinkInv, LinkTypeOK, ClientStates
  <1>2. CallShape' /\ Solo'
    BY DEF LinkInv, CallShape, Solo
  <1>3. OneLive' /\ OthersNone' /\ UpIsCurrent'
    BY DEF LinkInv, LinkTypeOK, OneLive, OthersNone, UpIsCurrent
  <1>4. LinkingIsDialed' BY DEF LinkInv, LinkTypeOK, CallShape, LinkingIsDialed
  <1>5. SentIsUp' BY DEF LinkInv, LinkTypeOK, CallShape, SentIsUp
  <1>6. SameTransport' BY DEF LinkInv, LinkTypeOK, SameTransport
  <1>7. DialAlone' BY DEF LinkInv, LinkTypeOK, CallShape, DialAlone
  <1>8. WaitsClosed' BY DEF LinkInv, LinkTypeOK, CallShape, WaitsClosed
  <1>9. Detached'
    BY DEF LinkInv, LinkTypeOK, Detached, Detaches
  <1> QED BY <1>1, <1>2, <1>3, <1>4, <1>5, <1>6, <1>7, <1>8, <1>9 DEF LinkInv

\* An answer of the panel, or none in time, keeps LinkInv.
LEMMA AnswersKeep ==
  ASSUME LinkInv, NEW u \in Tasks, CarriesOut(u) \/ Refuses(u) \/ TimesOut(u)
  PROVE  LinkInv'
  <1>1. At(u, Sent) /\ UNCHANGED <<WorldVars, client>> /\ faults' \in 0 .. MaxFaults
    BY FaultCounts DEF CarriesOut, Refuses, TimesOut
  <1>2. ClientRest /\ transport' = transport /\ cleanupError' = cleanupError /\ client' = client
    BY <1>1 DEF ClientRest, WorldVars, managerVars, cancelVars, LinkInv, LinkTypeOK
  <1>3. \E pc \in {"unheard"} \cup Resolved : pc \in Points /\ Moves(u, pc)
    BY DEF CarriesOut, Refuses, TimesOut, Points
  <1> QED BY <1>1, <1>2, <1>3, Moving

\* The end of a scan keeps LinkInv: the new client is the only one.
LEMMA ScanEndsKeeps ==
  ASSUME LinkInv, NEW u \in Tasks, ScanEnds(u)
  PROVE  LinkInv'
  <1> DEFINE t == call[u].on
  <1>1. /\ t \in Connections /\ transport = None /\ \A s \in Connections : client[s] = "none"
        /\ \A v \in Tasks : call[v].on = t => v = u
    BY DEF LinkInv, LinkTypeOK, CallShape, DialAlone, ScanEnds
  <1>2. ClientRest /\ transport' = transport /\ cleanupError' = cleanupError
    BY FaultCounts DEF ScanEnds, ClientRest, WorldVars, managerVars, cancelVars, LinkInv, LinkTypeOK
  <1>3. CASE Moves(u, "backoff") /\ client' = client
    BY Moving, <1>1, <1>2, <1>3 DEF Points, ScanEnds
  <1>4. CASE Moves(u, "linking") /\ client' = [client EXCEPT ![t] = "linking"]
    <2> USE <1>1, <1>2, <1>4, NoTransport DEF Moves, Goes
    <2>1. LinkTypeOK'
      BY DEF LinkInv, LinkTypeOK, ClientStates, ClientRest, Points
    <2>2. CallShape' BY DEF LinkInv, LinkTypeOK, CallShape, ScanEnds
    <2>3. Solo' BY DEF LinkInv, LinkTypeOK, CallShape, Solo, ScanEnds
    <2>4. OneLive' /\ OthersNone' /\ UpIsCurrent'
      BY DEF LinkInv, LinkTypeOK, OneLive, OthersNone, UpIsCurrent
    <2>5. LinkingIsDialed' BY DEF LinkInv, LinkTypeOK, LinkingIsDialed
    <2>6. SentIsUp' BY DEF LinkInv, LinkTypeOK, CallShape, SentIsUp
    <2>7. SameTransport' BY DEF LinkInv, LinkTypeOK, SameTransport
    <2>8. DialAlone'
      BY SoloAlone DEF LinkInv, LinkTypeOK, CallShape, DialAlone, ScanEnds, Alone
    <2>9. WaitsClosed' BY DEF LinkInv, LinkTypeOK, CallShape, WaitsClosed
    <2>10. Detached'
      BY DEF LinkInv, LinkTypeOK, Detached, Detaches
    <2> QED BY <2>1, <2>2, <2>3, <2>4, <2>5, <2>6, <2>7, <2>8, <2>9, <2>10 DEF LinkInv
  <1> QED BY <1>3, <1>4 DEF ScanEnds

\* A failed negotiation keeps LinkInv.
LEMMA NegotiationFailsKeeps ==
  ASSUME LinkInv, NEW u \in Tasks, NegotiationFails(u)
  PROVE  LinkInv'
  <1>1. NeedsClosing(call[u].on) /\ call[u].op \in Methods /\ call[u].on \in Connections
    BY DEF NegotiationFails, NeedsClosing, LinkInv, LinkingIsDialed, CallShape, Methods
  <1>2. ClientRest /\ transport' = transport /\ cleanupError' = cleanupError
    BY FaultCounts DEF NegotiationFails, ClientRest, WorldVars, managerVars, cancelVars, LinkInv,
       LinkTypeOK
  <1>3. \E pc \in Undoing : pc \in Points /\ StartsClosing(u, call[u].op, pc, call[u].on)
    BY DEF NegotiationFails, Points
  <1> QED BY Closing, <1>1, <1>2, <1>3 DEF NegotiationFails

\* A negotiation that succeeds keeps LinkInv: the transport becomes the
\* manager's.
LEMMA NegotiatesKeeps ==
  ASSUME LinkInv, NEW u \in Tasks, Negotiates(u)
  PROVE  LinkInv'
  <1> DEFINE t == call[u].on
  <1>1. /\ t \in Connections /\ t # None /\ transport = None /\ client[t] = "linking"
        /\ \A s \in Connections : client[s] # "none" => s = t
        /\ call[u].op \in {"connect", "send", "query"}
    BY NoTransport DEF LinkInv, LinkTypeOK, CallShape, DialAlone, LinkingIsDialed, Negotiates
  <1>2. \A v \in Tasks : v # u => ~Busy(v)
    <2> SUFFICES ASSUME NEW v \in Tasks, v # u, Busy(v) PROVE FALSE
      OBVIOUS
    <2>1. Asks(v) /\ call[v].on \in Connections
      BY SoloAlone DEF Alone, Negotiates, LinkInv, CallShape
    <2>2. ~Woken(v)
      BY DEF Negotiates
    <2>3. \A w \in Tasks : ~At(w, Sent)
      BY <1>1 DEF LinkInv, CallShape, SentIsUp
    <2>4. \A w \in Tasks : ~At(w, Resolved)
      BY DEF Negotiates, Woken
    <2>5. \A w \in Tasks : ~At(w, Waiting)
      BY <1>1 DEF LinkInv, CallShape, WaitsClosed, Negotiates, Woken, Closed
    <2>6. \A w \in Tasks : ~At(w, {"wire"})
      BY <2>3, <2>4, <2>5 DEF Negotiates, Woken, HoldsWire
    <2> QED BY <2>1, <2>3, <2>4, <2>5, <2>6 DEF LinkInv, LinkTypeOK, Points
  <1>3. \E c \in [op : {"none", "send", "query"}, pc : {"ok", "waiting"}, on : {None, t}] :
           /\ call' = [call EXCEPT ![u] = c]
           /\ \/ c = [op |-> "none", pc |-> "ok", on |-> None]
              \/ c.op \in {"send", "query"} /\ c.pc = "waiting" /\ c.on = t
    BY <1>1 DEF Negotiates, Return, Goes
  <1>4. PICK c \in [op : {"none", "send", "query"}, pc : {"ok", "waiting"}, on : {None, t}] :
           /\ call' = [call EXCEPT ![u] = c]
           /\ \/ c = [op |-> "none", pc |-> "ok", on |-> None]
              \/ c.op \in {"send", "query"} /\ c.pc = "waiting" /\ c.on = t
    BY <1>3
  <1>5. call' \in [Tasks -> [op: Methods, pc: Points, on: Connections \cup {None}]]
    BY <1>1, <1>4 DEF LinkInv, LinkTypeOK, Points, Methods
  <1>6. /\ transport' = t /\ client' = [client EXCEPT ![t] = "up"]
        /\ UNCHANGED <<mclosing, retry, cleanupError, kept, doomed, interrupted, faults>>
    BY DEF Negotiates, cancelVars
  <1> HIDE DEF t
  <1> USE <1>1, <1>2, <1>4, <1>5, <1>6
  <1>7. LinkTypeOK'
    BY DEF LinkInv, LinkTypeOK, ClientStates
  <1>8. CallShape' BY DEF LinkInv, LinkTypeOK, CallShape
  <1>9. Solo' BY DEF LinkInv, LinkTypeOK, CallShape, Solo
  <1>10. OneLive' /\ OthersNone' /\ UpIsCurrent'
    BY DEF LinkInv, LinkTypeOK, OneLive, OthersNone, UpIsCurrent
  <1>11. LinkingIsDialed' BY DEF LinkInv, LinkTypeOK, LinkingIsDialed
  <1>12. SentIsUp' /\ SameTransport' BY DEF LinkInv, LinkTypeOK, SentIsUp, SameTransport
  <1>13. DialAlone' /\ WaitsClosed'
    BY DEF LinkInv, LinkTypeOK, DialAlone, WaitsClosed
  <1>14. Detached'
    BY DEF LinkInv, LinkTypeOK, Detached
  <1> QED BY <1>7, <1>8, <1>9, <1>10, <1>11, <1>12, <1>13, <1>14 DEF LinkInv

\* LinkInv holds at the start.
LEMMA LinkStarts ==
  ASSUME LinkInit
  PROVE  LinkInv
  <1>1. LinkTypeOK
    <2>1. NoCall \in [op : Methods, pc : Points, on : Connections \cup {None}]
      BY DEF NoCall, Methods, Points
    <2>2. faults \in 0 .. MaxFaults
      BY LinkAssumption DEF LinkInit
    <2>3. call \in [Tasks -> [op : Methods, pc : Points, on : Connections \cup {None}]]
      BY <2>1 DEF LinkInit
    <2>4. client \in [Connections -> ClientStates] /\ kept \in [Tasks -> Connections \cup {None}]
      BY DEF LinkInit, ClientStates
    <2> QED BY <2>2, <2>3, <2>4 DEF LinkInit, LinkTypeOK
  <1>2. CallShape /\ Solo
    BY DEF LinkInit, NoCall, CallShape, Solo
  <1>3. OneLive /\ OthersNone /\ UpIsCurrent /\ LinkingIsDialed /\ Detached
    BY DEF LinkInit, NoCall, OneLive, OthersNone, UpIsCurrent, LinkingIsDialed, Detached
  <1>4. SentIsUp /\ SameTransport /\ DialAlone /\ WaitsClosed
    BY DEF LinkInit, NoCall, SentIsUp, SameTransport, DialAlone, WaitsClosed
  <1> QED BY <1>1, <1>2, <1>3, <1>4 DEF LinkInv

\* What a step of one task's call leaves of the others.

(***************************************************************************)
(* What a step of one call leaves of the others: facts the session's       *)
(* proof needs without looking into the link again.                        *)
(***************************************************************************)
\* What a step of one task's call leaves of the others: only a command that
\* waits for an answer may find its link lost.
Others(u) ==
    \A v \in Tasks \ {u} :
        \/ call'[v] = call[v]
        \/ At(v, Sent) /\ call'[v] = [op |-> call[v].op, pc |-> "lost", on |-> call[v].on]

\* What follows from u opening a call of method op.
Opens(u, op) ==
    /\ Others(u) /\ doomed' \subseteq doomed
    /\ call'[u].pc \in Points \ {"idle", "accepted"}
    /\ Busy(u)' => call'[u].op = op

\* A call that goes to a place leaves the others alone.
LEMMA GoesOpens ==
  ASSUME LinkInv, NEW u \in Tasks, NEW op, NEW pc \in Points \ {"idle", "accepted"}, NEW t,
         call' = Goes(u, op, pc, t)
  PROVE  Others(u) /\ call'[u].op = op /\ call'[u].pc = pc /\ call'[u].on = t
  BY DEF Others, Goes, LinkInv, LinkTypeOK

\* Closing a transport fails the commands that wait on it, nothing else.
LEMMA ClosingOpens ==
  ASSUME LinkInv, NEW u \in Tasks, NEW op \in Methods, NEW pc \in Points, pc \notin Sent, NEW t \in Connections,
         StartsClosing(u, op, pc, t)
  PROVE  Others(u) /\ call'[u].op = op /\ call'[u].pc = pc /\ call'[u].on = t
  <1>1. call' = FailPending([call EXCEPT ![u] = [op |-> op, pc |-> pc, on |-> t]], t)
    BY DEF StartsClosing, Goes
  <1>2. call'[u] = [op |-> op, pc |-> pc, on |-> t]
    BY <1>1 DEF FailPending, LinkInv, LinkTypeOK
  <1>3. ASSUME NEW v \in Tasks \ {u}
        PROVE  \/ call'[v] = call[v]
               \/ At(v, Sent) /\ call'[v] = [op |-> call[v].op, pc |-> "lost", on |-> call[v].on]
    <2>1. call'[v] = IF call[v].on = t /\ call[v].pc \in Sent
                     THEN [op |-> call[v].op, pc |-> "lost", on |-> t] ELSE call[v]
      BY <1>1 DEF FailPending, LinkInv, LinkTypeOK
    <2> QED BY <2>1
  <1>4. Others(u)
    BY <1>3 DEF Others
  <1> QED BY <1>2, <1>4

\* A call that returns leaves the others alone.
LEMMA ReturnOpens ==
  ASSUME LinkInv, NEW u \in Tasks, NEW a \in Answers, Return(u, a)
  PROVE  Others(u) /\ call'[u].op = "none" /\ call'[u].pc = a /\ call'[u].on = None
  BY DEF Return, Others, Goes, LinkInv, LinkTypeOK

\* A call that begins to close the manager's transport is on that one.
LEMMA ClosesOpens ==
  ASSUME LinkInv, NEW u \in Tasks, NEW op \in Methods, NEW pc \in {"dropping", "closing", "closeOld"},
         transport # None, StartsClosing(u, op, pc, transport), UNCHANGED cancelVars
  PROVE  Opens(u, op) /\ call'[u].pc = pc /\ call'[u].on = transport
  <1>1. transport \in Connections /\ pc \in Points /\ pc \notin Sent
    BY DEF LinkInv, LinkTypeOK, Points
  <1>2. Others(u) /\ call'[u].op = op /\ call'[u].pc = pc /\ call'[u].on = transport
    BY <1>1, ClosingOpens
  <1> QED BY <1>1, <1>2 DEF Opens, cancelVars

\* A command that fails in the manager does not succeed, and looks only at the
\* manager's transport.
LEMMA FailsOpens ==
  ASSUME LinkInv, NEW u \in Tasks, NEW op \in {"send", "query"}, ManagerFails(u, op)
  PROVE  /\ Opens(u, op)
         /\ At(u, Answers \cup {"dropping"})' /\ ~At(u, {"ok"})'
         /\ Busy(u)' => transport # None /\ call'[u].on = transport
  <1>1. CASE \E a \in {"crash", "reset", "cleanup"} : Return(u, a) /\ Delivers(u)
    BY <1>1, ReturnOpens DEF Opens, Points, Delivers
  <1>2. CASE transport # None /\ StartsClosing(u, op, "dropping", transport) /\ UNCHANGED cancelVars
    BY <1>2, ClosesOpens DEF Methods
  <1> QED BY <1>1, <1>2 DEF ManagerFails, ReturnCleanup

\* A command that has its turn is on the transport it was given, or closes the
\* manager's.
LEMMA TakesOpens ==
  ASSUME LinkInv, NEW u \in Tasks, NEW op \in {"send", "query"}, NEW t \in Connections, TakesWire(u, op, t)
  PROVE  /\ Opens(u, op) /\ ~At(u, Dialing \cup {"ok"})'
         /\ Busy(u)' => call'[u].on = t \/ (transport # None /\ call'[u].on = transport)
         /\ At(u, Talking)' => transport' = transport
  <1>1. CASE call' = Goes(u, op, "waiting", t) /\ UNCHANGED <<transport, cancelVars>>
    BY <1>1, GoesOpens DEF Opens, Points, cancelVars
  <1>2. CASE ManagerFails(u, op)
    BY <1>2, FailsOpens
  <1> QED BY <1>1, <1>2 DEF TakesWire

\* A command stays on the manager's transport.
LEMMA EntersOpens ==
  ASSUME LinkInv, NEW u \in Tasks, NEW op \in {"send", "query"}, transport # None,
         EntersWire(u, op, transport)
  PROVE  /\ Opens(u, op) /\ ~At(u, Dialing \cup {"ok"})'
         /\ Busy(u)' => call'[u].on = transport
         /\ At(u, Talking)' => transport' = transport
  <1>1. CASE call' = Goes(u, op, "wire", transport) /\ UNCHANGED <<transport, cancelVars>>
    BY <1>1, GoesOpens DEF Opens, Points, cancelVars
  <1>2. CASE TakesWire(u, op, transport)
    BY <1>2, TakesOpens DEF LinkInv, LinkTypeOK
  <1> QED BY <1>1, <1>2 DEF EntersWire

\* connect() succeeds at once only if there is a transport.
LEMMA ConnectingOpens ==
  ASSUME LinkInv, NEW u \in Tasks, NEW op \in {"connect", "send", "query"}, EntersConnect(u, op)
  PROVE  /\ Opens(u, op)
         /\ transport = None => ~At(u, {"ok"})'
  <1>1. CASE Connected /\ Return(u, "ok") /\ UNCHANGED cancelVars
    BY <1>1, ReturnOpens DEF Opens, Points, cancelVars, Connected
  <1>2. CASE transport # None /\ StartsClosing(u, op, "closeOld", transport) /\ UNCHANGED cancelVars
    BY <1>2, ClosesOpens DEF Methods
  <1>3. CASE ReturnCleanup(u)
    BY <1>3, ReturnOpens DEF Opens, Points, ReturnCleanup, Delivers
  <1>4. CASE TriesToConnect(u, op) /\ UNCHANGED cancelVars
    BY <1>4, GoesOpens DEF Opens, Points, TriesToConnect, cancelVars
  <1> QED BY <1>1, <1>2, <1>3, <1>4 DEF EntersConnect

\* A manager in quarantine answers at once.
LEMMA NotReusedOpens ==
  ASSUME LinkInv, NEW u \in Tasks, NotReusable(u), NEW op
  PROVE  Opens(u, op) /\ cleanupError /\ call'[u].pc = "cleanup"
  BY ReturnOpens DEF NotReusable, Opens, Points, cancelVars

\* What opening connect() does to the calls.
LEMMA ConnectsOpens ==
  ASSUME LinkInv, NEW u \in Tasks, Connects(u)
  PROVE  Opens(u, "connect")
  BY NotReusedOpens, ConnectingOpens DEF Connects

\* A command made with a transport is on that one, and does not connect.
LEMMA CommandsOpens ==
  ASSUME LinkInv, NEW u \in Tasks, NEW op \in {"send", "query"}, Commands(u, op)
  PROVE  /\ Opens(u, op) /\ ~At(u, {"ok"})'
         /\ transport # None =>
              /\ Busy(u)' => call'[u].on = transport /\ ~At(u, Dialing)'
              /\ At(u, Talking)' => transport' = transport
  BY NotReusedOpens, ConnectingOpens, EntersOpens DEF Commands

\* What opening reset() or close() does to the calls.
LEMMA ReleasesOpens ==
  ASSUME LinkInv, NEW u \in Tasks, NEW op \in {"reset", "close"}, Releases(u, op)
  PROVE  Opens(u, op)
  <1>1. CASE transport # None /\ StartsClosing(u, op, "closing", transport) /\ UNCHANGED cancelVars
    BY <1>1, ClosesOpens DEF Methods
  <1>2. CASE ReturnCleanup(u)
    BY <1>2, ReturnOpens DEF Opens, Points, ReturnCleanup, Delivers
  <1>3. CASE Return(u, "ok") /\ UNCHANGED cancelVars
    BY <1>3, ReturnOpens DEF Opens, Points, cancelVars
  <1> QED BY <1>1, <1>2, <1>3 DEF Releases

\* A step of a call under way: it keeps its method and, unless it connects,
\* its transport; it succeeds only from an acknowledgement.
Continued(u) ==
    /\ Others(u) /\ doomed' \subseteq doomed /\ kept' = kept
    /\ call'[u].pc \in Points \ {"idle", "accepted"}
    /\ Busy(u)' => call'[u].op = call[u].op
    /\ ~At(u, Dialing) =>
         /\ Busy(u)' => call'[u].on = call[u].on /\ ~At(u, Dialing)'
         /\ At(u, Talking)' => At(u, Talking) /\ transport' = transport
    /\ call[u].op \in {"send", "query"} /\ At(u, {"ok"})' =>
         At(u, {"accepted"}) /\ transport' = transport

\* A call that ends without success.
LEMMA ReturnContinues ==
  ASSUME LinkInv, NEW u \in Tasks, NEW a \in Answers \ {"ok"}, Return(u, a),
         doomed' \subseteq doomed, kept' = kept
  PROVE  Continued(u)
  BY ReturnOpens DEF Continued, Points

\* A command that fails in the manager.
LEMMA FailsContinues ==
  ASSUME LinkInv, NEW u \in Tasks, ManagerFails(u, call[u].op), At(u, Talking \cup {"shutting"}), kept' = kept
  PROVE  Continued(u)
  <1>1. call[u].op \in {"send", "query"} /\ transport \in {None, call[u].on}
    BY DEF LinkInv, CallShape, SameTransport
  <1> QED BY <1>1, FailsOpens DEF Continued, Opens

\* A call that begins to close its transport.
LEMMA ClosingContinues ==
  ASSUME LinkInv, NEW u \in Tasks, NEW pc \in Undoing \cup {"shutting"}, pc \in Undoing => At(u, Dialing),
         StartsClosing(u, call[u].op, pc, call[u].on),
         Busy(u), UNCHANGED <<cancelVars, kept>>
  PROVE  Continued(u)
  <1>1. call[u].op \in Methods /\ call[u].on \in Connections /\ pc \in Points /\ pc \notin Sent
    BY DEF LinkInv, LinkTypeOK, CallShape, Points
  <1> QED BY <1>1, ClosingOpens DEF Continued, cancelVars, LinkInv, LinkTypeOK

\* connect() goes on to its next attempt, or to the pause before.
LEMMA DialingContinues ==
  ASSUME LinkInv, NEW u \in Tasks, NEW pc \in {"scan", "paused", "backoff"}, NEW t,
         call' = Goes(u, call[u].op, pc, t), At(u, Dialing), UNCHANGED <<cancelVars, kept>>
  PROVE  Continued(u)
  <1>1. Others(u) /\ call'[u].op = call[u].op /\ call'[u].pc = pc
    BY GoesOpens DEF Points
  <1> QED BY <1>1 DEF Continued, cancelVars, Points

\* Every step of a call after an await is one of these.
LEMMA ProceedsContinues ==
  ASSUME LinkInv, NEW u \in Tasks, Proceeds(u)
  PROVE  Continued(u)
  <1>1. CASE GetsWire(u)
    <2>1. /\ call[u].op \in {"send", "query"} /\ call[u].on \in Connections /\ kept' = kept
          /\ transport \in {None, call[u].on}
      BY <1>1 DEF GetsWire, LinkInv, CallShape, SameTransport, ProceedVars
    <2> QED BY <1>1, <2>1, TakesOpens DEF Continued, Opens, GetsWire
  <1>2. CASE Acknowledged(u)
    BY <1>2, ReturnOpens DEF Acknowledged, Continued, ProceedVars, managerVars, cancelVars,
       Points, LinkInv, LinkTypeOK
  <1>3. CASE LosesCommand(u)
    BY <1>3, FailsContinues, ClosingContinues DEF LosesCommand, ProceedVars
  <1>4. CASE ShutDown(u)
    BY <1>4, FailsContinues, ReturnContinues DEF ShutDown, ProceedVars, ReturnCancelled, Delivers
  <1>5. CASE Dropped(u)
    <2>1. CASE ReturnCleanup(u) \/ ReturnCancelled(u)
      BY <1>5, <2>1, ReturnContinues DEF Dropped, ReturnCleanup, ReturnCancelled, Delivers, ProceedVars
    <2>2. CASE Return(u, IF call[u].op \in {"send", "query"} THEN "reset" ELSE "ok") /\ UNCHANGED cancelVars
      <3>1. PICK a \in {"reset", "ok"} : Return(u, a) /\ (call[u].op \in {"send", "query"} => a = "reset")
        BY <2>2
      <3>2. Others(u) /\ call'[u].pc = a /\ ~At(u, Dialing) /\ doomed' = doomed /\ kept' = kept
        BY <1>5, <2>2, <3>1, ReturnOpens DEF Dropped, cancelVars, ProceedVars
      <3> QED BY <3>1, <3>2 DEF Continued, Points
    <2> QED BY <1>5, <2>1, <2>2 DEF Dropped
  <1>6. CASE Undone(u)
    <2>1. CASE ReturnCleanup(u) \/ ReturnCancelled(u)
      BY <1>6, <2>1, ReturnContinues DEF Undone, ReturnCleanup, ReturnCancelled, Delivers, ProceedVars
    <2>2. CASE \E pc \in {"paused", "backoff"} : Moves(u, pc) /\ UNCHANGED cancelVars
      BY <1>6, <2>2, DialingContinues DEF Undone, Moves, ProceedVars
    <2>3. CASE TriesToConnect(u, call[u].op) /\ UNCHANGED cancelVars
      BY <1>6, <2>3, DialingContinues DEF Undone, TriesToConnect, ProceedVars
    <2> QED BY <1>6, <2>1, <2>2, <2>3 DEF Undone
  <1>7. CASE TriesAgain(u)
    <2>1. CASE ReturnCancelled(u)
      BY <1>7, <2>1, ReturnContinues DEF TriesAgain, ReturnCancelled, Delivers, ProceedVars
    <2>2. CASE TriesToConnect(u, call[u].op) /\ UNCHANGED cancelVars
      BY <1>7, <2>2, DialingContinues DEF TriesAgain, TriesToConnect, ProceedVars
    <2> QED BY <1>7, <2>1, <2>2 DEF TriesAgain
  <1>8. CASE Unwinds(u)
    <2>1. CASE ReturnCancelled(u)
      BY <1>8, <2>1, ReturnContinues DEF Unwinds, ReturnCancelled, Delivers, ProceedVars
    <2>2. CASE At(u, Sent \cup Resolved) /\ ManagerFails(u, call[u].op)
      BY <1>8, <2>2, FailsContinues DEF Unwinds, ProceedVars
    <2>3. CASE \/ At(u, Sent \cup Resolved) /\ StartsClosing(u, call[u].op, "shutting", call[u].on) /\ UNCHANGED cancelVars
               \/ At(u, {"linking"}) /\ StartsClosing(u, call[u].op, "undoFailed", call[u].on) /\ UNCHANGED cancelVars
      BY <1>8, <2>3, ClosingContinues DEF Unwinds, ProceedVars
    <2> QED BY <1>8, <2>1, <2>2, <2>3 DEF Unwinds
  <1> QED BY <1>1, <1>2, <1>3, <1>4, <1>5, <1>6, <1>7, <1>8 DEF Proceeds

\* A step of the world on one task's call: it resolves a command on the
\* transport it was sent on, or advances a connect().
Heard(u) ==
    /\ Others(u) /\ UNCHANGED <<doomed, kept>>
    /\ call'[u].pc # "idle"
    /\ Busy(u)' => call'[u].op = call[u].op
    /\ ~At(u, Dialing) =>
         /\ call'[u].on = call[u].on /\ transport' = transport
         /\ At(u, Sent) /\ At(u, Sent \cup Resolved)'
    /\ At(u, {"ok"})' => call[u].op = "connect"

\* The panel acknowledges a command.
LEMMA CarriesOutIsHeard ==
  ASSUME LinkInv, NEW u \in Tasks, CarriesOut(u)
  PROVE  Heard(u)
  BY DEF CarriesOut, Heard, Others, Moves, Goes, WorldVars, managerVars, cancelVars, LinkInv, LinkTypeOK

\* The panel refuses, or the radio has news; nothing is acknowledged.
LEMMA RadioIsHeard ==
  ASSUME LinkInv, NEW u \in Tasks,
         Refuses(u) \/ TimesOut(u) \/ ScanEnds(u) \/ NegotiationFails(u) \/ Negotiates(u)
  PROVE  Heard(u) /\ ~At(u, {"accepted"})'
  <1>1. CASE Refuses(u) \/ TimesOut(u) \/ ScanEnds(u)
    BY <1>1 DEF Refuses, TimesOut, ScanEnds, Heard, Others, Moves, Goes, WorldVars, managerVars,
       cancelVars, LinkInv, LinkTypeOK
  <1>2. CASE NegotiationFails(u)
    <2>1. call[u].op \in Methods /\ call[u].on \in Connections
      BY <1>2 DEF NegotiationFails, LinkInv, LinkTypeOK, CallShape
    <2> QED BY <1>2, <2>1, ClosingOpens DEF NegotiationFails, Heard, WorldVars, cancelVars, Points
  <1>3. CASE Negotiates(u)
    <2>1. call[u].op \in {"connect", "send", "query"}
      BY <1>3 DEF Negotiates, LinkInv, CallShape
    <2> QED BY <1>3, <2>1, GoesOpens, ReturnOpens DEF Negotiates, Heard, cancelVars, Points
  <1> QED BY <1>1, <1>2, <1>3

\* A client drops or is released: commands on it are lost, and no call
\* returns.
LEMMA ClientIsHeard ==
  ASSUME LinkInv, NEW t \in Connections, LinkDrops(t) \/ CleanupEnds(t)
  PROVE  /\ doomed' = doomed /\ kept' = kept /\ transport' = transport
         /\ \A v \in Tasks :
               \/ call'[v] = call[v]
               \/ At(v, Sent) /\ call'[v] = [op |-> call[v].op, pc |-> "lost", on |-> call[v].on]
  <1>1. doomed' = doomed /\ kept' = kept /\ transport' = transport
    BY DEF LinkDrops, CleanupEnds, WorldVars, managerVars, cancelVars
  <1>2. ASSUME NEW v \in Tasks
        PROVE  \/ call'[v] = call[v]
               \/ At(v, Sent) /\ call'[v] = [op |-> call[v].op, pc |-> "lost", on |-> call[v].on]
    <2>1. \/ call'[v] = call[v]
          \/ call'[v] = IF call[v].on = t /\ call[v].pc \in Sent
                        THEN [op |-> call[v].op, pc |-> "lost", on |-> t] ELSE call[v]
      BY DEF LinkDrops, CleanupEnds, FailPending
    <2> QED BY <2>1
  <1> QED BY <1>1, <1>2

(***************************************************************************)
(* The second part: the session.                                           *)
(***************************************************************************)


(***************************************************************************)
(* The lock's queue.                                                       *)
(***************************************************************************)
\* Task u is in queue q.
In(u, q) == \E i \in DOMAIN q : q[i] = u
\* Task u is at the head of queue q.
First(u, q) == q # <<>> /\ Head(q) = u
\* q is a queue of tasks, each at most once.
InOrder(q) == q \in Seq(Tasks) /\ \A i, j \in DOMAIN q : q[i] = q[j] => i = j

\* The five tasks are five.
LEMMA TasksDiffer ==
  /\ Runner # Clock /\ Runner # Screen /\ Runner # Install /\ Runner # Repair
  /\ Clock # Screen /\ Clock # Install /\ Clock # Repair
  /\ Screen # Install /\ Screen # Repair /\ Install # Repair
  <1> DEFINE A == {Runner}  B == A \cup {Clock}  C == B \cup {Screen}  D == C \cup {Install}
             E == D \cup {Repair}
  <1>1. IsFiniteSet(A) /\ Cardinality(A) = 1
    BY FS_Singleton
  <1>2. IsFiniteSet(B) /\ Cardinality(B) = IF Clock \in A THEN 1 ELSE 2
    BY <1>1, FS_AddElement
  <1>3. IsFiniteSet(C) /\ Cardinality(C) = IF Screen \in B THEN Cardinality(B) ELSE Cardinality(B) + 1
    BY <1>2, FS_AddElement
  <1>4. IsFiniteSet(D) /\ Cardinality(D) = IF Install \in C THEN Cardinality(C) ELSE Cardinality(C) + 1
    BY <1>3, FS_AddElement
  <1>5. IsFiniteSet(E) /\ Cardinality(E) = IF Repair \in D THEN Cardinality(D) ELSE Cardinality(D) + 1
    BY <1>4, FS_AddElement
  <1>6. E = {Runner, Clock, Screen, Install, Repair}
    OBVIOUS
  <1>7. Cardinality(E) = 5
    BY <1>6, LinkAssumption
  <1> HIDE DEF E
  <1>8. Cardinality(D) = 4 /\ Repair \notin D
    BY <1>2, <1>3, <1>4, <1>5, <1>7
  <1>9. Cardinality(C) = 3 /\ Install \notin C
    BY <1>2, <1>3, <1>4, <1>8
  <1>10. Cardinality(B) = 2 /\ Screen \notin B
    BY <1>2, <1>3, <1>9
  <1>11. Clock \notin A
    BY <1>2, <1>10
  <1> QED BY <1>8, <1>9, <1>10, <1>11

\* There are five tasks.
LEMMA FiveTasks == IsFiniteSet(Tasks) /\ Cardinality(Tasks) = 5
  <1>1. IsFiniteSet({Runner}) /\ IsFiniteSet({Runner} \cup {Clock})
    BY FS_Singleton, FS_AddElement
  <1>2. IsFiniteSet({Runner} \cup {Clock} \cup {Screen})
    BY <1>1, FS_AddElement
  <1>3. IsFiniteSet({Runner} \cup {Clock} \cup {Screen} \cup {Install})
    BY <1>2, FS_AddElement
  <1>4. IsFiniteSet({Runner} \cup {Clock} \cup {Screen} \cup {Install} \cup {Repair})
    BY <1>3, FS_AddElement
  <1>5. Tasks = {Runner} \cup {Clock} \cup {Screen} \cup {Install} \cup {Repair}
    BY DEF Tasks
  <1> QED BY <1>4, <1>5, LinkAssumption DEF Tasks

\* A queue has at most the five of them.
LEMMA ShortQueue ==
  ASSUME NEW q, InOrder(q)
  PROVE  Len(q) <= 5
  <1>1. q \in [1 .. Len(q) -> Tasks] /\ Len(q) \in Nat
    BY DEF InOrder
  <1>2. q \in Injection(1 .. Len(q), Tasks)
    BY <1>1 DEF InOrder, Injection, IsInjective
  <1>3. Cardinality(1 .. Len(q)) <= 5
    BY <1>2, FS_Injection, FiveTasks
  <1> DEFINE n == Len(q)
  <1>4. n \in Int /\ 1 \in Int /\ n >= 0
    BY <1>1
  <1> HIDE DEF n
  <1>5. Cardinality(1 .. n) = IF 1 > n THEN 0 ELSE n - 1 + 1
    BY <1>4, FS_Interval
  <1>6. Cardinality(1 .. n) = n
    BY <1>4, <1>5
  <1> QED BY <1>3, <1>6 DEF n

\* One task is at the head.
LEMMA OneFirst ==
  ASSUME NEW q, NEW u, NEW v, First(u, q), First(v, q)
  PROVE  u = v
  BY DEF First

\* Nobody is in the empty queue.
LEMMA NobodyIn ==
  ASSUME NEW u
  PROVE  ~In(u, <<>>)
  BY DEF In

\* Joining a queue one is not in keeps everybody's place
\* (asyncio.Lock.acquire()).
LEMMA Appending ==
  ASSUME NEW q, InOrder(q), NEW u \in Tasks, ~In(u, q)
  PROVE  LET w == Append(q, u)
         IN  /\ InOrder(w) /\ w # <<>>
             /\ \A v : In(v, w) <=> In(v, q) \/ v = u
             /\ \A v : First(v, q) => First(v, w)
             /\ q = <<>> => First(u, w)
  <1> DEFINE w == Append(q, u)  n == Len(q)
  <1>1. q \in Seq(Tasks) /\ n \in Nat /\ DOMAIN q = 1 .. n
    BY DEF InOrder
  <1>2. w \in Seq(Tasks) /\ Len(w) = n + 1 /\ DOMAIN w = 1 .. n + 1 /\ w # <<>>
    BY <1>1
  <1>3. \A i \in 1 .. n + 1 : w[i] = IF i <= n THEN q[i] ELSE u
    BY <1>1
  <1> HIDE DEF w, n
  <1>4. InOrder(w)
    BY <1>1, <1>2, <1>3 DEF InOrder, In
  <1>5. ASSUME NEW v PROVE In(v, w) <=> In(v, q) \/ v = u
    BY <1>1, <1>2, <1>3 DEF In
  <1>6. ASSUME NEW v, First(v, q) PROVE First(v, w)
    BY <1>1, <1>2, <1>3, <1>6 DEF First, n
  <1>7. q = <<>> => First(u, w)
    BY <1>1, <1>2, <1>3 DEF First, n
  <1> QED BY <1>2, <1>4, <1>5, <1>6, <1>7 DEF w

\* Leaving a queue from any place keeps the order of the others (release(), or
\* a cancelled acquire()).
LEMMA Removing ==
  ASSUME InOrder(lockq), NEW u \in Tasks
  PROVE  LET w == Without(u)
         IN  /\ InOrder(w)
             /\ \A v : In(v, w) <=> In(v, lockq) /\ v # u
             /\ \A v : First(v, lockq) /\ v # u => First(v, w)
  <1> DEFINE w == Without(u)  n == Len(lockq)
  <1>1. lockq \in Seq(Tasks) /\ n \in Nat /\ DOMAIN lockq = 1 .. n
    BY DEF InOrder
  <1>2. CASE ~In(u, lockq)
    <2>1. w = lockq
      BY <1>2 DEF Without, In
    <2> QED BY <1>2, <2>1 DEF In
  <1>3. CASE In(u, lockq)
    <2> DEFINE k == CHOOSE i \in DOMAIN lockq : lockq[i] = u
    <2>1. k \in 1 .. n /\ lockq[k] = u /\ w = RemoveAt(lockq, k)
      BY <1>1, <1>3 DEF Without, In
    <2> HIDE DEF k
    <2>0. \A i \in 1 .. n : lockq[i] \in Tasks
      BY <1>1
    <2> DEFINE a == SubSeq(lockq, 1, k - 1)  b == SubSeq(lockq, k + 1, n)
    <2>2. /\ a \in Seq(Tasks) /\ Len(a) = k - 1
          /\ \A i \in 1 .. k - 1 : a[i] = lockq[i]
      <3>1. 1 \in Int /\ k - 1 \in Int /\ \A i \in 1 .. k - 1 : lockq[i] \in Tasks
        BY <1>1, <2>0, <2>1
      <3>2. /\ a \in Seq(Tasks) /\ Len(a) = IF 1 <= k - 1 THEN (k - 1) - 1 + 1 ELSE 0
            /\ \A i \in 1 .. (k - 1) - 1 + 1 : a[i] = lockq[1 + i - 1]
        BY <3>1, SubSeqProperties
      <3> HIDE DEF a
      <3> QED BY <1>1, <2>1, <3>2
    <2>3. /\ b \in Seq(Tasks) /\ Len(b) = n - k
          /\ \A i \in 1 .. n - k : b[i] = lockq[k + i]
      <3>1. k + 1 \in Int /\ n \in Int /\ \A i \in k + 1 .. n : lockq[i] \in Tasks
        BY <1>1, <2>0, <2>1
      <3>2. /\ b \in Seq(Tasks) /\ Len(b) = IF k + 1 <= n THEN n - (k + 1) + 1 ELSE 0
            /\ \A i \in 1 .. n - (k + 1) + 1 : b[i] = lockq[(k + 1) + i - 1]
        BY <3>1, SubSeqProperties
      <3> HIDE DEF b, n
      <3>3. ASSUME NEW i \in 1 .. n - k PROVE b[i] = lockq[k + i]
        <4>1. i \in 1 .. n - (k + 1) + 1 /\ (k + 1) + i - 1 = k + i
          BY <1>1, <2>1
        <4> QED BY <3>2, <4>1
      <3>4. Len(b) = n - k
        BY <1>1, <2>1, <3>2
      <3> QED BY <3>2, <3>3, <3>4
    <2>4. w = a \o b
      BY <2>1 DEF RemoveAt
    <2> HIDE DEF a, b, w, n
    <2>5. w \in Seq(Tasks) /\ Len(w) = n - 1 /\ DOMAIN w = 1 .. n - 1
      <3>1. w \in Seq(Tasks) /\ Len(w) = Len(a) + Len(b)
        BY <2>2, <2>3, <2>4, ConcatProperties
      <3>2. Len(w) = n - 1
        BY <1>1, <2>1, <2>2, <2>3, <3>1
      <3> QED BY <3>1, <3>2
    <2>6. \A i \in 1 .. n - 1 : w[i] = IF i < k THEN lockq[i] ELSE lockq[i + 1]
      <3>1. \A i \in 1 .. Len(a) + Len(b) : w[i] = IF i <= Len(a) THEN a[i] ELSE b[i - Len(a)]
        BY <2>2, <2>3, <2>4, ConcatProperties
      <3>2. ASSUME NEW i \in 1 .. n - 1 PROVE w[i] = IF i < k THEN lockq[i] ELSE lockq[i + 1]
        <4>1. w[i] = IF i <= k - 1 THEN a[i] ELSE b[i - (k - 1)]
          BY <1>1, <2>1, <2>2, <2>3, <3>1
        <4>2. CASE i < k
          BY <1>1, <2>1, <2>2, <4>1, <4>2
        <4>3. CASE i >= k
          <5>1. i - (k - 1) \in 1 .. n - k /\ k + (i - (k - 1)) = i + 1
            BY <1>1, <2>1, <4>3
          <5> QED BY <1>1, <2>1, <2>3, <4>1, <4>3, <5>1
        <4> QED BY <1>1, <2>1, <4>2, <4>3
      <3> QED BY <3>2
    <2>7. InOrder(w)
      <3> DEFINE src(i) == IF i < k THEN i ELSE i + 1
      <3>1. \A i \in 1 .. n - 1 : src(i) \in 1 .. n /\ w[i] = lockq[src(i)]
        BY <1>1, <2>1, <2>6
      <3>2. \A i, j \in 1 .. n - 1 : src(i) = src(j) => i = j
        BY <1>1, <2>1
      <3> HIDE DEF src
      <3>3. \A i, j \in 1 .. n : lockq[i] = lockq[j] => i = j
        BY <1>1 DEF InOrder
      <3> QED BY <2>5, <3>1, <3>2, <3>3 DEF InOrder
    <2>8. ASSUME NEW v, In(v, w) PROVE In(v, lockq) /\ v # u
      <3>1. PICK i \in 1 .. n - 1 : w[i] = v
        BY <2>5, <2>8 DEF In
      <3> DEFINE j == IF i < k THEN i ELSE i + 1
      <3>2. j \in 1 .. n /\ lockq[j] = v /\ j # k
        <4>1. j \in 1 .. n /\ j # k
          BY <1>1, <2>1
        <4> QED BY <2>6, <3>1, <4>1
      <3> HIDE DEF j
      <3>3. v # u
        BY <1>1, <2>1, <3>2 DEF InOrder
      <3> QED BY <1>1, <3>2, <3>3 DEF In
    <2>9. ASSUME NEW v, In(v, lockq), v # u PROVE In(v, w)
      <3>1. PICK i \in 1 .. n : lockq[i] = v
        BY <1>1, <2>9 DEF In
      <3>2. i # k
        BY <3>1, <2>1, <2>9
      <3>3. CASE i < k
        <4>1. i \in 1 .. n - 1 /\ w[i] = v
          BY <1>1, <2>1, <2>6, <3>1, <3>3
        <4> QED BY <2>5, <4>1 DEF In
      <3>4. CASE i > k
        <4>1. i - 1 \in 1 .. n - 1 /\ w[i - 1] = v
          BY <1>1, <2>1, <2>6, <3>1, <3>4
        <4> QED BY <2>5, <4>1 DEF In
      <3> QED BY <1>1, <2>1, <3>2, <3>3, <3>4
    <2>10. ASSUME NEW v, First(v, lockq), v # u PROVE First(v, w)
      <3>1. Head(lockq) = lockq[1] /\ n # 0 /\ lockq[1] = v
        BY <1>1, <2>10 DEF First, n
      <3>2. 1 < k /\ n - 1 >= 1
        BY <1>1, <2>1, <2>10, <3>1
      <3>3. w[1] = v /\ w # <<>> /\ Head(w) = w[1]
        BY <1>1, <2>5, <2>6, <3>1, <3>2
      <3> QED BY <3>3 DEF First
    <2> QED BY <2>7, <2>8, <2>9, <2>10 DEF w
  <1> QED BY <1>2, <1>3

(***************************************************************************)
(* The inductive invariant.                                                *)
(***************************************************************************)
\* Places in the code where the lock is held.
Within == {"connect0", "reconnect", "pubconnect", "codex", "claude", "sync", "command",
           "preflight", "manifest", "confirm", "firmware", "reboot", "rejoin",
           "report", "abort", "reset"}
\* ... or waited for.
LockJobs == Within \cup {"lock0", "relock", "publock", "lock"}
\* Places where a call of the manager is made.
InCalls == Within \cup {"asking"}
\* The commands of an update.
UpdateJobs == {"preflight", "manifest", "confirm", "firmware"}
\* The steps of run()'s finally.
Finals == {"final1", "final2", "final3", "final4"}

\* Types of the control state.
JobTypes ==
    /\ job \in [Tasks -> RunnerJobs \cup ClockJobs \cup ScreenJobs \cup InstallJobs \cup RepairJobs]
    /\ job[Runner] \in RunnerJobs /\ job[Clock] \in ClockJobs /\ job[Screen] \in ScreenJobs
    /\ job[Install] \in InstallJobs /\ job[Repair] \in RepairJobs
    /\ closing \in BOOLEAN /\ linked \in BOOLEAN
    /\ exclusive \in {Nobody, Install, Repair}
    /\ fate \in {"restart", "dead", "gone"}
    /\ owner \in {"owned", "stopUpdate", "stopRunner", "stopScreen", "forgotten"}
\* Types of the flags and counters.
FlagTypes ==
    /\ wake \in BOOLEAN /\ sameStatus \in BOOLEAN
    /\ offered \in 0 .. MaxOffers /\ delivered \in 0 .. MaxOffers /\ revision \in 0 .. MaxOffers
    /\ requests \in 0 .. MaxRequests
    /\ shown \in [Providers -> 0 .. MaxOffers]

\* The lock's queue agrees with where the tasks are, and only its head goes
\* on.
Queued ==
    /\ InOrder(lockq)
    /\ \A u \in Tasks : In(u, lockq) <=> job[u] \in LockJobs
    /\ \A u \in Tasks : job[u] \in Within => First(u, lockq)
\* A task is in a call of the manager, or has just come back, exactly where
\* its code makes one; Runner's last close() may not have begun.
Calls ==
    \A u \in Tasks :
        /\ job[u] \in InCalls => ~Idle(u)
        /\ job[u] \notin InCalls \cup {"final4"} => Idle(u)
\* The method that is called there.
Ops ==
    /\ job[Install] = "asking" /\ Busy(Install) => call[Install].op = "query"
    /\ job[Install] \in UpdateJobs /\ Busy(Install) => call[Install].op \in {"send", "query"}
    /\ job[Runner] \in Providers /\ Busy(Runner) => call[Runner].op = "send"

\* _exclusive_task is set exactly while a repair runs, or an update beyond its
\* decision.
Excluding ==
    /\ exclusive = Repair <=> ~Off(Repair)
    /\ exclusive = Install <=> job[Install] \in LockJobs
\* run()'s finally: what has been stopped stays stopped until the session runs
\* again.
Stopping ==
    /\ job[Runner] \in Finals => closing
    /\ job[Runner] \in {"final2", "final3", "final4"} => exclusive = Nobody
    /\ job[Runner] \in {"final3", "final4"} => Off(Screen)
    /\ job[Runner] \in {"final4", "new", "delay"} => Off(Clock)
\* forget(): what has been stopped on a panel that is given up, and who is
\* cancelled only then. A time synchronisation may outlive Runner, but not
\* within its command.
Owning ==
    /\ owner # "owned" => Off(Repair) /\ job[Install] \in {"off", "asking", "deciding"}
    /\ ~InService => Off(Install)
    /\ owner \in {"stopScreen", "forgotten"} => job[Runner] \in Ended
    /\ owner = "forgotten" => Off(Screen)
    /\ Runner \in doomed => ~InService
    /\ job[Clock] = "sync" /\ job[Runner] \in Finals => ~InService /\ Runner \notin doomed
    /\ job[Runner] \in Ended => Off(Clock) \/ (closing /\ job[Clock] # "sync")
    /\ owner \in {"stopScreen", "forgotten"} => closing

\* Only a click and an update remember a connection.
Keeping == \A u \in Tasks \ {Screen, Install} : kept[u] = None
\* ... and their commands are on the one they remember, without connecting.
Bound ==
    \A u \in {Screen, Install} :
        job[u] \in UpdateJobs \cup {"command", "asking"} /\ Busy(u) =>
            call[u].on = kept[u] /\ ~At(u, Dialing)
\* An update that talks, or has just been answered well, is on the manager's
\* transport.
Chosen ==
    job[Install] \in UpdateJobs /\ At(Install, Talking \cup {"ok"}) =>
        transport = kept[Install] /\ transport # None

\* What is counted as delivered has been shown; after the first value of a
\* snapshot the panel shows that one.
Delivery ==
    /\ delivered <= offered /\ revision <= offered
    /\ \A p \in Providers : delivered <= shown[p]
    /\ job[Runner] \in Providers => delivered <= revision
    /\ job[Runner] = "claude" => revision <= shown["codex"]
    /\ \A p \in Providers : job[Runner] = p /\ At(Runner, {"accepted", "ok"}) => revision <= shown[p]

\* The control state.
LifeInv == JobTypes /\ Excluding /\ Stopping /\ Owning
\* The snapshots.
DataInv == FlagTypes /\ Delivery
\* The calls.
CallInv == Calls /\ Ops /\ Keeping /\ Bound /\ Chosen
\* The inductive invariant of the session.
SessionInv == LinkInv /\ LifeInv /\ Queued /\ CallInv /\ DataInv

(***************************************************************************)
(* Facts the steps share.                                                  *)
(***************************************************************************)
\* Names for sets of places in the code are seen through everywhere.
USE DEF Free, Talking, Undialing, Dialing, Waiting, Settled, Busy, Asks, At, Answers, Sent, Resolved, Undoing,
    None, Idle, Off, Holds, InService

\* LinkInv stays while the link's state does.
LEMMA Stands ==
  ASSUME LinkInv, call' = call, transport' = transport, cleanupError' = cleanupError, client' = client, ClientRest
  PROVE  LinkInv'
  BY DEF LinkInv, LinkTypeOK, ClientRest, CallShape, Solo, OneLive, OthersNone, UpIsCurrent,
     LinkingIsDialed, SentIsUp, SameTransport, DialAlone, WaitsClosed, Detached, Detaches

\* A task that takes an answer and makes no new call keeps LinkInv.
LEMMA Idled ==
  ASSUME LinkInv, NEW u \in Tasks, At(u, Free), Idles(u), transport' = transport,
         cleanupError' = cleanupError, client' = client, ClientRest
  PROVE  LinkInv' /\ Others(u) /\ call'[u].pc = "idle"
  <1>1. call' = Goes(u, "none", "idle", None) /\ \A t \in Connections : ~Detaches(u, t)
    BY DEF Idles, Detaches
  <1>2. LinkInv'
    BY <1>1, Leaving DEF LinkInv, LinkTypeOK
  <1> QED BY <1>1, <1>2 DEF Goes, Others, LinkInv, LinkTypeOK

\* If nobody else's code is under the lock, or in run()'s last step, nobody
\* else is in a call but the question before an update.
LEMMA HolderAlone ==
  ASSUME SessionInv, NEW u \in Tasks, At(u, Free),
         \A v \in Tasks \ {u} : job[v] \notin Within \cup {"final4"}
  PROVE  Alone(u)
  <1> SUFFICES ASSUME NEW v \in Tasks \ {u}, Busy(v) PROVE Asks(v)
    BY DEF Alone
  <1>1. job[v] = "asking"
    BY DEF SessionInv, CallInv, Calls, InCalls
  <1>2. v = Install
    BY <1>1 DEF SessionInv, LifeInv, JobTypes, RunnerJobs, ClockJobs, ScreenJobs, RepairJobs,
       Ended, Tasks
  <1> QED BY <1>1, <1>2 DEF SessionInv, CallInv, Ops, Bound

\* What a step of u's call may have done to another: nothing, or lost its
\* command.
LEMMA OthersLook ==
  ASSUME NEW u \in Tasks, Others(u), NEW v \in Tasks \ {u}
  PROVE  /\ call'[v].op = call[v].op /\ call'[v].on = call[v].on
         /\ call'[v].pc = call[v].pc \/ (At(v, Sent) /\ call'[v].pc = "lost")
  <1>1. CASE call'[v] = call[v]
    BY <1>1
  <1>2. CASE At(v, Sent) /\ call'[v] = [op |-> call[v].op, pc |-> "lost", on |-> call[v].on]
    BY <1>2
  <1> QED BY <1>1, <1>2 DEF Others

\* The lock is held by one task; run()'s last step comes after an exclusive
\* operation, not during one.
LEMMA Holder ==
  ASSUME SessionInv, NEW u \in Tasks, job[u] \in Within
  PROVE  /\ \A v \in Tasks \ {u} : job[v] \notin Within
         /\ u \in {Install, Repair} => job[Runner] # "final4"
  <1>1. ASSUME NEW v \in Tasks \ {u}, job[v] \in Within PROVE FALSE
    BY <1>1, OneFirst DEF SessionInv, Queued
  <1>2. u = Install => job[Runner] # "final4"
    BY SessionAssumption DEF Tasks, SessionInv, LifeInv, Excluding, Stopping, JobTypes, LockJobs, Nobody
  <1>3. u = Repair => job[Runner] # "final4"
    BY SessionAssumption DEF Tasks, SessionInv, LifeInv, Excluding, Stopping, JobTypes, Within, Nobody
  <1> QED BY <1>1, <1>2, <1>3

\* run()'s finally goes to the first of its steps that has anything to stop,
\* and cancels it.
LEMMA StopsFromStage ==
  ASSUME NEW first \in 1 .. 4, StopsFrom(first)
  PROVE  \/ /\ first = 1 /\ exclusive # Nobody
            /\ Job(Runner, "final1") /\ doomed' = (doomed \ {Runner}) \cup {exclusive}
         \/ /\ first <= 2 /\ (first = 1 => exclusive = Nobody) /\ ~Off(Screen)
            /\ Job(Runner, "final2") /\ doomed' = (doomed \ {Runner}) \cup {Screen}
         \/ /\ first <= 3 /\ (first = 1 => exclusive = Nobody) /\ (first <= 2 => Off(Screen)) /\ ~Off(Clock)
            /\ Job(Runner, "final3") /\ doomed' = (doomed \ {Runner}) \cup {Clock}
         \/ /\ (first = 1 => exclusive = Nobody) /\ (first <= 2 => Off(Screen)) /\ (first <= 3 => Off(Clock))
            /\ Job(Runner, "final4") /\ doomed' = doomed \ {Runner}
  <1> DEFINE alive == [final1 |-> {exclusive} \ {Nobody}, final2 |-> IfAlive(Screen),
                       final3 |-> IfAlive(Clock), final4 |-> {}]
             stages == <<"final1", "final2", "final3", "final4">>
             S == {i \in first .. 4 : i = 4 \/ alive[stages[i]] # {}}
             next == Min(S)
  <1>1. Job(Runner, stages[next]) /\ doomed' = (doomed \ {Runner}) \cup alive[stages[next]]
    BY DEF StopsFrom
  <1>2. 4 \in S /\ S \subseteq 1 .. 4
    OBVIOUS
  <1> HIDE DEF S
  <1>3. next \in S /\ \A i \in S : next <= i
    <2>1. \E m \in S : \A i \in S : m <= i
      <3>1. CASE 1 \in S BY <1>2, <3>1
      <3>2. CASE 1 \notin S /\ 2 \in S BY <1>2, <3>2
      <3>3. CASE 1 \notin S /\ 2 \notin S /\ 3 \in S BY <1>2, <3>3
      <3>4. CASE 1 \notin S /\ 2 \notin S /\ 3 \notin S BY <1>2, <3>4
      <3> QED BY <3>1, <3>2, <3>3, <3>4
    <2> QED BY <2>1 DEF Min
  <1> HIDE DEF next
  <1>4. next \in 1 .. 4
    BY <1>2, <1>3
  <1>5. /\ 1 \in S <=> first = 1 /\ exclusive # Nobody
        /\ 2 \in S <=> first <= 2 /\ ~Off(Screen)
        /\ 3 \in S <=> first <= 3 /\ ~Off(Clock)
    BY DEF S, IfAlive
  <1>6. CASE next = 1
    BY <1>1, <1>3, <1>5, <1>6
  <1>7. CASE next = 2
    BY <1>1, <1>3, <1>5, <1>7 DEF IfAlive
  <1>8. CASE next = 3
    BY <1>1, <1>3, <1>5, <1>8 DEF IfAlive
  <1>9. CASE next = 4
    BY <1>1, <1>3, <1>5, <1>9
  <1> QED BY <1>4, <1>6, <1>7, <1>8, <1>9

(***************************************************************************)
(* What a step of one task leaves of the invariant.                        *)
(***************************************************************************)
\* Every place in the code of some task.
AllJobs == RunnerJobs \cup ClockJobs \cup ScreenJobs \cup InstallJobs \cup RepairJobs

\* A task that keeps its place in the queue.
LEMMA QueueStays ==
  ASSUME SessionInv, NEW u \in Tasks, NEW k, Job(u, k), lockq' = lockq,
         k \in LockJobs <=> job[u] \in LockJobs, k \in Within => First(u, lockq)
  PROVE  Queued'
  BY DEF SessionInv, LifeInv, JobTypes, Queued, Job

\* A task that releases the lock, or gives up waiting.
LEMMA QueueLeft ==
  ASSUME SessionInv, NEW u \in Tasks, NEW k, Job(u, k), Unlocks(u), k \notin LockJobs
  PROVE  Queued'
  BY Removing DEF SessionInv, LifeInv, JobTypes, Queued, Job, Unlocks, LockJobs

\* A task that queues for the lock.
LEMMA QueueJoined ==
  ASSUME SessionInv, NEW u \in Tasks, NEW k \in LockJobs, Job(u, k), Locks(u), job[u] \notin LockJobs,
         k \in Within => lockq = <<>>
  PROVE  Queued'
  BY Appending DEF SessionInv, LifeInv, JobTypes, Queued, Job, Locks, LockJobs

\* A task that releases the lock and queues for it again.
LEMMA QueueRejoined ==
  ASSUME SessionInv, NEW u \in Tasks, NEW k \in LockJobs, Job(u, k), lockq' = Append(Without(u), u),
         k \in Within => Without(u) = <<>>
  PROVE  Queued'
  <1> DEFINE q == Without(u)
  <1>1. /\ InOrder(q) /\ ~In(u, q)
        /\ \A v : In(v, q) <=> In(v, lockq) /\ v # u
        /\ \A v : First(v, lockq) /\ v # u => First(v, q)
    BY Removing DEF SessionInv, Queued
  <1> HIDE DEF q
  <1>2. /\ InOrder(Append(q, u)) /\ \A v : In(v, Append(q, u)) <=> In(v, q) \/ v = u
        /\ \A v : First(v, q) => First(v, Append(q, u))
        /\ q = <<>> => First(u, Append(q, u))
    BY <1>1, Appending
  <1>3. lockq' = Append(q, u) /\ (k \in Within => q = <<>>)
    BY DEF q
  <1> QED BY <1>1, <1>2, <1>3 DEF SessionInv, LifeInv, JobTypes, Queued, Job, LockJobs

\* One task's step keeps what is known of the calls.
LEMMA CallsKept ==
  ASSUME SessionInv, NEW u \in Tasks, NEW k, Job(u, k), Others(u),
         k \in InCalls => ~Idle(u)', k \notin InCalls \cup {"final4"} => Idle(u)',
         u = Install /\ k = "asking" /\ Busy(u)' => call'[u].op = "query",
         u = Install /\ k \in UpdateJobs /\ Busy(u)' => call'[u].op \in {"send", "query"},
         u = Runner /\ k \in Providers /\ Busy(u)' => call'[u].op = "send",
         \A v \in Tasks \ {u} : kept'[v] = kept[v], u \notin {Screen, Install} => kept'[u] = None,
         u \in {Screen, Install} /\ k \in UpdateJobs \cup {"command", "asking"} /\ Busy(u)' =>
             call'[u].on = kept'[u] /\ ~At(u, Dialing)',
         u = Install /\ k \in UpdateJobs /\ At(u, Talking \cup {"ok"})' =>
             transport' = kept'[Install] /\ transport' # None,
         u # Install /\ job[Install] \in UpdateJobs => transport' = transport
  PROVE  CallInv'
  <1> USE DEF SessionInv, LifeInv, JobTypes, CallInv, Job
  <1>1. /\ job'[u] = k
        /\ \A v \in Tasks \ {u} : job'[v] = job[v]
    OBVIOUS
  <1>2. Calls'
    BY <1>1, OthersLook DEF Calls
  <1>3. Ops'
    BY <1>1, OthersLook DEF Ops, Tasks
  <1>4. Keeping'
    BY <1>1 DEF Keeping
  <1>5. Bound'
    BY <1>1, OthersLook DEF Bound, Tasks
  <1>6. Chosen'
    BY <1>1, OthersLook DEF Chosen, Tasks
  <1> QED BY <1>2, <1>3, <1>4, <1>5, <1>6

\* A step away from the deliveries keeps what is known of them.
LEMMA DataKept ==
  ASSUME SessionInv, NEW u \in Tasks, NEW k, Job(u, k),
         offered' = offered, delivered' = delivered, revision' = revision, shown' = shown,
         wake' \in BOOLEAN, sameStatus' \in BOOLEAN, requests' \in 0 .. MaxRequests,
         u = Runner => k \notin Providers, u # Runner => Others(u)
  PROVE  DataInv'
  BY OthersLook DEF SessionInv, LifeInv, JobTypes, DataInv, FlagTypes, Delivery, Job, Tasks, Providers

\* Runner goes on in run() or its supervision.
LEMMA RunnerLife ==
  ASSUME SessionInv, NEW k \in RunnerJobs \ (Finals \cup Ended \cup {"new", "delay"}), Job(Runner, k),
         job[Runner] \notin Finals \cup Ended,
         UNCHANGED <<exclusive, owner, fate>>, linked' \in BOOLEAN, doomed' \subseteq doomed,
         closing' \in BOOLEAN
  PROVE  LifeInv'
  <1> USE TasksDiffer DEF SessionInv, LifeInv, JobTypes, Job, Tasks
  <1>1. JobTypes'
    OBVIOUS
  <1>2. Excluding'
    BY DEF Excluding
  <1>3. Stopping'
    BY DEF Stopping, Finals
  <1>4. Owning'
    BY DEF Owning
  <1> QED BY <1>1, <1>2, <1>3, <1>4

(***************************************************************************)
(* The steps of Runner.                                                    *)
(***************************************************************************)
\* Runner enters run()'s finally, with any outcome.
LEMMA FinallyKeeps ==
  ASSUME SessionInv, NEW f \in {"restart", "dead", "gone"}, Finally(f), At(Runner, Free),
         job[Runner] \in RunnerJobs \ (Finals \cup Ended \cup {"new", "delay"}),
         job[Clock] = "sync" => ~InService
  PROVE  SessionInv'
  <1> USE TasksDiffer, SessionAssumption DEF Finally, linkRest, managerVars, sessionRest, deliveryVars
  <1>1. Job(Runner, "final1") \/ Job(Runner, "final2") \/ Job(Runner, "final3") \/ Job(Runner, "final4")
    BY StopsFromStage
  <1>2. LifeInv'
    <2>1. JobTypes'
      <3>1. PICK k \in RunnerJobs : Job(Runner, k)
        BY <1>1 DEF RunnerJobs
      <3> QED BY <3>1 DEF SessionInv, LifeInv, JobTypes, Tasks, Job
    <2>2. Excluding'
      BY <1>1 DEF SessionInv, LifeInv, JobTypes, Tasks, Job, Excluding
    <2>3. Stopping'
      BY StopsFromStage DEF SessionInv, LifeInv, JobTypes, Tasks, Job, Stopping
    <2>4. Runner \notin doomed'
      BY StopsFromStage DEF SessionInv, LifeInv, JobTypes
    <2>5. Owning'
      BY <1>1, <2>4 DEF SessionInv, LifeInv, JobTypes, Tasks, Job, Owning, Finals, Ended
    <2> QED BY <2>1, <2>2, <2>3, <2>5 DEF LifeInv
  <1>3. LinkInv' /\ Others(Runner) /\ call'[Runner].pc = "idle"
    <2>1. doomed' \subseteq Tasks
      BY StopsFromStage DEF SessionInv, LinkInv, LinkTypeOK, LifeInv, JobTypes, Tasks
    <2>2. ClientRest
      BY <2>1 DEF SessionInv, LinkInv, LinkTypeOK, ClientRest
    <2> QED BY <2>2, Idled DEF SessionInv, Tasks
  <1>4. Queued'
    BY <1>1, Removing DEF SessionInv, Queued, Tasks, Job, Unlocks, LifeInv, JobTypes, LockJobs, Within
  <1>5. Calls' /\ Ops'
    BY <1>1, <1>3, OthersLook DEF SessionInv, CallInv, Calls, Ops, Job, LifeInv, JobTypes,
       InCalls, Within, Tasks, Providers
  <1>6. Keeping' /\ Bound' /\ Chosen'
    BY <1>1, <1>3, OthersLook DEF SessionInv, CallInv, Keeping, Bound, Chosen, Job, LifeInv,
       JobTypes, Tasks
  <1>7. DataInv'
    BY <1>1 DEF SessionInv, LifeInv, JobTypes, DataInv, FlagTypes, Delivery, Job, Providers, Tasks
  <1> QED BY <1>2, <1>3, <1>4, <1>5, <1>6, <1>7 DEF SessionInv, CallInv

\* Taking the lock either succeeds at once or queues.
LEMMA WithLockSteps ==
  ASSUME SessionInv, At(Runner, Free), UNCHANGED <<kept, faults>>,
         \/ \E j \in {"lock0", "relock", "publock"} : WithLock(j)
         \/ Captures /\ Sends(Runner) /\ Job(Runner, "codex"),
         \A v \in Tasks \ {Runner} : job[v] \notin Within
  PROVE  /\ LinkInv' /\ Others(Runner) /\ ~Idle(Runner)' /\ doomed' \subseteq doomed
         /\ \/ \E k \in {"connect0", "reconnect", "pubconnect"} : Job(Runner, k) /\ revision' = revision
            \/ /\ Job(Runner, "codex") /\ revision' = offered
               /\ Busy(Runner)' => call'[Runner].op = "send"
               /\ ~At(Runner, {"accepted", "ok"})'
  <1>1. Alone(Runner) /\ Runner \in Tasks
    <2>1. \A v \in Tasks \ {Runner} : job[v] # "final4"
      BY DEF SessionInv, LifeInv, JobTypes, Tasks, ClockJobs, ScreenJobs, InstallJobs, RepairJobs
    <2> QED BY <2>1, HolderAlone DEF Tasks
  <1>2. ASSUME Connects(Runner), NEW k \in {"connect0", "reconnect", "pubconnect"}, Job(Runner, k),
               revision' = revision
        PROVE  /\ LinkInv' /\ Others(Runner) /\ ~Idle(Runner)' /\ doomed' \subseteq doomed
               /\ Job(Runner, k) /\ revision' = revision
    <2>1. LinkInv' /\ Opens(Runner, "connect")
      BY <1>1, <1>2, ConnectsKeeps, ConnectsOpens DEF SessionInv
    <2> QED BY <1>2, <2>1 DEF Opens
  <1>3. ASSUME Sends(Runner), Job(Runner, "codex"), revision' = offered
        PROVE  /\ LinkInv' /\ Others(Runner) /\ ~Idle(Runner)' /\ doomed' \subseteq doomed
               /\ Job(Runner, "codex") /\ revision' = offered
               /\ Busy(Runner)' => call'[Runner].op = "send"
               /\ ~At(Runner, {"accepted", "ok"})'
    <2>1. LinkInv' /\ Opens(Runner, "send") /\ ~At(Runner, {"ok"})'
      BY <1>1, <1>3, CommandsKeeps, CommandsOpens DEF SessionInv, Sends
    <2> QED BY <1>3, <2>1 DEF Opens
  <1> QED BY <1>2, <1>3 DEF WithLock, Captures

\* Runner queues for the lock, or begins to connect or publish with it.
LEMMA WithLockKeeps ==
  ASSUME SessionInv, At(Runner, Free), job[Runner] \notin Finals \cup Ended,
         \/ \E j \in {"lock0", "relock", "publock"} : WithLock(j)
         \/ Captures /\ Sends(Runner) /\ Job(Runner, "codex"),
         \A v \in Tasks \ {Runner} : job[v] \notin Within,
         UNCHANGED <<kept, faults, exclusive, offered, delivered, linked, fate, sessionRest>>,
         wake' \in BOOLEAN, closing' \in BOOLEAN
  PROVE  LinkInv' /\ LifeInv' /\ CallInv' /\ DataInv'
  <1>1. /\ LinkInv' /\ Others(Runner) /\ ~Idle(Runner)' /\ doomed' \subseteq doomed /\ Runner \in Tasks
    BY WithLockSteps DEF Tasks
  <1>2. PICK k \in {"connect0", "reconnect", "pubconnect", "codex"} :
           /\ Job(Runner, k)
           /\ k # "codex" => revision' = revision
           /\ k = "codex" => /\ revision' = offered
                             /\ Busy(Runner)' => call'[Runner].op = "send"
                             /\ ~At(Runner, {"accepted", "ok"})'
    BY WithLockSteps
  <1>3. LifeInv'
    <2>1. linked' \in BOOLEAN /\ owner' = owner
      BY DEF sessionRest, SessionInv, LifeInv, JobTypes
    <2>2. k \in RunnerJobs \ (Finals \cup Ended \cup {"new", "delay"})
      BY DEF RunnerJobs, Finals, Ended
    <2> QED BY <1>1, <1>2, <2>1, <2>2, RunnerLife
  <1>4. CallInv'
    <2>1. job[Install] \notin UpdateJobs
      BY TasksDiffer DEF Tasks, UpdateJobs, Within
    <2>2. \A v \in Tasks : kept'[v] = kept[v]
      OBVIOUS
    <2>3. kept'[Runner] = None
      BY <1>1, TasksDiffer DEF SessionInv, CallInv, Keeping
    <2> QED BY <1>1, <1>2, <2>1, <2>2, <2>3, CallsKept, TasksDiffer DEF InCalls, Within, Providers
  <1>5. DataInv'
    BY <1>1, <1>2, SessionAssumption
       DEF SessionInv, LifeInv, JobTypes, DataInv, FlagTypes, Delivery, Job, Tasks, Providers,
          sessionRest
  <1> QED BY <1>1, <1>3, <1>4, <1>5

\* Runner, with the lock, connects or sends the first value.
LEMMA TakesLockKeeps ==
  ASSUME SessionInv, NEW j \in {"lock0", "relock", "publock"}, NEW lq, TakesLock(j, lq), At(Runner, Free),
         \/ lq = lockq /\ job[Runner] \notin LockJobs
         \/ lq = Without(Runner) /\ job[Runner] \in Within,
         job[Runner] \notin Finals \cup Ended,
         UNCHANGED <<kept, faults, exclusive, offered, delivered, linked, fate, sessionRest>>,
         wake' \in BOOLEAN, closing' \in BOOLEAN
  PROVE  SessionInv'
  <1>0. Runner \in Tasks
    BY DEF Tasks
  <1>1. lq = <<>> => \A v \in Tasks \ {Runner} : job[v] \notin Within
    BY NobodyIn, Removing, <1>0 DEF SessionInv, Queued, LockJobs
  <1>2. CASE lq = <<>> /\ WithLock(j)
    <2>1. LinkInv' /\ LifeInv' /\ CallInv' /\ DataInv'
      BY <1>1, <1>2, WithLockKeeps
    <2>2. \E k \in Within : Job(Runner, k)
      BY <1>1, <1>2, WithLockSteps DEF Within
    <2>3. Queued'
      BY <1>0, <1>2, <2>2, QueueJoined, QueueRejoined DEF TakesLock, Locks, LockJobs
    <2> QED BY <2>1, <2>3 DEF SessionInv
  <1>3. CASE /\ lq # <<>> /\ Job(Runner, j) /\ Idles(Runner)
             /\ UNCHANGED <<managerVars, client, cancelVars, revision>>
    <2>1. ClientRest
      BY <1>3 DEF SessionInv, LinkInv, LinkTypeOK, ClientRest, managerVars, cancelVars
    <2>2. LinkInv' /\ Others(Runner) /\ Idle(Runner)'
      BY <1>0, <1>3, <2>1, Idled DEF SessionInv, managerVars
    <2>3. Queued'
      <3>1. lockq' = Append(lq, Runner) /\ j \in LockJobs /\ j \notin Within
        BY DEF TakesLock, LockJobs, Within
      <3>2. CASE lq = lockq /\ job[Runner] \notin LockJobs
        BY <1>0, <1>3, <3>1, <3>2, QueueJoined DEF Locks
      <3>3. CASE lq = Without(Runner)
        BY <1>0, <1>3, <3>1, <3>3, QueueRejoined
      <3> QED BY <3>2, <3>3
    <2>4. LifeInv'
      <3>1. linked' \in BOOLEAN /\ owner' = owner /\ doomed' \subseteq doomed
        BY <1>3 DEF sessionRest, SessionInv, LifeInv, JobTypes, cancelVars
      <3>2. j \in RunnerJobs \ (Finals \cup Ended \cup {"new", "delay"})
        BY DEF RunnerJobs, Finals, Ended
      <3> QED BY <1>3, <3>1, <3>2, RunnerLife
    <2>5. CallInv'
      <3>1. \A v \in Tasks : kept'[v] = kept[v]
        OBVIOUS
      <3>2. kept'[Runner] = None
        BY <1>0, TasksDiffer DEF SessionInv, CallInv, Keeping
      <3> QED BY <1>0, <1>3, <2>2, <3>1, <3>2, CallsKept, TasksDiffer DEF InCalls, Within,
         Providers, managerVars
    <2>6. DataInv'
      BY <1>0, <1>3, DataKept DEF sessionRest, SessionInv, DataInv, FlagTypes, Providers
    <2> QED BY <2>2, <2>3, <2>4, <2>5, <2>6 DEF SessionInv
  <1> QED BY <1>2, <1>3 DEF TakesLock

\* Runner goes back to its wait.
LEMMA RunnerRests ==
  ASSUME SessionInv, Job(Runner, "wait"), Idles(Runner), At(Runner, Free),
         \/ lockq' = lockq /\ job[Runner] \notin LockJobs
         \/ Unlocks(Runner),
         job[Runner] \notin Finals \cup Ended,
         UNCHANGED <<managerVars, client, kept, faults, exclusive, offered, delivered, closing, fate, sessionRest>>,
         UNCHANGED cancelVars \/ UNCHANGED <<doomed, interrupted>>, revision' = revision,
         wake' \in BOOLEAN, linked' \in BOOLEAN
  PROVE  SessionInv'
  <1>0. Runner \in Tasks
    BY DEF Tasks
  <1>1. ClientRest /\ doomed' \subseteq doomed /\ owner' = owner /\ kept' = kept
    BY DEF SessionInv, LinkInv, LinkTypeOK, ClientRest, managerVars, cancelVars, sessionRest
  <1>2. LinkInv' /\ Others(Runner) /\ Idle(Runner)'
    BY <1>0, <1>1, Idled DEF SessionInv, managerVars
  <1>3. Queued'
    BY <1>0, QueueStays, QueueLeft DEF LockJobs, Within
  <1>4. LifeInv'
    <2>1. "wait" \in RunnerJobs \ (Finals \cup Ended \cup {"new", "delay"}) /\ closing' \in BOOLEAN
      BY DEF RunnerJobs, Finals, Ended, SessionInv, LifeInv, JobTypes
    <2> QED BY <1>1, <2>1, RunnerLife
  <1>5. CallInv'
    <2>1. \A v \in Tasks : kept'[v] = kept[v]
      BY <1>1
    <2>2. kept'[Runner] = None
      BY <1>0, <1>1, TasksDiffer DEF SessionInv, CallInv, Keeping
    <2> QED BY <1>0, <1>2, <2>1, <2>2, CallsKept, TasksDiffer DEF InCalls, Within, Providers, managerVars
  <1>6. DataInv'
    BY <1>0, DataKept DEF sessionRest, SessionInv, DataInv, FlagTypes, Providers
  <1> QED BY <1>2, <1>3, <1>4, <1>5, <1>6 DEF SessionInv

\* Runner is in no call where it waits or queues.
LEMMA RunnerFree ==
  ASSUME SessionInv, job[Runner] \notin InCalls \cup {"final4"}
  PROVE  At(Runner, Free)
  BY DEF SessionInv, CallInv, Calls, Tasks

\* Runner gets the lock it queued for.
LEMMA RunnerGetsLockKeeps ==
  ASSUME SessionInv, RunnerGetsLock
  PROVE  SessionInv'
  <1> USE DEF RunnerGetsLock
  <1>1. job[Runner] \in {"lock0", "relock", "publock"} /\ Runner \in Tasks
    BY DEF WithLock, Tasks
  <1>2. \A v \in Tasks \ {Runner} : job[v] \notin Within
    BY OneFirst DEF SessionInv, Queued, First
  <1>3. LinkInv' /\ LifeInv' /\ CallInv' /\ DataInv'
    BY <1>1, <1>2, WithLockKeeps DEF lockVars, lifeVars, Finals, Ended, SessionInv, DataInv,
       FlagTypes, LifeInv, JobTypes
  <1>4. \E k \in Within : Job(Runner, k)
    BY <1>1, <1>2, WithLockSteps DEF Within
  <1>5. Queued'
    BY <1>1, <1>4, QueueStays DEF lockVars, LockJobs, First
  <1> QED BY <1>3, <1>5 DEF SessionInv

\* run() begins.
LEMMA RunnerStartsKeeps ==
  ASSUME SessionInv, RunnerStarts
  PROVE  SessionInv'
  <1>1. At(Runner, Free) /\ job[Runner] \notin LockJobs /\ job[Runner] \notin Finals \cup Ended
    BY RunnerFree DEF RunnerStarts, LockJobs, InCalls, Within, Finals, Ended
  <1>2. wake' \in BOOLEAN /\ closing' \in BOOLEAN
    BY DEF RunnerStarts, SessionInv, DataInv, FlagTypes
  <1> QED BY <1>1, <1>2, TakesLockKeeps DEF RunnerStarts

\* _publish() takes the newest snapshot.
LEMMA SnapshotKeeps ==
  ASSUME SessionInv, NEW lq, TakesSnapshot(lq), At(Runner, Free),
         \/ lq = lockq /\ job[Runner] \notin LockJobs
         \/ lq = Without(Runner) /\ job[Runner] \in Within,
         job[Runner] \notin Finals \cup Ended,
         UNCHANGED <<kept, faults, exclusive, offered, delivered, lifeVars, sessionRest>>
  PROVE  SessionInv'
  <1>1. wake' \in BOOLEAN /\ closing' \in BOOLEAN /\ linked' \in BOOLEAN
    BY DEF TakesSnapshot, SessionInv, LifeInv, JobTypes, lifeVars
  <1>2. CASE TakesLock("publock", lq)
    BY <1>1, <1>2, TakesLockKeeps DEF lifeVars
  <1>3. CASE /\ Job(Runner, "wait") /\ Idles(Runner) /\ lockq' = lq
             /\ UNCHANGED <<managerVars, client, cancelVars, revision>>
    BY <1>1, <1>3, RunnerRests DEF lifeVars, Unlocks
  <1> QED BY <1>2, <1>3 DEF TakesSnapshot

\* An offer wakes Runner.
LEMMA RunnerWakesKeeps ==
  ASSUME SessionInv, RunnerWakes
  PROVE  SessionInv'
  <1>1. At(Runner, Free) /\ job[Runner] \notin LockJobs /\ job[Runner] \notin Finals \cup Ended
    BY RunnerFree DEF RunnerWakes, LockJobs, InCalls, Within, Finals, Ended
  <1> QED BY <1>1, SnapshotKeeps DEF RunnerWakes

\* Runner releases the lock and takes it again.
LEMMA RunnerRelocks ==
  ASSUME SessionInv, job[Runner] \in {"wait", "tidy"}, TakesLock("relock", lockq),
         UNCHANGED <<kept, faults, exclusive, wake, offered, delivered, lifeVars, sessionRest>>
  PROVE  SessionInv'
  <1>1. At(Runner, Free) /\ job[Runner] \notin LockJobs /\ job[Runner] \notin Finals \cup Ended
    BY RunnerFree DEF LockJobs, InCalls, Within, Finals, Ended
  <1>2. wake' \in BOOLEAN /\ closing' \in BOOLEAN
    BY DEF SessionInv, DataInv, FlagTypes, LifeInv, JobTypes, lifeVars
  <1> QED BY <1>1, <1>2, TakesLockKeeps DEF lifeVars

\* Runner's wait is over, or it is asked to look at its connection.
LEMMA RunnerTimesOutKeeps ==
  ASSUME SessionInv, RunnerTimesOut
  PROVE  SessionInv'
  <1> USE DEF RunnerTimesOut
  <1>1. CASE TakesLock("relock", lockq)
    BY <1>1, RunnerRelocks
  <1>2. CASE /\ Job(Runner, "tidy") /\ Doom({Clock})
             /\ UNCHANGED <<managerVars, client, call, interrupted, lockq, revision>>
    <2>0. Runner \in Tasks /\ Clock \in Tasks /\ doomed' = doomed \cup {Clock}
      BY <1>2 DEF Tasks, Doom
    <2>1. LinkInv'
      BY <1>2, <2>0, Stands DEF SessionInv, LinkInv, LinkTypeOK, ClientRest, managerVars
    <2>2. Queued'
      BY <1>2, <2>0, QueueStays DEF LockJobs, Within
    <2>3. LifeInv'
      BY <1>2, <2>0, TasksDiffer DEF SessionInv, LifeInv, JobTypes, Excluding, Stopping, Owning,
         Job, Finals, Ended,
         lifeVars, sessionRest, RunnerJobs, Tasks
    <2>4. Others(Runner) /\ Idle(Runner)'
      BY <1>2, <2>0 DEF Others, SessionInv, CallInv, Calls, InCalls, Within
    <2>5. CallInv'
      BY <1>2, <2>0, <2>4, CallsKept, TasksDiffer DEF InCalls, Within, Providers, managerVars,
         SessionInv, CallInv, Keeping
    <2>6. DataInv'
      BY <1>2, <2>0, DataKept DEF sessionRest, SessionInv, DataInv, FlagTypes, Providers
    <2> QED BY <2>1, <2>2, <2>3, <2>5, <2>6 DEF SessionInv
  <1> QED BY <1>1, <1>2

\* A step of run()'s finally is over.
LEMMA RunnerTidiedKeeps ==
  ASSUME SessionInv, RunnerTidied
  PROVE  SessionInv'
  BY RunnerRelocks DEF RunnerTidied

\* Runner goes on from a call with the lock it has.
LEMMA RunnerKeepsLock ==
  ASSUME SessionInv, At(Runner, Free), job[Runner] \in Within,
         \/ \E j \in {"lock0", "relock", "publock"} : WithLock(j)
         \/ Captures /\ Sends(Runner) /\ Job(Runner, "codex"),
         UNCHANGED <<kept, faults, lockVars, offered, delivered, wake, lifeVars, sessionRest>>
  PROVE  SessionInv'
  <1>0. Runner \in Tasks /\ job[Runner] \notin Finals \cup Ended
    BY DEF Tasks, Within, Finals, Ended
  <1>1. \A v \in Tasks \ {Runner} : job[v] \notin Within
    BY <1>0, Holder
  <1>2. wake' \in BOOLEAN /\ closing' \in BOOLEAN
    BY DEF SessionInv, DataInv, FlagTypes, LifeInv, JobTypes, lifeVars
  <1>3. LinkInv' /\ LifeInv' /\ CallInv' /\ DataInv'
    BY <1>0, <1>1, <1>2, WithLockKeeps DEF lockVars, lifeVars
  <1>4. \E k \in Within : Job(Runner, k)
    BY <1>1, WithLockSteps DEF Within
  <1>5. Queued'
    BY <1>0, <1>4, QueueStays DEF lockVars, LockJobs, SessionInv, Queued
  <1> QED BY <1>3, <1>5 DEF SessionInv

\* A failure ends what Runner does with the lock.
LEMMA ResetEndsKeeps ==
  ASSUME SessionInv, ResetEndsPublish, At(Runner, Free), job[Runner] \in Within
  PROVE  SessionInv'
  <1>1. job[Runner] \notin Finals \cup Ended
    BY DEF Within, Finals, Ended
  <1>2. linked' \in BOOLEAN /\ closing' = closing /\ fate' = fate
    BY DEF ResetEndsPublish, lifeVars, SessionInv, LifeInv, JobTypes
  <1> QED BY <1>1, <1>2, RunnerRests DEF ResetEndsPublish, linkRest, cancelVars

\* run() ends from a call.
LEMMA FinallyFromCall ==
  ASSUME SessionInv, NEW f \in {"restart", "dead", "gone"}, Finally(f), At(Runner, Free), job[Runner] \in Within
  PROVE  SessionInv'
  <1>1. job[Clock] # "sync"
    BY Holder, TasksDiffer DEF Tasks, Within
  <1>2. job[Runner] \in RunnerJobs \ (Finals \cup Ended \cup {"new", "delay"})
    BY DEF SessionInv, LifeInv, JobTypes, Within, Finals, Ended
  <1> QED BY <1>1, <1>2, FinallyKeeps

\* connect() returns to Runner.
LEMMA RunnerConnectedKeeps ==
  ASSUME SessionInv, NEW a \in Answers, call[Runner].pc = a, RunnerConnected(a)
  PROVE  SessionInv'
  <1>0. /\ At(Runner, Free) /\ job[Runner] \in Within /\ job[Runner] \notin Finals \cup Ended
    BY DEF RunnerConnected, Connecting, Within, Finals, Ended
  <1>1. CASE /\ Job(Runner, "wait") /\ Idles(Runner) /\ Unlocks(Runner) /\ linked' \in BOOLEAN
             /\ UNCHANGED <<linkRest, kept, doomed, exclusive, deliveryVars, closing, fate, sessionRest>>
    <2>1. wake' \in BOOLEAN
      BY <1>1 DEF SessionInv, DataInv, FlagTypes, deliveryVars
    <2> QED BY <1>0, <1>1, <2>1, RunnerRests DEF linkRest, deliveryVars, cancelVars
  <1>2. CASE /\ TakesSnapshot(Without(Runner))
             /\ UNCHANGED <<kept, faults, exclusive, offered, delivered, lifeVars, sessionRest>>
    BY <1>0, <1>2, SnapshotKeeps
  <1>3. CASE /\ Captures /\ Sends(Runner) /\ Job(Runner, "codex")
             /\ UNCHANGED <<kept, faults, lockVars, wake, offered, delivered, lifeVars, sessionRest>>
    BY <1>0, <1>3, RunnerKeepsLock
  <1>4. CASE /\ Requeues("lock0")
             /\ UNCHANGED <<kept, faults, exclusive, wake, offered, delivered, lifeVars, sessionRest>>
    <2>1. wake' \in BOOLEAN /\ closing' \in BOOLEAN
      BY <1>4 DEF SessionInv, DataInv, FlagTypes, LifeInv, JobTypes, lifeVars
    <2> QED BY <1>0, <1>4, <2>1, TakesLockKeeps DEF Requeues, lifeVars
  <1>5. CASE ResetEndsPublish
    BY <1>0, <1>5, ResetEndsKeeps
  <1>6. CASE Finally("dead") \/ Finally("gone")
    BY <1>0, <1>6, FinallyFromCall
  <1>7. linked \in BOOLEAN
    BY DEF SessionInv, LifeInv, JobTypes
  <1> QED BY <1>1, <1>2, <1>3, <1>4, <1>5, <1>6, <1>7 DEF RunnerConnected, lifeVars

\* The second value is sent once the first is on the panel.
LEMMA SecondValueKeeps ==
  ASSUME SessionInv, call[Runner].pc = "ok", job[Runner] = "codex", Sends(Runner), Job(Runner, "claude"),
         UNCHANGED <<kept, faults, lockVars, deliveryVars, lifeVars, sessionRest>>
  PROVE  SessionInv'
  <1>0. Runner \in Tasks /\ \A v \in Tasks \ {Runner} : job[v] \notin Within \cup {"final4"}
    BY Holder DEF Tasks, Within, SessionInv, LifeInv, JobTypes, ClockJobs, ScreenJobs,
       InstallJobs, RepairJobs
  <1>1. Alone(Runner)
    BY <1>0, HolderAlone
  <1>2. LinkInv' /\ Opens(Runner, "send") /\ ~At(Runner, {"ok"})'
    BY <1>0, <1>1, CommandsKeeps, CommandsOpens DEF SessionInv, Sends
  <1>3. Queued'
    BY <1>0, QueueStays DEF lockVars, LockJobs, Within, SessionInv, Queued
  <1>4. LifeInv'
    <2>1. linked' \in BOOLEAN /\ closing' \in BOOLEAN /\ owner' = owner
      BY DEF lifeVars, sessionRest, SessionInv, LifeInv, JobTypes
    <2> QED BY <1>2, <2>1, RunnerLife DEF Opens, lockVars, lifeVars, RunnerJobs, Finals, Ended
  <1>5. CallInv'
    <2>1. job[Install] \notin UpdateJobs
      BY <1>0, TasksDiffer DEF Tasks, UpdateJobs, Within
    <2>2. \A v \in Tasks : kept'[v] = kept[v]
      OBVIOUS
    <2>3. kept'[Runner] = None
      BY <1>0, TasksDiffer DEF SessionInv, CallInv, Keeping
    <2> QED BY <1>0, <1>2, <2>1, <2>2, <2>3, CallsKept, TasksDiffer DEF InCalls, Within, Providers, Opens
  <1>6. DataInv'
    BY <1>0, <1>2 DEF Opens, SessionInv, LifeInv, JobTypes, DataInv, FlagTypes, Delivery, Job,
       Tasks, Providers,
       deliveryVars, sessionRest
  <1> QED BY <1>2, <1>3, <1>4, <1>5, <1>6 DEF SessionInv

\* After the second value the delivery is recorded and Clock is scheduled.
LEMMA DeliveredKeeps ==
  ASSUME SessionInv, call[Runner].pc = "ok", job[Runner] = "claude", RecordsDelivery,
         job' = [job EXCEPT ![Runner] = "wait", ![Clock] = IF @ = "off" THEN "start" ELSE @],
         Idles(Runner), Unlocks(Runner),
         UNCHANGED <<linkRest, kept, doomed, exclusive, wake, offered, revision, lifeVars, sessionRest>>
  PROVE  SessionInv'
  <1> USE TasksDiffer DEF Tasks
  <1>0. /\ job'[Runner] = "wait" /\ job'[Clock] = (IF job[Clock] = "off" THEN "start" ELSE job[Clock])
        /\ job'[Screen] = job[Screen] /\ job'[Install] = job[Install] /\ job'[Repair] = job[Repair]
        /\ job' \in [Tasks -> AllJobs]
    BY DEF SessionInv, LifeInv, JobTypes, AllJobs, RunnerJobs, ClockJobs
  <1>1. /\ LinkInv' /\ Others(Runner) /\ Idle(Runner)'
    <2>1. ClientRest
      BY DEF SessionInv, LinkInv, LinkTypeOK, ClientRest, linkRest, managerVars
    <2> QED BY <2>1, Idled DEF SessionInv, linkRest, managerVars
  <1>2. Queued'
    <2>1. /\ InOrder(lockq') /\ \A v : In(v, lockq') <=> In(v, lockq) /\ v # Runner
          /\ \A v : First(v, lockq) /\ v # Runner => First(v, lockq')
      BY Removing DEF SessionInv, Queued, Unlocks
    <2>2. \A u \in Tasks \ {Runner} : job'[u] = job[u] \/ (job[u] = "off" /\ job'[u] = "start")
      BY <1>0
    <2> QED BY <1>0, <2>1, <2>2 DEF SessionInv, Queued, LockJobs, Within
  <1>3. LifeInv'
    <2>1. JobTypes'
      BY <1>0 DEF SessionInv, LifeInv, JobTypes, AllJobs, lifeVars, sessionRest, RunnerJobs, ClockJobs
    <2>2. Excluding' /\ Stopping' /\ Owning'
      BY <1>0 DEF SessionInv, LifeInv, Excluding, Stopping, Owning, Finals, Ended, lifeVars, sessionRest
    <2> QED BY <2>1, <2>2 DEF LifeInv
  <1>4. CallInv'
    <2>1. Calls'
      BY <1>0, <1>1, OthersLook DEF SessionInv, CallInv, Calls, InCalls, Within
    <2>2. Ops' /\ Keeping' /\ Bound' /\ Chosen'
      BY <1>0, <1>1, OthersLook DEF SessionInv, CallInv, Ops, Keeping, Bound, Chosen, linkRest,
         managerVars, Providers
    <2> QED BY <2>1, <2>2 DEF CallInv
  <1>5. DataInv'
    BY <1>0, SessionAssumption DEF SessionInv, DataInv, FlagTypes, Delivery, RecordsDelivery,
       Providers, sessionRest
  <1> QED BY <1>1, <1>2, <1>3, <1>4, <1>5 DEF SessionInv

\* send_command() returns to _publish().
LEMMA RunnerSentKeeps ==
  ASSUME SessionInv, NEW a \in Answers, call[Runner].pc = a, RunnerSent(a)
  PROVE  SessionInv'
  <1>0. At(Runner, Free) /\ job[Runner] \in Within
    BY DEF RunnerSent, Within
  <1>1. CASE ResetEndsPublish
    BY <1>0, <1>1, ResetEndsKeeps
  <1>2. CASE \E f \in {"restart", "dead", "gone"} : Finally(f)
    BY <1>0, <1>2, FinallyFromCall
  <1> QED BY <1>1, <1>2, SecondValueKeeps, DeliveredKeeps DEF RunnerSent

\* The next step of run()'s finally, or its close().
LEMMA RunnerStopsKeeps ==
  ASSUME SessionInv, RunnerStops
  PROVE  SessionInv'
  <1> USE DEF RunnerStops
  <1>0. /\ Runner \in Tasks /\ job[Runner] \in {"final1", "final2", "final3"} /\ Idle(Runner)
        /\ UNCHANGED <<linkRest, call, kept, lockVars, deliveryVars, lifeVars, sessionRest>>
    BY DEF Tasks, SessionInv, CallInv, Calls, InCalls, Within
  <1>1. PICK k \in {"final2", "final3", "final4"} :
          /\ Job(Runner, k) /\ exclusive = Nobody
          /\ k \in {"final3", "final4"} => Off(Screen)
          /\ k = "final4" => Off(Clock)
          /\ doomed' \subseteq Tasks /\ Runner \notin doomed'
    <2>1. SessionInv /\ Runner \notin {Screen, Clock} /\ doomed \subseteq Tasks
      BY TasksDiffer DEF SessionInv, LinkInv, LinkTypeOK
    <2>2. CASE job[Runner] = "final1" /\ exclusive = Nobody /\ StopsFrom(2)
      BY <2>1, <2>2, StopsFromStage DEF Tasks
    <2>3. CASE job[Runner] = "final2" /\ Off(Screen) /\ StopsFrom(3)
      BY <2>1, <2>3, StopsFromStage DEF Tasks, SessionInv, LifeInv, Stopping
    <2>4. CASE job[Runner] = "final3" /\ Off(Clock) /\ StopsFrom(4)
      BY <2>1, <2>4, StopsFromStage DEF Tasks, SessionInv, LifeInv, Stopping
    <2> QED BY <2>2, <2>3, <2>4
  <1>2. LinkInv'
    BY <1>0, <1>1, Stands DEF SessionInv, LinkInv, LinkTypeOK, ClientRest, linkRest, managerVars
  <1>3. Queued'
    BY <1>0, <1>1, QueueStays DEF LockJobs, Within, lockVars
  <1>4. LifeInv'
    <2>1. JobTypes' /\ Excluding'
      BY <1>0, <1>1, TasksDiffer
         DEF SessionInv, LifeInv, JobTypes, Excluding, Job, lockVars, lifeVars, sessionRest,
            RunnerJobs, Tasks
    <2>2. Stopping' /\ Owning'
      BY <1>0, <1>1, TasksDiffer
         DEF SessionInv, LifeInv, JobTypes, Stopping, Owning, Job, lockVars, lifeVars,
            sessionRest, Finals, Ended, Tasks
    <2> QED BY <2>1, <2>2 DEF LifeInv
  <1>5. Others(Runner) /\ Idle(Runner)'
    BY <1>0 DEF Others
  <1>6. CallInv'
    BY <1>0, <1>1, <1>5, CallsKept, TasksDiffer
       DEF InCalls, Within, Providers, SessionInv, CallInv, Keeping, linkRest, managerVars
  <1>7. DataInv'
    BY <1>0, <1>1, DataKept DEF sessionRest, deliveryVars, SessionInv, DataInv, FlagTypes, Providers
  <1> QED BY <1>2, <1>3, <1>4, <1>6, <1>7 DEF SessionInv

\* run()'s finally closes the manager.
LEMMA RunnerClosesKeeps ==
  ASSUME SessionInv, RunnerCloses
  PROVE  SessionInv'
  <1> USE DEF RunnerCloses, RunnerTurn
  <1>0. /\ Runner \in Tasks /\ job[Runner] = "final4" /\ Idle(Runner)
    BY DEF Tasks
  <1>1. \A v \in Tasks \ {Runner} : job[v] \notin Within \cup {"final4"}
    BY SessionAssumption DEF SessionInv, LifeInv, JobTypes, Stopping, Excluding, Tasks, InstallJobs,
       Within, LockJobs, Nobody
  <1>2. Alone(Runner)
    BY <1>0, <1>1, HolderAlone
  <1>3. LinkInv' /\ Opens(Runner, "close")
    BY <1>0, <1>2, ReleasesKeeps, ReleasesOpens DEF SessionInv, Closes
  <1>4. Job(Runner, "final4")
    BY <1>0 DEF Job, SessionInv, LifeInv, JobTypes
  <1>5. Queued'
    BY <1>0, <1>4, QueueStays DEF LockJobs, Within, lockVars
  <1>6. LifeInv'
    BY <1>0, <1>3 DEF SessionInv, LifeInv, JobTypes, Excluding, Stopping, Owning, Opens,
       lockVars, lifeVars, sessionRest
  <1>7. CallInv'
    <2>1. \A v \in Tasks : kept'[v] = kept[v]
      OBVIOUS
    <2>2. kept'[Runner] = None
      BY <1>0, TasksDiffer DEF SessionInv, CallInv, Keeping
    <2>3. job[Install] \notin UpdateJobs
      BY <1>1, TasksDiffer DEF Tasks, UpdateJobs, Within
    <2> QED BY <1>0, <1>3, <1>4, <2>1, <2>2, <2>3, CallsKept, TasksDiffer DEF InCalls, Within,
       Providers, Opens
  <1>8. DataInv'
    BY <1>0, <1>4, DataKept DEF sessionRest, deliveryVars, SessionInv, DataInv, FlagTypes, Providers
  <1> QED BY <1>3, <1>5, <1>6, <1>7, <1>8 DEF SessionInv

\* run() has ended; the supervision starts it again, or not.
LEMMA RunnerEndsKeeps ==
  ASSUME SessionInv, NEW a \in Answers, call[Runner].pc = a, RunnerEnds(a)
  PROVE  SessionInv'
  <1> USE DEF RunnerEnds
  <1>0. Runner \in Tasks /\ job[Runner] = "final4" /\ At(Runner, Free)
    BY DEF Tasks
  <1>1. PICK k \in {"delay", "dead", "gone"} : Job(Runner, k)
    BY DEF SessionInv, LifeInv, JobTypes
  <1>2. wake' \in BOOLEAN
    BY DEF KeepsPending, SessionInv, DataInv, FlagTypes
  <1>3. LinkInv' /\ Others(Runner) /\ Idle(Runner)'
    <2>1. ClientRest
      BY DEF SessionInv, LinkInv, LinkTypeOK, ClientRest, linkRest, managerVars
    <2> QED BY <1>0, <2>1, Idled DEF SessionInv, linkRest, managerVars
  <1>4. Queued'
    BY <1>0, <1>1, QueueStays DEF LockJobs, Within, lockVars
  <1>5. LifeInv'
    BY <1>0, <1>1, TasksDiffer
       DEF SessionInv, LifeInv, JobTypes, Excluding, Stopping, Owning, Job, lockVars, lifeVars,
          sessionRest,
           RunnerJobs, Finals, Ended, Tasks
  <1>6. CallInv'
    <2>1. \A v \in Tasks : kept'[v] = kept[v]
      OBVIOUS
    <2>2. kept'[Runner] = None
      BY <1>0, TasksDiffer DEF SessionInv, CallInv, Keeping
    <2> QED BY <1>0, <1>1, <1>3, <2>1, <2>2, CallsKept, TasksDiffer DEF InCalls, Within,
       Providers, linkRest, managerVars
  <1>7. DataInv'
    BY <1>0, <1>1, <1>2, DataKept DEF sessionRest, SessionInv, DataInv, FlagTypes, Providers
  <1> QED BY <1>3, <1>4, <1>5, <1>6, <1>7 DEF SessionInv

\* Runner is cancelled where it waits.
LEMMA RunnerCancelledKeeps ==
  ASSUME SessionInv, RunnerCancelled
  PROVE  SessionInv'
  <1>0. Runner \in Tasks /\ Runner \in doomed /\ Idle(Runner) /\ ~InService
    BY DEF Tasks, RunnerCancelled, SessionInv, LifeInv, Owning
  <1>1. CASE job[Runner] \in {"wait", "lock0", "relock", "publock", "tidy"} /\ Finally("gone")
    BY <1>0, <1>1, FinallyKeeps DEF RunnerJobs, Finals, Ended
  <1>2. CASE /\ job[Runner] \in {"new", "delay", "final1", "final2", "final3"}
             /\ Job(Runner, IF job[Runner] = "new" THEN "unrun" ELSE "gone")
             /\ doomed' = doomed \ {Runner}
             /\ UNCHANGED <<linkRest, call, kept, lockVars, deliveryVars, lifeVars, sessionRest>>
    <2>1. PICK k \in {"unrun", "gone"} : Job(Runner, k)
      BY <1>2
    <2>2. LinkInv'
      BY <1>2, Stands DEF SessionInv, LinkInv, LinkTypeOK, ClientRest, linkRest, managerVars
    <2>3. Queued'
      BY <1>0, <1>2, <2>1, QueueStays DEF LockJobs, Within, lockVars
    <2>4. LifeInv'
      <3>1. JobTypes' /\ Excluding' /\ Stopping'
        BY <1>0, <1>2, <2>1, TasksDiffer
           DEF SessionInv, LifeInv, JobTypes, Excluding, Stopping, Job, lockVars, lifeVars, sessionRest,
               RunnerJobs, Finals, Ended, Tasks
      <3>2. Owning'
        BY <1>0, <1>2, <2>1, TasksDiffer
           DEF SessionInv, LifeInv, JobTypes, Stopping, Owning, Job, lockVars, lifeVars, sessionRest,
               Finals, Ended, Tasks
      <3> QED BY <3>1, <3>2 DEF LifeInv
    <2>5. Others(Runner) /\ Idle(Runner)'
      BY <1>0, <1>2 DEF Others
    <2>6. CallInv'
      BY <1>0, <1>2, <2>1, <2>5, CallsKept, TasksDiffer
         DEF InCalls, Within, Providers, SessionInv, CallInv, Keeping, linkRest, managerVars
    <2>7. DataInv'
      BY <1>0, <1>2, <2>1, DataKept DEF sessionRest, deliveryVars, SessionInv, DataInv,
         FlagTypes, Providers
    <2> QED BY <2>2, <2>3, <2>4, <2>6, <2>7 DEF SessionInv
  <1> QED BY <1>1, <1>2 DEF RunnerCancelled

(***************************************************************************)
(* The steps of Clock and Screen.                                          *)
(***************************************************************************)
\* A task is in no call where its code makes none.
LEMMA TaskIdle ==
  ASSUME SessionInv, NEW u \in Tasks, job[u] \notin InCalls \cup {"final4"}
  PROVE  At(u, Free) /\ Idle(u)
  BY DEF SessionInv, CallInv, Calls

\* Task u ends; with the exclusive operation, if that is what it is.
LEMMA TaskEndsKeeps ==
  ASSUME SessionInv, NEW u \in {Clock, Screen, Install, Repair}, TaskEnds(u), At(u, Free),
         UNCHANGED <<linkRest, TaskVars>>,
         \/ exclusive' = exclusive /\ u # Repair /\ (u = Install => job[u] \notin LockJobs)
         \/ exclusive' = Nobody /\ exclusive = u
  PROVE  SessionInv'
  <1> USE TasksDiffer, SessionAssumption DEF TaskEnds
  <1>0. u \in Tasks /\ Job(u, "off")
    BY DEF Tasks
  <1>1. LinkInv' /\ Others(u) /\ Idle(u)'
    <2>1. ClientRest
      BY DEF Keeps, SessionInv, LinkInv, LinkTypeOK, ClientRest, linkRest, managerVars
    <2> QED BY <1>0, <2>1, Idled DEF SessionInv, linkRest, managerVars
  <1>2. Queued'
    BY <1>0, QueueLeft DEF LockJobs, Within
  <1>3. LifeInv'
    <2>1. JobTypes'
      BY <1>0 DEF SessionInv, LifeInv, JobTypes, Job, TaskVars, lifeVars, sessionRest, ClockJobs,
         ScreenJobs,
         InstallJobs, RepairJobs, Tasks
    <2>2. Excluding'
      BY <1>0 DEF SessionInv, LifeInv, JobTypes, Excluding, Job, LockJobs, Within, Tasks, Nobody
    <2>3. Stopping' /\ Owning'
      BY <1>0 DEF SessionInv, LifeInv, JobTypes, Stopping, Owning, Job, TaskVars, lifeVars, sessionRest,
         Finals, Ended, Tasks, Nobody
    <2> QED BY <2>1, <2>2, <2>3 DEF LifeInv
  <1>4. CallInv'
    <2>1. kept'[u] = None /\ \A v \in Tasks \ {u} : kept'[v] = kept[v]
      BY <1>0 DEF Keeps, SessionInv, LinkInv, LinkTypeOK
    <2> QED BY <1>0, <1>1, <2>1, CallsKept DEF InCalls, Within, Providers, UpdateJobs, linkRest,
       managerVars
  <1>5. DataInv'
    BY <1>0, <1>1, DataKept DEF TaskVars, deliveryVars, sessionRest, SessionInv, DataInv,
       FlagTypes, Providers
  <1> QED BY <1>1, <1>2, <1>3, <1>4, <1>5 DEF SessionInv

\* Task u, outside its calls, goes from one place in its code to another.
LEMMA IdleStep ==
  ASSUME SessionInv, NEW u \in Tasks \ {Runner}, NEW k \in AllJobs, Job(u, k),
         job[u] \notin InCalls \cup {"final4"}, k \notin InCalls \cup {"final4"},
         UNCHANGED <<managerVars, client, call, faults>>, doomed' \subseteq Tasks, interrupted' \in BOOLEAN,
         \A v \in Tasks \ {u} : kept'[v] = kept[v], kept' \in [Tasks -> Connections \cup {None}],
         u \notin {Screen, Install} => kept' = kept,
         \/ lockq' = lockq /\ (k \in LockJobs <=> job[u] \in LockJobs)
         \/ Locks(u) /\ job[u] \notin LockJobs /\ k \in LockJobs
  PROVE  LinkInv' /\ Queued' /\ CallInv' /\ Others(u)
  <1>0. Idle(u) /\ Idle(u)' /\ k \notin Within
    BY TaskIdle DEF InCalls
  <1>1. LinkInv'
    BY Stands DEF SessionInv, LinkInv, LinkTypeOK, ClientRest, managerVars
  <1>2. Queued'
    BY <1>0, QueueStays, QueueJoined
  <1>3. Others(u)
    BY DEF Others
  <1>4. CallInv'
    <2>1. u \notin {Screen, Install} => kept'[u] = None
      BY DEF SessionInv, CallInv, Keeping
    <2> QED BY <1>0, <1>3, <2>1, CallsKept DEF managerVars, InCalls
  <1> QED BY <1>1, <1>2, <1>3, <1>4

\* Task u, with the lock, begins a command.
LEMMA LockedCommand ==
  ASSUME SessionInv, NEW u \in Tasks \ {Runner}, NEW k \in Within, Job(u, k), NEW op \in {"send", "query"},
         Commands(u, op), At(u, Free), Holds(u), job[u] \in LockJobs, job[Runner] # "final4",
         UNCHANGED <<kept, faults, lockq>>,
         u = Screen => k = "command" /\ transport # None /\ transport = kept[u],
         u = Install => k # "command" /\ (k \in UpdateJobs => transport # None /\ transport = kept[u])
  PROVE  LinkInv' /\ Queued' /\ CallInv' /\ Opens(u, op) /\ Others(u)
  <1>1. \A v \in Tasks \ {u} : job[v] \notin Within \cup {"final4"}
    <2>1. First(u, lockq)
      BY DEF First
    <2>2. \A v \in Tasks \ {u} : job[v] \notin Within
      BY <2>1, OneFirst DEF SessionInv, Queued
    <2>3. \A v \in Tasks : job[v] # "final4"
      BY DEF SessionInv, LifeInv, JobTypes, ClockJobs, ScreenJobs, InstallJobs, RepairJobs, Tasks
    <2> QED BY <2>2, <2>3
  <1>2. Alone(u)
    BY <1>1, HolderAlone
  <1>3. /\ LinkInv' /\ Opens(u, op) /\ ~At(u, {"ok"})'
        /\ transport # None =>
             /\ Busy(u)' => call'[u].on = transport /\ ~At(u, Dialing)'
             /\ At(u, Talking)' => transport' = transport
    BY <1>2, CommandsKeeps, CommandsOpens DEF SessionInv
  <1>4. Queued'
    BY QueueStays DEF LockJobs, First
  <1>5. CallInv'
    <2>0. k \in InCalls /\ ~Idle(u)' /\ k # "asking" /\ Others(u)
      BY <1>3 DEF Opens, Within, InCalls
    <2>1. \A v \in Tasks : kept'[v] = kept[v]
      OBVIOUS
    <2>2. u \notin {Screen, Install} => kept'[u] = None
      BY DEF SessionInv, CallInv, Keeping
    <2>3. u # Install => job[Install] \notin UpdateJobs
      BY <1>1 DEF Tasks, UpdateJobs, Within
    <2>4. ASSUME u \in {Screen, Install}, k \in UpdateJobs \cup {"command", "asking"}, Busy(u)'
          PROVE  call'[u].on = kept'[u] /\ ~At(u, Dialing)'
      <3>1. transport # None /\ transport = kept[u] /\ kept'[u] = kept[u]
        BY <2>0, <2>1, <2>4
      <3>2. Busy(u)' => call'[u].on = transport /\ ~At(u, Dialing)'
        BY <1>3, <3>1
      <3>3. call'[u].on = transport /\ ~At(u, Dialing)'
        BY <2>4, <3>2
      <3> QED BY <3>1, <3>3
    <2>5. ASSUME u = Install, k \in UpdateJobs, At(u, Talking \cup {"ok"})'
          PROVE  transport' = kept'[Install] /\ transport' # None
      <3>1. transport # None /\ transport = kept[u] /\ kept'[u] = kept[u] /\ At(u, Talking)'
        BY <1>3, <2>1, <2>5
      <3>2. At(u, Talking)' => transport' = transport
        BY <1>3, <3>1
      <3>3. transport' = transport
        BY <3>1, <3>2
      <3> QED BY <2>5, <3>1, <3>3
    <2>6. Busy(u)' => call'[u].op \in {"send", "query"}
      BY <1>3 DEF Opens
    <2> QED BY <2>0, <2>1, <2>2, <2>3, <2>4, <2>5, <2>6, CallsKept
  <1> QED BY <1>3, <1>4, <1>5 DEF Opens

\* A step that leaves the session's flags alone keeps DataInv.
LEMMA TaskVarsKeep ==
  ASSUME SessionInv, NEW u \in Tasks \ {Runner}, NEW k, Job(u, k), Others(u), UNCHANGED TaskVars
  PROVE  DataInv'
  BY DataKept DEF TaskVars, deliveryVars, sessionRest, SessionInv, DataInv, FlagTypes

\* _sync_time() begins.
LEMMA ClockStartsKeeps ==
  ASSUME SessionInv, ClockStarts
  PROVE  SessionInv'
  <1> USE TasksDiffer DEF ClockStarts
  <1>0. Clock \in Tasks \ {Runner}
    BY DEF Tasks
  <1>1. PICK k \in {"lock", "off"} :
          /\ Job(Clock, k)
          /\ k = "lock" => Locks(Clock)
          /\ k = "off" => lockq' = lockq
    OBVIOUS
  <1>2. LinkInv' /\ Queued' /\ CallInv' /\ Others(Clock)
    <2>1. k \in AllJobs /\ k \notin InCalls \cup {"final4"} /\ (k \in LockJobs <=> k = "lock")
      BY DEF AllJobs, ClockJobs, InCalls, Within, LockJobs
    <2>2. job[Clock] \notin InCalls \cup {"final4"} /\ job[Clock] \notin LockJobs
      BY DEF InCalls, Within, LockJobs
    <2>3. doomed' \subseteq Tasks /\ interrupted' \in BOOLEAN /\ kept' = kept /\ kept \in [Tasks -> Connections \cup {None}]
      BY DEF linkVars, cancelVars, SessionInv, LinkInv, LinkTypeOK
    <2> QED BY <1>0, <1>1, <2>1, <2>2, <2>3, IdleStep DEF linkVars, managerVars
  <1>3. LifeInv'
    BY <1>0, <1>1 DEF SessionInv, LifeInv, JobTypes, Excluding, Stopping, Owning, Job, TaskVars,
       lifeVars, sessionRest,
       linkVars, cancelVars, ClockJobs, Finals, Ended, Tasks
  <1>4. DataInv'
    BY <1>0, <1>1, <1>2, TaskVarsKeep
  <1> QED BY <1>2, <1>3, <1>4 DEF SessionInv

\* _sync_time() gets the lock.
LEMMA ClockGetsLockKeeps ==
  ASSUME SessionInv, ClockGetsLock
  PROVE  SessionInv'
  <1> USE TasksDiffer DEF ClockGetsLock
  <1>0. Clock \in Tasks \ {Runner} /\ At(Clock, Free)
    BY TaskIdle DEF Tasks, InCalls, Within
  <1>1. CASE TaskEnds(Clock) /\ UNCHANGED linkRest
    BY <1>0, <1>1, TaskEndsKeeps
  <1>2. CASE /\ ~ClockYields /\ Job(Clock, "sync") /\ Sends(Clock)
             /\ UNCHANGED <<kept, faults, lockq>>
    <2>1. job[Runner] \notin Finals /\ job[Runner] \notin Ended /\ ~closing
      BY <1>2 DEF ClockYields, SessionInv, LifeInv, Stopping, Owning
    <2>2. LinkInv' /\ Queued' /\ CallInv' /\ Opens(Clock, "send") /\ Others(Clock)
      <3>1. "sync" \in Within /\ job[Clock] \in LockJobs /\ Clock \notin {Screen, Install}
        BY DEF Within, LockJobs
      <3> QED BY <1>0, <1>2, <2>1, <3>1, LockedCommand DEF Sends, Finals
    <2>3. LifeInv'
      BY <1>0, <1>2, <2>1, <2>2
         DEF SessionInv, LifeInv, JobTypes, Excluding, Stopping, Owning, Job, TaskVars, lifeVars,
            sessionRest,
             Opens, ClockJobs, Finals, Ended, Tasks
    <2>4. DataInv'
      BY <1>0, <1>2, <2>2, TaskVarsKeep
    <2> QED BY <2>2, <2>3, <2>4 DEF SessionInv
  <1> QED BY <1>1, <1>2

\* The command of _sync_time() or of a click returns.
LEMMA TaskAnsweredKeeps ==
  ASSUME SessionInv, NEW u \in {Clock, Screen}, TaskAnswered(u)
  PROVE  SessionInv'
  BY TaskEndsKeeps, TasksDiffer DEF TaskAnswered, Returned

\* _sync_time() or a click is cancelled before its command.
LEMMA TaskCancelledKeeps ==
  ASSUME SessionInv, NEW u \in {Clock, Screen}, TaskCancelled(u)
  PROVE  SessionInv'
  BY TaskEndsKeeps, TasksDiffer DEF TaskCancelled

\* The user clicks.
LEMMA ScreenClickedKeeps ==
  ASSUME SessionInv, ScreenClicked
  PROVE  SessionInv'
  <1> USE TasksDiffer DEF ScreenClicked
  <1>0. Screen \in Tasks \ {Runner}
    BY DEF Tasks
  <1>1. LinkInv' /\ Queued' /\ CallInv' /\ Others(Screen)
    <2>1. "start" \in AllJobs /\ "start" \notin InCalls \cup {"final4"} /\ "start" \notin LockJobs
      BY DEF AllJobs, ScreenJobs, InCalls, Within, LockJobs
    <2>2. job[Screen] \notin InCalls \cup {"final4"} /\ job[Screen] \notin LockJobs
      BY DEF InCalls, Within, LockJobs
    <2>3. doomed' \subseteq Tasks /\ interrupted' \in BOOLEAN /\ kept' = kept /\ kept \in [Tasks -> Connections \cup {None}]
      BY DEF linkVars, cancelVars, SessionInv, LinkInv, LinkTypeOK
    <2> QED BY <1>0, <2>1, <2>2, <2>3, IdleStep DEF linkVars, managerVars, lockVars
  <1>2. LifeInv'
    BY <1>0 DEF SessionInv, LifeInv, JobTypes, Excluding, Stopping, Owning, Job, lifeVars, lockVars,
       linkVars, cancelVars, ScreenJobs, Finals, Ended, Tasks
  <1>3. DataInv'
    <2>1. requests' \in 0 .. MaxRequests
      BY SessionAssumption DEF Request, SessionInv, DataInv, FlagTypes
    <2> QED BY <1>0, <1>1, <2>1, DataKept DEF deliveryVars, SessionInv, DataInv, FlagTypes
  <1> QED BY <1>1, <1>2, <1>3 DEF SessionInv

\* _send_screen_command() begins and remembers the connection.
LEMMA ScreenStartsKeeps ==
  ASSUME SessionInv, ScreenStarts
  PROVE  SessionInv'
  <1> USE TasksDiffer DEF ScreenStarts
  <1>0. Screen \in Tasks \ {Runner}
    BY DEF Tasks
  <1>1. PICK k \in {"lock", "off"} :
          /\ Job(Screen, k)
          /\ k = "lock" => Locks(Screen) /\ Keeps(Screen, transport) /\ sameStatus' = TRUE
          /\ k = "off" => UNCHANGED <<lockq, kept, sameStatus>>
    OBVIOUS
  <1>2. LinkInv' /\ Queued' /\ CallInv' /\ Others(Screen)
    <2>1. k \in AllJobs /\ k \notin InCalls \cup {"final4"} /\ (k \in LockJobs <=> k = "lock")
      BY DEF AllJobs, ScreenJobs, InCalls, Within, LockJobs
    <2>2. job[Screen] \notin InCalls \cup {"final4"} /\ job[Screen] \notin LockJobs
      BY DEF InCalls, Within, LockJobs
    <2>3. /\ doomed' \subseteq Tasks /\ interrupted' \in BOOLEAN /\ kept' \in [Tasks -> Connections \cup {None}]
          /\ \A v \in Tasks \ {Screen} : kept'[v] = kept[v]
      BY <1>1 DEF cancelVars, Keeps, SessionInv, LinkInv, LinkTypeOK
    <2> QED BY <1>0, <1>1, <2>1, <2>2, <2>3, IdleStep
  <1>3. LifeInv'
    BY <1>0, <1>1 DEF SessionInv, LifeInv, JobTypes, Excluding, Stopping, Owning, Job, lifeVars,
       cancelVars,
       ScreenJobs, Finals, Ended, Tasks
  <1>4. DataInv'
    BY <1>0, <1>1, <1>2, DataKept DEF deliveryVars, SessionInv, DataInv, FlagTypes
  <1> QED BY <1>2, <1>3, <1>4 DEF SessionInv

\* _send_screen_command() looks again with the lock.
LEMMA ScreenGetsLockKeeps ==
  ASSUME SessionInv, ScreenGetsLock
  PROVE  SessionInv'
  <1> USE TasksDiffer DEF ScreenGetsLock
  <1>0. Screen \in Tasks \ {Runner} /\ At(Screen, Free)
    BY TaskIdle DEF Tasks, InCalls, Within
  <1>1. CASE TaskEnds(Screen) /\ UNCHANGED linkRest
    BY <1>0, <1>1, TaskEndsKeeps
  <1>2. CASE /\ StillFit /\ Job(Screen, "command") /\ Sends(Screen)
             /\ UNCHANGED <<kept, faults, lockq>>
    <2>1. job[Runner] \notin {"final3", "final4"} /\ transport # None /\ transport = kept[Screen]
      BY <1>2 DEF StillFit, SessionConnected, Connected, SessionInv, LifeInv, Stopping
    <2>2. LinkInv' /\ Queued' /\ CallInv' /\ Opens(Screen, "send") /\ Others(Screen)
      <3>1. "command" \in Within /\ job[Screen] \in LockJobs
        BY DEF Within, LockJobs
      <3> QED BY <1>0, <1>2, <2>1, <3>1, LockedCommand DEF Sends
    <2>3. LifeInv'
      BY <1>0, <1>2, <2>1, <2>2
         DEF SessionInv, LifeInv, JobTypes, Excluding, Stopping, Owning, Job, TaskVars, lifeVars,
            sessionRest,
             Opens, ScreenJobs, Finals, Ended, Tasks
    <2>4. DataInv'
      BY <1>0, <1>2, <2>2, TaskVarsKeep
    <2> QED BY <2>2, <2>3, <2>4 DEF SessionInv
  <1> QED BY <1>1, <1>2

(***************************************************************************)
(* The steps of Repair.                                                    *)
(***************************************************************************)
\* run_exclusive() stops the next background task, or interrupts _connect_task
\* and queues for the lock.
LEMMA RepairMoves ==
  ASSUME SessionInv, NEW tasks \in SUBSET {Clock, Screen}, StopsOrInterrupts(tasks),
         job[Repair] \in {"off", "stopClock", "stopScreen"},
         exclusive' = Repair, exclusive = (IF Off(Repair) THEN Nobody ELSE Repair),
         Off(Repair) => ~closing /\ owner = "owned",
         UNCHANGED <<managerVars, client, call, kept, faults, deliveryVars, lifeVars, sameStatus, owner, shown>>,
         requests' \in 0 .. MaxRequests
  PROVE  SessionInv'
  <1> USE TasksDiffer
  <1>0. Repair \in Tasks \ {Runner} /\ Repair \notin {Screen, Install} /\ tasks \subseteq Tasks
    BY DEF Tasks
  <1>1. PICK k \in {"stopClock", "stopScreen", "lock"} :
          /\ Job(Repair, k)
          /\ k = "lock" => Locks(Repair) /\ doomed' = doomed /\ interrupted' \in BOOLEAN
          /\ k # "lock" => /\ UNCHANGED <<interrupted, lockq>>
                           /\ \E u \in tasks : doomed' = doomed \cup {u}
    <2>1. (interrupted \/ Connecting) \in BOOLEAN
      OBVIOUS
    <2>2. CASE \E u \in tasks :
                  /\ Job(Repair, IF u = Clock THEN "stopClock" ELSE "stopScreen")
                  /\ Doom({u}) /\ UNCHANGED <<interrupted, lockq>>
      BY <2>2 DEF Doom
    <2>3. CASE Interrupts /\ Job(Repair, "lock") /\ Locks(Repair) /\ UNCHANGED doomed
      BY <2>1, <2>3 DEF Interrupts
    <2> QED BY <2>2, <2>3 DEF StopsOrInterrupts
  <1>2. LinkInv' /\ Queued' /\ CallInv' /\ Others(Repair)
    <2>1. k \in AllJobs /\ k \notin InCalls \cup {"final4"} /\ (k \in LockJobs <=> k = "lock")
      BY DEF AllJobs, RepairJobs, InCalls, Within, LockJobs
    <2>2. job[Repair] \notin InCalls \cup {"final4"} /\ job[Repair] \notin LockJobs
      BY DEF InCalls, Within, LockJobs
    <2>3. doomed' \subseteq Tasks /\ interrupted' \in BOOLEAN /\ kept' = kept /\ kept \in [Tasks -> Connections \cup {None}]
      BY <1>0, <1>1 DEF SessionInv, LinkInv, LinkTypeOK
    <2> QED BY <1>0, <1>1, <2>1, <2>2, <2>3, IdleStep
  <1>3. LifeInv'
    <2>0. /\ Runner \in doomed' => Runner \in doomed
          /\ job'[Repair] = k /\ \A v \in Tasks \ {Repair} : job'[v] = job[v]
      BY <1>0, <1>1 DEF Job, SessionInv, LifeInv, JobTypes
    <2>1. JobTypes'
      BY <1>0, <1>1 DEF SessionInv, LifeInv, JobTypes, Job, lifeVars, RepairJobs, Tasks
    <2>2. Excluding'
      <3>1. job[Install] \notin LockJobs
        BY SessionAssumption DEF SessionInv, LifeInv, Excluding, Tasks, Nobody
      <3> QED BY <1>0, <1>1, <2>0, <3>1 DEF Excluding, Tasks
    <2>3. Stopping'
      BY <1>0, <2>0, SessionAssumption DEF SessionInv, LifeInv, Stopping, lifeVars, Finals, Tasks, Nobody
    <2>4. Owning'
      BY <1>0, <2>0, SessionAssumption DEF SessionInv, LifeInv, Owning, lifeVars, Tasks
    <2> QED BY <2>1, <2>2, <2>3, <2>4 DEF LifeInv
  <1>4. DataInv'
    BY <1>0, <1>1, <1>2, DataKept DEF deliveryVars, SessionInv, DataInv, FlagTypes
  <1> QED BY <1>2, <1>3, <1>4 DEF SessionInv

\* A repair begins.
LEMMA RepairStartsKeeps ==
  ASSUME SessionInv, RepairStarts
  PROVE  SessionInv'
  <1>1. requests' \in 0 .. MaxRequests
    BY SessionAssumption DEF RepairStarts, Request, SessionInv, DataInv, FlagTypes
  <1>2. {Clock, Screen} \in SUBSET {Clock, Screen}
    OBVIOUS
  <1> QED BY <1>1, <1>2, RepairMoves DEF RepairStarts, Admits

\* A background task has been stopped for a repair.
LEMMA RepairGoesOnKeeps ==
  ASSUME SessionInv, RepairGoesOn
  PROVE  SessionInv'
  <1>1. /\ job[Repair] \in {"stopClock", "stopScreen"} /\ exclusive = Repair /\ exclusive' = Repair
        /\ requests' \in 0 .. MaxRequests
    BY DEF RepairGoesOn, SessionInv, LifeInv, Excluding, DataInv, FlagTypes, TaskVars, sessionRest
  <1>2. StopsOrInterrupts({Screen}) \/ StopsOrInterrupts({})
    BY DEF RepairGoesOn
  <1>3. UNCHANGED <<managerVars, client, call, kept, faults, deliveryVars, lifeVars, sameStatus, owner, shown>>
    BY DEF RepairGoesOn, TaskVars, sessionRest
  <1>4. {Screen} \in SUBSET {Clock, Screen} /\ {} \in SUBSET {Clock, Screen}
    OBVIOUS
  <1> QED BY <1>1, <1>2, <1>3, <1>4, RepairMoves

\* A repair gets the lock and resets the manager.
LEMMA RepairGetsLockKeeps ==
  ASSUME SessionInv, RepairGetsLock
  PROVE  SessionInv'
  <1> USE TasksDiffer DEF RepairGetsLock
  <1>0. Repair \in Tasks \ {Runner} /\ Repair \notin {Screen, Install} /\ At(Repair, Free)
    BY TaskIdle DEF Tasks, InCalls, Within
  <1>1. \A v \in Tasks \ {Repair} : job[v] \notin Within \cup {"final4"}
    <2>1. First(Repair, lockq)
      BY DEF First
    <2>2. \A v \in Tasks \ {Repair} : job[v] \notin Within
      BY <2>1, OneFirst DEF SessionInv, Queued
    <2>3. job[Runner] # "final4"
      BY SessionAssumption DEF SessionInv, LifeInv, Excluding, Stopping, Tasks
    <2> QED BY <2>2, <2>3 DEF SessionInv, LifeInv, JobTypes, ClockJobs, ScreenJobs, InstallJobs,
       RepairJobs, Tasks
  <1>2. LinkInv' /\ Opens(Repair, "reset")
    <2>1. Alone(Repair) /\ mclosing \in BOOLEAN
      BY <1>0, <1>1, HolderAlone DEF SessionInv, LinkInv, LinkTypeOK
    <2> QED BY <1>0, <2>1, NotReused, NotReusedOpens, ReleasesKeeps, ReleasesOpens DEF Resets, SessionInv
  <1>3. Queued'
    BY <1>0, QueueStays DEF LockJobs, Within, First, lockVars
  <1>4. LifeInv'
    BY <1>0, <1>2 DEF SessionInv, LifeInv, JobTypes, Excluding, Stopping, Owning, Job, TaskVars,
       lifeVars, sessionRest,
       lockVars, Opens, RepairJobs, Tasks
  <1>5. CallInv'
    <2>1. \A v \in Tasks : kept'[v] = kept[v]
      OBVIOUS
    <2>2. kept'[Repair] = None
      BY <1>0 DEF SessionInv, CallInv, Keeping
    <2>3. job[Install] \notin UpdateJobs
      BY <1>0, <1>1 DEF Tasks, UpdateJobs, Within
    <2> QED BY <1>0, <1>2, <2>1, <2>2, <2>3, CallsKept DEF InCalls, Within, UpdateJobs, Opens
  <1>6. DataInv'
    BY <1>0, <1>2, TaskVarsKeep DEF Opens
  <1> QED BY <1>2, <1>3, <1>4, <1>5, <1>6 DEF SessionInv

\* A repair ends, or is cancelled.
LEMMA RepairEndsKeeps ==
  ASSUME SessionInv, RepairEnds
  PROVE  SessionInv'
  <1>1. ~Off(Repair) /\ exclusive = Repair /\ Repair \in Tasks
    BY DEF RepairEnds, SessionInv, LifeInv, Excluding, Tasks
  <1>2. At(Repair, Free)
    BY <1>1, TaskIdle DEF RepairEnds, Returned, InCalls, Within
  <1> QED BY <1>1, <1>2, TaskEndsKeeps DEF RepairEnds, Leaves

(***************************************************************************)
(* The steps of Install.                                                   *)
(***************************************************************************)
\* install_firmware() asks the panel for its status.
LEMMA InstallStartsKeeps ==
  ASSUME SessionInv, InstallStarts
  PROVE  SessionInv'
  <1> USE TasksDiffer DEF InstallStarts
  <1>0. Install \in Tasks \ {Runner} /\ At(Install, Free)
    BY TaskIdle DEF Tasks, InCalls, Within
  <1>1. /\ transport # None /\ EntersWire(Install, "query", transport) /\ UNCHANGED <<mclosing, retry>>
        /\ ~NotReusable(Install)
    BY DEF Connected, Queries, Commands, NotReusable
  <1>2. kept' \in [Tasks -> Connections \cup {None}] /\ kept'[Install] = transport
        /\ \A v \in Tasks \ {Install} : kept'[v] = kept[v]
    BY <1>0 DEF Keeps, SessionInv, LinkInv, LinkTypeOK
  <1>3. LinkInv'
    <2>1. Outside
      BY <1>1, <1>2 DEF Outside, SessionInv, LinkInv, LinkTypeOK
    <2> QED BY <1>0, <1>1, <2>1, Enters DEF SessionInv
  <1>4. /\ Opens(Install, "query") /\ ~At(Install, Dialing \cup {"ok"})'
        /\ Busy(Install)' => call'[Install].on = transport
    BY <1>0, <1>1, EntersOpens DEF SessionInv
  <1>5. Queued'
    BY <1>0, QueueStays DEF LockJobs, Within, lockVars
  <1>6. LifeInv'
    BY <1>0, <1>4 DEF SessionInv, LifeInv, JobTypes, Excluding, Stopping, Owning, Job, lifeVars,
       lockVars,
       Opens, InstallJobs, LockJobs, Within, Tasks
  <1>7. CallInv'
    <2>1. Others(Install) /\ ~Idle(Install)' /\ (Busy(Install)' => call'[Install].op = "query")
      BY <1>4 DEF Opens
    <2>2. Busy(Install)' => call'[Install].on = kept'[Install] /\ ~At(Install, Dialing)'
      BY <1>2, <1>4
    <2> QED BY <1>0, <1>2, <2>1, <2>2, CallsKept DEF InCalls, Within, UpdateJobs
  <1>8. DataInv'
    <2>1. requests' \in 0 .. MaxRequests
      BY SessionAssumption DEF Request, SessionInv, DataInv, FlagTypes
    <2> QED BY <1>0, <1>4, <2>1, DataKept DEF Opens, deliveryVars, SessionInv, DataInv, FlagTypes
  <1> QED BY <1>3, <1>5, <1>6, <1>7, <1>8 DEF SessionInv

\* The answer is there, and the user is asked.
LEMMA InstallAskedKeeps ==
  ASSUME SessionInv, NEW a \in Answers, call[Install].pc = a, InstallAsked(a)
  PROVE  SessionInv'
  <1> USE TasksDiffer DEF InstallAsked
  <1>0. Install \in Tasks \ {Runner} /\ At(Install, Free) /\ job[Install] \notin LockJobs
    BY DEF Tasks, LockJobs, Within
  <1>1. CASE TaskEnds(Install)
    BY <1>0, <1>1, TaskEndsKeeps
  <1>2. CASE /\ Job(Install, "deciding") /\ Idles(Install)
             /\ UNCHANGED <<kept, doomed, lockq>>
    <2>1. LinkInv' /\ Others(Install) /\ Idle(Install)'
      <3>1. ClientRest
        BY <1>2 DEF SessionInv, LinkInv, LinkTypeOK, ClientRest, linkRest, managerVars
      <3> QED BY <1>0, <1>2, <3>1, Idled DEF SessionInv, linkRest, managerVars
    <2>2. Queued'
      BY <1>0, <1>2, QueueStays DEF LockJobs, Within
    <2>3. LifeInv'
      BY <1>0, <1>2 DEF SessionInv, LifeInv, JobTypes, Excluding, Stopping, Owning, Job,
         TaskVars, lifeVars, sessionRest,
         InstallJobs, LockJobs, Within, Tasks
    <2>4. CallInv'
      BY <1>0, <1>2, <2>1, CallsKept DEF InCalls, Within, UpdateJobs
    <2>5. DataInv'
      BY <1>0, <1>2, <2>1, TaskVarsKeep
    <2> QED BY <2>1, <2>2, <2>3, <2>4, <2>5 DEF SessionInv
  <1> QED BY <1>1, <1>2

\* The user has decided.
LEMMA InstallDecidedKeeps ==
  ASSUME SessionInv, InstallDecided
  PROVE  SessionInv'
  <1> USE TasksDiffer DEF InstallDecided
  <1>0. Install \in Tasks \ {Runner} /\ At(Install, Free) /\ job[Install] \notin LockJobs
    BY TaskIdle DEF Tasks, LockJobs, InCalls, Within
  <1>1. CASE TaskEnds(Install) /\ UNCHANGED exclusive
    BY <1>0, <1>1, TaskEndsKeeps
  <1>2. CASE /\ Current /\ Admits /\ exclusive' = Install
             /\ Job(Install, "lock") /\ Locks(Install) /\ UNCHANGED <<call, kept, doomed>>
    <2>1. LinkInv' /\ Queued' /\ CallInv' /\ Others(Install)
      <3>1. "lock" \in AllJobs /\ "lock" \notin InCalls \cup {"final4"} /\ "lock" \in LockJobs
        BY DEF AllJobs, InstallJobs, InCalls, Within, LockJobs
      <3>2. job[Install] \notin InCalls \cup {"final4"}
        BY DEF InCalls, Within
      <3>3. doomed' \subseteq Tasks /\ interrupted' \in BOOLEAN /\ kept' = kept /\ kept \in [Tasks -> Connections \cup {None}]
        BY <1>2 DEF linkRest, SessionInv, LinkInv, LinkTypeOK
      <3> QED BY <1>0, <1>2, <3>1, <3>2, <3>3, IdleStep DEF linkRest, managerVars
    <2>2. LifeInv'
      BY <1>0, <1>2, SessionAssumption
         DEF Current, Admits, SessionInv, LifeInv, JobTypes, Excluding, Stopping, Owning, Job,
            TaskVars, lifeVars,
             sessionRest, InstallJobs, LockJobs, Finals, Tasks
    <2>3. DataInv'
      BY <1>0, <1>2, <2>1, TaskVarsKeep
    <2> QED BY <2>1, <2>2, <2>3 DEF SessionInv
  <1> QED BY <1>1, <1>2

\* Install holds the lock of its exclusive operation, or waits for it.
LEMMA InstallHolds ==
  ASSUME SessionInv, job[Install] \in LockJobs
  PROVE  /\ exclusive = Install /\ owner = "owned" /\ ~Off(Install)
         /\ job[Runner] \notin {"final2", "final3", "final4"}
  BY SessionAssumption DEF SessionInv, LifeInv, Excluding, Stopping, Owning, LockJobs, Within,
     Tasks, Nobody

\* An update goes on within its exclusive operation.
LEMMA InstallLife ==
  ASSUME SessionInv, job[Install] \in LockJobs, NEW k \in InstallJobs, k \in LockJobs, Job(Install, k),
         exclusive' = exclusive, UNCHANGED TaskVars, doomed' \subseteq doomed
  PROVE  LifeInv'
  <1> USE TasksDiffer DEF SessionInv, LifeInv, JobTypes, Job, TaskVars, lifeVars, sessionRest, Tasks
  <1>1. JobTypes'
    OBVIOUS
  <1>2. Excluding' /\ Stopping'
    BY DEF Excluding, Stopping, Finals, LockJobs
  <1>3. Owning'
    BY InstallHolds DEF Owning, LockJobs, Within, Finals, Ended
  <1> QED BY <1>1, <1>2, <1>3

\* Install, with the lock, sends a command or asks for the status.
LEMMA InstallCommands ==
  ASSUME SessionInv, job[Install] \in LockJobs, Holds(Install), At(Install, Free),
         NEW k \in InstallJobs, k \in Within, NEW op \in {"send", "query"}, Job(Install, k), Commands(Install, op),
         k \in UpdateJobs => transport # None /\ transport = kept[Install],
         UNCHANGED <<kept, faults, lockVars, TaskVars>>
  PROVE  SessionInv'
  <1> USE TasksDiffer
  <1>0. Install \in Tasks \ {Runner} /\ Install # Screen /\ k # "command" /\ k \in LockJobs
    BY DEF Tasks, InstallJobs, LockJobs
  <1>1. LinkInv' /\ Queued' /\ CallInv' /\ Opens(Install, op) /\ Others(Install)
    BY <1>0, InstallHolds, LockedCommand DEF lockVars
  <1>2. LifeInv'
    BY <1>0, <1>1, InstallLife DEF Opens, lockVars
  <1>3. DataInv'
    BY <1>0, <1>1, TaskVarsKeep
  <1> QED BY <1>1, <1>2, <1>3 DEF SessionInv

\* After the restart of the panel, the update connects again.
LEMMA InstallRejoins ==
  ASSUME SessionInv, job[Install] = "reboot", Holds(Install), At(Install, Free),
         Job(Install, "rejoin"), Connects(Install), UNCHANGED <<kept, faults, lockVars, TaskVars>>
  PROVE  SessionInv'
  <1> USE TasksDiffer
  <1>0. Install \in Tasks \ {Runner} /\ job[Install] \in LockJobs /\ job[Install] \in Within
    BY DEF Tasks, LockJobs, Within
  <1>1. LinkInv' /\ Opens(Install, "connect")
    <2>1. \A v \in Tasks \ {Install} : job[v] \notin Within \cup {"final4"}
      BY <1>0, Holder, InstallHolds
         DEF SessionInv, LifeInv, JobTypes, ClockJobs, ScreenJobs, InstallJobs, RepairJobs, Tasks
    <2>2. Alone(Install)
      BY <1>0, <2>1, HolderAlone
    <2> QED BY <1>0, <2>2, ConnectsKeeps, ConnectsOpens DEF SessionInv
  <1>2. Queued'
    BY <1>0, QueueStays DEF LockJobs, Within, First, lockVars
  <1>3. LifeInv'
    BY <1>0, <1>1, InstallLife DEF Opens, lockVars, InstallJobs, LockJobs, Within
  <1>4. CallInv'
    <2>1. \A v \in Tasks : kept'[v] = kept[v]
      OBVIOUS
    <2>2. Others(Install) /\ ~Idle(Install)'
      BY <1>1 DEF Opens
    <2> QED BY <1>0, <2>1, <2>2, CallsKept DEF InCalls, Within, UpdateJobs
  <1>5. DataInv'
    BY <1>0, <1>1, TaskVarsKeep DEF Opens
  <1> QED BY <1>1, <1>2, <1>3, <1>4, <1>5 DEF SessionInv

\* An update ends, and with it the exclusive operation.
LEMMA InstallLeaves ==
  ASSUME SessionInv, job[Install] \in LockJobs, At(Install, Free), Leaves(Install), UNCHANGED <<linkRest, TaskVars>>
  PROVE  SessionInv'
  BY InstallHolds, TaskEndsKeeps DEF Leaves

\* execute() checks the connection again with the lock.
LEMMA InstallGetsLockKeeps ==
  ASSUME SessionInv, InstallGetsLock
  PROVE  SessionInv'
  <1> USE DEF InstallGetsLock
  <1>0. At(Install, Free) /\ job[Install] \in LockJobs
    BY TaskIdle DEF Tasks, InCalls, Within, LockJobs
  <1>1. CASE Leaves(Install) /\ UNCHANGED linkRest
    BY <1>0, <1>1, InstallLeaves
  <1>2. CASE /\ Current /\ Job(Install, "preflight") /\ Queries(Install)
             /\ UNCHANGED <<kept, faults, lockVars>>
    <2>1. transport # None /\ transport = kept[Install] /\ "preflight" \in InstallJobs /\ "preflight" \in Within
      BY <1>2 DEF Current, Connected, InstallJobs, Within
    <2> QED BY <1>0, <1>2, <2>1, InstallCommands DEF Queries
  <1> QED BY <1>1, <1>2

\* A step of OtaService.upgrade().
LEMMA UpgradesKeeps ==
  ASSUME SessionInv, NEW a \in Answers, call[Install].pc = a, Upgrades(a)
  PROVE  SessionInv'
  <1> USE DEF Upgrades
  <1>0. /\ Install \in Tasks /\ At(Install, Free) /\ ~Idle(Install)
        /\ job[Install] \in InstallJobs
    BY DEF Tasks, SessionInv, LifeInv, JobTypes
  <1>1. job[Install] \in Within /\ job[Install] \in LockJobs /\ Holds(Install)
    <2>1. job[Install] \in InCalls
      BY <1>0 DEF SessionInv, CallInv, Calls, InstallJobs
    <2> QED BY <1>0, <2>1 DEF InCalls, LockJobs, SessionInv, Queued, First
  <1>2. CASE Leaves(Install) /\ UNCHANGED linkRest
    BY <1>0, <1>1, <1>2, InstallLeaves
  <1>3. CASE /\ a = "ok" /\ job[Install] \in DOMAIN UpgradeOrder
             /\ Job(Install, UpgradeOrder[job[Install]])
             /\ IF job[Install] \in {"preflight", "confirm"} THEN Sends(Install) ELSE Queries(Install)
             /\ UNCHANGED <<kept, faults, lockVars>>
    <2> DEFINE k == UpgradeOrder[job[Install]]
    <2>1. /\ job[Install] \in UpdateJobs \cup {"rejoin"}
          /\ k \in {"manifest", "confirm", "firmware", "reboot"}
          /\ k \in UpdateJobs => job[Install] \in UpdateJobs
      BY <1>3 DEF UpgradeOrder, UpdateJobs
    <2>2. Job(Install, k)
      BY <1>3
    <2> HIDE DEF k
    <2>3. k \in InstallJobs /\ k \in Within
      BY <2>1 DEF InstallJobs, Within
    <2>4. k \in UpdateJobs => transport # None /\ transport = kept[Install]
      BY <1>3, <2>1 DEF SessionInv, CallInv, Chosen
    <2>5. \E op \in {"send", "query"} : Commands(Install, op)
      BY <1>3 DEF Sends, Queries
    <2> QED BY <1>0, <1>1, <1>3, <2>2, <2>3, <2>4, <2>5, InstallCommands
  <1>4. CASE /\ job[Install] = "reboot" /\ Job(Install, "rejoin") /\ Connects(Install)
             /\ UNCHANGED <<kept, faults, lockVars>>
    BY <1>0, <1>1, <1>4, InstallRejoins
  <1>5. CASE /\ \E k \in {"report", "abort"} : Job(Install, k)
             /\ Queries(Install) \/ Sends(Install)
             /\ UNCHANGED <<kept, faults, lockVars>>
    <2>1. PICK k \in {"report", "abort"} : Job(Install, k)
      BY <1>5
    <2>2. k \in InstallJobs /\ k \in Within /\ k \notin UpdateJobs
      BY DEF InstallJobs, Within, UpdateJobs
    <2> QED BY <1>0, <1>1, <1>5, <2>1, <2>2, InstallCommands DEF Sends, Queries
  <1> QED BY <1>2, <1>3, <1>4, <1>5 DEF UpgradeFails

\* An update is cancelled where it waits.
LEMMA InstallUnwindsKeeps ==
  ASSUME SessionInv, InstallUnwinds
  PROVE  SessionInv'
  <1>1. CASE job[Install] = "lock" /\ Leaves(Install)
    BY <1>1, InstallLeaves DEF InstallUnwinds, LockJobs
  <1>2. CASE job[Install] = "deciding" /\ TaskEnds(Install) /\ UNCHANGED exclusive
    BY <1>2, TaskEndsKeeps, TasksDiffer DEF InstallUnwinds, LockJobs, Within
  <1> QED BY <1>1, <1>2 DEF InstallUnwinds

(***************************************************************************)
(* The steps of the tray, and of the link.                                 *)
(***************************************************************************)
\* Nothing moves but flags, and who is to be cancelled.
LEMMA NothingMoves ==
  ASSUME SessionInv, UNCHANGED <<transport, cleanupError, client, call, kept, faults, job, lockq>>,
         retry' \in BOOLEAN, mclosing' \in BOOLEAN, interrupted' \in BOOLEAN, doomed' \subseteq Tasks
  PROVE  LinkInv' /\ Queued' /\ CallInv'
  <1>1. LinkInv'
    BY Stands DEF SessionInv, LinkInv, LinkTypeOK, ClientRest
  <1>2. Queued'
    BY DEF SessionInv, Queued
  <1>3. Calls' /\ Ops' /\ Keeping'
    BY DEF SessionInv, CallInv, Calls, Ops, Keeping
  <1>4. Bound' /\ Chosen'
    BY DEF SessionInv, CallInv, Bound, Chosen
  <1> QED BY <1>1, <1>2, <1>3, <1>4 DEF CallInv

\* An update is to be cancelled.
LEMMA CancelsInstallKeeps ==
  ASSUME SessionInv, CancelsInstall, requests' \in 0 .. MaxRequests
  PROVE  SessionInv'
  <1> USE TasksDiffer DEF CancelsInstall
  <1>1. Install \in Tasks /\ doomed' = doomed \cup {Install}
    BY DEF Tasks, Doom
  <1>2. LinkInv' /\ Queued' /\ CallInv'
    BY <1>1, NothingMoves DEF linkRest, managerVars, lockVars, SessionInv, LinkInv, LinkTypeOK
  <1>3. LifeInv'
    BY <1>1 DEF SessionInv, LifeInv, JobTypes, Excluding, Stopping, Owning, lockVars, lifeVars
  <1>4. DataInv'
    BY DEF SessionInv, DataInv, FlagTypes, Delivery, deliveryVars
  <1> QED BY <1>2, <1>3, <1>4 DEF SessionInv

\* An offer changes no more than what is to be delivered.
LEMMA OfferKeeps ==
  ASSUME SessionInv, Offer
  PROVE  SessionInv'
  <1> USE DEF Offer
  <1>1. LinkInv' /\ Queued' /\ CallInv'
    BY NothingMoves DEF linkVars, managerVars, cancelVars, lockVars, SessionInv, LinkInv, LinkTypeOK
  <1>2. LifeInv'
    BY DEF SessionInv, LifeInv, JobTypes, Excluding, Stopping, Owning, lockVars, lifeVars, sessionRest,
       linkVars, cancelVars
  <1>3. DataInv'
    BY SessionAssumption DEF SessionInv, DataInv, FlagTypes, Delivery, sessionRest, linkVars
  <1> QED BY <1>1, <1>2, <1>3 DEF SessionInv

\* The steps of forget() leave the tasks where they are.
LEMMA ForgetDooms ==
  ASSUME SessionInv, NEW set \in SUBSET Tasks, Doom(set), UNCHANGED <<ForgetVars, lockVars>>
  PROVE  LinkInv' /\ Queued' /\ CallInv' /\ DataInv'
  <1>1. LinkInv' /\ Queued' /\ CallInv'
    BY NothingMoves DEF Doom, ForgetVars, linkRest, managerVars, lockVars, SessionInv, LinkInv,
       LinkTypeOK
  <1>2. DataInv'
    BY DEF SessionInv, DataInv, FlagTypes, Delivery, ForgetVars, deliveryVars
  <1> QED BY <1>1, <1>2

\* forget() begins with the update.
LEMMA ForgetKeeps ==
  ASSUME SessionInv, Forget
  PROVE  SessionInv'
  <1> USE TasksDiffer DEF Forget
  <1>1. LinkInv' /\ Queued' /\ CallInv' /\ DataInv'
    BY ForgetDooms DEF IfAlive, Tasks
  <1>2. LifeInv'
    <2>1. Off(Repair) /\ job[Install] \in {"off", "asking", "deciding"}
      BY SessionAssumption DEF SessionInv, LifeInv, JobTypes, Excluding, InstallJobs, LockJobs,
         Within, Tasks
    <2>2. Runner \in doomed' => Runner \in doomed
      BY DEF Doom, IfAlive
    <2> QED BY <2>1, <2>2 DEF SessionInv, LifeInv, JobTypes, Excluding, Stopping, Owning,
       lockVars, ForgetVars
  <1> QED BY <1>1, <1>2 DEF SessionInv

\* forget() goes on with the session's supervision.
LEMMA RemoveSessionKeeps ==
  ASSUME SessionInv, RemoveSession
  PROVE  SessionInv'
  <1> USE TasksDiffer DEF RemoveSession
  <1>1. LinkInv' /\ Queued' /\ CallInv' /\ DataInv'
    BY ForgetDooms DEF Tasks
  <1>2. LifeInv'
    BY DEF SessionInv, LifeInv, JobTypes, Excluding, Stopping, Owning, lockVars, ForgetVars
  <1> QED BY <1>1, <1>2 DEF SessionInv

\* DeviceSession.close() marks the session as closing.
LEMMA CloseSessionKeeps ==
  ASSUME SessionInv, CloseSession
  PROVE  SessionInv'
  <1> USE TasksDiffer DEF CloseSession
  <1>1. LinkInv' /\ Queued' /\ CallInv' /\ DataInv'
    BY ForgetDooms DEF IfAlive, Tasks
  <1>2. LifeInv'
    <2>1. job[Runner] \notin Finals /\ (Runner \in doomed' => Runner \in doomed)
      BY DEF Ended, Finals, Doom, IfAlive
    <2> QED BY <2>1 DEF SessionInv, LifeInv, JobTypes, Excluding, Stopping, Owning, lockVars, ForgetVars
  <1> QED BY <1>1, <1>2 DEF SessionInv

\* DeviceSession.close() ends.
LEMMA SessionClosedKeeps ==
  ASSUME SessionInv, SessionClosed
  PROVE  SessionInv'
  <1> USE DEF SessionClosed
  <1>1. LinkInv' /\ Queued' /\ CallInv'
    BY NothingMoves DEF cancelVars, lockVars, SessionInv, LinkInv, LinkTypeOK
  <1>2. LifeInv'
    BY DEF SessionInv, LifeInv, JobTypes, Excluding, Stopping, Owning, lockVars, lifeVars, cancelVars
  <1>3. DataInv'
    BY DEF SessionInv, DataInv, FlagTypes, Delivery, deliveryVars
  <1> QED BY <1>1, <1>2, <1>3 DEF SessionInv

\* A step of the link moves no task in the session's code.
LEMMA LinkLife ==
  ASSUME SessionInv, UNCHANGED linkOnly, doomed' \subseteq doomed
  PROVE  LifeInv' /\ Queued'
  <1>1. LifeInv'
    BY DEF SessionInv, LifeInv, JobTypes, Excluding, Stopping, Owning, linkOnly, lockVars, lifeVars
  <1>2. Queued'
    BY DEF SessionInv, Queued, linkOnly, lockVars
  <1> QED BY <1>1, <1>2

\* Nothing else is in a call while an update sends its commands.
LEMMA UpdateAlone ==
  ASSUME SessionInv, job[Install] \in UpdateJobs, NEW u \in Tasks \ {Install}
  PROVE  Idle(u)
  <1>1. job[Install] \in Within /\ job[Install] \in LockJobs /\ Install \in Tasks
    BY DEF UpdateJobs, Within, LockJobs, Tasks
  <1>2. job[u] \notin Within /\ job[u] # "asking" /\ job[u] # "final4"
    BY <1>1, Holder, TasksDiffer
       DEF SessionInv, LifeInv, JobTypes, RunnerJobs, ClockJobs, ScreenJobs, RepairJobs, Ended, Tasks
  <1> QED BY <1>2, TaskIdle DEF InCalls

\* Who is in a call is where its code makes one.
LEMMA CallRuns ==
  ASSUME SessionInv, NEW u \in Tasks, Busy(u)
  PROVE  job[u] \in InCalls \cup {"final4"} /\ ~Idle(u) /\ (job[Install] \in UpdateJobs => u = Install)
  BY UpdateAlone DEF SessionInv, CallInv, Calls

\* A call goes on after an await.
LEMMA LinkProceedsKeeps ==
  ASSUME SessionInv, NEW u \in Tasks, LinkProceeds(u)
  PROVE  SessionInv'
  <1> USE TasksDiffer DEF LinkProceeds
  <1>1. LinkInv' /\ Continued(u)
    BY ProceedsKeeps, ProceedsContinues DEF SessionInv
  <1>2. Busy(u)
    BY DEF Proceeds, GetsWire, Acknowledged, LosesCommand, ShutDown, Dropped, Undone, TriesAgain, Unwinds
  <1>3. LifeInv' /\ Queued'
    BY <1>1, LinkLife DEF Continued
  <1>4. /\ job[u] \in InCalls \cup {"final4"} /\ (job[Install] \in UpdateJobs => u = Install)
        /\ Job(u, job[u])
    BY <1>2, CallRuns DEF Job, linkOnly, SessionInv, LifeInv, JobTypes
  <1>5. CallInv'
    <2>1. /\ Others(u) /\ ~Idle(u)' /\ kept' = kept /\ (Busy(u)' => call'[u].op = call[u].op)
      BY <1>1 DEF Continued
    <2>2. ASSUME u = Install, job[u] \in UpdateJobs, Busy(u)'
          PROVE  call'[u].op \in {"send", "query"}
      BY <1>2, <2>1, <2>2 DEF SessionInv, CallInv, Ops
    <2>3. ASSUME u \in {Screen, Install}, job[u] \in UpdateJobs \cup {"command", "asking"}, Busy(u)'
          PROVE  call'[u].on = kept'[u] /\ ~At(u, Dialing)'
      <3>1. call[u].on = kept[u] /\ ~At(u, Dialing)
        BY <1>2, <2>3 DEF SessionInv, CallInv, Bound
      <3> QED BY <1>1, <2>1, <2>3, <3>1 DEF Continued
    <2>4. ASSUME u = Install, job[u] \in UpdateJobs, At(u, Talking \cup {"ok"})'
          PROVE  transport' = kept'[Install] /\ transport' # None
      <3>1. ~At(u, Dialing) /\ call[u].op \in {"send", "query"}
        BY <1>2, <2>4 DEF SessionInv, CallInv, Bound, Ops
      <3>2. At(u, Talking) /\ transport' = transport
        BY <1>1, <2>4, <3>1 DEF Continued
      <3> QED BY <2>1, <2>4, <3>2 DEF SessionInv, CallInv, Chosen
    <2>5. /\ u = Install /\ job[u] = "asking" /\ Busy(u)' => call'[u].op = "query"
          /\ u = Runner /\ job[u] \in Providers /\ Busy(u)' => call'[u].op = "send"
      BY <1>2, <2>1 DEF SessionInv, CallInv, Ops
    <2>6. u \notin {Screen, Install} => kept'[u] = None
      BY <2>1 DEF SessionInv, CallInv, Keeping
    <2> QED BY <1>4, <2>1, <2>2, <2>3, <2>4, <2>5, <2>6, CallsKept
  <1>6. DataInv'
    <2>1. FlagTypes'
      BY DEF SessionInv, DataInv, FlagTypes, linkOnly, deliveryVars
    <2>2. ASSUME NEW p \in Providers, job[Runner] = p, At(Runner, {"accepted", "ok"})'
          PROVE  At(Runner, {"accepted", "ok"})
      <3>1. CASE u = Runner
        <4>1. call[Runner].op = "send"
          BY <1>2, <2>2, <3>1 DEF SessionInv, CallInv, Ops
        <4> QED BY <1>1, <2>2, <3>1, <4>1 DEF Continued
      <3>2. CASE u # Runner
        BY <1>1, <2>2, <3>2, OthersLook DEF Continued, Tasks
      <3> QED BY <3>1, <3>2
    <2>3. Delivery'
      BY <2>2 DEF SessionInv, DataInv, Delivery, linkOnly, deliveryVars
    <2> QED BY <2>1, <2>3 DEF DataInv
  <1> QED BY <1>1, <1>3, <1>5, <1>6 DEF SessionInv

\* What the world does to a call that is under way.
LEMMA HeardKeeps ==
  ASSUME SessionInv, NEW u \in Tasks, Busy(u), Heard(u), LinkInv', UNCHANGED linkOnly
  PROVE  /\ LifeInv' /\ Queued' /\ CallInv'
         /\ \A p \in Providers : job[Runner] = p => ~At(Runner, {"ok"})' \/ At(Runner, {"ok"})
         /\ u # Runner => (At(Runner, {"accepted"})' => At(Runner, {"accepted"}))
  <1> USE TasksDiffer
  <1>1. LifeInv' /\ Queued'
    BY LinkLife DEF Heard
  <1>2. /\ job[u] \in InCalls \cup {"final4"} /\ (job[Install] \in UpdateJobs => u = Install)
        /\ Job(u, job[u])
    BY CallRuns DEF Job, linkOnly, SessionInv, LifeInv, JobTypes
  <1>3. /\ Others(u) /\ ~Idle(u)' /\ kept' = kept /\ (Busy(u)' => call'[u].op = call[u].op)
    BY DEF Heard
  <1>4. CallInv'
    <2>1. ASSUME u \in {Screen, Install}, job[u] \in UpdateJobs \cup {"command", "asking"}
          PROVE  /\ call'[u].on = kept'[u] /\ At(u, Sent \cup Resolved)' /\ At(u, Sent) /\ transport' = transport
      BY <1>3, <2>1 DEF SessionInv, CallInv, Bound, Heard
    <2>2. ASSUME u = Install, job[u] \in UpdateJobs, At(u, Talking \cup {"ok"})'
          PROVE  transport' = kept'[Install] /\ transport' # None
      BY <1>3, <2>1, <2>2 DEF SessionInv, CallInv, Chosen
    <2>3. /\ u = Install /\ job[u] = "asking" /\ Busy(u)' => call'[u].op = "query"
          /\ u = Install /\ job[u] \in UpdateJobs /\ Busy(u)' => call'[u].op \in {"send", "query"}
          /\ u = Runner /\ job[u] \in Providers /\ Busy(u)' => call'[u].op = "send"
      BY <1>3 DEF SessionInv, CallInv, Ops
    <2>4. u \notin {Screen, Install} => kept'[u] = None
      BY <1>3 DEF SessionInv, CallInv, Keeping
    <2> QED BY <1>2, <1>3, <2>1, <2>2, <2>3, <2>4, CallsKept
  <1>5. ASSUME NEW p \in Providers, job[Runner] = p, At(Runner, {"ok"})' PROVE At(Runner, {"ok"})
    <2>1. CASE u = Runner
      BY <1>5, <2>1 DEF Heard, SessionInv, CallInv, Ops
    <2>2. CASE u # Runner
      BY <1>3, <1>5, <2>2, OthersLook DEF Tasks
    <2> QED BY <2>1, <2>2
  <1>6. ASSUME u # Runner, At(Runner, {"accepted"})' PROVE At(Runner, {"accepted"})
    BY <1>3, <1>6, OthersLook DEF Tasks
  <1> QED BY <1>1, <1>4, <1>5, <1>6

\* The panel carries out a command, and shows a value it was sent.
LEMMA DeviceCarriesOutKeeps ==
  ASSUME SessionInv, NEW u \in Tasks, DeviceCarriesOut(u)
  PROVE  SessionInv'
  <1> USE TasksDiffer DEF DeviceCarriesOut
  <1>0. LinkInv' /\ Heard(u) /\ Busy(u)
    BY AnswersKeep, CarriesOutIsHeard DEF SessionInv, CarriesOut
  <1>1. /\ LifeInv' /\ Queued' /\ CallInv'
        /\ \A p \in Providers : job[Runner] = p => ~At(Runner, {"ok"})' \/ At(Runner, {"ok"})
        /\ u # Runner => (At(Runner, {"accepted"})' => At(Runner, {"accepted"}))
    BY <1>0, HeardKeeps
  <1>2. DataInv'
    <2>1. CASE u = Runner /\ job[u] \in Providers
      BY <1>1, <2>1 DEF SessionInv, DataInv, FlagTypes, Delivery, linkOnly, deliveryVars, Providers
    <2>2. CASE ~(u = Runner /\ job[u] \in Providers)
      <3>1. job[u] \notin Providers
        BY <2>2 DEF SessionInv, LifeInv, JobTypes, ClockJobs, ScreenJobs, InstallJobs,
           RepairJobs, Tasks, Providers
      <3>2. shown' = shown
        BY <3>1
      <3>3. FlagTypes'
        BY <3>2 DEF SessionInv, DataInv, FlagTypes, linkOnly, deliveryVars
      <3>4. ASSUME NEW p \in Providers, job[Runner] = p, At(Runner, {"accepted", "ok"})'
            PROVE  At(Runner, {"accepted", "ok"})
        BY <1>1, <2>2, <3>4
      <3>5. Delivery'
        BY <3>2, <3>4 DEF SessionInv, DataInv, Delivery, linkOnly, deliveryVars
      <3> QED BY <3>3, <3>5 DEF DataInv
    <2> QED BY <2>1, <2>2
  <1> QED BY <1>0, <1>1, <1>2 DEF SessionInv

\* The panel refuses, or the radio has news.
LEMMA RadioKeeps ==
  ASSUME SessionInv, NEW u \in Tasks, Radio(u)
  PROVE  SessionInv'
  <1> USE DEF Radio
  <1>0. LinkInv' /\ Heard(u) /\ ~At(u, {"accepted"})' /\ Busy(u)
    <2>1. LinkInv'
      BY AnswersKeep, ScanEndsKeeps, NegotiationFailsKeeps, NegotiatesKeeps DEF SessionInv
    <2>2. Heard(u) /\ ~At(u, {"accepted"})'
      BY RadioIsHeard DEF SessionInv
    <2>3. Busy(u)
      BY DEF Refuses, TimesOut, ScanEnds, NegotiationFails, Negotiates
    <2> QED BY <2>1, <2>2, <2>3
  <1>1. /\ LifeInv' /\ Queued' /\ CallInv'
        /\ \A p \in Providers : job[Runner] = p => ~At(Runner, {"ok"})' \/ At(Runner, {"ok"})
        /\ u # Runner => (At(Runner, {"accepted"})' => At(Runner, {"accepted"}))
    BY <1>0, HeardKeeps
  <1>2. DataInv'
    <2>1. FlagTypes'
      BY DEF SessionInv, DataInv, FlagTypes, linkOnly, deliveryVars
    <2>2. ASSUME NEW p \in Providers, job[Runner] = p, At(Runner, {"accepted", "ok"})'
          PROVE  At(Runner, {"accepted", "ok"})
      BY <1>0, <1>1, <2>2
    <2>3. Delivery'
      BY <2>2 DEF SessionInv, DataInv, Delivery, linkOnly, deliveryVars
    <2> QED BY <2>1, <2>3 DEF DataInv
  <1> QED BY <1>0, <1>1, <1>2 DEF SessionInv

\* A client drops or is released.
LEMMA ClientKeeps ==
  ASSUME SessionInv, NEW t \in Connections, Client(t)
  PROVE  SessionInv'
  <1> USE TasksDiffer DEF Client
  <1>0. LinkInv'
    BY LinkDropsKeeps, CleanupEndsKeeps DEF SessionInv
  <1>1. /\ doomed' = doomed /\ kept' = kept /\ transport' = transport
        /\ \A v \in Tasks :
              \/ call'[v] = call[v]
              \/ At(v, Sent) /\ call'[v] = [op |-> call[v].op, pc |-> "lost", on |-> call[v].on]
    BY ClientIsHeard DEF SessionInv
  <1>2. \A v \in Tasks :
          /\ call'[v].op = call[v].op /\ call'[v].on = call[v].on
          /\ call'[v].pc = call[v].pc \/ (At(v, Sent) /\ call'[v].pc = "lost")
    <2>1. ASSUME NEW v \in Tasks
          PROVE  /\ call'[v].op = call[v].op /\ call'[v].on = call[v].on
                 /\ call'[v].pc = call[v].pc \/ (At(v, Sent) /\ call'[v].pc = "lost")
      <3>1. CASE call'[v] = call[v]
        BY <3>1
      <3>2. CASE At(v, Sent) /\ call'[v] = [op |-> call[v].op, pc |-> "lost", on |-> call[v].on]
        BY <3>2
      <3> QED BY <1>1, <3>1, <3>2
    <2> QED BY <2>1
  <1>3. LifeInv' /\ Queued'
    BY <1>1, LinkLife
  <1>4. job' = job /\ Runner \in Tasks /\ Install \in Tasks /\ Screen \in Tasks
    BY DEF linkOnly, Tasks
  <1>5. Calls' /\ Ops' /\ Keeping'
    BY <1>1, <1>2, <1>4 DEF SessionInv, CallInv, Calls, Ops, Keeping
  <1>6. Bound' /\ Chosen'
    BY <1>1, <1>2, <1>4 DEF SessionInv, CallInv, Bound, Chosen
  <1>7. DataInv'
    BY <1>2, <1>4 DEF SessionInv, DataInv, FlagTypes, Delivery, linkOnly, deliveryVars
  <1> QED BY <1>0, <1>3, <1>5, <1>6, <1>7 DEF SessionInv, CallInv

(***************************************************************************)
(* The invariant holds, and what follows from it.                          *)
(***************************************************************************)
\* SessionInv holds at the start.
LEMMA SessionStarts ==
  ASSUME Init
  PROVE  SessionInv
  <1> USE TasksDiffer, SessionAssumption DEF Init
  <1>1. LinkInv
    BY LinkStarts
  <1>2. /\ job \in [Tasks -> {"new", "off"}] /\ job[Runner] = "new"
        /\ \A u \in Tasks \ {Runner} : job[u] = "off"
        /\ Runner \in Tasks /\ Clock \in Tasks /\ Screen \in Tasks /\ Install \in Tasks /\ Repair \in Tasks
        /\ \A u \in Tasks : Idle(u) /\ kept[u] = None
    BY DEF Tasks, LinkInit, NoCall
  <1>3. LifeInv
    <2>1. JobTypes
      BY <1>2 DEF JobTypes, RunnerJobs, ClockJobs, ScreenJobs, InstallJobs, RepairJobs
    <2>2. Excluding /\ Stopping
      BY <1>2 DEF Excluding, Stopping, LockJobs, Within, Finals, Tasks, Nobody
    <2>3. Owning
      BY <1>2 DEF Owning, Finals, Ended, LinkInit
    <2> QED BY <2>1, <2>2, <2>3 DEF LifeInv
  <1>4. Queued
    BY <1>2, NobodyIn DEF Queued, InOrder, LockJobs, Within
  <1>5. CallInv
    BY <1>2 DEF CallInv, Calls, Ops, Keeping, Bound, Chosen, InCalls, Within, UpdateJobs, Providers
  <1>6. DataInv
    <2>1. 0 \in 0 .. MaxOffers /\ MaxRequests \in 0 .. MaxRequests
      OBVIOUS
    <2>2. FlagTypes
      BY <2>1 DEF FlagTypes
    <2>3. Delivery
      BY <1>2 DEF Delivery, Providers
    <2> QED BY <2>2, <2>3 DEF DataInv
  <1> QED BY <1>1, <1>3, <1>4, <1>5, <1>6 DEF SessionInv

\* Every step keeps SessionInv.
LEMMA SessionKeeps ==
  ASSUME SessionInv, [Next]_vars
  PROVE  SessionInv'
  <1>1. CASE Continues
    <2>1. ASSUME NEW a \in Answers, call[Runner].pc = a, RunnerConnected(a) \/ RunnerSent(a) \/ RunnerEnds(a)
          PROVE  SessionInv'
      BY <2>1, RunnerConnectedKeeps, RunnerSentKeeps, RunnerEndsKeeps
    <2>2. ASSUME NEW a \in Answers, call[Install].pc = a, InstallAsked(a) \/ Upgrades(a)
          PROVE  SessionInv'
      BY <2>2, InstallAskedKeeps, UpgradesKeeps
    <2>3. CASE TaskAnswered(Clock) \/ TaskAnswered(Screen)
      BY <2>3, TaskAnsweredKeeps
    <2>4. CASE RepairEnds
      BY <2>4, RepairEndsKeeps
    <2>5. CASE RunnerCloses
      BY <2>5, RunnerClosesKeeps
    <2> QED BY <1>1, <2>1, <2>2, <2>3, <2>4, <2>5 DEF Continues
  <1>2. CASE RunnerStarts \/ RunnerGetsLock \/ RunnerWakes \/ RunnerTimesOut \/ RunnerTidied
    BY <1>2, RunnerStartsKeeps, RunnerGetsLockKeeps, RunnerWakesKeeps, RunnerTimesOutKeeps,
       RunnerTidiedKeeps
  <1>3. CASE RunnerStops \/ RunnerCancelled
    BY <1>3, RunnerStopsKeeps, RunnerCancelledKeeps
  <1>4. CASE ClockStarts \/ ClockGetsLock \/ ScreenStarts \/ ScreenGetsLock
    BY <1>4, ClockStartsKeeps, ClockGetsLockKeeps, ScreenStartsKeeps, ScreenGetsLockKeeps
  <1>5. CASE TaskCancelled(Clock) \/ TaskCancelled(Screen)
    BY <1>5, TaskCancelledKeeps
  <1>6. CASE RepairGoesOn \/ RepairGetsLock \/ RepairStarts
    BY <1>6, RepairGoesOnKeeps, RepairGetsLockKeeps, RepairStartsKeeps
  <1>7. CASE InstallStarts \/ InstallDecided \/ InstallGetsLock \/ InstallUnwinds
    BY <1>7, InstallStartsKeeps, InstallDecidedKeeps, InstallGetsLockKeeps, InstallUnwindsKeeps
  <1>8. CASE InstallTimesOut \/ InstallCancelled
    <2>1. requests' \in 0 .. MaxRequests
      BY <1>8, SessionAssumption DEF InstallTimesOut, InstallCancelled, Request, SessionInv,
         DataInv, FlagTypes
    <2> QED BY <1>8, <2>1, CancelsInstallKeeps DEF InstallTimesOut, InstallCancelled
  <1>9. CASE RemoveSession \/ CloseSession \/ SessionClosed \/ Forget
    BY <1>9, RemoveSessionKeeps, CloseSessionKeeps, SessionClosedKeeps, ForgetKeeps
  <1>10. CASE Offer \/ ScreenClicked
    BY <1>10, OfferKeeps, ScreenClickedKeeps
  <1>11. ASSUME NEW u \in Tasks, LinkProceeds(u) \/ DeviceCarriesOut(u) \/ Radio(u) PROVE SessionInv'
    BY <1>11, LinkProceedsKeeps, DeviceCarriesOutKeeps, RadioKeeps
  <1>12. ASSUME NEW t \in Connections, Client(t) PROVE SessionInv'
    BY <1>12, ClientKeeps
  <1>13. CASE UNCHANGED vars
    <2>1. LinkInv' /\ Queued' /\ CallInv'
      BY <1>13, NothingMoves DEF vars, linkVars, managerVars, cancelVars, lockVars, SessionInv,
         LinkInv, LinkTypeOK
    <2>2. LifeInv' /\ DataInv'
      BY <1>13 DEF vars, linkVars, managerVars, cancelVars, lockVars, deliveryVars, lifeVars,
         SessionInv, LifeInv, JobTypes,
         Excluding, Stopping, Owning, DataInv, FlagTypes, Delivery
    <2> QED BY <2>1, <2>2 DEF SessionInv
  <1> QED BY <1>1, <1>2, <1>3, <1>4, <1>5, <1>6, <1>7, <1>8, <1>9, <1>10, <1>11, <1>12, <1>13
          DEF Next, System, Users

\* Two tasks are in calls only if one of them asks for the status before an
\* update.
LEMMA OneCaller ==
  ASSUME SessionInv, NEW u \in Tasks, NEW v \in Tasks, Busy(u), Busy(v),
         job[u] # "asking", job[v] # "asking"
  PROVE  u = v
  <1> SUFFICES ASSUME u # v PROVE FALSE
    OBVIOUS
  <1>1. job[u] \in Within \cup {"final4"} /\ job[v] \in Within \cup {"final4"}
    BY CallRuns DEF InCalls
  <1>2. ASSUME NEW w \in Tasks, job[w] = "final4" PROVE w = Runner
    BY <1>2 DEF SessionInv, LifeInv, JobTypes, ClockJobs, ScreenJobs, InstallJobs, RepairJobs, Tasks
  <1>3. ASSUME NEW w \in Tasks \ {Runner}, job[w] \in Within, job[Runner] = "final4" PROVE FALSE
    <2>1. w \notin {Install, Repair}
      BY <1>3, Holder
    <2>2. Off(Clock) /\ Off(Screen)
      BY <1>3 DEF SessionInv, LifeInv, Stopping
    <2> QED BY <1>3, <2>1, <2>2 DEF Tasks, Within
  <1>4. job[u] = "final4" \/ job[v] = "final4"
    BY <1>1, Holder
  <1> QED BY <1>1, <1>2, <1>3, <1>4

\* There is always a transport object nobody refers to: connect() never has to
\* wait for one.
LEMMA TransportLeft ==
  ASSUME SessionInv
  PROVE  Unused # {}
  <1> USE NoTransport, TasksDiffer
  <1> DEFINE Live(s) == s \in Connections /\ client[s] # "none"
             Calling(u) == u \in Tasks /\ Busy(u) /\ job[u] # "asking"
  <1>1. PICK a \in Connections \cup {None} :
          /\ transport # None => a = transport
          /\ \A s \in Connections : client[s] # "none" => a = s
    <2>1. CASE transport # None
      BY <2>1 DEF SessionInv, LinkInv, LinkTypeOK, OthersNone
    <2>2. CASE transport = None /\ \E s \in Connections : client[s] # "none"
      BY <2>2 DEF SessionInv, LinkInv, OneLive
    <2>3. CASE transport = None /\ \A s \in Connections : client[s] = "none"
      BY <2>3
    <2> QED BY <2>1, <2>2, <2>3
  <1>2. PICK b \in Connections \cup {None} : \A u \in Tasks : Calling(u) => b = call[u].on
    <2>1. CASE \E u \in Tasks : Calling(u)
      <3>1. PICK u \in Tasks : Calling(u)
        BY <2>1
      <3>2. call[u].on \in Connections
        BY <3>1 DEF SessionInv, LinkInv, CallShape
      <3>3. \A v \in Tasks : Calling(v) => v = u
        BY <3>1, OneCaller
      <3> QED BY <3>2, <3>3
    <2>2. CASE ~\E u \in Tasks : Calling(u)
      BY <2>2
    <2> QED BY <2>1, <2>2
  <1>3. kept[Screen] \in Connections \cup {None} /\ kept[Install] \in Connections \cup {None}
    BY DEF Tasks, SessionInv, LinkInv, LinkTypeOK
  <1>4. PICK t \in Connections : t \notin {a, b, kept[Screen], kept[Install]}
    <2>1. \A c, d \in Connections \cup {0} : Connections \ {a, b, c, d} # {}
      BY LinkAssumption
    <2>2. Connections \ {a, b, kept[Screen], kept[Install]} # {}
      BY <1>3, <2>1
    <2> QED BY <2>2
  <1>5. client[t] = "none" /\ t # transport
    BY <1>1, <1>4
  <1>6. ASSUME NEW u \in Tasks PROVE kept[u] # t
    BY <1>4 DEF SessionInv, CallInv, Keeping
  <1>7. ASSUME NEW u \in Tasks PROVE call[u].on # t
    <2>1. CASE ~Busy(u)
      BY <2>1 DEF SessionInv, LinkInv, CallShape
    <2>2. CASE Calling(u)
      BY <1>2, <1>4, <2>2
    <2>3. CASE Busy(u) /\ job[u] = "asking"
      <3>1. u = Install
        BY <2>3 DEF SessionInv, LifeInv, JobTypes, RunnerJobs, ClockJobs, ScreenJobs, RepairJobs,
           Ended, Tasks
      <3> QED BY <1>4, <2>3, <3>1 DEF SessionInv, CallInv, Bound
    <2> QED BY <2>1, <2>2, <2>3
  <1> QED BY <1>5, <1>6, <1>7 DEF Unused

\* The tasks of a session, the lock, the calls they have open and the clients
\* of the transports always fit together (MultiDeviceManager's session,
\* DeviceManager, BleakNusTransport).
THEOREM SessionInvariant == Spec => []SessionInv
  <1>1. Init => SessionInv
    BY SessionStarts
  <1>2. SessionInv /\ [Next]_vars => SessionInv'
    BY SessionKeeps
  <1> QED BY <1>1, <1>2, PTL DEF Spec

\* Every variable keeps its type; the lock is never queued for by more than
\* the five tasks, and connect() always finds a transport object to use.
THEOREM SessionTypes == Spec => []TypeOK
  <1>1. SessionInv => TypeOK
    <2> SUFFICES ASSUME SessionInv PROVE TypeOK
      OBVIOUS
    <2>1. Unused # {}
      BY TransportLeft
    <2>2. lockq \in Seq(Tasks) /\ Len(lockq) <= 5
      BY ShortQueue DEF SessionInv, Queued, InOrder
    <2> QED BY <2>1, <2>2 DEF TypeOK, SessionInv, LinkInv, LifeInv, JobTypes, DataInv, FlagTypes
  <1> QED BY <1>1, SessionInvariant, PTL

\* A panel is never spoken to through two BLE clients, however reconnections,
\* cancellations and cleanups fall (DeviceManager.connect(),
\* BleakNusTransport.close() and the quarantine).
THEOREM SessionOneClient == Spec => []OneClient
  <1>1. SessionInv => OneClient
    <2> SUFFICES ASSUME SessionInv PROVE OneClient
      OBVIOUS
    <2> DEFINE S == {t \in Connections : client[t] # "none"}
    <2>1. CASE S = {}
      BY <2>1, FS_EmptySet DEF OneClient
    <2>2. CASE S # {}
      <3>1. PICK s \in S : TRUE
        BY <2>2
      <3>2. S = {s}
        BY <3>1 DEF SessionInv, LinkInv, OneLive
      <3>3. Cardinality({s}) = 1
        BY FS_Singleton
      <3>4. Cardinality(S) = 1
        BY <3>2, <3>3
      <3> QED BY <3>4 DEF OneClient
    <2> QED BY <2>1, <2>2
  <1> QED BY <1>1, SessionInvariant, PTL

\* No BLE client is forgotten: a client that is open belongs to the manager,
\* or to a call that closes it or hands it over (BleakNusTransport.connect(),
\* DeviceManager.connect()).
THEOREM SessionNoOrphan == Spec => []NoOrphan
  <1>1. SessionInv => NoOrphan
    BY DEF SessionInv, LinkInv, UpIsCurrent, LinkingIsDialed, NoOrphan
  <1> QED BY <1>1, SessionInvariant, PTL

\* The commands of an update go to the connection the user decided on, and
\* nothing else is in flight meanwhile (install_firmware.execute(),
\* run_exclusive()).
THEOREM SessionUpdates == Spec => []UpdateKeepsItsLink
  <1>1. SessionInv => UpdateKeepsItsLink
    <2> SUFFICES ASSUME SessionInv, job[Install] \in UpdateJobs, ~At(Install, Answers \cup {"dropping"})
                 PROVE  /\ call[Install].on = kept[Install]
                        /\ \A u \in {Runner, Clock, Screen, Repair} : Idle(u)
      BY DEF UpdateKeepsItsLink, UpdateJobs
    <2>1. Install \in Tasks /\ Busy(Install)
      BY DEF Tasks, SessionInv, CallInv, Calls, InCalls, Within, UpdateJobs
    <2>2. call[Install].on = kept[Install]
      BY <2>1 DEF SessionInv, CallInv, Bound
    <2>3. \A u \in {Runner, Clock, Screen, Repair} : Idle(u)
      BY UpdateAlone, TasksDiffer DEF Tasks
    <2> QED BY <2>2, <2>3
  <1> QED BY <1>1, SessionInvariant, PTL

\* What is recorded as delivered is on the panel, for both providers
\* (_publish(), run()).
THEOREM SessionDelivers == Spec => []DeliveredIsShown
  <1>1. SessionInv => DeliveredIsShown
    BY DEF SessionInv, DataInv, Delivery, DeliveredIsShown
  <1> QED BY <1>1, SessionInvariant, PTL

\* A click reaches only the connection it was checked against
\* (_send_screen_command()).
THEOREM SessionClicks == Spec => []ClickStaysOnItsLink
  <1>1. SessionInv => ClickStaysOnItsLink
    <2> SUFFICES ASSUME SessionInv, job[Screen] = "command", ~At(Screen, Answers \cup {"dropping"})
                 PROVE  call[Screen].on = kept[Screen]
      BY DEF ClickStaysOnItsLink
    <2>1. Busy(Screen)
      BY DEF Tasks, SessionInv, CallInv, Calls, InCalls, Within
    <2> QED BY <2>1 DEF SessionInv, CallInv, Bound
  <1> QED BY <1>1, SessionInvariant, PTL

\* Once forget() has returned, nothing of the session speaks to the panel or
\* looks for it again (remove_session(), close(), _sync_time()).
THEOREM SessionForgets == Spec => []ForgottenIsStill
  <1>1. SessionInv => ForgottenIsStill
    <2> SUFFICES ASSUME SessionInv, owner = "forgotten"
                 PROVE  /\ job[Runner] \in Ended
                        /\ \A u \in {Screen, Install, Repair} : Off(u)
                        /\ \A u \in Tasks : Idle(u)
      BY DEF ForgottenIsStill
    <2>1. /\ job[Runner] \in Ended /\ Off(Screen) /\ Off(Install) /\ Off(Repair)
          /\ job[Clock] # "sync" /\ job[Clock] \in ClockJobs
      BY DEF SessionInv, LifeInv, JobTypes, Owning
    <2>2. ASSUME NEW u \in Tasks PROVE Idle(u)
      BY <2>1, TaskIdle DEF Tasks, Ended, ClockJobs, InCalls, Within
    <2> QED BY <2>1, <2>2
  <1> QED BY <1>1, SessionInvariant, PTL
================================================================================
