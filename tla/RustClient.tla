----------------------------- MODULE RustClient -----------------------------
(***************************************************************************)
(* A connection of the Rust client: the task of start_connection, the      *)
(* driver task that owns the socket, and the application's calls of        *)
(* action, on_event and disconnect, which share three mutexes held across  *)
(* awaits: driver, msg_queue and event_subscriptions.  A step ends where   *)
(* the code may wait.  The tables in_flight_rpcs and disconnection_rx are  *)
(* locked for one statement only, so they need no mutex here.              *)
(*                                                                         *)
(* The other end is external: a server that takes this client's requests,  *)
(* with the query and the encoding in the URL of the websocket or in X-AC  *)
(* headers and messages without a version.  The endpoints of the           *)
(* TypeScript packages beside it do not: they refuse the handshake.        *)
(***************************************************************************)
EXTENDS Naturals, Sequences, FiniteSets, SequencesExt

CONSTANTS
    MaxCalls,        \* calls of action
    Events,          \* calls of on_event, each for an event of its own
    Transports,      \* the transports a connection may use
    Capacity,        \* capacity of both mpsc channels (32 in the code)
    MaxEvents,       \* bound: events the server broadcasts
    MaxFaults,       \* bound: refused dials, failed POSTs, lost sockets, disconnects
    MayLeave         \* BOOLEAN: disconnect() and Client::drop may be called

Call(i)  == <<"call", i>>
Calls    == {Call(i) : i \in 1 .. MaxCalls}  \* in the order of rpc_counter
Loop     == <<"loop">>                       \* the task of start_connection
Free     == <<"free">>
Nothing  == <<"nothing">>
Senders  == Calls \union Events \union {Loop} \* the callers of send_msg
InitMsg  == <<"Init">>
Event    == <<"event">>
Answer(c) == <<"answer", c>>

(* A call of on_event is neither a call of action nor the task.             *)
ASSUME RustClientAssumption ==
    /\ Transports \subseteq {"websocket", "sse"}
    /\ MaxCalls \in Nat /\ Capacity \in Nat \ {0} /\ MaxEvents \in Nat /\ MaxFaults \in Nat
    /\ MayLeave \in BOOLEAN
    /\ Events \intersect (Calls \union {Loop}) = {}

VARIABLES
    transport,   \* transport_kind
    \* ActorConnectionInner
    driver,      \* BOOLEAN: driver is Some
    queue,       \* msg_queue: calls whose request waits for a connection
    inFlight,    \* keys of in_flight_rpcs
    subs,        \* keys of event_subscriptions
    lock,        \* the mutexes: who holds driver, queue, subs
    dc,          \* dc_watch
    stopRx,      \* disconnection_rx is Some
    \* the task of start_connection
    pc, didOpen,
    todo,        \* what on_open has yet to pass to send_msg
    \* callers of send_msg, and the application
    sm,          \* how far the caller is: "idle", "lock", "sending", "queueing"
    call,        \* a call of action: "idle", "open", "answered", "failed"
    leaving,     \* disconnect(): "idle", "driver", "subs", "await", "returned"
    shutdown,    \* the signal of Client::drop was received
    \* the driver task and its channels
    task,        \* "none", "running", "ended"
    aborted,     \* its abort handle was used
    greeted,     \* the driver task has read Init
    out, in,     \* mpsc channels to and from it
    holding,     \* message it waits to put into in
    posting,     \* message of the SSE POST whose response it waits for
    \* the socket and the server
    link,        \* "none", "open", or "closed" by the server or a fault
    s2c,         \* messages of the server under way
    welcomed,    \* the server has sent Init
    running,     \* actions the server runs
    heard,       \* events it has this connection subscribed to
    ran,         \* ghost: how often the server started each call
    dropped,     \* ghost: calls whose request or answer went down with a socket
    events, faults

conn    == <<driver, queue, inFlight, subs, dc, stopRx>>
loop    == <<pc, didOpen, todo>>
app     == <<call, leaving, shutdown>>
wire    == <<link, s2c, welcomed, running, heard, ran>>
channel == <<task, aborted, greeted, out, in, holding, posting>>
bounds  == <<events, faults>>
vars    == <<transport, conn, lock, loop, sm, app, channel, wire, dropped, bounds>>

(* ActorConnectionInner::new, and ActorHandle::connect before its task runs. *)
Init ==
    /\ transport \in Transports
    /\ driver = FALSE /\ queue = <<>> /\ inFlight = {} /\ subs = {}
    /\ lock = [m \in {"driver", "queue", "subs"} |-> Free]
    /\ dc = FALSE /\ stopRx = FALSE
    /\ pc = "spawned" /\ didOpen = FALSE /\ todo = <<>>
    /\ sm = [p \in Senders |-> "idle"]
    /\ call = [c \in Calls |-> "idle"] /\ leaving = "idle" /\ shutdown = FALSE
    /\ task = "none" /\ aborted = FALSE /\ greeted = FALSE
    /\ out = <<>> /\ in = <<>> /\ holding = Nothing /\ posting = Nothing
    /\ link = "none" /\ s2c = <<>> /\ welcomed = FALSE
    /\ running = {} /\ heard = {}
    /\ ran = [c \in Calls |-> 0] /\ dropped = {} /\ events = 0 /\ faults = 0

-----------------------------------------------------------------------------
(* The task of start_connection.                                            *)

LoopStarts ==
    /\ pc = "spawned"
    /\ pc' = "dialing" /\ stopRx' = TRUE
    /\ UNCHANGED <<transport, driver, queue, inFlight, subs, dc, lock, didOpen, todo, sm, app, channel, wire, dropped, bounds>>

(* Faulty variant: a connection that was open is not dialled again.         *)
AfterAttemptGivesUp(opened) ==
    pc' = IF dc \/ opened THEN "stopping" ELSE "backoff"

(* After try_connect: stop when disconnecting, redial at once after a       *)
(* connection that was open, and back off otherwise.                        *)
AfterAttempt(opened) ==
    pc' = CASE dc -> "stopping" [] ~dc /\ opened -> "dialing" [] OTHER -> "backoff"

(* connect_async is refused.  The SSE driver does not wait for its stream.  *)
DialFails ==
    /\ pc = "dialing" /\ transport = "websocket" /\ faults < MaxFaults
    /\ faults' = faults + 1
    /\ AfterAttempt(FALSE)
    /\ UNCHANGED <<transport, conn, lock, didOpen, todo, sm, app, channel, wire, dropped, events>>

(* connect spawns the driver task and returns its handle.  The Init that    *)
(* the websocket sends first, with the parameters only, is left out.        *)
DialSucceeds ==
    /\ pc = "dialing"
    /\ pc' = "storing" /\ task' = "running" /\ link' = "open"
    /\ UNCHANGED <<transport, conn, lock, didOpen, todo, sm, app, aborted, greeted, out, in, holding, posting, s2c, welcomed, running, heard, ran, dropped, bounds>>

StoreDriver ==
    /\ pc = "storing" /\ lock["driver"] = Free
    /\ driver' = TRUE /\ pc' = "select"
    /\ UNCHANGED <<transport, queue, inFlight, subs, dc, stopRx, lock, didOpen, todo, sm, app, channel, wire, dropped, bounds>>

(* on_message: an answer takes its call out of in_flight_rpcs.              *)
OnAnswer(c) ==
    /\ inFlight' = inFlight \ {c}
    /\ call' = IF c \in inFlight THEN [call EXCEPT ![c] = "answered"] ELSE call
    /\ UNCHANGED <<pc, didOpen>>

(* The select of try_connect takes a message.                               *)
LoopReceives ==
    /\ pc = "select" /\ in # <<>>
    /\ in' = Tail(in)
    /\ \/ Head(in) = InitMsg /\ didOpen' = TRUE /\ pc' = "openSubs" /\ UNCHANGED <<inFlight, call>>
       \/ \E c \in Calls : Head(in) = Answer(c) /\ OnAnswer(c)
       \/ Head(in) = Event /\ pc' = "event" /\ UNCHANGED <<didOpen, inFlight, call>>
    /\ UNCHANGED <<transport, driver, queue, subs, dc, stopRx, lock, todo, sm, leaving, shutdown, task, aborted, greeted, out, holding, posting, wire, dropped, bounds>>

(* on_message: the callbacks of an event run under the subscription lock.   *)
EventDispatched ==
    /\ pc = "event" /\ lock["subs"] = Free
    /\ pc' = "select"
    /\ UNCHANGED <<transport, conn, lock, didOpen, todo, sm, app, channel, wire, dropped, bounds>>

(* on_open repeats the subscriptions under the lock of event_subscriptions, *)
(* then flushes the queue under the lock of msg_queue.                      *)
OpenSubs ==
    /\ pc = "openSubs" /\ lock["subs"] = Free
    /\ todo' = SetToSeq(subs)
    /\ lock' = [lock EXCEPT !["subs"] = Loop] /\ pc' = "resubscribe"
    /\ UNCHANGED <<transport, conn, didOpen, sm, app, channel, wire, dropped, bounds>>

(* Faulty variant: the queue is read and not drained.                       *)
OpenQueueKeeps ==
    /\ pc = "openQueue" /\ lock["queue"] = Free
    /\ todo' = queue
    /\ lock' = [lock EXCEPT !["queue"] = Loop] /\ pc' = "flush"
    /\ UNCHANGED <<transport, conn, didOpen, sm, app, channel, wire, dropped, bounds>>

OpenQueue ==
    /\ pc = "openQueue" /\ lock["queue"] = Free
    /\ todo' = queue /\ queue' = <<>>
    /\ lock' = [lock EXCEPT !["queue"] = Loop] /\ pc' = "flush"
    /\ UNCHANGED <<transport, driver, inFlight, subs, dc, stopRx, didOpen, sm, app, channel, wire, dropped, bounds>>

(* The next message of on_open, or the end of one of its loops.             *)
OnOpenSends ==
    /\ pc \in {"resubscribe", "flush"} /\ sm[Loop] = "idle"
    /\ \/ todo # <<>> /\ sm' = [sm EXCEPT ![Loop] = "lock"] /\ UNCHANGED <<pc, lock>>
       \/ todo = <<>> /\ pc = "resubscribe" /\ pc' = "openQueue" /\ lock' = [lock EXCEPT !["subs"] = Free] /\ UNCHANGED sm
       \/ todo = <<>> /\ pc = "flush" /\ pc' = "select" /\ lock' = [lock EXCEPT !["queue"] = Free] /\ UNCHANGED sm
    /\ UNCHANGED <<transport, conn, didOpen, todo, app, channel, wire, dropped, bounds>>

(* Calls whose answer is under way in the sequence s.                       *)
Answered(s) == {c \in Calls : Answer(c) \in Range(s)}

(* The select sees the end of the driver task, whatever is left in in.      *)
TaskEndSeen ==
    /\ pc = "select" /\ task = "ended"
    /\ pc' = "destroy"
    /\ UNCHANGED <<transport, conn, lock, didOpen, todo, sm, app, channel, wire, dropped, bounds>>

DestroyDriver ==
    /\ pc = "destroy" /\ lock["driver"] = Free
    /\ driver' = FALSE /\ task' = "none" /\ aborted' = FALSE /\ in' = <<>>
    /\ dropped' = dropped \union Answered(in)
    /\ AfterAttempt(didOpen) /\ didOpen' = FALSE
    /\ UNCHANGED <<transport, queue, inFlight, subs, dc, stopRx, lock, todo, sm, app, greeted, out, holding, posting, wire, bounds>>

(* The select of the backoff: the timer, dc_watch, or the shutdown signal   *)
(* of Client::drop, which nothing else listens to.                          *)
BackoffEnds ==
    /\ pc = "backoff"
    /\ \/ pc' = "dialing" /\ UNCHANGED shutdown
       \/ dc /\ pc' = "stopping" /\ UNCHANGED shutdown
       \/ MayLeave /\ shutdown' = TRUE /\ pc' = "stopping"
    /\ UNCHANGED <<transport, conn, lock, didOpen, todo, sm, call, leaving, channel, wire, dropped, bounds>>

(* tx.send wakes disconnect(), which holds the receiver by then, and        *)
(* disconnection_rx is emptied.                                             *)
LoopStops ==
    /\ pc = "stopping"
    /\ pc' = "done" /\ stopRx' = FALSE
    /\ UNCHANGED <<transport, driver, queue, inFlight, subs, dc, lock, didOpen, todo, sm, app, channel, wire, dropped, bounds>>

-----------------------------------------------------------------------------
(* send_msg.  Only the requests of calls are queued: subscriptions are      *)
(* ephemeral.                                                               *)

Message(p)   == IF p = Loop THEN Head(todo) ELSE p
Ephemeral(p) == Message(p) \in Events

(* The return of send_msg, which releases the driver lock; a caller from    *)
(* on_event releases event_subscriptions too, on_open goes on to the next.  *)
Returns(p) ==
    /\ sm' = [sm EXCEPT ![p] = "idle"]
    /\ lock' = [lock EXCEPT !["driver"] = Free, !["subs"] = IF p \in Events THEN Free ELSE @]
    /\ todo' = IF p = Loop THEN Tail(todo) ELSE todo

(* Faulty variant: a request that cannot be sent is forgotten.              *)
NotSentForgets(p) == Returns(p)

NotSent(p) ==
    \/ Ephemeral(p) /\ Returns(p)
    \/ /\ ~Ephemeral(p)
       /\ sm' = [sm EXCEPT ![p] = "queueing"]
       /\ lock' = [lock EXCEPT !["driver"] = p]
       /\ UNCHANGED todo

SendLocks(p) ==
    /\ sm[p] = "lock" /\ lock["driver"] = Free
    /\ \/ /\ driver
          /\ sm' = [sm EXCEPT ![p] = "sending"]
          /\ lock' = [lock EXCEPT !["driver"] = p]
          /\ UNCHANGED todo
       \/ ~driver /\ NotSent(p)
    /\ UNCHANGED <<transport, conn, pc, didOpen, app, channel, wire, dropped, bounds>>

(* DriverHandle::send waits for room, and fails once the task has ended.    *)
DriverSends(p) ==
    /\ sm[p] = "sending"
    /\ \/ task = "running" /\ Len(out) < Capacity /\ out' = Append(out, Message(p)) /\ Returns(p)
       \/ task = "ended" /\ NotSent(p) /\ UNCHANGED out
    /\ UNCHANGED <<transport, conn, pc, didOpen, app, task, aborted, greeted, in, holding, posting, wire, dropped, bounds>>

SendQueues(p) ==
    /\ sm[p] = "queueing" /\ lock["queue"] = Free
    /\ queue' = Append(queue, Message(p))
    /\ Returns(p)
    /\ UNCHANGED <<transport, driver, inFlight, subs, dc, stopRx, pc, didOpen, app, channel, wire, dropped, bounds>>

-----------------------------------------------------------------------------
(* The application.                                                         *)

Action(c) ==
    /\ call[c] = "idle" /\ \A i \in 1 .. c[2] - 1 : call[Call(i)] # "idle"
    /\ call' = [call EXCEPT ![c] = "open"]
    /\ inFlight' = inFlight \union {c}
    /\ sm' = [sm EXCEPT ![c] = "lock"]
    /\ UNCHANGED <<transport, driver, queue, subs, dc, stopRx, lock, loop, leaving, shutdown, channel, wire, dropped, bounds>>

(* "Socket closed during rpc": the sender of the answer was dropped.        *)
ActionFails(c) ==
    /\ call[c] = "open" /\ sm[c] = "idle" /\ c \notin inFlight
    /\ call' = [call EXCEPT ![c] = "failed"]
    /\ UNCHANGED <<transport, conn, lock, loop, sm, leaving, shutdown, channel, wire, dropped, bounds>>

(* add_event_subscription for an event without callbacks; another callback  *)
(* of a known event sends nothing.                                          *)
OnEvent(e) ==
    /\ e \notin subs /\ lock["subs"] = Free
    /\ subs' = subs \union {e}
    /\ lock' = [lock EXCEPT !["subs"] = e]
    /\ sm' = [sm EXCEPT ![e] = "lock"]
    /\ UNCHANGED <<transport, driver, queue, inFlight, dc, stopRx, loop, app, channel, wire, dropped, bounds>>

Disconnect ==
    /\ MayLeave /\ leaving = "idle" /\ faults < MaxFaults
    /\ leaving' = "driver" /\ dc' = TRUE /\ faults' = faults + 1
    /\ UNCHANGED <<transport, driver, queue, inFlight, subs, stopRx, lock, loop, sm, call, shutdown, channel, wire, dropped, events>>

(* Faulty variant: only dc_watch is set.                                    *)
DisconnectSignals ==
    /\ leaving = "driver" /\ lock["driver"] = Free
    /\ leaving' = "subs"
    /\ inFlight' = {}
    /\ UNCHANGED <<transport, driver, queue, subs, dc, stopRx, lock, loop, sm, call, shutdown, channel, wire, dropped, bounds>>

(* disconnect() aborts the driver task and drops the calls in flight.       *)
DisconnectAborts ==
    /\ leaving = "driver" /\ lock["driver"] = Free
    /\ leaving' = "subs"
    /\ aborted' = (aborted \/ driver)
    /\ inFlight' = {}
    /\ UNCHANGED <<transport, driver, queue, subs, dc, stopRx, lock, loop, sm, call, shutdown, task, greeted, out, in, holding, posting, wire, dropped, bounds>>

DisconnectClears ==
    /\ leaving = "subs" /\ lock["subs"] = Free
    /\ subs' = {}
    /\ leaving' = IF stopRx THEN "await" ELSE "returned"
    /\ stopRx' = FALSE
    /\ UNCHANGED <<transport, driver, queue, inFlight, dc, lock, loop, sm, call, shutdown, channel, wire, dropped, bounds>>

DisconnectReturned ==
    /\ leaving = "await" /\ pc = "done"
    /\ leaving' = "returned"
    /\ UNCHANGED <<transport, conn, lock, loop, sm, call, shutdown, channel, wire, dropped, bounds>>

-----------------------------------------------------------------------------
(* The driver task.                                                         *)

Busy == task = "running" /\ holding = Nothing /\ posting = Nothing

(* The server starts an action, or notes a subscription.                    *)
ActorReceives(m) ==
    \/ /\ m \in Calls
       /\ running' = running \union {m} /\ ran' = [ran EXCEPT ![m] = @ + 1]
       /\ UNCHANGED heard
    \/ m \in Events /\ heard' = heard \union {m} /\ UNCHANGED <<running, ran>>

(* The SSE driver sends nothing before its handshake is over, and waits for *)
(* the response of its POST.  A send on a lost socket and a failed POST are *)
(* logged, and the message is gone.                                         *)
TaskSends ==
    /\ Busy /\ out # <<>> /\ (transport = "sse" => greeted)
    /\ out' = Tail(out)
    /\ \/ /\ link = "open" /\ ActorReceives(Head(out))
          /\ posting' = IF transport = "sse" THEN Head(out) ELSE Nothing
          /\ UNCHANGED <<dropped, faults>>
       \/ /\ link # "open" \/ (transport = "sse" /\ faults < MaxFaults)
          /\ faults' = IF link = "open" THEN faults + 1 ELSE faults
          /\ dropped' = dropped \union (Calls \intersect {Head(out)})
          /\ UNCHANGED <<posting, running, heard, ran>>
    /\ UNCHANGED <<transport, conn, lock, loop, sm, app, task, aborted, greeted, in, holding, link, s2c, welcomed, events>>

(* The response of a POST comes once its action has been answered, or is    *)
(* lost.                                                                    *)
PostEnds ==
    /\ task = "running" /\ posting # Nothing
    /\ \/ (posting \notin running \/ link # "open") /\ UNCHANGED faults
       \/ posting \in running /\ link = "open" /\ faults < MaxFaults /\ faults' = faults + 1
    /\ posting' = Nothing
    /\ UNCHANGED <<transport, conn, lock, loop, sm, app, task, aborted, greeted, out, in, holding, wire, dropped, events>>

(* A message of the socket goes into in, or waits for room: meanwhile the   *)
(* task sends nothing.                                                      *)
TaskReads ==
    /\ Busy /\ s2c # <<>>
    /\ s2c' = Tail(s2c)
    /\ greeted' = (greeted \/ Head(s2c) = InitMsg)
    /\ \/ Len(in) < Capacity /\ in' = Append(in, Head(s2c)) /\ UNCHANGED holding
       \/ Len(in) = Capacity /\ holding' = Head(s2c) /\ UNCHANGED in
    /\ UNCHANGED <<transport, conn, lock, loop, sm, app, task, aborted, out, posting, link, welcomed, running, heard, ran, dropped, bounds>>

TaskDelivers ==
    /\ task = "running" /\ holding # Nothing /\ Len(in) < Capacity
    /\ in' = Append(in, holding) /\ holding' = Nothing
    /\ UNCHANGED <<transport, conn, lock, loop, sm, app, task, aborted, greeted, out, posting, wire, dropped, bounds>>

(* The task returns on a close frame, on a stream error, which may come     *)
(* before the rest of the stream, or on an abort.  What is still in out, or *)
(* on the socket, is lost with it.                                          *)
TaskEnds ==
    /\ task = "running"
    /\ \/ aborted
       \/ Busy /\ link = "closed"
    /\ task' = "ended" /\ greeted' = FALSE
    /\ link' = "none" /\ welcomed' = FALSE
    /\ out' = <<>> /\ holding' = Nothing /\ posting' = Nothing /\ s2c' = <<>>
    /\ running' = {} /\ heard' = {}
    /\ dropped' = dropped \union running
                    \union (Calls \intersect Range(out))
                    \union Answered(Append(s2c, holding))
    /\ UNCHANGED <<transport, conn, lock, loop, sm, app, aborted, in, ran, bounds>>

-----------------------------------------------------------------------------
(* The server at the other end.                                             *)

ActorWelcomes ==
    /\ link = "open" /\ ~welcomed
    /\ welcomed' = TRUE /\ s2c' = Append(s2c, InitMsg)
    /\ UNCHANGED <<transport, conn, lock, loop, sm, app, channel, link, running, heard, ran, dropped, bounds>>

ActorAnswers(c) ==
    /\ link = "open" /\ welcomed /\ c \in running
    /\ running' = running \ {c} /\ s2c' = Append(s2c, Answer(c))
    /\ UNCHANGED <<transport, conn, lock, loop, sm, app, channel, link, welcomed, heard, ran, dropped, bounds>>

Broadcasts ==
    /\ link = "open" /\ welcomed /\ heard # {} /\ events < MaxEvents
    /\ events' = events + 1 /\ s2c' = Append(s2c, Event)
    /\ UNCHANGED <<transport, conn, lock, loop, sm, app, channel, link, welcomed, running, heard, ran, dropped, faults>>

(* The server closes the connection, or the socket breaks.                  *)
LinkFails ==
    /\ link = "open" /\ faults < MaxFaults
    /\ faults' = faults + 1
    /\ link' = "closed"
    /\ UNCHANGED <<transport, conn, lock, loop, sm, app, channel, s2c, welcomed, running, heard, ran, dropped, events>>

-----------------------------------------------------------------------------
LoopStep ==
    \/ LoopStarts \/ DialSucceeds \/ StoreDriver \/ LoopReceives \/ EventDispatched
    \/ OpenSubs \/ OpenQueue \/ OnOpenSends \/ TaskEndSeen \/ DestroyDriver
    \/ BackoffEnds \/ LoopStops

(* What goes on by itself: the tasks of the client and the server.          *)
Runs ==
    \/ LoopStep
    \/ \E p \in Senders : SendLocks(p) \/ DriverSends(p) \/ SendQueues(p)
    \/ \E c \in Calls : ActionFails(c) \/ ActorAnswers(c)
    \/ DisconnectAborts \/ DisconnectClears \/ DisconnectReturned
    \/ TaskSends \/ PostEnds \/ TaskReads \/ TaskDelivers \/ TaskEnds
    \/ ActorWelcomes

Next ==
    \/ Runs
    \/ \E c \in Calls : Action(c)
    \/ \E e \in Events : OnEvent(e)
    \/ Disconnect \/ Broadcasts \/ DialFails \/ LinkFails

(* The executor does not stop while a task can go on, and the server, of    *)
(* which no code is here, welcomes each socket and answers what it          *)
(* receives.  Between two calls, events or faults only finitely many steps  *)
(* are taken, so no task needs a fairness of its own.  Nothing is assumed   *)
(* of the application, of events, or of faults.                             *)
Spec == Init /\ [][Next]_vars /\ WF_vars(Runs)

-----------------------------------------------------------------------------
(* Two ways in which the connection stops for good.  The task of            *)
(* start_connection holds msg_queue during its flush, and send_msg, its own *)
(* or that of a call that holds the driver lock, waits for msg_queue to put *)
(* a message back: the driver task ended meanwhile.                         *)
FlushDeadlock ==
    /\ lock["queue"] = Loop
    /\ \E p \in Senders : lock["driver"] = p /\ sm[p] = "queueing"

(* Or both channels are full: the driver task waits for room in in, a       *)
(* sender waits for room in out, and the task of start_connection for that  *)
(* sender.                                                                  *)
ChannelDeadlock ==
    /\ holding # Nothing /\ Len(in) = Capacity /\ Len(out) = Capacity
    /\ pc \in {"event", "openSubs", "resubscribe", "openQueue", "flush"}
    /\ \E p \in Senders : lock["driver"] = p /\ sm[p] = "sending"

Wedged == FlushDeadlock \/ ChannelDeadlock

Ready == pc = "select" /\ didOpen /\ link = "open"

(* The request of a call is queued or under way once, and the server starts *)
(* no action twice, however often the connection is lost between the queue  *)
(* of send_msg, the flush of on_open and the channel of the driver.         *)
RequestsSentOnce ==
    \A c \in Calls :
        LET sent == queue \o todo \o out
        IN  ran[c] + Cardinality({k \in 1 .. Len(sent) : sent[k] = c}) <= 1

(* The keepalive loop of start_connection establishes a connection again    *)
(* after every fault, in any order of the locks its callers hold, unless it *)
(* runs into one of the two deadlocks, or the application leaves: with a    *)
(* server that welcomes each socket it accepts.                             *)
ConnectionRecovers == ~Ready ~> (Ready \/ Wedged \/ dc \/ shutdown)

(* A call of action returns, however long its request was queued, unless    *)
(* the request or the answer went down with a socket, the connection is     *)
(* wedged, or the application leaves: with a server that answers what       *)
(* reaches it.                                                              *)
ActionsSettle ==
    \A c \in Calls :
        call[c] = "open" ~> (call[c] # "open" \/ c \in dropped \/ Wedged \/ dc \/ shutdown)

(* disconnect() on a connection that has a driver returns, also when the    *)
(* socket fails at the same time, unless the connection is wedged.          *)
DisconnectReturns ==
    (leaving = "driver" /\ driver) ~> (leaving = "returned" \/ Wedged)

=============================================================================
