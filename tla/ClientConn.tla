----------------------------- MODULE ClientConn -----------------------------
(***************************************************************************)
(* The websocket connection of the TypeScript client (ActorConnRaw, in     *)
(* client/actor-conn.ts) composed with the websocket endpoint of the actor *)
(* (handleWebSocketConnect, in actor/router-endpoints.ts) and the          *)
(* connections and the subscription index of the instance.                 *)
(*                                                                         *)
(* The client starts right after CONNECT.  One event name stands for all,  *)
(* as each has its own set of listeners; arguments, results and parameters *)
(* are left out.  An action broadcasts at most one event, named by the     *)
(* action.  A websocket is a pair of FIFO channels; Close is the last      *)
(* message of either, and a lost link may swallow any suffix of what was   *)
(* sent before it.  Handlers run to completion, the continuations they     *)
(* leave for the same turn of the event loop included, except that a       *)
(* listener's callback may call back into the connection.  The one thing   *)
(* assumed of time: a retry waits 250 ms or more, and by then the client   *)
(* has seen the close of a socket that the server refused with an error.   *)
(***************************************************************************)
EXTENDS Integers, Sequences, SequencesExt

CONSTANTS
    MaxCalls,        \* actions the client calls
    Listeners,       \* listeners the client registers
    OnceListeners,   \* those registered with once()
    MaxFaults,       \* failed dials, refused, closed and lost connections
    MayDispose       \* the application may call dispose()

ASSUME ClientConnAssumption ==
    /\ MaxCalls \in Nat
    /\ MaxFaults \in Nat
    /\ OnceListeners \subseteq Listeners
    /\ MayDispose \in BOOLEAN

VARIABLES
    \* the client
    disposed,        \* #disposed
    retry,           \* pRetry of #connectWithRetry; #connecting is retry # "idle"
    attempt,         \* #connectAndWait; #onOpenPromise is defined unless "none"
    transport,       \* #transport: a socket, 0 when undefined
    messageQueue,    \* #messageQueue: ids of the queued ActionRequests
    inFlight,        \* keys of #actionsInFlight
    actionIdCounter, \* #actionIdCounter
    entry,           \* #eventSubscriptions has a set for the event
    listeners,       \* that set, in insertion order
    todo,            \* listeners #dispatchEvent has yet to return from
    detached,        \* the set it works on is no longer the one in the map
    \* the websockets
    dialled,         \* sockets created so far
    ready,           \* readyState of the client's end
    up, down,        \* messages on their way to the server and to the client
    upShut, downShut,\* sockets whose Close has been sent in that direction
    \* the server
    handlers,        \* handlersPromise and what became of the connection
    inbox,           \* callbacks waiting for handlersPromise
    connSubs,        \* conn.subscriptions holds the event
    index,           \* #subscriptionIndex of the event
    executing,       \* <<connection, action>> of running actions
    \* history
    outcome,         \* what the caller of an action knows
    answeredBy,      \* whose answer settled the call: an action, the
                     \* connection (-1) or nobody's yet (-2)
    orphans,         \* answers that found no call in flight
    sentOn,          \* the socket a request was sent on, 0 if none
    early,           \* requests sent on a socket before its Init was received
    starts,          \* how often an action was started
    broadcast,       \* actions that have broadcast their event
    owed,            \* listeners registered when an action was called
    heard,           \* listeners that got the event of an action
    used,            \* listeners registered so far
    faults

clientVars == <<disposed, retry, attempt, transport, messageQueue, inFlight,
                actionIdCounter>>
eventVars  == <<entry, listeners, todo, detached>>
netVars    == <<dialled, ready, up, down, upShut, downShut>>
serverVars == <<handlers, inbox, connSubs, index, executing>>
callVars   == <<outcome, answeredBy, orphans, sentOn, early, owed>>
history    == <<starts, broadcast, heard, used, faults>>
vars == <<clientVars, eventVars, netVars, serverVars, callVars, history>>

Ids     == 0 .. MaxCalls - 1
Sockets == 1 .. MaxFaults + 1

(* Messages that name an action, and those that do not.                     *)
About(tag, i) == [tag |-> tag, id |-> i]
Plain(tag)    == About(tag, -1)
Message == [tag : {"Action", "Response", "Error", "Event"}, id : Ids]
              \cup [tag : {"Subscribe", "Unsubscribe", "Init", "Error", "Close"}, id : {-1}]
Close       == Plain("Close")

(* Append messages to a channel; after Close nothing is sent any more.      *)
Put(ch, shut, c, ms) ==
    IF c \in shut THEN ch ELSE [ch EXCEPT ![c] = @ \o ms]

Init ==
    /\ disposed = FALSE
    /\ retry = "attempt"
    /\ attempt = "dialing"
    /\ transport = 0
    /\ messageQueue = <<>>
    /\ inFlight = {}
    /\ actionIdCounter = 0
    /\ entry = FALSE
    /\ listeners = <<>>
    /\ todo = <<>>
    /\ detached = FALSE
    /\ dialled = 0
    /\ ready = [c \in Sockets |-> "none"]
    /\ up = [c \in Sockets |-> <<>>]
    /\ down = [c \in Sockets |-> <<>>]
    /\ upShut = {}
    /\ downShut = {}
    /\ handlers = [c \in Sockets |-> "none"]
    /\ inbox = [c \in Sockets |-> <<>>]
    /\ connSubs = {}
    /\ index = {}
    /\ executing = {}
    /\ outcome = [i \in Ids |-> "uncalled"]
    /\ answeredBy = [i \in Ids |-> -2]
    /\ orphans = {}
    /\ sentOn = [i \in Ids |-> 0]
    /\ early = {}
    /\ starts = [i \in Ids |-> 0]
    /\ broadcast = {}
    /\ owed = [i \in Ids |-> {}]
    /\ heard = [i \in Ids |-> {}]
    /\ used = {}
    /\ faults = 0

(* A fault of the network or the server, or a refusal.                      *)
Fault == faults < MaxFaults /\ faults' = faults + 1

-----------------------------------------------------------------------------
(* Connecting                                                               *)

(* The driver's connectWebSocket returned a socket that is still connecting *)
(* and #connectAndWait awaits #onOpenPromise.  An attempt that dispose()    *)
(* found dialing goes on all the same.                                      *)
DialSucceeds ==
    /\ attempt = "dialing"
    /\ todo = <<>>
    /\ dialled < MaxFaults + 1
    /\ dialled' = dialled + 1
    /\ transport' = dialled'
    /\ ready' = [ready EXCEPT ![dialled'] = "connecting"]
    /\ attempt' = "waiting"
    /\ UNCHANGED <<disposed, retry, messageQueue, inFlight, actionIdCounter,
                   eventVars, up, down, upShut, downShut, serverVars, callVars,
                   history>>

(* The attempt fails; pRetry waits before the next one, unless aborted.     *)
AttemptFails ==
    /\ attempt' = "none"
    /\ retry' = IF retry = "attempt" THEN "backoff" ELSE retry

DialFails ==
    /\ attempt = "dialing"
    /\ todo = <<>>
    /\ AttemptFails
    /\ Fault
    /\ UNCHANGED <<disposed, transport, messageQueue, inFlight, actionIdCounter,
                   eventVars, netVars, serverVars, callVars,
                   starts, broadcast, heard, used>>

BackoffElapses ==
    /\ retry = "backoff"
    /\ transport = 0
    /\ todo = <<>>
    /\ retry' = "attempt"
    /\ attempt' = "dialing"
    /\ UNCHANGED <<disposed, transport, messageQueue, inFlight, actionIdCounter,
                   eventVars, netVars, serverVars, callVars, history>>

(* The handshake ends: the server's onOpen starts to prepare a connection.  *)
SocketOpens(c) ==
    /\ ready[c] = "connecting"
    /\ todo = <<>>
    /\ ready' = [ready EXCEPT ![c] = "open"]
    /\ handlers' = [handlers EXCEPT ![c] = "pending"]
    /\ UNCHANGED <<clientVars, eventVars, dialled, up, down, upShut, downShut,
                   inbox, connSubs, index, executing, callVars, history>>

(* #handleOnClose: the open promise is rejected, the transport forgotten,   *)
(* and a new connection attempted unless one is under way already.          *)
HandleOnClose ==
    /\ transport' = 0
    /\ CASE attempt # "none" -> AttemptFails
         [] attempt = "none" /\ ~disposed /\ retry = "idle" ->
                retry' = "attempt" /\ attempt' = "dialing"
         [] OTHER -> UNCHANGED <<retry, attempt>>

(* The handshake fails: the close event without anything exchanged.         *)
SocketFails(c) ==
    /\ ready[c] = "connecting"
    /\ todo = <<>>
    /\ ready' = [ready EXCEPT ![c] = "closed"]
    /\ HandleOnClose
    /\ Fault
    /\ UNCHANGED <<disposed, messageQueue, inFlight, actionIdCounter, eventVars,
                   dialled, up, down, upShut, downShut, serverVars, callVars,
                   starts, broadcast, heard, used>>

-----------------------------------------------------------------------------
(* What the application calls, from a task of its own or from a callback    *)

(* #sendMessage sends at once when the socket is open, Init received or not.*)
CanSend == transport # 0 /\ ready[transport] = "open"

SendNow(ms) == up' = IF CanSend THEN Put(up, upShut, transport, ms) ELSE up

(* Faulty variant: the counter is incremented before it is used.            *)
RequestOffByOne(i) == About("Action", i + 1)

Request(i) == About("Action", i)

(* action(): a request is sent or queued; on a disposed connection          *)
(* #sendMessage throws, after the call was put among those in flight.       *)
Call ==
    LET i == actionIdCounter IN
    /\ i \in Ids
    /\ actionIdCounter' = i + 1
    /\ inFlight' = inFlight \cup {i}
    /\ outcome' = [outcome EXCEPT ![i] = IF disposed THEN "thrown" ELSE "pending"]
    /\ owed' = [owed EXCEPT ![i] = Range(listeners)]
    /\ IF disposed
       THEN UNCHANGED <<up, sentOn, messageQueue>>
       ELSE /\ SendNow(<<Request(i)>>)
            /\ sentOn' = [sentOn EXCEPT ![i] = IF CanSend THEN transport ELSE 0]
            /\ messageQueue' = IF CanSend THEN messageQueue
                                          ELSE Append(messageQueue, i)
    /\ early' = early \cup {j \in {i} : ~disposed /\ CanSend /\ retry # "idle"}
    /\ UNCHANGED <<disposed, retry, attempt, transport, eventVars, dialled, ready,
                   down, upShut, downShut, serverVars, answeredBy, orphans,
                   history>>

(* #sendSubscription: not queued when it cannot be sent.                    *)
SendSubscription(tag) ==
    IF disposed THEN up' = up ELSE SendNow(<<Plain(tag)>>)

(* on() and once(): the first listener creates the set and subscribes; if   *)
(* that throws the set stays, empty.                                        *)
On(l) ==
    /\ l \notin used
    /\ used' = used \cup {l}
    /\ entry' = TRUE
    /\ IF entry
       THEN listeners' = Append(listeners, l) /\ up' = up
       ELSE /\ listeners' = IF disposed THEN <<>> ELSE <<l>>
            /\ SendSubscription("Subscribe")
    /\ UNCHANGED <<clientVars, todo, detached, dialled, ready, down, upShut,
                   downShut, serverVars, callVars,
                   starts, broadcast, heard, faults>>

(* The set holds a listener once.                                           *)
Without(s, l) ==
    IF l \in Range(s) THEN RemoveAt(s, CHOOSE n \in DOMAIN s : s[n] = l) ELSE s

(* The function on() returned: the last listener to go removes the set and  *)
(* unsubscribes.                                                            *)
Off(l) ==
    /\ l \in Range(listeners)
    /\ listeners' = Without(listeners, l)
    /\ IF listeners' = <<>>
       THEN /\ entry' = FALSE
            /\ detached' = (todo # <<>>)
            /\ SendSubscription("Unsubscribe")
       ELSE UNCHANGED <<entry, detached, up>>
    /\ UNCHANGED <<clientVars, todo, dialled, ready, down, upShut, downShut,
                   serverVars, callVars, history>>

(* dispose(): the retries are aborted and the current socket is closed.     *)
Dispose ==
    /\ MayDispose
    /\ ~disposed
    /\ disposed' = TRUE
    /\ retry' = IF retry = "idle" THEN "idle" ELSE "aborted"
    /\ CASE transport = 0 -> UNCHANGED <<ready, up, down, upShut, downShut>>
         [] transport # 0 /\ ready[transport] = "connecting" ->
                /\ ready' = [ready EXCEPT ![transport] = "closing"]
                /\ down' = [down EXCEPT ![transport] = <<Close>>]
                /\ upShut' = upShut \cup {transport}
                /\ downShut' = downShut \cup {transport}
                /\ up' = up
         [] OTHER ->
                /\ ready' = [ready EXCEPT ![transport] = "closing"]
                /\ up' = Put(up, upShut, transport, <<Close>>)
                /\ upShut' = upShut \cup {transport}
                /\ UNCHANGED <<down, downShut>>
    /\ UNCHANGED <<attempt, transport, messageQueue, inFlight, actionIdCounter,
                   eventVars, dialled, serverVars, callVars, history>>

-----------------------------------------------------------------------------
(* What the client receives                                                 *)

(* The next message of a socket is handed to the client.                    *)
Receive(c, tag) ==
    /\ todo = <<>>
    /\ ready[c] \in {"open", "closing"}
    /\ down[c] # <<>>
    /\ Head(down[c]).tag = tag
    /\ down' = [down EXCEPT ![c] = Tail(@)]

QueuedRequests == [n \in 1 .. Len(messageQueue) |-> Request(messageQueue[n])]
Resubscription == IF entry THEN <<Plain("Subscribe")>> ELSE <<>>

(* Faulty variants: no subscription after a reconnect; the queue first.     *)
FlushedQueueOnly  == QueuedRequests
FlushedQueueFirst == QueuedRequests \o Resubscription

(* The queued requests, in order, after the subscription.                   *)
Flushed == Resubscription \o QueuedRequests

(* Faulty variant: what has been sent stays in the queue.                   *)
FlushQueueKeeps ==
    /\ IF disposed THEN up' = up ELSE SendNow(Flushed)
    /\ UNCHANGED <<messageQueue, sentOn>>

(* Faulty variant: the queue is cleared before it is read.                  *)
FlushQueueDrops ==
    /\ messageQueue' = <<>>
    /\ IF disposed THEN up' = up ELSE SendNow(Resubscription)
    /\ UNCHANGED sentOn

(* #handleOnOpen: on a disposed connection the first message to be sent     *)
(* throws; otherwise the queue is flushed.                                  *)
FlushQueue ==
    IF disposed
    THEN /\ messageQueue' = IF entry THEN messageQueue ELSE <<>>
         /\ UNCHANGED <<up, sentOn>>
    ELSE /\ SendNow(Flushed)
         /\ messageQueue' = IF CanSend THEN <<>> ELSE messageQueue
         /\ sentOn' = [i \in Ids |->
                IF CanSend /\ i \in Range(messageQueue) THEN transport
                                                        ELSE sentOn[i]]

(* Faulty variant: #connecting is not reset.                                *)
AttemptSucceedsOnly == attempt' = "none" /\ retry' = retry

(* #onOpenPromise resolves, pRetry returns and #connecting is reset.        *)
AttemptSucceeds ==
    /\ attempt' = "none"
    /\ retry' = IF retry = "attempt" THEN "idle" ELSE retry

ReceiveInit(c) ==
    /\ Receive(c, "Init")
    /\ AttemptSucceeds
    /\ FlushQueue
    /\ UNCHANGED <<disposed, transport, inFlight, actionIdCounter, eventVars,
                   dialled, ready, upShut, downShut, serverVars, outcome,
                   answeredBy, orphans, early, owed, history>>

(* The calls in S are settled by an answer to action i.                     *)
Settle(S, i, as) ==
    /\ inFlight' = inFlight \ S
    /\ outcome' = [j \in Ids |-> IF j \in S THEN as ELSE outcome[j]]
    /\ answeredBy' = [j \in Ids |-> IF j \in S THEN i ELSE answeredBy[j]]

(* An answer to a call that is not in flight makes #takeActionInFlight      *)
(* throw, and nothing else happens.                                         *)
ReceiveResponse(c) ==
    /\ Receive(c, "Response")
    /\ LET i == Head(down[c]).id IN
       /\ Settle({i} \cap inFlight, i, "resolved")
       /\ orphans' = orphans \cup ({i} \ inFlight)
    /\ UNCHANGED <<disposed, retry, attempt, transport, messageQueue,
                   actionIdCounter, eventVars, dialled, ready, up, upShut,
                   downShut, serverVars, sentOn, early, owed, history>>

(* Faulty variant: any error is taken for one of the connection.            *)
RejectedAll(i) == inFlight

(* An error without an action is one of the connection and rejects every    *)
(* call in flight, also those whose request is still queued.  The test      *)
(* "if (actionId)" takes action 0 for no action.                            *)
OfConnection(i) == i \in {-1, 0}
Rejected(i) == IF OfConnection(i) THEN inFlight ELSE {i} \cap inFlight

ReceiveError(c) ==
    /\ Receive(c, "Error")
    /\ LET i == Head(down[c]).id IN
       /\ Settle(Rejected(i), i, "rejected")
       /\ orphans' = orphans \cup (IF OfConnection(i) THEN {} ELSE {i} \ inFlight)
       /\ IF OfConnection(i) /\ attempt # "none"
          THEN AttemptFails ELSE UNCHANGED <<retry, attempt>>
    /\ UNCHANGED <<disposed, transport, messageQueue,
                   actionIdCounter, eventVars, dialled, ready, up, upShut,
                   downShut, serverVars, sentOn, early, owed, history>>

(* #dispatchEvent copies the set and calls the listeners one by one.        *)
ReceiveEvent(c) ==
    /\ Receive(c, "Event")
    /\ todo' = listeners
    /\ detached' = FALSE
    /\ entry' = (listeners # <<>>)
    /\ heard' = [heard EXCEPT ![Head(down[c]).id] = @ \cup Range(listeners)]
    /\ UNCHANGED <<clientVars, listeners, dialled, ready, up, upShut, downShut,
                   serverVars, callVars, starts, broadcast, used, faults>>

(* A callback returns; a one-time listener is removed.  After the last one  *)
(* the set, if empty, is removed from the map without unsubscribing; the    *)
(* map's set is removed even if it is not the one that is empty.            *)
CallbackReturns ==
    LET l    == Head(todo)
        left == IF l \in OnceListeners /\ ~detached THEN Without(listeners, l)
                                                    ELSE listeners
        over == Tail(todo) = <<>>
    IN  /\ todo # <<>>
        /\ todo' = Tail(todo)
        /\ detached' = (detached /\ ~over)
        /\ IF over /\ (detached \/ left = <<>>)
           THEN listeners' = <<>> /\ entry' = FALSE
           ELSE listeners' = left /\ entry' = entry
        /\ UNCHANGED <<clientVars, netVars, serverVars, callVars, history>>

(* The close event; the client's end answers a Close with its own.          *)
ReceiveClose(c) ==
    /\ Receive(c, "Close")
    /\ ready' = [ready EXCEPT ![c] = "closed"]
    /\ up' = Put(up, upShut, c, <<Close>>)
    /\ upShut' = upShut \cup {c}
    /\ HandleOnClose
    /\ UNCHANGED <<disposed, messageQueue, inFlight, actionIdCounter, eventVars,
                   dialled, downShut, serverVars, callVars, history>>

(* A socket that is closing may discard what still arrives.                 *)
Discard(c) ==
    /\ ready[c] = "closing"
    /\ todo = <<>>
    /\ down[c] # <<>>
    /\ Head(down[c]) # Close
    /\ down' = [down EXCEPT ![c] = Tail(@)]
    /\ UNCHANGED <<clientVars, eventVars, dialled, ready, up, upShut, downShut,
                   serverVars, callVars, history>>

-----------------------------------------------------------------------------
(* The server                                                               *)

(* actor.processMessage: an action is started, a subscription added to or   *)
(* removed from the connection and the index.                               *)
IsAction(m)  == m.tag = "Action"
Started(c, ms) == {<<c, ms[n].id>> : n \in {k \in DOMAIN ms : IsAction(ms[k])}}
Subscribed(was, ms) ==
    \E n \in 0 .. Len(ms) :
        /\ IF n = 0 THEN was ELSE ms[n] = Plain("Subscribe")
        /\ \A k \in n + 1 .. Len(ms) : ms[k] # Plain("Unsubscribe")

Process(c, ms) ==
    /\ executing' = executing \cup Started(c, ms)
    /\ starts' = [i \in Ids |->
            starts[i] + Cardinality({n \in DOMAIN ms : ms[n] = About("Action", i)})]
    /\ connSubs' = IF Subscribed(c \in connSubs, ms) THEN connSubs \cup {c}
                                                     ELSE connSubs \ {c}

(* #addSubscription and #removeSubscription leave the index alone when the  *)
(* connection's own set already says so.                                    *)
IndexAfter(c, ms) ==
    CASE c \notin connSubs /\ Subscribed(FALSE, ms) -> index \cup {c}
      [] c \in connSubs /\ ~Subscribed(TRUE, ms) -> index \ {c}
      [] OTHER -> index

(* prepareConn and createConn succeed: Init is sent and handlersPromise     *)
(* resolves.  If the socket has closed meanwhile the connection is removed  *)
(* at once; the messages that came before the close are parsed first, one   *)
(* turn more, and processed after the removal.                              *)
ConnCreated(c) ==
    /\ handlers[c] = "pending"
    /\ handlers' = [handlers EXCEPT
                       ![c] = IF Close \in Range(inbox[c]) THEN "gone" ELSE "live"]
    /\ down' = Put(down, downShut, c, <<Plain("Init")>>)
    /\ Process(c, inbox[c])
    /\ index' = IndexAfter(c, inbox[c])
    /\ inbox' = [inbox EXCEPT ![c] = <<>>]
    /\ UNCHANGED <<clientVars, eventVars, dialled, ready, up, upShut, downShut,
                   callVars, broadcast, heard, used, faults>>

(* The manager refuses the request and says so, unless it does not know the *)
(* encoding, or the actor cannot be loaded, prepareConn or createConn       *)
(* throws: the socket is closed and what was received is dropped.           *)
ConnRefused(c) ==
    /\ handlers[c] = "pending"
    /\ handlers' = [handlers EXCEPT ![c] = "gone"]
    /\ inbox' = [inbox EXCEPT ![c] = <<>>]
    /\ \E ms \in {<<Close>>, <<Plain("Error"), Close>>} : down' = Put(down, downShut, c, ms)
    /\ downShut' = downShut \cup {c}
    /\ Fault
    /\ UNCHANGED <<clientVars, eventVars, dialled, ready, up, upShut, connSubs,
                   index, executing, callVars, starts, broadcast, heard, used>>

(* onMessage and onClose: before handlersPromise resolves they wait for it. *)
(* __removeConn takes the connection out of the index.                      *)
ServerReceives(c) ==
    LET m == Head(up[c]) IN
    /\ up[c] # <<>>
    /\ handlers[c] # "none"
    /\ up' = [up EXCEPT ![c] = Tail(@)]
    /\ IF m = Close
       THEN down' = Put(down, downShut, c, <<Close>>) /\ downShut' = downShut \cup {c}
       ELSE UNCHANGED <<down, downShut>>
    /\ \/ /\ handlers[c] = "pending"
          /\ inbox' = [inbox EXCEPT ![c] = Append(@, m)]
          /\ UNCHANGED <<handlers, connSubs, index, executing, starts>>
       \/ /\ handlers[c] = "live"
          /\ m # Close
          /\ Process(c, <<m>>)
          /\ index' = IndexAfter(c, <<m>>)
          /\ UNCHANGED <<handlers, inbox>>
       \/ /\ handlers[c] = "live"
          /\ m = Close
          /\ handlers' = [handlers EXCEPT ![c] = "gone"]
          /\ index' = index \ {c}
          /\ UNCHANGED <<inbox, connSubs, executing, starts>>
       \/ /\ handlers[c] = "gone"
          /\ UNCHANGED <<handlers, inbox, connSubs, index, executing, starts>>
    /\ UNCHANGED <<clientVars, eventVars, dialled, ready, upShut, callVars,
                   broadcast, heard, used, faults>>

(* The websocket driver sends only to connections it still has a socket of. *)
SendTo(C, m) ==
    down' = [c \in Sockets |->
                IF c \in C /\ handlers[c] = "live" /\ c \notin downShut
                THEN Append(down[c], m) ELSE down[c]]

(* A running action broadcasts its event to all subscribers.                *)
Broadcast(x) ==
    /\ x \in executing
    /\ x[2] \notin broadcast
    /\ broadcast' = broadcast \cup {x[2]}
    /\ SendTo(index, About("Event", x[2]))
    /\ UNCHANGED <<clientVars, eventVars, dialled, ready, up, upShut, downShut,
                   serverVars, callVars, starts, heard, used, faults>>

(* An action returns or throws and is answered.                             *)
ActionEnds(x) ==
    /\ x \in executing
    /\ executing' = executing \ {x}
    /\ \E tag \in {"Response", "Error"} : SendTo({x[1]}, About(tag, x[2]))
    /\ UNCHANGED <<clientVars, eventVars, dialled, ready, up, upShut, downShut,
                   handlers, inbox, connSubs, index, callVars, history>>

(* The actor calls conn.disconnect().                                       *)
Disconnect(c) ==
    /\ handlers[c] = "live"
    /\ c \notin downShut
    /\ down' = Put(down, downShut, c, <<Close>>)
    /\ downShut' = downShut \cup {c}
    /\ Fault
    /\ UNCHANGED <<clientVars, eventVars, dialled, ready, up, upShut, serverVars,
                   callVars, starts, broadcast, heard, used>>

(* What is left of a channel whose link is lost.                            *)
Remains(ch, shut, c) ==
    IF c \in shut /\ ch[c] = <<>> THEN {<<>>}
    ELSE {SubSeq(ch[c], 1, n) \o <<Close>> :
              n \in {k \in 0 .. Len(ch[c]) : \A j \in 1 .. k : ch[c][j] # Close}}

(* The link is lost: both ends will see the socket close.                   *)
LinkLost(c) ==
    /\ ready[c] \in {"open", "closing"}
    /\ handlers[c] # "none"
    /\ \E u \in Remains(up, upShut, c) : up' = [up EXCEPT ![c] = u]
    /\ \E d \in Remains(down, downShut, c) : down' = [down EXCEPT ![c] = d]
    /\ upShut' = upShut \cup {c}
    /\ downShut' = downShut \cup {c}
    /\ Fault
    /\ UNCHANGED <<clientVars, eventVars, dialled, ready, serverVars, callVars,
                   starts, broadcast, heard, used>>

-----------------------------------------------------------------------------
Application == Call \/ Dispose \/ \E l \in Listeners : On(l) \/ Off(l)

ClientStep(c) ==
    \/ SocketOpens(c) \/ SocketFails(c)
    \/ ReceiveInit(c) \/ ReceiveResponse(c) \/ ReceiveError(c)
    \/ ReceiveEvent(c) \/ ReceiveClose(c) \/ Discard(c)

ServerStep(c) ==
    \/ ConnCreated(c) \/ ConnRefused(c) \/ ServerReceives(c)
    \/ Disconnect(c) \/ LinkLost(c)

Next ==
    \/ Application
    \/ DialSucceeds \/ DialFails \/ BackoffElapses \/ CallbackReturns
    \/ \E c \in Sockets : ClientStep(c) \/ ServerStep(c)
    \/ \E x \in executing : Broadcast(x) \/ ActionEnds(x)

(* Sockets open or fail, timers fire, messages arrive, hooks, actions and   *)
(* callbacks return.  Nothing is assumed of the application and of faults.  *)
Fairness ==
    /\ WF_vars(DialSucceeds \/ DialFails)
    /\ WF_vars(BackoffElapses)
    /\ WF_vars(CallbackReturns)
    /\ \A c \in Sockets :
        /\ WF_vars(ClientStep(c))
        /\ WF_vars(ConnCreated(c) \/ ConnRefused(c))
        /\ WF_vars(ServerReceives(c))
    /\ \A c \in Sockets, i \in Ids : WF_vars(ActionEnds(<<c, i>>))

Spec == Init /\ [][Next]_vars
FairSpec == Spec /\ Fairness

-----------------------------------------------------------------------------
(* Properties                                                               *)

(* Type invariant of the client, the sockets, the server and the history.   *)
TypeOK ==
    /\ disposed \in BOOLEAN
    /\ retry \in {"idle", "attempt", "backoff", "aborted"}
    /\ attempt \in {"none", "dialing", "waiting"}
    /\ transport \in Sockets \cup {0}
    /\ messageQueue \in Seq(Ids)
    /\ inFlight \subseteq Ids
    /\ actionIdCounter \in Nat
    /\ entry \in BOOLEAN
    /\ listeners \in Seq(Listeners)
    /\ todo \in Seq(Listeners)
    /\ detached \in BOOLEAN
    /\ dialled \in Sockets \cup {0}
    /\ ready \in [Sockets -> {"none", "connecting", "open", "closing", "closed"}]
    /\ up \in [Sockets -> Seq(Message)]
    /\ down \in [Sockets -> Seq(Message)]
    /\ upShut \subseteq Sockets
    /\ downShut \subseteq Sockets
    /\ handlers \in [Sockets -> {"none", "pending", "live", "gone"}]
    /\ inbox \in [Sockets -> Seq(Message)]
    /\ connSubs \subseteq Sockets
    /\ index \subseteq Sockets
    /\ executing \subseteq Sockets \X Ids
    /\ outcome \in [Ids -> {"uncalled", "pending", "resolved", "rejected", "thrown"}]
    /\ answeredBy \in [Ids -> Ids \cup {-1, -2}]
    /\ orphans \subseteq Ids
    /\ sentOn \in [Ids -> Sockets \cup {0}]
    /\ early \subseteq Ids
    /\ starts \in [Ids -> Nat]
    /\ broadcast \subseteq Ids
    /\ owed \in [Ids -> SUBSET Listeners]
    /\ heard \in [Ids -> SUBSET Listeners]
    /\ used \subseteq Listeners
    /\ faults \in 0 .. MaxFaults

(* Through queueing, reconnects and resends no action is started twice.     *)
ActionsRunOnce == \A i \in Ids : starts[i] <= 1

(* A client that is not disposed has a socket or is about to get one: no    *)
(* close, refusal or failed dial leaves it idle for ever.                   *)
NeverStranded ==
    ~disposed => transport # 0 \/ attempt = "dialing" \/ retry = "backoff"

(* #onOpenPromise resolved and the socket not known to be closed.           *)
Established == ~disposed /\ retry = "idle" /\ transport # 0

(* On an established connection, once the messages on their way have been   *)
(* processed, the server has a subscription if the client has listeners:    *)
(* those registered before, during and after a reconnect included.          *)
SubscriptionsRestored ==
    Established /\ entry /\ transport \notin upShut
        => Subscribed(transport \in connSubs, up[transport])

(* Every answer finds its call in flight, so that #takeActionInFlight does  *)
(* not throw, unless an error of the connection, or one of another action   *)
(* that was taken for one, has rejected the call: it stays queued, and the  *)
(* action is run for nobody.                                                *)
AnswersFindTheirCall ==
    \A i \in orphans : OfConnection(answeredBy[i]) /\ answeredBy[i] # i

HeardBeforeAnswer(i) ==
    ~disposed /\ outcome[i] = "resolved" /\ i \in broadcast
        => owed[i] \cap Range(listeners) \subseteq heard[i]

(* A listener registered before an action was called has got the event the  *)
(* action broadcast when the call resolves, as long as the request was not  *)
(* sent between the opening of the socket and Init.                         *)
EventBeforeAnswer == \A i \in Ids \ early : HeardBeforeAnswer(i)

(* An action that was called settles in the end, unless the socket it was   *)
(* sent on closes or the connection is disposed.                            *)
CallsSettle ==
    \A i \in Ids :
        outcome[i] = "pending"
            ~> \/ outcome[i] # "pending"
               \/ disposed
               \/ sentOn[i] # 0 /\ ready[sentOn[i]] = "closed"

(* A client with listeners is subscribed again after every fault.           *)
Resubscribes ==
    (entry /\ ~disposed) ~> (disposed \/ ~entry \/ transport \in index)

-----------------------------------------------------------------------------
(* Claims that the code does not keep                                       *)

(* tests/actor-conn.ts, "should receive events via broadcast": a listener   *)
(* registered before the call has the event when the call returns.  A       *)
(* request sent on an open socket before Init overtakes the subscription.   *)
EveryEventBeforeAnswer == \A i \in Ids : HeardBeforeAnswer(i)

(* "Connection error [...] Reject any in-flight requests": a call is        *)
(* rejected by an error of its own or of the connection, never by the error *)
(* of another action.  Action id 0 is taken for "no action".                *)
RejectedByOwnError == \A i \in Ids : answeredBy[i] \in {-2, -1, i}

(* __removeConn: "Removes a connection and cleans up its resources".  A     *)
(* subscription processed after the removal puts it back into the index.    *)
RemovedConnsAreForgotten == \A c \in index : handlers[c] # "gone"
=============================================================================
