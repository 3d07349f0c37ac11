----------------------------- MODULE ActorConns -----------------------------
(***************************************************************************)
(* What keeps an actor instance awake: its connections (websocket, SSE,    *)
(* and the one-shot connection of an HTTP action), its raw requests and    *)
(* raw websockets, the liveness check, the sleep timer, and the stop and   *)
(* restart that follow (instance.ts, connection.ts, router-endpoints.ts,   *)
(* generic-conn-driver.ts).                                                *)
(*                                                                         *)
(* A step is what the code does between two awaits.  Time is abstracted:   *)
(* the interval may fire at any moment, and lastSeen becomes older than    *)
(* connectionLivenessTimeout at any moment after it was set.  What storage *)
(* has of the connections may lag behind (ActorPersist).  Messages and     *)
(* subscriptions are in ClientConn.                                        *)
(***************************************************************************)
EXTENDS Naturals

CONSTANTS
  WsConns, SseConns, HttpConns,   \* clients, one connection each
  Fetches, RawSockets,            \* raw requests and raw websockets
  MaxStarts                       \* bound on starts of the actor

Conns == WsConns \cup SseConns \cup HttpConns
Endpoints == Conns \cup Fetches \cup RawSockets

(* A raw request or raw websocket is no connection.                        *)
ASSUME ConnsAssumption ==
  MaxStarts \in Nat \ {0} /\ Conns \cap (Fetches \cup RawSockets) = {}

VARIABLES
  actor,      \* the instance
  stored,     \* connections in storage
  registry,   \* the driver's maps websockets and sseStreams
  pc,         \* progress of each endpoint
  gen,        \* the instance each endpoint has loaded
  sock,       \* the sockets
  failed      \* connections the actor has disconnected itself

vars == <<actor, stored, registry, pc, gen, sock, failed>>

(* up: an instance exists.  old: connections whose lastSeen is too long    *)
(* ago.  raw: #activeRawFetchCount and #activeRawWebSockets.               *)
Down == [up |-> FALSE, sleepCalled |-> FALSE, stopCalled |-> FALSE, conns |-> {},
         connected |-> {}, old |-> {}, raw |-> {}, timer |-> FALSE, starts |-> 0]

Init ==
  /\ actor = Down /\ stored = {} /\ registry = {} /\ failed = {}
  /\ pc = [e \in Endpoints |-> "idle"]
  /\ gen = [e \in Endpoints |-> 0]
  /\ sock = [e \in Endpoints |-> "none"]

assertReady(a) == ~a.sleepCalled /\ ~a.stopCalled
Current(e) == actor.up /\ gen[e] = actor.starts

(***************************************************************************)
(* The sleep timer.                                                        *)
(***************************************************************************)
canSleep(a) == a.connected = {} /\ a.raw = {}
resetSleepTimer(a) == [a EXCEPT !.timer = ~a.sleepCalled /\ canSleep(a)]

SleepTimerFires ==
  /\ actor.up /\ actor.timer
  /\ actor' = [actor EXCEPT !.timer = FALSE, !.sleepCalled = TRUE]
  /\ UNCHANGED <<stored, registry, pc, gen, sock, failed>>

(* c.sleep() of user code; later calls of _sleep return at once.           *)
sleep ==
  /\ actor.up /\ ~actor.sleepCalled
  /\ actor' = [actor EXCEPT !.sleepCalled = TRUE]
  /\ UNCHANGED <<stored, registry, pc, gen, sock, failed>>

(***************************************************************************)
(* Connections.                                                            *)
(***************************************************************************)
(* Faulty variant: the timer is left as it is.                             *)
removeConnKeepsTimer(a, c) ==
  [a EXCEPT !.conns = @ \ {c}, !.connected = @ \ {c}, !.old = @ \ {c}]

(* __removeConn does not ask whether the connection was still there.       *)
removeConn(a, c) ==
  resetSleepTimer([a EXCEPT !.conns = @ \ {c}, !.connected = @ \ {c}, !.old = @ \ {c}])

(* An endpoint that is done no longer refers to an instance.              *)
Done(e) ==
  /\ pc' = [pc EXCEPT ![e] = "done"]
  /\ gen' = [gen EXCEPT ![e] = 0]
  /\ failed' = failed \ {e}

RemoveBy(c) == actor' = IF Current(c) THEN removeConn(actor, c) ELSE actor

(* Faulty variant: the timer is decided before the connection is added.    *)
addConnAfterReset(a, c) ==
  [resetSleepTimer(a) EXCEPT !.conns = @ \cup {c}, !.connected = @ \cup {c}]

addConn(a, c) ==
  resetSleepTimer([a EXCEPT !.conns = @ \cup {c}, !.connected = @ \cup {c}])

(* An endpoint has loaded the actor and calls prepareConn: also a sleeping *)
(* one that the driver still has.                                          *)
Open(c) ==
  /\ pc[c] = "idle" /\ actor.up
  /\ pc' = [pc EXCEPT ![c] = "preparing"]
  /\ gen' = [gen EXCEPT ![c] = actor.starts]
  /\ sock' = [sock EXCEPT ![c] = "open"]
  /\ UNCHANGED <<actor, stored, registry, failed>>

(* onBeforeConnect or createConnState throws: the socket is closed.        *)
prepareConnFails(c) ==
  /\ pc[c] = "preparing" /\ Done(c)
  /\ sock' = [sock EXCEPT ![c] = "closed"]
  /\ UNCHANGED <<actor, stored, registry>>

Registers(c) == IF c \in HttpConns THEN registry ELSE registry \cup {c}

createConn(c) ==
  /\ pc[c] = "preparing" /\ Current(c) /\ assertReady(actor)
  /\ registry' = Registers(c)
  /\ actor' = addConn(actor, c)
  /\ pc' = [pc EXCEPT ![c] = "connected"]
  /\ UNCHANGED <<stored, gen, sock, failed>>

(* The instance is going to sleep.  SSE takes its stream out of the map    *)
(* again, the websocket endpoint does not.                                 *)
createConnRefused(c) ==
  /\ pc[c] = "preparing" /\ ~(Current(c) /\ assertReady(actor))
  /\ registry' = IF c \in WsConns THEN Registers(c) ELSE registry
  /\ sock' = [sock EXCEPT ![c] = "closed"]
  /\ Done(c)
  /\ UNCHANGED <<actor, stored>>

(* What conn.disconnect does to the socket: a websocket closes once the    *)
(* peer answers, a stream ends at once, without its abort handler, and for *)
(* an HTTP connection nothing happens.                                     *)
Disconnected(c) ==
  CASE c \in WsConns /\ sock[c] = "open" -> "closing"
    [] c \in SseConns -> "closed"
    [] OTHER -> sock[c]

(* onConnect failed, or user code disconnects.                             *)
disconnect(c) ==
  /\ c \in actor.conns /\ Current(c) /\ pc[c] = "connected" /\ c \notin failed
  /\ failed' = failed \cup {c}
  /\ actor' = [actor EXCEPT !.connected = @ \ {c}]
  /\ sock' = [sock EXCEPT ![c] = Disconnected(c)]
  /\ UNCHANGED <<stored, registry, pc, gen>>

(* The client closes, or answers a close.  Only a stream whose connection  *)
(* exists has an abort handler; a websocket's close handler is run by      *)
(* WsClosed, after the connection was made.                                *)
SocketCloses(c) ==
  /\ c \notin HttpConns /\ sock[c] \in {"open", "closing"}
  /\ sock' = [sock EXCEPT ![c] = "closed"]
  /\ IF c \in SseConns /\ pc[c] = "connected"
     THEN RemoveBy(c) /\ Done(c) /\ registry' = registry \ {c}
     ELSE UNCHANGED <<actor, registry, pc, gen, failed>>
  /\ UNCHANGED stored

WsClosed(c) ==
  /\ c \in WsConns /\ sock[c] = "closed" /\ pc[c] = "connected"
  /\ registry' = registry \ {c}
  /\ RemoveBy(c) /\ Done(c)
  /\ UNCHANGED <<stored, sock>>

(* The HTTP action ends, returning or throwing.                            *)
ActionEnds(c) ==
  /\ c \in HttpConns /\ pc[c] = "connected"
  /\ RemoveBy(c) /\ Done(c)
  /\ sock' = [sock EXCEPT ![c] = "closed"]
  /\ UNCHANGED <<stored, registry>>

(***************************************************************************)
(* Raw requests and raw websockets.                                        *)
(***************************************************************************)
handleRaw(e) ==
  /\ pc[e] = "idle" /\ actor.up /\ assertReady(actor)
  /\ actor' = resetSleepTimer([actor EXCEPT !.raw = @ \cup {e}])
  /\ pc' = [pc EXCEPT ![e] = "connected"]
  /\ gen' = [gen EXCEPT ![e] = actor.starts]
  /\ UNCHANGED <<stored, registry, sock, failed>>

handleFetch(f) == f \in Fetches /\ handleRaw(f)
handleWebSocket(s) == s \in RawSockets /\ handleRaw(s)

(* The response is there, or the socket closed or failed.                  *)
RawEnds(e) ==
  /\ e \in Fetches \cup RawSockets /\ pc[e] = "connected"
  /\ actor' = IF Current(e) THEN resetSleepTimer([actor EXCEPT !.raw = @ \ {e}]) ELSE actor
  /\ Done(e)
  /\ UNCHANGED <<stored, registry, sock>>

(***************************************************************************)
(* The liveness check.                                                     *)
(***************************************************************************)
(* Faulty variant: a connection the driver does not know counts as alive.  *)
AliveIfUnknown(c) == c \notin registry \/ sock[c] = "open"

(* getConnectionReadyState.                                                *)
Alive(c) == c \in HttpConns \/ (c \in registry /\ sock[c] = "open")

(* Every status is set, every dead connection that was not seen for long   *)
(* enough is removed.  The last removal resets the timer while the         *)
(* connections in unvisited still have their former status.                *)
Checked(a, unvisited) ==
  LET alive == {c \in a.conns : Alive(c)}
      removed == (a.conns \ alive) \cap a.old
      before == [a EXCEPT !.conns = @ \ removed, !.old = @ \ (alive \cup removed),
                   !.connected = (alive \ unvisited) \cup ((@ \cap unvisited) \ removed)]
  IN [(IF removed = {} THEN before ELSE resetSleepTimer(before)) EXCEPT !.connected = alive]

checkConnectionsLiveness ==
  /\ actor.up
  /\ \E unvisited \in SUBSET actor.conns : actor' = Checked(actor, unvisited)
  /\ UNCHANGED <<stored, registry, pc, gen, sock, failed>>

(* lastSeen only counts for a dead connection.                             *)
LastSeenAges(c) ==
  /\ c \in actor.conns \ actor.old /\ ~Alive(c)
  /\ actor' = [actor EXCEPT !.old = @ \cup {c}]
  /\ UNCHANGED <<stored, registry, pc, gen, sock, failed>>

(***************************************************************************)
(* Stop and start.                                                         *)
(***************************************************************************)
(* What a stop or a crash leaves in storage: the connections of this       *)
(* moment, or, when they were not saved yet, those of the last start.      *)
SomeSave == stored' \in {stored, actor.conns}

(* The driver calls _stop, which disconnects everyone: after _sleep, or,   *)
(* the engine's driver, also without it: because the engine says so, or    *)
(* because the timer of an earlier instance of the actor fires, set by a   *)
(* removal after that instance's _stop.                                    *)
stop ==
  /\ actor.up /\ ~actor.stopCalled
  /\ actor' = [actor EXCEPT !.stopCalled = TRUE, !.connected = {}]
  /\ sock' = [e \in Endpoints |->
       IF e \in actor.conns /\ Current(e) THEN Disconnected(e) ELSE sock[e]]
  /\ UNCHANGED <<stored, registry, pc, gen, failed>>

(* onStop and waitUntil are over.  A connection that is removed after this *)
(* sets the timer again, unless _sleep was called.                         *)
StopClearsTimer ==
  /\ actor.up /\ actor.stopCalled /\ actor.timer
  /\ actor' = [actor EXCEPT !.timer = FALSE]
  /\ UNCHANGED <<stored, registry, pc, gen, sock, failed>>

(* The driver drops the instance and its maps.                             *)
StopEnds ==
  /\ actor.up /\ actor.stopCalled
  /\ actor' = [Down EXCEPT !.starts = actor.starts]
  /\ registry' = {} /\ SomeSave
  /\ UNCHANGED <<pc, gen, sock, failed>>

(* The process dies with all its sockets.                                  *)
Crash ==
  /\ actor.up
  /\ actor' = [Down EXCEPT !.starts = actor.starts]
  /\ registry' = {} /\ SomeSave
  /\ pc' = [e \in Endpoints |-> IF pc[e] = "idle" THEN "idle" ELSE "done"]
  /\ gen' = [e \in Endpoints |-> 0] /\ failed' = {}
  /\ sock' = [e \in Endpoints |-> IF sock[e] = "none" THEN "none" ELSE "closed"]

(* start(): the stored connections are restored as connected, the timer is *)
(* reset, and the liveness check runs in the same tick.                    *)
start ==
  /\ ~actor.up /\ actor.starts < MaxStarts
  /\ \E old \in SUBSET (stored \ HttpConns), unvisited \in SUBSET stored :
       actor' = Checked(resetSleepTimer([Down EXCEPT !.up = TRUE, !.starts = actor.starts + 1,
                          !.conns = stored, !.connected = stored, !.old = old]), unvisited)
  /\ UNCHANGED <<stored, registry, pc, gen, sock, failed>>

Next ==
  \/ \E c \in Conns : \/ Open(c) \/ prepareConnFails(c) \/ createConn(c)
                      \/ createConnRefused(c) \/ disconnect(c) \/ SocketCloses(c)
                      \/ WsClosed(c) \/ ActionEnds(c) \/ LastSeenAges(c)
  \/ \E e \in Endpoints : handleFetch(e) \/ handleWebSocket(e) \/ RawEnds(e)
  \/ SleepTimerFires \/ sleep \/ checkConnectionsLiveness
  \/ stop \/ StopClearsTimer \/ StopEnds \/ Crash \/ start

(* Handlers of events that happened, timers and intervals run; a peer      *)
(* answers a close; _sleep makes the driver call _stop; nothing forces     *)
(* clients, user code, storage or a driver to stop an actor by itself.     *)
Fairness ==
  /\ \A c \in WsConns : /\ WF_vars(WsClosed(c))
                        /\ WF_vars(sock[c] = "closing" /\ SocketCloses(c))
  /\ \A c \in Conns \ HttpConns : WF_vars(LastSeenAges(c))
  /\ WF_vars(SleepTimerFires) /\ WF_vars(checkConnectionsLiveness)
  /\ WF_vars(actor.sleepCalled /\ stop) /\ WF_vars(StopEnds)

Spec == Init /\ [][Next]_vars /\ Fairness

(***************************************************************************)
(* Properties.                                                             *)
(***************************************************************************)
(* Somebody uses the instance: an open socket with a connection, an HTTP   *)
(* action, a raw request or a raw websocket.  Connections that the actor   *)
(* itself disconnected do not count, although the action of one may still  *)
(* be running.                                                             *)
InUse ==
  \/ actor.raw # {}
  \/ \E c \in actor.conns \ failed : Current(c) /\ pc[c] = "connected" /\ sock[c] = "open"

(* Until _stop is called, the sleep timer of an instance in use is not     *)
(* running: whatever order connections, checks and removals come in, none  *)
(* of them arms it or leaves it armed (#resetSleepTimer and its callers).  *)
NoSleepInUse == (actor.timer /\ ~actor.stopCalled) => ~InUse

(* Websocket and SSE connections whose socket is gone are removed in the   *)
(* end, also those whose close event was missed or that were restored      *)
(* after a sleep or a crash: again and again the actor has none of them    *)
(* (#checkConnectionsLiveness).                                            *)
DeadConnsAreRemoved ==
  []<>(\A c \in Conns \ HttpConns : c \in actor.conns => sock[c] \notin {"closing", "closed"})

(* Nobody uses the actor, nobody is about to, and no HTTP connection of an *)
(* earlier process was restored: that one is never found dead.             *)
Abandoned == /\ ~InUse /\ actor.conns \cap HttpConns = {}
             /\ \A e \in Endpoints : pc[e] # "preparing"
             /\ \A c \in actor.conns : sock[c] # "open"

(* An abandoned actor goes to sleep (#resetSleepTimer).                    *)
AbandonedActorSleeps == <>[]Abandoned => []<>(~actor.up)
=============================================================================
