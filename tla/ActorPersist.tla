---------------------------- MODULE ActorPersist ----------------------------
(***************************************************************************)
(* How an actor instance (packages/rivetkit/src/actor/instance.ts) keeps   *)
(* #persist in storage: initialisation, the dirty flag, the throttled and  *)
(* the immediate save, the write queue, saveState as user code calls it,   *)
(* the flush of _stop, crashes of the process at any point, and what an    *)
(* instance still writes after its driver has dropped it.                  *)
(*                                                                         *)
(* The contents of #persist are abstracted to two version numbers: `state` *)
(* counts the changes of #persist.state, `aux` the changes of the other    *)
(* persisted fields (connections, subscriptions, scheduledEvents).  Each   *)
(* step is what the code does between two awaits.  The driver reads back   *)
(* what it stored, as the file-system and the Cloudflare driver do.        *)
(***************************************************************************)
EXTENDS Naturals, FiniteSets, PromiseQueue

CONSTANTS
    Requests,        \* handlers (actions, fetches, websockets) in flight
    MaxVersion,      \* bound: changes of #persist.state
    MaxAux,          \* bound: changes of the other persisted fields
    MaxCrashes,      \* bound: process crashes
    MaxLeftover,     \* bound: dropped instances that still run something
    WritesMayFail,   \* BOOLEAN: writePersistedData may reject
    MayStop          \* BOOLEAN: the driver may stop the instance

(* The other awaiters of a write cycle: the calls of #savePersistInner that *)
(* nobody awaits, and _stop.                                                *)
Unawaited == "unawaited save"
Stopper   == "_stop"

ASSUME PersistAssumption ==
    /\ MaxVersion \in Nat /\ MaxAux \in Nat /\ MaxCrashes \in Nat
    /\ MaxLeftover \in Nat
    /\ WritesMayFail \in BOOLEAN /\ MayStop \in BOOLEAN
    /\ Unawaited \notin Requests /\ Stopper \notin Requests

Waiters == Requests \union {Unawaited, Stopper}

VARIABLES
    phase,               \* how far start() has come
    state, aux,          \* versions of the fields of #persist
    durable,             \* what the driver has stored
    leftover,            \* what dropped instances may still write
    persistChanged,      \* #persistChanged
    inThrottleWindow,    \* less than stateSaveInterval since #lastSaveTime
    pendingSaveTimeout,  \* #pendingSaveTimeout: undefined, armed, or a handle
                         \* whose timer has been cleared
    onPersistSaved,      \* #onPersistSavedPromise
    writeQueue,          \* #persistWriteQueue
    snapshot,            \* what the running write has serialized
    unawaitedResumes,    \* an unawaited save's cycle is over, it resumes next
    pc,                  \* where each request is
    stop,                \* how far _sleep and _stop have come
    \* History, read by the properties only.
    need,                \* the version each request asked saveState to save
    acked,               \* the newest version an awaited save reported saved
    answered,            \* the newest version whose action returned
    flushTarget,         \* the versions _stop had to flush
    rejected,            \* the newest version whose write was rejected
    overwritten,         \* what is stored comes from a dropped instance
    crashes

mem   == <<state, aux>>
saves == <<persistChanged, inThrottleWindow, pendingSaveTimeout,
           onPersistSaved, writeQueue, snapshot, unawaitedResumes>>
storage == <<durable, overwritten, leftover>>
hist  == <<need, acked, answered, flushTarget, rejected, crashes>>
vars  == <<phase, mem, storage, saves, pc, stop, hist>>

Phases == {"down", "initWrite", "creating", "starting", "ready", "wedged"}
PCs    == {"idle", "action", "saving", "saved", "awaiting", "returned",
           "wsClean", "wsDirty", "wsSaving", "wsSaved"}
Stops  == {"no", "sleepCalled", "hooks", "flushing", "flushed", "closing",
           "draining", "done"}

Init ==
    /\ phase = "down"
    /\ state = 0 /\ aux = 0
    /\ durable = [init |-> FALSE, state |-> 0, aux |-> 0]
    /\ persistChanged = FALSE
    /\ inThrottleWindow = FALSE
    /\ pendingSaveTimeout = "undefined"
    /\ onPersistSaved = "undefined"
    /\ writeQueue = EmptyQueue
    /\ snapshot = [state |-> 0, aux |-> 0]
    /\ unawaitedResumes = FALSE
    /\ pc = [r \in Requests |-> "idle"]
    /\ stop = "no"
    /\ need = [r \in Requests |-> 0]
    /\ acked = 0 /\ answered = 0 /\ flushTarget = [state |-> 0, aux |-> 0]
    /\ rejected = 0 /\ crashes = 0
    /\ leftover = {} /\ overwritten = FALSE

-----------------------------------------------------------------------------
(* Saving.                                                                  *)

(* #assertReady(allowStoppingState = false) *)
AssertReady == phase = "ready" /\ stop = "no"

(* The write op takes its snapshot and clears the flag when it starts, not  *)
(* when it is queued.                                                       *)
WriteStarts ==
    /\ persistChanged' = FALSE
    /\ snapshot' = [state |-> state', aux |-> aux']

Resolved(promise) == IF promise = "pending" THEN "resolved" ELSE promise

(* Faulty variant of SavePersistInner: a save that finds a write running    *)
(* awaits that one, whose snapshot is older, instead of queueing its own.   *)
SavePersistInnerAwaitsRunning(w, promise) ==
    /\ inThrottleWindow' = TRUE
    /\ IF persistChanged
       THEN /\ IF RunningDrainLoop(writeQueue)
               THEN /\ writeQueue' = [writeQueue EXCEPT !.loops =
                                        {[l EXCEPT !.cycle = @ \union {w}] : l \in @}]
                    /\ UNCHANGED <<persistChanged, snapshot>>
               ELSE /\ writeQueue' = EnqueueOp(writeQueue, "write", w)
                    /\ WriteStarts
            /\ onPersistSaved' = promise
       ELSE /\ onPersistSaved' = Resolved(promise)
            /\ UNCHANGED <<writeQueue, persistChanged, snapshot>>

(* Faulty variant of SavePersistInner: the write shares its queue with the   *)
(* alarm writes, whose operation takes its place.                           *)
SavePersistInnerSharesQueue(w, promise) ==
    /\ inThrottleWindow' = TRUE
    /\ IF persistChanged
       THEN /\ writeQueue' = EnqueueOp(EnqueueOp(writeQueue, "write", w), "setAlarm", w)
            /\ UNCHANGED <<persistChanged, snapshot>>
            /\ onPersistSaved' = promise
       ELSE /\ onPersistSaved' = Resolved(promise)
            /\ UNCHANGED <<writeQueue, persistChanged, snapshot>>

(* #savePersistInner() up to its first await.  w awaits the cycle; promise  *)
(* is #onPersistSavedPromise as the call finds it.                          *)
SavePersistInner(w, promise) ==
    /\ inThrottleWindow' = TRUE
    /\ IF persistChanged
       THEN /\ writeQueue' = EnqueueOp(writeQueue, "write", w)
            /\ IF RunningDrainLoop(writeQueue)
               THEN UNCHANGED <<persistChanged, snapshot>>
               ELSE WriteStarts
            /\ onPersistSaved' = promise
       ELSE /\ onPersistSaved' = Resolved(promise)
            /\ UNCHANGED <<writeQueue, persistChanged, snapshot>>

(* Faulty variant of SavePersistThrottled: inside the window nothing is     *)
(* scheduled, as if a save were pending already.                            *)
SavePersistThrottledDrops(promise) ==
    /\ UNCHANGED pendingSaveTimeout
    /\ IF inThrottleWindow
       THEN /\ onPersistSaved' = promise
            /\ UNCHANGED <<persistChanged, inThrottleWindow, writeQueue, snapshot>>
       ELSE SavePersistInner(Unawaited, promise)

(* #savePersistThrottled() *)
SavePersistThrottled(promise) ==
    IF inThrottleWindow
    THEN /\ pendingSaveTimeout' = IF pendingSaveTimeout = "undefined"
                                  THEN "armed" ELSE pendingSaveTimeout
         /\ onPersistSaved' = promise
         /\ UNCHANGED <<persistChanged, inThrottleWindow, writeQueue, snapshot>>
    ELSE /\ SavePersistInner(Unawaited, promise)
         /\ UNCHANGED pendingSaveTimeout

(* stateSaveInterval has passed since #lastSaveTime. *)
WindowElapses ==
    /\ inThrottleWindow
    /\ inThrottleWindow' = FALSE
    /\ UNCHANGED <<phase, mem, storage, persistChanged, pendingSaveTimeout,
                   onPersistSaved, writeQueue, snapshot, unawaitedResumes,
                   pc, stop, hist>>

(* The timer of #savePersistThrottled. *)
SaveTimeoutFires ==
    /\ pendingSaveTimeout = "armed"
    /\ UNCHANGED mem
    /\ pendingSaveTimeout' = "undefined"
    /\ SavePersistInner(Unawaited, onPersistSaved)
    /\ UNCHANGED <<phase, storage, unawaitedResumes, pc, stop, hist>>

(* writePersistedData settles.  The awaiters of the cycle are resolved, and *)
(* a queued write starts at once with a snapshot of its own.                *)
WriteSettles(ok) ==
    \E l \in writeQueue.loops :
        /\ ok \/ WritesMayFail
        /\ UNCHANGED mem
        /\ durable' = IF ok THEN [init |-> TRUE, state |-> snapshot.state,
                                  aux |-> snapshot.aux]
                      ELSE durable
        /\ overwritten' = (overwritten /\ ~ok)
        /\ rejected' = IF ~ok /\ snapshot.state > rejected THEN snapshot.state
                       ELSE rejected
        /\ writeQueue' = SettleOp(writeQueue, l)
        /\ IF writeQueue.queuedOp # {} THEN WriteStarts
           ELSE UNCHANGED <<persistChanged, snapshot>>
        /\ pc' = [r \in Requests |->
                    IF r \notin l.cycle THEN pc[r]
                    ELSE IF pc[r] = "wsSaving" THEN "wsSaved" ELSE "saved"]
        /\ unawaitedResumes' = (unawaitedResumes \/ Unawaited \in l.cycle)
        /\ stop' = IF Stopper \in l.cycle THEN "flushed"
                   ELSE IF stop = "draining" /\ ~RunningDrainLoop(writeQueue')
                   THEN "done" ELSE stop
        /\ UNCHANGED <<phase, inThrottleWindow, pendingSaveTimeout,
                       onPersistSaved, need, acked, answered, flushTarget,
                       crashes, leftover>>

(* The rest of #savePersistInner for a call nobody awaits. *)
UnawaitedSaveResumes ==
    /\ unawaitedResumes
    /\ unawaitedResumes' = FALSE
    /\ onPersistSaved' = Resolved(onPersistSaved)
    /\ UNCHANGED <<phase, mem, storage, persistChanged, inThrottleWindow,
                   pendingSaveTimeout, writeQueue, snapshot, pc, stop, hist>>

-----------------------------------------------------------------------------
(* start()                                                                  *)

(* #initialize without hasInitiated: createState, then the first write. *)
StartNew ==
    /\ phase = "down" /\ ~durable.init
    /\ phase' = "initWrite"
    /\ state' = 1 /\ aux' = 0
    /\ UNCHANGED <<storage, saves, pc, stop, hist>>

(* That write settles: onCreate is called, or start() rejects. *)
InitWriteSettles(ok) ==
    /\ phase = "initWrite"
    /\ ok \/ WritesMayFail
    /\ IF ok
       THEN /\ durable' = [init |-> TRUE, state |-> state, aux |-> aux]
            /\ phase' = "creating"
       ELSE /\ phase' = "wedged"
            /\ UNCHANGED durable
    /\ UNCHANGED <<mem, overwritten, leftover, saves, pc, stop, need, acked,
                   answered, flushTarget, rejected, crashes>>

(* Faulty variant of StartRestored: the stored data is not read (what a     *)
(* driver does whose handler starts with empty persisted data).             *)
StartRestoredEmpty ==
    /\ phase = "down" /\ durable.init
    /\ phase' = "starting"
    /\ state' = 0 /\ aux' = 0
    /\ UNCHANGED <<storage, saves, pc, stop, hist>>

(* #initialize with hasInitiated: the stored data is restored, as it was    *)
(* when the driver loaded its entry.  What earlier instances lost is not    *)
(* asked of this one.                                                       *)
StartRestored ==
    /\ phase = "down" /\ durable.init
    /\ phase' = "starting"
    /\ state' = durable.state /\ aux' = durable.aux
    /\ overwritten' = FALSE /\ rejected' = 0
    /\ acked' = IF acked <= durable.state /\ ~overwritten THEN acked ELSE 0
    /\ UNCHANGED <<durable, leftover, saves, pc, stop, need, answered,
                   flushTarget, crashes>>

(* onCreate returns; createVars, onStart and the migrations come next. *)
OnCreateReturns ==
    /\ phase = "creating"
    /\ phase' = "starting"
    /\ UNCHANGED <<mem, storage, saves, pc, stop, hist>>

(* The last await of start() before #ready = true. *)
StartReturns ==
    /\ phase = "starting"
    /\ phase' = "ready"
    /\ UNCHANGED <<mem, storage, saves, pc, stop, hist>>

(* A hook of start() throws: the instance never becomes ready. *)
StartFails ==
    /\ phase \in {"creating", "starting"}
    /\ phase' = "wedged"
    /\ UNCHANGED <<mem, storage, saves, pc, stop, hist>>

-----------------------------------------------------------------------------
(* Changes of #persist.                                                     *)

(* The on-change listener of #setPersist for a path under "state". *)
StateChanges ==
    /\ state < MaxVersion
    /\ state' = state + 1
    /\ persistChanged' = TRUE
    /\ UNCHANGED aux

(* Code that no save follows changes the state: onCreate, onStart, onStop,  *)
(* a scheduled event, a websocket or waitUntil callback, or an action that  *)
(* goes on after its deadline.                                              *)
DetachedChange ==
    /\ phase \in {"creating", "starting", "ready"}
    /\ StateChanges
    /\ UNCHANGED <<phase, storage, inThrottleWindow, pendingSaveTimeout,
                   onPersistSaved, writeQueue, snapshot, unawaitedResumes,
                   pc, stop, hist>>

(* A field other than state changes, which does not set the flag: createConn *)
(* and __removeConn, #addSubscription and #removeSubscription, which call    *)
(* saveState({ immediate: true }) without awaiting it (andSave; it rejects   *)
(* while stopping, except for __removeConn), and #scheduleEventInner and     *)
(* _onAlarm, which do not.                                                   *)
AuxChange(andSave) ==
    /\ phase = "ready"
    /\ aux < MaxAux
    /\ aux' = aux + 1 /\ UNCHANGED state
    /\ IF andSave /\ persistChanged THEN SavePersistInner(Unawaited, onPersistSaved)
       ELSE UNCHANGED <<persistChanged, inThrottleWindow, onPersistSaved,
                        writeQueue, snapshot>>
    /\ UNCHANGED <<phase, storage, pendingSaveTimeout, unawaitedResumes,
                   pc, stop, hist>>

-----------------------------------------------------------------------------
(* Requests: executeAction and handleFetch; handleWebSocket.                *)

InBody(r) == pc[r] \in {"action", "returned"}

(* executeAction only asks for #ready, so an action of an open connection   *)
(* may begin while the instance stops.                                      *)
BeginAction(r) ==
    /\ phase = "ready"
    /\ pc[r] = "idle"
    /\ pc' = [pc EXCEPT ![r] = "action"]
    /\ UNCHANGED <<phase, mem, storage, saves, stop, hist>>

RequestChangesState(r) ==
    /\ InBody(r) \/ pc[r] \in {"wsClean", "wsDirty"}
    /\ StateChanges
    /\ pc' = [pc EXCEPT ![r] = IF @ = "returned" THEN "action" ELSE @]
    /\ need' = [need EXCEPT ![r] = 0]
    /\ UNCHANGED <<phase, storage, inThrottleWindow, pendingSaveTimeout,
                   onPersistSaved, writeQueue, snapshot, unawaitedResumes,
                   stop, acked, answered, flushTarget, rejected,
                   crashes>>

(* User code calls saveState({ immediate: true }). *)
SaveStateImmediate(r) ==
    /\ InBody(r) /\ AssertReady
    /\ UNCHANGED mem
    /\ need' = [need EXCEPT ![r] = state]
    /\ \/ /\ persistChanged
          /\ SavePersistInner(r, onPersistSaved)
          /\ pc' = [pc EXCEPT ![r] = "saving"]
       \/ /\ ~persistChanged
          /\ pc' = [pc EXCEPT ![r] = "returned"]
          /\ UNCHANGED <<persistChanged, inThrottleWindow, onPersistSaved,
                         writeQueue, snapshot>>
    /\ UNCHANGED <<phase, storage, pendingSaveTimeout, unawaitedResumes,
                   stop, acked, answered, flushTarget, rejected,
                   crashes>>

(* Its cycle is over: the rest of #savePersistInner, and saveState returns. *)
SaveStateReturns(r) ==
    /\ pc[r] = "saved"
    /\ pc' = [pc EXCEPT ![r] = "returned"]
    /\ acked' = IF need[r] > acked THEN need[r] ELSE acked
    /\ onPersistSaved' = Resolved(onPersistSaved)
    /\ UNCHANGED <<phase, mem, storage, persistChanged, inThrottleWindow,
                   pendingSaveTimeout, writeQueue, snapshot,
                   unawaitedResumes, stop, need, answered, flushTarget,
                   rejected, crashes>>

(* User code calls saveState({ immediate: false }): the promise is created  *)
(* on first use and never replaced.                                         *)
SaveStateThrottled(r) ==
    /\ InBody(r) /\ AssertReady
    /\ UNCHANGED mem
    /\ persistChanged
    /\ need' = [need EXCEPT ![r] = state]
    /\ pc' = [pc EXCEPT ![r] = "awaiting"]
    /\ SavePersistThrottled(IF onPersistSaved = "undefined" THEN "pending"
                            ELSE onPersistSaved)
    /\ UNCHANGED <<phase, storage, unawaitedResumes, stop, acked,
                   answered, flushTarget, rejected, crashes>>

PersistSavedPromiseReturns(r) ==
    /\ pc[r] = "awaiting"
    /\ onPersistSaved = "resolved"
    /\ pc' = [pc EXCEPT ![r] = "returned"]
    /\ UNCHANGED <<phase, mem, storage, saves, stop, hist>>

(* The finally block of executeAction (and of handleFetch). *)
ActionEnds(r) ==
    /\ InBody(r)
    /\ UNCHANGED mem
    /\ SavePersistThrottled(onPersistSaved)
    /\ pc' = [pc EXCEPT ![r] = "idle"]
    /\ need' = [need EXCEPT ![r] = 0]
    /\ answered' = state
    /\ UNCHANGED <<phase, storage, unawaitedResumes, stop, acked,
                   flushTarget, rejected, crashes>>

(* handleWebSocket remembers whether the state was dirty before its hook. *)
BeginWebSocket(r) ==
    /\ AssertReady
    /\ pc[r] = "idle"
    /\ pc' = [pc EXCEPT ![r] = IF persistChanged THEN "wsDirty" ELSE "wsClean"]
    /\ UNCHANGED <<phase, mem, storage, saves, stop, hist>>

(* onWebSocket returns: saved at once if the hook made the state dirty,     *)
(* unless the instance is stopping, when saveState throws.                  *)
WebSocketHandlerReturns(r) ==
    /\ pc[r] \in {"wsClean", "wsDirty"}
    /\ UNCHANGED mem
    /\ IF pc[r] = "wsClean" /\ persistChanged /\ AssertReady
       THEN /\ SavePersistInner(r, onPersistSaved)
            /\ need' = [need EXCEPT ![r] = state]
            /\ pc' = [pc EXCEPT ![r] = "wsSaving"]
            /\ UNCHANGED pendingSaveTimeout
       ELSE /\ SavePersistThrottled(onPersistSaved)
            /\ pc' = [pc EXCEPT ![r] = "idle"]
            /\ UNCHANGED need
    /\ UNCHANGED <<phase, storage, unawaitedResumes, stop, acked,
                   answered, flushTarget, rejected, crashes>>

(* The save is over: the rest of #savePersistInner and the finally block. *)
WebSocketEnds(r) ==
    /\ pc[r] = "wsSaved"
    /\ UNCHANGED mem
    /\ pc' = [pc EXCEPT ![r] = "idle"]
    /\ acked' = IF need[r] > acked THEN need[r] ELSE acked
    /\ need' = [need EXCEPT ![r] = 0]
    /\ SavePersistThrottled(Resolved(onPersistSaved))
    /\ UNCHANGED <<phase, storage, unawaitedResumes, stop, answered,
                   flushTarget, rejected, crashes>>

-----------------------------------------------------------------------------
(* _sleep and _stop.                                                        *)

(* _sleep: from here on #assertReady throws; the driver calls _stop later. *)
SleepCalled ==
    /\ MayStop
    /\ phase = "ready" /\ stop = "no"
    /\ stop' = "sleepCalled"
    /\ UNCHANGED <<phase, mem, storage, saves, pc, hist>>

(* The driver calls _stop: onStop, the disconnects and waitUntil come next. *)
StopCalled ==
    /\ MayStop
    /\ phase = "ready" /\ stop \in {"no", "sleepCalled"}
    /\ stop' = "hooks"
    /\ UNCHANGED <<phase, mem, storage, saves, pc, hist>>

(* Faulty variant of StopFlushes: nothing is saved, only the queue drains. *)
StopFlushesNothing ==
    /\ stop = "hooks"
    /\ pendingSaveTimeout' = IF pendingSaveTimeout = "armed" THEN "cleared"
                             ELSE pendingSaveTimeout
    /\ flushTarget' = [state |-> state, aux |-> aux]
    /\ stop' = "closing"
    /\ UNCHANGED <<phase, mem, storage, persistChanged, inThrottleWindow,
                   onPersistSaved, writeQueue, snapshot, unawaitedResumes,
                   pc, need, acked, answered, rejected, crashes>>

(* The hooks are over or timed out: the timers are cleared (the handle is   *)
(* kept) and saveState({ immediate, allowStoppingState }) is called.        *)
StopFlushes ==
    /\ stop = "hooks"
    /\ UNCHANGED mem
    /\ pendingSaveTimeout' = IF pendingSaveTimeout = "armed" THEN "cleared"
                             ELSE pendingSaveTimeout
    /\ flushTarget' = [state |-> state, aux |-> aux]
    /\ IF persistChanged
       THEN /\ SavePersistInner(Stopper, onPersistSaved)
            /\ stop' = "flushing"
       ELSE /\ stop' = "closing"
            /\ UNCHANGED <<persistChanged, inThrottleWindow, onPersistSaved,
                           writeQueue, snapshot>>
    /\ UNCHANGED <<phase, storage, unawaitedResumes, pc, need, acked,
                   answered, rejected, crashes>>

StopFlushReturns ==
    /\ stop = "flushed"
    /\ stop' = "closing"
    /\ onPersistSaved' = Resolved(onPersistSaved)
    /\ UNCHANGED <<phase, mem, storage, persistChanged, inThrottleWindow,
                   pendingSaveTimeout, writeQueue, snapshot,
                   unawaitedResumes, pc, hist>>

(* Faulty variant of StopDrains: the running write is not awaited. *)
StopDoesNotDrain ==
    /\ stop = "closing"
    /\ stop' = "done"
    /\ UNCHANGED <<phase, mem, storage, saves, pc, hist>>

(* The connections are closed or timed out: the drain loop is awaited. *)
StopDrains ==
    /\ stop = "closing"
    /\ stop' = IF RunningDrainLoop(writeQueue) THEN "draining" ELSE "done"
    /\ UNCHANGED <<phase, mem, storage, saves, pc, hist>>

(* Everything the instance holds in memory is gone. *)
InstanceGone ==
    /\ phase' = "down"
    /\ state' = 0 /\ aux' = 0
    /\ persistChanged' = FALSE
    /\ inThrottleWindow' = FALSE
    /\ pendingSaveTimeout' = "undefined"
    /\ onPersistSaved' = "undefined"
    /\ writeQueue' = EmptyQueue
    /\ snapshot' = [state |-> 0, aux |-> 0]
    /\ unawaitedResumes' = FALSE
    /\ pc' = [r \in Requests |-> "idle"]
    /\ stop' = "no"
    /\ need' = [r \in Requests |-> 0]
    /\ answered' = 0 /\ flushTarget' = [state |-> 0, aux |-> 0]
    /\ UNCHANGED <<acked, rejected>>

(* The driver drops its entry as soon as _stop has returned.  Requests,     *)
(* timers and connections that did not close in time may go on with the     *)
(* old instance: `leftover` is the oldest data it may still write.          *)
Released ==
    /\ stop = "done"
    /\ InstanceGone
    /\ \/ /\ \A r \in Requests : pc[r] = "idle"
          /\ ~RunningDrainLoop(writeQueue) /\ pendingSaveTimeout # "armed"
          /\ UNCHANGED leftover
       \/ /\ Cardinality(leftover) < MaxLeftover
          /\ leftover' = leftover \union
                            {IF RunningDrainLoop(writeQueue) THEN snapshot
                             ELSE [state |-> state, aux |-> aux]}
    /\ UNCHANGED <<durable, overwritten, crashes>>

(* Code of a dropped instance changes the state, or its next write has      *)
(* newer data than the one that was under way.                              *)
LateChange ==
    /\ \E d \in leftover :
          /\ d.state < MaxVersion
          /\ leftover' = (leftover \ {d}) \union {[state |-> d.state + 1, aux |-> d.aux]}
    /\ UNCHANGED <<phase, mem, durable, overwritten, saves, pc, stop, hist>>

(* A write of a dropped instance: writePersistedData finds the actor's      *)
(* entry by its id, whichever instance it belongs to by then.               *)
LateWrite ==
    /\ \E d \in leftover :
          durable' = [init |-> TRUE, state |-> d.state, aux |-> d.aux]
    /\ overwritten' = TRUE
    /\ UNCHANGED <<phase, mem, leftover, saves, pc, stop, hist>>

(* The process dies.  A write under way has been applied or has not: the    *)
(* drivers replace the stored data atomically.                              *)
Crash ==
    /\ crashes < MaxCrashes
    /\ phase # "down" \/ leftover # {}
    /\ crashes' = crashes + 1
    /\ InstanceGone
    /\ leftover' = {}
    /\ \/ UNCHANGED <<durable, overwritten>>
       \/ /\ phase = "initWrite"
          /\ durable' = [init |-> TRUE, state |-> state, aux |-> aux]
          /\ overwritten' = FALSE
       \/ /\ RunningDrainLoop(writeQueue)
          /\ durable' = [init |-> TRUE, state |-> snapshot.state,
                         aux |-> snapshot.aux]
          /\ overwritten' = FALSE

-----------------------------------------------------------------------------
RequestStep(r) ==
    \/ BeginAction(r)
    \/ RequestChangesState(r)
    \/ SaveStateImmediate(r)
    \/ SaveStateReturns(r)
    \/ SaveStateThrottled(r)
    \/ PersistSavedPromiseReturns(r)
    \/ ActionEnds(r)
    \/ BeginWebSocket(r)
    \/ WebSocketHandlerReturns(r)
    \/ WebSocketEnds(r)

Next ==
    \/ StartNew
    \/ \E ok \in BOOLEAN : InitWriteSettles(ok)
    \/ StartRestored
    \/ OnCreateReturns
    \/ StartReturns
    \/ StartFails
    \/ DetachedChange
    \/ \E andSave \in BOOLEAN : AuxChange(andSave)
    \/ \E r \in Requests : RequestStep(r)
    \/ WindowElapses
    \/ SaveTimeoutFires
    \/ \E ok \in BOOLEAN : WriteSettles(ok)
    \/ UnawaitedSaveResumes
    \/ SleepCalled
    \/ StopCalled
    \/ StopFlushes
    \/ StopFlushReturns
    \/ StopDrains
    \/ Released
    \/ LateChange
    \/ LateWrite
    \/ Crash

(* Writes settle, timers fire and the hooks of start() return; _stop moves  *)
(* on, since onStop, waitUntil and the closing of connections all have      *)
(* deadlines.  Nothing makes clients, actions or the driver do anything.    *)
Fairness ==
    /\ WF_vars(\E ok \in BOOLEAN : InitWriteSettles(ok))
    /\ WF_vars(OnCreateReturns)
    /\ WF_vars(StartReturns)
    /\ WF_vars(\E ok \in BOOLEAN : WriteSettles(ok))
    /\ WF_vars(SaveTimeoutFires)
    /\ WF_vars(StopFlushes)
    /\ WF_vars(StopFlushReturns)
    /\ WF_vars(StopDrains)

Spec == Init /\ [][Next]_vars /\ Fairness

-----------------------------------------------------------------------------
(* The variables hold values of their types. *)
TypeOK ==
    /\ phase \in Phases
    /\ state \in Nat /\ aux \in Nat
    /\ durable \in [init : BOOLEAN, state : Nat, aux : Nat]
    /\ persistChanged \in BOOLEAN
    /\ inThrottleWindow \in BOOLEAN
    /\ pendingSaveTimeout \in {"undefined", "armed", "cleared"}
    /\ onPersistSaved \in {"undefined", "pending", "resolved"}
    /\ writeQueue \in Queues({"write"}, Waiters)
    /\ snapshot \in [state : Nat, aux : Nat]
    /\ unawaitedResumes \in BOOLEAN
    /\ pc \in [Requests -> PCs]
    /\ stop \in Stops
    /\ need \in [Requests -> Nat]
    /\ acked \in Nat /\ answered \in Nat /\ flushTarget \in [state : Nat, aux : Nat]
    /\ rejected \in Nat /\ overwritten \in BOOLEAN
    /\ leftover \subseteq [state : Nat, aux : Nat]
    /\ crashes \in Nat

(* An instance never calls writePersistedData while an earlier call of its  *)
(* own is under way, the first write of #initialize included: what          *)
(* actor/driver.ts promises the drivers.  (A dropped instance's write may   *)
(* overlap with one of the next.)                                           *)
NoOverlappingWrites ==
    /\ \A l1, l2 \in writeQueue.loops : l1 = l2
    /\ phase = "initWrite" => writeQueue.loops = {}

(* A write that carried version v was rejected. *)
Lost(v) == v <= rejected

(* Once saveState({ immediate: true }) has awaited its cycle, the version   *)
(* it was called for is stored, and stays stored through later writes,      *)
(* stops, crashes and restarts, unless the driver rejected a write that     *)
(* carried it (the queue swallows that) or an instance that the driver had  *)
(* already dropped wrote its old data over it.                              *)
AckedSavesAreDurable == acked <= durable.state \/ Lost(acked) \/ overwritten

(* When _stop returns, everything that had changed by the time it flushed   *)
(* is stored, also when another request's write was already under way and   *)
(* saveState found nothing to do, with the same two exceptions.             *)
StopFlushesState ==
    stop = "done" =>
        \/ flushTarget.state <= durable.state
        \/ Lost(flushTarget.state)
        \/ overwritten

(* Storage goes back to an older version only by the write of an instance   *)
(* that its driver has dropped, or by the next write of the running one     *)
(* after it: never by the writes of one instance, a crash or a restart.     *)
DurableNeverRegresses ==
    [][durable'.state < durable.state => overwritten \/ overwritten']_vars

(* _stop has called saveState, which fixes what it stores. *)
Flushed == stop \in {"flushing", "flushed", "closing", "draining", "done"}

(* A state change made before an action returned is stored in the end,      *)
(* whatever other saves, throttling, rejected writes of older versions and  *)
(* a stop do in between.  The exceptions: a rejected write carried it, the  *)
(* process died, a dropped instance wrote over it, or it was made after     *)
(* _stop had flushed, when the throttled save finds the cleared handle.     *)
ActionChangesReachStorage ==
    \A v \in 1 .. MaxVersion :
        (answered = v) ~> \/ durable.state >= v
                          \/ Lost(v)
                          \/ crashes > 0
                          \/ overwritten
                          \/ Flushed /\ v > flushTarget.state

-----------------------------------------------------------------------------
(* The inductive invariant behind these properties.                         *)

Live == phase \in {"creating", "starting", "ready"}

InCycle(w) == \E l \in writeQueue.loops : w \in l.cycle

(* One drain loop at most, an idle queue is empty, nobody waits for a write *)
(* that is not queued, and only a ready instance saves, serves requests,    *)
(* arms the timer or stops.                                                 *)
QueueInv ==
    /\ \A l1, l2 \in writeQueue.loops : l1 = l2
    /\ writeQueue.loops = {} => writeQueue = EmptyQueue
    /\ writeQueue.queuedOp = {} => writeQueue.pending = {}
    /\ phase # "ready" =>
          /\ writeQueue.loops = {}
          /\ stop = "no"
          /\ pendingSaveTimeout = "undefined"
          /\ \A r \in Requests : pc[r] = "idle"

(* Whoever waits for a cycle is where that wait is awaited, and waits for   *)
(* one cycle only.                                                          *)
WaitInv ==
    /\ \A r \in Requests :
          /\ (r \in writeQueue.pending \/ InCycle(r)) => pc[r] \in {"saving", "wsSaving"}
          /\ ~(r \in writeQueue.pending /\ InCycle(r))
    /\ ~(Stopper \in writeQueue.pending /\ InCycle(Stopper))
    /\ (Stopper \in writeQueue.pending \/ InCycle(Stopper)) => stop = "flushing"

(* Unless a dropped instance has written, storage, the running write and    *)
(* memory are in order, and while the flag is down the newest of the former *)
(* two is what memory holds.                                                *)
VersionInv ==
    /\ ~durable.init => durable.state = 0 /\ leftover = {} /\ ~overwritten
    /\ phase = "initWrite" => ~durable.init
    /\ Live => durable.init /\ (overwritten \/ durable.state <= state)
    /\ writeQueue.loops # {} =>
          /\ overwritten \/ durable.state <= snapshot.state
          /\ snapshot.state <= state
    /\ (Live /\ ~persistChanged) =>
          IF writeQueue.loops # {} THEN state = snapshot.state
          ELSE state <= durable.state \/ Lost(state) \/ overwritten

(* The version target of awaiter w is covered by the write it waits for. *)
Covered(w, target) ==
    /\ InCycle(w) => target <= snapshot.state
    /\ w \in writeQueue.pending => target <= state

(* Version v is wherever this instance and its storage keep the newest. *)
Kept(v) ==
    \/ Lost(v)
    \/ /\ Live => v <= state
       /\ writeQueue.loops # {} => v <= snapshot.state
       /\ v <= durable.state \/ overwritten

CoverInv ==
    /\ \A r \in Requests : Covered(r, need[r])
    /\ Covered(Stopper, flushTarget.state)
    /\ Kept(acked)
    /\ \A r \in Requests : pc[r] \in {"saved", "wsSaved"} => Kept(need[r])
    /\ stop \in {"flushed", "done"} => Kept(flushTarget.state)
    /\ stop \in {"closing", "draining"} =>
          \/ Kept(flushTarget.state)
          \/ writeQueue.loops # {} /\ flushTarget.state <= snapshot.state

PersistInv == QueueInv /\ WaitInv /\ VersionInv /\ CoverInv

-----------------------------------------------------------------------------
(* What the comments, the documentation and the tests say and the code does *)
(* not do.  Each of these is violated.                                      *)

(* SaveStateOptions.immediate: "This function will return when the state    *)
(* has saved successfully."  saveState returns at once when the flag has    *)
(* been cleared by a write that is still running.                           *)
SaveStateMeansSaved ==
    \A r \in Requests :
        (pc[r] = "returned" /\ rejected = 0) => need[r] <= durable.state

(* The same: a saved state is the one a restart finds.  An action that the  *)
(* stop did not wait for saves the data of the dropped instance over it.    *)
SavesStaySaved == acked <= durable.state \/ rejected # 0

(* PersistedActor: "State object that gets automatically persisted to       *)
(* storage", and createConn: "Add to persistence & save immediately".  A    *)
(* stop stores changes of connections, subscriptions and scheduled events   *)
(* only if the state happens to be dirty too.                               *)
StopFlushesEverything ==
    (stop = "done" /\ rejected = 0) => flushTarget.aux <= durable.aux

(* The same of the state: what an action that outlives the flush of _stop   *)
(* changes may never be stored.                                             *)
LateActionsAreStored ==
    \A v \in 1 .. MaxVersion :
        (answered = v) ~> durable.state >= v \/ rejected # 0 \/ crashes > 0

=============================================================================
