---------------------------- MODULE EngineDriver ----------------------------
(***************************************************************************)
(* The engine driver for one actor: the manager driver's calls of the      *)
(* engine's API, and the handler map of the actor driver as the runner's   *)
(* callbacks and the requests use it.                                      *)
(*                                                                         *)
(* The engine and its runner library are external: the engine starts an    *)
(* actor that is asked for and not active, one generation at a time, may   *)
(* stop an active one whenever it likes, and sees a runner process crash.  *)
(* Persisted data is abstracted to who wrote it: 0 nobody, 1 the empty     *)
(* data made from the input, g + 1 the instance of generation g.           *)
(***************************************************************************)
EXTENDS Naturals

CONSTANTS
  EnRequests,      \* requests to the manager
  MaxGenerations   \* bound on starts of the actor

VARIABLES
  enRecord,   \* the engine's record: "absent", "asleep", "active", "stopping"
  enGen,      \* generations started
  enKv,       \* data in the engine's store
  enMap,      \* the handler #actors holds, 0 for none
  enHandler,  \* the handlers
  enInst,     \* enInst[g]: the instance of generation g
  enReq       \* the requests

enVars == <<enRecord, enGen, enKv, enMap, enHandler, enInst, enReq>>

Generations == 1..MaxGenerations

(* A handler: cached persistedData, whether actorStartPromise is pending,  *)
(* and its instance.  An instance: its state, the handler its start        *)
(* closes over, the data it read, whether it has saved since it began to   *)
(* start or stop, and whether a write is under way.                        *)
NoHandler == [data |-> 0, pending |-> FALSE, actor |-> 0]
NoInstance == [at |-> "none", h |-> 0, read |-> 0, wrote |-> FALSE, put |-> FALSE]
Gone == [NoInstance EXCEPT !.at = "stopped"]

EnInit ==
  /\ enRecord = "absent" /\ enGen = 0 /\ enKv = 0 /\ enMap = 0
  /\ enHandler = [h \in Generations |-> NoHandler]
  /\ enInst = [g \in Generations |-> NoInstance]
  /\ enReq = [r \in EnRequests |-> [pc |-> "idle", h |-> 0]]

At(r, pc) == enReq[r].pc = pc
Move(r, pc) == enReq' = [enReq EXCEPT ![r].pc = pc]
Engine == <<enRecord, enGen, enKv>>
Runner == <<enMap, enHandler, enInst>>

(***************************************************************************)
(* The manager driver.                                                     *)
(***************************************************************************)
getOrCreateWithKey(r) ==
  /\ At(r, "idle") /\ Move(r, "resolved")
  /\ enRecord' = IF enRecord = "absent" THEN "asleep" ELSE enRecord
  /\ UNCHANGED <<enGen, enKv, Runner>>

(* getForId and getWithKey: an API error other than not_found is thrown.   *)
getWithKey(r) ==
  /\ At(r, "idle")
  /\ \/ Move(r, IF enRecord = "absent" THEN "error" ELSE "resolved")
     \/ Move(r, "error")
  /\ UNCHANGED <<Engine, Runner>>

(* createActor asks getWithKey first; the API itself refuses a key that is *)
(* taken meanwhile.                                                        *)
createActor(r) ==
  /\ At(r, "idle")
  /\ Move(r, IF enRecord = "absent" THEN "creating" ELSE "error")
  /\ UNCHANGED <<Engine, Runner>>

createActorApi(r) ==
  /\ At(r, "creating")
  /\ Move(r, IF enRecord = "absent" THEN "resolved" ELSE "error")
  /\ enRecord' = IF enRecord = "absent" THEN "asleep" ELSE enRecord
  /\ UNCHANGED <<enGen, enKv, Runner>>

(* forwardHttpRequest: the engine's guard wakes the actor and passes the   *)
(* request to the runner.                                                  *)
forwardHttpRequest(r) ==
  /\ At(r, "resolved") /\ Move(r, "sent")
  /\ UNCHANGED <<Engine, Runner>>

(***************************************************************************)
(* runnerFetch and loadActorHandler.                                       *)
(***************************************************************************)
loadActorHandler(r) ==
  /\ At(r, "sent") /\ enRecord \in {"active", "stopping"}
  /\ enReq' = [enReq EXCEPT ![r] = [h |-> enMap,
       pc |-> IF enMap = 0 THEN "error"
              ELSE IF enHandler[enMap].pending THEN "waiting"
              ELSE IF enHandler[enMap].actor = 0 THEN "error" ELSE "done"]]
  /\ UNCHANGED <<Engine, Runner>>

StartAwaited(r) ==
  /\ At(r, "waiting") /\ ~enHandler[enReq[r].h].pending
  /\ Move(r, "done")
  /\ UNCHANGED <<Engine, Runner>>

(***************************************************************************)
(* runnerOnActorStart: a handler is made unless one is left, and it caches *)
(* the empty data built from the input.  start() reads in the same tick.   *)
(***************************************************************************)
(* The store is asked only when nothing is cached.                         *)
readPersistedData(handler) == IF handler.data # 0 THEN handler.data ELSE enKv

runnerOnActorStart ==
  LET g == enGen + 1
      h == IF enMap = 0 THEN g ELSE enMap
      handler == IF enMap = 0 THEN [data |-> 1, pending |-> TRUE, actor |-> 0]
                 ELSE enHandler[enMap]
      data == readPersistedData(handler)
  IN
  /\ enRecord = "asleep" /\ enGen < MaxGenerations
  /\ enRecord' = "active" /\ enGen' = g /\ enMap' = h
  /\ enHandler' = [enHandler EXCEPT ![h] = [handler EXCEPT !.actor = g, !.data = data]]
  /\ enInst' = [enInst EXCEPT ![g].at = "starting", ![g].h = h, ![g].read = data]
  /\ UNCHANGED <<enKv, enReq>>

Starting(g) == /\ enInst[g].at = "starting" /\ ~enInst[g].put
               /\ enInst[g].read = 1 => enInst[g].wrote

(* Faulty variant: from the second start on nobody is woken.               *)
StartSucceedsFirstOnly(g) ==
  /\ Starting(g)
  /\ enInst' = [enInst EXCEPT ![g].at = "running", ![g].wrote = FALSE, ![g].read = 0]
  /\ enHandler' = IF g > 1 THEN enHandler
                  ELSE [enHandler EXCEPT ![enInst[g].h].pending = FALSE]
  /\ UNCHANGED <<Engine, enMap, enReq>>

(* start() has saved once if the data was the empty one.                   *)
StartSucceeds(g) ==
  /\ Starting(g)
  /\ enInst' = [enInst EXCEPT ![g].at = "running", ![g].wrote = FALSE, ![g].read = 0]
  /\ enHandler' = [enHandler EXCEPT ![enInst[g].h].pending = FALSE]
  /\ UNCHANGED <<Engine, enMap, enReq>>

(* The callback rejects and the promise stays pending.                     *)
StartFails(g) ==
  /\ enInst[g].at = "starting" /\ ~enInst[g].put
  /\ enInst' = [enInst EXCEPT ![g].at = "broken"]
  /\ UNCHANGED <<Engine, enMap, enHandler, enReq>>

(* writePersistedData: the cache at once, the store later; refused once    *)
(* the handler is gone.                                                    *)
writePersistedData(g) ==
  /\ enInst[g].at \in {"starting", "running", "stopping"} /\ ~enInst[g].put
  /\ enInst[g].at # "running" => ~enInst[g].wrote
  /\ enMap # 0
  /\ enHandler' = [enHandler EXCEPT ![enMap].data = g + 1]
  /\ enInst' = [enInst EXCEPT ![g].put = TRUE, ![g].wrote = (@ \/ enInst[g].at # "running")]
  /\ UNCHANGED <<Engine, enMap, enReq>>

kvPut(g) ==
  /\ enInst[g].put
  /\ enKv' = g + 1
  /\ enInst' = [enInst EXCEPT ![g].put = FALSE]
  /\ UNCHANGED <<enRecord, enGen, enMap, enHandler, enReq>>

(***************************************************************************)
(* runnerOnActorStop: after a sleep of the instance or on the engine's own *)
(* account, also while the start is under way: then _stop throws, since    *)
(* the instance is not ready to save, and the handler stays.               *)
(***************************************************************************)
runnerOnActorStop ==
  LET g == enHandler[enMap].actor
      ready == enInst[g].at = "running"
  IN
  /\ enRecord = "active"
  /\ enRecord' = IF ready THEN "stopping" ELSE "asleep"
  /\ enInst' = [enInst EXCEPT ![g].at = IF ready THEN "stopping" ELSE @]
  /\ UNCHANGED <<enGen, enKv, enMap, enHandler, enReq>>

(* _stop is over, its last save drained; the handler leaves the map.       *)
StopEnds(g) ==
  /\ enInst[g].at = "stopping" /\ ~enInst[g].put /\ enInst[g].wrote
  /\ enMap' = 0 /\ enRecord' = "asleep"
  /\ enInst' = [enInst EXCEPT ![g] = Gone]
  /\ UNCHANGED <<enGen, enKv, enHandler, enReq>>

(* The runner's process dies: what the store has stays, callers get an     *)
(* error, crash_policy puts the actor to sleep.                            *)
RunnerCrashes ==
  /\ enRecord \in {"active", "stopping"}
  /\ enRecord' = "asleep" /\ enMap' = 0
  /\ enInst' = [g \in Generations |->
       IF enInst[g].at = "none" THEN enInst[g] ELSE Gone]
  /\ enReq' = [r \in EnRequests |->
       IF enReq[r].pc = "waiting" THEN [enReq[r] EXCEPT !.pc = "error"] ELSE enReq[r]]
  /\ UNCHANGED <<enGen, enKv, enHandler>>

EnRequestStep(r) ==
  createActorApi(r) \/ forwardHttpRequest(r) \/ loadActorHandler(r) \/ StartAwaited(r)

EnNext ==
  \/ \E r \in EnRequests : \/ getOrCreateWithKey(r) \/ getWithKey(r) \/ createActor(r)
                           \/ EnRequestStep(r)
  \/ \E g \in Generations : \/ StartSucceeds(g) \/ StartFails(g)
                            \/ writePersistedData(g) \/ kvPut(g) \/ StopEnds(g)
  \/ runnerOnActorStart \/ runnerOnActorStop \/ RunnerCrashes

(* The API answers, the engine starts what is asked for, starts and stops  *)
(* end; nothing forces a stop or a crash, nor a save outside start and     *)
(* stop.                                                                   *)
EnFairness ==
  /\ \A r \in EnRequests : WF_enVars(EnRequestStep(r))
  /\ \A g \in Generations :
       /\ WF_enVars(kvPut(g)) /\ WF_enVars(StartSucceeds(g)) /\ WF_enVars(StopEnds(g))
       /\ WF_enVars(enInst[g].at # "running" /\ writePersistedData(g))
  /\ WF_enVars(runnerOnActorStart)

EnSpec == EnInit /\ [][EnNext]_enVars /\ EnFairness

(***************************************************************************)
(* Properties.                                                             *)
(***************************************************************************)
(* A request for the actor is answered or refused, whatever the engine     *)
(* does: a stop or a restart that overtakes a start leaves nobody waiting  *)
(* for a promise no one will settle (loadActorHandler, runnerOnActorStart, *)
(* runnerOnActorStop).  A start that throws does leave them waiting.       *)
EngineRequestsSettle ==
  \A r \in EnRequests : ~At(r, "idle") ~>
     \/ At(r, "done") \/ At(r, "error")
     \/ \E g \in Generations : enInst[g].at = "broken"
     \/ enGen = MaxGenerations /\ enRecord = "asleep"   \* the bound

(* An instance starts from the data the last one saved: the state of an    *)
(* actor survives a sleep and a restart.                                   *)
RestartKeepsState ==
  \A g \in Generations :
    (enInst[g].at = "starting" /\ ~enInst[g].wrote) => enInst[g].read >= enKv
=============================================================================
