-------------------------- MODULE CloudflareDriver --------------------------
(***************************************************************************)
(* The Cloudflare Workers driver for one actor: the manager driver, which  *)
(* keeps the actor's metadata in a KV namespace, and the Durable Object    *)
(* with its initialisation, its actor driver and its alarm.                *)
(*                                                                         *)
(* The platform is external: it runs one object at a time, may evict it    *)
(* between any two steps, which loses its memory and fails the calls in    *)
(* it, and fires the alarm an instance set.  (Its input gates forbid some  *)
(* of the interleavings below.)  Stored data is abstracted to who wrote    *)
(* it: 0 nobody, 1 initialize, i + 1 instance i.                           *)
(***************************************************************************)
EXTENDS Naturals, FiniteSets

CONSTANTS
  CfTasks,        \* requests and alarms
  MaxInstances    \* bound on instances made

VARIABLES
  cfMeta,     \* the KV namespace has the actor's metadata
  cfData,     \* PERSIST_DATA in the object's storage
  cfObject,   \* the object: #initialized, #initializedPromise, #actor, and
              \* the instance of its actor driver
  cfCount,    \* instances made
  cfInst,     \* cfInst[i]: "none", "starting", "running", "writing", "failed", "gone"
  cfTask      \* the tasks

cfVars == <<cfMeta, cfData, cfObject, cfCount, cfInst, cfTask>>

Instances == 1..MaxInstances
CfOps == {"getForId", "getWithKey", "getOrCreateWithKey", "createActor"}
Fresh == [initialized |-> FALSE, promise |-> "none", actor |-> FALSE, main |-> 0]

CfInit ==
  /\ cfMeta = FALSE /\ cfData = 0 /\ cfCount = 0 /\ cfObject = Fresh
  /\ cfInst = [i \in Instances |-> "none"]
  /\ cfTask = [t \in CfTasks |-> [op |-> "none", pc |-> "idle", i |-> 0]]

At(t, pc) == cfTask[t].pc = pc
Move(t, pc) == cfTask' = [cfTask EXCEPT ![t].pc = pc]

(***************************************************************************)
(* The manager driver.                                                     *)
(***************************************************************************)
(* The first lookup of the metadata.                                       *)
Lookup(t, op) ==
  /\ At(t, "idle")
  /\ cfTask' = [cfTask EXCEPT ![t] = [op |-> op, i |-> 0, pc |->
       IF cfMeta THEN (IF op = "createActor" THEN "error" ELSE "found")
       ELSE CASE op \in {"getForId", "getWithKey"} -> "error"
              [] op = "getOrCreateWithKey" -> "createActor"
              [] op = "createActor" -> "initialize"]]
  /\ UNCHANGED <<cfMeta, cfData, cfObject, cfCount, cfInst>>

(* Faulty variant: the metadata is written before the object is            *)
(* initialised.                                                            *)
createActorMetadataFirst(t) ==
  /\ At(t, "createActor")
  /\ Move(t, IF cfMeta THEN "error" ELSE "initialize")
  /\ cfMeta' = TRUE
  /\ UNCHANGED <<cfData, cfObject, cfCount, cfInst>>

(* getOrCreateWithKey has found nothing; createActor looks again.          *)
createActor(t) ==
  /\ At(t, "createActor")
  /\ Move(t, IF cfMeta THEN "error" ELSE "initialize")
  /\ UNCHANGED <<cfMeta, cfData, cfObject, cfCount, cfInst>>

(* The remote call that initialises the object, whatever it holds.         *)
initialize(t) ==
  /\ At(t, "initialize")
  /\ cfData' = 1
  /\ cfObject' = [cfObject EXCEPT !.initialized = TRUE]
  /\ Move(t, "created")
  /\ UNCHANGED <<cfMeta, cfCount, cfInst>>

(* initialize returned; the metadata and the key index are written.        *)
PutMetadata(t) ==
  /\ At(t, "putMetadata")
  /\ cfMeta' = TRUE
  /\ Move(t, "found")
  /\ UNCHANGED <<cfData, cfObject, cfCount, cfInst>>

(* The request is forwarded to the object, by sendRequest, openWebSocket,  *)
(* proxyRequest or proxyWebSocket, which refuses one without an upgrade.   *)
proxyRequest(t) ==
  /\ At(t, "found")
  /\ \E pc \in {"fetch", "error"} : Move(t, pc)
  /\ UNCHANGED <<cfMeta, cfData, cfObject, cfCount, cfInst>>

(***************************************************************************)
(* The Durable Object.  A task enters it with "created" (from initialize), *)
(* "fetch" or "alarm".                                                     *)
(***************************************************************************)
Entered == {"created", "fetch", "alarm"}

AlarmFires(t) ==
  /\ At(t, "idle") /\ cfData > 1
  /\ cfTask' = [cfTask EXCEPT ![t] = [op |-> "alarm", pc |-> "alarm", i |-> 0]]
  /\ UNCHANGED <<cfMeta, cfData, cfObject, cfCount, cfInst>>

(* A driver's loadActor that has no handler: a new instance starts.        *)
CanInstantiate == cfCount < MaxInstances
Instantiate == /\ CanInstantiate /\ cfCount' = cfCount + 1
               /\ cfInst' = [cfInst EXCEPT ![cfCount + 1] = "starting"]

AfterLoad(t) == CASE cfTask[t].op = "alarm" -> "onAlarm"
                  [] At(t, "created") -> "putMetadata"
                  [] OTHER -> "route"

(* #loadActor from "Check if already loaded": the object's own driver      *)
(* starts the instance and the task waits for it.                          *)
CheckLoaded(t) ==
  CASE cfObject.actor ->
         Move(t, AfterLoad(t)) /\ UNCHANGED <<cfObject, cfCount, cfInst>>
    [] ~cfObject.actor /\ ~cfObject.initialized ->
         Move(t, "notInitialized") /\ UNCHANGED <<cfObject, cfCount, cfInst>>
    [] OTHER ->
         /\ Instantiate
         /\ cfObject' = [cfObject EXCEPT !.actor = TRUE, !.main = cfCount + 1]
         /\ cfTask' = [cfTask EXCEPT ![t].i = cfCount + 1,
              ![t].pc = IF At(t, "created") THEN "starting" ELSE "startingFetch"]

loadActor(t) ==
  /\ cfTask[t].pc \in Entered
  /\ IF cfObject.initialized THEN CheckLoaded(t)
     ELSE /\ IF cfObject.promise = "none"
             THEN Move(t, "readStorage") /\ cfObject' = [cfObject EXCEPT !.promise = "pending"]
             ELSE Move(t, "waitPromise") /\ UNCHANGED cfObject
          /\ UNCHANGED <<cfCount, cfInst>>
  /\ UNCHANGED <<cfMeta, cfData>>

(* Faulty variant: those who wait are not told.                            *)
StorageReadForgets(t) ==
  /\ At(t, "readStorage")
  /\ cfObject' = [cfObject EXCEPT !.initialized = cfData # 0]
  /\ Move(t, "checkLoaded")
  /\ UNCHANGED <<cfMeta, cfData, cfCount, cfInst>>

(* A read or a write of the object's storage fails, and the task with it.  *)
(* #initializedPromise, which nothing will resolve then, stays where it is *)
(* ("abandoned").                                                          *)
StorageFails(t) ==
  /\ cfTask[t].pc \in {"initialize", "readStorage"}
  /\ cfObject' = IF At(t, "readStorage") THEN [cfObject EXCEPT !.promise = "abandoned"]
                                         ELSE cfObject
  /\ Move(t, "error")
  /\ UNCHANGED <<cfMeta, cfData, cfCount, cfInst>>

(* The storage answered: an object that was initialised once knows it.     *)
StorageRead(t) ==
  /\ At(t, "readStorage")
  /\ cfObject' = IF cfData = 0 THEN cfObject
                 ELSE [cfObject EXCEPT !.initialized = TRUE, !.promise = "resolved"]
  /\ Move(t, "checkLoaded")
  /\ UNCHANGED <<cfMeta, cfData, cfCount, cfInst>>

PromiseResolved(t) ==
  /\ At(t, "waitPromise") /\ cfObject.promise = "resolved"
  /\ Move(t, "checkLoaded")
  /\ UNCHANGED <<cfMeta, cfData, cfObject, cfCount, cfInst>>

ResumeLoad(t) == At(t, "checkLoaded") /\ CheckLoaded(t) /\ UNCHANGED <<cfMeta, cfData>>

InstanceStarts(i) ==
  /\ cfInst[i] = "starting"
  /\ cfInst' = [cfInst EXCEPT ![i] = "running"]
  /\ UNCHANGED <<cfMeta, cfData, cfObject, cfCount, cfTask>>

(* Reading the name and the key, or actor.start, throws: the handler keeps *)
(* its place in the driver's map and its actorPromise stays pending.       *)
InstanceFails(i) ==
  /\ cfInst[i] = "starting"
  /\ cfInst' = [cfInst EXCEPT ![i] = "failed"]
  /\ UNCHANGED <<cfMeta, cfData, cfObject, cfCount, cfTask>>

(* The start a task awaits is over; an error of it fails the task.         *)
Started(t) ==
  /\ cfTask[t].pc \in {"starting", "startingFetch", "startingAlarm"}
  /\ cfInst[cfTask[t].i] \in {"running", "writing", "failed"}
  /\ Move(t, CASE cfInst[cfTask[t].i] = "failed" -> "error"
               [] At(t, "starting") -> "putMetadata"
               [] At(t, "startingFetch") -> AfterLoad(t)
               [] At(t, "startingAlarm") -> "done")
  /\ UNCHANGED <<cfMeta, cfData, cfObject, cfCount, cfInst>>

(* fetch: the actor's router asks the object's driver for the instance and *)
(* waits for one that is starting, for ever if that start failed.          *)
Route(t) ==
  /\ At(t, "route") /\ cfInst[cfObject.main] \in {"running", "writing"}
  /\ Move(t, "done")
  /\ UNCHANGED <<cfMeta, cfData, cfObject, cfCount, cfInst>>

(* alarm: builds another actor driver, whose map is empty, and has it load *)
(* the actor.                                                              *)
alarm(t) ==
  /\ At(t, "onAlarm") /\ Instantiate
  /\ cfTask' = [cfTask EXCEPT ![t].pc = "startingAlarm", ![t].i = cfCount + 1]
  /\ UNCHANGED <<cfMeta, cfData, cfObject>>

(* writePersistedData of an instance.                                      *)
writePersistedData(i) ==
  /\ cfInst[i] = "running"
  /\ cfInst' = [cfInst EXCEPT ![i] = "writing"]
  /\ UNCHANGED <<cfMeta, cfData, cfObject, cfCount, cfTask>>

WriteEnds(i) ==
  /\ cfInst[i] = "writing"
  /\ cfData' = i + 1
  /\ cfInst' = [cfInst EXCEPT ![i] = "running"]
  /\ UNCHANGED <<cfMeta, cfObject, cfCount, cfTask>>

(* The platform drops the object; the alarm is tried again later.          *)
Evict ==
  /\ cfObject # Fresh
  /\ cfObject' = Fresh
  /\ cfInst' = [i \in Instances |-> IF cfInst[i] = "none" THEN "none" ELSE "gone"]
  /\ cfTask' = [t \in CfTasks |->
       IF cfTask[t].pc \in {"idle", "done", "error", "notInitialized", "found", "fetch",
                            "alarm", "createActor", "initialize", "putMetadata"}
       THEN cfTask[t] ELSE [cfTask[t] EXCEPT !.pc = "error"]]
  /\ UNCHANGED <<cfMeta, cfData, cfCount>>

CfStep(t) ==
  \/ createActor(t) \/ initialize(t) \/ PutMetadata(t) \/ proxyRequest(t)
  \/ loadActor(t) \/ StorageRead(t) \/ StorageFails(t) \/ PromiseResolved(t) \/ ResumeLoad(t) \/ Started(t) \/ Route(t) \/ alarm(t)

CfNext ==
  \/ \E t \in CfTasks : (\E op \in CfOps : Lookup(t, op)) \/ AlarmFires(t) \/ CfStep(t)
  \/ \E i \in Instances : InstanceStarts(i) \/ InstanceFails(i) \/ writePersistedData(i) \/ WriteEnds(i)
  \/ Evict

(* Calls, reads, starts and writes end, well or not; nothing forces a      *)
(* request, a save, an alarm or an eviction.                               *)
CfFairness ==
  /\ \A t \in CfTasks : WF_cfVars(CfStep(t))
  /\ \A i \in Instances : WF_cfVars(InstanceStarts(i) \/ InstanceFails(i)) /\ WF_cfVars(WriteEnds(i))

CfSpec == CfInit /\ [][CfNext]_cfVars /\ CfFairness

(***************************************************************************)
(* Properties.                                                             *)
(***************************************************************************)
(* No request that the manager let through meets an object that was never  *)
(* initialised, across races of creations and evictions between the        *)
(* object's storage and the KV namespace (createActor, #loadActor).        *)
NeverUninitialised == \A t \in CfTasks : ~At(t, "notInitialized")

(* The two promises that a failure leaves pending: who awaits them waits   *)
(* until the platform drops the object.                                    *)
WaitsForNothing(t) ==
  \/ At(t, "waitPromise") /\ cfObject.promise = "abandoned"
  \/ At(t, "route") /\ cfInst[cfObject.main] = "failed"

(* Every request and alarm ends, also those that find the object being     *)
(* read back after an eviction by another (#loadActor), and the one whose  *)
(* own read or start failed.  Excused are those that come to wait for what *)
(* such a failure left pending, and, for the bound, a task that needs one  *)
(* more instance.                                                          *)
CloudflareRequestsSettle ==
  \A t \in CfTasks : ~At(t, "idle") ~>
     \/ At(t, "done") \/ At(t, "error") \/ WaitsForNothing(t)
     \/ ~CanInstantiate /\ cfTask[t].pc \in Entered \cup {"checkLoaded", "onAlarm"}

(* The driver interface promises that an actor's data is written by one    *)
(* call at a time: no two instances of the actor write at once.            *)
OneWriterAtATime == Cardinality({i \in Instances : cfInst[i] = "writing"}) <= 1
=============================================================================
