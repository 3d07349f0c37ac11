------------------------------- MODULE Drivers -------------------------------
(***************************************************************************)
(* A deployment: one of the drivers that hold an actor's entry, its data   *)
(* and its instances (chooseDefaultDriver, or the handler of the           *)
(* Cloudflare package).  The other two stay in their initial states.       *)
(***************************************************************************)
EXTENDS FileSystemDriver

CONSTANTS EnRequests, MaxGenerations, CfTasks, MaxInstances

VARIABLES
  driver,   \* the configured driver
  enRecord, enGen, enKv, enMap, enHandler, enInst, enReq,
  cfMeta, cfData, cfObject, cfCount, cfInst, cfTask

Engine == INSTANCE EngineDriver
Cloudflare == INSTANCE CloudflareDriver

engineVars == <<enRecord, enGen, enKv, enMap, enHandler, enInst, enReq>>
cloudflareVars == <<cfMeta, cfData, cfObject, cfCount, cfInst, cfTask>>
vars == <<driver, fsVars, engineVars, cloudflareVars>>

(* Actors of the engine driver when asked for or when an endpoint of an    *)
(* engine is configured, of the file system otherwise.                     *)
chooseDefaultDriver == {"engine", "file-system"}
createServer == {"cloudflare-workers"}

Init == /\ driver \in chooseDefaultDriver \cup createServer
        /\ FsInit /\ Engine!EnInit /\ Cloudflare!CfInit

Next ==
  /\ UNCHANGED driver
  /\ \/ driver = "file-system" /\ FsNext /\ UNCHANGED <<engineVars, cloudflareVars>>
     \/ driver = "engine" /\ Engine!EnNext /\ UNCHANGED <<fsVars, cloudflareVars>>
     \/ driver = "cloudflare-workers" /\ Cloudflare!CfNext
          /\ UNCHANGED <<fsVars, engineVars>>

(* A driver that is not used has nothing to do: its fair actions all need  *)
(* a request.                                                              *)
Spec == Init /\ [][Next]_vars /\ FsFairness /\ Engine!EnFairness /\ Cloudflare!CfFairness

(***************************************************************************)
(* Properties of the drivers.                                              *)
(***************************************************************************)
(* Engine: every request for the actor is answered or refused, across      *)
(* starts, stops and crashes, unless a start throws (actorStartPromise of  *)
(* runnerOnActorStart).                                                    *)
EngineRequestsSettle == Engine!EngineRequestsSettle

(* Engine: the test "actor sleep persists state" of the driver test suite, *)
(* which the driver's own test runs: an instance starts from the data the  *)
(* last one saved.                                                         *)
RestartKeepsState == Engine!RestartKeepsState

(* Cloudflare: no request that the manager let through meets an object     *)
(* that was never initialised (createActor, #loadActor).                   *)
NeverUninitialised == Cloudflare!NeverUninitialised

(* Cloudflare: every request and alarm ends, also while another reads the  *)
(* object back after an eviction (#initializedPromise), unless it waits    *)
(* for what a failed read or start has left pending.                       *)
CloudflareRequestsSettle == Cloudflare!CloudflareRequestsSettle

(* Cloudflare: the comment on writePersistedData in actor/driver.ts, that  *)
(* one call of it is made at a time.                                       *)
OneWriterAtATime == Cloudflare!OneWriterAtATime
=============================================================================
