-------------------------- MODULE FileSystemDriver --------------------------
(***************************************************************************)
(* The entries of the file-system driver for one actor identifier: lookup, *)
(* creation, loading, starting, sleeping, and the writes of its state file *)
(* (global-state.ts), as requests and instances use them through           *)
(* manager.ts and actor.ts of the driver.                                  *)
(*                                                                         *)
(* An entry is created at most once per generation: the map holds one      *)
(* until sleepActor deletes it.  The state file is abstracted to whose     *)
(* data it holds: 0 no file, 1 the empty data of a creation, g + 1 what    *)
(* the instance of entry g saved.                                          *)
(***************************************************************************)
EXTENDS Naturals, FiniteSets

CONSTANTS
  FsTasks,        \* requests
  MaxEntries,     \* bound on generations of the entry
  ReadsMayFail,   \* a read may fail with another error than ENOENT
  StartsMayFail   \* start() may throw

ASSUME FsAssumption ==
  MaxEntries \in Nat \ {0} /\ ReadsMayFail \in BOOLEAN /\ StartsMayFail \in BOOLEAN

VARIABLES
  fsFile,     \* data in the state file
  fsMap,      \* the entry #actors holds, 0 for none
  fsEntries,  \* entries made so far
  fsEntry,    \* the entries
  fsSave,     \* fsSave[g]: progress of a write by the instance of entry g
  fsTask      \* the requests

fsVars == <<fsFile, fsMap, fsEntries, fsEntry, fsSave, fsTask>>

Gens == 1..MaxEntries
FsOps == {"get", "getOrCreate", "create", "start"}
Live == {"starting", "running", "asleep", "stopping"}

NewEntry == [state |-> 0, load |-> "none", start |-> "none", inst |-> "none",
             read |-> 0, saved |-> FALSE]

FsInit ==
  /\ fsFile = 0 /\ fsMap = 0 /\ fsEntries = 0
  /\ fsEntry = [g \in Gens |-> NewEntry]
  /\ fsSave = [g \in Gens |-> [pc |-> "idle", e |-> 0]]
  /\ fsTask = [t \in FsTasks |-> [op |-> "none", pc |-> "idle", e |-> 0]]

CanUpsert == fsMap # 0 \/ fsEntries < MaxEntries
Upserted == IF fsMap # 0 THEN fsMap ELSE fsEntries + 1
upsertEntry == fsMap' = Upserted /\ fsEntries' = IF fsMap # 0 THEN fsEntries ELSE fsEntries + 1

At(t, pc) == fsTask[t].pc = pc
Move(t, pc) == fsTask' = [fsTask EXCEPT ![t].pc = pc]
Entry(t) == fsEntry[fsTask[t].e]

(***************************************************************************)
(* loadActor: the caller goes on at once, waits for a read under way, or   *)
(* starts one.                                                             *)
(***************************************************************************)
loadActor(t, op) ==
  LET g == Upserted IN
  /\ CanUpsert /\ upsertEntry
  /\ fsTask' = [fsTask EXCEPT ![t] = [op |-> op, pc |-> "loading", e |-> g]]
  /\ fsEntry' = IF fsEntry[g].state = 0 /\ fsEntry[g].load = "none"
                THEN [fsEntry EXCEPT ![g].load = "pending"] ELSE fsEntry
  /\ UNCHANGED <<fsFile, fsSave>>

(* getForId, getWithKey, getOrCreateWithKey, and a call for an identifier  *)
(* the caller already has.                                                 *)
Request(t, op) == At(t, "idle") /\ op # "create" /\ loadActor(t, op)

(* The read ends.  A missing file clears the promise, another error leaves *)
(* a rejected promise in the entry.                                        *)
LoadEnds(g) ==
  /\ fsEntry[g].load = "pending"
  /\ \/ /\ fsFile # 0
        /\ fsEntry' = [fsEntry EXCEPT ![g].load = "done", ![g].state = fsFile]
     \/ /\ fsFile = 0
        /\ fsEntry' = [fsEntry EXCEPT ![g].load = "none"]
     \/ /\ ReadsMayFail /\ fsFile # 0
        /\ fsEntry' = [fsEntry EXCEPT ![g].load = "rejected"]
  /\ UNCHANGED <<fsFile, fsMap, fsEntries, fsSave, fsTask>>

Loaded(t) == At(t, "loading") /\ (Entry(t).state # 0 \/ Entry(t).load # "pending")
LoadFailed(t) == Entry(t).state = 0 /\ Entry(t).load = "rejected"

(* createActor: refused when the map has an entry, even an empty one.      *)
createActor(t) ==
  /\ At(t, "idle")
  /\ IF fsMap # 0
     THEN /\ fsTask' = [fsTask EXCEPT ![t].op = "create", ![t].pc = "error"]
          /\ UNCHANGED <<fsMap, fsEntries, fsEntry>>
     ELSE /\ CanUpsert /\ upsertEntry
          /\ fsEntry' = [fsEntry EXCEPT ![Upserted].state = 1]
          /\ fsTask' = [fsTask EXCEPT ![t] = [op |-> "create", pc |-> "creating", e |-> Upserted]]
  /\ UNCHANGED <<fsFile, fsSave>>

(* loadOrCreateActor after its load: the first caller to resume sets the   *)
(* state and writes it, the others return at once.                         *)
loadOrCreateActor(t) ==
  /\ Loaded(t) /\ ~LoadFailed(t) /\ fsTask[t].op = "getOrCreate"
  /\ IF Entry(t).state = 0
     THEN /\ fsEntry' = [fsEntry EXCEPT ![fsTask[t].e].state = 1]
          /\ Move(t, "creating")
     ELSE Move(t, "resolved") /\ UNCHANGED fsEntry
  /\ UNCHANGED <<fsFile, fsMap, fsEntries, fsSave>>

(* The rename of the creation's write.                                     *)
CreationWritten(t) ==
  /\ At(t, "creating")
  /\ fsFile' = 1
  /\ Move(t, "resolved")
  /\ UNCHANGED <<fsMap, fsEntries, fsEntry, fsSave>>

getForId(t) ==
  /\ Loaded(t) /\ ~LoadFailed(t) /\ fsTask[t].op = "get"
  /\ Move(t, IF Entry(t).state = 0 THEN "error" ELSE "resolved")
  /\ UNCHANGED <<fsFile, fsMap, fsEntries, fsEntry, fsSave>>

LoadThrows(t) ==
  /\ Loaded(t) /\ LoadFailed(t)
  /\ Move(t, "error")
  /\ UNCHANGED <<fsFile, fsMap, fsEntries, fsEntry, fsSave>>

(***************************************************************************)
(* startActor, called by the endpoint with the identifier it was given.    *)
(***************************************************************************)
startActor(t) == At(t, "resolved") /\ loadActor(t, "start")

startActorLoaded(t) ==
  LET g == fsTask[t].e IN
  /\ Loaded(t) /\ ~LoadFailed(t) /\ fsTask[t].op = "start"
  /\ CASE fsEntry[g].state = 0 -> Move(t, "error") /\ UNCHANGED fsEntry
       [] fsEntry[g].state # 0 /\ fsEntry[g].start = "pending" ->
            Move(t, "joining") /\ UNCHANGED fsEntry
       [] fsEntry[g].state # 0 /\ fsEntry[g].start = "none" /\ fsEntry[g].inst # "none" ->
            Move(t, "using") /\ UNCHANGED fsEntry
       [] OTHER ->
            /\ fsEntry' = [fsEntry EXCEPT ![g].start = "pending", ![g].inst = "starting",
                                          ![g].read = fsEntry[g].state]
            /\ Move(t, "starting")
  /\ UNCHANGED <<fsFile, fsMap, fsEntries, fsSave>>

StartSucceeds(t) ==
  LET g == fsTask[t].e IN
  /\ At(t, "starting") /\ fsSave[g].pc = "idle" /\ (Entry(t).read = 1 => Entry(t).saved)
  /\ fsEntry' = [fsEntry EXCEPT ![g].start = "none", ![g].inst = "running",
                                ![g].saved = FALSE]
  /\ Move(t, "using")
  /\ UNCHANGED <<fsFile, fsMap, fsEntries, fsSave>>

(* Faulty variant: a failed start is reported to its own caller only.      *)
StartFailsSilently(t) ==
  /\ StartsMayFail /\ At(t, "starting") /\ fsSave[fsTask[t].e].pc = "idle"
  /\ fsEntry' = [fsEntry EXCEPT ![fsTask[t].e].inst = "broken"]
  /\ Move(t, "error")
  /\ UNCHANGED <<fsFile, fsMap, fsEntries, fsSave>>

(* entry.actor is not cleared: later callers get the broken instance.      *)
StartFails(t) ==
  /\ StartsMayFail /\ At(t, "starting") /\ fsSave[fsTask[t].e].pc = "idle"
  /\ fsEntry' = [fsEntry EXCEPT ![fsTask[t].e].start = "none", ![fsTask[t].e].inst = "broken"]
  /\ Move(t, "error")
  /\ UNCHANGED <<fsFile, fsMap, fsEntries, fsSave>>

(* A caller that found the start under way.                                *)
JoinedStart(t) ==
  /\ At(t, "joining") /\ Entry(t).start = "none"
  /\ Move(t, IF Entry(t).inst = "broken" THEN "error" ELSE "using")
  /\ UNCHANGED <<fsFile, fsMap, fsEntries, fsEntry, fsSave>>

(* The request runs on the instance it was given, whatever happened to it  *)
(* meanwhile; only one that never started refuses it.                      *)
UseInstance(t) ==
  /\ At(t, "using")
  /\ Move(t, IF Entry(t).inst = "broken" THEN "error" ELSE "done")
  /\ UNCHANGED <<fsFile, fsMap, fsEntries, fsEntry, fsSave>>

(***************************************************************************)
(* writePersistedData: the instance's writes, one at a time.  The driver   *)
(* looks the entry up again, so a late write of a stopped instance makes   *)
(* and loads a new one.                                                    *)
(***************************************************************************)
(* start() saves new data once and _stop saves once, whatever else the     *)
(* requests that still use the instance make it save.                      *)
MaySave(g) ==
  LET i == fsEntry[g] IN
  \/ i.inst = "starting" /\ i.read = 1 /\ ~i.saved
  \/ i.inst = "stopping" /\ ~i.saved
  \/ i.inst \in {"running", "asleep"}
  \/ i.inst \in {"stopping", "stopped"} /\ \E t \in FsTasks : At(t, "using") /\ fsTask[t].e = g

writePersistedData(g) ==
  LET e == Upserted IN
  /\ MaySave(g) /\ fsSave[g].pc = "idle"
  /\ CanUpsert /\ upsertEntry
  /\ fsSave' = [fsSave EXCEPT ![g] = [pc |-> "loading", e |-> e]]
  /\ fsEntry' = [fsEntry EXCEPT ![g].saved = fsEntry[g].inst \in {"starting", "stopping"},
       ![e].load = IF fsEntry[e].state = 0 /\ @ = "none" THEN "pending" ELSE @]
  /\ UNCHANGED <<fsFile, fsTask>>

writeActor(g) ==
  LET e == fsEntry[fsSave[g].e] IN
  /\ fsSave[g].pc = "loading" /\ (e.state # 0 \/ e.load # "pending")
  /\ fsSave' = [fsSave EXCEPT ![g].pc = IF e.state = 0 THEN "idle" ELSE "renaming"]
  /\ UNCHANGED <<fsFile, fsMap, fsEntries, fsEntry, fsTask>>

performWrite(g) ==
  /\ fsSave[g].pc = "renaming"
  /\ fsFile' = g + 1
  /\ fsSave' = [fsSave EXCEPT ![g].pc = "idle"]
  /\ UNCHANGED <<fsMap, fsEntries, fsEntry, fsTask>>

(***************************************************************************)
(* sleepActor.                                                             *)
(***************************************************************************)
(* _sleep of a running instance: the driver is called on the next tick.    *)
Sleep(g) ==
  /\ fsEntry[g].inst = "running"
  /\ fsEntry' = [fsEntry EXCEPT ![g].inst = "asleep"]
  /\ UNCHANGED <<fsFile, fsMap, fsEntries, fsSave, fsTask>>

(* Faulty variant: the entry leaves the map before the instance stopped.   *)
sleepActorDeletesFirst(g) ==
  /\ fsEntry[g].inst = "asleep" /\ fsMap = g /\ fsEntry[g].start = "none"
  /\ fsEntry' = [fsEntry EXCEPT ![g].inst = "stopping"]
  /\ fsMap' = 0
  /\ UNCHANGED <<fsFile, fsEntries, fsSave, fsTask>>

(* Waits for the start promise, then stops the instance.                   *)
sleepActor(g) ==
  /\ fsEntry[g].inst = "asleep" /\ fsMap = g /\ fsEntry[g].start = "none"
  /\ fsEntry' = [fsEntry EXCEPT ![g].inst = "stopping"]
  /\ UNCHANGED <<fsFile, fsMap, fsEntries, fsSave, fsTask>>

(* _stop has drained the write queue; the map entry is deleted.            *)
StopEnds(g) ==
  /\ fsEntry[g].inst = "stopping" /\ fsSave[g].pc = "idle"
  /\ fsEntry' = [fsEntry EXCEPT ![g].inst = "stopped"]
  /\ fsMap' = 0
  /\ UNCHANGED <<fsFile, fsEntries, fsSave, fsTask>>

FsStep(t) ==
  \/ loadOrCreateActor(t) \/ CreationWritten(t) \/ getForId(t) \/ LoadThrows(t)
  \/ startActor(t) \/ startActorLoaded(t) \/ StartSucceeds(t) \/ StartFails(t)
  \/ JoinedStart(t) \/ UseInstance(t)

FsNext ==
  \/ \E t \in FsTasks : \/ \E op \in FsOps : Request(t, op)
                        \/ createActor(t) \/ FsStep(t)
  \/ \E g \in Gens : \/ LoadEnds(g) \/ writePersistedData(g) \/ writeActor(g)
                     \/ performWrite(g) \/ Sleep(g) \/ sleepActor(g) \/ StopEnds(g)

(* Reads, renames, starts and stops end; nothing forces an instance to     *)
(* save or to sleep.                                                       *)
FsFairness ==
  /\ \A t \in FsTasks : WF_fsVars(FsStep(t))
  /\ \A g \in Gens : /\ WF_fsVars(LoadEnds(g)) /\ WF_fsVars(writeActor(g))
                     /\ WF_fsVars(performWrite(g)) /\ WF_fsVars(sleepActor(g))
                     /\ WF_fsVars(StopEnds(g))

FsSpec == FsInit /\ [][FsNext]_fsVars /\ FsFairness

(***************************************************************************)
(* Properties.                                                             *)
(***************************************************************************)
(* No two instances of the actor are alive at once: requests, alarms and   *)
(* late writes that meet a sleeping actor find its entry until _stop is    *)
(* over (startActor, sleepActor).                                          *)
AtMostOneInstance ==
  Cardinality({g \in Gens : fsEntry[g].inst \in Live}) <= 1

(* Every request gets an instance or an error: nobody waits for a load or  *)
(* a start that ended without waking them, however starts, reads and       *)
(* sleeps fall (loadActor, startActor).  A request may be held up by the   *)
(* bound on entries only.                                                  *)
RequestsSettle ==
  \A t \in FsTasks : ~At(t, "idle") ~>
     (At(t, "done") \/ At(t, "error") \/ fsEntries = MaxEntries)
=============================================================================
