---------------------------- MODULE DriversProofs ----------------------------
(***************************************************************************)
(* Proofs about the drivers of a deployment, for any number of requests,   *)
(* entries and instances.  The step of one driver leaves the other two     *)
(* alone, so each invariant is proved from the next-state relation of its  *)
(* own driver.                                                             *)
(***************************************************************************)
EXTENDS Drivers, FiniteSetTheorems, TLAPS

-----------------------------------------------------------------------------
(* File-system driver.                                                     *)

Entries == [state : Nat, load : {"none", "pending", "done", "rejected"},
            start : {"none", "pending"},
            inst : Live \cup {"none", "stopped", "broken"},
            read : Nat, saved : BOOLEAN]

FsTypeOK ==
  /\ fsFile \in Nat /\ fsEntries \in 0..MaxEntries /\ fsMap \in 0..fsEntries
  /\ fsEntry \in [Gens -> Entries]
  /\ fsSave \in [Gens -> [pc : {"idle", "loading", "renaming"}, e : 0..MaxEntries]]
  /\ fsTask \in [FsTasks -> [op : FsOps \cup {"none"}, e : 0..MaxEntries,
                   pc : {"idle", "loading", "creating", "resolved", "starting",
                         "joining", "using", "done", "error"}]]

(* Whoever waits for a read, or starts an instance, has an entry that was  *)
(* made.                                                                   *)
TaskInv ==
  \A t \in FsTasks : At(t, "loading") \/ At(t, "starting") => fsTask[t].e \in 1..fsEntries

(* An entry leaves the map only when its instance has stopped, so one that *)
(* has a live instance, or may still get one, is the one in the map.       *)
MapInv ==
  \A g \in Gens :
    /\ g > fsEntries => fsEntry[g].inst = "none"
    /\ g <= fsEntries /\ fsEntry[g].inst \in Live \cup {"none"} => fsMap = g

(* The request that starts an instance is the only one to do so.           *)
StartInv ==
  \A t \in FsTasks : At(t, "starting") =>
    /\ fsEntry[fsTask[t].e].inst = "starting"
    /\ \A u \in FsTasks : At(u, "starting") /\ fsTask[u].e = fsTask[t].e => u = t

FsInv == TaskInv /\ MapInv /\ StartInv

(* What a step does to the entries: it keeps every instance, or gives entry *)
(* g's the state i.                                                        *)
InstKept == /\ fsEntry' \in [Gens -> Entries]
            /\ \A h \in Gens : fsEntry'[h].inst = fsEntry[h].inst
InstSet(g, i) == /\ fsEntry' \in [Gens -> Entries]
                 /\ \A h \in Gens : fsEntry'[h].inst = IF h = g THEN i ELSE fsEntry[h].inst

(* The updates of an entry that the driver makes. *)
LEMMA SetLoad ==
    ASSUME fsEntry \in [Gens -> Entries], NEW g \in Gens,
           NEW load \in {"none", "pending", "done", "rejected"},
           fsEntry' = [fsEntry EXCEPT ![g].load = load]
    PROVE  InstKept
  BY DEF Entries, InstKept

LEMMA SetState ==
    ASSUME fsEntry \in [Gens -> Entries], NEW g \in Gens, NEW n \in Nat,
           fsEntry' = [fsEntry EXCEPT ![g].state = n]
    PROVE  InstKept
  BY DEF Entries, InstKept

LEMMA SetLoaded ==
    ASSUME fsEntry \in [Gens -> Entries], NEW g \in Gens, NEW n \in Nat,
           fsEntry' = [fsEntry EXCEPT ![g].load = "done", ![g].state = n]
    PROVE  InstKept
  BY DEF Entries, InstKept

LEMMA SetSaved ==
    ASSUME fsEntry \in [Gens -> Entries], NEW g \in Gens, NEW e \in Gens,
           NEW saved \in BOOLEAN, NEW load \in {"none", "pending", "done", "rejected"},
           fsEntry' = [fsEntry EXCEPT ![g].saved = saved, ![e].load = load]
    PROVE  InstKept
  BY DEF Entries, InstKept

LEMMA SetInst ==
    ASSUME fsEntry \in [Gens -> Entries], NEW g \in Gens, NEW i \in Live \cup {"stopped"},
           fsEntry' = [fsEntry EXCEPT ![g].inst = i]
    PROVE  InstSet(g, i)
  BY DEF Entries, Live, InstSet

LEMMA SetStarting ==
    ASSUME fsEntry \in [Gens -> Entries], NEW g \in Gens, NEW n \in Nat,
           fsEntry' = [fsEntry EXCEPT ![g].start = "pending", ![g].inst = "starting",
                                      ![g].read = n]
    PROVE  InstSet(g, "starting")
  <1>1. fsEntry'[g] \in Entries /\ fsEntry'[g].inst = "starting"
    <2> DEFINE r == fsEntry[g]
    <2>1. fsEntry'[g] = [r EXCEPT !.start = "pending", !.inst = "starting", !.read = n]
        OBVIOUS
    <2>2. r \in Entries
        OBVIOUS
    <2> HIDE DEF r
    <2> QED
        BY <2>1, <2>2 DEF Entries, Live
  <1>2. \A h \in Gens : h # g => fsEntry'[h] = fsEntry[h] /\ fsEntry[h] \in Entries
      OBVIOUS
  <1>3. fsEntry' = [h \in Gens |-> fsEntry'[h]]
      OBVIOUS
  <1> QED
      BY <1>1, <1>2, <1>3 DEF InstSet

LEMMA SetRunning ==
    ASSUME fsEntry \in [Gens -> Entries], NEW g \in Gens,
           fsEntry' = [fsEntry EXCEPT ![g].start = "none", ![g].inst = "running",
                                      ![g].saved = FALSE]
    PROVE  InstSet(g, "running")
  <1>1. fsEntry'[g] \in Entries /\ fsEntry'[g].inst = "running"
    <2> DEFINE r == fsEntry[g]
    <2>1. fsEntry'[g] = [r EXCEPT !.start = "none", !.inst = "running", !.saved = FALSE]
        OBVIOUS
    <2>2. r \in Entries
        OBVIOUS
    <2> HIDE DEF r
    <2> QED
        BY <2>1, <2>2 DEF Entries, Live
  <1>2. \A h \in Gens : h # g => fsEntry'[h] = fsEntry[h] /\ fsEntry[h] \in Entries
      OBVIOUS
  <1>3. fsEntry' = [h \in Gens |-> fsEntry'[h]]
      OBVIOUS
  <1> QED
      BY <1>1, <1>2, <1>3 DEF InstSet

LEMMA SetBroken ==
    ASSUME fsEntry \in [Gens -> Entries], NEW g \in Gens,
           fsEntry' = [fsEntry EXCEPT ![g].start = "none", ![g].inst = "broken"]
    PROVE  InstSet(g, "broken")
  BY DEF Entries, InstSet

(* A lookup finds the entry in the map, or makes one when there is none. *)
LEMMA UpsertEffect ==
    ASSUME FsTypeOK, CanUpsert, upsertEntry
    PROVE  /\ Upserted \in Gens /\ Upserted \in 1..fsEntries'
           /\ fsEntries' \in 0..MaxEntries /\ fsMap' = Upserted
           /\ \/ fsMap # 0 /\ Upserted = fsMap /\ fsEntries' = fsEntries
              \/ fsMap = 0 /\ Upserted = fsEntries + 1 /\ fsEntries' = fsEntries + 1
  BY FsAssumption DEF FsTypeOK, CanUpsert, upsertEntry, Upserted, Gens

(* What each step does to the entries. *)
LEMMA LoadEffect ==
    ASSUME FsTypeOK, NEW t \in FsTasks, NEW op \in FsOps, loadActor(t, op)
    PROVE  InstKept
  <1>1. Upserted \in Gens /\ fsEntry \in [Gens -> Entries]
      BY UpsertEffect DEF loadActor, FsTypeOK
  <1>2. CASE fsEntry' = [fsEntry EXCEPT ![Upserted].load = "pending"]
      BY <1>1, <1>2, SetLoad
  <1>3. CASE fsEntry' = fsEntry
      BY <1>1, <1>3 DEF InstKept
  <1> QED
      BY <1>2, <1>3 DEF loadActor

LEMMA CreateEffect ==
    ASSUME FsTypeOK, TaskInv, NEW t \in FsTasks,
           createActor(t) \/ loadOrCreateActor(t)
    PROVE  InstKept
  <1>1. fsEntry \in [Gens -> Entries] /\ 1..fsEntries \subseteq Gens /\ 1 \in Nat
      BY FsAssumption DEF FsTypeOK, Gens
  <1>2. CASE createActor(t) /\ fsMap = 0
    <2>1. Upserted \in Gens
        BY <1>2, UpsertEffect DEF createActor
    <2> QED
        BY <1>1, <1>2, <2>1, SetState DEF createActor
  <1>3. CASE loadOrCreateActor(t) /\ Entry(t).state = 0
    <2>1. fsTask[t].e \in Gens
        BY <1>1, <1>3 DEF loadOrCreateActor, Loaded, TaskInv
    <2> QED
        BY <1>1, <1>3, <2>1, SetState DEF loadOrCreateActor
  <1> QED
      BY <1>1, <1>2, <1>3 DEF createActor, loadOrCreateActor, InstKept

LEMMA LoadEndsEffect ==
    ASSUME FsTypeOK, NEW g \in Gens, LoadEnds(g)
    PROVE  InstKept
  BY SetLoad, SetLoaded DEF LoadEnds, FsTypeOK

LEMMA SaveEffect ==
    ASSUME FsTypeOK, NEW g \in Gens, writePersistedData(g)
    PROVE  InstKept
  <1> DEFINE saved == fsEntry[g].inst \in {"starting", "stopping"}
             load == IF fsEntry[Upserted].state = 0 /\ fsEntry[Upserted].load = "none"
                     THEN "pending" ELSE fsEntry[Upserted].load
  <1>1. Upserted \in Gens /\ fsEntry \in [Gens -> Entries]
      BY UpsertEffect DEF writePersistedData, FsTypeOK
  <1>2. saved \in BOOLEAN /\ load \in {"none", "pending", "done", "rejected"}
      BY <1>1 DEF Entries
  <1>3. fsEntry' = [fsEntry EXCEPT ![g].saved = saved, ![Upserted].load = load]
      BY <1>1 DEF writePersistedData, Entries
  <1> HIDE DEF saved, load
  <1> QED
      BY <1>1, <1>2, <1>3, SetSaved

LEMMA StartEffect ==
    ASSUME FsTypeOK, TaskInv, NEW t \in FsTasks, startActorLoaded(t)
    PROVE  \/ InstKept /\ fsEntry' = fsEntry
              /\ \E pc \in {"error", "joining", "using"} : Move(t, pc)
           \/ fsEntry[fsTask[t].e].inst = "none" /\ InstSet(fsTask[t].e, "starting")
              /\ Move(t, "starting")
  <1> DEFINE g == fsTask[t].e
  <1>1. fsEntry \in [Gens -> Entries] /\ g \in Gens
      BY FsAssumption DEF FsTypeOK, Gens, startActorLoaded, Loaded, TaskInv
  <1>2. fsEntry[g].start \in {"none", "pending"} /\ fsEntry[g].state \in Nat
      BY <1>1 DEF Entries
  <1> DEFINE fresh == fsEntry[g].state # 0 /\ fsEntry[g].start = "none" /\ fsEntry[g].inst = "none"
  <1>3. CASE ~fresh
      BY <1>1, <1>2, <1>3 DEF startActorLoaded, InstKept
  <1>4. CASE fresh
    <2>1. /\ Move(t, "starting")
          /\ fsEntry' = [fsEntry EXCEPT ![g].start = "pending", ![g].inst = "starting",
                                        ![g].read = fsEntry[g].state]
        BY <1>4 DEF startActorLoaded
    <2> QED
        BY <1>1, <1>2, <1>4, <2>1, SetStarting
  <1> QED
      BY <1>3, <1>4

LEMMA StartEndsEffect ==
    ASSUME FsTypeOK, TaskInv, NEW t \in FsTasks, StartSucceeds(t) \/ StartFails(t)
    PROVE  \E i \in {"running", "broken"} : InstSet(fsTask[t].e, i)
  <1>1. fsEntry \in [Gens -> Entries] /\ fsTask[t].e \in Gens
      BY FsAssumption DEF FsTypeOK, Gens, StartSucceeds, StartFails, TaskInv
  <1> QED
      BY <1>1, SetRunning, SetBroken DEF StartSucceeds, StartFails

LEMMA SleepEffect ==
    ASSUME FsTypeOK, NEW g \in Gens
    PROVE  /\ Sleep(g) => InstSet(g, "asleep")
           /\ sleepActor(g) => InstSet(g, "stopping")
           /\ StopEnds(g) => InstSet(g, "stopped")
  BY SetInst DEF Sleep, sleepActor, StopEnds, FsTypeOK, Live

LEMMA FsTypeStep == FsTypeOK /\ TaskInv /\ [FsNext]_fsVars => FsTypeOK'
  <1> SUFFICES ASSUME FsTypeOK, TaskInv, [FsNext]_fsVars PROVE FsTypeOK'
      OBVIOUS
  <1>0. 0..MaxEntries \subseteq Nat /\ Gens \subseteq 0..MaxEntries
      BY FsAssumption DEF Gens
  <1>1. ASSUME NEW t \in FsTasks, NEW op \in FsOps, loadActor(t, op) PROVE FsTypeOK'
    <2>1. fsEntry' \in [Gens -> Entries]
        BY <1>1, LoadEffect DEF InstKept
    <2> QED
        BY <1>0, <1>1, <2>1, UpsertEffect DEF loadActor, FsTypeOK
  <1>2. ASSUME NEW t \in FsTasks, createActor(t) PROVE FsTypeOK'
    <2>1. fsEntry' \in [Gens -> Entries]
        BY <1>2, CreateEffect DEF InstKept
    <2>2. CASE fsMap # 0
        BY <1>2, <2>1, <2>2 DEF createActor, FsTypeOK, FsOps
    <2>3. CASE fsMap = 0
        BY <1>0, <1>2, <2>1, <2>3, UpsertEffect DEF createActor, FsTypeOK, FsOps
    <2> QED
        BY <2>2, <2>3
  <1>3. ASSUME NEW t \in FsTasks, loadOrCreateActor(t) PROVE FsTypeOK'
    <2>1. fsEntry' \in [Gens -> Entries]
        BY <1>3, CreateEffect DEF InstKept
    <2> QED
        BY <1>3, <2>1 DEF loadOrCreateActor, Move, FsTypeOK
  <1>4. ASSUME NEW t \in FsTasks,
               CreationWritten(t) \/ getForId(t) \/ LoadThrows(t) \/ JoinedStart(t) \/ UseInstance(t)
        PROVE  FsTypeOK'
      BY <1>4 DEF CreationWritten, getForId, LoadThrows, JoinedStart, UseInstance, Move, FsTypeOK
  <1>5. ASSUME NEW t \in FsTasks, startActorLoaded(t) PROVE FsTypeOK'
    <2>1. PICK pc \in {"error", "joining", "using", "starting"} :
            Move(t, pc) /\ fsEntry' \in [Gens -> Entries]
        BY <1>5, StartEffect DEF InstKept, InstSet
    <2> QED
        BY <1>5, <2>1 DEF startActorLoaded, Move, FsTypeOK
  <1>6. ASSUME NEW t \in FsTasks, StartSucceeds(t) \/ StartFails(t) PROVE FsTypeOK'
    <2>1. fsEntry' \in [Gens -> Entries]
        BY <1>6, StartEndsEffect DEF InstSet
    <2> QED
        BY <1>6, <2>1 DEF StartSucceeds, StartFails, Move, FsTypeOK
  <1>7. ASSUME NEW g \in Gens, LoadEnds(g) PROVE FsTypeOK'
      BY <1>7, LoadEndsEffect DEF InstKept, LoadEnds, FsTypeOK
  <1>8. ASSUME NEW g \in Gens, writePersistedData(g) PROVE FsTypeOK'
    <2>1. fsEntry' \in [Gens -> Entries]
        BY <1>8, SaveEffect DEF InstKept
    <2> QED
        BY <1>0, <1>8, <2>1, UpsertEffect DEF writePersistedData, FsTypeOK
  <1>9. ASSUME NEW g \in Gens, writeActor(g) \/ performWrite(g) PROVE FsTypeOK'
    <2>1. PICK pc \in {"idle", "renaming"} : fsSave' = [fsSave EXCEPT ![g].pc = pc]
        BY <1>9 DEF writeActor, performWrite
    <2>2. fsFile' \in Nat
        BY <1>0, <1>9 DEF writeActor, performWrite, FsTypeOK
    <2> QED
        BY <1>9, <2>1, <2>2 DEF writeActor, performWrite, FsTypeOK
  <1>10. ASSUME NEW g \in Gens, Sleep(g) \/ sleepActor(g) \/ StopEnds(g) PROVE FsTypeOK'
    <2>1. fsEntry' \in [Gens -> Entries]
        BY <1>10, SleepEffect DEF InstSet
    <2>2. fsMap' \in 0..fsEntries
        BY <1>10 DEF Sleep, sleepActor, StopEnds, FsTypeOK
    <2> QED
        BY <1>10, <2>1, <2>2 DEF Sleep, sleepActor, StopEnds, FsTypeOK
  <1>11. CASE UNCHANGED fsVars
      BY <1>11 DEF fsVars, FsTypeOK
  <1>12. ASSUME NEW t \in FsTasks, startActor(t) PROVE FsTypeOK'
      BY <1>1, <1>12 DEF startActor, FsOps
  <1> QED
      BY <1>1, <1>2, <1>3, <1>4, <1>5, <1>6, <1>7, <1>8, <1>9, <1>10, <1>11, <1>12
         DEF FsNext, FsStep, Request

(* A lookup that makes an entry finds none in the map, so every earlier    *)
(* instance has stopped.                                                   *)
LEMMA UpsertKeepsMapInv ==
    ASSUME FsTypeOK, MapInv, CanUpsert, upsertEntry, InstKept
    PROVE  MapInv'
  BY UpsertEffect DEF FsTypeOK, MapInv, InstKept, Gens

LEMMA FsInvStep == FsTypeOK /\ FsInv /\ [FsNext]_fsVars => FsInv'
  <1> SUFFICES ASSUME FsTypeOK, FsInv, [FsNext]_fsVars PROVE FsInv'
      OBVIOUS
  <1> USE DEF FsInv
  <1>0. /\ \A t \in FsTasks : At(t, "starting") => fsTask[t].e \in Gens
        /\ 1..fsEntries \subseteq Gens
      BY FsAssumption DEF FsTypeOK, Gens, TaskInv
  <1>1. ASSUME NEW t \in FsTasks, NEW op \in FsOps, loadActor(t, op) PROVE FsInv'
    <2>1. InstKept
        BY <1>1, LoadEffect
    <2>2. TaskInv'
        BY <1>1, UpsertEffect DEF loadActor, FsTypeOK, TaskInv, At
    <2>3. MapInv'
        BY <1>1, <2>1, UpsertKeepsMapInv DEF loadActor
    <2>4. \A u \in FsTasks : At(u, "starting")' => At(u, "starting") /\ fsTask'[u] = fsTask[u]
        BY <1>1 DEF loadActor, FsTypeOK, At
    <2>5. StartInv'
        BY <1>0, <2>1, <2>4 DEF StartInv, InstKept
    <2> QED
        BY <2>2, <2>3, <2>5
  <1>2. ASSUME NEW t \in FsTasks, createActor(t) PROVE FsInv'
    <2>1. InstKept
        BY <1>2, CreateEffect
    <2>2. \A u \in FsTasks : \A pc \in {"starting", "loading"} :
             At(u, pc)' => At(u, pc) /\ fsTask'[u] = fsTask[u]
        BY <1>2 DEF createActor, FsTypeOK, At
    <2>3. StartInv'
        BY <1>0, <2>1, <2>2 DEF StartInv, InstKept
    <2>4. CASE fsMap # 0
        BY <1>2, <2>1, <2>2, <2>3, <2>4 DEF createActor, TaskInv, MapInv, InstKept
    <2>5. CASE fsMap = 0
      <3>1. fsEntries' = fsEntries + 1 /\ fsEntries \in Nat
          BY <1>2, <2>5, UpsertEffect DEF createActor, FsTypeOK
      <3>2. TaskInv'
          BY <2>2, <3>1 DEF TaskInv
      <3> QED
          BY <1>2, <2>1, <2>3, <2>5, <3>2, UpsertKeepsMapInv DEF createActor
    <2> QED
        BY <2>4, <2>5
  <1>3. ASSUME NEW t \in FsTasks,
               NEW pc \in {"creating", "resolved", "error", "using", "done", "joining"},
               Move(t, pc), InstKept, UNCHANGED <<fsMap, fsEntries>>
        PROVE  FsInv'
    <2>1. \A u \in FsTasks : \A q \in {"starting", "loading"} :
             At(u, q)' => At(u, q) /\ fsTask'[u] = fsTask[u]
        BY <1>3 DEF Move, FsTypeOK, At
    <2> QED
        BY <1>0, <1>3, <2>1 DEF TaskInv, MapInv, StartInv, InstKept
  <1>4. ASSUME NEW t \in FsTasks,
               \/ loadOrCreateActor(t) \/ CreationWritten(t) \/ getForId(t) \/ LoadThrows(t)
               \/ JoinedStart(t) \/ UseInstance(t)
        PROVE  FsInv'
    <2>1. InstKept
        BY <1>4, CreateEffect DEF CreationWritten, getForId, LoadThrows, JoinedStart,
           UseInstance, InstKept, FsTypeOK
    <2> QED
        BY <1>3, <1>4, <2>1 DEF loadOrCreateActor, CreationWritten, getForId, LoadThrows,
           JoinedStart, UseInstance
  <1>5. ASSUME NEW t \in FsTasks, startActorLoaded(t) PROVE FsInv'
    <2> DEFINE g == fsTask[t].e
    <2>1. UNCHANGED <<fsMap, fsEntries>> /\ g \in 1..fsEntries
        BY <1>5 DEF startActorLoaded, Loaded, TaskInv
    <2>2. CASE InstKept /\ \E pc \in {"error", "joining", "using"} : Move(t, pc)
        BY <1>3, <2>1, <2>2
    <2>3. CASE fsEntry[g].inst = "none" /\ InstSet(g, "starting") /\ Move(t, "starting")
      <3>1. /\ \A u \in FsTasks : fsTask'[u].e = fsTask[u].e
            /\ \A u \in FsTasks : u # t => fsTask'[u] = fsTask[u]
            /\ At(t, "starting")' /\ ~At(t, "starting")
          BY <1>5, <2>3 DEF Move, FsTypeOK, At, startActorLoaded, Loaded
      <3>2. TaskInv'
          BY <2>1, <3>1 DEF TaskInv, At
      <3>3. MapInv'
        <4>1. fsMap = g
            BY <1>0, <2>1, <2>3 DEF MapInv, FsTypeOK
        <4> QED
            BY <1>0, <2>1, <2>3, <4>1 DEF MapInv, InstSet, FsTypeOK
      <3>4. \A u \in FsTasks : At(u, "starting") => fsTask[u].e # g
          BY <2>3 DEF StartInv
      <3>5. StartInv'
        <4> SUFFICES ASSUME NEW u \in FsTasks, At(u, "starting")'
                     PROVE  /\ fsEntry'[fsTask'[u].e].inst = "starting"
                            /\ \A v \in FsTasks :
                                 At(v, "starting")' /\ fsTask'[v].e = fsTask'[u].e => v = u
            BY DEF StartInv
        <4>1. CASE u = t
            BY <1>0, <2>1, <2>3, <3>1, <3>4, <4>1 DEF InstSet, At
        <4>2. CASE u # t
            BY <1>0, <2>1, <2>3, <3>1, <3>4, <4>2 DEF InstSet, At, StartInv
        <4> QED
            BY <4>1, <4>2
      <3> QED
          BY <3>2, <3>3, <3>5
    <2> QED
        BY <1>5, <2>2, <2>3, StartEffect
  <1>6. ASSUME NEW t \in FsTasks, StartSucceeds(t) \/ StartFails(t) PROVE FsInv'
    <2> DEFINE g == fsTask[t].e
    <2>1. PICK i \in {"running", "broken"} : InstSet(g, i)
        BY <1>6, StartEndsEffect
    <2>2. UNCHANGED <<fsMap, fsEntries>> /\ At(t, "starting")
        BY <1>6 DEF StartSucceeds, StartFails
    <2>3. g \in 1..fsEntries /\ g \in Gens /\ fsEntry[g].inst = "starting"
        BY <1>0, <2>2 DEF TaskInv, StartInv
    <2>4. \A u \in FsTasks : \A q \in {"starting", "loading"} :
             At(u, q)' => u # t /\ At(u, q) /\ fsTask'[u] = fsTask[u]
        BY <1>6 DEF StartSucceeds, StartFails, Move, FsTypeOK, At
    <2>5. TaskInv'
        BY <2>2, <2>4 DEF TaskInv
    <2>6. fsMap = g
        BY <2>3 DEF MapInv, Live, FsTypeOK
    <2>7. MapInv'
        BY <2>1, <2>2, <2>3, <2>6 DEF MapInv, InstSet, FsTypeOK
    <2>8. \A u \in FsTasks : At(u, "starting")' => fsTask[u].e # g
        BY <2>2, <2>4 DEF StartInv
    <2>9. StartInv'
        BY <1>0, <2>1, <2>4, <2>8 DEF StartInv, InstSet
    <2> QED
        BY <2>5, <2>7, <2>9
  <1>7. ASSUME InstKept, UNCHANGED <<fsMap, fsEntries, fsTask>> PROVE FsInv'
      BY <1>0, <1>7 DEF TaskInv, MapInv, StartInv, InstKept, At
  <1>8. ASSUME NEW g \in Gens, LoadEnds(g) \/ writeActor(g) \/ performWrite(g) PROVE FsInv'
      BY <1>7, <1>8, LoadEndsEffect DEF LoadEnds, writeActor, performWrite, FsTypeOK, InstKept
  <1>9. ASSUME NEW g \in Gens, writePersistedData(g) PROVE FsInv'
    <2>1. InstKept /\ UNCHANGED fsTask /\ CanUpsert /\ upsertEntry
        BY <1>9, SaveEffect DEF writePersistedData
    <2>2. fsEntries <= fsEntries' /\ fsEntries \in Nat /\ fsEntries' \in Nat
        BY <2>1, UpsertEffect DEF FsTypeOK
    <2>3. TaskInv'
        BY <2>1, <2>2 DEF TaskInv, At
    <2>4. StartInv'
        BY <1>0, <2>1 DEF StartInv, InstKept, At
    <2> QED
        BY <2>1, <2>3, <2>4, UpsertKeepsMapInv
  <1>10. ASSUME NEW g \in Gens, Sleep(g) \/ sleepActor(g) \/ StopEnds(g) PROVE FsInv'
    <2>1. /\ UNCHANGED <<fsEntries, fsTask>>
          /\ fsEntry[g].inst \in Live \ {"starting"}
        BY <1>10 DEF Sleep, sleepActor, StopEnds, Live
    <2>2. PICK i \in {"asleep", "stopping", "stopped"} :
            InstSet(g, i) /\ (i # "stopped" => fsMap' = fsMap) /\ (i = "stopped" => fsMap' = 0)
        BY <1>10, SleepEffect DEF Sleep, sleepActor, StopEnds
    <2>3. TaskInv'
        BY <2>1 DEF TaskInv, At
    <2>4. StartInv'
        BY <1>0, <2>1, <2>2 DEF StartInv, InstSet, At
    <2>5. g <= fsEntries /\ fsMap = g
        BY <2>1 DEF MapInv, Live, Gens, FsTypeOK
    <2>6. MapInv'
        BY <2>1, <2>2, <2>5 DEF MapInv, InstSet, Live
    <2> QED
        BY <2>3, <2>4, <2>6
  <1>11. CASE UNCHANGED fsVars
      BY <1>11 DEF fsVars, TaskInv, MapInv, StartInv, At
  <1>12. ASSUME NEW t \in FsTasks, startActor(t) PROVE FsInv'
      BY <1>1, <1>12 DEF startActor, FsOps
  <1> QED
      BY <1>1, <1>2, <1>4, <1>5, <1>6, <1>8, <1>9, <1>10, <1>11, <1>12
         DEF FsNext, FsStep, Request

LEMMA OneEntryIsLive == FsTypeOK /\ MapInv => AtMostOneInstance
  <1> SUFFICES ASSUME FsTypeOK, MapInv PROVE AtMostOneInstance
      OBVIOUS
  <1> DEFINE live == {g \in Gens : fsEntry[g].inst \in Live}
  <1>1. live \subseteq {fsMap}
      BY DEF MapInv, FsTypeOK, Gens, Live
  <1>2. Cardinality({fsMap}) = 1 /\ IsFiniteSet({fsMap})
      BY FS_Singleton
  <1>3. Cardinality(live) <= Cardinality({fsMap})
      BY <1>1, <1>2, FS_Subset
  <1> QED
      BY <1>2, <1>3 DEF AtMostOneInstance

-----------------------------------------------------------------------------
(* Cloudflare Workers driver.                                              *)

Objects == [initialized : BOOLEAN, promise : {"none", "pending", "resolved", "abandoned"},
            actor : BOOLEAN, main : Nat]
CfPcs == {"idle", "error", "done", "createActor", "initialize", "created", "putMetadata",
          "found", "fetch", "alarm", "readStorage", "waitPromise", "checkLoaded",
          "starting", "startingFetch", "startingAlarm", "onAlarm", "route",
          "notInitialized"}
Tasks == [op : Cloudflare!CfOps \cup {"none", "alarm"}, pc : CfPcs, i : Nat]

CfTypeOK ==
  /\ cfMeta \in BOOLEAN /\ cfData \in Nat /\ cfCount \in Nat
  /\ cfObject \in Objects /\ cfTask \in [CfTasks -> Tasks]

(* What is stored, and what a task knows of it at each point of its way:   *)
(* the metadata is written after the data, and a task that enters the      *)
(* object comes from one or the other.  A task that goes on to look for an *)
(* instance has seen the object initialised, and an eviction that makes    *)
(* the object forget it fails that task too.                               *)
KnowsData == {"found", "created", "putMetadata", "starting", "fetch", "alarm",
              "readStorage", "waitPromise"}

CfInv ==
  /\ cfMeta => cfData # 0
  /\ cfObject.promise = "resolved" => cfObject.initialized
  /\ \A t \in CfTasks :
       /\ cfTask[t].pc \in KnowsData => cfData # 0
       /\ cfTask[t].pc = "checkLoaded" => cfObject.initialized
       /\ cfTask[t].pc # "notInitialized"

(* Outside an eviction, nothing known of the stored data and of the object *)
(* is forgotten. *)
Remembers ==
  /\ cfMeta' \in BOOLEAN /\ cfData' \in Nat /\ cfCount' \in Nat /\ cfObject' \in Objects
  /\ cfMeta' => cfData' # 0
  /\ cfData # 0 => cfData' # 0
  /\ cfObject'.promise = "resolved" => cfObject'.initialized
  /\ cfObject.initialized => cfObject'.initialized

LEMMA UnchangedRemembers ==
    ASSUME CfTypeOK, CfInv, UNCHANGED <<cfMeta, cfData, cfObject, cfCount>>
    PROVE  Remembers
  BY DEF CfTypeOK, CfInv, Remembers

(* A step that moves one task. *)
LEMMA TaskKeepsCfInv ==
    ASSUME CfTypeOK, CfInv, NEW t \in CfTasks, NEW task \in Tasks,
           cfTask' = [cfTask EXCEPT ![t] = task], Remembers,
           task.pc \in KnowsData => cfData' # 0,
           task.pc = "checkLoaded" => cfObject'.initialized,
           task.pc # "notInitialized"
    PROVE  CfTypeOK' /\ CfInv'
  <1>1. \A u \in CfTasks : cfTask'[u] = IF u = t THEN task ELSE cfTask[u]
      BY DEF CfTypeOK
  <1>2. CfTypeOK'
      BY DEF CfTypeOK, Remembers
  <1> QED
      BY <1>1, <1>2 DEF CfInv, Remembers

LEMMA MoveKeepsCfInv ==
    ASSUME CfTypeOK, CfInv, NEW t \in CfTasks, NEW pc \in CfPcs, Cloudflare!Move(t, pc),
           Remembers,
           pc \in KnowsData => cfData' # 0,
           pc = "checkLoaded" => cfObject'.initialized,
           pc # "notInitialized"
    PROVE  CfTypeOK' /\ CfInv'
  <1> DEFINE task == [cfTask[t] EXCEPT !.pc = pc]
  <1>1. task \in Tasks /\ task.pc = pc
      BY DEF CfTypeOK, Tasks
  <1>2. cfTask' = [cfTask EXCEPT ![t] = task]
      BY DEF Cloudflare!Move
  <1> HIDE DEF task
  <1> QED
      BY <1>1, <1>2, TaskKeepsCfInv

(* The part of #loadActor after the object is known to be initialised. *)
LEMMA CheckLoadedKeepsCfInv ==
    ASSUME CfTypeOK, CfInv, NEW t \in CfTasks, cfObject.initialized,
           Cloudflare!CheckLoaded(t), UNCHANGED <<cfMeta, cfData>>
    PROVE  CfTypeOK' /\ CfInv'
  <1>1. CASE cfObject.actor
    <2> DEFINE pc == Cloudflare!AfterLoad(t)
    <2>1. Cloudflare!Move(t, pc) /\ UNCHANGED <<cfObject, cfCount, cfInst>>
        BY <1>1 DEF Cloudflare!CheckLoaded
    <2>2. /\ pc \in {"onAlarm", "putMetadata", "route"}
          /\ pc = "putMetadata" => cfData # 0
        BY DEF Cloudflare!AfterLoad, Cloudflare!At, CfInv, KnowsData
    <2> HIDE DEF pc
    <2> QED
        BY <2>1, <2>2, MoveKeepsCfInv, UnchangedRemembers DEF KnowsData, CfPcs
  <1>2. CASE ~cfObject.actor
    <2> DEFINE pc == IF Cloudflare!At(t, "created") THEN "starting" ELSE "startingFetch"
               task == [cfTask[t] EXCEPT !.i = cfCount + 1, !.pc = pc]
    <2>1. /\ cfTask' = [cfTask EXCEPT ![t] = task]
          /\ cfObject' = [cfObject EXCEPT !.actor = TRUE, !.main = cfCount + 1]
          /\ cfCount' = cfCount + 1
        BY <1>2 DEF Cloudflare!CheckLoaded, Cloudflare!Instantiate
    <2>2. pc \in {"starting", "startingFetch"} /\ (pc = "starting" => cfData # 0)
        BY DEF CfInv, KnowsData, Cloudflare!At
    <2> HIDE DEF pc
    <2>3. cfCount + 1 \in Nat /\ cfTask[t] \in Tasks /\ cfObject \in Objects
        BY DEF CfTypeOK
    <2>4. task \in Tasks /\ task.pc = pc
        BY <2>2, <2>3 DEF Tasks, CfPcs
    <2>5. /\ cfObject' \in Objects /\ cfObject'.initialized = cfObject.initialized
          /\ cfObject'.promise = cfObject.promise
        BY <2>1, <2>3 DEF Objects
    <2>6. Remembers
        BY <2>1, <2>3, <2>5 DEF Remembers, CfTypeOK, CfInv
    <2> HIDE DEF task
    <2> QED
        BY <2>1, <2>2, <2>4, <2>6, TaskKeepsCfInv DEF KnowsData
  <1> QED
      BY <1>1, <1>2

LEMMA CfInvStep ==
    CfTypeOK /\ CfInv /\ [Cloudflare!CfNext]_cloudflareVars => CfTypeOK' /\ CfInv'
  <1> SUFFICES ASSUME CfTypeOK, CfInv, [Cloudflare!CfNext]_cloudflareVars
               PROVE  CfTypeOK' /\ CfInv'
      OBVIOUS
  <1>0. \A t \in CfTasks : cfTask[t] \in Tasks /\ (cfTask[t].pc \in KnowsData => cfData # 0)
      BY DEF CfTypeOK, CfInv
  <1>1. ASSUME NEW t \in CfTasks, NEW op \in Cloudflare!CfOps, Cloudflare!Lookup(t, op)
        PROVE  CfTypeOK' /\ CfInv'
    <2> DEFINE pc == IF cfMeta THEN (IF op = "createActor" THEN "error" ELSE "found")
                     ELSE CASE op \in {"getForId", "getWithKey"} -> "error"
                            [] op = "getOrCreateWithKey" -> "createActor"
                            [] op = "createActor" -> "initialize"
               task == [op |-> op, i |-> 0, pc |-> pc]
    <2>1. /\ cfTask' = [cfTask EXCEPT ![t] = task]
          /\ UNCHANGED <<cfMeta, cfData, cfObject, cfCount, cfInst>>
        BY <1>1 DEF Cloudflare!Lookup
    <2>2. pc \in {"error", "found", "createActor", "initialize"} /\ (pc = "found" => cfMeta)
        BY <1>1 DEF Cloudflare!CfOps
    <2> HIDE DEF pc
    <2>3. task \in Tasks /\ task.pc = pc
        BY <2>2 DEF Tasks, CfPcs
    <2> HIDE DEF task
    <2>4. cfMeta => cfData # 0
        BY DEF CfInv
    <2> QED
        BY <2>1, <2>2, <2>3, <2>4, TaskKeepsCfInv, UnchangedRemembers DEF KnowsData
  <1>2. ASSUME NEW t \in CfTasks, Cloudflare!AlarmFires(t)
        PROVE  CfTypeOK' /\ CfInv'
    <2> DEFINE task == [op |-> "alarm", pc |-> "alarm", i |-> 0]
    <2>1. task \in Tasks /\ task.pc = "alarm"
        BY DEF Tasks, CfPcs
    <2>2. /\ cfTask' = [cfTask EXCEPT ![t] = task] /\ cfData # 0
          /\ UNCHANGED <<cfMeta, cfData, cfObject, cfCount, cfInst>>
        BY <1>2 DEF Cloudflare!AlarmFires, CfTypeOK
    <2> HIDE DEF task
    <2> QED
        BY <2>1, <2>2, TaskKeepsCfInv, UnchangedRemembers
  <1>3. ASSUME NEW t \in CfTasks, Cloudflare!createActor(t)
        PROVE  CfTypeOK' /\ CfInv'
    <2>1. PICK pc \in {"error", "initialize"} : Cloudflare!Move(t, pc)
        BY <1>3 DEF Cloudflare!createActor
    <2>2. UNCHANGED <<cfMeta, cfData, cfObject, cfCount>>
        BY <1>3 DEF Cloudflare!createActor
    <2> QED
        BY <2>1, <2>2, MoveKeepsCfInv, UnchangedRemembers DEF KnowsData, CfPcs
  <1>4. ASSUME NEW t \in CfTasks, Cloudflare!initialize(t)
        PROVE  CfTypeOK' /\ CfInv'
    <2>1. Cloudflare!Move(t, "created") /\ cfData' = 1
        BY <1>4 DEF Cloudflare!initialize
    <2>2. cfObject' \in Objects /\ cfObject'.initialized
        BY <1>4 DEF Cloudflare!initialize, Objects, CfTypeOK
    <2>3. Remembers
        BY <1>4, <2>1, <2>2 DEF Cloudflare!initialize, Remembers, CfTypeOK
    <2> QED
        BY <2>1, <2>3, MoveKeepsCfInv DEF CfPcs
  <1>5. ASSUME NEW t \in CfTasks, Cloudflare!PutMetadata(t)
        PROVE  CfTypeOK' /\ CfInv'
    <2>1. cfData # 0 /\ cfData' = cfData /\ Cloudflare!Move(t, "found")
        BY <1>0, <1>5 DEF Cloudflare!PutMetadata, Cloudflare!At, KnowsData
    <2>2. Remembers
        BY <1>5, <2>1 DEF Cloudflare!PutMetadata, Remembers, CfTypeOK, CfInv
    <2> QED
        BY <2>1, <2>2, MoveKeepsCfInv DEF CfPcs
  <1>6. ASSUME NEW t \in CfTasks, Cloudflare!proxyRequest(t)
        PROVE  CfTypeOK' /\ CfInv'
    <2>1. PICK pc \in {"fetch", "error"} : Cloudflare!Move(t, pc)
        BY <1>6 DEF Cloudflare!proxyRequest
    <2>2. cfData # 0 /\ UNCHANGED <<cfMeta, cfData, cfObject, cfCount>>
        BY <1>0, <1>6 DEF Cloudflare!proxyRequest, Cloudflare!At, KnowsData
    <2> QED
        BY <2>1, <2>2, MoveKeepsCfInv, UnchangedRemembers DEF CfPcs
  <1>7. ASSUME NEW t \in CfTasks, Cloudflare!loadActor(t)
        PROVE  CfTypeOK' /\ CfInv'
    <2>1. cfData # 0 /\ UNCHANGED <<cfMeta, cfData>>
        BY <1>0, <1>7 DEF Cloudflare!loadActor, Cloudflare!Entered, KnowsData
    <2>2. CASE cfObject.initialized
        BY <1>7, <2>1, <2>2, CheckLoadedKeepsCfInv DEF Cloudflare!loadActor
    <2>3. CASE ~cfObject.initialized /\ cfObject.promise = "none"
      <3>1. /\ cfObject' = [cfObject EXCEPT !.promise = "pending"]
            /\ Cloudflare!Move(t, "readStorage") /\ UNCHANGED cfCount
          BY <1>7, <2>3 DEF Cloudflare!loadActor
      <3>2. cfObject' \in Objects /\ cfObject'.promise = "pending"
          BY <3>1 DEF Objects, CfTypeOK
      <3>3. Remembers
          BY <2>1, <2>3, <3>1, <3>2 DEF Remembers, CfTypeOK
      <3> QED
          BY <2>1, <3>1, <3>3, MoveKeepsCfInv DEF CfPcs
    <2>4. CASE ~cfObject.initialized /\ cfObject.promise # "none"
      <3>1. Cloudflare!Move(t, "waitPromise") /\ UNCHANGED <<cfObject, cfCount>>
          BY <1>7, <2>4 DEF Cloudflare!loadActor
      <3> QED
          BY <2>1, <3>1, MoveKeepsCfInv, UnchangedRemembers DEF CfPcs
    <2> QED
        BY <2>2, <2>3, <2>4
  <1>8. ASSUME NEW t \in CfTasks, Cloudflare!StorageRead(t)
        PROVE  CfTypeOK' /\ CfInv'
    <2>1. cfData # 0
        BY <1>0, <1>8 DEF Cloudflare!StorageRead, Cloudflare!At, KnowsData
    <2>2. /\ cfObject' = [cfObject EXCEPT !.initialized = TRUE, !.promise = "resolved"]
          /\ Cloudflare!Move(t, "checkLoaded") /\ UNCHANGED <<cfMeta, cfData, cfCount>>
        BY <1>8, <2>1 DEF Cloudflare!StorageRead
    <2>3. cfObject' \in Objects /\ cfObject'.initialized
        BY <2>2 DEF CfTypeOK, Objects
    <2>4. Remembers
        BY <2>2, <2>3 DEF Remembers, CfTypeOK, CfInv
    <2> QED
        BY <2>2, <2>3, <2>4, MoveKeepsCfInv DEF KnowsData, CfPcs
  <1>9. ASSUME NEW t \in CfTasks, Cloudflare!PromiseResolved(t)
        PROVE  CfTypeOK' /\ CfInv'
    <2>1. /\ Cloudflare!Move(t, "checkLoaded") /\ UNCHANGED <<cfMeta, cfData, cfObject, cfCount>>
          /\ cfObject.initialized
        BY <1>9 DEF Cloudflare!PromiseResolved, CfInv
    <2> QED
        BY <2>1, MoveKeepsCfInv, UnchangedRemembers DEF KnowsData, CfPcs
  <1>10. ASSUME NEW t \in CfTasks, Cloudflare!ResumeLoad(t)
         PROVE  CfTypeOK' /\ CfInv'
      BY <1>10, CheckLoadedKeepsCfInv DEF Cloudflare!ResumeLoad, Cloudflare!At, CfInv
  <1>11. ASSUME NEW t \in CfTasks, Cloudflare!Started(t)
         PROVE  CfTypeOK' /\ CfInv'
    <2>1. UNCHANGED <<cfMeta, cfData, cfObject, cfCount>>
        BY <1>11 DEF Cloudflare!Started
    <2>2. CASE cfTask[t].pc = "starting"
      <3>1. cfData # 0 /\ \E pc \in {"putMetadata", "error"} : Cloudflare!Move(t, pc)
          BY <1>0, <1>11, <2>2 DEF Cloudflare!Started, Cloudflare!At, KnowsData
      <3> QED
          BY <2>1, <3>1, MoveKeepsCfInv, UnchangedRemembers DEF CfPcs
    <2>3. CASE cfTask[t].pc # "starting"
      <3>1. PICK pc \in {"onAlarm", "route", "done", "error"} : Cloudflare!Move(t, pc)
          BY <1>11, <2>3 DEF Cloudflare!Started, Cloudflare!AfterLoad, Cloudflare!At
      <3> QED
          BY <2>1, <3>1, MoveKeepsCfInv, UnchangedRemembers DEF KnowsData, CfPcs
    <2> QED
        BY <2>2, <2>3
  <1>12. ASSUME NEW t \in CfTasks, Cloudflare!Route(t)
         PROVE  CfTypeOK' /\ CfInv'
    <2>1. Cloudflare!Move(t, "done") /\ UNCHANGED <<cfMeta, cfData, cfObject, cfCount>>
        BY <1>12 DEF Cloudflare!Route
    <2> QED
        BY <2>1, MoveKeepsCfInv, UnchangedRemembers DEF KnowsData, CfPcs
  <1>13. ASSUME NEW t \in CfTasks, Cloudflare!alarm(t)
         PROVE  CfTypeOK' /\ CfInv'
    <2> DEFINE task == [cfTask[t] EXCEPT !.pc = "startingAlarm", !.i = cfCount + 1]
    <2>1. cfCount + 1 \in Nat
        BY DEF CfTypeOK
    <2>2. task \in Tasks /\ task.pc = "startingAlarm"
        BY <1>0, <2>1 DEF Tasks, CfPcs
    <2>3. /\ cfTask' = [cfTask EXCEPT ![t] = task] /\ cfCount' = cfCount + 1
          /\ UNCHANGED <<cfMeta, cfData, cfObject>>
        BY <1>13 DEF Cloudflare!alarm, Cloudflare!Instantiate
    <2> HIDE DEF task
    <2>4. Remembers
        BY <2>1, <2>3 DEF Remembers, CfTypeOK, CfInv
    <2> QED
        BY <2>2, <2>3, <2>4, TaskKeepsCfInv DEF KnowsData
  <1>14. CASE \E i \in Cloudflare!Instances :
                 \/ Cloudflare!InstanceStarts(i) \/ Cloudflare!InstanceFails(i)
                 \/ Cloudflare!writePersistedData(i)
      BY <1>14 DEF Cloudflare!InstanceStarts, Cloudflare!InstanceFails,
                   Cloudflare!writePersistedData, CfTypeOK, CfInv
  <1>15. ASSUME NEW i \in Cloudflare!Instances, Cloudflare!WriteEnds(i)
         PROVE  CfTypeOK' /\ CfInv'
    <2>1. i + 1 \in Nat /\ i + 1 # 0
        BY DEF Cloudflare!Instances
    <2> QED
        BY <1>15, <2>1 DEF Cloudflare!WriteEnds, CfTypeOK, CfInv
  <1>16. CASE Cloudflare!Evict
    <2>1. ASSUME NEW t \in CfTasks
          PROVE  /\ cfTask'[t] \in Tasks
                 /\ \/ cfTask'[t].pc = cfTask[t].pc /\ cfTask[t].pc # "checkLoaded"
                    \/ cfTask'[t].pc = "error"
      <3>1. CASE cfTask'[t] = cfTask[t] /\ cfTask[t].pc # "checkLoaded"
          BY <1>0, <3>1
      <3>2. CASE cfTask'[t] = [cfTask[t] EXCEPT !.pc = "error"]
          BY <1>0, <3>2 DEF Tasks, CfPcs
      <3> QED
          BY <1>16, <3>1, <3>2 DEF Cloudflare!Evict
    <2>3. cfObject' \in Objects /\ cfObject'.promise = "none"
        BY <1>16 DEF Cloudflare!Evict, Cloudflare!Fresh, Objects
    <2>4. DOMAIN cfTask' = CfTasks /\ cfTask' = [t \in CfTasks |-> cfTask'[t]]
          /\ UNCHANGED <<cfMeta, cfData, cfCount>>
        BY <1>16 DEF Cloudflare!Evict
    <2>5. CfTypeOK'
        BY <2>1, <2>3, <2>4 DEF CfTypeOK
    <2> QED
        BY <2>1, <2>3, <2>4, <2>5 DEF CfInv, KnowsData
  <1>17. ASSUME NEW t \in CfTasks, Cloudflare!StorageFails(t)
         PROVE  CfTypeOK' /\ CfInv'
    <2>1. Cloudflare!Move(t, "error") /\ UNCHANGED <<cfMeta, cfData, cfCount>>
        BY <1>17 DEF Cloudflare!StorageFails
    <2>2. cfObject \in Objects
        BY DEF CfTypeOK
    <2>3. /\ cfObject' \in Objects /\ cfObject'.initialized = cfObject.initialized
          /\ cfObject'.promise = "resolved" => cfObject.promise = "resolved"
        BY <1>17, <2>2 DEF Cloudflare!StorageFails, Objects
    <2>4. Remembers
        BY <2>1, <2>3 DEF Remembers, CfTypeOK, CfInv
    <2> QED
        BY <2>1, <2>4, MoveKeepsCfInv DEF KnowsData, CfPcs
  <1>18. CASE UNCHANGED cloudflareVars
      BY <1>18 DEF cloudflareVars, CfTypeOK, CfInv
  <1> QED
      BY <1>1, <1>2, <1>3, <1>4, <1>5, <1>6, <1>7, <1>8, <1>9, <1>10, <1>11, <1>12, <1>13,
         <1>14, <1>15, <1>16, <1>17, <1>18 DEF Cloudflare!CfNext, Cloudflare!CfStep

-----------------------------------------------------------------------------
(* The deployment.                                                         *)

DriversInv == FsTypeOK /\ FsInv /\ CfTypeOK /\ CfInv

(* A step of the deployment is a step of one driver, and a stutter of the  *)
(* others. *)
LEMMA StepOfEach ==
    [Next]_vars => [FsNext]_fsVars /\ [Cloudflare!CfNext]_cloudflareVars
  BY DEF Next, vars, fsVars, cloudflareVars, engineVars

(* For any number of requests, entries and instances: what an entry, its   *)
(* tasks and the object know of each other holds of every reachable state. *)
THEOREM DriversInvariant == Spec => []DriversInv
  <1>1. Init => DriversInv
    <2>1. FsInit => FsTypeOK
      <3> SUFFICES ASSUME FsInit PROVE FsTypeOK
          OBVIOUS
      <3>1. NewEntry \in Entries
          BY DEF NewEntry, Entries
      <3> QED
          BY <3>1, FsAssumption DEF FsInit, FsTypeOK, FsOps
    <2>2. FsInit => FsInv
        BY FsAssumption DEF FsInit, FsInv, TaskInv, MapInv, StartInv, At, Gens, NewEntry
    <2>3. ASSUME Cloudflare!CfInit PROVE CfTypeOK /\ CfInv
      <3> DEFINE task == [op |-> "none", pc |-> "idle", i |-> 0]
      <3>1. /\ cfObject \in Objects /\ cfObject.promise = "none"
            /\ task \in Tasks /\ task.pc = "idle"
          BY <2>3 DEF Cloudflare!CfInit, Cloudflare!Fresh, Objects, Tasks, CfPcs
      <3>2. cfTask = [t \in CfTasks |-> task] /\ cfMeta = FALSE /\ cfData = 0 /\ cfCount = 0
          BY <2>3 DEF Cloudflare!CfInit
      <3> HIDE DEF task
      <3> QED
          BY <3>1, <3>2 DEF CfTypeOK, CfInv, KnowsData
    <2> QED
        BY <2>1, <2>2, <2>3 DEF Init, DriversInv
  <1>2. DriversInv /\ [Next]_vars => DriversInv'
      BY StepOfEach, FsTypeStep, FsInvStep, CfInvStep DEF DriversInv, FsInv
  <1> QED
      BY <1>1, <1>2, PTL DEF Spec

(* File-system driver: no two instances of the actor are alive at once,    *)
(* however requests, sleeps and late writes of stopped instances fall.     *)
THEOREM OneInstanceAlive == Spec => []AtMostOneInstance
  <1>1. DriversInv => AtMostOneInstance
      BY OneEntryIsLive DEF DriversInv, FsInv
  <1> QED
      BY <1>1, DriversInvariant, PTL

(* Cloudflare: no request that the manager let through meets an object     *)
(* that was never initialised, across creations and evictions.             *)
THEOREM ObjectsAreInitialised == Spec => []NeverUninitialised
  <1>1. DriversInv => NeverUninitialised
      BY DEF DriversInv, CfInv, NeverUninitialised, Cloudflare!NeverUninitialised, Cloudflare!At
  <1> QED
      BY <1>1, DriversInvariant, PTL
=============================================================================
