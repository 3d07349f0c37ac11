---------------------------- MODULE ActorSchedule ----------------------------
(***************************************************************************)
(* Scheduled events of one actor: the persisted, sorted list and the alarm *)
(* write queue of the instance (packages/rivetkit/src/actor/instance.ts)   *)
(* composed with the alarms of the file-system driver                      *)
(* (drivers/file-system/global-state.ts), through sleeps, wake-ups, failed *)
(* alarm writes and crashes of the process.                                *)
(*                                                                         *)
(* Each step is what the code does between two awaits that really wait (a  *)
(* file operation, a timer, a hook); continuations that run in the same    *)
(* turn of the event loop belong to the step that resolves them.  How      *)
(* #persist reaches storage is the subject of ActorPersist; here a save is *)
(* one step, and, as there, it needs a change of the state to happen.      *)
(***************************************************************************)
EXTENDS Naturals, Sequences, Functions, PromiseQueue

CONSTANTS
    Events,         \* scheduled events
    Alarms,         \* bound: alarm callbacks in flight
    MaxTime,        \* bound: the clock, and the timestamps of events
    EarlyBy,        \* how early, at most, a timer may fire
    MaxSleeps,      \* bound: how often the actor is put to sleep
    MaxCrashes,     \* bound: process crashes
    WritesMayFail,  \* BOOLEAN: setAlarm and unlink may reject
    StartMayFail    \* BOOLEAN: a hook of start() may throw

(* The other awaiters of an alarm write: start(), and callers of            *)
(* schedule.at and schedule.after.                                          *)
Starter == "start"
Caller  == "caller"

ASSUME ScheduleAssumption ==
    /\ MaxTime \in Nat /\ EarlyBy \in Nat /\ MaxSleeps \in Nat /\ MaxCrashes \in Nat
    /\ WritesMayFail \in BOOLEAN /\ StartMayFail \in BOOLEAN
    /\ Starter \notin Alarms /\ Caller \notin Alarms

Times       == 1 .. MaxTime
NoAlarm     == 0
Generations == 0 .. MaxSleeps
Waiters     == Alarms \union {Starter, Caller}

VARIABLES
    now,         \* Date.now()
    inst,        \* how far the instance has come
    scheduled,   \* #persist.scheduledEvents
    timestamp,   \* timestamp of each event, NoAlarm before it is scheduled
    dirty,       \* #persistChanged
    stored,      \* scheduledEvents as last written to storage
    alarmQueue,  \* #alarmWriteQueue
    generation,  \* which ActorEntry is in the driver's map
    alarmTimer,  \* per entry, alarmTimestamp: the entry's pending alarm
    alarmFile,   \* the alarm file on disk
    pc,          \* where each alarm callback is
    taken,       \* the events an alarm callback has removed and not yet run
    \* History, read by the properties only.
    ran,         \* events whose action has been called
    lost,        \* events that a sleep or a crash forgot
    failed,      \* an alarm write has been rejected
    crashes

instance == <<inst, scheduled, timestamp, dirty, stored>>
driver   == <<generation, alarmTimer, alarmFile>>
hist     == <<ran, lost, failed, crashes>>
vars     == <<now, instance, alarmQueue, driver, pc, taken, hist>>

Insts == {"none", "loading", "starting", "arming", "ready", "stopping",
          "flushed", "wedged"}
PCs   == {"idle", "unlinking", "waking", "settingAlarm"}

Init ==
    /\ now = 0
    /\ inst = "none"
    /\ scheduled = <<>>
    /\ timestamp = [e \in Events |-> NoAlarm]
    /\ dirty = FALSE
    /\ stored = <<>>
    /\ alarmQueue = EmptyQueue
    /\ generation = 0
    /\ alarmTimer = [g \in Generations |-> NoAlarm]
    /\ alarmFile = NoAlarm
    /\ pc = [a \in Alarms |-> "idle"]
    /\ taken = [a \in Alarms |-> {}]
    /\ ran = {} /\ lost = {} /\ failed = FALSE /\ crashes = 0

(* entry.actor is set and its #persist is too. *)
Running == inst \in {"starting", "arming", "ready", "stopping", "flushed", "wedged"}

Tick ==
    /\ now < MaxTime
    /\ now' = now + 1
    /\ UNCHANGED <<instance, alarmQueue, driver, pc, taken, hist>>

-----------------------------------------------------------------------------
(* The schedule of the instance.                                            *)

FirstIndex(indices) == CHOOSE i \in indices : \A j \in indices : i <= j

(* Faulty variant of InsertAt: a new event goes in front of one that is due *)
(* at the same time or earlier.                                             *)
InsertAtFront(s, ts, e) == 1

(* The 1-based insertIndex of #scheduleEventInner: before the first event   *)
(* that is later than e, at the end if there is none.                       *)
InsertAt(s, ts, e) ==
    LET later == {i \in DOMAIN s : ts[s[i]] > ts[e]}
    IN  IF later = {} THEN Len(s) + 1 ELSE FirstIndex(later)

(* The push or the splice of #scheduleEventInner. *)
Insert(s, i, e) ==
    [j \in 1 .. Len(s) + 1 |-> IF j < i THEN s[j]
                               ELSE IF j = i THEN e ELSE s[j - 1]]

(* schedule.at(t) or schedule.after, from any user code of the instance:    *)
(* the alarm is set if e comes first.                                       *)
ScheduleEvent(e, t) ==
    /\ Running
    /\ timestamp[e] = NoAlarm
    /\ timestamp' = [timestamp EXCEPT ![e] = t]
    /\ LET i == InsertAt(scheduled, timestamp', e)
       IN  /\ scheduled' = Insert(scheduled, i, e)
           /\ alarmQueue' = IF i = 1 THEN EnqueueOp(alarmQueue, t, Caller)
                            ELSE alarmQueue
    /\ UNCHANGED <<now, inst, dirty, stored, driver, pc, taken, hist>>

(* Faulty variant of OnAlarm: an alarm that finds nothing due is ignored. *)
OnAlarmIgnoresEarly(a) ==
    LET due  == {i \in DOMAIN scheduled : timestamp[scheduled[i]] <= now}
        k    == IF due = {} THEN Len(scheduled) ELSE FirstIndex(due)
        run  == IF due = {} THEN {} ELSE Range(SubSeq(scheduled, 1, k))
        rest == SubSeq(scheduled, k + 1, Len(scheduled))
    IN  /\ scheduled' = IF due = {} THEN scheduled ELSE rest
        /\ IF rest = <<>>
           THEN /\ ran' = ran \union run
                /\ pc' = [pc EXCEPT ![a] = "idle"]
                /\ UNCHANGED <<alarmQueue, taken>>
           ELSE /\ alarmQueue' = EnqueueOp(alarmQueue, timestamp[rest[1]], a)
                /\ taken' = [taken EXCEPT ![a] = run]
                /\ pc' = [pc EXCEPT ![a] = "settingAlarm"]
                /\ UNCHANGED ran

(* Faulty variant of OnAlarm: the events to run are copied, not removed. *)
OnAlarmCopies(a) ==
    LET due  == {i \in DOMAIN scheduled : timestamp[scheduled[i]] <= now}
        k    == IF due = {} THEN 0 ELSE FirstIndex(due)
        rest == SubSeq(scheduled, k + 1, Len(scheduled))
    IN  /\ UNCHANGED scheduled
        /\ IF rest = <<>>
           THEN /\ ran' = ran \union Range(SubSeq(scheduled, 1, k))
                /\ pc' = [pc EXCEPT ![a] = "idle"]
                /\ UNCHANGED <<alarmQueue, taken>>
           ELSE /\ alarmQueue' = EnqueueOp(alarmQueue, timestamp[rest[1]], a)
                /\ taken' = [taken EXCEPT ![a] = Range(SubSeq(scheduled, 1, k))]
                /\ pc' = [pc EXCEPT ![a] = "settingAlarm"]
                /\ UNCHANGED ran

(* _onAlarm by callback a, up to its first await or to its end: the events  *)
(* up to the first due one are removed (just that one, as the list is       *)
(* sorted), the alarm is set for the next one, and only then are the        *)
(* removed events run.  Nothing due: the alarm is set again.                *)
OnAlarm(a) ==
    LET due  == {i \in DOMAIN scheduled : timestamp[scheduled[i]] <= now}
        k    == IF due = {} THEN 0 ELSE FirstIndex(due)
        run  == Range(SubSeq(scheduled, 1, k))
        rest == SubSeq(scheduled, k + 1, Len(scheduled))
    IN  /\ scheduled' = rest
        /\ IF rest = <<>>
           THEN /\ ran' = ran \union run
                /\ pc' = [pc EXCEPT ![a] = "idle"]
                /\ UNCHANGED <<alarmQueue, taken>>
           ELSE /\ alarmQueue' = EnqueueOp(alarmQueue, timestamp[rest[1]], a)
                /\ taken' = [taken EXCEPT ![a] = run]
                /\ pc' = [pc EXCEPT ![a] = "settingAlarm"]
                /\ UNCHANGED ran

(* User code changes the state. *)
StateChanges ==
    /\ Running
    /\ ~dirty
    /\ dirty' = TRUE
    /\ UNCHANGED <<now, inst, scheduled, timestamp, stored, alarmQueue, driver,
                   pc, taken, hist>>

(* A save that finds the state dirty writes all of #persist. *)
SavePersist ==
    /\ inst = "ready" /\ dirty
    /\ dirty' = FALSE
    /\ stored' = scheduled
    /\ UNCHANGED <<now, inst, scheduled, timestamp, alarmQueue, driver, pc,
                   taken, hist>>

-----------------------------------------------------------------------------
(* Alarms of the file-system driver.                                        *)

(* Faulty variant of ScheduleAlarmTimeout: the timer is armed for the time  *)
(* after t.                                                                 *)
ScheduleAlarmTimeoutLate(t) ==
    IF alarmTimer[generation] # NoAlarm /\ t >= alarmTimer[generation]
    THEN alarmTimer
    ELSE [alarmTimer EXCEPT ![generation] = t + 1]

(* #scheduleAlarmTimeout: an earlier pending alarm is not overridden. *)
ScheduleAlarmTimeout(t) ==
    IF alarmTimer[generation] # NoAlarm /\ t >= alarmTimer[generation]
    THEN alarmTimer
    ELSE [alarmTimer EXCEPT ![generation] = t]

(* The running setAlarm settles.  A rejection is swallowed by the queue.    *)
(* start() and the alarm callbacks of the cycle go on; the latter run their *)
(* events.                                                                  *)
SetAlarmSettles(ok) ==
    \E l \in alarmQueue.loops : \E t \in l.ops :
        /\ ok \/ WritesMayFail
        /\ IF ok
           THEN /\ alarmFile' = t
                /\ alarmTimer' = ScheduleAlarmTimeout(t)
           ELSE UNCHANGED <<alarmFile, alarmTimer>>
        /\ failed' = (failed \/ ~ok)
        /\ alarmQueue' = SettleOp(alarmQueue, l)
        /\ pc' = [a \in Alarms |-> IF a \in l.cycle THEN "idle" ELSE pc[a]]
        /\ taken' = [a \in Alarms |-> IF a \in l.cycle THEN {} ELSE taken[a]]
        /\ ran' = ran \union UNION {taken[a] : a \in Alarms \intersect l.cycle}
        /\ inst' = IF Starter \in l.cycle THEN "ready" ELSE inst
        /\ UNCHANGED <<now, scheduled, timestamp, dirty, stored, generation,
                       lost, crashes>>

(* The timer of entry g fires and the removal of the alarm file begins.  An *)
(* entry that a sleep has removed from the map keeps its timer.             *)
AlarmFires(g, a) ==
    /\ alarmTimer[g] # NoAlarm
    /\ now + EarlyBy >= alarmTimer[g]
    /\ pc[a] = "idle"
    /\ alarmTimer' = [alarmTimer EXCEPT ![g] = NoAlarm]
    /\ pc' = [pc EXCEPT ![a] = "unlinking"]
    /\ UNCHANGED <<now, instance, alarmQueue, generation, alarmFile, taken, hist>>

(* The file is removed, or not.  An instance whose start() has begun gets   *)
(* _onAlarm at once; otherwise the callback waits for one to be started.    *)
AlarmUnlinked(a, ok) ==
    /\ pc[a] = "unlinking"
    /\ ok \/ WritesMayFail
    /\ alarmFile' = IF ok THEN NoAlarm ELSE alarmFile
    /\ \/ /\ Running
          /\ OnAlarm(a)
          /\ UNCHANGED inst
       \/ /\ ~Running
          /\ inst' = "loading"
          /\ pc' = [pc EXCEPT ![a] = "waking"]
          /\ UNCHANGED <<scheduled, alarmQueue, taken, ran>>
    /\ UNCHANGED <<now, timestamp, dirty, stored, generation, alarmTimer,
                   lost, failed, crashes>>

(* The callback's wait for startActor is over. *)
AlarmWakes(a) ==
    /\ pc[a] = "waking"
    /\ inst = "ready"
    /\ OnAlarm(a)
    /\ UNCHANGED <<now, inst, timestamp, dirty, stored, driver, lost, failed,
                   crashes>>

-----------------------------------------------------------------------------
(* Starting and stopping.                                                   *)

(* A request makes the driver load the actor. *)
RequestWakes ==
    /\ inst = "none"
    /\ inst' = "loading"
    /\ UNCHANGED <<now, scheduled, timestamp, dirty, stored, alarmQueue, driver,
                   pc, taken, hist>>

(* The state file has been read; #initialize restores it and the hooks of   *)
(* start() are called.                                                      *)
StateLoaded ==
    /\ inst = "loading"
    /\ inst' = "starting"
    /\ scheduled' = stored
    /\ UNCHANGED <<now, timestamp, dirty, stored, alarmQueue, driver, pc, taken,
                   hist>>

(* Faulty variant of StartArms: start() trusts the alarms set before. *)
StartArmsNothing ==
    /\ inst = "starting"
    /\ inst' = "ready"
    /\ UNCHANGED <<now, scheduled, timestamp, dirty, stored, alarmQueue, driver,
                   pc, taken, hist>>

(* The hooks have returned: the alarm is set for the first event. *)
StartArms ==
    /\ inst = "starting"
    /\ IF scheduled = <<>>
       THEN /\ inst' = "ready"
            /\ UNCHANGED alarmQueue
       ELSE /\ inst' = "arming"
            /\ alarmQueue' = EnqueueOp(alarmQueue, timestamp[scheduled[1]], Starter)
    /\ UNCHANGED <<now, scheduled, timestamp, dirty, stored, driver, pc, taken,
                   hist>>

(* A hook throws: entry.actor stays, and will never be ready.  The alarm    *)
(* callbacks that waited for it give up.                                    *)
StartFails ==
    /\ StartMayFail
    /\ inst = "starting"
    /\ inst' = "wedged"
    /\ pc' = [a \in Alarms |-> IF pc[a] = "waking" THEN "idle" ELSE pc[a]]
    /\ UNCHANGED <<now, scheduled, timestamp, dirty, stored, alarmQueue, driver,
                   taken, hist>>

(* _sleep, and sleepActor calls _stop.  A callback whose wait is over runs  *)
(* before any timer can put the actor to sleep.                             *)
Sleep ==
    /\ inst = "ready"
    /\ generation < MaxSleeps
    /\ \A a \in Alarms : pc[a] # "waking"
    /\ inst' = "stopping"
    /\ UNCHANGED <<now, scheduled, timestamp, dirty, stored, alarmQueue, driver,
                   pc, taken, hist>>

(* _stop saves, if the state is dirty. *)
StopFlushes ==
    /\ inst = "stopping"
    /\ inst' = "flushed"
    /\ stored' = IF dirty THEN scheduled ELSE stored
    /\ dirty' = FALSE
    /\ UNCHANGED <<now, scheduled, timestamp, alarmQueue, driver, pc, taken,
                   hist>>

(* Faulty variant of StopReturns: the alarm queue is not drained. *)
StopReturnsAtOnce ==
    /\ inst = "flushed"
    /\ inst' = "none"
    /\ scheduled' = <<>>
    /\ dirty' = FALSE
    /\ alarmQueue' = EmptyQueue
    /\ pc' = [a \in Alarms |-> IF pc[a] = "settingAlarm" THEN "idle" ELSE pc[a]]
    /\ taken' = [a \in Alarms |-> {}]
    /\ lost' = lost \union (Range(scheduled) \ Range(stored))
    /\ ran' = ran \union UNION {taken[a] : a \in Alarms}
    /\ generation' = generation + 1
    /\ UNCHANGED <<now, timestamp, stored, alarmTimer, alarmFile, failed, crashes>>

(* Once the alarm queue is drained _stop returns and the entry is removed   *)
(* from the map; its timer is not cancelled.                                *)
StopReturns ==
    /\ inst = "flushed"
    /\ ~RunningDrainLoop(alarmQueue)
    /\ inst' = "none"
    /\ scheduled' = <<>>
    /\ dirty' = FALSE
    /\ lost' = lost \union (Range(scheduled) \ Range(stored))
    /\ generation' = generation + 1
    /\ UNCHANGED <<now, timestamp, stored, alarmQueue, alarmTimer, alarmFile,
                   pc, taken, ran, failed, crashes>>

(* The process dies, with the running alarm write applied or not, and a new *)
(* one starts: onRunnerStart arms the alarm found on disk.                  *)
Crash ==
    /\ crashes < MaxCrashes
    /\ crashes' = crashes + 1
    /\ inst' = "none"
    /\ scheduled' = <<>>
    /\ dirty' = FALSE
    /\ alarmQueue' = EmptyQueue
    /\ \/ UNCHANGED alarmFile
       \/ \E l \in alarmQueue.loops : alarmFile' \in l.ops
    /\ alarmTimer' = [g \in Generations |->
                        IF g = generation THEN alarmFile' ELSE NoAlarm]
    /\ pc' = [a \in Alarms |-> "idle"]
    /\ taken' = [a \in Alarms |-> {}]
    /\ lost' = lost \union ((Range(scheduled) \union UNION {taken[a] : a \in Alarms})
                               \ Range(stored))
    /\ UNCHANGED <<now, timestamp, stored, generation, ran, failed>>

-----------------------------------------------------------------------------
Next ==
    \/ Tick
    \/ \E e \in Events, t \in Times : ScheduleEvent(e, t)
    \/ StateChanges
    \/ SavePersist
    \/ \E ok \in BOOLEAN : SetAlarmSettles(ok)
    \/ \E g \in Generations, a \in Alarms : AlarmFires(g, a)
    \/ \E a \in Alarms, ok \in BOOLEAN : AlarmUnlinked(a, ok)
    \/ \E a \in Alarms : AlarmWakes(a)
    \/ RequestWakes
    \/ StateLoaded
    \/ StartArms
    \/ StartFails
    \/ Sleep
    \/ StopFlushes
    \/ StopReturns
    \/ Crash

(* Time passes, timers fire, file operations settle, the hooks of start()   *)
(* return, and _stop moves on, since every wait of it has a deadline.       *)
Fairness ==
    /\ WF_vars(Tick)
    /\ WF_vars(\E ok \in BOOLEAN : SetAlarmSettles(ok))
    /\ \A g \in Generations : WF_vars(\E a \in Alarms : AlarmFires(g, a))
    /\ \A a \in Alarms :
          /\ WF_vars(\E ok \in BOOLEAN : AlarmUnlinked(a, ok))
          /\ WF_vars(AlarmWakes(a))
    /\ WF_vars(StateLoaded)
    /\ WF_vars(StartArms)
    /\ WF_vars(StopFlushes)
    /\ WF_vars(StopReturns)

Spec == Init /\ [][Next]_vars /\ Fairness

-----------------------------------------------------------------------------
(* The variables hold values of their types. *)
TypeOK ==
    /\ now \in 0 .. MaxTime
    /\ inst \in Insts
    /\ scheduled \in Seq(Events) /\ stored \in Seq(Events)
    /\ timestamp \in [Events -> 0 .. MaxTime]
    /\ dirty \in BOOLEAN
    /\ alarmQueue \in Queues(Times, Waiters)
    /\ generation \in Generations
    /\ alarmTimer \in [Generations -> 0 .. MaxTime]
    /\ alarmFile \in 0 .. MaxTime
    /\ pc \in [Alarms -> PCs]
    /\ taken \in [Alarms -> SUBSET Events]
    /\ ran \subseteq Events /\ lost \subseteq Events
    /\ failed \in BOOLEAN
    /\ crashes \in 0 .. MaxCrashes

Sorted(s) ==
    \A i, j \in DOMAIN s : i < j => timestamp[s[i]] <= timestamp[s[j]]

(* The list stays sorted through insertions, removals and restarts, which   *)
(* both _onAlarm and the choice of the next alarm rely on.                  *)
ScheduleSorted == Sorted(scheduled) /\ Sorted(stored)

(* No alarm callback has taken the alarm without having set the next one. *)
NoAlarmUnderWay ==
    /\ alarmQueue = EmptyQueue
    /\ \A a \in Alarms : pc[a] \notin {"unlinking", "waking"}

(* While a ready instance has events and no alarm operation is under way,   *)
(* some timer is armed no later than its first event, whatever earlier or   *)
(* orphaned alarms have fired, as long as no alarm write was rejected.      *)
NextEventIsArmed ==
    (inst = "ready" /\ scheduled # <<>> /\ NoAlarmUnderWay /\ ~failed)
        => \E g \in Generations :
              alarmTimer[g] # NoAlarm /\ alarmTimer[g] <= timestamp[scheduled[1]]

(* In the same states the alarm file names a time no later than the first   *)
(* event, so that a crash now cannot lose the wake-up: a callback that      *)
(* removes the file written by a concurrent setAlarm writes it again.       *)
NextEventIsOnDisk ==
    (inst = "ready" /\ scheduled # <<>> /\ NoAlarmUnderWay /\ ~failed)
        => alarmFile # NoAlarm /\ alarmFile <= timestamp[scheduled[1]]

(* An event is in one place only: in the list, or in the hands of one alarm *)
(* callback, so that no two callbacks of an instance run it.                *)
TakenOnce ==
    \A a \in Alarms :
        /\ taken[a] \intersect Range(scheduled) = {}
        /\ \A b \in Alarms \ {a} : taken[a] \intersect taken[b] = {}
        /\ \A e, f \in taken[a] : e = f

(* Every scheduled event is run in the end, through sleeps and wake-ups by  *)
(* whatever timer is left, unless it is forgotten by a sleep that did not   *)
(* save it, the process dies, or setAlarm or start() fails.                 *)
EveryEventRuns ==
    \A e \in Events :
        (timestamp[e] # NoAlarm) ~>
            (e \in ran \/ e \in lost \/ failed \/ crashes > 0 \/ inst = "wedged")

-----------------------------------------------------------------------------
(* The inductive invariant behind the safety properties.                    *)

Waits(q, w) == w \in q.pending \/ \E l \in q.loops : w \in l.cycle

WaitsOnce(q, w) == ~(w \in q.pending /\ \E l \in q.loops : w \in l.cycle)

(* One drain loop at most, with one operation; an idle queue is empty, and  *)
(* nobody waits for an operation that is not queued.                        *)
OneOpAtATime(q) ==
    /\ \A l1, l2 \in q.loops : l1 = l2
    /\ q.loops = {} => q = EmptyQueue
    /\ q.queuedOp = {} => q.pending = {}
    /\ \A l \in q.loops : \E t \in Times : l.ops = {t}
    /\ q.queuedOp # {} => \E t \in Times : q.queuedOp = {t}

AlarmQueueInv == OneOpAtATime(alarmQueue)

(* Whoever waits for the queue is where that wait is awaited and waits for  *)
(* one cycle only; events are held only by callbacks that wait; nothing     *)
(* waits while there is no instance.                                        *)
CallbackInv ==
    /\ \A a \in Alarms : Waits(alarmQueue, a) <=> pc[a] = "settingAlarm"
    /\ Waits(alarmQueue, Starter) => inst = "arming"
    /\ \A w \in Alarms \union {Starter} : WaitsOnce(alarmQueue, w)
    /\ \A a \in Alarms : pc[a] # "settingAlarm" => taken[a] = {}
    /\ ~Running => alarmQueue = EmptyQueue

(* Lists are sorted, without repetition, of events that have a timestamp,   *)
(* and what callbacks hold is neither in the list nor held twice.           *)
ListInv ==
    /\ ScheduleSorted
    /\ IsInjective(scheduled) /\ IsInjective(stored)
    /\ \A e \in Events :
          timestamp[e] = NoAlarm =>
              /\ e \notin Range(scheduled) /\ e \notin Range(stored)
              /\ \A a \in Alarms : e \notin taken[a]
    /\ TakenOnce

(* The operation of q that runs last sets the alarm to t. *)
SetsLast(q, t) ==
    IF q.queuedOp # {} THEN q.queuedOp = {t} ELSE \E l \in q.loops : l.ops = {t}

AlarmInHand == \E a \in Alarms : pc[a] \in {"unlinking", "waking"}

(* A busy queue ends with the alarm of the first event; otherwise, once     *)
(* start() has armed it, that alarm is in a timer and in the file, or in    *)
(* the hands of a callback that will set it again.                          *)
ArmedInv ==
    scheduled # <<>> =>
        /\ alarmQueue.loops # {} => SetsLast(alarmQueue, timestamp[scheduled[1]])
        /\ \/ failed
           \/ inst \notin {"arming", "ready", "stopping", "flushed"}
           \/ alarmQueue.loops # {}
           \/ AlarmInHand
           \/ /\ \E g \in Generations :
                    alarmTimer[g] # NoAlarm /\ alarmTimer[g] <= timestamp[scheduled[1]]
              /\ alarmFile # NoAlarm /\ alarmFile <= timestamp[scheduled[1]]

(* A sleep under way is counted only when it is over. *)
SleepInv == inst \in {"stopping", "flushed"} => generation < MaxSleeps

ScheduleInv == AlarmQueueInv /\ CallbackInv /\ ListInv /\ ArmedInv /\ SleepInv

=============================================================================
